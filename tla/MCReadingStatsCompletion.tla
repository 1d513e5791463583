---------------------- MODULE MCReadingStatsCompletion ----------------------
(* Two books, in one of which pages are read. *)
EXTENDS ReadingStatsCompletion
=============================================================================
