--------------------------- MODULE MCAtomicFile ---------------------------
(* AtomicFile with a handful of payloads: the value on the card, the one a *)
(* save() is given, and a third one, left by an earlier attempt.           *)
EXTENDS AtomicFile
=============================================================================
