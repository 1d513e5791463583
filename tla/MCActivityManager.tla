------------------------- MODULE MCActivityManager --------------------------
(* ActivityManager with a handful of activity objects. *)
EXTENDS ActivityManager

Symmetry == Permutations(Activity)
=============================================================================
