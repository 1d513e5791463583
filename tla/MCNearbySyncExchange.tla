----------------------- MODULE MCNearbySyncExchange -----------------------
(***************************************************************************)
(* NearbySyncExchange among two or three readers, and PeerSequence, whose  *)
(* arithmetic its radio relies on, for a six-bit counter.                  *)
(***************************************************************************)
EXTENDS NearbySyncExchange, PeerSequence

CONSTANTS a, b, c

(* Two readers that time out, walk away and start over, with a radio call  *)
(* that fails; and three of which one changes its offer.                   *)
Restarts ==
  [present |-> {a, b}, fickle |-> {}, impatient |-> TRUE,
   sessions |-> 2, flight |-> 2, sendFaults |-> 1]

Bystander ==
  [present |-> {a, b, c}, fickle |-> {c}, impatient |-> FALSE,
   sessions |-> 1, flight |-> 1, sendFaults |-> 0]

Lossy ==
  [present |-> {a, b}, fickle |-> {}, impatient |-> FALSE,
   sessions |-> 1, flight |-> 2, sendFaults |-> 0]

Safety == {Restarts, Bystander}
Liveness == {Lossy}

(* The theorems of NearbySyncProofs on the counter, on this instance.      *)
ASSUME SequenceInstance ==
  /\ FreshIsTaken
  /\ StaleIsRefused
=============================================================================
