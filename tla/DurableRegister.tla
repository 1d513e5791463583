-------------------------- MODULE DurableRegister --------------------------
(***************************************************************************)
(* What a caller of AtomicFile or StagedFileTransaction may count on: a    *)
(* register whose writes can fail or be cut off.  A write that does not    *)
(* succeed leaves the old value or the new one; which of the two is        *)
(* decided once the call is over, and every later read agrees.  A register *)
(* that holds a value always holds one; only a first value may be taken    *)
(* back, if Retractable, before its write has succeeded.  Only a register  *)
(* that has never held a value may give a reader the value of a write that *)
(* was cut off (scratch), lost again if the next write is cut off too.     *)
(*                                                                         *)
(* If Voidable, a fault may break all this: from then on a reader is given *)
(* any value or none, until a write succeeds.                              *)
(***************************************************************************)
CONSTANTS
  Values, None,
  Retractable,  \* whether a first value may be withdrawn while it is written
  Voidable      \* whether there are faults that break the promise

VARIABLES
  reg,       \* the value, None before the first
  scratch,   \* an unfinished first value
  writing,   \* the value being written, None between writes
  prior,     \* reg when the write began
  void,      \* nothing is promised for now
  answer     \* what the last operation returned

vars == <<reg, scratch, writing, prior, void, answer>>

NoAnswer == [status |-> "none", value |-> None]
Ok == [status |-> "ok", value |-> None]
Failed == [status |-> "failed", value |-> None]
Absent == [status |-> "absent", value |-> None]
Found(v) == [status |-> "found", value |-> v]

Init ==
  /\ reg \in Values \cup {None}
  /\ scratch = None
  /\ writing = None
  /\ prior = reg
  /\ void = FALSE
  /\ answer = NoAnswer

Begin(v) ==
  /\ writing = None
  /\ writing' = v
  /\ prior' = reg
  /\ UNCHANGED <<reg, scratch, void, answer>>

(* What a write may do to the register at any moment.                      *)
Settle ==
  /\ writing # None
  /\ reg' \in {prior, writing}
  /\ reg # None /\ ~Retractable => reg' # None
  /\ scratch' \in IF reg' = None THEN {None, scratch, writing} ELSE {None}
  /\ prior' = prior /\ void' = void

Progress == ~void /\ Settle /\ UNCHANGED <<writing, answer>>

Succeed ==
  /\ IF void THEN scratch' = None /\ prior' \in Values \cup {None} /\ void' = FALSE ELSE Settle
  /\ writing # None /\ reg' = writing
  /\ writing' = None
  /\ answer' = Ok

Fail ==
  /\ IF void THEN writing # None /\ UNCHANGED <<reg, scratch, prior, void>> ELSE Settle
  /\ writing' = None
  /\ answer' \in {Failed, NoAnswer}

Read ==
  /\ writing = None
  /\ \/ answer' = Failed
     \/ reg # None /\ answer' = Found(reg)
     \/ reg = None /\ scratch # None /\ answer' = Found(scratch)
     \/ reg = None /\ scratch = None /\ answer' = Absent
     \/ void /\ \E v \in Values : answer' = Found(v)
  /\ UNCHANGED <<reg, scratch, writing, prior, void>>

(* A restart forgets the answer. *)
Restart ==
  /\ writing = None
  /\ answer' = NoAnswer
  /\ UNCHANGED <<reg, scratch, writing, prior, void>>

(* A fault, in the middle of a write or of a read. *)
Lapse ==
  /\ Voidable /\ ~void
  /\ void' = TRUE /\ reg' = None /\ scratch' = None /\ prior' = None
  /\ \/ UNCHANGED <<writing, answer>>
     \/ writing' = None /\ answer' = Failed

Next == (\E v \in Values : Begin(v)) \/ Progress \/ Succeed \/ Fail \/ Read \/ Restart \/ Lapse

Spec == Init /\ [][Next]_vars

=============================================================================
