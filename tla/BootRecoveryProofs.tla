------------------------- MODULE BootRecoveryProofs -------------------------
(***************************************************************************)
(* Theorems about BootRecovery, for every order of stages, every choice of *)
(* eager and lazy stores and every number of mishaps.                      *)
(*                                                                         *)
(* The record alone does not say whom it blames: that depends on where     *)
(* setup() is.  Sealed and Accounted relate the two; Gated relates a store *)
(* that may be saved to the file it would be saved over.                   *)
(***************************************************************************)
EXTENDS BootRecovery, TLAPS

\* From begin() to the end of the session the record is that of this boot,
\* naming the guarded stage while one runs; a start that completed erased it.
Sealed ==
  /\ pc \in {"mount", "setup", "stage", "asleep", "cardError"} =>
       record = [valid |-> TRUE, skip |-> decision.skip,
                 current |-> IF pc = "stage" THEN Order[next] ELSE None]
  /\ ~record.valid => record = NoRecord
  /\ pc = "stage" => next \in DOMAIN Order /\ Order[next] \notin decision.skip

\* Outside a stage the record blames exactly the culprits of the streak;
\* a manual safe boot in it may have added others.
Blamed == record.skip \cup ({record.current} \ {None})

Accounted ==
  /\ pc = "running" => record = NoRecord /\ culprits = {} /\ ~asked
  /\ pc # "stage" => culprits \subseteq Blamed /\ (~asked => culprits = Blamed)
  /\ pc = "stage" => culprits \subseteq record.skip /\ (~asked => culprits = record.skip)

\* A store that may be saved has read its file, or found none.
HasRead(s) == memory[s] = "user" /\ file[s] \in {"user", "absent"}

Gated ==
  /\ \A i \in 1..(next - 1) : Order[i] \in Eager /\ writable[Order[i]] => HasRead(Order[i])
  /\ \A s \in Lazy : lazy[s] = "Loaded" /\ writable[s] => HasRead(s)

IInv == TypeOK /\ Sealed /\ Accounted /\ Gated
-----------------------------------------------------------------------------
(* The stages, of which None is none. *)
LEMMA Stages ==
  /\ Len(Order) \in Nat /\ DOMAIN Order = 1..Len(Order)
  /\ \A i \in DOMAIN Order : Order[i] \in Stage /\ Order[i] # None
  /\ Eager \subseteq Store /\ Lazy \subseteq Store /\ Store \subseteq Stage
  /\ Eager \cap Lazy = {}
BY OrderAssumption, StageAssumption DEF Store, Stage

(* Every outcome of loading a store; one it may save, it has read.         *)
LEMMA LoadIsSound ==
  ASSUME TypeOK, NEW s \in Store, Load(s)
  PROVE  /\ memory' \in [Store -> {"blank", "user"}]
         /\ writable' \in [Store -> BOOLEAN]
         /\ lazy' \in [Lazy -> {"NotLoaded", "Loaded", "Failed"}]
         /\ writable'[s] => memory'[s] = "user" /\ file[s] \in {"user", "absent"}
         /\ \A t \in Store : t # s => memory'[t] = memory[t] /\ writable'[t] = writable[t]
         /\ \A t \in Lazy : t # s => lazy'[t] = lazy[t]
<1>1. PICK o \in LoadOutcomes(s) :
        /\ memory' = [memory EXCEPT ![s] = o.memory]
        /\ writable' = [writable EXCEPT ![s] = o.writable]
        /\ lazy' = [l \in Lazy |-> IF l # s THEN lazy[l]
                                   ELSE IF o.writable THEN "Loaded" ELSE "Failed"]
  BY DEF Load
<1>2. /\ o.memory \in {"blank", "user"} /\ o.writable \in BOOLEAN
      /\ o.writable => o.memory = "user" /\ file[s] \in {"user", "absent"}
  BY DEF LoadOutcomes
<1> QED BY <1>1, <1>2 DEF TypeOK

(* A skipped store is not written in this session.                         *)
LEMMA SkippedIsClosed ==
  ASSUME TypeOK, NEW s \in Store, MarkReadOnly(s)
  PROVE  /\ memory' \in [Store -> {"blank", "user"}]
         /\ writable' \in [Store -> BOOLEAN]
         /\ lazy' \in [Lazy -> {"NotLoaded", "Loaded", "Failed"}]
         /\ ~writable'[s]
         /\ \A t \in Store : t # s => memory'[t] = memory[t] /\ writable'[t] = writable[t]
         /\ \A t \in Lazy : t # s => lazy'[t] = lazy[t]
BY DEF MarkReadOnly, TypeOK

(* A save writes what was read from the file, or creates it.               *)
LEMMA SaveWritesBack ==
  ASSUME TypeOK, Gated, NEW s \in Store,
         (s \in Eager /\ SaveEager(s)) \/ (s \in Lazy /\ SaveLazy(s))
  PROVE  HasRead(s) /\ file' = [file EXCEPT ![s] = "user"]
<1>1. CASE s \in Eager /\ SaveEager(s)
  <2>1. PICK i \in 1..(next - 1) : Order[i] = s
    BY <1>1 DEF SaveEager
  <2> QED BY <1>1, <2>1 DEF SaveEager, SaveGate, Gated, HasRead
<1>2. CASE s \in Lazy /\ SaveLazy(s)
  BY <1>2 DEF SaveLazy, SaveGate, Gated, HasRead
<1> QED BY <1>1, <1>2

-----------------------------------------------------------------------------
LEMMA InitIInv == Init => IInv
<1> SUFFICES ASSUME Init PROVE IInv
  OBVIOUS
<1>1. TypeOK
  <2>1. record \in Record /\ next \in 1..(Len(Order) + 1) /\ mishaps \in 0..MaxMishaps
    BY Stages, BoundAssumption DEF Init, Record, NoRecord
  <2>2. decision \in [skip : SUBSET Stage, active : BOOLEAN, manual : BOOLEAN]
    BY DEF Init
  <2>3. /\ memory \in [Store -> {"blank", "user"}] /\ writable \in [Store -> BOOLEAN]
        /\ lazy \in [Lazy -> {"NotLoaded", "Loaded", "Failed"}]
    BY DEF Init
  <2> QED BY <2>1, <2>2, <2>3 DEF Init, TypeOK
<1>2. Sealed
  BY DEF Init, Sealed
<1>3. Accounted
  BY DEF Init, Accounted, Blamed, NoRecord
<1>4. Gated
  BY DEF Init, Gated
<1> QED BY <1>1, <1>2, <1>3, <1>4 DEF IInv

LEMMA TypeStep == IInv /\ [Next]_vars => TypeOK'
<1> SUFFICES ASSUME IInv, [Next]_vars PROVE TypeOK'
  OBVIOUS
<1> USE Stages DEF IInv, TypeOK, Record
<1>1. CASE Begin
  <2>1. decision' \in [skip : SUBSET Stage, active : BOOLEAN, manual : BOOLEAN]
    BY <1>1 DEF Begin, Decide
  <2>2. record' \in Record
    BY <1>1, <2>1 DEF Begin, Seal
  <2>3. lazy' \in [Lazy -> {"NotLoaded", "Loaded", "Failed"}]
    BY <1>1 DEF Begin
  <2>4. memory' \in [Store -> {"blank", "user"}] /\ writable' \in [Store -> BOOLEAN]
    BY <1>1 DEF Begin
  <2>5. next' \in 1..(Len(Order) + 1) /\ culprits' \subseteq Stage
    BY <1>1 DEF Begin
  <2>6. asked' \in BOOLEAN /\ deferred' \in BOOLEAN
    BY <1>1 DEF Begin
  <2> QED BY <1>1, <2>1, <2>2, <2>3, <2>4, <2>5, <2>6 DEF Begin
<1>2. CASE Mount
  BY <1>2 DEF Mount, ram, ghost
<1>3. CASE Skip
  <2>1. next' \in 1..(Len(Order) + 1)
    BY <1>3 DEF Skip, AtStage
  <2>2. CASE Order[next] \in Store
    BY <1>3, <2>1, <2>2, SkippedIsClosed DEF Skip, ghost
  <2>3. CASE Order[next] \notin Store
    BY <1>3, <2>1, <2>3 DEF Skip, ram, ghost
  <2> QED BY <2>2, <2>3
<1>4. CASE Defer
  BY <1>4 DEF Defer, AtStage, ram, ghost
<1>5. CASE Enter
  BY <1>5 DEF Enter, AtStage, EnterStage, ram, ghost
<1>6. CASE Leave
  <2>1. next' \in 1..(Len(Order) + 1) /\ record' \in Record
    BY <1>6 DEF Leave, LeaveStage, Sealed
  <2>2. CASE Order[next] \in Store
    BY <1>6, <2>1, <2>2, LoadIsSound DEF Leave, ghost
  <2>3. CASE Order[next] \notin Store
    BY <1>6, <2>1, <2>3 DEF Leave, ram, ghost
  <2> QED BY <2>2, <2>3
<1>7. CASE CompleteStartup
  BY <1>7 DEF CompleteStartup, NoRecord, ram
<1>8. CASE StageCrash
  BY <1>8 DEF StageCrash, CrashReset, Sealed, ram
<1>9. CASE RejectWake
  BY <1>9 DEF RejectWake, ram, ghost
<1>10. ASSUME NEW s \in Eager, SaveEager(s) PROVE TypeOK'
  <2>1. file' = [file EXCEPT ![s] = "user"]
    BY <1>10, SaveWritesBack
  <2> QED BY <1>10, <2>1 DEF SaveEager, Content, ram, ghost
<1>11. ASSUME NEW s \in Lazy, EnsureLoaded(s) PROVE TypeOK'
  BY <1>11, LoadIsSound DEF EnsureLoaded, ghost
<1>12. ASSUME NEW s \in Lazy, SaveLazy(s) PROVE TypeOK'
  <2>1. file' = [file EXCEPT ![s] = "user"]
    BY <1>12, SaveWritesBack
  <2> QED BY <1>12, <2>1 DEF SaveLazy, Content, ram, ghost
<1>13. CASE \E s \in Lazy : UseCrash(s)
  BY <1>13 DEF UseCrash, CrashReset, ram, ghost
<1>14. CASE StrayCrash
  BY <1>14, BoundAssumption DEF StrayCrash, CrashReset, Sealed, ram
<1>15. CASE PowerCut
  <2>1. mishaps' \in 0..MaxMishaps
    BY <1>15, BoundAssumption DEF PowerCut
  <2>2. record' \in Record /\ culprits' \subseteq Stage
    BY <1>15 DEF PowerCut, NoRecord
  <2> QED BY <1>15, <2>1, <2>2 DEF PowerCut, ram
<1>16. CASE Restart
  BY <1>16 DEF Restart, ram, ghost
<1>17. CASE UNCHANGED vars
  BY <1>17 DEF vars
<1> QED BY <1>1, <1>2, <1>3, <1>4, <1>5, <1>6, <1>7, <1>8, <1>9, <1>10, <1>11, <1>12,
           <1>13, <1>14, <1>15, <1>16, <1>17 DEF Next, Boot

LEMMA SealedStep == IInv /\ [Next]_vars => Sealed'
<1> SUFFICES ASSUME IInv, [Next]_vars PROVE Sealed'
  OBVIOUS
<1> USE DEF Sealed
<1>0. /\ Sealed /\ record \in Record
  BY DEF IInv, TypeOK
<1>1. CASE Begin
  BY <1>1 DEF Begin, Seal
<1>2. CASE Mount \/ RejectWake
  BY <1>0, <1>2 DEF Mount, RejectWake, AtStage
<1>3. CASE Skip \/ Defer
  BY <1>0, <1>3 DEF Skip, Defer, AtStage
<1>4. CASE Enter
  <2>1. /\ pc' = "stage" /\ next' = next /\ decision' = decision
        /\ next \in DOMAIN Order /\ Order[next] \notin decision.skip
    BY <1>4 DEF Enter, AtStage
  <2>2. record = [valid |-> TRUE, skip |-> decision.skip, current |-> None]
    BY <1>0, <1>4 DEF Enter, AtStage
  <2>3. record' = [valid |-> TRUE, skip |-> decision.skip, current |-> Order[next]]
    BY <1>4, <2>2 DEF Enter, EnterStage
  <2> QED BY <2>1, <2>3
<1>5. CASE Leave
  <2>1. record = [valid |-> TRUE, skip |-> decision.skip, current |-> Order[next]]
    BY <1>0, <1>5 DEF Leave
  <2>2. record' = [valid |-> TRUE, skip |-> decision.skip, current |-> None]
    BY <1>5, <2>1 DEF Leave, LeaveStage
  <2> QED BY <1>5, <2>2 DEF Leave
<1>6. CASE CompleteStartup
  BY <1>6 DEF CompleteStartup, NoRecord
<1>7. CASE StageCrash \/ StrayCrash \/ PowerCut \/ Restart
  BY <1>0, <1>7 DEF StageCrash, StrayCrash, PowerCut, Restart, CrashReset, NoRecord
<1>8. CASE \E s \in Eager : SaveEager(s)
  BY <1>0, <1>8 DEF SaveEager
<1>9. CASE \E s \in Lazy : EnsureLoaded(s) \/ SaveLazy(s) \/ UseCrash(s)
  BY <1>0, <1>9 DEF EnsureLoaded, SaveLazy, UseCrash, CrashReset
<1>10. CASE UNCHANGED vars
  BY <1>0, <1>10 DEF vars
<1> QED BY <1>1, <1>2, <1>3, <1>4, <1>5, <1>6, <1>7, <1>8, <1>9, <1>10 DEF Next, Boot

LEMMA AccountedStep == IInv /\ [Next]_vars => Accounted'
<1> SUFFICES ASSUME IInv, [Next]_vars PROVE Accounted'
  OBVIOUS
<1> USE DEF Accounted, Blamed
<1>0. /\ Accounted /\ Sealed /\ record \in Record /\ culprits \subseteq Stage
  BY DEF IInv, TypeOK
<1>1. CASE Begin
  <2>1. PICK manual \in BOOLEAN :
          /\ manual => reset = "button"
          /\ decision' = Decide(manual)
          /\ record' = Seal(decision')
          /\ asked' = (manual \/ (asked /\ reset = "crash"))
    BY <1>1 DEF Begin
  <2>2. Accounted /\ pc = "reset" /\ pc' = "mount"
    BY <1>0, <1>1 DEF Begin
  <2>3. record'.skip = decision'.skip /\ record'.current = None
    BY <2>1 DEF Seal
  <2>4. CASE manual
    <3>1. culprits' = {} /\ asked'
      BY <1>1, <2>1, <2>4 DEF Begin
    <3> QED BY <2>2, <3>1
  <2>5. CASE ~manual /\ reset = "crash"
    <3>1. decision'.skip = IF record.valid THEN Blamed ELSE {}
      BY <2>1, <2>5 DEF Decide
    <3>2. Blamed = decision'.skip
      BY <1>0, <3>1 DEF Sealed, NoRecord
    <3>3. culprits' = culprits /\ asked' = asked
      BY <1>0, <1>1, <2>1, <2>5 DEF Begin, IInv, TypeOK
    <3> QED BY <2>2, <2>3, <3>2, <3>3
  <2>6. CASE ~manual /\ reset # "crash"
    <3>1. decision'.skip = {} /\ culprits' = {}
      BY <1>1, <2>1, <2>6 DEF Begin, Decide
    <3> QED BY <2>2, <2>3, <3>1
  <2> QED BY <2>4, <2>5, <2>6
<1>2. CASE Mount \/ RejectWake
  BY <1>0, <1>2 DEF Mount, RejectWake, AtStage, ghost
<1>3. CASE Skip \/ Defer
  BY <1>0, <1>3 DEF Skip, Defer, AtStage, ghost
<1>4. CASE Enter
  BY <1>0, <1>4 DEF Enter, AtStage, EnterStage, Sealed, ghost
<1>5. CASE Leave
  BY <1>0, <1>5 DEF Leave, LeaveStage, Sealed, ghost
<1>6. CASE CompleteStartup
  BY <1>6 DEF CompleteStartup, NoRecord
<1>7. CASE StageCrash \/ (StrayCrash /\ pc = "stage")
  <2>1. Order[next] # None
    BY <1>0, <1>7, Stages DEF StageCrash, Sealed
  <2>2. /\ pc = "stage" /\ pc' = "reset" /\ record' = record /\ asked' = asked
        /\ culprits' = culprits \cup {Order[next]}
    BY <1>7 DEF StageCrash, StrayCrash, CrashReset
  <2>3. Blamed = record.skip \cup {Order[next]}
    BY <1>0, <2>1, <2>2 DEF Sealed
  <2> QED BY <1>0, <2>2, <2>3
<1>8. CASE StrayCrash /\ pc # "stage"
  BY <1>0, <1>8 DEF StrayCrash, CrashReset
<1>9. CASE PowerCut
  BY <1>9 DEF PowerCut, NoRecord
<1>10. CASE Restart
  BY <1>0, <1>10 DEF Restart, ghost
<1>11. CASE \E s \in Eager : SaveEager(s)
  BY <1>0, <1>11 DEF SaveEager, ghost
<1>12. CASE \E s \in Lazy : EnsureLoaded(s) \/ SaveLazy(s) \/ UseCrash(s)
  BY <1>0, <1>12 DEF EnsureLoaded, SaveLazy, UseCrash, CrashReset, ghost
<1>13. CASE UNCHANGED vars
  BY <1>0, <1>13 DEF vars
<1> QED BY <1>1, <1>2, <1>3, <1>4, <1>5, <1>6, <1>7, <1>8, <1>9, <1>10, <1>11, <1>12,
           <1>13 DEF Next, Boot

(* The gate is only opened by a load that succeeded, and a store that was  *)
(* skipped or is yet to be loaded is not saved meanwhile.                  *)
LEMMA GatedStep == IInv /\ [Next]_vars => Gated'
<1> SUFFICES ASSUME IInv, [Next]_vars PROVE Gated'
  OBVIOUS
<1> USE DEF Gated, HasRead
<1>0. /\ TypeOK /\ Gated /\ next \in Nat
      /\ \A i \in 1..(next - 1) : i \in DOMAIN Order /\ Order[i] \in Stage
  BY Stages DEF IInv, TypeOK
<1>1. CASE Begin
  BY <1>1 DEF Begin
<1>2. CASE Skip \/ Leave
  <2>1. next \in DOMAIN Order /\ next' = next + 1 /\ file' = file
    BY <1>2 DEF Skip, AtStage, Leave, IInv, Sealed
  <2>2. \A i \in 1..(next - 1) : Order[i] # Order[next]
    BY <1>0, <2>1, OrderAssumption
  <2>3. \A i \in 1..(next' - 1) : i \in 1..(next - 1) \/ i = next
    BY <1>0, <2>1
  <2>4. CASE Order[next] \notin Store
    <3>1. UNCHANGED ram
      BY <1>2, <2>4 DEF Skip, Leave
    <3>2. Order[next] \notin Eager
      BY <2>4, Stages
    <3> QED BY <1>0, <2>1, <2>3, <3>1, <3>2 DEF ram
  <2>5. CASE Order[next] \in Store
    <3>1. /\ writable'[Order[next]] => memory'[Order[next]] = "user" /\ file[Order[next]] \in {"user", "absent"}
          /\ \A t \in Store : t # Order[next] => memory'[t] = memory[t] /\ writable'[t] = writable[t]
          /\ \A t \in Lazy : t # Order[next] => lazy'[t] = lazy[t]
      BY <1>0, <1>2, <2>5, LoadIsSound, SkippedIsClosed DEF Skip, Leave
    <3>2. ASSUME NEW i \in 1..(next' - 1), Order[i] \in Eager, writable'[Order[i]]
          PROVE  HasRead(Order[i])'
      BY <1>0, <2>1, <2>2, <2>3, <3>1, <3>2, Stages
    <3>3. ASSUME NEW s \in Lazy, lazy'[s] = "Loaded", writable'[s]
          PROVE  HasRead(s)'
      BY <1>0, <2>1, <3>1, <3>3, Stages
    <3> QED BY <3>2, <3>3
  <2> QED BY <2>4, <2>5
<1>3. CASE Defer
  <2>1. next' = next + 1 /\ Order[next] \notin Eager
    BY <1>3, Stages DEF Defer
  <2>2. \A i \in 1..(next' - 1) : i \in 1..(next - 1) \/ i = next
    BY <1>0, <2>1
  <2> QED BY <1>0, <1>3, <2>1, <2>2 DEF Defer, ram
<1>4. CASE Mount \/ Enter \/ RejectWake
  BY <1>0, <1>4 DEF Mount, Enter, RejectWake, ram
<1>5. CASE CompleteStartup
  BY <1>0, <1>5 DEF CompleteStartup, ram
<1>6. CASE StageCrash \/ StrayCrash \/ PowerCut \/ Restart
  BY <1>0, <1>6 DEF StageCrash, StrayCrash, PowerCut, Restart, ram
<1>7. ASSUME NEW s \in Store, (s \in Eager /\ SaveEager(s)) \/ (s \in Lazy /\ SaveLazy(s))
      PROVE  Gated'
  <2>1. file' = [file EXCEPT ![s] = "user"]
    BY <1>0, <1>7, SaveWritesBack
  <2>2. UNCHANGED <<memory, writable, lazy, next>>
    BY <1>7 DEF SaveEager, SaveLazy, ram
  <2>3. \A t \in Stage : file'[t] = file[t] \/ file'[t] = "user"
    BY <1>0, <2>1 DEF TypeOK
  <2> QED BY <1>0, <2>2, <2>3, Stages
<1>8. ASSUME NEW s \in Lazy, EnsureLoaded(s) PROVE Gated'
  <2>1. UNCHANGED <<file, next>>
    BY <1>8 DEF EnsureLoaded
  <2>2. /\ writable'[s] => memory'[s] = "user" /\ file[s] \in {"user", "absent"}
        /\ \A t \in Store : t # s => memory'[t] = memory[t] /\ writable'[t] = writable[t]
        /\ \A t \in Lazy : t # s => lazy'[t] = lazy[t]
    BY <1>0, <1>8, LoadIsSound, Stages DEF EnsureLoaded
  <2> QED BY <1>0, <2>1, <2>2, Stages
<1>9. CASE \E s \in Lazy : UseCrash(s)
  BY <1>0, <1>9 DEF UseCrash, ram
<1>10. CASE UNCHANGED vars
  BY <1>0, <1>10 DEF vars
<1> QED BY <1>1, <1>2, <1>3, <1>4, <1>5, <1>6, <1>7, <1>8, <1>9, <1>10, Stages DEF Next, Boot

-----------------------------------------------------------------------------
(* The record, the streak it blames and the stores' gates keep in step     *)
(* with where setup() is, in every behaviour.                              *)
THEOREM Invariant == Spec => []IInv
<1>1. IInv /\ [Next]_vars => IInv'
  BY TypeStep, SealedStep, AccountedStep, GatedStep DEF IInv
<1> QED BY InitIInv, <1>1, PTL DEF Spec

(* All parts of the boot state stay within their types.                    *)
THEOREM TypeCorrect == Spec => []TypeOK
<1>1. IInv => TypeOK
  BY DEF IInv
<1> QED BY Invariant, <1>1, PTL

(* In an automatic boot setup() skips the stages that crashed since the    *)
(* last start that completed, and no other, however often, in whatever     *)
(* order and with whatever resets between them they crashed.               *)
THEOREM SkipsCulprits == Spec => []SkipsExactlyTheCulprits
<1>1. IInv => SkipsExactlyTheCulprits
  BY DEF IInv, Sealed, Accounted, Blamed, SkipsExactlyTheCulprits
<1> QED BY Invariant, <1>1, PTL

(* No stage is entered that already crashed in this streak of startups,    *)
(* not even when a manual safe boot comes between.                         *)
THEOREM NeverTwice == Spec => []NoStageCrashesTwice
<1>1. IInv => NoStageCrashesTwice
  BY DEF IInv, Sealed, Accounted, NoStageCrashesTwice
<1> QED BY Invariant, <1>1, PTL

(* A save never changes a file the store has not read: what is on the card *)
(* survives skipped, deferred, refused and unreadable loads.               *)
THEOREM PreservesFiles == Spec => FilesArePreserved
<1>1. ASSUME IInv, [Next]_vars
      PROVE  [\A s \in Stage : file[s] # "absent" => file'[s] = file[s]]_vars
  <2>1. CASE \E s \in Store : (s \in Eager /\ SaveEager(s)) \/ (s \in Lazy /\ SaveLazy(s))
    <3>1. PICK s \in Store : (s \in Eager /\ SaveEager(s)) \/ (s \in Lazy /\ SaveLazy(s))
      BY <2>1
    <3>2. HasRead(s) /\ file' = [file EXCEPT ![s] = "user"]
      BY <1>1, <3>1, SaveWritesBack DEF IInv
    <3> QED BY <1>1, <3>2 DEF IInv, TypeOK, HasRead
  <2>2. CASE file' = file
    BY <2>2
  <2>3. CASE UNCHANGED vars
    BY <2>3
  <2>4. (\E s \in Store : (s \in Eager /\ SaveEager(s)) \/ (s \in Lazy /\ SaveLazy(s)))
        \/ file' = file \/ UNCHANGED vars
    BY <1>1, Stages DEF Next, Boot, Begin, Mount, Skip, Defer, Enter, Leave, CompleteStartup,
       StageCrash, RejectWake, EnsureLoaded, UseCrash, StrayCrash, PowerCut, Restart
  <2> QED BY <2>1, <2>2, <2>3, <2>4
<1> QED BY Invariant, <1>1, PTL DEF Spec, FilesArePreserved
=============================================================================
