---------------------------- MODULE BootRecovery ----------------------------
(***************************************************************************)
(* Safe startup.  setup() (src/main.cpp) loads the optional stores and the *)
(* SD fonts stage by stage, each under a StageGuard that names the running *)
(* stage in a record kept in RTC memory across resets                      *)
(* (lib/BootRecovery).  After a crash reset the next boot skips the stage  *)
(* the record names, together with those it already skipped; a skipped     *)
(* store is empty and read-only for the session.  The module composes the  *)
(* record, the boot sequence and the write gate of the stores              *)
(* (lib/Serialization/PersistableStore.h, LazyStoreState.h), because what  *)
(* skipping promises is about the files: an unread store must not be saved *)
(* over the file it did not read.                                          *)
(*                                                                         *)
(* A file is absent, readable ("user"), refused by its parser ("bad"), or  *)
(* makes the loader crash ("poison").  memory[s] names what the contents   *)
(* in RAM were built from: "blank" is a store that never read its file.    *)
(***************************************************************************)
EXTENDS Naturals, Sequences

CONSTANTS
    Order,        \* the stages in the order setup() runs them
    Eager,        \* stages whose store setup() always loads or skips
    Lazy,         \* stages whose store may be deferred to its first use
    None,         \* BootStage::None
    MaxMishaps    \* bound: crashes outside a poisoned load, and power cuts

Stage == {Order[i] : i \in DOMAIN Order}
Store == Eager \cup Lazy

ASSUME OrderAssumption == /\ Order \in Seq(Stage)
                          /\ \A i, j \in DOMAIN Order : Order[i] = Order[j] => i = j
ASSUME StageAssumption == /\ Store \subseteq Stage
                          /\ Eager \cap Lazy = {}
                          /\ None \notin Stage
ASSUME BoundAssumption == MaxMishaps \in Nat

VARIABLES
    record,     \* recoveryRecord in RTC memory; valid stands for the checksum
    reset,      \* why the CPU last reset: "crash", "button" or "other"
    pc,         \* where setup() is
    next,       \* the position in Order of the stage setup() reaches next
    decision,   \* the BootRecoveryDecision of this boot
    deferred,   \* deferReaderStores of this boot
    file,       \* what each stage finds on the card
    memory,     \* what each store holds
    writable,   \* persistenceWritable of each store
    lazy,       \* LazyStoreState of the lazy stores
    culprits,   \* history: stages a crash interrupted since the last clean start
    asked,      \* history: a manual safe boot is in that same streak
    mishaps     \* history: mishaps so far

ram  == <<memory, writable, lazy>>
ghost == <<culprits, asked>>
vars == <<record, reset, pc, next, decision, deferred, file, memory, writable,
          lazy, culprits, asked, mishaps>>

Content == {"absent", "user", "bad", "poison"}
Record == [valid : BOOLEAN, skip : SUBSET Stage, current : Stage \cup {None}]
NoRecord == [valid |-> FALSE, skip |-> {}, current |-> None]

TypeOK ==
    /\ record \in Record
    /\ reset \in {"crash", "button", "other"}
    /\ pc \in {"reset", "mount", "setup", "stage", "running", "asleep", "cardError"}
    /\ next \in 1..(Len(Order) + 1)
    /\ decision \in [skip : SUBSET Stage, active : BOOLEAN, manual : BOOLEAN]
    /\ deferred \in BOOLEAN
    /\ file \in [Stage -> Content]
    /\ memory \in [Store -> {"blank", "user"}]
    /\ writable \in [Store -> BOOLEAN]
    /\ lazy \in [Lazy -> {"NotLoaded", "Loaded", "Failed"}]
    /\ culprits \subseteq Stage
    /\ asked \in BOOLEAN
    /\ mishaps \in 0..MaxMishaps

----------------------------------------------------------------------------
(* Mutants of definitions further down *)

\* begin() keeps only the stage that failed last.
LastCulpritOnly(manual) ==
    LET skip == IF reset = "crash" /\ record.valid THEN {record.current} \ {None} ELSE {}
    IN IF manual THEN [skip |-> Stage, active |-> TRUE, manual |-> TRUE]
       ELSE [skip |-> skip, active |-> skip # {}, manual |-> FALSE]

\* The StageGuard's destructor leaves the record alone.
NeverLeaves(r, s) == r

\* A skipped store is marked loaded but stays writable.
SkippedStaysWritable(s) ==
    /\ memory' = [memory EXCEPT ![s] = "blank"]
    /\ lazy' = [l \in Lazy |-> IF l = s THEN "Loaded" ELSE lazy[l]]
    /\ UNCHANGED writable

\* A file the parser refuses leaves the write gate open.
RefusedStaysWritable(s) ==
    {o \in [memory : {"blank", "user"}, writable : BOOLEAN] :
        \/ file[s] \in {"user", "absent"} /\ o = [memory |-> "user", writable |-> TRUE]
        \/ file[s] \in {"user", "bad"}    /\ o = [memory |-> memory[s], writable |-> TRUE]}

----------------------------------------------------------------------------
(* BootRecoveryPolicy *)

\* BootRecoveryPolicy::begin: what is skipped, from the record and the reset.
Decide(manual) ==
    IF manual
    THEN [skip |-> Stage, active |-> TRUE, manual |-> TRUE]
    ELSE LET skip == IF reset = "crash" /\ record.valid
                     THEN record.skip \cup ({record.current} \ {None})
                     ELSE {}
         IN [skip |-> skip, active |-> skip # {}, manual |-> FALSE]

\* The record begin() seals for this boot.
Seal(d) == [valid |-> TRUE, skip |-> d.skip, current |-> None]

\* BootRecoveryPolicy::enterStage and leaveStage; both ignore an invalid record.
EnterStage(r, s) == IF r.valid THEN [r EXCEPT !.current = s] ELSE r
LeaveStage(r, s) == IF r.valid /\ r.current = s THEN [r EXCEPT !.current = None] ELSE r

----------------------------------------------------------------------------
(* The stores *)

\* PersistableStore::loadFromFile: the memory and the write gate it leaves,
\* by what reading the file gives.  A missing file is an empty store that may
\* be written; anything unreadable or refused closes the gate.
LoadOutcomes(s) ==
    {o \in [memory : {"blank", "user"}, writable : BOOLEAN] :
        \/ file[s] \in {"user", "absent"} /\ o = [memory |-> "user", writable |-> TRUE]
        \/ file[s] \in {"user", "bad"}    /\ o = [memory |-> memory[s], writable |-> FALSE]}

\* loadFromFile of a store, with the lazy state its wrapper leaves.
Load(s) == \E o \in LoadOutcomes(s) :
    /\ memory' = [memory EXCEPT ![s] = o.memory]
    /\ writable' = [writable EXCEPT ![s] = o.writable]
    /\ lazy' = [l \in Lazy |-> IF l # s THEN lazy[l]
                               ELSE IF o.writable THEN "Loaded" ELSE "Failed"]

\* markReadOnlyForRecovery.
MarkReadOnly(s) ==
    /\ memory' = [memory EXCEPT ![s] = "blank"]
    /\ writable' = [writable EXCEPT ![s] = FALSE]
    /\ lazy' = [l \in Lazy |-> IF l = s THEN "Loaded" ELSE lazy[l]]

\* PersistableStoreBase::saveToFile, once the store is loaded.
SaveGate(s) == writable[s]

----------------------------------------------------------------------------
(* setup() *)

Init ==
    /\ record = NoRecord
    /\ reset \in {"button", "other"}
    /\ pc = "reset"
    /\ next = 1
    /\ decision = [skip |-> {}, active |-> FALSE, manual |-> FALSE]
    /\ deferred = FALSE
    /\ file \in [Stage -> Content]
    /\ memory = [s \in Store |-> "blank"]
    /\ writable = [s \in Store |-> TRUE]
    /\ lazy = [s \in Lazy |-> "NotLoaded"]
    /\ culprits = {}
    /\ asked = FALSE
    /\ mishaps = 0

\* BootRecovery::begin: the button chord can only be held on a button wake.
\* A reset that is not a crash ends the streak of failed startups.
Begin ==
    /\ pc = "reset"
    /\ pc' = "mount"
    /\ \E manual \in BOOLEAN, resume \in BOOLEAN :
         /\ manual => reset = "button"
         /\ decision' = Decide(manual)
         /\ resume => reset = "button" /\ ~decision'.active
         /\ deferred' = resume
         /\ record' = Seal(decision')
         /\ asked' = (manual \/ (asked /\ reset = "crash"))
    /\ culprits' = IF reset = "crash" THEN culprits ELSE {}
    /\ next' = 1
    /\ memory' = [s \in Store |-> "blank"]
    /\ writable' = [s \in Store |-> TRUE]
    /\ lazy' = [s \in Lazy |-> "NotLoaded"]
    /\ UNCHANGED <<reset, file, mishaps>>

\* Storage.begin: without a card setup() stops at an error screen, or goes
\* back to sleep when the button press was too short.
Mount ==
    /\ pc = "mount"
    /\ \/ pc' = "setup"
       \/ pc' = "cardError"
       \/ pc' = "asleep" /\ reset = "button"
    /\ UNCHANGED <<record, reset, next, decision, deferred, file, ram, ghost, mishaps>>

AtStage == pc = "setup" /\ next \in DOMAIN Order

Skip ==
    /\ AtStage
    /\ Order[next] \in decision.skip
    /\ next' = next + 1
    /\ IF Order[next] \in Store THEN MarkReadOnly(Order[next]) ELSE UNCHANGED ram
    /\ UNCHANGED <<record, reset, pc, decision, deferred, file, ghost, mishaps>>

\* A resumed reader leaves the lazy stores to their first use.
Defer ==
    /\ AtStage
    /\ Order[next] \in Lazy \ decision.skip
    /\ deferred
    /\ next' = next + 1
    /\ UNCHANGED <<record, reset, pc, decision, deferred, file, ram, ghost, mishaps>>

\* The StageGuard's constructor.
Enter ==
    /\ AtStage
    /\ Order[next] \notin decision.skip
    /\ Order[next] \in Lazy => ~deferred
    /\ record' = EnterStage(record, Order[next])
    /\ pc' = "stage"
    /\ UNCHANGED <<reset, next, decision, deferred, file, ram, ghost, mishaps>>

\* The guarded load returns and the StageGuard's destructor runs.
Leave ==
    /\ pc = "stage"
    /\ file[Order[next]] # "poison"
    /\ IF Order[next] \in Store THEN Load(Order[next]) ELSE UNCHANGED ram
    /\ record' = LeaveStage(record, Order[next])
    /\ pc' = "setup"
    /\ next' = next + 1
    /\ UNCHANGED <<reset, decision, deferred, file, ghost, mishaps>>

\* A press that was too short, or USB power alone, puts the device back to
\* sleep after the eager stores are loaded; completeStartup() is not reached.
RejectWake ==
    /\ AtStage
    /\ reset # "crash"
    /\ Order[next] \notin Eager
    /\ next > 1 => Order[next - 1] \in Eager
    /\ pc' = "asleep"
    /\ UNCHANGED <<record, reset, next, decision, deferred, file, ram, ghost, mishaps>>

CompleteStartup ==
    /\ pc = "setup"
    /\ next = Len(Order) + 1
    /\ pc' = "running"
    /\ record' = NoRecord
    /\ culprits' = {}
    /\ asked' = FALSE
    /\ UNCHANGED <<reset, next, decision, deferred, file, ram, mishaps>>

----------------------------------------------------------------------------
(* Saves, and the first use of a deferred store *)

\* setup() and the activities save an eager store once its stage is past.
SaveEager(s) ==
    /\ pc \in {"setup", "stage", "running"}
    /\ \E i \in 1..(next - 1) : Order[i] = s
    /\ SaveGate(s)
    /\ file' = [file EXCEPT ![s] = memory[s]]
    /\ UNCHANGED <<record, reset, pc, next, decision, deferred, ram, ghost, mishaps>>

\* ensureLoaded(): a lazy store reads its file once; a failed load stays failed.
EnsureLoaded(s) ==
    /\ pc = "running"
    /\ lazy[s] = "NotLoaded"
    /\ file[s] # "poison"
    /\ Load(s)
    /\ UNCHANGED <<record, reset, pc, next, decision, deferred, file, ghost, mishaps>>

\* saveToFile of a lazy store.
SaveLazy(s) ==
    /\ pc = "running"
    /\ lazy[s] = "Loaded"
    /\ SaveGate(s)
    /\ file' = [file EXCEPT ![s] = memory[s]]
    /\ UNCHANGED <<record, reset, pc, next, decision, deferred, ram, ghost, mishaps>>

----------------------------------------------------------------------------
(* Resets *)

CrashReset == reset' = "crash" /\ pc' = "reset"

\* The loader crashes on what it reads, under its guard.
StageCrash ==
    /\ pc = "stage"
    /\ file[Order[next]] = "poison"
    /\ CrashReset
    /\ culprits' = culprits \cup {Order[next]}
    /\ UNCHANGED <<record, next, decision, deferred, file, ram, asked, mishaps>>

\* The same crash in a deferred store, with no guard around it.
UseCrash(s) ==
    /\ pc = "running"
    /\ lazy[s] = "NotLoaded"
    /\ file[s] = "poison"
    /\ CrashReset
    /\ UNCHANGED <<record, next, decision, deferred, file, ram, ghost, mishaps>>

\* A crash anywhere else, or one that does not depend on the file.
StrayCrash ==
    /\ pc # "asleep"
    /\ mishaps < MaxMishaps
    /\ mishaps' = mishaps + 1
    /\ CrashReset
    /\ culprits' = IF pc = "stage" THEN culprits \cup {Order[next]} ELSE culprits
    /\ UNCHANGED <<record, next, decision, deferred, file, ram, asked>>

\* A power cut: RTC memory holds nothing the checksum accepts.
PowerCut ==
    /\ mishaps < MaxMishaps
    /\ mishaps' = mishaps + 1
    /\ reset' \in {"button", "other"}
    /\ pc' = "reset"
    /\ record' = NoRecord
    /\ culprits' = {}
    /\ asked' = FALSE
    /\ UNCHANGED <<next, decision, deferred, file, ram>>

\* The user restarts the device or wakes it; RTC memory survives.
Restart ==
    /\ pc \in {"running", "asleep", "cardError"}
    /\ reset' \in {"button", "other"}
    /\ pc' = "reset"
    /\ UNCHANGED <<record, next, decision, deferred, file, ram, ghost, mishaps>>

----------------------------------------------------------------------------
Boot == \/ Begin \/ Mount \/ Skip \/ Defer \/ Enter \/ Leave
        \/ CompleteStartup \/ StageCrash

Next ==
    \/ Boot
    \/ RejectWake
    \/ \E s \in Eager : SaveEager(s)
    \/ \E s \in Lazy : EnsureLoaded(s) \/ SaveLazy(s) \/ UseCrash(s)
    \/ StrayCrash
    \/ PowerCut
    \/ Restart

Spec == Init /\ [][Next]_vars

\* setup() runs to its end on its own: the CPU keeps executing it.
FairSpec == Spec /\ WF_vars(Boot)

----------------------------------------------------------------------------
(* Properties *)

\* In an automatic boot setup() skips exactly the stages that a crash
\* interrupted since the last start that completed or was not a crash: no
\* healthy store is left out, and no culprit is forgotten by a second crash
\* elsewhere (BootRecoveryPolicy::begin accumulates, leaveStage clears).
SkipsExactlyTheCulprits ==
    pc \in {"mount", "setup", "stage"} /\ ~asked => decision.skip = culprits

\* A stage whose load already crashed in this streak is not run again before
\* a startup completes (the reason for the record in RTC memory).
NoStageCrashesTwice ==
    pc = "stage" => Order[next] \notin culprits

\* Neither a skipped, an unreadable, a refused nor a deferred store is ever
\* saved over its file: what the user has stays until it has been read
\* (persistenceWritable, LazyStoreState).
FilesArePreserved ==
    [][\A s \in Stage : file[s] # "absent" => file'[s] = file[s]]_vars

\* Crashing stages cannot keep the device in a boot loop: setup() always gets
\* to a screen, to sleep, or to the card error again.
BootLoopEnds == []<>(pc \in {"running", "asleep", "cardError"})

=============================================================================
