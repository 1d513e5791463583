-------------------------- MODULE AtomicFileProofs --------------------------
(***************************************************************************)
(* The safety of AtomicFile for every set of payloads.  OldOrNew is not    *)
(* inductive: it says nothing of what save() remembers of its inspections. *)
(* IInv adds, for each label, what the three paths hold there.             *)
(***************************************************************************)
EXTENDS AtomicFile, TLAPS

(* The second copy once save() has set one aside. *)
Kept == IF base = Missing THEN data ELSE base

BeforeWrite == {"inspectPrimary", "inspectBackup", "clearTemp", "openTemp", "writeTemp"}

PathsAtLabel ==
  /\ pc \in BeforeWrite => Durable(file) = base
  /\ pc \in BeforeWrite \ {"inspectPrimary"} => primary = file["primary"]
  /\ pc \in {"clearTemp", "openTemp", "writeTemp"} => backup = file["bak"]
  /\ pc = "dropTemp" => file["primary"] = data /\ base = data
  /\ pc \in {"clearBackup", "rotate"} =>
       file["primary"] \in Values /\ base = file["primary"] /\ file["tmp"] = data
  /\ pc = "rotate" => file["bak"] = Missing
  /\ pc \in {"resetBackup", "openBackup", "writeBackup"} =>
       /\ file["primary"] \notin Values /\ file["bak"] \notin Values
       /\ base = Missing /\ file["tmp"] = data
  /\ pc = "clearPrimary" =>
       file["primary"] \notin Values /\ file["bak"] = Kept /\ file["tmp"] = data
  /\ pc \in {"publish", "unrotate"} =>
       file["primary"] = Missing /\ file["bak"] = Kept /\ file["tmp"] = data
  /\ pc \in {"verify", "withdraw"} =>
       file["primary"] = data /\ file["bak"] = Kept /\ file["tmp"] = Missing
  /\ pc = "restore" =>
       file["primary"] \in {data, Missing} /\ file["bak"] = Kept /\ file["tmp"] = Missing
  /\ pc = "abandonTemp" => Durable(file) \in {base, data}

IInv == TypeOK /\ PathsAtLabel /\ Acknowledged

-----------------------------------------------------------------------------
(* load()'s search order has a first path to stop at whenever it has one.  *)
LEMMA FirstStop ==
  ASSUME NEW bad, \E i \in 1..3 : Stops(bad, i)
  PROVE  \E n \in 1..3 : Stops(bad, n) /\ \A m \in 1..(n-1) : ~Stops(bad, m)
<1>1. CASE Stops(bad, 1)
  BY <1>1
<1>2. CASE ~Stops(bad, 1) /\ Stops(bad, 2)
  <2>1. \A m \in 1..(2-1) : m = 1
    OBVIOUS
  <2> QED BY <1>2, <2>1
<1>3. CASE ~Stops(bad, 1) /\ ~Stops(bad, 2)
  <2>1. \A m \in 1..(3-1) : m = 1 \/ m = 2
    OBVIOUS
  <2>2. \A i \in 1..3 : i = 1 \/ i = 2 \/ i = 3
    OBVIOUS
  <2>3. Stops(bad, 3)
    BY <1>3, <2>2
  <2> QED BY <1>3, <2>1, <2>3
<1> QED BY <1>1, <1>2, <1>3

(* Whatever paths are unreadable, load() answers with a status, and with a *)
(* value only when it read a valid file.                                   *)
LEMMA LoadOutcomeType ==
  ASSUME TypeOK, NEW bad \in SUBSET Slot
  PROVE  LoadOutcome(bad) \in
           [status : {"IoError", "Missing", "Invalid"}, value : {Missing}]
           \cup [status : Slot, value : Values]
<1>1. CASE \E i \in 1..3 : Stops(bad, i)
  <2> DEFINE i == CHOOSE n \in 1..3 : Stops(bad, n) /\ \A m \in 1..(n-1) : ~Stops(bad, m)
  <2>1. i \in 1..3 /\ Stops(bad, i)
    BY <1>1, FirstStop
  <2>2. LoadOutcome(bad) = IF Order[i] \in bad THEN Plain("IoError") ELSE Loaded(Order[i])
    BY <1>1 DEF LoadOutcome
  <2> HIDE DEF i
  <2>3. Order[i] \in Slot
    BY <2>1 DEF Order, Slot
  <2>4. Order[i] \notin bad => file[Order[i]] \in Values
    BY <2>1 DEF Stops, Valid
  <2> QED BY <2>2, <2>3, <2>4 DEF Plain, Loaded
<1>2. CASE ~ \E i \in 1..3 : Stops(bad, i)
  BY <1>2 DEF LoadOutcome, Plain
<1> QED BY <1>1, <1>2

-----------------------------------------------------------------------------
LEMMA InitIInv == Init => IInv
<1> SUFFICES ASSUME Init PROVE IInv
  OBVIOUS
<1>1. TypeOK
  BY ContentsDistinct DEF Init, TypeOK, Content, Slot, Label, Plain, Status, Durable
<1>2. PathsAtLabel /\ Acknowledged
  BY DEF Init, PathsAtLabel, Acknowledged, BeforeWrite, Plain
<1> QED BY <1>1, <1>2 DEF IInv

LEMMA NextIInv == IInv /\ [Next]_vars => IInv'
<1> SUFFICES ASSUME IInv, [Next]_vars PROVE IInv'
  OBVIOUS
<1> USE ContentsDistinct
<1> USE DEF IInv, TypeOK, PathsAtLabel, Acknowledged, BeforeWrite, Durable, Kept,
            Content, Slot, Label, Status, Plain, Args, Seen, Goto, Return
<1>1. CASE Load
  <2>1. PICK bad \in SUBSET Slot : result' = LoadOutcome(bad)
    BY <1>1 DEF Load
  <2>2. result' \in [status : {"IoError", "Missing", "Invalid"}, value : {Missing}]
                    \cup [status : Slot, value : Values]
    BY <2>1, LoadOutcomeType
  <2> QED BY <1>1, <2>2 DEF Load
<1>2. ASSUME NEW v \in Values, NEW rotate \in BOOLEAN, BeginSave(v, rotate)
      PROVE  IInv'
  BY <1>2 DEF BeginSave
<1>3. CASE InspectPrimary
  BY <1>3 DEF InspectPrimary, ReadFails
<1>4. CASE DropTemp
  BY <1>4 DEF DropTemp, Remove, RemoveFails, Removed, AfterFailedRemove, Exists
<1>5. CASE InspectBackup
  BY <1>5 DEF InspectBackup, ReadFails
<1>6. CASE ClearTemp
  BY <1>6 DEF ClearTemp, Remove, RemoveFails, Removed, AfterFailedRemove, Exists
<1>7. CASE OpenTemp
  BY <1>7 DEF OpenTemp, Open
<1>8. CASE WriteTemp
  BY <1>8 DEF WriteTemp, WriteVerified
<1>9. CASE AbandonTemp
  BY <1>9 DEF AbandonTemp, Remove, RemoveFails, Removed, AfterFailedRemove, Exists
<1>10. CASE ClearBackup
  BY <1>10 DEF ClearBackup, Remove, RemoveFails, Removed, AfterFailedRemove, Exists
<1>11. CASE Rotate
  BY <1>11 DEF Rotate, Rename, RenameFails, Renamed, AfterFailedRename, CanRename, Exists
<1>12. CASE ResetBackup
  BY <1>12 DEF ResetBackup, Remove, RemoveFails, Removed, AfterFailedRemove, Exists
<1>13. CASE OpenBackup
  BY <1>13 DEF OpenBackup, Open
<1>14. CASE WriteBackup
  BY <1>14 DEF WriteBackup, WriteVerified
<1>15. CASE ClearPrimary
  BY <1>15 DEF ClearPrimary, Remove, RemoveFails, Removed, AfterFailedRemove, Exists
<1>16. CASE Publish
  BY <1>16 DEF Publish, Rename, RenameFails, Renamed, AfterFailedRename, CanRename, Exists
<1>17. CASE Unrotate
  BY <1>17 DEF Unrotate, Rename, RenameFails, Renamed, AfterFailedRename, CanRename, Exists
<1>18. CASE VerifyPublished
  BY <1>18 DEF VerifyPublished, ReadFails
<1>19. CASE Withdraw
  BY <1>19 DEF Withdraw, Remove, RemoveFails, Removed, AfterFailedRemove, Exists
<1>20. CASE Restore
  BY <1>20 DEF Restore, Rename, RenameFails, Renamed, AfterFailedRename, CanRename, Exists
<1>21. CASE PowerLoss
  BY <1>21 DEF PowerLoss
<1>22. CASE UNCHANGED vars
  BY <1>22 DEF vars
<1> QED
  BY <1>1, <1>2, <1>3, <1>4, <1>5, <1>6, <1>7, <1>8, <1>9, <1>10, <1>11, <1>12,
     <1>13, <1>14, <1>15, <1>16, <1>17, <1>18, <1>19, <1>20, <1>21, <1>22
     DEF Next, SaveStep

(* Type correctness, for every set of payloads. *)
THEOREM TypeCorrect == Spec => []TypeOK
<1>1. IInv => TypeOK
  BY DEF IInv
<1> QED BY InitIInv, NextIInv, <1>1, PTL DEF Spec

(* A failed or interrupted save() leaves the old value or the new one. *)
THEOREM SaveIsAtomic == Spec => []OldOrNew
<1>1. IInv => OldOrNew
  BY ContentsDistinct
     DEF IInv, TypeOK, PathsAtLabel, OldOrNew, Durable, Kept, BeforeWrite, Label,
         Slot, Content
<1> QED BY InitIInv, NextIInv, <1>1, PTL DEF Spec

(* Success means published, no abandoned temp, and a second valid copy. *)
THEOREM SuccessIsDurable == Spec => []Acknowledged
<1>1. IInv => Acknowledged
  BY DEF IInv
<1> QED BY InitIInv, NextIInv, <1>1, PTL DEF Spec

(* Every rename finds its source and a free destination. *)
THEOREM NoRenameIsRefused == Spec => []RenamesHaveRoom
<1>1. IInv => RenamesHaveRoom
  BY ContentsDistinct
     DEF IInv, TypeOK, PathsAtLabel, RenamesHaveRoom, Kept, CanRename, Exists, Slot, Content
<1> QED BY InitIInv, NextIInv, <1>1, PTL DEF Spec

(* No step loses the last durable copy.  While a save() runs this is       *)
(* OldOrNew of the next state; the steps that begin and end one do not     *)
(* write to the two paths in a way that could empty them.                  *)
THEOREM ValueIsNeverLost == Spec => NeverForgets
<1> DEFINE Keeps == Durable(file) # Missing => Durable(file') # Missing
<1>1. IInv /\ [Next]_vars => [Keeps]_vars
  <2> SUFFICES ASSUME IInv, Next PROVE Keeps
    OBVIOUS
  <2>1. IInv'
    BY NextIInv
  <2>2. UNCHANGED file => Keeps
    BY DEF Durable
  <2> USE ContentsDistinct
  <2> USE DEF IInv, TypeOK, PathsAtLabel, Durable, Kept, Content, Slot, BeforeWrite,
              Goto, Return, Args, Seen, Label
  <2>3. CASE Load \/ PowerLoss \/ \E v \in Values, rotate \in BOOLEAN : BeginSave(v, rotate)
    BY <2>2, <2>3 DEF Load, PowerLoss, BeginSave
  <2>4. CASE InspectPrimary \/ InspectBackup \/ VerifyPublished
    BY <2>2, <2>4 DEF InspectPrimary, InspectBackup, VerifyPublished, ReadFails
  <2>5. CASE DropTemp \/ ClearTemp \/ AbandonTemp
    BY <2>5 DEF DropTemp, ClearTemp, AbandonTemp, Remove, RemoveFails, Removed,
                AfterFailedRemove, Exists
  <2>6. CASE OpenTemp \/ WriteTemp
    BY <2>6 DEF OpenTemp, WriteTemp, Open, WriteVerified
  <2>7. CASE OpenBackup \/ WriteBackup
    BY <2>7 DEF OpenBackup, WriteBackup, Open, WriteVerified
  <2>8. CASE ClearBackup \/ ResetBackup \/ ClearPrimary \/ Withdraw
    BY <2>8 DEF ClearBackup, ResetBackup, ClearPrimary, Withdraw, Remove, RemoveFails,
                Removed, AfterFailedRemove, Exists
  <2>9. CASE Rotate \/ Publish \/ Unrotate \/ Restore
    BY <2>9 DEF Rotate, Publish, Unrotate, Restore, Rename, RenameFails, Renamed,
                AfterFailedRename, CanRename, Exists
  <2> QED BY <2>3, <2>4, <2>5, <2>6, <2>7, <2>8, <2>9 DEF Next, SaveStep
<1> QED BY InitIInv, NextIInv, <1>1, PTL DEF Spec, NeverForgets

-----------------------------------------------------------------------------
(* The steps of save() between its beginning and its end only settle the   *)
(* register; Durable and Scratch are all the register sees of the card.    *)
LEMMA SettleLemma ==
  ASSUME IInv, IInv', pc # "idle", SaveStep \/ PowerLoss
  PROVE  /\ Durable(file') \in {base, data}
         /\ Durable(file) # Missing => Durable(file') # Missing
         /\ Scratch(file') \in IF Durable(file') = Missing
                              THEN {Missing, Scratch(file), data} ELSE {Missing}
         /\ base' = base /\ data' = data
         /\ \/ pc' # "idle" /\ result' = result
            \/ pc' = "idle" /\ result' \in {Plain("none"), Plain("IoError")}
            \/ /\ pc' = "idle" /\ result' \in {Plain("Saved"), Plain("Unchanged")}
               /\ Durable(file') = data
<1> USE ContentsDistinct
<1> USE DEF IInv, TypeOK, PathsAtLabel, Durable, Kept, Content, Slot, BeforeWrite,
            Goto, Return, Args, Seen, Label, Scratch
<1>1. CASE PowerLoss
  BY <1>1 DEF PowerLoss
<1>2. CASE InspectPrimary \/ InspectBackup \/ VerifyPublished
  BY <1>2 DEF InspectPrimary, InspectBackup, VerifyPublished, ReadFails
<1>3. CASE DropTemp \/ ClearTemp \/ AbandonTemp
  BY <1>3 DEF DropTemp, ClearTemp, AbandonTemp, Remove, RemoveFails, Removed,
              AfterFailedRemove, Exists
<1>4. CASE OpenTemp \/ WriteTemp
  BY <1>4 DEF OpenTemp, WriteTemp, Open, WriteVerified
<1>5. CASE OpenBackup \/ WriteBackup
  BY <1>5 DEF OpenBackup, WriteBackup, Open, WriteVerified
<1>6. CASE ClearBackup \/ ResetBackup \/ ClearPrimary \/ Withdraw
  BY <1>6 DEF ClearBackup, ResetBackup, ClearPrimary, Withdraw, Remove, RemoveFails,
              Removed, AfterFailedRemove, Exists
<1>7. CASE Rotate \/ Publish \/ Unrotate \/ Restore
  BY <1>7 DEF Rotate, Publish, Unrotate, Restore, Rename, RenameFails, Renamed,
              AfterFailedRename, CanRename, Exists
<1> QED BY <1>1, <1>2, <1>3, <1>4, <1>5, <1>6, <1>7 DEF SaveStep

(* load() answers with the register's value, with the unfinished first     *)
(* value when there is no other, or not at all.                            *)
LEMMA LoadReads ==
  ASSUME TypeOK, NEW bad \in SUBSET Slot
  PROVE  \/ LoadOutcome(bad) = Plain("IoError")
         \/ /\ LoadOutcome(bad) \in [status : Slot, value : Values]
            /\ \/ Durable(file) # Missing /\ LoadOutcome(bad).value = Durable(file)
               \/ /\ Durable(file) = Missing /\ Scratch(file) # Missing
                  /\ LoadOutcome(bad).value = Scratch(file)
         \/ /\ LoadOutcome(bad) \in {Plain("Missing"), Plain("Invalid")}
            /\ Durable(file) = Missing /\ Scratch(file) = Missing
<1> USE ContentsDistinct
<1> DEFINE Bad(i) == Order[i] \in bad
<1>1. Order[1] = "primary" /\ Order[2] = "bak" /\ Order[3] = "tmp"
  BY DEF Order
<1>2. CASE \E i \in 1..3 : Stops(bad, i)
  <2> DEFINE i == CHOOSE n \in 1..3 : Stops(bad, n) /\ \A m \in 1..(n-1) : ~Stops(bad, m)
  <2>1. i \in 1..3 /\ Stops(bad, i) /\ \A m \in 1..(i-1) : ~Stops(bad, m)
    BY <1>2, FirstStop
  <2>2. LoadOutcome(bad) = IF Order[i] \in bad THEN Plain("IoError") ELSE Loaded(Order[i])
    BY <1>2 DEF LoadOutcome
  <2> HIDE DEF i
  <2>3. \/ i = 1
        \/ i = 2 /\ ~Stops(bad, 1)
        \/ i = 3 /\ ~Stops(bad, 1) /\ ~Stops(bad, 2)
    BY <2>1
  <2>4. \A n \in 1..3 : ~Stops(bad, n) => file[Order[n]] \notin Values
    BY DEF Stops, Valid
  <2>5. Order[i] \notin bad => file[Order[i]] \in Values
    BY <2>1 DEF Stops, Valid
  <2> QED BY <1>1, <2>2, <2>3, <2>4, <2>5 DEF Loaded, Durable, Scratch, Slot
<1>3. CASE ~ \E i \in 1..3 : Stops(bad, i)
  <2>1. \A s \in Slot : file[s] \notin Values
    BY <1>1, <1>3 DEF Stops, Valid, Slot
  <2> QED BY <1>3, <2>1 DEF LoadOutcome, Durable, Scratch, Slot
<1> QED BY <1>2, <1>3

(* AtomicFile implements the durable register: the strongest statement of  *)
(* what a caller may count on.                                             *)
THEOREM RefinesRegister == Spec => ImplementsRegister
<1>1. Init => Register!Init
  BY ContentsDistinct
     DEF Init, Register!Init, Durable, Scratch, Answer, Plain, Content, Slot, Register!NoAnswer
<1>2. IInv /\ IInv' /\ [Next]_vars => [Register!Next]_(Register!vars)
  <2> SUFFICES ASSUME IInv, IInv', [Next]_vars PROVE [Register!Next]_(Register!vars)
    OBVIOUS
  <2> USE ContentsDistinct
  <2>1. CASE Load
    <3>1. PICK bad \in SUBSET Slot : result' = LoadOutcome(bad)
      BY <2>1 DEF Load
    <3>2. Register!Read
      BY <2>1, <3>1, LoadReads
         DEF Load, Register!Read, Answer, Plain, IInv, Slot, Durable, Scratch,
             Register!Failed, Register!Found, Register!Absent
    <3> QED BY <3>2 DEF Register!Next
  <2>2. ASSUME NEW v \in Values, NEW rotate \in BOOLEAN, BeginSave(v, rotate)
        PROVE  Register!Begin(v)
    BY <2>2 DEF BeginSave, Register!Begin, Goto, IInv, TypeOK
  <2>3. CASE pc # "idle" /\ (SaveStep \/ PowerLoss)
    <3>1. Register!Settle
      BY <2>3, SettleLemma DEF Register!Settle, IInv, TypeOK
    <3>2. CASE pc' # "idle" /\ result' = result
      BY <2>3, <3>1, <3>2, SettleLemma DEF Register!Next, Register!Progress
    <3>3. CASE pc' = "idle" /\ result' \in {Plain("none"), Plain("IoError")}
      BY <3>1, <3>3 DEF Register!Next, Register!Fail, Answer, Plain, Slot,
                        Register!Failed, Register!NoAnswer
    <3>4. CASE /\ pc' = "idle" /\ result' \in {Plain("Saved"), Plain("Unchanged")}
               /\ Durable(file') = data
      <4>1. data # Missing
        BY DEF IInv, TypeOK
      <4>2. Answer(result)' = Register!Ok
        BY <3>4 DEF Answer, Plain, Slot, Register!Ok
      <4>3. Register!Succeed
        BY <2>3, <3>1, <3>4, <4>1, <4>2 DEF Register!Succeed
      <4> QED BY <4>3 DEF Register!Next
    <3> QED BY <2>3, <3>2, <3>3, <3>4, SettleLemma
  <2>4. SaveStep \/ PowerLoss => pc # "idle"
    BY DEF SaveStep, PowerLoss, InspectPrimary, DropTemp, InspectBackup, ClearTemp,
           OpenTemp, WriteTemp, AbandonTemp, ClearBackup, Rotate, ResetBackup,
           OpenBackup, WriteBackup, ClearPrimary, Publish, Unrotate, VerifyPublished,
           Withdraw, Restore
  <2>5. CASE UNCHANGED vars
    BY <2>5 DEF vars, Register!vars, Durable, Scratch, Answer
  <2> QED BY <2>1, <2>2, <2>3, <2>4, <2>5 DEF Next, Register!Next
<1> QED BY InitIInv, NextIInv, <1>1, <1>2, PTL DEF Spec, ImplementsRegister, Register!Spec

=============================================================================
