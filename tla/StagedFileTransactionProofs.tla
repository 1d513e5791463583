-------------------- MODULE StagedFileTransactionProofs ---------------------
(***************************************************************************)
(* Theorems about StagedFileTransaction, for every set of contents.  The   *)
(* published file alone is not an inductive statement: IInv adds, for each *)
(* label, what the three paths hold there, and what is left if the final   *)
(* path is taken away.                                                     *)
(***************************************************************************)
EXTENDS StagedFileTransaction, TLAPS

(* What the backup holds for a recover() that cannot use the final path. *)
Behind == IF file["bak"] \in Values THEN file["bak"] ELSE Missing

Publishing == pc # "idle" /\ mode \notin Reading

Recovering == {"recover", "dropBackup", "discardBackup", "dropFinal", "restore", "recheck"}
Before == Recovering \cup {"clearBackup", "rotate", "publish"}
After == {"verify", "withdraw", "putBack", "commit", "pending", "rollback"}

(* The commit has removed the backup and reported failure. *)
Uncommitted == pc = "rollback" /\ file["bak"] = Missing /\ base # Missing

Modal ==
  /\ pc \in {"check", "clearBackup", "rotate", "publish", "unrotate"} \cup After => mode \notin Reading
  /\ pc = "read" => mode \in Reading
  /\ pc \in {"pending", "rollback"} => mode = "pending"

Staging ==
  /\ pc = "check" => file["staging"] \in {data, Invalid}
  /\ pc \in Before /\ mode \notin Reading => file["staging"] \in {data, Invalid}
  /\ pc \in Before /\ mode = "publish" => file["staging"] = data
  /\ pc \in Before \cup {"check"} /\ mode \notin {"recover", "open", "publish"} /\ ~unvalidated =>
       file["staging"] = data

(* Where recover() removes a file it holds for bad, the file may be good.  *)
PathsAtLabel ==
  /\ pc = "dropBackup" => file["final"] \in Values
  /\ pc = "discardBackup" => file["final"] = Missing
  /\ pc \in {"dropFinal", "restore"} => file["bak"] \in Values
  /\ pc \in {"restore", "publish", "unrotate"} => file["final"] = Missing
  /\ pc \in {"recheck", "clearBackup", "rotate"} => file["bak"] = Missing
  /\ pc = "read" /\ mode = "recover" => file["bak"] = Missing
  /\ pc = "recheck" => file["final"] \in Values
  /\ pc = "rotate" => file["final"] # Missing
  /\ pc \in After => file["final"] \in {data, Invalid} \/ (pc = "putBack" /\ file["final"] = Missing)
  /\ pc \in After /\ ~unvalidated => file["final"] # Invalid
  /\ pc = "commit" => file["final"] = data

(* What a reader would be given, now or without the final path. *)
Candidates ==
  /\ lapse = "lost" \/ Durable(file) \in candidates
  /\ Publishing => data \in candidates
  /\ lapse = "lost" \/ leftover \/ (file["bak"] \in Values => file["bak"] \in candidates)
  /\ Publishing => base = Missing \/ base \in Values
  /\ pc \in {"restore", "publish", "unrotate"} \cup After =>
       lapse = "lost" \/ Behind \in candidates \/ Uncommitted
  /\ pc \in {"publish", "unrotate"} \cup After /\ lapse # "lost" => ~leftover
  /\ leftover => Missing \notin candidates

(* For the refinement: until the new file is in place the durable value is *)
(* the one the publication began with, and it is behind the new file then. *)
Old ==
  lapse = "none" \/ base = Missing =>
    /\ Publishing /\ pc \notin After => Durable(file) = base
    /\ pc \in After => Behind = base \/ (Uncommitted /\ file["final"] = data)

IInv == TypeOK /\ Modal /\ Staging /\ PathsAtLabel /\ NotBlocked /\ Candidates /\ Old

-----------------------------------------------------------------------------
LEMMA InitIInv == Init => IInv
<1> SUFFICES ASSUME Init PROVE IInv
  OBVIOUS
<1> USE StagedAssumption
<1>1. PICK c \in Content : file = [p \in Path |-> IF p = "final" THEN c ELSE Missing]
  BY DEF Init
<1>2. /\ file["final"] = c /\ file["bak"] = Missing /\ file["staging"] = Missing
      /\ file \in [Path -> Content]
  BY <1>1 DEF Path, Content
<1>3. Durable(file) \in Values \cup {Missing}
  BY <1>2 DEF Durable, Content
<1>4. TypeOK
  BY <1>2, <1>3 DEF Init, TypeOK, Label, Plain, Status, Reading
<1>5. Modal /\ Staging /\ PathsAtLabel /\ NotBlocked /\ Candidates /\ Old
  BY <1>2, <1>3 DEF Init, Modal, Staging, PathsAtLabel, NotBlocked, Candidates, Old,
     Publishing, Recovering, Before, After, Reading
<1> QED BY <1>4, <1>5 DEF IInv

LEMMA NextIInv == IInv /\ [Next]_vars => IInv'
<1> SUFFICES ASSUME IInv, [Next]_vars PROVE IInv'
  OBVIOUS
<1> USE StagedAssumption
<1> USE DEF IInv, TypeOK, Modal, Staging, PathsAtLabel, NotBlocked, Candidates, Old, Uncommitted,
            Publishing, Recovering, Before, After, Behind, Durable, Content, Path, Label, Reading,
            Status, AllModes, Plain, Goto, Return, Fails, Call, Past, Validates, NextAfterRecover
<1>1. ASSUME NEW v \in Values, NEW m \in Modes, Begin(v, m) PROVE IInv'
  <2>1. PICK c \in {v, Invalid} :
          /\ file' = [file EXCEPT !["staging"] = c]
          /\ unvalidated' = (unvalidated \/ (m # "publish" /\ c = Invalid))
    BY <1>1 DEF Begin
  <2>2. /\ file'["final"] = file["final"] /\ file'["bak"] = file["bak"] /\ file'["staging"] = c
        /\ file' \in [Path -> Content]
    BY <2>1
  <2>3. TypeOK'
    BY <1>1, <2>1, <2>2 DEF Begin
  <2>4. NotBlocked' /\ Staging' /\ Modal'
    BY <1>1, <2>1, <2>2 DEF Begin
  <2>5. PathsAtLabel' /\ Candidates' /\ Old'
    BY <1>1, <2>2 DEF Begin
  <2> QED BY <1>1, <2>3, <2>4, <2>5 DEF Begin
<1>2. CASE BeginRecover
  BY <1>2 DEF BeginRecover
<1>3. CASE Read
  BY <1>3 DEF Read, Usable
<1>4. CASE Check
  BY <1>4 DEF Check, StagingPasses
<1>5. CASE Recover
  BY <1>5 DEF Recover, Exists
<1>6. CASE DropBackup
  BY <1>6 DEF DropBackup, Remove, RemoveFails, Removed, AfterFailedRemove, Exists
<1>7. CASE DropFinal
  BY <1>7 DEF DropFinal, Remove, RemoveFails, Removed, AfterFailedRemove, Exists
<1>8. CASE Restore
  BY <1>8 DEF Restore, Rename, RenameFails, Renamed, AfterFailedRename, CanRename, Exists
<1>9. CASE Recheck
  BY <1>9 DEF Recheck
<1>10. CASE ClearBackup
  <2>1. file' = file
    BY <1>10 DEF ClearBackup, Remove, RemoveFails, Exists
  <2>2. /\ pc' \in {"publish", "rotate"} /\ pc = "clearBackup"
        /\ pc' = "publish" => file["final"] = Missing
        /\ pc' = "rotate" => file["final"] # Missing
    BY <1>10, <2>1 DEF ClearBackup, RemoveFails, Exists
  <2>3. UNCHANGED <<mode, data, base, unvalidated, leftover, lapse, result, candidates>>
    BY <1>10, <2>2 DEF ClearBackup, RemoveFails, Exists
  <2> QED BY <2>1, <2>2, <2>3
<1>11. CASE Rotate
  <2>1. file' = file \/ file' = Renamed(file, "final", "bak")
    BY <1>11 DEF Rotate, Rename, RenameFails, AfterFailedRename
  <2>2. CASE file' = file
    <3>1. pc = "rotate" /\ pc' = "idle" /\ result' = Plain("IoError") /\ UNCHANGED <<candidates, lapse>>
          /\ leftover' = FALSE /\ Call
      BY <1>11, <2>2 DEF Rotate, Rename, Renamed, CanRename, Exists
    <3> QED BY <2>2, <3>1
  <2>3. CASE file' = Renamed(file, "final", "bak")
    <3>1. /\ file' \in [Path -> Content] /\ file'["final"] = Missing
          /\ file'["bak"] = file["final"] /\ file'["staging"] = file["staging"]
      BY <2>3 DEF Renamed
    <3>2. /\ pc = "rotate" /\ leftover' = FALSE /\ lapse' = lapse /\ Call /\ candidates' = candidates
          /\ \/ pc' = "publish" /\ result' = result
             \/ pc' = "idle" /\ result' = Plain("IoError")
      BY <1>11 DEF Rotate
    <3>3. /\ Durable(file') = Durable(file) /\ Behind' = Durable(file)
          /\ file'["bak"] \in Values => file'["bak"] = Durable(file)
      BY <3>1, <3>2
    <3>4. Candidates' /\ Old'
      BY <3>1, <3>2, <3>3
    <3>5. TypeOK'
      <4>1. Plain("IoError") \in [status : Status, value : {Missing}]
        OBVIOUS
      <4> QED BY <3>1, <3>2, <4>1
    <3>6. Modal' /\ NotBlocked'
      BY <3>1, <3>2
    <3>7. Staging'
      BY <3>1, <3>2
    <3>8. PathsAtLabel'
      BY <3>1, <3>2
    <3> QED BY <3>4, <3>5, <3>6, <3>7, <3>8
  <2> QED BY <2>1, <2>2, <2>3
<1>12. CASE Publish
  BY <1>12 DEF Publish, Rename, RenameFails, Renamed, AfterFailedRename, CanRename, Exists
<1>13. CASE Unrotate
  BY <1>13 DEF Unrotate, Rename, RenameFails, Renamed, AfterFailedRename, CanRename, Exists
<1>14. CASE Verify
  BY <1>14 DEF Verify
<1>15. CASE Withdraw
  BY <1>15 DEF Withdraw, Remove, RemoveFails, Removed, AfterFailedRemove, Exists
<1>16. CASE PutBack
  BY <1>16 DEF PutBack, Rename, RenameFails, Renamed, AfterFailedRename, CanRename, Exists
<1>17. CASE Commit
  <2>1. /\ file' \in [Path -> Content]
        /\ file'["final"] = file["final"] /\ file'["staging"] = file["staging"]
        /\ file'["bak"] \in {file["bak"], Missing}
    BY <1>17 DEF Commit, Remove, RemoveFails, Removed, AfterFailedRemove, Exists
  <2>2. CASE pc' = "rollback"
    <3>1. mode = "pending" /\ Past /\ UNCHANGED <<result, candidates>> /\ Call
      BY <1>17, <2>2 DEF Commit
    <3> QED BY <1>17, <2>1, <2>2, <3>1 DEF Commit
  <2>3. CASE pc' # "rollback"
    <3>1. /\ pc' = "idle" /\ result' = Plain("Published") /\ candidates' = {data}
          /\ lapse' = "none" /\ leftover' = (file'["bak"] # Missing) /\ Call
      BY <1>17, <2>3 DEF Commit, Exists
    <3> QED BY <1>17, <2>1, <3>1 DEF Commit
  <2> QED BY <2>2, <2>3
<1>18. CASE Pending
  <2>1. /\ pc = "pending" /\ file' = file /\ Past /\ Call /\ UNCHANGED <<result, candidates>>
        /\ pc' = "rollback" \/ (pc' = "commit" /\ file["final"] \in Values)
    BY <1>18 DEF Pending, ReadThrough
  <2>2. mode = "pending"
    BY <2>1
  <2> QED BY <2>1, <2>2
<1>19. CASE Rollback
  BY <1>19 DEF Rollback, Remove, RemoveFails, Removed, AfterFailedRemove, Exists
<1>20. CASE PowerLoss
  BY <1>20 DEF PowerLoss
<1>21. CASE UNCHANGED vars
  BY <1>21 DEF vars
<1> QED
  BY <1>1, <1>2, <1>3, <1>4, <1>5, <1>6, <1>7, <1>8, <1>9, <1>10, <1>11, <1>12, <1>13, <1>14,
     <1>15, <1>16, <1>17, <1>18, <1>19, <1>20, <1>21 DEF Next

THEOREM IInvAlways == Spec => []IInv
BY InitIInv, NextIInv, PTL DEF Spec

(* Type correctness, for every set of contents. *)
THEOREM TypeCorrect == Spec => []TypeOK
<1>1. IInv => TypeOK
  BY DEF IInv
<1> QED BY IInvAlways, <1>1, PTL

(* No failure or unreadable file takes a reader behind the last            *)
(* publication that was acknowledged, unless a backup was left over, was   *)
(* itself misread, or was removed by a commit that reported a failure.     *)
THEOREM NeverBehind == Spec => []AcknowledgedOrLater
<1>1. IInv => AcknowledgedOrLater
  BY DEF IInv, Candidates, AcknowledgedOrLater
<1> QED BY IInvAlways, <1>1, PTL

(* Recovery is never blocked while what is published was validated. *)
THEOREM NeverBlocked == Spec => []NotBlocked
<1>1. IInv => NotBlocked
  BY DEF IInv
<1> QED BY IInvAlways, <1>1, PTL

-----------------------------------------------------------------------------
(* What a step of a publication does to the durable value and the answer,  *)
(* as long as no good file is removed.                                     *)
LEMMA SettleLemma ==
  ASSUME IInv, IInv', lapse = "none", lapse' = "none", Publishing, Next
  PROVE  /\ Durable(file') \in {base, data} /\ base' = base /\ data' = data
         /\ \/ Publishing' /\ result' = result
            \/ pc' = "idle" /\ result' \in {Plain("none"), Plain("IoError"), Plain("InvalidStaging")}
            \/ pc' = "idle" /\ result' = Plain("Published") /\ Durable(file') = data
<1> USE StagedAssumption
<1> USE DEF IInv, TypeOK, Modal, PathsAtLabel, Old, Uncommitted, Publishing, Recovering, Before,
            After, Behind, Durable, Content, Path, Goto, Return, Fails, Call, Past, Plain, Reading,
            NextAfterRecover, Validates
<1>1. CASE Check \/ PowerLoss
  BY <1>1 DEF Check, PowerLoss
<1>2. CASE Recover \/ Recheck
  BY <1>2 DEF Recover, Recheck
<1>3. CASE DropBackup \/ DropFinal
  BY <1>3 DEF DropBackup, DropFinal, Remove, RemoveFails, Removed, AfterFailedRemove, Exists
<1>4. CASE Restore
  BY <1>4 DEF Restore, Rename, RenameFails, Renamed, AfterFailedRename, CanRename, Exists
<1>5. CASE ClearBackup
  BY <1>5 DEF ClearBackup, Remove, RemoveFails, Removed, AfterFailedRemove, Exists
<1>6. CASE Rotate
  BY <1>6 DEF Rotate, Rename, RenameFails, Renamed, AfterFailedRename, CanRename, Exists
<1>7. CASE Publish
  BY <1>7 DEF Publish, Rename, RenameFails, Renamed, AfterFailedRename, CanRename, Exists, Staging
<1>8. CASE Unrotate \/ PutBack
  BY <1>8 DEF Unrotate, PutBack, Rename, RenameFails, Renamed, AfterFailedRename, CanRename, Exists
<1>9. CASE Verify \/ Pending
  BY <1>9 DEF Verify, Pending
<1>10. CASE Withdraw \/ Rollback
  BY <1>10 DEF Withdraw, Rollback, Remove, RemoveFails, Removed, AfterFailedRemove, Exists
<1>11. CASE Commit
  BY <1>11 DEF Commit, Remove, RemoveFails, Removed, AfterFailedRemove, Exists
<1> QED BY <1>1, <1>2, <1>3, <1>4, <1>5, <1>6, <1>7, <1>8, <1>9, <1>10, <1>11
        DEF Next, Begin, BeginRecover, Read

(* A reader's recover() changes neither, and reads the durable value.      *)
LEMMA RecoverLemma ==
  ASSUME IInv, IInv', lapse = "none", lapse' = "none", pc # "idle", mode \in Reading, Next
  PROVE  /\ Durable(file') = Durable(file) /\ base' = base /\ mode' = mode
         /\ \/ pc' # "idle" /\ result' = result
            \/ pc' = "idle" /\ result' \in {Plain("none"), Plain("IoError")}
            \/ pc' = "idle" /\ result' = Plain("absent") /\ Durable(file) = Missing
            \/ pc' = "idle" /\ result' = [status |-> "found", value |-> Durable(file)]
               /\ Durable(file) # Missing
<1> USE StagedAssumption
<1> USE DEF IInv, TypeOK, Modal, PathsAtLabel, Old, Uncommitted, Publishing, Recovering, Before,
            After, Behind, Durable, Content, Path, Goto, Return, Fails, Call, Past, Plain, Reading,
            NextAfterRecover, Validates
<1>0. pc \notin {"check", "clearBackup", "rotate", "publish", "unrotate"} \cup After
  OBVIOUS
<1>1. CASE PowerLoss
  BY <1>1 DEF PowerLoss
<1>2. CASE Recover \/ Recheck
  BY <1>2 DEF Recover, Recheck
<1>3. CASE DropBackup \/ DropFinal
  BY <1>3 DEF DropBackup, DropFinal, Remove, RemoveFails, Removed, AfterFailedRemove, Exists
<1>4. CASE Restore
  BY <1>4 DEF Restore, Rename, RenameFails, Renamed, AfterFailedRename, CanRename, Exists
<1>5. CASE Read
  BY <1>5 DEF Read, Usable
<1> QED BY <1>0, <1>1, <1>2, <1>3, <1>4, <1>5
        DEF Next, Begin, BeginRecover, Check, ClearBackup, Rotate, Publish, Unrotate, Verify,
            Withdraw, PutBack, Commit, Pending, Rollback

(* A good file goes in the middle of an operation, or ends it with a       *)
(* failure.                                                                *)
LEMMA LapseLemma ==
  ASSUME IInv, lapse = "none", lapse' # "none", Next
  PROVE  /\ pc # "idle" /\ UNCHANGED <<mode, data, base>>
         /\ \/ pc' # "idle" /\ result' = result
            \/ pc' = "idle" /\ result' = Plain("IoError")
<1> USE StagedAssumption
<1> USE DEF IInv, TypeOK, Modal, PathsAtLabel, Old, Uncommitted, Publishing, Recovering, Before,
            After, Behind, Durable, Content, Path, Goto, Return, Fails, Call, Past, Plain, Reading,
            NextAfterRecover, Validates
<1>1. CASE DropBackup \/ DropFinal
  BY <1>1 DEF DropBackup, DropFinal
<1>2. CASE Rollback
  BY <1>2 DEF Rollback
<1> QED BY <1>1, <1>2
        DEF Next, Begin, BeginRecover, Read, Check, Recover, Restore, Recheck, ClearBackup, Rotate,
            Publish, Unrotate, Verify, Withdraw, PutBack, Commit, Pending, PowerLoss

(* After that only a publication that succeeds counts.                     *)
LEMMA VoidLemma ==
  ASSUME IInv, lapse # "none", pc # "idle", Next
  PROVE  /\ UNCHANGED <<mode, data, base>>
         /\ \/ lapse' # "none" /\ pc' # "idle" /\ result' = result
            \/ lapse' # "none" /\ pc' = "idle"
               /\ result' \in {Plain("none"), Plain("IoError"), Plain("InvalidStaging")}
            \/ lapse' # "none" /\ pc' = "idle" /\ mode \in Reading
               /\ result' \in {Plain("absent")} \cup [status : {"found"}, value : Values]
            \/ lapse' = "none" /\ pc' = "idle" /\ mode \notin Reading
               /\ result' = Plain("Published") /\ Durable(file') = data
<1> USE StagedAssumption
<1> USE DEF IInv, TypeOK, Modal, PathsAtLabel, Old, Uncommitted, Publishing, Recovering, Before,
            After, Behind, Durable, Content, Path, Goto, Return, Fails, Call, Past, Plain, Reading,
            NextAfterRecover, Validates
<1>1. CASE Read
  BY <1>1 DEF Read, Usable
<1>2. CASE Commit
  BY <1>2 DEF Commit, Remove, RemoveFails, Removed, AfterFailedRemove, Exists
<1>3. CASE DropBackup \/ DropFinal \/ Rollback
  BY <1>3 DEF DropBackup, DropFinal, Rollback
<1>4. CASE Check \/ Recover \/ Restore \/ Recheck \/ ClearBackup \/ Rotate \/ Publish
  BY <1>4 DEF Check, Recover, Restore, Recheck, ClearBackup, Rotate, Publish
<1>5. CASE Unrotate \/ Verify \/ Withdraw \/ PutBack \/ Pending \/ PowerLoss
  BY <1>5 DEF Unrotate, Verify, Withdraw, PutBack, Pending, PowerLoss
<1> QED BY <1>1, <1>2, <1>3, <1>4, <1>5 DEF Next, Begin, BeginRecover

(* StagedFileTransaction implements the durable register: whichever call   *)
(* failed, whichever file could not be read and wherever power was lost,   *)
(* no reader finds anything but the old file or the new one, as long as no *)
(* good file has been removed since the last publication that succeeded.   *)
THEOREM RefinesRegister == Spec => ImplementsRegister
<1> USE StagedAssumption
<1>1. IInv /\ Init => Register!Init
  <2> SUFFICES ASSUME IInv, Init PROVE Register!Init
    OBVIOUS
  <2>1. base = Durable(file) /\ base \in Values \cup {Missing} /\ pc = "idle" /\ lapse = "none"
    BY DEF Init, IInv, TypeOK
  <2>2. Answer(Plain("none")) = [status |-> "none", value |-> Missing] /\ result = Plain("none")
    BY DEF Answer, Plain, Init
  <2> QED BY <2>1, <2>2 DEF Register!Init, Register!NoAnswer
<1>2. IInv /\ IInv' /\ [Next]_vars => [Register!Next]_(Register!vars)
  <2> SUFFICES ASSUME IInv, IInv', [Next]_vars PROVE [Register!Next]_(Register!vars)
    OBVIOUS
  <2>0. data \in Values /\ data # Missing /\ base \in Values \cup {Missing}
    BY DEF IInv, TypeOK
  <2>1. /\ Answer(Plain("IoError")) = Register!Failed /\ Answer(Plain("none")) = Register!NoAnswer
        /\ Answer(Plain("InvalidStaging")) = Register!Failed
        /\ Answer(Plain("Published")) = Register!Ok /\ Answer(Plain("absent")) = Register!Absent
        /\ \A v \in Values : Answer([status |-> "found", value |-> v]) = Register!Found(v)
    BY DEF Answer, Plain, Register!Failed, Register!NoAnswer, Register!Ok, Register!Absent, Register!Found
  <2>2. CASE UNCHANGED vars
    BY <2>2 DEF vars, Register!vars, Durable, Answer
  <2>3. CASE Next /\ pc = "idle"
    <3>1. ASSUME NEW v \in Values, NEW m \in Modes, Begin(v, m) PROVE Register!Begin(v)
      <4>1. Durable(file') = Durable(file)
        BY <3>1 DEF Begin, Durable, IInv, TypeOK, Path
      <4> QED BY <2>3, <3>1, <4>1 DEF Begin, Past, Register!Begin, AllModes, Reading
    <3>2. CASE BeginRecover
      BY <2>3, <3>2 DEF BeginRecover, Goto, Past, Register!vars, Reading
    <3> QED BY <2>3, <3>1, <3>2
            DEF Next, Register!Next, Read, Check, Recover, DropBackup, DropFinal, Restore, Recheck,
                ClearBackup, Rotate, Publish, Unrotate, Verify, Withdraw, PutBack, Commit, Pending,
                Rollback, PowerLoss
  <2>4. CASE Next /\ lapse = "none" /\ lapse' = "none" /\ Publishing
    <3>1. Register!Settle
      BY <2>0, <2>4, SettleLemma DEF Register!Settle, Publishing
    <3>2. CASE Publishing' /\ result' = result
      BY <2>0, <2>4, <3>1, <3>2, SettleLemma DEF Register!Next, Register!Progress, Publishing
    <3>3. CASE pc' = "idle" /\ result' \in {Plain("none"), Plain("IoError"), Plain("InvalidStaging")}
      <4>1. Register!Fail
        BY <2>1, <2>4, <3>1, <3>3 DEF Register!Fail
      <4> QED BY <4>1 DEF Register!Next
    <3>4. CASE pc' = "idle" /\ result' = Plain("Published") /\ Durable(file') = data
      <4>1. Register!Succeed
        BY <2>0, <2>1, <2>4, <3>1, <3>4 DEF Register!Succeed, Publishing
      <4> QED BY <4>1 DEF Register!Next
    <3> QED BY <2>4, <3>2, <3>3, <3>4, SettleLemma
  <2>5. CASE Next /\ lapse = "none" /\ lapse' = "none" /\ pc # "idle" /\ mode \in Reading
    <3>1. Durable(file') = Durable(file) /\ base' = base /\ mode' = mode
      BY <2>5, RecoverLemma
    <3>2. CASE pc' # "idle" /\ result' = result
      BY <2>5, <3>1, <3>2 DEF Register!vars
    <3>3. CASE pc' = "idle" /\ result' = Plain("none")
      <4>1. Register!Restart
        BY <2>1, <2>5, <3>1, <3>3 DEF Register!Restart
      <4> QED BY <4>1 DEF Register!Next
    <3>4. CASE pc' = "idle" /\ result' = Plain("IoError")
      <4>1. Register!Read
        BY <2>1, <2>5, <3>1, <3>4 DEF Register!Read
      <4> QED BY <4>1 DEF Register!Next
    <3>5. CASE pc' = "idle" /\ result' = Plain("absent") /\ Durable(file) = Missing
      <4>1. Register!Read
        BY <2>1, <2>5, <3>1, <3>5 DEF Register!Read
      <4> QED BY <4>1 DEF Register!Next
    <3>6. CASE pc' = "idle" /\ result' = [status |-> "found", value |-> Durable(file)]
               /\ Durable(file) # Missing
      <4>1. Durable(file) \in Values
        BY <3>6 DEF Durable
      <4>2. Register!Read
        BY <2>1, <2>5, <3>1, <3>6, <4>1 DEF Register!Read
      <4> QED BY <4>2 DEF Register!Next
    <3> QED BY <2>5, <3>2, <3>3, <3>4, <3>5, <3>6, RecoverLemma
  <2>6. CASE Next /\ lapse = "none" /\ lapse' # "none"
    <3>1. Register!Lapse
      BY <2>1, <2>6, LapseLemma DEF Register!Lapse
    <3> QED BY <3>1 DEF Register!Next
  <2>7. CASE Next /\ lapse # "none" /\ pc # "idle"
    <3>1. UNCHANGED <<mode, data, base>>
      BY <2>7, VoidLemma
    <3>2. CASE lapse' # "none" /\ pc' # "idle" /\ result' = result
      BY <2>7, <3>1, <3>2 DEF Register!vars
    <3>3. CASE /\ lapse' # "none" /\ pc' = "idle" /\ mode \notin Reading
               /\ result' \in {Plain("none"), Plain("IoError"), Plain("InvalidStaging")}
      <4>1. Register!Fail
        BY <2>0, <2>1, <2>7, <3>1, <3>3 DEF Register!Fail
      <4> QED BY <4>1 DEF Register!Next
    <3>4. CASE lapse' # "none" /\ pc' = "idle" /\ mode \in Reading /\ result' = Plain("none")
      <4>1. Register!Restart
        BY <2>1, <2>7, <3>1, <3>4 DEF Register!Restart
      <4> QED BY <4>1 DEF Register!Next
    <3>5. CASE /\ lapse' # "none" /\ pc' = "idle" /\ mode \in Reading
               /\ result' \in {Plain("absent"), Plain("IoError"), Plain("InvalidStaging")}
      <4>1. Register!Read
        BY <2>1, <2>7, <3>1, <3>5 DEF Register!Read
      <4> QED BY <4>1 DEF Register!Next
    <3>6. CASE /\ lapse' # "none" /\ pc' = "idle" /\ mode \in Reading
               /\ result' \in [status : {"found"}, value : Values]
      <4>1. PICK v \in Values : result' = [status |-> "found", value |-> v]
        BY <3>6
      <4>2. Register!Read
        BY <2>1, <2>7, <3>1, <3>6, <4>1 DEF Register!Read
      <4> QED BY <4>2 DEF Register!Next
    <3>7. CASE /\ lapse' = "none" /\ pc' = "idle" /\ mode \notin Reading
               /\ result' = Plain("Published") /\ Durable(file') = data
      <4>1. Register!Succeed
        BY <2>0, <2>1, <2>7, <3>1, <3>7 DEF Register!Succeed
      <4> QED BY <4>1 DEF Register!Next
    <3> QED BY <2>7, <3>2, <3>3, <3>4, <3>5, <3>6, <3>7, VoidLemma
  <2> QED BY <2>2, <2>3, <2>4, <2>5, <2>6, <2>7 DEF Publishing
<1> QED BY InitIInv, NextIInv, <1>1, <1>2, PTL DEF Spec, ImplementsRegister, Register!Spec

=============================================================================
