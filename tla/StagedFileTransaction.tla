----------------------- MODULE StagedFileTransaction ------------------------
(***************************************************************************)
(* lib/Serialization/StagedFileTransaction.cpp: a large file (the library  *)
(* catalog, covers, uploaded fonts, the sleep frame) is streamed to a      *)
(* staging path and then published over the final path, keeping the        *)
(* previous file as a backup until the new one has been checked.           *)
(*                                                                         *)
(* Every storage call is a step; power may be lost before each of them.    *)
(* Data: Values pass the caller's validator and the digest comparison,     *)
(* Invalid does not.                                                       *)
(***************************************************************************)
EXTENDS Naturals, SdCard

CONSTANTS
  Values,    \* files the validator accepts
  Invalid,   \* a torn, damaged or malformed file
  Modes,     \* the ways to publish that are used
  Faults     \* what may go wrong besides a loss of power

(* "call": remove and rename may fail; "late": having taken effect all the *)
(* same; "read": a file may be unreadable for a while.                     *)
Fault == {"call", "late", "read"}

AllModes == {"publish", "publishAndVerify", "pending"}

ASSUME StagedAssumption ==
  /\ Missing \notin Values /\ Invalid \notin Values /\ Missing # Invalid
  /\ Modes \subseteq AllModes
  /\ Faults \subseteq Fault

VARIABLES
  file,        \* the three paths on the card
  pc,
  mode,        \* the function that runs; a reader's recover() is "recover", or
               \* "open" if the reader does not look at what it returns
  data,        \* what the caller means to store
  result,      \* status of the last call, and the value when it was a read
  base,        \* history: the durable value when the last publication began
  candidates,  \* history: the last value acknowledged and all attempted since
  unvalidated, \* history: a damaged file was given to a mode that does not
               \* validate it first
  leftover,    \* history: the backup there is should have gone with the last
               \* publication that was acknowledged
  lapse        \* history: a good file that a fault has had removed since then,
               \* "undone" if the acknowledged one was behind it, else "lost"

vars == <<file, pc, mode, data, result, base, candidates, unvalidated, leftover, lapse>>

Path == {"final", "bak", "staging"}
Content == Values \cup {Missing, Invalid}
Label == {"idle", "check", "recover", "dropBackup", "discardBackup", "dropFinal", "restore",
          "recheck", "clearBackup", "rotate", "publish", "unrotate", "verify", "withdraw",
          "putBack", "commit", "pending", "rollback", "read"}

(* The value recover() brings back. *)
Durable(f) == IF f["final"] \in Values THEN f["final"]
              ELSE IF f["bak"] \in Values THEN f["bak"]
              ELSE Missing

Plain(status) == [status |-> status, value |-> Missing]

Init ==
  /\ \E c \in Content : file = [p \in Path |-> IF p = "final" THEN c ELSE Missing]
  /\ pc = "idle" /\ mode = "recover"
  /\ data \in Values
  /\ result = Plain("none")
  /\ base = Durable(file)
  /\ candidates = {base}
  /\ unvalidated = FALSE /\ leftover = FALSE /\ lapse = "none"

-----------------------------------------------------------------------------
(* The files that cannot be read at this moment. *)
Unreadable == IF "read" \in Faults THEN SUBSET Path ELSE {{}}
Validates(p, bad) == file[p] \in Values /\ p \notin bad

Goto(label) == pc' = label /\ UNCHANGED <<result, candidates>>

Return(status) ==
  /\ pc' = "idle"
  /\ result' = Plain(status)
  /\ candidates' = IF status = "Published" THEN {data} ELSE candidates

(* recover() fails; some of its readers go on all the same. *)
Reading == {"recover", "open"}
Fails == IF mode = "open" THEN Goto("read") ELSE Return("IoError")

Past == UNCHANGED <<leftover, lapse>>
Call == UNCHANGED <<mode, data, base, unvalidated>>

(* removeIfPresent() and rename(), and the same reporting failure.         *)
Remove(p) == file' = IF Exists(file, p) THEN Removed(file, p) ELSE file
RemoveFails(p) ==
  /\ "call" \in Faults /\ Exists(file, p)
  /\ file' \in IF "late" \in Faults THEN AfterFailedRemove(file, p) ELSE {file}
Rename(from, to) == CanRename(file, from, to) /\ file' = Renamed(file, from, to)
RenameFails(from, to) ==
  /\ "call" \in Faults \/ ~CanRename(file, from, to)
  /\ file' \in IF "late" \in Faults THEN AfterFailedRename(file, from, to) ELSE {file}

-----------------------------------------------------------------------------
(* The caller *)

(* It streams v to the staging path; the file may be damaged on the way or *)
(* not be what it claims to be.  Then it calls one of the functions.       *)
Begin(v, m) ==
  /\ pc = "idle"
  /\ \E c \in {v, Invalid} :
       /\ file' = [file EXCEPT !["staging"] = c]
       /\ unvalidated' = (unvalidated \/ (m # "publish" /\ c = Invalid))
  /\ mode' = m /\ data' = v
  /\ base' = Durable(file)
  /\ candidates' = candidates \cup {v}
  /\ pc' = "check"
  /\ Past /\ UNCHANGED result

BeginRecover ==
  /\ pc = "idle"
  /\ mode' \in Reading
  /\ Goto("recover")
  /\ Past /\ UNCHANGED <<file, data, base, unvalidated>>

(* Mutant: the recovered file is used unseen. *)
UsableIfThere(bad) == Exists(file, "final")

Usable(bad) == Validates("final", bad)

(* It reads the file after a recover() that did not fail; the library      *)
(* catalog's open() after any, and builds a new one if there is none.  The *)
(* staging file open() also removes is written anew by Begin.              *)
Read ==
  /\ pc = "read"
  /\ \E bad \in Unreadable :
       result' = IF Usable(bad) THEN [status |-> "found", value |-> file["final"]]
                 ELSE Plain(IF "final" \in bad \/ mode = "open" THEN "IoError" ELSE "absent")
  /\ pc' = "idle"
  /\ Past /\ UNCHANGED <<file, candidates>> /\ Call

-----------------------------------------------------------------------------
(* publish() has the staging file validated; the others compare its size. *)

(* Mutant: publish() does not validate the staging file. *)
StagingPassesUnseen(bad) == "staging" \notin bad

StagingPasses(bad) == "staging" \notin bad /\ (mode = "publish" => file["staging"] \in Values)

Check ==
  /\ pc = "check"
  /\ \E bad \in Unreadable : IF StagingPasses(bad) THEN Goto("recover") ELSE Return("InvalidStaging")
  /\ Past /\ UNCHANGED file /\ Call

(* recover() *)

NextAfterRecover == IF mode \in Reading THEN "read" ELSE "clearBackup"

(* The validator reads each of the two files once; then the digest reads   *)
(* the backup once more.                                                   *)
Recover ==
  /\ pc = "recover"
  /\ \E bad, again \in Unreadable :
       IF ~Exists(file, "bak") THEN Goto(NextAfterRecover)
       ELSE IF Validates("final", bad) THEN Goto("dropBackup")
       ELSE IF Validates("bak", bad) THEN Goto("dropFinal")
       ELSE IF Exists(file, "final") \/ "bak" \in again THEN Fails
       ELSE Goto("discardBackup")
  /\ Past /\ UNCHANGED file /\ Call

(* A good backup is discarded after a validator that could not read it.    *)
DropBackup ==
  /\ pc \in {"dropBackup", "discardBackup"}
  /\ \/ Remove("bak") /\ Goto(NextAfterRecover)
     \/ RemoveFails("bak") /\ Fails
  /\ lapse' = IF pc = "discardBackup" /\ file["bak"] \in Values /\ file' # file
                THEN "lost" ELSE lapse
  /\ UNCHANGED leftover /\ Call

(* So is a good final file, for the backup behind it.                      *)
DropFinal ==
  /\ pc = "dropFinal"
  /\ \/ Remove("final") /\ Goto("restore")
     \/ RemoveFails("final") /\ Fails
  /\ lapse' = IF file["final"] \notin Values \/ file' = file THEN lapse
              ELSE IF leftover \/ lapse = "lost" THEN "lost" ELSE "undone"
  /\ UNCHANGED leftover /\ Call

Restore ==
  /\ pc = "restore"
  /\ \/ Rename("bak", "final") /\ Goto("recheck")
     \/ RenameFails("bak", "final") /\ Fails
  /\ Past /\ Call

Recheck ==
  /\ pc = "recheck"
  /\ \E bad \in Unreadable : IF Validates("final", bad) THEN Goto(NextAfterRecover) ELSE Fails
  /\ Past /\ UNCHANGED file /\ Call

-----------------------------------------------------------------------------
(* rotateAndPublish() *)

ClearBackup ==
  /\ pc = "clearBackup"
  /\ IF ~Exists(file, "final") THEN UNCHANGED file /\ Goto("publish")
     ELSE \/ Remove("bak") /\ Goto("rotate")
          \/ RemoveFails("bak") /\ Return("IoError")
  /\ Past /\ Call

(* Mutant: the previous file is deleted. *)
RotateByRemoving ==
  /\ pc = "rotate"
  /\ \/ Remove("final") /\ Goto("publish")
     \/ RemoveFails("final") /\ Return("IoError")
  /\ Past /\ Call

(* The file behind the new one is then the one acknowledged last. *)
Rotate ==
  /\ pc = "rotate"
  /\ \/ Rename("final", "bak") /\ Goto("publish")
     \/ RenameFails("final", "bak") /\ Return("IoError")
  /\ leftover' = FALSE
  /\ UNCHANGED lapse /\ Call

(* A backup exists here exactly when the code has rotated. *)
Publish ==
  /\ pc = "publish"
  /\ \/ Rename("staging", "final") /\ Goto("verify")
     \/ /\ RenameFails("staging", "final")
        /\ IF Exists(file, "bak") /\ ~Exists(file', "final")
             THEN Goto("unrotate") ELSE Return("IoError")
  /\ Past /\ Call

Unrotate ==
  /\ pc = "unrotate"
  /\ Rename("bak", "final") \/ RenameFails("bak", "final")
  /\ Return("IoError")
  /\ Past /\ Call

-----------------------------------------------------------------------------
(* Checking what was published *)

(* Size, validator and digest.  A pending publication is only measured and *)
(* left to the caller to read through.                                     *)
Verify ==
  /\ pc = "verify"
  /\ \E bad \in Unreadable :
       IF mode = "pending" /\ "final" \notin bad THEN Goto("pending")
       ELSE IF Validates("final", bad) THEN Goto("commit") ELSE Goto("withdraw")
  /\ Past /\ UNCHANGED file /\ Call

Withdraw ==
  /\ pc = "withdraw"
  /\ Remove("final") \/ RemoveFails("final")
  /\ Goto("putBack")
  /\ Past /\ Call

PutBack ==
  /\ pc = "putBack"
  /\ Rename("bak", "final") \/ RenameFails("bak", "final")
  /\ Return("IoError")
  /\ Past /\ Call

(* Mutant: the backup is left for the next recover(). *)
CommitLater ==
  /\ pc = "commit"
  /\ UNCHANGED file /\ Return("Published")
  /\ leftover' = FALSE /\ lapse' = "none"
  /\ Call

(* commitPendingPublish(): a caller that is told it failed rolls back.     *)
Commit ==
  /\ pc = "commit"
  /\ \/ Remove("bak") /\ Return("Published")
     \/ RemoveFails("bak") /\ IF mode = "pending" THEN Goto("rollback") ELSE Return("Published")
  /\ IF pc' = "rollback" THEN Past ELSE lapse' = "none" /\ leftover' = Exists(file', "bak")
  /\ Call

(* Mutant: the caller commits whatever it has read. *)
ReadThroughUnseen(bad) == TRUE

ReadThrough(bad) == Validates("final", bad)

(* The caller reads the whole file, a few records per loop, or gives up.   *)
Pending ==
  /\ pc = "pending"
  /\ \/ \E bad \in Unreadable : Goto(IF ReadThrough(bad) THEN "commit" ELSE "rollback")
     \/ Goto("rollback")
  /\ Past /\ UNCHANGED file /\ Call

(* rollbackPendingPublish().  After a commit that failed having removed    *)
(* the backup nothing is left to put back.                                 *)
Rollback ==
  /\ pc = "rollback"
  /\ \/ Remove("final") /\ Goto("putBack")
     \/ RemoveFails("final") /\ Return("IoError")
  /\ lapse' = IF base # Missing /\ file["bak"] = Missing /\ file' # file THEN "lost" ELSE lapse
  /\ UNCHANGED leftover /\ Call

PowerLoss ==
  /\ pc # "idle"
  /\ Return("none")
  /\ Past /\ UNCHANGED file /\ Call

Next ==
  \/ \E v \in Values, m \in Modes : Begin(v, m)
  \/ BeginRecover \/ Read
  \/ Check \/ Recover \/ DropBackup \/ DropFinal \/ Restore \/ Recheck
  \/ ClearBackup \/ Rotate \/ Publish \/ Unrotate
  \/ Verify \/ Withdraw \/ PutBack \/ Commit \/ Pending \/ Rollback
  \/ PowerLoss

Spec == Init /\ [][Next]_vars

-----------------------------------------------------------------------------
Status == {"none", "Published", "InvalidStaging", "IoError", "absent"}

TypeOK ==
  /\ file \in [Path -> Content]
  /\ pc \in Label /\ mode \in AllModes \cup Reading
  /\ data \in Values /\ base \in Values \cup {Missing}
  /\ result \in [status : Status, value : {Missing}] \cup [status : {"found"}, value : Values]
  /\ candidates \subseteq Values \cup {Missing}
  /\ unvalidated \in BOOLEAN /\ leftover \in BOOLEAN
  /\ lapse \in {"none", "undone", "lost"}

Answer(r) ==
  [status |-> IF r.status = "Published" THEN "ok"
              ELSE IF r.status \in {"IoError", "InvalidStaging"} THEN "failed" ELSE r.status,
   value |-> r.value]

Register == INSTANCE DurableRegister WITH
  None <- Missing,
  Retractable <- TRUE,
  Voidable <- TRUE,
  reg <- IF lapse = "none" THEN Durable(file) ELSE Missing,
  scratch <- Missing,
  writing <- IF pc # "idle" /\ mode \notin Reading THEN data ELSE Missing,
  prior <- IF lapse = "none" THEN base ELSE Missing,
  void <- lapse # "none",
  answer <- Answer(result)

(* Whatever call fails, having taken effect or not, whichever file cannot  *)
(* be read for a while and wherever power is lost: the published file is   *)
(* the old one or the new one, the acknowledged one survives every later   *)
(* failure and recovery, and what a reader is given, even one that does    *)
(* not look at what recover() returned, is it.  All this until recover()   *)
(* removes a good file it could not read (or a commit that failed has), a  *)
(* lapse that lasts to the next publication that succeeds.                 *)
ImplementsRegister == Register!Spec

(* A recover() that misreads the final file falls back, but never behind   *)
(* the last publication that was acknowledged.  Three cases are excepted,  *)
(* which the code has: its backup was left over, the misread file was the  *)
(* backup itself, or a commit reported a failure that had taken effect.    *)
AcknowledgedOrLater == lapse # "lost" => Durable(file) \in candidates

(* recover() refuses to choose between a final file and a backup that are  *)
(* both bad, for good.  As long as staging files are validated before they *)
(* are published, no sequence of failures leaves such a pair behind.       *)
NotBlocked == ~unvalidated => ~(file["final"] = Invalid /\ file["bak"] = Invalid)

=============================================================================
