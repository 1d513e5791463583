----------------------------- MODULE AtomicFile -----------------------------
(***************************************************************************)
(* lib/Serialization/AtomicFile.cpp: one small file kept as a primary, a   *)
(* backup and a temporary sibling.  save() is modelled call by call: every *)
(* storage call is a step that may fail, and power may be lost before each *)
(* of them.  load() is one step: nothing writes the three paths meanwhile. *)
(*                                                                         *)
(* Data: a payload that passes the caller's validator is a member of       *)
(* Values; whatever the validator or the size limit rejects is Invalid.    *)
(***************************************************************************)
EXTENDS Naturals, Sequences, SdCard

CONSTANTS
  Values,    \* payloads the validator accepts
  Invalid    \* a torn, malformed or oversize file

ASSUME ContentsDistinct ==
  /\ Missing \notin Values
  /\ Invalid \notin Values
  /\ Missing # Invalid

VARIABLES
  file,      \* the three paths on the card
  pc,        \* where save() is, "idle" outside
  data,      \* save()'s argument
  rotateIfUnchanged,
  primary,   \* what save() found at the primary path when it inspected it
  backup,    \* the same of the backup path
  result,    \* status and value of the last completed call, "none" after a reset
  base       \* history: the durable value when the last save() began

vars == <<file, pc, data, rotateIfUnchanged, primary, backup, result, base>>

Order == <<"primary", "bak", "tmp">>       \* the order load() tries them in
Slot == {"primary", "bak", "tmp"}
Content == Values \cup {Missing, Invalid}
Valid(s) == file[s] \in Values

Status == {"none", "Saved", "Unchanged", "IoError", "Missing", "Invalid"}
Plain(status) == [status |-> status, value |-> Missing]
Loaded(s) == [status |-> s, value |-> file[s]]

(* The value a card keeps whatever happens to the temp: load() finds it    *)
(* before it looks at the temp.                                            *)
Durable(f) == IF f["primary"] \in Values THEN f["primary"]
              ELSE IF f["bak"] \in Values THEN f["bak"]
              ELSE Missing

(* A card as save() may first meet it: nothing there, a file of an older   *)
(* firmware that wrote in place, or such a file cut short.                 *)
Init ==
  /\ \E c \in Content : file = [s \in Slot |-> IF s = "primary" THEN c ELSE Missing]
  /\ pc = "idle"
  /\ data \in Values
  /\ rotateIfUnchanged = FALSE
  /\ primary = Missing
  /\ backup = Missing
  /\ result = Plain("none")
  /\ base = Durable(file)

-----------------------------------------------------------------------------
(* load(): the first path that holds a valid file wins; a path that exists *)
(* and cannot be read ends the search, so that a transient failure is      *)
(* never answered with an older copy.  bad is the set of unreadable paths. *)

(* Mutants: a path that exists is taken unread, or an unreadable one skipped. *)
StopsAtAnyFile(bad, i) == Exists(file, Order[i])
StopsAtReadable(bad, i) == Valid(Order[i]) /\ Order[i] \notin bad

Stops(bad, i) == \/ Valid(Order[i])
                 \/ Order[i] \in bad /\ Exists(file, Order[i])

LoadOutcome(bad) ==
  IF \E i \in 1..3 : Stops(bad, i)
    THEN LET i == CHOOSE n \in 1..3 : Stops(bad, n) /\ \A m \in 1..(n-1) : ~Stops(bad, m)
         IN IF Order[i] \in bad THEN Plain("IoError") ELSE Loaded(Order[i])
    ELSE Plain(IF \E s \in Slot : file[s] = Invalid THEN "Invalid" ELSE "Missing")

Load ==
  /\ pc = "idle"
  /\ \E bad \in SUBSET Slot : result' = LoadOutcome(bad)
  /\ UNCHANGED <<file, pc, data, rotateIfUnchanged, primary, backup, base>>

-----------------------------------------------------------------------------
(* save()                                                                  *)

Goto(label) == pc' = label /\ UNCHANGED result
Return(status) == pc' = "idle" /\ result' = Plain(status)

Args == <<data, rotateIfUnchanged, base>>
Seen == <<primary, backup>>

(* A storage call that succeeds, and one that reports failure.             *)
Remove(s) == file' = IF Exists(file, s) THEN Removed(file, s) ELSE file
RemoveFails(s) == Exists(file, s) /\ file' \in AfterFailedRemove(file, s)
Rename(from, to) == CanRename(file, from, to) /\ file' = Renamed(file, from, to)
RenameFails(from, to) == file' \in AfterFailedRename(file, from, to)
ReadFails(s) == Exists(file, s) /\ UNCHANGED file

BeginSave(v, rotate) ==
  /\ pc = "idle"
  /\ Goto("inspectPrimary")
  /\ data' = v
  /\ rotateIfUnchanged' = rotate
  /\ base' = Durable(file)
  /\ UNCHANGED <<file, primary, backup>>

InspectPrimary ==
  /\ pc = "inspectPrimary"
  /\ \/ /\ ReadFails("primary")
        /\ Return("IoError")
        /\ UNCHANGED primary
     \/ /\ primary' = file["primary"]
        /\ IF file["primary"] = data /\ ~rotateIfUnchanged
             THEN Goto("dropTemp") ELSE Goto("inspectBackup")
        /\ UNCHANGED file
  /\ UNCHANGED <<backup, Args>>

(* Mutant: the abandoned temp stays. *)
DropTempSkipped ==
  /\ pc = "dropTemp"
  /\ UNCHANGED file /\ Return("Unchanged")
  /\ UNCHANGED <<Seen, Args>>

(* The primary already holds the value: only an abandoned temp has to go.  *)
DropTemp ==
  /\ pc = "dropTemp"
  /\ \/ Remove("tmp") /\ Return("Unchanged")
     \/ RemoveFails("tmp") /\ Return("IoError")
  /\ UNCHANGED <<Seen, Args>>

InspectBackup ==
  /\ pc = "inspectBackup"
  /\ \/ /\ ReadFails("bak")
        /\ Return("IoError")
        /\ UNCHANGED backup
     \/ /\ backup' = file["bak"]
        /\ Goto("clearTemp")
        /\ UNCHANGED file
  /\ UNCHANGED <<primary, Args>>

ClearTemp ==
  /\ pc = "clearTemp"
  /\ \/ Remove("tmp") /\ Goto("openTemp")
     \/ RemoveFails("tmp") /\ Goto("abandonTemp")
  /\ UNCHANGED <<Seen, Args>>

(* writeVerified() of path s: opening creates an empty file, which nothing *)
(* valid is; from then on until the write is synced and read back equal    *)
(* the file may hold anything, and stays behind when a call fails.         *)
Open(s, next) ==
  \/ file' = [file EXCEPT ![s] = Invalid] /\ Goto(next)
  \/ UNCHANGED file /\ Goto("abandonTemp")

WriteVerified(s, next) ==
  \/ file' = [file EXCEPT ![s] = data] /\ Goto(next)
  \/ /\ \E c \in {Invalid, data} : file' = [file EXCEPT ![s] = c]
     /\ Goto("abandonTemp")

OpenTemp ==
  /\ pc = "openTemp"
  /\ Open("tmp", "writeTemp")
  /\ UNCHANGED <<Seen, Args>>

(* Mutant: an already valid backup is not retained. *)
WriteTempBackupLost ==
  /\ pc = "writeTemp"
  /\ WriteVerified("tmp", IF primary \in Values THEN "clearBackup" ELSE "resetBackup")
  /\ UNCHANGED <<Seen, Args>>

WriteTemp ==
  /\ pc = "writeTemp"
  /\ WriteVerified("tmp", IF primary \in Values THEN "clearBackup"
                          ELSE IF backup \in Values THEN "clearPrimary"
                          ELSE "resetBackup")
  /\ UNCHANGED <<Seen, Args>>

(* Best effort: save() fails whether or not the temp could be removed.     *)
AbandonTemp ==
  /\ pc = "abandonTemp"
  /\ Remove("tmp") \/ RemoveFails("tmp")
  /\ Return("IoError")
  /\ UNCHANGED <<Seen, Args>>

(* Mutants: the old backup is not removed; the old primary is not kept. *)
ClearBackupSkipped ==
  /\ pc = "clearBackup"
  /\ UNCHANGED file /\ Goto("rotate")
  /\ UNCHANGED <<Seen, Args>>

RotateByRemoving ==
  /\ pc = "rotate"
  /\ \/ Remove("primary") /\ Goto("publish")
     \/ RemoveFails("primary") /\ Goto("abandonTemp")
  /\ UNCHANGED <<Seen, Args>>

(* A valid primary becomes the backup.                                     *)
ClearBackup ==
  /\ pc = "clearBackup"
  /\ \/ Remove("bak") /\ Goto("rotate")
     \/ RemoveFails("bak") /\ Goto("abandonTemp")
  /\ UNCHANGED <<Seen, Args>>

Rotate ==
  /\ pc = "rotate"
  /\ \/ Rename("primary", "bak") /\ Goto("publish")
     \/ RenameFails("primary", "bak") /\ Goto("abandonTemp")
  /\ UNCHANGED <<Seen, Args>>

(* No valid primary and no valid backup: write the new value as the backup *)
(* before the primary path is touched.                                     *)
ResetBackup ==
  /\ pc = "resetBackup"
  /\ \/ Remove("bak") /\ Goto("openBackup")
     \/ RemoveFails("bak") /\ Goto("abandonTemp")
  /\ UNCHANGED <<Seen, Args>>

OpenBackup ==
  /\ pc = "openBackup"
  /\ Open("bak", "writeBackup")
  /\ UNCHANGED <<Seen, Args>>

WriteBackup ==
  /\ pc = "writeBackup"
  /\ WriteVerified("bak", "clearPrimary")
  /\ UNCHANGED <<Seen, Args>>

ClearPrimary ==
  /\ pc = "clearPrimary"
  /\ \/ Remove("primary") /\ Goto("publish")
     \/ RemoveFails("primary") /\ Goto("abandonTemp")
  /\ UNCHANGED <<Seen, Args>>

(* primary \in Values is the code's "rotated" at this point.               *)
Publish ==
  /\ pc = "publish"
  /\ \/ Rename("tmp", "primary") /\ Goto("verify")
     \/ /\ RenameFails("tmp", "primary")
        /\ IF primary \in Values /\ file'["primary"] = Missing
             THEN Goto("unrotate") ELSE Return("IoError")
  /\ UNCHANGED <<Seen, Args>>

Unrotate ==
  /\ pc = "unrotate"
  /\ Rename("bak", "primary") \/ RenameFails("bak", "primary")
  /\ Return("IoError")
  /\ UNCHANGED <<Seen, Args>>

VerifyPublished ==
  /\ pc = "verify"
  /\ \/ file["primary"] = data /\ Return("Saved") /\ UNCHANGED file
     \/ ReadFails("primary") /\ Goto("withdraw")
  /\ UNCHANGED <<Seen, Args>>

Withdraw ==
  /\ pc = "withdraw"
  /\ Remove("primary") \/ RemoveFails("primary")
  /\ Goto("restore")
  /\ UNCHANGED <<Seen, Args>>

Restore ==
  /\ pc = "restore"
  /\ \/ Rename("bak", "primary")
     \/ RenameFails("bak", "primary")
  /\ Return("IoError")
  /\ UNCHANGED <<Seen, Args>>

(* The battery dies or the watchdog resets the chip.                       *)
PowerLoss ==
  /\ pc # "idle"
  /\ Return("none")
  /\ UNCHANGED <<file, Seen, Args>>

SaveStep ==
  \/ InspectPrimary \/ DropTemp \/ InspectBackup
  \/ ClearTemp \/ OpenTemp \/ WriteTemp \/ AbandonTemp
  \/ ClearBackup \/ Rotate
  \/ ResetBackup \/ OpenBackup \/ WriteBackup \/ ClearPrimary
  \/ Publish \/ Unrotate \/ VerifyPublished \/ Withdraw \/ Restore

Next ==
  \/ Load
  \/ \E v \in Values, rotate \in BOOLEAN : BeginSave(v, rotate)
  \/ SaveStep
  \/ PowerLoss

Spec == Init /\ [][Next]_vars

-----------------------------------------------------------------------------
Label == {"idle", "inspectPrimary", "dropTemp", "inspectBackup", "clearTemp",
          "openTemp", "writeTemp", "abandonTemp", "clearBackup", "rotate",
          "resetBackup", "openBackup", "writeBackup", "clearPrimary", "publish",
          "unrotate", "verify", "withdraw", "restore"}

(* Every variable holds a value of its type.                               *)
TypeOK ==
  /\ file \in [Slot -> Content]
  /\ pc \in Label
  /\ data \in Values
  /\ rotateIfUnchanged \in BOOLEAN
  /\ primary \in Content
  /\ backup \in Content
  /\ result \in [status : Status, value : {Missing}] \cup [status : Slot, value : Values]
  /\ base \in Values \cup {Missing}

(* Whatever fails and wherever power is lost, the card holds the value     *)
(* save() started from or the one it was given, and what it held before    *)
(* the first of them is never replaced by nothing: save() moves the only   *)
(* good copy aside before it publishes the new one.                        *)
OldOrNew == pc # "idle" => Durable(file) \in {base, data}

(* Once some value is durable, no step of any later save() leaves the card *)
(* without a valid primary or backup.                                      *)
NeverForgets == [][Durable(file) # Missing => Durable(file') # Missing]_vars

(* A save() that reports success has published the value, left no          *)
(* abandoned temp that a later load() could fall back on, and, when it     *)
(* wrote, kept a second valid copy: the previous value when there was one. *)
Acknowledged ==
  result.status \in {"Saved", "Unchanged"} /\ pc = "idle" =>
    /\ file["primary"] = data
    /\ file["tmp"] = Missing
    /\ result.status = "Saved" => file["bak"] = IF base = Missing THEN data ELSE base

(* Without a storage fault no rename of save() can be refused: the         *)
(* destination is always free and the source always there, whatever the    *)
(* failed attempts before left behind.  A card a save() cannot get past    *)
(* would block the setting for good.                                       *)
RenamesHaveRoom ==
  /\ pc = "rotate" => CanRename(file, "primary", "bak")
  /\ pc = "publish" => CanRename(file, "tmp", "primary")
  /\ pc = "unrotate" => CanRename(file, "bak", "primary")

-----------------------------------------------------------------------------
(* The register the three paths implement.                                 *)

Scratch(f) == IF Durable(f) = Missing /\ f["tmp"] \in Values THEN f["tmp"] ELSE Missing

Answer(r) ==
  [status |-> IF r.status \in Slot THEN "found"
              ELSE IF r.status \in {"Saved", "Unchanged"} THEN "ok"
              ELSE IF r.status = "IoError" THEN "failed"
              ELSE IF r.status = "none" THEN "none"
              ELSE "absent",
   value |-> r.value]

Register == INSTANCE DurableRegister WITH
  None <- Missing,
  Retractable <- FALSE,
  Voidable <- FALSE,
  reg <- Durable(file),
  scratch <- Scratch(file),
  writing <- IF pc = "idle" THEN Missing ELSE data,
  prior <- base,
  void <- FALSE,
  answer <- Answer(result)

(* AtomicFile implements the register: a failed or interrupted save()      *)
(* never yields a third value, load() never answers with an older copy     *)
(* while a newer one is there, and a failed save()'s outcome does not      *)
(* change between two loads.                                               *)
ImplementsRegister == Register!Spec

=============================================================================
