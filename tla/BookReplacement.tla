--------------------------- MODULE BookReplacement ---------------------------
(***************************************************************************)
(* src/util/BookPathMoveUtils.cpp and lib/Epub/Epub/SourceIdentityStore.cpp *)
(* for one book path: an upload is published over a book                   *)
(* (publishStagedBookFile), a reader opens the path after repairing what   *)
(* an interrupted publication left (recoverInterruptedBookFileReplacement),*)
(* and the old book's progress, clippings and bookmarks are put away       *)
(* before a new book at the same path can inherit them.                    *)
(*                                                                         *)
(* An EPUB is recognised by the identity kept in its cache directory; a    *)
(* barrier takes the identity's place while the book is being replaced.    *)
(* Other books rely on the pending marker alone.                           *)
(*                                                                         *)
(* A handler is a list of storage calls and what it does once they are     *)
(* over.  Any call may fail, whether or not it took effect, any decision   *)
(* may be unable to read the card or be refused by a pending completion,   *)
(* power may be lost anywhere.                                             *)
(***************************************************************************)
EXTENDS Naturals, Sequences, SdCard

CONSTANTS
  Books,   \* book files that can be read, told apart by their content
  Torn     \* a file that was cut off while it was written

Barrier == "barrier"        \* replacementBarrier()
Had == "had"                \* the pending marker: there was a book,
New == "new"                \* or there was none
Directory == "directory"    \* a cache directory without user state
Tombstone == "tombstone"    \* an empty bookmark file that hides older ones

ASSUME BookAssumption ==
  /\ {Missing, Torn, Barrier, Had, New, Directory, Tombstone} \cap Books = {}
  /\ Missing # Torn
  /\ {Missing, Torn} \cap {Barrier, Had, New, Directory, Tombstone} = {}

VARIABLES
  epub,        \* whether the path names an EPUB
  disk,        \* the files that belong to the path
  task,        \* the handler that runs: "open", "publish", or "finish" once
               \* a publication is in place
  pc, todo,    \* what it does next, once the calls in todo are over
  ok,          \* whether they have all succeeded so far
  staged,      \* the upload
  result,      \* what the last handler returned
  clean,       \* history: nothing has failed since it began
  slipped,     \* history: where a rename of the publication was reported as
               \* failed, took effect, and was not put back
  candidates   \* history: the book acknowledged last, or shown by a reader,
               \* and all that were uploaded since

vars == <<epub, disk, task, pc, todo, ok, staged, result, clean, slipped, candidates>>

(* The last six paths are the path-keyed user state; the identity files    *)
(* are inside the cache directory.                                         *)
Identity == {"idn", "idnBak", "idnTmp"}
State == {"cache", "clips", "marks"}
Path == {"book", "old", "staging", "pending"} \cup Identity \cup State

-----------------------------------------------------------------------------
(* Storage calls.  undo is what the code tries when the call fails.        *)

Call(op, path, arg, undo) == [op |-> op, path |-> path, arg |-> arg, undo |-> undo]
Remove(p) == <<Call("remove", p, Missing, <<>>)>>
Rename(p, q) == <<Call("rename", p, q, <<>>)>>
Write(p, content) == <<Call("write", p, content, <<>>)>>
Replace(p, content) == <<Call("replace", p, content, <<>>)>>   \* temp, then rename
MakeCache == <<Call("mkdir", "cache", Directory, <<>>)>>
QuarantineCache == <<Call("quarantine", "cache", Missing, <<>>)>>

(* The same calls, each followed by undo if it fails. *)
OrElse(calls, undo) == [i \in 1..Len(calls) |-> [calls[i] EXCEPT !.undo = undo]]

Possible(c) == c.op = "rename" => CanRename(disk, c.path, c.arg)

After(c) ==
  CASE c.op = "remove" -> Removed(disk, c.path)
    [] c.op = "rename" -> Renamed(disk, c.path, c.arg)
    [] c.op = "mkdir" -> IF Exists(disk, "cache") THEN disk ELSE [disk EXCEPT !["cache"] = c.arg]
    [] c.op = "quarantine" -> [p \in Path |-> IF p \in Identity \cup {"cache"} THEN Missing ELSE disk[p]]
    [] OTHER -> [disk EXCEPT ![c.path] = c.arg]

(* A call that fails may have taken effect; a write may be cut off in it. *)
AfterFailure(c) ==
  {disk} \cup (IF Possible(c) THEN {After(c)} ELSE {})
         \cup (IF c.op = "write" THEN {[disk EXCEPT ![c.path] = Torn]} ELSE {})

Do ==
  /\ todo # <<>> /\ Possible(Head(todo))
  /\ disk' = After(Head(todo))
  /\ todo' = Tail(todo)
  /\ UNCHANGED <<epub, task, pc, ok, staged, result, clean, slipped, candidates>>

(* The book was renamed to old, or the upload to a book where there was    *)
(* none, and both renames are taken as not done.                           *)
Slips == disk' # disk /\ (pc = "rotated" \/ (pc = "published" /\ ~Exists(disk, "old")))

(* What follows a failed call is tried whatever becomes of it. *)
Fail ==
  /\ todo # <<>>
  /\ disk' \in AfterFailure(Head(todo))
  /\ todo' = IF ok THEN Head(todo).undo ELSE Tail(todo)
  /\ ok' = FALSE
  /\ clean' = (clean /\ ~Possible(Head(todo)))
  /\ slipped' = IF Slips THEN slipped \cup {pc} ELSE slipped
  /\ UNCHANGED <<epub, task, pc, staged, result, candidates>>

-----------------------------------------------------------------------------
(* lib/Epub/Epub/SourceIdentityStore.cpp *)

Usable(p) == disk[p] \in Books \cup {Barrier}

(* load(): the first usable candidate, and where it was found. *)
LoadedFrom ==
  IF Usable("idn") THEN "idn" ELSE IF Usable("idnBak") THEN "idnBak"
  ELSE IF Usable("idnTmp") THEN "idnTmp" ELSE "nowhere"
Loaded == IF LoadedFrom = "nowhere" THEN Missing ELSE disk[LoadedFrom]
LoadInvalid == LoadedFrom = "nowhere" /\ \E p \in Identity : Exists(disk, p)

(* save() when a file that is usable is rotated into the backup first.     *)
SaveCalls(v, rotated) ==
  MakeCache
  \o OrElse(Remove("idnTmp") \o Write("idnTmp", v)
            \o (IF rotated THEN Remove("idnBak") \o Rename("idn", "idnBak") ELSE Remove("idn")),
            Remove("idnTmp"))
  \o (IF rotated THEN OrElse(Rename("idnTmp", "idn"), Rename("idnBak", "idn"))
                 ELSE Rename("idnTmp", "idn"))

Save(v) == IF disk["idn"] = v THEN Remove("idnTmp") ELSE SaveCalls(v, Usable("idn"))

(* Under a barrier: siblings that do not fit together. *)
Inconsistent ==
  \/ Torn \in {disk["idnBak"], disk["idnTmp"]}
  \/ Usable("idnTmp") /\ disk["idnTmp"] # disk["idnBak"]

(* prepareReplacement(current), Missing for a null pointer. *)
CannotPrepare(current) ==
  \/ LoadInvalid
  \/ /\ disk["idn"] = Barrier
     /\ Inconsistent \/ (current # Missing /\ disk["idnBak"] # current)
  \/ disk["idn"] # Barrier /\ current # Missing /\ Loaded \notin {Missing, current}

PrepareCalls(current) ==
  IF disk["idn"] = Barrier THEN <<>>
  ELSE IF LoadedFrom = "idn" THEN Save(Barrier)
  ELSE IF {Loaded, current} = {Missing} THEN SaveCalls(Barrier, FALSE)
  ELSE LET v == IF current # Missing THEN current ELSE Loaded IN
       SaveCalls(v, FALSE) \o (IF v = Barrier THEN Remove("idnTmp") ELSE SaveCalls(Barrier, TRUE))

(* Mutant: the identity is written back in place. *)
CancelInPlace ==
  IF disk["idn"] # Barrier \/ Inconsistent THEN <<>>
  ELSE Remove("idnTmp") \o Write("idn", disk["idnBak"])

(* cancelReplacement() *)
CancelCalls ==
  IF disk["idn"] # Barrier \/ Inconsistent THEN <<>>
  ELSE IF ~Exists(disk, "idnBak") THEN Remove("idnTmp") \o Remove("idn")
  ELSE Remove("idnTmp") \o Write("idnTmp", disk["idnBak"]) \o Remove("idn") \o Rename("idnTmp", "idn")

(* Mutant: a barrier always means that the book was replaced. *)
NeverRetained(current) == FALSE

Retained(current) == disk["idnBak"] = current

(* recoverReplacement(current) *)
Recovered(current) ==
  LET retained == IF Exists(disk, "idnBak") THEN disk["idnBak"] ELSE disk["idnTmp"] IN
  CASE ~Exists(disk, "idn") ->
         IF \/ Torn \in {disk["idnBak"], disk["idnTmp"]}
            \/ /\ Usable("idnBak") /\ Usable("idnTmp")
               /\ disk["idnTmp"] \notin {disk["idnBak"], Barrier}
           THEN "Invalid"
         ELSE IF retained = Missing THEN "NotPrepared"
         ELSE IF retained # current THEN "ReplacementPublished"
         ELSE "RestoredCurrentSource"
    [] disk["idn"] = Torn -> "Invalid"
    [] disk["idn"] = Barrier ->
         IF Inconsistent THEN "Invalid"
         ELSE IF Retained(current) THEN "RestoredCurrentSource" ELSE "ReplacementPublished"
    [] OTHER -> "NotPrepared"

RecoverCalls(current) ==
  IF Recovered(current) # "RestoredCurrentSource" THEN <<>>
  ELSE IF disk["idn"] = Barrier THEN CancelCalls ELSE Save(current)

-----------------------------------------------------------------------------
(* The steps of a handler *)

Proceed(label, calls) ==
  /\ pc' = label /\ todo' = calls /\ ok' = TRUE
  /\ UNCHANGED <<disk, result, candidates>>

Return(status) ==
  /\ pc' = "idle" /\ todo' = <<>> /\ ok' = TRUE
  /\ result' = status
  /\ candidates' = IF status \in {"Published", "Unchanged"} THEN {staged} ELSE candidates
  /\ UNCHANGED disk

At(label) == pc = label /\ todo = <<>>
Handler == UNCHANGED <<epub, task, staged, clean, slipped>>

(* Reading the card failed, or a completion is pending: false is returned, *)
(* or what publishStagedBookFile() makes of the read that failed.          *)
CannotDecide ==
  /\ pc \in {"recover", "restored", "recovered", "reset", "bind", "bound"} /\ todo = <<>> /\ ok
  /\ clean' = FALSE
  /\ \/ pc # "recovered" /\ Return("StateUnavailable")
     \/ /\ pc = "recovered" /\ task = "publish"
        /\ \E status \in {"InvalidStagedFile", "StorageError", "StateUnavailable"} : Return(status)
  /\ UNCHANGED <<epub, task, staged, slipped>>

(* These labels are reached only with every call done. *)
CallFailed ==
  /\ pc \in {"recovered", "restored", "finalize", "adopt", "barrier", "unrotated", "withdrawn",
             "bound", "done"}
  /\ todo = <<>> /\ ~ok
  /\ Return(IF pc \in {"unrotated", "withdrawn"} THEN "StorageError" ELSE "StateUnavailable")
  /\ Handler

HasState == \E p \in State : Exists(disk, p)

-----------------------------------------------------------------------------
(* recoverInterruptedBookFileReplacement() *)

HadBook == disk["pending"] = Had

(* The pending marker is sound, and it is the proof that old is ours.      *)
OwnsBackup == disk["pending"] # Torn /\ (Exists(disk, "old") => HadBook)

(* decideNonEpubReplacementRecovery() *)
NonEpubRecovery ==
  LET final == Exists(disk, "book")
      old == Exists(disk, "old")
  IN IF ~Exists(disk, "pending") THEN "Nothing" ELSE
     CASE ~old /\ HadBook = final -> "CancelPending"
       [] old /\ ~final /\ HadBook -> "RestoreOld"
       [] final /\ HadBook = old -> "FinalizeReplacement"
       [] OTHER -> "FailClosed"

RecoverOther ==
  /\ At("recover") /\ OwnsBackup /\ ~epub
  /\ CASE NonEpubRecovery = "Nothing" -> Proceed("recovered", <<>>)
       [] NonEpubRecovery = "CancelPending" -> Proceed("recovered", Remove("pending"))
       [] NonEpubRecovery = "RestoreOld" -> Proceed("recovered", Rename("old", "book") \o Remove("pending"))
       [] NonEpubRecovery = "FinalizeReplacement" -> Proceed("reset", <<>>)
       [] OTHER -> Return("StateUnavailable")
  /\ Handler

(* Nothing is interrupted: the archive is not even read. *)
Untouched ==
  /\ ~Exists(disk, "pending") /\ ~Exists(disk, "old") /\ Exists(disk, "book")
  /\ disk["idn"] \in Books \/ \A p \in Identity : ~Exists(disk, p)

RecoverEpub ==
  /\ At("recover") /\ OwnsBackup /\ epub
  /\ IF Untouched THEN Proceed("recovered", <<>>)
     ELSE IF ~Exists(disk, "book")
       THEN IF Exists(disk, "old") THEN Proceed("restored", Rename("old", "book"))
                                   ELSE Proceed("recovered", Remove("pending"))
     ELSE IF Recovered(disk["book"]) = "Invalid" THEN Return("StateUnavailable")
     ELSE IF Recovered(disk["book"]) = "ReplacementPublished" THEN Proceed("reset", <<>>)
     ELSE Proceed("finalize", RecoverCalls(disk["book"]))
  /\ Handler

(* The book cannot be read this time: the old one replaces it.  Without    *)
(* one the reader goes on, and may find that it can be read after all.     *)
RecoverUnreadable ==
  /\ At("recover") /\ OwnsBackup /\ epub
  /\ Exists(disk, "book") /\ ~Untouched
  /\ clean' = FALSE
  /\ IF Exists(disk, "old") THEN Proceed("restored", Remove("book") \o Rename("old", "book"))
                            ELSE Proceed("recovered", <<>>)
  /\ UNCHANGED <<epub, task, staged, slipped>>

Restored ==
  /\ At("restored") /\ ok
  /\ IF Recovered(disk["book"]) \in {"NotPrepared", "RestoredCurrentSource"}
       THEN Proceed("recovered", RecoverCalls(disk["book"]) \o Remove("pending"))
       ELSE Return("StateUnavailable")
  /\ Handler

RecoverRefuses ==
  /\ At("recover") /\ ~OwnsBackup
  /\ Return("StateUnavailable")
  /\ Handler

(* Mutant: the marker goes first. *)
MarkerFirst == Remove("pending") \o Remove("old")

(* The old book goes first and the marker, its proof of ownership, last.   *)
DropOld == Remove("old") \o Remove("pending")

Finalize ==
  /\ At("finalize") /\ ok
  /\ Proceed(IF task = "finish" THEN "done" ELSE "recovered", DropOld)
  /\ Handler

-----------------------------------------------------------------------------
(* resetBookUserStateAfterReplacement(), resetNonEpubUserState() *)

ShadowBookmarks ==
  CASE disk["marks"] = Tombstone -> <<>>
    [] disk["marks"] = Missing -> Replace("marks", Tombstone)
    [] OTHER -> Remove("marks") \o Replace("marks", Tombstone)

(* Mutant: the cache directory goes first. *)
CacheFirst == QuarantineCache \o Remove("clips") \o ShadowBookmarks

(* Clippings and bookmarks are put into the cache directory, and it is     *)
(* renamed away last, with the barrier inside.                             *)
PutAway == Remove("clips") \o ShadowBookmarks \o QuarantineCache

SameSource == Loaded = disk["book"]

Reset ==
  /\ At("reset") /\ ok
  /\ LET after == IF task = "bind" THEN "adopt" ELSE "finalize" IN
     IF ~HasState /\ (epub \/ task = "finish") THEN Proceed(after, <<>>)
     ELSE IF ~epub THEN Proceed(after, MakeCache \o PutAway)
     ELSE IF SameSource THEN Proceed(after, <<>>)
     ELSE IF LoadInvalid \/ CannotPrepare(Missing) THEN Return("StateUnavailable")
     ELSE Proceed(after, MakeCache \o PrepareCalls(Missing) \o PutAway)
  /\ Handler

-----------------------------------------------------------------------------
(* publishStagedBookFile() *)

(* A file was uploaded next to the book; the upload may have been cut off. *)
Upload(b) ==
  /\ pc = "idle"
  /\ \E content \in {b, Torn} : disk' = [disk EXCEPT !["staging"] = content]
  /\ task' = "publish" /\ pc' = "recover"
  /\ staged' = b
  /\ clean' = TRUE
  /\ candidates' = candidates \cup {b}
  /\ UNCHANGED <<epub, todo, ok, result, slipped>>

Stage ==
  /\ At("recovered") /\ ok /\ task = "publish"
  /\ IF Exists(disk, "old") \/ Exists(disk, "pending") THEN Return("StateUnavailable")
     ELSE IF disk["staging"] = Torn THEN Return("InvalidStagedFile")
     ELSE IF disk["staging"] = disk["book"] THEN Proceed("unchanged", Remove("staging"))
     ELSE IF ~epub \/ ~HasState THEN Proceed("barrier", <<>>)
     ELSE IF CannotPrepare(disk["book"]) THEN Return("StateUnavailable")
     ELSE Proceed("barrier", PrepareCalls(disk["book"]))
  /\ Handler

(* Mutant: the marker is not written. *)
MarkNothing == <<>>

MarkPending ==
  IF Exists(disk, "book") THEN Write("pending", Had)
  ELSE IF ~epub /\ HasState THEN Write("pending", New)
  ELSE <<>>

Mark ==
  /\ At("barrier") /\ ok
  /\ Proceed("marked", MarkPending)
  /\ Handler

Rotate ==
  /\ At("marked")
  /\ IF ~ok THEN Proceed("unmarked", CancelCalls)
     ELSE Proceed("rotated", IF Exists(disk, "book") THEN Rename("book", "old") ELSE <<>>)
  /\ Handler

Publish ==
  /\ At("rotated")
  /\ IF ok THEN Proceed("published", Rename("staging", "book")) ELSE Proceed("cancelled", CancelCalls)
  /\ Handler

Verify ==
  /\ At("published") /\ ok
  /\ task' = "finish"
  /\ Proceed("reset", <<>>)
  /\ UNCHANGED <<epub, staged, clean, slipped>>

PutBack == IF Exists(disk, "old") THEN Rename("old", "book") ELSE <<>>

(* The new file could not be renamed, or not be identified afterwards.     *)
Unpublish ==
  /\ At("published")
  /\ \/ ~ok /\ clean' = clean /\ Proceed("unrotated", PutBack)
     \/ ok /\ epub /\ clean' = FALSE
        /\ Proceed("withdrawn", Rename("book", "staging") \o PutBack)
  /\ UNCHANGED <<epub, task, staged, slipped>>

(* cancelBarrierAfterFailedPublish(): once the old book is back.           *)
Cancel ==
  /\ pc \in {"unrotated", "withdrawn"} /\ todo = <<>> /\ ok
  /\ Proceed(IF pc = "unrotated" THEN "cancelled" ELSE "failed", CancelCalls)
  /\ Handler

(* Whether or not that worked, the marker goes. *)
Unmark ==
  /\ At("cancelled")
  /\ Proceed("failed", Remove("pending"))
  /\ Handler

Finish ==
  /\ \/ At("failed") /\ Return("StorageError")
     \/ At("unmarked") /\ Return("StateUnavailable")
     \/ At("unchanged") /\ Return(IF ok THEN "Unchanged" ELSE "StorageError")
     \/ At("done") /\ ok /\ Return("Published")
  /\ Handler

-----------------------------------------------------------------------------
(* ReaderActivity opens the book *)

Open ==
  /\ pc = "idle"
  /\ task' = "open" /\ pc' = "recover"
  /\ clean' = TRUE
  /\ UNCHANGED <<epub, disk, todo, ok, staged, result, slipped, candidates>>

BeginLoad ==
  /\ At("recovered") /\ ok /\ task = "open"
  /\ task' = "bind"
  /\ IF Exists(disk, "book") THEN Proceed(IF epub THEN "bind" ELSE "bound", <<>>)
                             ELSE Return("NoBook")
  /\ UNCHANGED <<epub, staged, clean, slipped>>

(* inspectSourceBinding(): a mismatch puts the state away first; a missing *)
(* identity is adopted.                                                    *)
Bind ==
  /\ At("bind") /\ ok
  /\ IF LoadInvalid THEN Return("StateUnavailable")
     ELSE IF Loaded = Missing THEN Proceed("adopt", <<>>)
     ELSE IF Loaded = disk["book"] THEN Proceed("bound", <<>>)
     ELSE Proceed("reset", <<>>)
  /\ Handler

(* bindCurrentSource() *)
Adopt ==
  /\ At("adopt") /\ ok
  /\ Proceed("bound", Save(disk["book"]))
  /\ Handler

Bound ==
  /\ At("bound") /\ ok
  /\ pc' = "reading"
  /\ candidates' = {disk["book"]}
  /\ UNCHANGED <<epub, disk, task, todo, ok, staged, result, clean, slipped>>

(* Settings and progress are saved, then clippings and bookmarks.          *)
ReadOn ==
  /\ pc = "reading"
  /\ \E written \in {{"cache"}, State} :
       disk' = [p \in Path |-> IF p \in written THEN disk["book"] ELSE disk[p]]
  /\ pc' = "idle" /\ result' = "Read"
  /\ UNCHANGED <<epub, task, todo, ok, staged, clean, slipped, candidates>>

-----------------------------------------------------------------------------
(* The card is put into a computer and a book copied over this one.  The   *)
(* code says that a replacement is unknowable before an identity has been  *)
(* adopted (one cut off in its temp file is not), and books other than     *)
(* EPUBs have none.  An interrupted replacement may still bring its old    *)
(* book back.                                                              *)
CopyOver(b) ==
  /\ pc = "idle"
  /\ epub /\ (LoadedFrom \in {"idn", "idnBak"} \/ ~HasState)
  /\ disk' = [disk EXCEPT !["book"] = b]
  /\ candidates' = IF Exists(disk, "old") THEN candidates \cup {b} ELSE {b}
  /\ result' = "none"
  /\ UNCHANGED <<epub, task, pc, todo, ok, staged, clean, slipped>>

PowerLoss ==
  /\ pc # "idle"
  /\ \/ disk' = disk
     \/ /\ todo # <<>> /\ Head(todo).op = "write"
        /\ disk' = [disk EXCEPT ![Head(todo).path] = Torn]
  /\ pc' = "idle" /\ todo' = <<>> /\ ok' = TRUE
  /\ result' = "none"
  /\ UNCHANGED <<epub, task, staged, clean, slipped, candidates>>

(* A book with state of its own, with or without an identity; state whose  *)
(* book is gone; or nothing.                                               *)
Init ==
  /\ epub \in BOOLEAN
  /\ \E b \in Books, owner, reader \in Books \cup {Missing}, idn \in BOOLEAN :
       /\ reader \in {b, Missing} /\ owner \in {b, Missing}
       /\ idn => epub /\ reader = b
       /\ disk = [p \in Path |-> CASE p = "book" -> owner
                                   [] p \in State -> reader
                                   [] p = "idn" /\ idn -> b
                                   [] OTHER -> Missing]
  /\ task = "open" /\ pc = "idle" /\ todo = <<>> /\ ok = TRUE
  /\ staged \in Books
  /\ result = "none" /\ clean = TRUE /\ slipped = {}
  /\ candidates = {disk["book"]}

Next ==
  \/ \E b \in Books : Upload(b) \/ CopyOver(b)
  \/ Open \/ Do \/ Fail \/ CallFailed \/ CannotDecide \/ PowerLoss
  \/ RecoverRefuses \/ RecoverOther \/ RecoverEpub \/ RecoverUnreadable \/ Restored \/ Finalize
  \/ Reset
  \/ Stage \/ Mark \/ Rotate \/ Publish \/ Verify \/ Unpublish \/ Cancel \/ Unmark \/ Finish
  \/ BeginLoad \/ Bind \/ Adopt \/ Bound \/ ReadOn

Spec == Init /\ [][Next]_vars

-----------------------------------------------------------------------------
Label == {"idle", "recover", "recovered", "restored", "finalize", "reset", "unchanged", "barrier",
          "marked", "rotated", "published", "unrotated", "withdrawn", "cancelled", "unmarked",
          "failed", "done", "bind", "adopt", "bound", "reading"}
Status == {"none", "StateUnavailable", "StorageError", "InvalidStagedFile", "Published",
           "Unchanged", "NoBook", "Read"}

TypeOK ==
  /\ epub \in BOOLEAN /\ ok \in BOOLEAN /\ clean \in BOOLEAN
  /\ \A p \in Path : disk[p] \in {Missing} \cup
       (CASE p \in {"book", "old"} -> Books
          [] p = "staging" -> Books \cup {Torn}
          [] p = "pending" -> {Torn, Had, New}
          [] p \in {"idn", "idnBak"} -> Books \cup {Barrier}
          [] p = "idnTmp" -> Books \cup {Barrier, Torn}
          [] p = "cache" -> Books \cup {Directory}
          [] p = "clips" -> Books
          [] p = "marks" -> Books \cup {Tombstone})
  /\ task \in {"open", "publish", "finish", "bind"}
  /\ pc \in Label /\ result \in Status
  /\ slipped \subseteq {"rotated", "published"}
  /\ staged \in Books /\ candidates \subseteq Books \cup {Missing}

(* A reader that shows a book never shows it with the progress, clippings  *)
(* or bookmarks of another, whatever failed or was cut off before: unless  *)
(* the upload was renamed to a book where there was none, and the code was *)
(* told that it was not, and took the protection of the older state away.  *)
NeverInherits ==
  pc = "reading" /\ "published" \notin slipped =>
    \A p \in State : disk[p] \in Books => disk[p] = disk["book"]

(* The book of this path that is left, and the one that an undisturbed     *)
(* recovery makes of it.                                                   *)
Survivor == IF Exists(disk, "book") THEN disk["book"] ELSE disk["old"]
Authority == IF Exists(disk, "book") \/ HadBook THEN Survivor ELSE Missing

(* A publication that fails or is cut off leaves the old book or the new   *)
(* one, one that was acknowledged stays, and so does a book once shown.    *)
(* Recovery has it back, unless the rename of the book to old was reported *)
(* as failed and was not.                                                  *)
OldOrNewBook ==
  /\ Survivor \in candidates
  /\ Authority # Survivor => "rotated" \in slipped

(* Without a fault an open or a publication is refused only because of a   *)
(* marker or an identity that was cut off while it was written, or because *)
(* that rename left an old book without its marker; a publication also     *)
(* over a book that was copied there and never opened.                     *)
RefusalHasCause ==
  result = "StateUnavailable" /\ pc = "idle" /\ clean =>
    \/ Torn \in {disk["pending"], disk["idnTmp"]}
    \/ "rotated" \in slipped /\ Exists(disk, "old") /\ ~HadBook
    \/ task = "publish" /\ epub /\ Loaded # disk["book"]

(* Opening a book, after whatever was cut off, does not put its progress   *)
(* away as another's, as long as the card can be read and the identity     *)
(* that says whose it is, behind a barrier or not, is there.               *)
KeepsOwnState ==
  [][clean /\ task \in {"open", "bind"} /\ disk["cache"] \in Books /\ disk'["cache"] = Missing
       => disk["book"] \notin {disk["idn"], disk["idnBak"]}]_vars

(* BookPathMoveUtils.h of recoverInterruptedBookFileReplacement: "Repairs  *)
(* the small power-loss windows around staging -> final publication."  So  *)
(* a book that is on the card can be opened once nothing fails any more.   *)
BookCanBeOpened ==
  result = "StateUnavailable" /\ pc = "idle" /\ clean /\ task \in {"open", "bind"} =>
    disk["book"] \notin Books

=============================================================================
