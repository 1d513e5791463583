----------------------- MODULE ReadingStatsCompletion -----------------------
(***************************************************************************)
(* src/activities/reader/ReadingStatsCompletionTransaction.cpp: marking a  *)
(* book finished (or not finished) changes two files, the statistics of    *)
(* the book and the global ones, that must agree on it.  A marker with the *)
(* old and the new contents of both is written first; as long as it exists *)
(* recover() rolls both files forward.                                     *)
(*                                                                         *)
(* The module includes what it is built on, call by call: writeAtomic() of *)
(* ReadingStatsStorage.cpp, save() and saveRedundant() of the two kinds of *)
(* statistics; and what uses it: a reader that keeps statistics in memory, *)
(* Home, which recovers, and the list of recent books.  A storage call may *)
(* fail, having taken effect or not, a file may be unreadable for a while, *)
(* power may be lost between any two calls, and after a transaction the    *)
(* primary of a file may go bad.                                           *)
(***************************************************************************)
EXTENDS Naturals, FiniteSets, Sequences, SdCard

CONSTANTS
  Book,        \* books, that is their cache paths
  Global,      \* the global statistics
  Marker,      \* the transaction marker
  Invalid,     \* a torn file
  None,
  Novel,       \* bound: the books in which pages are read
  MaxReading   \* bound: recorded reading sessions

ASSUME CompletionAssumption ==
  /\ Global \notin Book /\ Marker \notin Book /\ Global # Marker
  /\ IsFiniteSet(Book) /\ None \notin Book /\ Novel \subseteq Book
  /\ MaxReading \in Nat

VARIABLES
  card,     \* the files: each a primary, a backup and a temp
  write,    \* the writeAtomic() under way, or None
  ok,       \* what the last writeAtomic() returned, until it is looked at
  todo,     \* the calls the main task has still to make
  goal,     \* what it makes them for, "idle" between operations
  job,      \* the arguments of the commit() under way, or None
  reader,   \* the open reader with its copy of the statistics, or None
  adopted   \* history: the marker is of statistics found only in a temp

vars == <<card, write, ok, todo, goal, job, reader, adopted>>

(* What an ordinary save changes is one number, reading.                   *)
BookStats == [done : BOOLEAN, reading : 0..MaxReading]
GlobalStats == [completed : 0..(Cardinality(Book) + 1), reading : 0..MaxReading]
Transition == [book : Book, oldBook : BookStats, newBook : BookStats,
               oldGlobal : GlobalStats, newGlobal : GlobalStats]
Mark == [change : Transition, missing : SUBSET (Book \cup {Global})]

StatsFile == Book \cup {Global}
Slot == {"primary", "bak", "tmp"}
IsValue(c) == c # Missing /\ c # Invalid

Zero(f) == IF f = Global THEN [completed |-> 0, reading |-> 0] ELSE [done |-> FALSE, reading |-> 0]

-----------------------------------------------------------------------------
(* Reading *)

(* The first slot with a valid file, as load() looks for it.               *)
Source(f) ==
  IF IsValue(card[f]["primary"]) THEN "primary"
  ELSE IF IsValue(card[f]["bak"]) THEN "bak"
  ELSE IF IsValue(card[f]["tmp"]) THEN "tmp"
  ELSE "none"

(* Only a lone invalid temp is an abandoned write.                         *)
Trusted(f) == Source(f) = "none" => card[f]["primary"] = Missing /\ card[f]["bak"] = Missing
Absent(f) == Source(f) = "none" /\ Trusted(f)
Stored(f) == IF Source(f) = "none" THEN Zero(f) ELSE card[f][Source(f)]

(* readMarker() finds nothing, removing debris in the temp, or a marker,   *)
(* or refuses to decide, because a file that exists cannot be read for the *)
(* moment among other things.  So can any file of statistics, or the scan  *)
(* for one of a newer firmware that precedes every access to them.         *)
FoundMark == IF card[Marker]["primary"] = Missing THEN card[Marker]["tmp"] ELSE card[Marker]["primary"]
MarkPending == IsValue(FoundMark)

NoMark ==
  /\ card[Marker]["primary"] = Missing
  /\ \/ card[Marker]["tmp"] = Missing /\ card' = card
     \/ card[Marker]["tmp"] = Invalid /\ card' = [card EXCEPT ![Marker]["tmp"] = Missing]

ReadMark ==
  /\ MarkPending /\ card' = card
  /\ IsValue(card[Marker]["primary"]) /\ IsValue(card[Marker]["tmp"])
       => card[Marker]["primary"] = card[Marker]["tmp"]

Protected ==
  /\ \E s \in Slot : Exists(card[Marker], s)
  /\ \/ card' = card
     \/ /\ card[Marker]["primary"] = Missing /\ card[Marker]["tmp"] = Invalid
        /\ \E c \in AfterFailedRemove(card[Marker], "tmp") : card' = [card EXCEPT ![Marker] = c]

-----------------------------------------------------------------------------
(* ReadingStatsStorage::writeAtomic *)

Write == [file : StatsFile \cup {Marker}, value : BookStats \cup GlobalStats \cup Mark,
          rotate : BOOLEAN, rotated : BOOLEAN,
          at : {"clearTemp", "open", "write", "clearBackup", "rotate", "clearPrimary",
                "publish", "withdraw", "restore", "abandon"}]

StartWrite(f, v, rotate) ==
  /\ write' = [file |-> f, value |-> v, rotate |-> rotate, rotated |-> FALSE, at |-> "clearTemp"]
  /\ ok' = FALSE

Rest == UNCHANGED <<todo, goal, job, reader, adopted>>

At(label) == write # None /\ write.at = label
Files == card[write.file]
Put(files) == card' = [card EXCEPT ![write.file] = files]
GoOn(label) == write' = [write EXCEPT !.at = label] /\ ok' = ok
Finish(success) == write' = None /\ ok' = success

(* !exists || remove: succeeds, or fails with or without effect.           *)
RemoveIn(s, then, else) ==
  \/ Put(IF Exists(Files, s) THEN Removed(Files, s) ELSE Files) /\ then
  \/ Exists(Files, s) /\ (\E c \in AfterFailedRemove(Files, s) : Put(c)) /\ else

RenameIn(from, to, then, else) ==
  \/ CanRename(Files, from, to) /\ Put(Renamed(Files, from, to)) /\ then
  \/ (\E c \in AfterFailedRename(Files, from, to) : Put(c)) /\ else

ClearTemp == At("clearTemp") /\ RemoveIn("tmp", GoOn("open"), Finish(FALSE)) /\ Rest

OpenTemp ==
  /\ At("open")
  /\ \/ Put([Files EXCEPT !["tmp"] = Invalid]) /\ GoOn("write")
     \/ (\E c \in {Missing, Invalid} : Put([Files EXCEPT !["tmp"] = c])) /\ Finish(FALSE)
  /\ Rest

AfterTemp ==
  IF write.rotate /\ Exists(Files, "primary") THEN "clearBackup" ELSE "clearPrimary"

WriteTemp ==
  /\ At("write")
  /\ \/ Put([Files EXCEPT !["tmp"] = write.value]) /\ GoOn(AfterTemp)
     \/ (\E c \in {Invalid, write.value} : Put([Files EXCEPT !["tmp"] = c])) /\ GoOn("abandon")
  /\ Rest

ClearBackup == At("clearBackup") /\ RemoveIn("bak", GoOn("rotate"), GoOn("abandon")) /\ Rest

Rotate ==
  /\ At("rotate")
  /\ RenameIn("primary", "bak",
       write' = [write EXCEPT !.at = "publish", !.rotated = TRUE] /\ ok' = ok, GoOn("abandon"))
  /\ Rest

ClearPrimary ==
  At("clearPrimary") /\ RemoveIn("primary", GoOn("publish"), GoOn("abandon")) /\ Rest

(* Publication is read back here, and the statistics once more by their    *)
(* envelope; either may fail, the second without anything being undone.    *)
Publish ==
  /\ At("publish")
  /\ RenameIn("tmp", "primary",
       GoOn("withdraw") \/ Finish(TRUE) \/ (write.file # Marker /\ Finish(FALSE)),
       GoOn("withdraw"))
  /\ Rest

Withdraw == At("withdraw") /\ RemoveIn("primary", GoOn("restore"), GoOn("restore")) /\ Rest

Restore ==
  /\ At("restore")
  /\ IF write.rotated /\ Exists(Files, "bak")
       THEN RenameIn("bak", "primary", GoOn("abandon"), GoOn("abandon"))
       ELSE GoOn("abandon") /\ card' = card
  /\ Rest

AbandonTemp == At("abandon") /\ RemoveIn("tmp", Finish(FALSE), Finish(FALSE)) /\ Rest

WriteStep ==
  \/ ClearTemp \/ OpenTemp \/ WriteTemp \/ ClearBackup \/ Rotate \/ ClearPrimary
  \/ Publish \/ Withdraw \/ Restore \/ AbandonTemp

-----------------------------------------------------------------------------
(* The calls of the main task.  Each is a step; those that publish a file  *)
(* start a writeAtomic() and look at what it returned when it is over.     *)

Call(do, f) == [do |-> do, file |-> f]
Now(do) == write = None /\ todo # <<>> /\ Head(todo).do = do
This == Head(todo).file
GoOnWith(calls) == todo' = calls \o Tail(todo)

Idle == todo' = <<>> /\ goal' = "idle" /\ job' = None
Same == ok' = FALSE /\ UNCHANGED <<write, adopted>>

(* commit() returns.  The reader that called it adopts the new statistics, *)
(* or does not write any again; the list of recent books has none.         *)
CommitReturns(success) ==
  /\ Idle
  /\ reader' = IF reader = None THEN None
               ELSE IF success THEN [reader EXCEPT !.stats = job.newBook, !.global = job.newGlobal]
               ELSE [reader EXCEPT !.writable = {}]

(* The reader opens: it loads both files, and writes those it can trust    *)
(* unless the transaction is blocked.                                      *)
ReaderOpens(blocked) ==
  /\ Idle
  /\ \E read \in SUBSET {f \in {reader.book, Global} : Trusted(f)} :
       reader' = [reader EXCEPT !.stats = Stored(reader.book), !.global = Stored(Global),
                                !.writable = IF blocked THEN {} ELSE read]

(* recoverPending() or recover() returns. *)
Return(result) ==
  \/ goal = "home" /\ Idle /\ reader' = reader
  \/ goal = "open" /\ ReaderOpens(result = "Blocked")
  \/ goal = "commit" /\ result = "Blocked" /\ CommitReturns(FALSE)
  \/ /\ goal = "commit" /\ result # "Blocked"
     /\ todo' = <<Call("check", job.book)>> /\ UNCHANGED <<goal, job, reader>>
  \/ goal = "apply" /\ CommitReturns(result = "Recovered")

-----------------------------------------------------------------------------
(* save() and saveRedundant()                                              *)

NewOf(change, f) == IF f = Global THEN change.newGlobal ELSE change.newBook
OldOf(change, f) == IF f = Global THEN change.oldGlobal ELSE change.oldBook

Allows(m, f, v) == v = NewOf(m.change, f) /\ f \in {Global, m.change.book}

Permitted(f, v) == NoMark \/ (ReadMark /\ Allows(FoundMark, f, v))

(* Something else is pending, or something cannot be read. *)
Refused == NoMark \/ ReadMark \/ Protected

BeginSave(f, v) ==
  /\ Permitted(f, v)
  /\ StartWrite(f, v, IsValue(card[f]["primary"]))

(* recover() publishes the new contents and gives up when it cannot. *)
Save ==
  /\ Now("save")
  /\ \/ /\ BeginSave(This, NewOf(FoundMark.change, This))
        /\ GoOnWith(<<Call("saved", This)>>)
        /\ UNCHANGED <<goal, job, reader, adopted>>
     \/ Refused /\ Return("Blocked") /\ Same

Saved ==
  /\ Now("saved")
  /\ \/ ok /\ GoOnWith(<<>>) /\ UNCHANGED <<goal, job, reader>>
     \/ ~ok /\ Return("Blocked")
  /\ card' = card /\ Same

(* saveRedundant(): the new contents twice, unless they are there already. *)
(* recover() has published them, so the call that would is not needed here. *)
Holds(f, s) == card[f][s] = NewOf(FoundMark.change, f)
HoldsTwice(f) == Holds(f, "primary") /\ Holds(f, "bak")

Pair ==
  /\ Now("pair")
  /\ \/ /\ GoOnWith(IF HoldsTwice(This) THEN <<>>
                     ELSE <<Call("save", This), Call("paired", This)>>)
        /\ UNCHANGED <<goal, job, reader>>
     \/ Return("Blocked")
  /\ card' = card /\ Same

Paired ==
  /\ Now("paired")
  /\ \/ HoldsTwice(This) /\ GoOnWith(<<>>) /\ UNCHANGED <<goal, job, reader>>
     \/ Return("Blocked")
  /\ card' = card /\ Same

-----------------------------------------------------------------------------
(* recover()                                                               *)

IsNew(m, f) == Trusted(f) /\ ~Absent(f) /\ Stored(f) = NewOf(m.change, f)
IsOld(m, f) == Trusted(f) /\ Stored(f) = OldOf(m.change, f) /\ (Absent(f) <=> f \in m.missing)
Recoverable(m) == \A f \in {m.change.book, Global} : IsNew(m, f) \/ IsOld(m, f)

Publishes(m, f) == IF IsNew(m, f) /\ Source(f) = "primary" THEN <<>> ELSE <<Call("save", f)>>

(* Mutant: the backups are left as they were. *)
PlanWithoutPairs(m) ==
  LET b == m.change.book IN
  Publishes(m, b) \o Publishes(m, Global)
    \o <<Call("verify", b), Call("unmark", "primary"), Call("unmark", "tmp"), Call("recovered", b)>>

Plan(m) ==
  LET b == m.change.book IN
  Publishes(m, b) \o Publishes(m, Global)
    \o <<Call("pair", b), Call("pair", Global), Call("verify", b),
         Call("unmark", "primary"), Call("unmark", "tmp"), Call("recovered", b)>>

Recover ==
  /\ Now("recover")
  /\ \/ NoMark /\ Return("NoMarker")
     \/ Protected /\ Return("Blocked")
     \/ /\ ReadMark /\ Recoverable(FoundMark)
        /\ GoOnWith(Plan(FoundMark)) /\ UNCHANGED <<goal, job, reader>>
     \/ ReadMark /\ Return("Blocked")
  /\ Same

Verify ==
  /\ Now("verify")
  /\ \/ Holds(This, "primary") /\ Holds(Global, "primary") /\ GoOnWith(<<>>)
        /\ UNCHANGED <<goal, job, reader>>
     \/ Return("Blocked")
  /\ card' = card /\ Same

(* removeMarkerFiles() *)
Unmark ==
  /\ Now("unmark")
  /\ \/ /\ card' = [card EXCEPT ![Marker][This] = Missing]
        /\ GoOnWith(<<>>) /\ UNCHANGED <<goal, job, reader>>
     \/ /\ Exists(card[Marker], This)
        /\ \E c \in AfterFailedRemove(card[Marker], This) : card' = [card EXCEPT ![Marker] = c]
        /\ Return("Blocked")
  /\ Same

Recovered ==
  /\ Now("recovered") /\ Return("Recovered")
  /\ ok' = FALSE /\ adopted' = FALSE
  /\ UNCHANGED <<card, write>>

-----------------------------------------------------------------------------
(* commit()                                                                *)

(* Mutant: the count may go below zero. *)
ChangeWithoutFloor(b, old, oldGlobal, done) ==
  [book |-> b, oldBook |-> old, newBook |-> [old EXCEPT !.done = done],
   oldGlobal |-> oldGlobal,
   newGlobal |-> [oldGlobal EXCEPT !.completed = IF done THEN @ + 1 ELSE @ - 1]]

Change(b, old, oldGlobal, done) ==
  [book |-> b, oldBook |-> old, newBook |-> [old EXCEPT !.done = done],
   oldGlobal |-> oldGlobal,
   newGlobal |-> [oldGlobal EXCEPT !.completed = IF done THEN @ + 1 ELSE IF @ > 0 THEN @ - 1 ELSE 0]]

(* It first recovers whatever is pending. *)
BeginCommit(change) ==
  /\ job' = change /\ goal' = "commit"
  /\ todo' = <<Call("recover", Marker)>>

(* Mutant: what the caller believes is not compared with what is stored. *)
MatchesUnread(change) == \A f \in {change.book, Global} : Trusted(f)

Matches(change) ==
  \A f \in {change.book, Global} : Trusted(f) /\ Stored(f) = OldOf(change, f)

Check ==
  /\ Now("check")
  /\ LET touched == {job.book, Global} IN
     \/ /\ Matches(job)
        /\ StartWrite(Marker, [change |-> job, missing |-> {f \in touched : Absent(f)}], FALSE)
        /\ GoOnWith(<<Call("marked", Marker)>>)
        /\ adopted' = \E f \in touched : Source(f) = "tmp"
        /\ UNCHANGED <<card, goal, job, reader>>
     \/ CommitReturns(FALSE) /\ card' = card /\ Same

Marked ==
  /\ Now("marked")
  /\ \/ ok /\ goal' = "apply" /\ GoOnWith(<<Call("recover", Marker)>>) /\ UNCHANGED <<job, reader>>
     \/ ~ok /\ CommitReturns(FALSE)
  /\ card' = card /\ Same

-----------------------------------------------------------------------------
(* Who uses it *)

Reader == [book : Book, stats : BookStats, global : GlobalStats,
           writable : SUBSET StatsFile, dirty : SUBSET StatsFile]

(* No file content is taken for a missing or a torn file, and None is no   *)
(* record.                                                                 *)
ASSUME ContentAssumption ==
  /\ Missing # Invalid
  /\ \A c \in {Missing, Invalid} : c \notin BookStats \cup GlobalStats \cup Mark
  /\ None \notin Write /\ None \notin Transition /\ None \notin Reader

Start == goal = "idle" /\ UNCHANGED <<card, write, ok, adopted>>

EnterHome ==
  /\ Start /\ reader = None
  /\ goal' = "home" /\ todo' = <<Call("recover", Marker)>>
  /\ UNCHANGED <<job, reader>>

OpenReader ==
  /\ Start /\ reader = None
  /\ \E b \in Book : reader' = [book |-> b, stats |-> Zero(b), global |-> Zero(Global),
                                 writable |-> {}, dirty |-> {}]
  /\ goal' = "open" /\ todo' = <<Call("recover", Marker)>>
  /\ UNCHANGED job

(* recordReadingSample() and the end of a session *)
Read ==
  /\ Start /\ reader # None
  /\ reader.writable # {} /\ reader.book \in Novel
  /\ reader.stats.reading < MaxReading /\ reader.global.reading < MaxReading
  /\ reader' = [reader EXCEPT
       !.stats.reading = IF reader.book \in reader.writable THEN @ + 1 ELSE @,
       !.global.reading = IF Global \in reader.writable THEN @ + 1 ELSE @,
       !.dirty = @ \cup reader.writable]
  /\ UNCHANGED <<goal, job, todo>>

(* saveReadingStats() *)
Flushes ==
  LET Dirty(f) == IF f \in reader.dirty \cap reader.writable THEN <<Call("flush", f)>> ELSE <<>>
  IN Dirty(reader.book) \o Dirty(Global)

InMemory(f) == IF f = Global THEN reader.global ELSE reader.stats

Flush ==
  /\ Now("flush")
  /\ \/ BeginSave(This, InMemory(This)) /\ GoOnWith(<<Call("flushed", This)>>)
     \/ Refused /\ GoOnWith(<<>>) /\ ok' = FALSE /\ write' = write
  /\ UNCHANGED <<goal, job, reader, adopted>>

Flushed ==
  /\ Now("flushed")
  /\ reader' = IF ok THEN [reader EXCEPT !.dirty = @ \ {This}] ELSE reader
  /\ GoOnWith(<<>>)
  /\ card' = card /\ UNCHANGED <<goal, job>> /\ Same

CloseReader ==
  /\ Start /\ reader # None
  /\ goal' = "close" /\ todo' = Flushes \o <<Call("leave", reader.book)>>
  /\ UNCHANGED <<job, reader>>

Leave == Now("leave") /\ Idle /\ reader' = None /\ card' = card /\ Same

(* markBookCompleted(): the statistics in memory are saved first, so that  *)
(* the transaction starts from what is stored.                             *)
FinishBook ==
  /\ Start /\ reader # None
  /\ ~reader.stats.done /\ reader.writable = {reader.book, Global}
  /\ goal' = "finish" /\ todo' = Flushes \o <<Call("complete", reader.book)>>
  /\ UNCHANGED <<job, reader>>

Complete ==
  /\ Now("complete")
  /\ IF reader.dirty # {} THEN Idle
       ELSE BeginCommit(Change(reader.book, reader.stats, reader.global, TRUE))
  /\ card' = card /\ reader' = reader /\ Same

(* setBookCompletion() of the list of recent books, which no reader is     *)
(* open behind.                                                            *)
SetBookCompletion ==
  /\ Start /\ reader = None
  /\ \E b \in Book :
       /\ Trusted(b) /\ Trusted(Global)
       /\ BeginCommit(Change(b, Stored(b), Stored(Global), ~Stored(b).done))
  /\ reader' = reader

-----------------------------------------------------------------------------
(* The environment *)

PowerLoss ==
  /\ goal # "idle" \/ reader # None
  /\ write' = None /\ ok' = FALSE
  /\ Idle /\ reader' = None
  /\ UNCHANGED <<card, adopted>>

(* A primary with a good backup goes bad after the transaction is over;    *)
(* one at a time, and not under an open reader.                            *)
Rot ==
  /\ goal = "idle" /\ reader = None /\ ~MarkPending
  /\ \A f \in StatsFile : card[f]["primary"] # Invalid
  /\ \E f \in StatsFile :
       /\ IsValue(card[f]["primary"]) /\ IsValue(card[f]["bak"])
       /\ card' = [card EXCEPT ![f]["primary"] = Invalid]
  /\ UNCHANGED <<write, ok, todo, goal, job, reader, adopted>>

Init ==
  /\ card = [f \in StatsFile \cup {Marker} |-> [s \in Slot |-> Missing]]
  /\ write = None /\ ok = FALSE
  /\ todo = <<>> /\ goal = "idle" /\ job = None
  /\ reader = None
  /\ adopted = FALSE

Next ==
  \/ WriteStep
  \/ Save \/ Saved \/ Pair \/ Paired
  \/ Recover \/ Verify \/ Unmark \/ Recovered \/ Check \/ Marked
  \/ EnterHome \/ OpenReader \/ Read \/ Flush \/ Flushed \/ CloseReader \/ Leave
  \/ FinishBook \/ Complete \/ SetBookCompletion
  \/ PowerLoss \/ Rot

Spec == Init /\ [][Next]_vars

-----------------------------------------------------------------------------
TypeOK ==
  /\ \A f \in StatsFile, s \in Slot :
       card[f][s] \in {Missing, Invalid} \cup (IF f = Global THEN GlobalStats ELSE BookStats)
  /\ \A s \in Slot : card[Marker][s] \in {Missing, Invalid} \cup Mark
  /\ write = None \/ write \in Write
  /\ job = None \/ job \in Transition
  /\ reader = None \/ reader \in Reader
  /\ ok \in BOOLEAN /\ adopted \in BOOLEAN

(* Outside a transaction the number of finished books in the global        *)
(* statistics is the number of books whose own statistics say finished:    *)
(* no crash, failed call, retry or stale copy in a reader's memory counts  *)
(* a book twice or forgets one, and neither does falling back to a backup. *)
CountedOnce ==
  ~MarkPending /\ (\A f \in StatsFile : Trusted(f))
    => Stored(Global).completed = Cardinality({b \in Book : Stored(b).done})

(* As long as a marker exists every statistics write of every book is      *)
(* refused, so it must always be possible to recover from it: both files   *)
(* hold the old or the new contents whatever failed in between.  It does   *)
(* not hold of statistics that so far exist only in the temp of a first    *)
(* save that was cut off, hence the exception: recover() removes that temp *)
(* to write the new contents, and a crash then leaves neither.             *)
PendingIsRecoverable == MarkPending /\ ~adopted => Recoverable(FoundMark)

=============================================================================
