-------------------- MODULE ReadingStatsCompletionProofs --------------------
(***************************************************************************)
(* Theorems about ReadingStatsCompletion, for any number of books and any  *)
(* number of recorded reading sessions.                                    *)
(*                                                                         *)
(* Two statements carry the induction, one for each state of the marker.   *)
(* Without a marker (Resting) every copy of a file that load() could fall  *)
(* back to says the same of what matters, whether the book is finished and *)
(* how many are: that is why a reader that writes over one copy, a power   *)
(* loss between two calls or a primary that goes bad afterwards cannot be  *)
(* told from their absence.  With a marker (Pending) the two files that it *)
(* names hold, each for itself, the old or the new contents, in a copy that*)
(* does not depend on the temp, or they held nothing before and still hold *)
(* nothing else than the new contents.                                     *)
(*                                                                         *)
(* The rest of IInv says where the program is.  Written follows the        *)
(* writeAtomic() under way from call to call, with what each slot holds    *)
(* there; Tasks says what the main task can have left to do, position by   *)
(* position in the list that recover() works off (AtPlan), in that of a    *)
(* reader that saves its statistics (Flushing) and in commit() itself;     *)
(* Ready that the copy in a reader's memory agrees with the card before it *)
(* is made the old contents of a transaction.                              *)
(***************************************************************************)
EXTENDS ReadingStatsCompletion, FiniteSetTheorems, SequenceTheorems, TLAPS

(* What a file may hold outside a transaction: no more finished books than *)
(* there are.  Its level is what the transaction is about.                 *)
N == Cardinality(Book)
Content(f) == IF f = Global THEN [completed : 0..N, reading : 0..MaxReading] ELSE BookStats
Value == BookStats \cup GlobalStats \cup Mark
Level(f, v) == IF f = Global THEN v.completed ELSE v.done
One(done) == IF done THEN 1 ELSE 0

(* Types, with the bounds that the invariant keeps. *)
Filed ==
  /\ card \in [StatsFile \cup {Marker} -> [Slot -> {Missing, Invalid} \cup Value]]
  /\ \A f \in StatsFile, s \in Slot : card[f][s] \in {Missing, Invalid} \cup Content(f)
  /\ \A s \in Slot : card[Marker][s] \in {Missing, Invalid} \cup Mark

Typed ==
  /\ Filed
  /\ write = None \/ write \in Write
  /\ job = None \/ job \in Transition
  /\ ok \in BOOLEAN /\ adopted \in BOOLEAN
  /\ reader = None \/ reader \in Reader
  /\ reader # None => reader.writable \subseteq {reader.book, Global} /\ reader.dirty \subseteq {reader.book, Global}

Pr(f) == card[f]["primary"]
Bk(f) == card[f]["bak"]
Tm(f) == card[f]["tmp"]

(* No file of statistics loses both copies: a backup is never torn, and a  *)
(* torn primary has one.                                                   *)
Sound(f) == Bk(f) # Invalid /\ (Pr(f) = Invalid => IsValue(Bk(f)))
Anchored(f) == IsValue(Pr(f)) \/ IsValue(Bk(f))

(* Every copy that load() could fall back to has the same level. *)
Settled(f) ==
  /\ IsValue(Pr(f)) => Level(f, Pr(f)) = Level(f, Stored(f))
  /\ IsValue(Bk(f)) => Level(f, Bk(f)) = Level(f, Stored(f))
  /\ Source(f) = "tmp" => Level(f, Tm(f)) = Level(f, Zero(f))

(* The marker has no backup, is never published torn, and what recover()   *)
(* reads is the only one there is.                                         *)
MarkerShape ==
  /\ Bk(Marker) = Missing /\ Pr(Marker) # Invalid
  /\ Pr(Marker) # Missing => Tm(Marker) = Missing

Finished == {b \in Book : Stored(b).done}
Quiet == (\A f \in StatsFile : Settled(f)) /\ Stored(Global).completed = Cardinality(Finished)

Touched(c) == {c.book, Global}
Marking == write # None /\ write.file = Marker

(* A file that a pending transaction names, half of it done. *)
Accepted(m, f) == IF f \in m.missing THEN {NewOf(m.change, f)} ELSE {NewOf(m.change, f), OldOf(m.change, f)}

Midway(m, f) ==
  /\ Anchored(f) => Stored(f) \in Accepted(m, f)
  /\ ~Anchored(f) => f \in m.missing /\ Tm(f) \in {Missing, Invalid, NewOf(m.change, f)}

Before == {"clearTemp", "open", "write", "clearBackup", "rotate", "clearPrimary"}
After == {"publish", "withdraw", "restore"}

(* What a writeAtomic() of a file of statistics knows of its slots. *)
SlotsAt(f) ==
  /\ write.at \in Before => (write.rotate <=> IsValue(Pr(f)))
  /\ write.at \in {"clearBackup", "rotate", "clearPrimary"} =>
       Tm(f) = write.value /\ (write.rotate <=> write.at # "clearPrimary")
  /\ write.at = "rotate" => Bk(f) = Missing
  /\ write.at = "publish" => Pr(f) = Missing /\ Tm(f) = write.value
  /\ write.at = "withdraw" => Pr(f) \in {Missing, write.value} /\ Tm(f) \in {Missing, write.value}
  /\ write.at \in {"publish", "withdraw"} => (write.rotate <=> write.rotated)
  /\ write.rotated => write.rotate
  /\ write.at \in After /\ write.rotated => IsValue(Bk(f))

(* An ordinary save does not change the level; recover() writes the new    *)
(* contents, over a file that has a copy or never had one.                 *)
SaveWrites(f) ==
  /\ Level(f, write.value) = Level(f, Stored(f))
  /\ ~write.rotate /\ ~IsValue(Bk(f)) => Level(f, write.value) = Level(f, Zero(f))

RecoverWrites(m, f) ==
  /\ f \in Touched(m.change) /\ write.value = NewOf(m.change, f)
  /\ ~adopted /\ ~write.rotate /\ ~IsValue(Bk(f)) => f \in m.missing
  /\ ~adopted /\ IsValue(Bk(f)) /\ (write.at \in After \/ ~write.rotate) => Bk(f) \in Accepted(m, f)

Writing(f) ==
  /\ write.value \in Content(f)
  /\ SlotsAt(f)
  /\ IF MarkPending THEN RecoverWrites(FoundMark, f) ELSE SaveWrites(f)

(* A transition finishes one book, or not any more, and counts it. *)
Toggles(c) ==
  /\ c.newBook.done = ~c.oldBook.done
  /\ c.newGlobal.completed = IF c.newBook.done THEN c.oldGlobal.completed + 1
                             ELSE IF c.oldGlobal.completed > 0 THEN c.oldGlobal.completed - 1 ELSE 0

Counts(c) ==
  LET others == Cardinality(Finished \ {c.book}) IN
  /\ c.oldGlobal.completed = others + One(c.oldBook.done)
  /\ c.newGlobal.completed = others + One(c.newBook.done)

(* The marker of a pending transaction, and what it was made from. *)
PendingMark(m) ==
  /\ Toggles(m.change) /\ Counts(m.change)
  /\ m.missing \subseteq Touched(m.change)
  /\ \A f \in m.missing : OldOf(m.change, f) = Zero(f)
  /\ \A f \in StatsFile \ Touched(m.change) : Settled(f)
  /\ ~adopted => \A f \in Touched(m.change) : Midway(m, f)

Pending == MarkPending => PendingMark(FoundMark)

Resting == ~MarkPending \/ Marking => Quiet

(* The marker is being written: as if nothing had happened. *)
Begun ==
  /\ ~write.rotate /\ ~write.rotated
  /\ write.value = [change |-> job, missing |-> {f \in Touched(job) : Absent(f)}]
  /\ adopted = (\E f \in Touched(job) : Source(f) = "tmp")
  /\ job \in Transition /\ Toggles(job) /\ Matches(job)
  /\ Pr(Marker) \in {Missing, write.value} /\ Tm(Marker) \in {Missing, Invalid, write.value}
  /\ write.at \in {"clearTemp", "open"} => Pr(Marker) = Missing /\ Tm(Marker) = Missing
  /\ write.at = "write" => Pr(Marker) = Missing /\ Tm(Marker) = Invalid
  /\ write.at \in {"clearPrimary", "publish"} => Pr(Marker) = Missing /\ Tm(Marker) = write.value
  /\ write.at \notin {"clearBackup", "rotate"}

Written == write # None => IF write.file = Marker THEN Begun ELSE Writing(write.file)

Sounds == \A f \in StatsFile : Sound(f)

-----------------------------------------------------------------------------
(* What can be left to do: of recover(), from its end to its beginning.    *)
Cons(c, r) == <<c>> \o r
Recover1 == Cons(Call("recover", Marker), <<>>)
Recovered1(b) == Cons(Call("recovered", b), <<>>)
UnmarkTmp(b) == Cons(Call("unmark", "tmp"), Recovered1(b))
UnmarkAll(b) == Cons(Call("unmark", "primary"), UnmarkTmp(b))
VerifyAll(b) == Cons(Call("verify", b), UnmarkAll(b))
PairedGlobal(b) == Cons(Call("paired", Global), VerifyAll(b))
PairGlobal(b) == Cons(Call("pair", Global), VerifyAll(b))
PairedBook(b) == Cons(Call("paired", b), PairGlobal(b))
PairAll(b) == Cons(Call("pair", b), PairGlobal(b))
SaveGlobal(b) == Cons(Call("save", Global), PairAll(b))

AtPlan(b) ==
  \/ todo = Recovered1(b) /\ ~MarkPending /\ Pr(Marker) = Missing /\ Tm(Marker) = Missing
  \/ /\ todo = UnmarkTmp(b) /\ Pr(Marker) = Missing
     /\ MarkPending => FoundMark.change.book = b /\ HoldsTwice(b) /\ HoldsTwice(Global)
  \/ /\ MarkPending /\ FoundMark.change.book = b
     /\ \/ todo \in {UnmarkAll(b), VerifyAll(b)} /\ HoldsTwice(b) /\ HoldsTwice(Global)
        \/ todo \in {PairGlobal(b), PairedGlobal(b)} /\ HoldsTwice(b)
        \/ todo \in {PairAll(b), PairedBook(b)}
        \/ \E do \in {"save", "saved"} :
             \/ todo = Cons(Call(do, Global), PairedGlobal(b)) /\ HoldsTwice(b)
             \/ todo \in {Cons(Call(do, b), PairedBook(b)), Cons(Call(do, Global), PairAll(b)),
                          Cons(Call(do, b), PairAll(b)), Cons(Call(do, b), SaveGlobal(b))}

Recovering == todo = Recover1 \/ \E b \in Book : AtPlan(b)

(* What can be left to do of the saves of a reader. *)
End(g, b) == Cons(Call(IF g = "close" THEN "leave" ELSE "complete", b), <<>>)
Flushing ==
  LET b == reader.book  e == End(goal, b) IN
  \/ todo = e
  \/ \E do \in {"flush", "flushed"} :
       \/ \E f \in reader.writable : todo = Cons(Call(do, f), e)
       \/ /\ reader.writable = {b, Global}
          /\ todo = Cons(Call(do, b), Cons(Call("flush", Global), e))

Check1 == Cons(Call("check", job.book), <<>>)
Marked1 == Cons(Call("marked", Marker), <<>>)

Committing ==
  /\ Toggles(job) /\ (reader # None => reader.book = job.book)
  /\ \/ Recovering
     \/ todo = Check1 /\ Pr(Marker) = Missing /\ Tm(Marker) = Missing
     \/ todo = Marked1 /\ (MarkPending => FoundMark.change = job)

Applying ==
  /\ reader # None => reader.book = job.book
  /\ MarkPending => FoundMark.change = job
  /\ todo = Recover1 \/ AtPlan(job.book)
  /\ todo \in {Recovered1(job.book), UnmarkTmp(job.book)} /\ ~MarkPending =>
       Stored(job.book) = job.newBook /\ Stored(Global) = job.newGlobal

(* What the main task has left to do, by what it does it for. *)
Tasks ==
  /\ goal \in {"idle", "home", "open", "commit", "apply", "close", "finish"}
  /\ goal = "idle" => todo = <<>> /\ write = None
  /\ job # None <=> goal \in {"commit", "apply"}
  /\ goal = "home" => reader = None /\ Recovering
  /\ goal = "open" => reader # None /\ reader.writable = {} /\ Recovering
  /\ goal \in {"close", "finish"} => reader # None /\ Flushing
  /\ goal = "finish" => ~reader.stats.done /\ reader.writable = {reader.book, Global}
  /\ goal = "commit" => Committing
  /\ goal = "apply" => Applying

(* Whoever started a writeAtomic() is about to look at its result. *)
Expecting ==
  write # None =>
    /\ todo # <<>> /\ Head(todo).file = write.file
    /\ IF write.file = Marker THEN Head(todo).do = "marked"
       ELSE Head(todo).do = IF MarkPending THEN "saved" ELSE "flushed"

(* The statistics in memory of a reader that may write them. *)
Ready ==
  reader # None /\ goal \notin {"commit", "apply"} /\ reader.writable # {} =>
    /\ ~MarkPending
    /\ \A f \in reader.writable : Level(f, InMemory(f)) = Level(f, Stored(f))

IInv ==
  /\ Typed /\ Sounds /\ MarkerShape /\ Resting /\ Pending
  /\ Written /\ Tasks /\ Expecting /\ Ready

-----------------------------------------------------------------------------
(* Contents, files and constants that are told apart. *)
LEMMA Distinct ==
  /\ \A v \in Value : v # Missing /\ v # Invalid /\ IsValue(v)
  /\ Missing # Invalid
  /\ \A f \in StatsFile : f # Marker /\ f \in StatsFile \cup {Marker}
  /\ \A f \in StatsFile : Content(f) \subseteq Value /\ Zero(f) \in Content(f)
  /\ Mark \subseteq Value /\ Content(Global) \subseteq GlobalStats
  /\ \A b \in Book : Content(b) = BookStats
  /\ Global \in StatsFile /\ Book \subseteq StatsFile
  /\ \A b \in Book : b # Global
<1>1. N \in Nat
  BY CompletionAssumption, FS_CardinalityType DEF N
<1>2. Content(Global) \subseteq GlobalStats
  BY <1>1 DEF N, Content, GlobalStats
<1>3. \A f \in StatsFile : Content(f) \subseteq Value
  BY <1>2 DEF Content, Value
<1>4. \A f \in StatsFile : Zero(f) \in Content(f)
  <2> SUFFICES ASSUME NEW f \in StatsFile PROVE Zero(f) \in Content(f)
    OBVIOUS
  <2>1. CASE f = Global
    BY <1>1, <2>1, CompletionAssumption DEF Zero, Content
  <2>2. CASE f # Global
    BY <2>2, CompletionAssumption DEF Zero, Content, BookStats
  <2> QED BY <2>1, <2>2
<1>5. \A b \in Book : Content(b) = BookStats
  BY CompletionAssumption DEF Content
<1> QED
  BY <1>2, <1>3, <1>4, <1>5, CompletionAssumption, ContentAssumption DEF Value, StatsFile, IsValue

(* One book more or less in a count of books. *)
LEMMA CountOne ==
  ASSUME NEW S \in SUBSET Book, NEW b \in Book
  PROVE  /\ Cardinality(S) \in 0..N
         /\ Cardinality(S \ {b}) \in 0..(N - 1)
         /\ Cardinality(S) = Cardinality(S \ {b}) + IF b \in S THEN 1 ELSE 0
<1>1. IsFiniteSet(S) /\ Cardinality(S) \in 0..N /\ N \in Nat
  BY CompletionAssumption, FS_Subset, FS_CardinalityType DEF N
<1>2. /\ Cardinality(S \ {b}) = IF b \in S THEN Cardinality(S) - 1 ELSE Cardinality(S)
      /\ IsFiniteSet(S \ {b})
  BY <1>1, FS_RemoveElement
<1>3. Cardinality(S \ {b}) \in Nat
  BY <1>2, FS_CardinalityType
<1>4. Cardinality(Book \ {b}) = N - 1 /\ IsFiniteSet(Book \ {b})
  BY CompletionAssumption, FS_RemoveElement DEF N
<1>5. Cardinality(S \ {b}) <= Cardinality(Book \ {b})
  <2>1. S \ {b} \in SUBSET (Book \ {b})
    OBVIOUS
  <2> QED BY <1>4, <2>1, FS_Subset
<1> QED BY <1>1, <1>2, <1>3, <1>4, <1>5

(* The slots of a file of statistics and of the marker. *)
LEMMA SlotTypes ==
  ASSUME Typed, NEW f \in StatsFile
  PROVE  /\ Pr(f) \in {Missing, Invalid} \cup Content(f)
         /\ Bk(f) \in {Missing, Invalid} \cup Content(f)
         /\ Tm(f) \in {Missing, Invalid} \cup Content(f)
         /\ card[f] = [s \in Slot |-> card[f][s]]
         /\ Stored(f) \in Content(f)
<1>1. /\ Pr(f) \in {Missing, Invalid} \cup Content(f)
      /\ Bk(f) \in {Missing, Invalid} \cup Content(f)
      /\ Tm(f) \in {Missing, Invalid} \cup Content(f)
  BY DEF Typed, Filed, Slot, Pr, Bk, Tm
<1>2. card[f] = [s \in Slot |-> card[f][s]]
  BY Distinct DEF Typed, Filed
<1>3. Stored(f) \in Content(f)
  BY <1>1, Distinct DEF Stored, Source, IsValue, Pr, Bk, Tm
<1> QED BY <1>1, <1>2, <1>3

LEMMA MarkerTypes ==
  ASSUME Typed
  PROVE  /\ Pr(Marker) \in {Missing, Invalid} \cup Mark
         /\ Bk(Marker) \in {Missing, Invalid} \cup Mark
         /\ Tm(Marker) \in {Missing, Invalid} \cup Mark
         /\ card[Marker] = [s \in Slot |-> card[Marker][s]]
         /\ FoundMark \in {Missing, Invalid} \cup Mark
         /\ MarkPending => FoundMark \in Mark
BY DEF Typed, Filed, Slot, Pr, Bk, Tm, FoundMark, MarkPending, IsValue

(* What is known of a file when it is as it was.                           *)
LEMMA FileFrame ==
  ASSUME NEW f, card'[f] = card[f]
  PROVE  /\ Pr(f)' = Pr(f) /\ Bk(f)' = Bk(f) /\ Tm(f)' = Tm(f)
         /\ Source(f)' = Source(f) /\ Stored(f)' = Stored(f)
         /\ Sound(f)' = Sound(f) /\ Settled(f)' = Settled(f) /\ Anchored(f)' = Anchored(f)
         /\ Trusted(f)' = Trusted(f) /\ Absent(f)' = Absent(f)
<1>1. /\ Pr(f)' = Pr(f) /\ Bk(f)' = Bk(f) /\ Tm(f)' = Tm(f)
  BY DEF Pr, Bk, Tm
<1>2. Source(f)' = Source(f) /\ Stored(f)' = Stored(f)
  BY DEF Source, Stored, Zero
<1>3. Sound(f)' = Sound(f) /\ Anchored(f)' = Anchored(f)
  BY <1>1 DEF Sound, Anchored
<1>4. Settled(f)' = Settled(f)
  BY <1>1, <1>2 DEF Settled, Level, Zero
<1>5. Trusted(f)' = Trusted(f)
  BY <1>1, <1>2 DEF Trusted
<1>6. Absent(f)' = Absent(f)
  BY <1>2, <1>5 DEF Absent
<1> QED BY <1>1, <1>2, <1>3, <1>4, <1>5, <1>6

(* The same of the marker. *)
LEMMA MarkerFrame ==
  ASSUME card'[Marker] = card[Marker]
  PROVE  /\ FoundMark' = FoundMark /\ MarkPending' = MarkPending /\ MarkerShape' = MarkerShape
         /\ Pr(Marker)' = Pr(Marker) /\ Tm(Marker)' = Tm(Marker)
BY DEF FoundMark, MarkPending, MarkerShape, Pr, Bk, Tm, IsValue

-----------------------------------------------------------------------------
(* What a step of writeAtomic() does to the three slots of its file.       *)
Becomes(f, p, b, t) == Pr(f)' = p /\ Bk(f)' = b /\ Tm(f)' = t
Goes(label, rotated) ==
  /\ ok' = ok /\ write' \in Write
  /\ write'.file = write.file /\ write'.value = write.value /\ write'.rotate = write.rotate
  /\ write'.at = label /\ write'.rotated = rotated
On(label) == Goes(label, write.rotated)
Ends(success) == write' = None /\ ok' = success

Move(f) ==
  LET p == Pr(f)  b == Bk(f)  t == Tm(f) IN
  \/ write.at = "clearTemp" /\ \E x \in {t, Missing} :
       Becomes(f, p, b, x) /\ (Ends(FALSE) \/ (x = Missing /\ On("open")))
  \/ write.at = "open" /\ \E x \in {Missing, Invalid} :
       Becomes(f, p, b, x) /\ (Ends(FALSE) \/ (x = Invalid /\ On("write")))
  \/ write.at = "write" /\ \E x \in {Invalid, write.value} :
       Becomes(f, p, b, x) /\ (On("abandon") \/ (x = write.value /\ On(IF write.rotate /\ p # Missing THEN "clearBackup" ELSE "clearPrimary")))
  \/ write.at = "clearBackup" /\ \E x \in {b, Missing} :
       Becomes(f, p, x, t) /\ (On("abandon") \/ (x = Missing /\ On("rotate")))
  \/ write.at = "rotate" /\ p # Missing /\ b = Missing /\ Becomes(f, Missing, p, t)
     /\ (On("abandon") \/ Goes("publish", TRUE))
  \/ write.at = "clearPrimary" /\ \E x \in {p, Missing} :
       Becomes(f, x, b, t) /\ (On("abandon") \/ (x = Missing /\ On("publish")))
  \/ write.at = "publish" /\ t # Missing /\ p = Missing /\ Becomes(f, t, b, Missing)
     /\ (On("withdraw") \/ Ends(TRUE) \/ (f # Marker /\ Ends(FALSE)))
  \/ write.at = "publish" /\ Becomes(f, p, b, t) /\ On("withdraw")
  \/ write.at = "withdraw" /\ (\E x \in {p, Missing} : Becomes(f, x, b, t)) /\ On("restore")
  \/ write.at = "restore" /\ write.rotated /\ b # Missing /\ p = Missing
     /\ Becomes(f, b, Missing, t) /\ On("abandon")
  \/ write.at \in {"rotate", "restore"} /\ Becomes(f, p, b, t) /\ On("abandon")
  \/ write.at = "abandon" /\ (\E x \in {t, Missing} : Becomes(f, p, b, x)) /\ Ends(FALSE)

Card == [StatsFile \cup {Marker} -> [Slot -> {Missing, Invalid} \cup Value]]
OnSlots(files) == files = [s \in Slot |-> files[s]]

Others(f) ==
  /\ card' = [g \in StatsFile \cup {Marker} |-> card'[g]]
  /\ OnSlots(card[f]')
  /\ \A g \in StatsFile \cup {Marker} : g # f => card'[g] = card[g]

(* Put() changes one file, slot by slot. *)
LEMMA PutSlots ==
  ASSUME Typed, NEW f \in StatsFile \cup {Marker}
  PROVE  /\ \A files : card' = [card EXCEPT ![f] = files] /\ OnSlots(files) =>
              Becomes(f, files["primary"], files["bak"], files["tmp"]) /\ Others(f)
         /\ OnSlots(card[f])
BY DEF Typed, Filed, Becomes, Pr, Bk, Tm, Others, OnSlots, Slot

(* Each of the ten actions of writeAtomic() is a Move. *)
LEMMA WriteMoves ==
  ASSUME Typed, WriteStep, NEW f, write.file = f
  PROVE  /\ write # None /\ write \in Write /\ f \in StatsFile \cup {Marker}
         /\ Move(f) /\ Others(f)
         /\ UNCHANGED <<todo, goal, job, reader, adopted>>
<1> DEFINE p == Pr(f)  b == Bk(f)  t == Tm(f)
<1>1. write # None /\ write \in Write /\ UNCHANGED <<todo, goal, job, reader, adopted>>
  BY DEF Typed, Filed, WriteStep, ClearTemp, OpenTemp, WriteTemp, ClearBackup, Rotate, ClearPrimary,
         Publish, Withdraw, Restore, AbandonTemp, At, Rest
<1>2. f \in StatsFile \cup {Marker} /\ OnSlots(Files) /\ Files = card[f]
  BY <1>1, PutSlots DEF Write, Files
<1>3. Files["primary"] = p /\ Files["bak"] = b /\ Files["tmp"] = t
  BY DEF Files, Pr, Bk, Tm
<1>4. \A files : Put(files) /\ OnSlots(files) =>
        Becomes(f, files["primary"], files["bak"], files["tmp"]) /\ Others(f)
  BY <1>2, PutSlots DEF Put
<1>5. Slot = {"primary", "bak", "tmp"}
  BY DEF Slot
<1>6. \A x : /\ Put([Files EXCEPT !["primary"] = x]) => Becomes(f, x, b, t) /\ Others(f)
             /\ Put([Files EXCEPT !["bak"] = x]) => Becomes(f, p, x, t) /\ Others(f)
             /\ Put([Files EXCEPT !["tmp"] = x]) => Becomes(f, p, b, x) /\ Others(f)
  <2> SUFFICES ASSUME NEW x
               PROVE /\ Put([Files EXCEPT !["primary"] = x]) => Becomes(f, x, b, t) /\ Others(f)
                     /\ Put([Files EXCEPT !["bak"] = x]) => Becomes(f, p, x, t) /\ Others(f)
                     /\ Put([Files EXCEPT !["tmp"] = x]) => Becomes(f, p, b, x) /\ Others(f)
    OBVIOUS
  <2> DEFINE A == [Files EXCEPT !["primary"] = x]
             B == [Files EXCEPT !["bak"] = x]
             C == [Files EXCEPT !["tmp"] = x]
  <2>1. /\ OnSlots(A) /\ A["primary"] = x /\ A["bak"] = b /\ A["tmp"] = t
        /\ OnSlots(B) /\ B["primary"] = p /\ B["bak"] = x /\ B["tmp"] = t
        /\ OnSlots(C) /\ C["primary"] = p /\ C["bak"] = b /\ C["tmp"] = x
    BY <1>2, <1>3, <1>5 DEF OnSlots
  <2>2. /\ Put(A) => Becomes(f, A["primary"], A["bak"], A["tmp"]) /\ Others(f)
        /\ Put(B) => Becomes(f, B["primary"], B["bak"], B["tmp"]) /\ Others(f)
        /\ Put(C) => Becomes(f, C["primary"], C["bak"], C["tmp"]) /\ Others(f)
    <3> HIDE DEF A, B, C
    <3> QED BY <1>4, <2>1
  <2> QED BY <2>1, <2>2
<1>7. Put(Files) => Becomes(f, p, b, t) /\ Others(f)
  BY <1>2, <1>3, <1>4
<1>8. \A s \in Slot : Removed(Files, s) = [Files EXCEPT ![s] = Missing] /\ (Exists(Files, s) <=> Files[s] # Missing)
  BY DEF Removed, Exists
<1>9. ASSUME NEW s \in Slot, NEW r \in Slot, s # r
      PROVE  /\ CanRename(Files, s, r) <=> Files[s] # Missing /\ Files[r] = Missing
             /\ Put(Renamed(Files, s, r)) =>
                  Becomes(f, IF s = "primary" THEN Missing ELSE IF r = "primary" THEN Files[s] ELSE p,
                             IF s = "bak" THEN Missing ELSE IF r = "bak" THEN Files[s] ELSE b,
                             IF s = "tmp" THEN Missing ELSE IF r = "tmp" THEN Files[s] ELSE t)
                  /\ Others(f)
  <2> DEFINE R == Renamed(Files, s, r)
  <2>1. OnSlots(R) /\ \A q \in Slot : R[q] = IF q = s THEN Missing ELSE IF q = r THEN Files[s] ELSE Files[q]
    BY <1>2, <1>9 DEF Renamed, OnSlots
  <2>2. Put(R) => Becomes(f, R["primary"], R["bak"], R["tmp"]) /\ Others(f)
    <3> HIDE DEF R
    <3> QED BY <1>4, <2>1
  <2> HIDE DEF R
  <2>3. /\ R["primary"] = IF s = "primary" THEN Missing ELSE IF r = "primary" THEN Files[s] ELSE p
        /\ R["bak"] = IF s = "bak" THEN Missing ELSE IF r = "bak" THEN Files[s] ELSE b
        /\ R["tmp"] = IF s = "tmp" THEN Missing ELSE IF r = "tmp" THEN Files[s] ELSE t
    BY <2>1, <1>3, <1>5
  <2>4. CanRename(Files, s, r) <=> Files[s] # Missing /\ Files[r] = Missing
    BY DEF CanRename, Exists
  <2> QED BY <2>2, <2>3, <2>4 DEF R
<1>10. ASSUME NEW label \in {"clearTemp", "open", "write", "clearBackup", "rotate", "clearPrimary",
                            "publish", "withdraw", "restore", "abandon"}
      PROVE  GoOn(label) => On(label)
  BY <1>1 DEF GoOn, On, Goes, Write
<1>11. write' = [write EXCEPT !.at = "publish", !.rotated = TRUE] /\ ok' = ok => Goes("publish", TRUE)
  BY <1>1 DEF Goes, Write
<1>12. \A success : Finish(success) => Ends(success)
  BY DEF Finish, Ends
<1>13. /\ Put(IF Exists(Files, "primary") THEN Removed(Files, "primary") ELSE Files) =>
            Becomes(f, Missing, b, t) /\ Others(f)
       /\ Put(IF Exists(Files, "bak") THEN Removed(Files, "bak") ELSE Files) =>
            Becomes(f, p, Missing, t) /\ Others(f)
       /\ Put(IF Exists(Files, "tmp") THEN Removed(Files, "tmp") ELSE Files) =>
            Becomes(f, p, b, Missing) /\ Others(f)
  <2>1. CASE Exists(Files, "primary") /\ Exists(Files, "bak") /\ Exists(Files, "tmp")
    BY <2>1, <1>5, <1>6, <1>8
  <2> HIDE DEF p, b, t
  <2>2. /\ ~Exists(Files, "primary") => p = Missing
        /\ ~Exists(Files, "bak") => b = Missing
        /\ ~Exists(Files, "tmp") => t = Missing
    BY <1>3 DEF Exists
  <2>3. \A s \in Slot : Removed(Files, s) = [Files EXCEPT ![s] = Missing]
    BY <1>8
  <2> QED BY <1>5, <1>6, <1>7, <2>2, <2>3
<1>14. /\ (\E c \in AfterFailedRemove(Files, "primary") : Put(c)) =>
            (Becomes(f, p, b, t) \/ Becomes(f, Missing, b, t)) /\ Others(f)
       /\ (\E c \in AfterFailedRemove(Files, "bak") : Put(c)) =>
            (Becomes(f, p, b, t) \/ Becomes(f, p, Missing, t)) /\ Others(f)
       /\ (\E c \in AfterFailedRemove(Files, "tmp") : Put(c)) =>
            (Becomes(f, p, b, t) \/ Becomes(f, p, b, Missing)) /\ Others(f)
  <2> HIDE DEF p, b, t
  <2> QED BY <1>5, <1>6, <1>7, <1>8 DEF AfterFailedRemove
<1>15. /\ Put(Renamed(Files, "primary", "bak")) => Becomes(f, Missing, p, t) /\ Others(f)
       /\ Put(Renamed(Files, "tmp", "primary")) => Becomes(f, t, b, Missing) /\ Others(f)
       /\ Put(Renamed(Files, "bak", "primary")) => Becomes(f, b, Missing, t) /\ Others(f)
       /\ CanRename(Files, "primary", "bak") <=> p # Missing /\ b = Missing
       /\ CanRename(Files, "tmp", "primary") <=> t # Missing /\ p = Missing
       /\ CanRename(Files, "bak", "primary") <=> b # Missing /\ p = Missing
  <2> HIDE DEF p, b, t
  <2> QED BY <1>3, <1>5, <1>9
<1>16. /\ (\E c \in AfterFailedRename(Files, "primary", "bak") : Put(c)) =>
            (Becomes(f, p, b, t) \/ (p # Missing /\ b = Missing /\ Becomes(f, Missing, p, t))) /\ Others(f)
       /\ (\E c \in AfterFailedRename(Files, "tmp", "primary") : Put(c)) =>
            (Becomes(f, p, b, t) \/ (t # Missing /\ p = Missing /\ Becomes(f, t, b, Missing))) /\ Others(f)
       /\ (\E c \in AfterFailedRename(Files, "bak", "primary") : Put(c)) =>
            (Becomes(f, p, b, t) \/ (b # Missing /\ p = Missing /\ Becomes(f, b, Missing, t))) /\ Others(f)
  <2> HIDE DEF p, b, t
  <2> QED BY <1>7, <1>15 DEF AfterFailedRename
<1>17. Exists(Files, "bak") <=> b # Missing
  BY <1>3 DEF Exists
<1>18. Exists(Files, "primary") <=> p # Missing
  BY <1>3 DEF Exists
<1>19. card' = card => Becomes(f, p, b, t) /\ Others(f)
  BY <1>2 DEF Becomes, Others, Pr, Bk, Tm, OnSlots, Files, Typed, Filed
<1> HIDE DEF p, b, t
<1>20. ASSUME ClearTemp PROVE Move(f) /\ Others(f)
  BY <1>20, <1>10, <1>12, <1>13, <1>14 DEF ClearTemp, RemoveIn, At, Move, p, b, t
<1>21. ASSUME OpenTemp PROVE Move(f) /\ Others(f)
  BY <1>21, <1>6, <1>10, <1>12 DEF OpenTemp, At, Move, p, b, t
<1>22. ASSUME WriteTemp PROVE Move(f) /\ Others(f)
  BY <1>22, <1>6, <1>10, <1>12, <1>18 DEF WriteTemp, AfterTemp, At, Move, p, b, t
<1>23. ASSUME ClearBackup PROVE Move(f) /\ Others(f)
  BY <1>23, <1>10, <1>12, <1>13, <1>14 DEF ClearBackup, RemoveIn, At, Move, p, b, t
<1>24. ASSUME Rotate PROVE Move(f) /\ Others(f)
  BY <1>24, <1>10, <1>11, <1>15, <1>16 DEF Rotate, RenameIn, At, Move, p, b, t
<1>25. ASSUME ClearPrimary PROVE Move(f) /\ Others(f)
  BY <1>25, <1>10, <1>12, <1>13, <1>14 DEF ClearPrimary, RemoveIn, At, Move, p, b, t
<1>26. ASSUME Publish PROVE Move(f) /\ Others(f)
  BY <1>26, <1>10, <1>12, <1>15, <1>16 DEF Publish, RenameIn, At, Move, p, b, t
<1>27. ASSUME Withdraw PROVE Move(f) /\ Others(f)
  BY <1>27, <1>10, <1>12, <1>13, <1>14 DEF Withdraw, RemoveIn, At, Move, p, b, t
<1>28. ASSUME Restore PROVE Move(f) /\ Others(f)
  BY <1>28, <1>10, <1>15, <1>16, <1>17, <1>19 DEF Restore, RenameIn, At, Move, p, b, t
<1>29. ASSUME AbandonTemp PROVE Move(f) /\ Others(f)
  BY <1>29, <1>10, <1>12, <1>13, <1>14 DEF AbandonTemp, RemoveIn, At, Move, p, b, t
<1> QED BY <1>1, <1>2, <1>20, <1>21, <1>22, <1>23, <1>24, <1>25, <1>26, <1>27, <1>28, <1>29 DEF WriteStep

(* A Move of a file of statistics keeps what is known of it, without and   *)
(* with a pending transaction.                                             *)
LEMMA StatsWrite ==
  ASSUME Typed, WriteStep, NEW f \in StatsFile, write.file = f, Sound(f), Writing(f)
  PROVE  /\ Sound(f)'
         /\ \A s \in Slot : card'[f][s] \in {Missing, Invalid} \cup Content(f)
         /\ write' # None => SlotsAt(f)' /\ write'.value = write.value /\ write'.file = f
         /\ ~MarkPending /\ Settled(f) =>
              /\ Settled(f)' /\ Level(f, Stored(f)') = Level(f, Stored(f))
              /\ write' # None => SaveWrites(f)'
         /\ \A m : MarkPending /\ m = FoundMark /\ ~adopted /\ Midway(m, f) =>
              /\ Midway(m, f)'
              /\ write' # None => RecoverWrites(m, f)'
<1>1. Move(f) /\ write \in Write /\ adopted' = adopted
  BY WriteMoves
<1>2. /\ write.value \in Content(f) /\ IsValue(write.value)
      /\ write.rotate \in BOOLEAN /\ write.rotated \in BOOLEAN
      /\ ~IsValue(Missing) /\ ~IsValue(Invalid)
      /\ Missing # Invalid /\ f # Marker
  BY <1>1, Distinct DEF Writing, Write, IsValue
<1>3. /\ Pr(f) \in {Missing, Invalid} \cup Content(f)
      /\ Bk(f) \in {Missing, Invalid} \cup Content(f)
      /\ Tm(f) \in {Missing, Invalid} \cup Content(f)
      /\ \A v \in Content(f) : IsValue(v)
      /\ \A v : IsValue(v) <=> v # Missing /\ v # Invalid
  BY SlotTypes, Distinct DEF IsValue
<1>4. SlotsAt(f)
  BY DEF Writing
<1>5. Pr(f)' \in {Missing, Invalid} \cup Content(f) /\ Bk(f)' \in {Missing, Invalid} \cup Content(f) /\ Tm(f)' \in {Missing, Invalid} \cup Content(f)
  BY <1>1, <1>2, <1>3 DEF Move, Becomes
<1>6. \A s \in Slot : card'[f][s] \in {Missing, Invalid} \cup Content(f)
  BY <1>5 DEF Slot, Pr, Bk, Tm
<1>7. Sound(f)'
  BY <1>1, <1>2, <1>3, <1>4 DEF Move, Becomes, Sound, SlotsAt, Before, After
<1>8. write' # None => SlotsAt(f)' /\ write'.value = write.value /\ write'.file = f
  BY <1>1, <1>2, <1>3, <1>4 DEF Move, Becomes, Sound, SlotsAt, Before, After, Goes, On, Ends
<1>9. ASSUME ~MarkPending, Settled(f)
      PROVE /\ Settled(f)' /\ Level(f, Stored(f)') = Level(f, Stored(f))
            /\ write' # None => SaveWrites(f)'
  <2>1. Stored(f) = IF IsValue(Pr(f)) THEN Pr(f) ELSE IF IsValue(Bk(f)) THEN Bk(f)
                    ELSE IF IsValue(Tm(f)) THEN Tm(f) ELSE Zero(f)
    BY DEF Stored, Source, Pr, Bk, Tm
  <2>2. Stored(f)' = IF IsValue(Pr(f)') THEN Pr(f)' ELSE IF IsValue(Bk(f)') THEN Bk(f)'
                     ELSE IF IsValue(Tm(f)') THEN Tm(f)' ELSE Zero(f)
    BY DEF Stored, Source, Pr, Bk, Tm, IsValue, Zero
  <2>3. /\ IsValue(Pr(f)) => Level(f, Pr(f)) = Level(f, Stored(f))
        /\ IsValue(Bk(f)) => Level(f, Bk(f)) = Level(f, Stored(f))
        /\ ~IsValue(Pr(f)) /\ ~IsValue(Bk(f)) /\ IsValue(Tm(f)) => Level(f, Tm(f)) = Level(f, Zero(f))
    BY <1>9 DEF Settled, Source, Pr, Bk, Tm
  <2>4. /\ Level(f, write.value) = Level(f, Stored(f))
        /\ ~write.rotate /\ ~IsValue(Bk(f)) => Level(f, write.value) = Level(f, Zero(f))
    BY <1>9 DEF Writing, SaveWrites
  <2>5. Settled(f)' <=>
         /\ IsValue(Pr(f)') => Level(f, Pr(f)') = Level(f, Stored(f)')
         /\ IsValue(Bk(f)') => Level(f, Bk(f)') = Level(f, Stored(f)')
         /\ ~IsValue(Pr(f)') /\ ~IsValue(Bk(f)') /\ IsValue(Tm(f)') => Level(f, Tm(f)') = Level(f, Zero(f))
    BY DEF Settled, Source, Pr, Bk, Tm, IsValue, Zero, Level
  <2>6. write' # None =>
          (SaveWrites(f)' <=>
             /\ Level(f, write'.value) = Level(f, Stored(f)')
             /\ ~write'.rotate /\ ~IsValue(Bk(f)') => Level(f, write'.value) = Level(f, Zero(f)))
    BY DEF SaveWrites, IsValue, Zero, Level
  <2>7. write' # None => write'.value = write.value /\ write'.rotate = write.rotate
    BY <1>1 DEF Move, Becomes, Goes, On, Ends
  <2>8. /\ IsValue(Pr(f)') => Level(f, Pr(f)') = Level(f, Stored(f))
        /\ IsValue(Bk(f)') => Level(f, Bk(f)') = Level(f, Stored(f))
        /\ ~IsValue(Pr(f)') /\ ~IsValue(Bk(f)') => Level(f, Zero(f)) = Level(f, Stored(f))
        /\ ~IsValue(Pr(f)') /\ ~IsValue(Bk(f)') /\ IsValue(Tm(f)') => Level(f, Tm(f)') = Level(f, Zero(f))
    BY <1>1, <1>2, <1>3, <1>4, <2>1, <2>3, <2>4 DEF Move, Becomes, Sound, SlotsAt, Before, After
  <2>9. write' # None /\ ~write.rotate => (IsValue(Bk(f)) <=> IsValue(Bk(f)'))
    BY <1>1, <1>2, <1>3, <1>4 DEF Move, Becomes, Goes, On, Ends, Sound, SlotsAt, Before, After
  <2> QED BY <2>2, <2>4, <2>5, <2>6, <2>7, <2>8, <2>9
<1>10. ASSUME NEW m, MarkPending /\ m = FoundMark /\ ~adopted /\ Midway(m, f)
       PROVE /\ Midway(m, f)'
             /\ write' # None => RecoverWrites(m, f)'
  BY <1>10, <1>1, <1>2, <1>3, <1>4 DEF Move, Becomes, Sound, SlotsAt, Before, After, Goes, On, Ends, Writing, RecoverWrites, Midway, Anchored, Accepted, Stored, Source, Pr, Bk, Tm, Zero, Touched, NewOf, OldOf
<1> QED BY <1>6, <1>7, <1>8, <1>9, <1>10

(* Types after a step of writeAtomic(). *)
LEMMA WriteTyped ==
  ASSUME Typed, WriteStep, NEW f, write.file = f,
         f \in StatsFile => \A s \in Slot : card'[f][s] \in {Missing, Invalid} \cup Content(f),
         f = Marker => \A s \in Slot : card'[f][s] \in {Missing, Invalid} \cup Mark
  PROVE  Typed'
<1>1. /\ Others(f) /\ Move(f) /\ UNCHANGED <<job, reader, adopted>>
      /\ f \in StatsFile \cup {Marker}
  BY WriteMoves
<1>2. \A g \in StatsFile, s \in Slot : card'[g][s] \in {Missing, Invalid} \cup Content(g)
  BY <1>1 DEF Others, Typed, Filed
<1>3. \A s \in Slot : card'[Marker][s] \in {Missing, Invalid} \cup Mark
  BY <1>1 DEF Others, Typed, Filed
<1>4. \A g \in StatsFile \cup {Marker} : OnSlots(card'[g])
  BY <1>1 DEF Others, Typed, Filed, OnSlots
<1>5. \A g \in StatsFile \cup {Marker} : card'[g] \in [Slot -> {Missing, Invalid} \cup Value]
  BY <1>2, <1>3, <1>4, Distinct DEF OnSlots
<1>6. card' \in [StatsFile \cup {Marker} -> [Slot -> {Missing, Invalid} \cup Value]]
  BY <1>1, <1>5 DEF Others
<1>7. (write' = None \/ write' \in Write) /\ ok' \in BOOLEAN
  BY <1>1 DEF Move, Goes, On, Ends, Typed, Filed
<1> QED
  BY <1>1, <1>2, <1>3, <1>6, <1>7 DEF Typed, Filed, Content

(* Nothing but a file is as it was.  *)
LEMMA FinishedFrame ==
  ASSUME NEW b, \A c \in Book \ {b} : Level(c, Stored(c)') = Level(c, Stored(c))
  PROVE  /\ (Finished \ {b})' = Finished \ {b}
         /\ b \in Book /\ Level(b, Stored(b)') = Level(b, Stored(b)) => Finished' = Finished
         /\ b \notin Book => Finished' = Finished
BY Distinct DEF Finished, Level

(* The count depends on the other books only by their levels. *)
LEMMA CountsFrame ==
  ASSUME NEW c, (Finished \ {c.book})' = Finished \ {c.book}
  PROVE  Counts(c)' = Counts(c)
BY DEF Counts, One

LEMMA QuietFrame ==
  ASSUME \A f \in StatsFile : Settled(f) => Settled(f)' /\ Level(f, Stored(f)') = Level(f, Stored(f)),
         Quiet
  PROVE  Quiet' /\ \A f \in StatsFile : Level(f, Stored(f)') = Level(f, Stored(f))
<1>1. \A f \in StatsFile : Settled(f)' /\ Level(f, Stored(f)') = Level(f, Stored(f))
  BY DEF Quiet
<1>2. Finished' = Finished
  BY <1>1, FinishedFrame, Distinct
<1>3. Stored(Global)'.completed = Stored(Global).completed
  BY <1>1, Distinct DEF Level
<1> QED BY <1>1, <1>2, <1>3 DEF Quiet

(* A step of writeAtomic() on a file of statistics. *)
LEMMA StatsStep ==
  ASSUME Typed, Sounds, MarkerShape, Resting, Pending, Written,
         WriteStep, NEW f \in StatsFile, write.file = f
  PROVE  /\ Typed' /\ Sounds' /\ MarkerShape' /\ Resting' /\ Pending' /\ Written'
         /\ card'[Marker] = card[Marker]
         /\ \A g \in StatsFile : g # f => card'[g] = card[g]
         /\ ~MarkPending => \A g \in StatsFile : Level(g, Stored(g)') = Level(g, Stored(g))
<1>1. /\ Others(f) /\ write # None /\ f # Marker
      /\ UNCHANGED <<todo, goal, job, reader, adopted>>
  BY WriteMoves, Distinct
<1>2. Sound(f) /\ Writing(f)
  BY <1>1 DEF Sounds, Written
<1>3. card'[Marker] = card[Marker] /\ \A g \in StatsFile : g # f => card'[g] = card[g]
  BY <1>1 DEF Others
<1>4. FoundMark' = FoundMark /\ MarkPending' = MarkPending /\ MarkerShape'
  BY <1>3, MarkerFrame
<1>5. /\ Sound(f)'
      /\ \A s \in Slot : card'[f][s] \in {Missing, Invalid} \cup Content(f)
      /\ write' # None => SlotsAt(f)' /\ write'.value = write.value /\ write'.file = f
      /\ ~MarkPending /\ Settled(f) =>
           /\ Settled(f)' /\ Level(f, Stored(f)') = Level(f, Stored(f))
           /\ write' # None => SaveWrites(f)'
      /\ \A m : MarkPending /\ m = FoundMark /\ ~adopted /\ Midway(m, f) =>
           /\ Midway(m, f)'
           /\ write' # None => RecoverWrites(m, f)'
  BY <1>2, StatsWrite
<1>6. \A g \in StatsFile : g # f =>
        /\ Sound(g)' = Sound(g) /\ Settled(g)' = Settled(g)
        /\ Stored(g)' = Stored(g) /\ Anchored(g)' = Anchored(g) /\ Tm(g)' = Tm(g)
  BY <1>3, FileFrame
<1>7. Typed'
  BY <1>1, <1>5, WriteTyped
<1>8. Sounds'
  BY <1>5, <1>6 DEF Sounds
<1>9. ASSUME ~MarkPending
      PROVE  Quiet' /\ \A g \in StatsFile : Level(g, Stored(g)') = Level(g, Stored(g))
  <2>1. Quiet
    BY <1>9 DEF Resting
  <2> QED BY <1>5, <1>6, <1>9, <2>1, QuietFrame
<1>10. Resting'
  <2>1. ~Marking'
    BY <1>1, <1>5 DEF Marking
  <2> QED BY <1>4, <1>9, <2>1 DEF Resting
<1>11. ASSUME NEW m, MarkPending, m = FoundMark PROVE PendingMark(m)' /\ (write' # None => RecoverWrites(m, f)')
  <2>1. PendingMark(m) /\ RecoverWrites(m, f)
    BY <1>2, <1>11 DEF Pending, Writing
  <2>2. f \in Touched(m.change)
    BY <2>1 DEF RecoverWrites
  <2>3. Counts(m.change)'
    <3>1. \A c \in Book \ {m.change.book} : Stored(c)' = Stored(c)
      BY <1>6, <2>2, Distinct DEF Touched
    <3>2. (Finished \ {m.change.book})' = Finished \ {m.change.book}
      BY <3>1, FinishedFrame DEF Level
    <3> QED BY <2>1, <3>2, CountsFrame DEF PendingMark
  <2>4. \A g \in StatsFile \ Touched(m.change) : Settled(g)'
    BY <1>6, <2>1, <2>2 DEF PendingMark
  <2>5. ~adopted => \A g \in Touched(m.change) : Midway(m, g)'
    <3>1. ASSUME ~adopted, NEW g \in Touched(m.change) PROVE Midway(m, g)'
      <4>1. Midway(m, g)
        BY <2>1, <3>1 DEF PendingMark
      <4>2. CASE g = f
        BY <1>5, <1>11, <3>1, <4>1, <4>2
      <4>3. CASE g # f
        <5>1. g \in StatsFile
          BY <1>11, MarkerTypes, Distinct DEF Touched, Mark, Transition
        <5> QED BY <1>6, <4>1, <4>3, <5>1 DEF Midway, Accepted, NewOf, OldOf
      <4> QED BY <4>2, <4>3
    <3> QED BY <3>1
  <2>6. PendingMark(m)'
    BY <1>1, <2>1, <2>3, <2>4, <2>5 DEF PendingMark, Toggles, Touched, OldOf, Zero
  <2>7. write' # None => RecoverWrites(m, f)'
    <3>1. CASE ~adopted
      BY <1>5, <1>11, <2>1, <2>2, <3>1 DEF PendingMark
    <3>2. CASE adopted
      BY <1>1, <1>5, <2>1, <3>2 DEF RecoverWrites, Touched, NewOf
    <3> QED BY <3>1, <3>2
  <2> QED BY <2>6, <2>7
<1>12. Pending'
  BY <1>4, <1>11 DEF Pending
<1>13. Written'
  <2> SUFFICES ASSUME write' # None PROVE Writing(f)'
    BY <1>1, <1>5 DEF Written
  <2>1. write'.value \in Content(f) /\ SlotsAt(f)'
    BY <1>2, <1>5 DEF Writing
  <2>2. CASE MarkPending
    BY <1>4, <1>11, <2>1, <2>2 DEF Writing, Content
  <2>3. CASE ~MarkPending
    <3>1. Settled(f)
      BY <2>3 DEF Resting, Quiet
    <3> QED BY <1>4, <1>5, <2>1, <2>3, <3>1 DEF Writing, Content
  <2> QED BY <2>2, <2>3
<1> QED BY <1>3, <1>4, <1>7, <1>8, <1>9, <1>10, <1>12, <1>13

(* The marker of a transition that agrees with what is stored.             *)
LEMMA MarkOfJob ==
  ASSUME Typed, Sounds, Quiet, job \in Transition, Toggles(job), Matches(job),
         NEW m, m = [change |-> job, missing |-> {f \in Touched(job) : Absent(f)}],
         adopted = (\E f \in Touched(job) : Source(f) = "tmp")
  PROVE  m \in Mark /\ m.change = job /\ PendingMark(m)
<1>1. /\ Touched(job) \subseteq StatsFile /\ job.book \in Book
      /\ \A f \in Touched(job) : Stored(f) = OldOf(job, f)
  BY Distinct DEF Touched, Transition, Matches
<1>2. m.change = job /\ m.missing = {f \in Touched(job) : Absent(f)}
  OBVIOUS
<1>3. m \in Mark
  BY <1>1 DEF Mark, Touched
<1>4. Counts(m.change)
  <2>1. Stored(job.book) = job.oldBook /\ Stored(Global) = job.oldGlobal
    BY <1>1, Distinct DEF Touched, OldOf
  <2>2. Finished \in SUBSET Book /\ (job.book \in Finished <=> job.oldBook.done)
    BY <1>1, <2>1 DEF Finished
  <2> DEFINE others == Cardinality(Finished \ {job.book})
  <2>3. /\ others \in Nat
        /\ Cardinality(Finished) = others + IF job.book \in Finished THEN 1 ELSE 0
    BY <1>1, <2>2, CountOne
  <2>4. job.oldGlobal.completed = others + One(job.oldBook.done)
    BY <2>1, <2>2, <2>3 DEF Quiet, One
  <2>5. job.newGlobal.completed = others + One(job.newBook.done)
    <3>1. job.newBook.done <=> ~job.oldBook.done
      BY DEF Transition, BookStats, Toggles
    <3>2. job.newGlobal.completed = IF job.newBook.done THEN job.oldGlobal.completed + 1
             ELSE IF job.oldGlobal.completed > 0 THEN job.oldGlobal.completed - 1 ELSE 0
      BY DEF Toggles
    <3>3. job.oldGlobal.completed = others + IF job.oldBook.done THEN 1 ELSE 0
      BY <2>4 DEF One
    <3> HIDE DEF others
    <3>4. job.newGlobal.completed = others + IF job.newBook.done THEN 1 ELSE 0
      BY <2>3, <3>1, <3>2, <3>3
    <3> QED BY <3>4 DEF One
  <2> QED BY <1>2, <2>4, <2>5 DEF Counts
<1>5. \A f \in m.missing : OldOf(m.change, f) = Zero(f)
  BY <1>1, <1>2 DEF Absent, Stored
<1>6. \A f \in StatsFile \ Touched(m.change) : Settled(f)
  BY DEF Quiet
<1>7. ASSUME ~adopted, NEW f \in Touched(m.change) PROVE Midway(m, f)
  <2>1. Source(f) # "tmp" /\ Stored(f) = OldOf(job, f) /\ Sound(f) /\ f \in StatsFile
    BY <1>1, <1>2, <1>7 DEF Sounds
  <2>2. /\ Pr(f) \in {Missing, Invalid} \cup Content(f)
        /\ Bk(f) \in {Missing, Invalid} \cup Content(f)
        /\ Tm(f) \in {Missing, Invalid} \cup Content(f)
    BY <2>1, SlotTypes
  <2>3. Absent(f) <=> ~Anchored(f)
    BY <2>1, <2>2, Distinct DEF Absent, Trusted, Source, Anchored, Sound, IsValue, Pr, Bk, Tm
  <2>4. ~Anchored(f) => Tm(f) \in {Missing, Invalid}
    BY <2>1, <2>2 DEF Source, Anchored, IsValue, Pr, Bk, Tm
  <2> QED BY <1>2, <1>7, <2>1, <2>3, <2>4 DEF Midway, Accepted
<1>8. Toggles(m.change) /\ m.missing \subseteq Touched(m.change)
  BY <1>2
<1> QED BY <1>2, <1>3, <1>4, <1>5, <1>6, <1>7, <1>8 DEF PendingMark

(* A step of writeAtomic() on the marker: it appears and disappears as a   *)
(* whole.                                                                  *)
LEMMA MarkerStep ==
  ASSUME Typed, Sounds, MarkerShape, Resting, Written, WriteStep, write.file = Marker
  PROVE  /\ Typed' /\ Sounds' /\ MarkerShape' /\ Resting' /\ Pending' /\ Written'
         /\ \A g \in StatsFile : card'[g] = card[g]
         /\ MarkPending' => FoundMark'.change = job
<1>1. /\ Others(Marker) /\ Move(Marker) /\ write # None /\ write \in Write
      /\ UNCHANGED <<todo, goal, job, reader, adopted>>
  BY WriteMoves
<1>2. Begun /\ Quiet
  BY <1>1 DEF Written, Resting, Marking
<1>3. PICK v : v = write.value
  OBVIOUS
<1>4. v \in Mark /\ v.change = job /\ PendingMark(v)
  BY <1>2, <1>3, MarkOfJob DEF Begun
<1>5. /\ IsValue(v) /\ Missing # Invalid /\ \A c : IsValue(c) <=> c # Missing /\ c # Invalid
      /\ \A g \in StatsFile : g # Marker
  BY <1>4, Distinct DEF IsValue
<1>6. \A g \in StatsFile : card'[g] = card[g]
  BY <1>1, <1>5 DEF Others
<1>7. MarkerShape' /\ Pr(Marker)' \in {Missing, v} /\ Tm(Marker)' \in {Missing, Invalid, v}
  BY <1>1, <1>2, <1>3, <1>5 DEF Move, Becomes, Begun, MarkerShape
<1>8. \A s \in Slot : card'[Marker][s] \in {Missing, Invalid} \cup Mark
  BY <1>4, <1>7 DEF Slot, Pr, Bk, Tm, MarkerShape
<1>9. Typed'
  BY <1>5, <1>8, WriteTyped
<1>10. \A g \in StatsFile :
         /\ Sound(g)' = Sound(g) /\ Settled(g)' = Settled(g) /\ Source(g)' = Source(g)
         /\ Stored(g)' = Stored(g) /\ Anchored(g)' = Anchored(g) /\ Tm(g)' = Tm(g)
         /\ Trusted(g)' = Trusted(g) /\ Absent(g)' = Absent(g)
  BY <1>6, FileFrame
<1>11. Sounds'
  BY <1>10 DEF Sounds
<1>12. Quiet'
  BY <1>2, <1>10, QuietFrame DEF Level
<1>13. MarkPending' => FoundMark' = v
  BY <1>7 DEF MarkPending, FoundMark, Pr, Bk, Tm, IsValue
<1>14. PendingMark(v)'
  <2>1. Touched(job) \subseteq StatsFile
    BY <1>4, Distinct DEF Mark, Transition, Touched
  <2>2. Finished' = Finished
    BY <1>10, Distinct DEF Finished
  <2>3. Counts(v.change)'
    BY <1>4, <2>2 DEF PendingMark, Counts, One
  <2> QED
    BY <1>1, <1>4, <1>10, <2>1, <2>3 DEF PendingMark, Toggles, Touched, OldOf, Zero, Midway, Accepted, NewOf
<1>15. Pending'
  BY <1>13, <1>14 DEF Pending
<1>16. Written'
  <2> SUFFICES ASSUME write' # None PROVE Begun'
    BY <1>1, Distinct DEF Written, Move, On, Goes, Ends
  <2>1. /\ write'.value = write.value /\ write'.rotate = write.rotate /\ write'.rotated = write.rotated
        /\ write'.file = Marker
    BY <1>1, <1>2 DEF Move, On, Goes, Ends, Begun
  <2>2. Touched(job) \subseteq StatsFile
    BY <1>4, Distinct DEF Mark, Transition, Touched
  <2>3. /\ {f \in Touched(job) : Absent(f)}' = {f \in Touched(job) : Absent(f)}
        /\ (\E f \in Touched(job) : Source(f) = "tmp")' = (\E f \in Touched(job) : Source(f) = "tmp")
        /\ Matches(job)' = Matches(job)
    BY <1>1, <1>10, <2>2 DEF Touched, Matches, OldOf
  <2>4. Toggles(job)' = Toggles(job)
    BY <1>1 DEF Toggles
  <2>5. /\ write'.at \in {"clearTemp", "open"} => Pr(Marker)' = Missing /\ Tm(Marker)' = Missing
        /\ write'.at = "write" => Pr(Marker)' = Missing /\ Tm(Marker)' = Invalid
        /\ write'.at \in {"clearPrimary", "publish"} => Pr(Marker)' = Missing /\ Tm(Marker)' = v
        /\ write'.at \notin {"clearBackup", "rotate"}
    BY <1>1, <1>2, <1>3, <1>5 DEF Move, Becomes, Begun, MarkerShape, On, Goes, Ends
  <2> QED BY <1>1, <1>2, <1>3, <1>7, <2>1, <2>3, <2>4, <2>5 DEF Begun
<1>17. Resting'
  BY <1>12 DEF Resting
<1> QED BY <1>4, <1>6, <1>7, <1>9, <1>11, <1>13, <1>15, <1>16, <1>17

-----------------------------------------------------------------------------
(* Sequences of calls.                                                     *)
Words == {"save", "saved", "pair", "paired", "recover", "verify", "unmark", "recovered", "check",
          "marked", "flush", "flushed", "leave", "complete"}
Calls == [do : Words, file : StatsFile \cup {Marker} \cup Slot]
IsList(l, c, r) == l \in Seq(Calls) /\ l # <<>> /\ Head(l) = c /\ Tail(l) = r

(* Lists of calls, by head and tail. *)
LEMMA ConsIsList ==
  ASSUME NEW c \in Calls, NEW r \in Seq(Calls)
  PROVE  IsList(Cons(c, r), c, r)
<1>1. /\ Cons(c, r) \in Seq(Calls) /\ Len(Cons(c, r)) = Len(r) + 1
      /\ \A i \in 1..Len(Cons(c, r)) : Cons(c, r)[i] = IF i = 1 THEN c ELSE r[i - 1]
  BY DEF Cons
<1>2. Cons(c, r) # <<>> /\ Head(Cons(c, r)) = c
  BY <1>1
<1>3. Tail(Cons(c, r)) \in Seq(Calls) /\ Len(Tail(Cons(c, r))) = Len(r)
  BY <1>1, <1>2
<1>4. \A i \in 1..Len(r) : Tail(Cons(c, r))[i] = r[i]
  BY <1>1, <1>2
<1>5. Tail(Cons(c, r)) = r
  BY <1>3, <1>4
<1> QED BY <1>1, <1>2, <1>5 DEF IsList

LEMMA CallIs ==
  ASSUME NEW do \in Words, NEW x \in StatsFile \cup {Marker} \cup Slot
  PROVE  Call(do, x) \in Calls /\ Call(do, x).do = do /\ Call(do, x).file = x
BY DEF Call, Calls

LEMMA Lists ==
  /\ <<>> \in Seq(Calls)
  /\ IsList(Recover1, Call("recover", Marker), <<>>)
  /\ \A b \in Book :
       /\ IsList(Recovered1(b), Call("recovered", b), <<>>)
       /\ IsList(UnmarkTmp(b), Call("unmark", "tmp"), Recovered1(b))
       /\ IsList(UnmarkAll(b), Call("unmark", "primary"), UnmarkTmp(b))
       /\ IsList(VerifyAll(b), Call("verify", b), UnmarkAll(b))
       /\ IsList(PairedGlobal(b), Call("paired", Global), VerifyAll(b))
       /\ IsList(PairGlobal(b), Call("pair", Global), VerifyAll(b))
       /\ IsList(PairedBook(b), Call("paired", b), PairGlobal(b))
       /\ IsList(PairAll(b), Call("pair", b), PairGlobal(b))
       /\ IsList(SaveGlobal(b), Call("save", Global), PairAll(b))
       /\ \A do \in Words :
            /\ IsList(Cons(Call(do, Global), PairedGlobal(b)), Call(do, Global), PairedGlobal(b))
            /\ IsList(Cons(Call(do, b), PairedBook(b)), Call(do, b), PairedBook(b))
            /\ IsList(Cons(Call(do, Global), PairAll(b)), Call(do, Global), PairAll(b))
            /\ IsList(Cons(Call(do, b), PairAll(b)), Call(do, b), PairAll(b))
            /\ IsList(Cons(Call(do, b), SaveGlobal(b)), Call(do, b), SaveGlobal(b))
<1>1. <<>> \in Seq(Calls)
  OBVIOUS
<1>0. \A do \in {"recover", "recovered", "unmark", "verify", "pair", "paired", "save"} : do \in Words
  BY DEF Words
<1>2. IsList(Recover1, Call("recover", Marker), <<>>)
  BY <1>0, <1>1, ConsIsList, CallIs DEF Recover1
<1>3. ASSUME NEW c \in Calls, NEW r, NEW d, NEW e, IsList(r, d, e)
      PROVE  IsList(Cons(c, r), c, r)
  BY <1>3, ConsIsList DEF IsList
<1>4. ASSUME NEW b \in Book, NEW do \in Words
      PROVE  Call(do, b) \in Calls /\ Call(do, Global) \in Calls
             /\ Call("unmark", "tmp") \in Calls /\ Call("unmark", "primary") \in Calls
  BY <1>0, CallIs DEF StatsFile, Slot
<1>5. ASSUME NEW b \in Book
      PROVE  /\ IsList(Recovered1(b), Call("recovered", b), <<>>)
             /\ IsList(UnmarkTmp(b), Call("unmark", "tmp"), Recovered1(b))
             /\ IsList(UnmarkAll(b), Call("unmark", "primary"), UnmarkTmp(b))
             /\ IsList(VerifyAll(b), Call("verify", b), UnmarkAll(b))
             /\ IsList(PairedGlobal(b), Call("paired", Global), VerifyAll(b))
             /\ IsList(PairGlobal(b), Call("pair", Global), VerifyAll(b))
             /\ IsList(PairedBook(b), Call("paired", b), PairGlobal(b))
             /\ IsList(PairAll(b), Call("pair", b), PairGlobal(b))
             /\ IsList(SaveGlobal(b), Call("save", Global), PairAll(b))
  <2>1. IsList(Recovered1(b), Call("recovered", b), <<>>)
    BY <1>0, <1>1, <1>4, ConsIsList DEF Recovered1
  <2>2. IsList(UnmarkTmp(b), Call("unmark", "tmp"), Recovered1(b))
    BY <1>0, <1>3, <1>4, <2>1 DEF UnmarkTmp
  <2>3. IsList(UnmarkAll(b), Call("unmark", "primary"), UnmarkTmp(b))
    BY <1>0, <1>3, <1>4, <2>2 DEF UnmarkAll
  <2>4. IsList(VerifyAll(b), Call("verify", b), UnmarkAll(b))
    BY <1>0, <1>3, <1>4, <2>3 DEF VerifyAll
  <2>5. IsList(PairedGlobal(b), Call("paired", Global), VerifyAll(b))
    BY <1>0, <1>3, <1>4, <2>4 DEF PairedGlobal
  <2>6. IsList(PairGlobal(b), Call("pair", Global), VerifyAll(b))
    BY <1>0, <1>3, <1>4, <2>4 DEF PairGlobal
  <2>7. IsList(PairedBook(b), Call("paired", b), PairGlobal(b))
    BY <1>0, <1>3, <1>4, <2>6 DEF PairedBook
  <2>8. IsList(PairAll(b), Call("pair", b), PairGlobal(b))
    BY <1>0, <1>3, <1>4, <2>6 DEF PairAll
  <2>9. IsList(SaveGlobal(b), Call("save", Global), PairAll(b))
    BY <1>0, <1>3, <1>4, <2>8 DEF SaveGlobal
  <2> QED BY <2>1, <2>2, <2>3, <2>4, <2>5, <2>6, <2>7, <2>8, <2>9
<1>6. ASSUME NEW b \in Book, NEW do \in Words
      PROVE  /\ IsList(Cons(Call(do, Global), PairedGlobal(b)), Call(do, Global), PairedGlobal(b))
             /\ IsList(Cons(Call(do, b), PairedBook(b)), Call(do, b), PairedBook(b))
             /\ IsList(Cons(Call(do, Global), PairAll(b)), Call(do, Global), PairAll(b))
             /\ IsList(Cons(Call(do, b), PairAll(b)), Call(do, b), PairAll(b))
             /\ IsList(Cons(Call(do, b), SaveGlobal(b)), Call(do, b), SaveGlobal(b))
  BY <1>0, <1>3, <1>4, <1>5
<1> QED BY <1>1, <1>2, <1>5, <1>6

(* Positions of the plan are told apart by the call that is next. *)
LEMMA Heads ==
  /\ Head(Recover1).do = "recover"
  /\ \A b \in Book : Head(Recovered1(b)).do = "recovered" /\ Head(UnmarkTmp(b)).do = "unmark"
<1>1. Head(Recover1).do = "recover"
  <2>1. Head(Recover1) = Call("recover", Marker)
    BY Lists DEF IsList
  <2> QED BY <2>1 DEF Call
<1>2. ASSUME NEW b \in Book PROVE Head(Recovered1(b)).do = "recovered" /\ Head(UnmarkTmp(b)).do = "unmark"
  <2>1. Head(Recovered1(b)) = Call("recovered", b) /\ Head(UnmarkTmp(b)) = Call("unmark", "tmp")
    BY Lists DEF IsList
  <2> QED BY <2>1 DEF Call
<1> QED BY <1>1, <1>2

(* What is to do next, and what is known then. *)
NextIs(do, f, rest) == Head(todo).do = do /\ This = f /\ Tail(todo) = rest

MarkOf(b) == MarkPending /\ FoundMark.change.book = b
BothTwice(b) == HoldsTwice(b) /\ HoldsTwice(Global)

SaveNext(b, do) ==
  /\ MarkOf(b)
  /\ \/ NextIs(do, Global, PairedGlobal(b)) /\ HoldsTwice(b)
     \/ NextIs(do, Global, PairAll(b))
     \/ \E rest \in {PairedBook(b), PairAll(b), SaveGlobal(b)} : NextIs(do, b, rest)

PairNext(b, do) ==
  /\ MarkOf(b)
  /\ \/ NextIs(do, b, PairGlobal(b))
     \/ NextIs(do, Global, VerifyAll(b)) /\ HoldsTwice(b)

UnmarkNext(b) ==
  \/ NextIs("unmark", "primary", UnmarkTmp(b)) /\ MarkOf(b) /\ BothTwice(b)
  \/ /\ NextIs("unmark", "tmp", Recovered1(b)) /\ Pr(Marker) = Missing
     /\ MarkPending => MarkOf(b) /\ BothTwice(b)

(* The next call of the plan, with what has been reached before it. *)
LEMMA PlanNext ==
  ASSUME NEW b \in Book, AtPlan(b)
  PROVE  /\ todo # <<>> /\ todo \in Seq(Calls)
         /\ \/ SaveNext(b, "save") \/ SaveNext(b, "saved")
            \/ PairNext(b, "pair") \/ PairNext(b, "paired")
            \/ NextIs("verify", b, UnmarkAll(b)) /\ MarkOf(b) /\ BothTwice(b)
            \/ UnmarkNext(b)
            \/ NextIs("recovered", b, <<>>) /\ todo = Recovered1(b) /\ ~MarkPending
               /\ Pr(Marker) = Missing /\ Tm(Marker) = Missing
<1>0. {"save", "saved", "pair", "paired", "verify", "unmark", "recovered"} \subseteq Words
  BY DEF Words
<1>1. /\ \A do \in Words : Call(do, b).do = do /\ Call(do, b).file = b
                         /\ Call(do, Global).do = do /\ Call(do, Global).file = Global
      /\ Call("unmark", "primary").do = "unmark" /\ Call("unmark", "primary").file = "primary"
      /\ Call("unmark", "tmp").do = "unmark" /\ Call("unmark", "tmp").file = "tmp"
  BY DEF Call
<1>2. ASSUME NEW l, NEW do \in Words, NEW f, NEW r, IsList(l, Call(do, f), r), todo = l
      PROVE  todo # <<>> /\ todo \in Seq(Calls) /\ NextIs(do, f, r)
  BY <1>2 DEF IsList, NextIs, This, Call
<1>3. CASE todo = Recovered1(b) /\ ~MarkPending /\ Pr(Marker) = Missing /\ Tm(Marker) = Missing
  BY <1>0, <1>1, <1>2, <1>3, Lists
<1>4. CASE /\ todo = UnmarkTmp(b) /\ Pr(Marker) = Missing
           /\ MarkPending => FoundMark.change.book = b /\ HoldsTwice(b) /\ HoldsTwice(Global)
  BY <1>0, <1>1, <1>2, <1>4, Lists DEF UnmarkNext, MarkOf, BothTwice
<1>5. CASE MarkOf(b) /\ todo \in {UnmarkAll(b), VerifyAll(b)} /\ BothTwice(b)
  BY <1>0, <1>1, <1>2, <1>5, Lists DEF UnmarkNext
<1>6. CASE MarkOf(b) /\ todo \in {PairGlobal(b), PairedGlobal(b)} /\ HoldsTwice(b)
  BY <1>0, <1>1, <1>2, <1>6, Lists DEF PairNext
<1>7. CASE MarkOf(b) /\ todo \in {PairAll(b), PairedBook(b)}
  BY <1>0, <1>1, <1>2, <1>7, Lists DEF PairNext
<1>8. ASSUME NEW do \in {"save", "saved"}, MarkOf(b),
             \/ todo = Cons(Call(do, Global), PairedGlobal(b)) /\ HoldsTwice(b)
             \/ todo \in {Cons(Call(do, b), PairedBook(b)), Cons(Call(do, Global), PairAll(b)),
                          Cons(Call(do, b), PairAll(b)), Cons(Call(do, b), SaveGlobal(b))}
      PROVE  todo # <<>> /\ todo \in Seq(Calls) /\ SaveNext(b, do)
  <2>1. /\ IsList(Cons(Call(do, Global), PairedGlobal(b)), Call(do, Global), PairedGlobal(b))
        /\ IsList(Cons(Call(do, b), PairedBook(b)), Call(do, b), PairedBook(b))
        /\ IsList(Cons(Call(do, Global), PairAll(b)), Call(do, Global), PairAll(b))
        /\ IsList(Cons(Call(do, b), PairAll(b)), Call(do, b), PairAll(b))
        /\ IsList(Cons(Call(do, b), SaveGlobal(b)), Call(do, b), SaveGlobal(b))
    BY <1>0, Lists
  <2> QED BY <1>0, <1>1, <1>2, <1>8, <2>1 DEF SaveNext
<1> QED BY <1>3, <1>4, <1>5, <1>6, <1>7, <1>8 DEF AtPlan, MarkOf, BothTwice

-----------------------------------------------------------------------------
(* Steps that change no file of statistics.                                *)
SameStats == \A f \in StatsFile : card'[f] = card[f]
SameMark == MarkPending' = MarkPending /\ (MarkPending => FoundMark' = FoundMark)

(* A step that changes no file of statistics and keeps the marker. *)
LEMMA Kept ==
  ASSUME Typed, Sounds, Resting, Pending, SameStats, SameMark,
         MarkPending => adopted' = adopted, Marking' => Marking \/ ~MarkPending
  PROVE  /\ Sounds' /\ Resting' /\ Pending'
         /\ \A f \in StatsFile :
              /\ Source(f)' = Source(f) /\ Stored(f)' = Stored(f) /\ Settled(f)' = Settled(f)
              /\ Trusted(f)' = Trusted(f) /\ Absent(f)' = Absent(f)
              /\ MarkPending => HoldsTwice(f)' = HoldsTwice(f)
<1>1. \A f \in StatsFile :
         /\ Pr(f)' = Pr(f) /\ Bk(f)' = Bk(f) /\ Tm(f)' = Tm(f)
         /\ Sound(f)' = Sound(f) /\ Settled(f)' = Settled(f) /\ Source(f)' = Source(f)
         /\ Stored(f)' = Stored(f) /\ Anchored(f)' = Anchored(f)
         /\ Trusted(f)' = Trusted(f) /\ Absent(f)' = Absent(f)
  BY FileFrame DEF SameStats
<1>2. Sounds'
  BY <1>1 DEF Sounds
<1>3. Quiet => Quiet'
  BY <1>1, QuietFrame DEF Level
<1>4. Resting'
  BY <1>3 DEF Resting, SameMark
<1>5. ASSUME MarkPending PROVE PendingMark(FoundMark)'
  <2>1. PICK m : m = FoundMark
    OBVIOUS
  <2>2. PendingMark(m) /\ adopted' = adopted /\ FoundMark' = m
    BY <1>5, <2>1 DEF Pending, SameMark
  <2>3. m.change.book \in Book
    BY <1>5, <2>1, MarkerTypes DEF Mark, Transition
  <2>4. Touched(m.change) \subseteq StatsFile
    BY <2>3, Distinct DEF Touched
  <2>5. Finished' = Finished
    BY <1>1, Distinct DEF Finished
  <2>6. Counts(m.change)'
    BY <2>2, <2>5 DEF PendingMark, Counts, One
  <2>7. PendingMark(m)'
    BY <1>1, <2>2, <2>4, <2>6 DEF PendingMark, Toggles, Touched, OldOf, Zero, Midway, Accepted, NewOf
  <2> QED BY <2>2, <2>7 DEF PendingMark, Counts
<1>6. Pending'
  BY <1>5 DEF Pending, SameMark
<1>7. ASSUME NEW f \in StatsFile, MarkPending PROVE HoldsTwice(f)' = HoldsTwice(f)
  <2>1. card'[f] = card[f] /\ FoundMark' = FoundMark
    BY <1>7 DEF SameStats, SameMark
  <2> QED BY <2>1 DEF HoldsTwice, Holds, NewOf
<1> QED BY <1>1, <1>2, <1>4, <1>6, <1>7

(* Only the marker changed. *)
LEMMA MarkerFiled ==
  ASSUME Typed, SameStats, Others(Marker),
         Pr(Marker)' \in {Missing, Invalid} \cup Mark, Bk(Marker)' \in {Missing, Invalid} \cup Mark,
         Tm(Marker)' \in {Missing, Invalid} \cup Mark
  PROVE  Filed'
<1>1. \A s \in Slot : card'[Marker][s] \in {Missing, Invalid} \cup Mark
  BY DEF Slot, Pr, Bk, Tm
<1>2. \A f \in StatsFile, s \in Slot : card'[f][s] \in {Missing, Invalid} \cup Content(f)
  BY DEF SameStats, Typed, Filed
<1>3. \A g \in StatsFile \cup {Marker} : OnSlots(card'[g])
  BY DEF Others, SameStats, Typed, Filed, OnSlots
<1>4. \A g \in StatsFile \cup {Marker} : card'[g] \in [Slot -> {Missing, Invalid} \cup Value]
  BY <1>1, <1>2, <1>3, Distinct DEF OnSlots
<1> QED BY <1>1, <1>2, <1>4 DEF Others, Filed, Content

(* The marker is read, and perhaps debris of one removed.                  *)
LEMMA Debris ==
  ASSUME Typed, MarkerShape, Refused
  PROVE  /\ SameStats /\ SameMark /\ MarkerShape' /\ Filed'
         /\ NoMark => ~MarkPending /\ Pr(Marker)' = Missing /\ Tm(Marker)' = Missing
         /\ MarkPending => card' = card
         /\ ReadMark => card' = card /\ MarkPending
<1>1. /\ Pr(Marker) \in {Missing, Invalid} \cup Mark
      /\ Tm(Marker) \in {Missing, Invalid} \cup Mark
      /\ OnSlots(card[Marker])
  BY MarkerTypes DEF OnSlots
<1>2. \/ card' = card
      \/ card' = [card EXCEPT ![Marker] = [card[Marker] EXCEPT !["tmp"] = Missing]]
         /\ Pr(Marker) = Missing /\ Tm(Marker) = Invalid
  <2> DEFINE clean == [card EXCEPT ![Marker] = [card[Marker] EXCEPT !["tmp"] = Missing]]
  <2>1. [card EXCEPT ![Marker] = card[Marker]] = card
    BY DEF Typed, Filed
  <2>2. NoMark => card' = card \/ (card' = clean /\ Pr(Marker) = Missing /\ Tm(Marker) = Invalid)
    BY DEF NoMark, Pr, Tm
  <2>3. ReadMark => card' = card
    BY DEF ReadMark
  <2>4. Protected => card' = card \/ (card' = clean /\ Pr(Marker) = Missing /\ Tm(Marker) = Invalid)
    BY <2>1 DEF Protected, Pr, Tm, AfterFailedRemove, Removed
  <2> QED BY <2>2, <2>3, <2>4 DEF Refused
<1>3. NoMark => Pr(Marker) = Missing /\ (Tm(Marker) = Invalid \/ (card' = card /\ Tm(Marker) = Missing))
  BY DEF NoMark, Pr, Tm
<1>6. card' = card /\ NoMark => Tm(Marker) = Missing
  <2> SUFFICES ASSUME card' = card, NoMark, Tm(Marker) = Invalid PROVE FALSE
    BY <1>3
  <2>1. card = [card EXCEPT ![Marker]["tmp"] = Missing]
    BY Distinct DEF NoMark, Tm
  <2>2. card[Marker]["tmp"] = Missing
    BY <2>1, <1>1 DEF Typed, Filed, Slot
  <2> QED BY <2>2, Distinct DEF Tm
<1>4. CASE card' = card /\ (NoMark => Tm(Marker) = Missing)
  <2>1. SameStats /\ SameMark /\ MarkerShape' /\ Filed'
    BY <1>4, MarkerFrame DEF SameStats, SameMark, Filed, Typed, Content
  <2>2. Pr(Marker)' = Pr(Marker) /\ Tm(Marker)' = Tm(Marker)
    BY <1>4, MarkerFrame
  <2>3. Pr(Marker) = Missing /\ Tm(Marker) = Missing => ~MarkPending
    BY DEF MarkPending, FoundMark, Pr, Tm, IsValue
  <2> QED BY <1>3, <1>4, <2>1, <2>2, <2>3 DEF ReadMark
<1>5. CASE /\ card' = [card EXCEPT ![Marker] = [card[Marker] EXCEPT !["tmp"] = Missing]]
           /\ Pr(Marker) = Missing /\ Tm(Marker) = Invalid
  <2> DEFINE files == [card[Marker] EXCEPT !["tmp"] = Missing]
  <2>1. files["primary"] = Pr(Marker) /\ files["bak"] = Bk(Marker) /\ files["tmp"] = Missing /\ OnSlots(files)
    BY <1>1 DEF OnSlots, Slot, Pr, Bk
  <2>2. card' = [card EXCEPT ![Marker] = files]
    BY <1>5
  <2> HIDE DEF files
  <2>3. Becomes(Marker, Pr(Marker), Bk(Marker), Missing) /\ Others(Marker)
    BY <2>1, <2>2, PutSlots
  <2>4. SameStats
    BY <2>3, Distinct DEF Others, SameStats
  <2>5. ~MarkPending /\ ~MarkPending' /\ SameMark
    BY <1>5, <2>3 DEF MarkPending, FoundMark, Becomes, Pr, Tm, IsValue, SameMark
  <2>6. MarkerShape'
    BY <1>5, <2>3 DEF MarkerShape, Becomes
  <2>7. Filed'
    BY <1>1, <2>3, <2>4, MarkerFiled, MarkerTypes DEF Becomes
  <2> QED BY <1>5, <2>3, <2>4, <2>5, <2>6, <2>7 DEF Becomes, ReadMark
<1> QED BY <1>2, <1>3, <1>4, <1>5, <1>6

(* A list of one call. *)
LEMMA OneCall == \A c : <<c>> = Cons(c, <<>>)
BY DEF Cons

(* recoverPending(), recover() or commit() returns, to whoever called it. *)
LEMMA Returns ==
  ASSUME IInv, NEW result, Return(result), SameStats,
         Filed', Sounds', MarkerShape', Resting', Pending',
         write' = None, ok' \in BOOLEAN, adopted' \in BOOLEAN,
         result # "Blocked" => ~MarkPending' /\ Pr(Marker)' = Missing /\ Tm(Marker)' = Missing,
         result = "Recovered" /\ goal = "apply" =>
           Stored(job.book) = job.newBook /\ Stored(Global) = job.newGlobal
  PROVE  IInv'
<1>1. \A f \in StatsFile : Stored(f)' = Stored(f)
  BY FileFrame DEF SameStats
<1>2. Written' /\ Expecting'
  BY DEF Written, Expecting
<1>3. /\ goal \in {"home", "open", "commit", "apply"}
      /\ reader # None => reader \in Reader /\ reader.writable \subseteq {reader.book, Global}
                          /\ reader.dirty \subseteq {reader.book, Global}
      /\ Typed /\ Tasks
  BY DEF Return, IInv, Typed
<1>4. ASSUME Idle, reader' = None \/ reader' \in Reader,
             reader' # None => /\ reader'.writable \subseteq {reader'.book, Global}
                              /\ reader'.dirty \subseteq {reader'.book, Global}
      PROVE  Typed' /\ Tasks'
  <2>1. Typed'
    BY <1>4 DEF Typed, Idle
  <2>2. Tasks'
    BY <1>4 DEF Tasks, Idle
  <2> QED BY <2>1, <2>2
<1>5. CASE goal = "home" /\ Idle /\ reader' = reader
  <2>1. reader = None
    BY <1>3, <1>5 DEF Tasks
  <2>2. Ready'
    BY <1>5, <2>1 DEF Ready
  <2> QED BY <1>2, <1>4, <1>5, <2>1, <2>2 DEF IInv
<1>6. CASE goal = "open" /\ ReaderOpens(result = "Blocked")
  <2>1. reader # None
    BY <1>3, <1>6 DEF Tasks
  <2>2. PICK read \in SUBSET {f \in {reader.book, Global} : Trusted(f)} :
          reader' = [reader EXCEPT !.stats = Stored(reader.book), !.global = Stored(Global),
                                   !.writable = IF result = "Blocked" THEN {} ELSE read]
    BY <1>6 DEF ReaderOpens
  <2>3. /\ reader.book \in Book /\ reader.book \in StatsFile /\ Global \in StatsFile
        /\ read \subseteq {reader.book, Global} /\ read \subseteq StatsFile
    BY <1>3, <2>1, <2>2, Distinct DEF Reader
  <2>4. Stored(reader.book) \in BookStats /\ Stored(Global) \in GlobalStats
    BY <1>3, <2>3, SlotTypes, Distinct
  <2>5. /\ reader' \in Reader /\ reader'.book = reader.book /\ reader'.dirty = reader.dirty
        /\ reader'.stats = Stored(reader.book) /\ reader'.global = Stored(Global)
        /\ reader'.writable = IF result = "Blocked" THEN {} ELSE read
    BY <1>3, <2>1, <2>2, <2>3, <2>4 DEF Reader
  <2>6. Typed' /\ Tasks'
    BY <1>3, <1>4, <1>6, <2>1, <2>3, <2>5 DEF ReaderOpens
  <2>7. Ready'
    <3> SUFFICES ASSUME reader'.writable # {}
                 PROVE  ~MarkPending' /\ \A f \in reader'.writable : Level(f, InMemory(f)') = Level(f, Stored(f)')
      BY DEF Ready, Level
    <3>1. ~MarkPending' /\ reader'.writable \subseteq {reader.book, Global}
      BY <2>3, <2>5
    <3>2. \A f \in {reader.book, Global} : InMemory(f)' = Stored(f)'
      BY <1>1, <2>3, <2>5, Distinct DEF InMemory
    <3> QED BY <3>1, <3>2
  <2> QED BY <1>2, <2>6, <2>7 DEF IInv
<1>7. ASSUME NEW success \in BOOLEAN, CommitReturns(success), goal \in {"commit", "apply"},
             success => /\ ~MarkPending' /\ goal = "apply"
                        /\ Stored(job.book) = job.newBook /\ Stored(Global) = job.newGlobal
      PROVE  IInv'
  <2>1. job \in Transition /\ (reader # None => reader.book = job.book)
    BY <1>3, <1>7 DEF Tasks, Typed, Committing, Applying
  <2>2. CASE reader = None
    <3>1. reader' = None /\ Idle
      BY <1>7, <2>2 DEF CommitReturns
    <3>2. Ready'
      BY <3>1 DEF Ready
    <3> QED BY <1>2, <1>4, <3>1, <3>2 DEF IInv
  <2>3. CASE reader # None /\ ~success
    <3>1. reader' = [reader EXCEPT !.writable = {}] /\ Idle
      BY <1>7, <2>3 DEF CommitReturns
    <3>2. reader' \in Reader /\ reader'.writable = {} /\ reader'.dirty = reader.dirty /\ reader'.book = reader.book
      BY <1>3, <2>3, <3>1 DEF Reader
    <3>3. Ready'
      BY <3>2 DEF Ready
    <3> QED BY <1>2, <1>3, <1>4, <2>3, <3>1, <3>2, <3>3 DEF IInv
  <2>4. CASE reader # None /\ success
    <3>1. reader' = [reader EXCEPT !.stats = job.newBook, !.global = job.newGlobal] /\ Idle
      BY <1>7, <2>4 DEF CommitReturns
    <3>2. /\ reader' \in Reader /\ reader'.writable = reader.writable /\ reader'.dirty = reader.dirty
          /\ reader'.book = reader.book /\ reader'.stats = job.newBook /\ reader'.global = job.newGlobal
      BY <1>3, <2>1, <2>4, <3>1 DEF Reader, Transition
    <3>3. job.book \in StatsFile /\ Global \in StatsFile /\ job.book # Global
      BY <2>1, Distinct DEF Transition
    <3>4. \A f \in {job.book, Global} : InMemory(f)' = Stored(f)'
      BY <1>1, <1>7, <2>1, <2>4, <3>2, <3>3 DEF InMemory
    <3>5. reader'.writable \subseteq {job.book, Global}
      BY <1>3, <2>1, <2>4, <3>2
    <3>6. Ready'
      BY <1>7, <2>4, <3>4, <3>5 DEF Ready, Level
    <3> QED BY <1>2, <1>3, <1>4, <2>4, <3>1, <3>2, <3>6 DEF IInv
  <2> QED BY <2>2, <2>3, <2>4
<1>8. CASE goal = "commit" /\ result = "Blocked" /\ CommitReturns(FALSE)
  BY <1>7, <1>8
<1>9. CASE goal = "apply" /\ CommitReturns(result = "Recovered")
  BY <1>7, <1>9
<1>10. CASE /\ goal = "commit" /\ result # "Blocked"
            /\ todo' = <<Call("check", job.book)>> /\ UNCHANGED <<goal, job, reader>>
  <2>1. Typed'
    BY <1>3, <1>10 DEF Typed
  <2>2. Ready'
    BY <1>10 DEF Ready
  <2>3. Committing
    BY <1>3, <1>10 DEF Tasks
  <2>4. todo' = Check1'
    BY <1>10, OneCall DEF Check1
  <2>5. Committing'
    BY <1>10, <2>3, <2>4 DEF Committing, Toggles
  <2>6. Tasks'
    BY <1>3, <1>10, <2>5 DEF Tasks
  <2> QED BY <1>2, <2>1, <2>2, <2>6 DEF IInv
<1> QED BY <1>5, <1>6, <1>8, <1>9, <1>10 DEF Return

(* The next call of a reader that saves its statistics. *)
FlushNext ==
  LET b == reader.book  e == End(goal, b) IN
  \/ todo = e /\ NextIs(IF goal = "close" THEN "leave" ELSE "complete", b, <<>>)
  \/ \E do \in {"flush", "flushed"} :
       \/ \E f \in reader.writable : NextIs(do, f, e)
       \/ reader.writable = {b, Global} /\ NextIs(do, b, Cons(Call("flush", Global), e))

(* Every list of such a reader begins with one of these. *)
LEMMA FlushingNext ==
  ASSUME Typed, reader # None, goal \in {"close", "finish"}, Flushing
  PROVE  todo # <<>> /\ todo \in Seq(Calls) /\ FlushNext
<1>1. reader.book \in Book /\ reader.writable \subseteq StatsFile /\ reader.book \in StatsFile
      /\ Global \in StatsFile
  BY Distinct DEF Typed, Reader
<1> DEFINE b == reader.book  e == End(goal, b)
           last == IF goal = "close" THEN "leave" ELSE "complete"
<1>2. {"leave", "complete", "flush", "flushed"} \subseteq Words /\ last \in Words
  BY DEF Words
<1>3. ASSUME NEW l, NEW do \in Words, NEW f, NEW r, IsList(l, Call(do, f), r), todo = l
      PROVE  todo # <<>> /\ todo \in Seq(Calls) /\ NextIs(do, f, r)
  BY <1>3 DEF IsList, NextIs, This, Call
<1>4. \A f \in StatsFile, do \in Words : Call(do, f) \in Calls
  BY CallIs
<1>5. IsList(e, Call(last, b), <<>>)
  <2>1. e = Cons(Call(last, b), <<>>)
    BY DEF End
  <2> HIDE DEF e, b, last
  <2>2. Call(last, b) \in Calls /\ <<>> \in Seq(Calls)
    BY <1>1, <1>2, <1>4, Lists DEF b
  <2> QED BY <2>1, <2>2, ConsIsList
<1>6. \A f \in StatsFile, do \in Words : IsList(Cons(Call(do, f), e), Call(do, f), e)
  BY <1>4, <1>5, ConsIsList DEF IsList
<1>7. \A do \in Words : IsList(Cons(Call(do, b), Cons(Call("flush", Global), e)), Call(do, b), Cons(Call("flush", Global), e))
  BY <1>1, <1>2, <1>4, <1>6, ConsIsList DEF IsList
<1>8. /\ Flushing <=>
          \/ todo = e
          \/ \E do \in {"flush", "flushed"} :
              \/ \E f \in reader.writable : todo = Cons(Call(do, f), e)
              \/ /\ reader.writable = {b, Global}
                 /\ todo = Cons(Call(do, b), Cons(Call("flush", Global), e))
      /\ FlushNext <=>
          \/ todo = e /\ NextIs(last, b, <<>>)
          \/ \E do \in {"flush", "flushed"} :
              \/ \E f \in reader.writable : NextIs(do, f, e)
              \/ reader.writable = {b, Global} /\ NextIs(do, b, Cons(Call("flush", Global), e))
  BY DEF Flushing, FlushNext
<1> HIDE DEF e, b, last
<1>9. CASE todo = e
  BY <1>2, <1>3, <1>5, <1>8, <1>9
<1>10. ASSUME NEW do \in {"flush", "flushed"}, NEW f \in reader.writable, todo = Cons(Call(do, f), e)
       PROVE  todo # <<>> /\ todo \in Seq(Calls) /\ FlushNext
  <2>1. IsList(todo, Call(do, f), e) /\ do \in Words
    BY <1>1, <1>2, <1>6, <1>10
  <2> QED BY <1>3, <1>8, <1>10, <2>1
<1>11. ASSUME NEW do \in {"flush", "flushed"}, reader.writable = {b, Global},
              todo = Cons(Call(do, b), Cons(Call("flush", Global), e))
       PROVE  todo # <<>> /\ todo \in Seq(Calls) /\ FlushNext
  <2>1. IsList(todo, Call(do, b), Cons(Call("flush", Global), e)) /\ do \in Words
    BY <1>2, <1>7, <1>11
  <2> QED BY <1>3, <1>8, <1>11, <2>1
<1> QED BY <1>8, <1>9, <1>10, <1>11

(* Who makes which call.                                                   *)
PlanWords == {"save", "saved", "pair", "paired", "verify", "unmark", "recovered"}
RecoverGoals == {"home", "open", "commit", "apply"}

(* The next call says what the main task is doing. *)
LEMMA WhoCalls ==
  ASSUME IInv, todo # <<>>
  PROVE  /\ todo \in Seq(Calls)
         /\ \/ Head(todo).do = "recover" /\ todo = Recover1 /\ goal \in RecoverGoals
            \/ /\ goal \in RecoverGoals /\ Head(todo).do \in PlanWords
               /\ \E b \in Book : AtPlan(b) /\ (goal = "apply" => b = job.book)
            \/ Head(todo).do = "check" /\ todo = Check1 /\ goal = "commit"
            \/ Head(todo).do = "marked" /\ todo = Marked1 /\ goal = "commit"
            \/ goal \in {"close", "finish"} /\ reader # None /\ FlushNext
               /\ Head(todo).do \in {"flush", "flushed", "leave", "complete"}
<1>1. Tasks /\ Typed
  BY DEF IInv
<1>2. ASSUME NEW b \in Book, AtPlan(b)
      PROVE  todo \in Seq(Calls) /\ Head(todo).do \in PlanWords
  BY <1>2, PlanNext DEF PlanWords, SaveNext, PairNext, UnmarkNext, NextIs
<1>3. ASSUME todo = Recover1 PROVE todo \in Seq(Calls) /\ Head(todo).do = "recover"
  BY <1>3, Lists DEF IsList, Call
<1>4. ASSUME goal = "commit", todo = Check1 PROVE todo \in Seq(Calls) /\ Head(todo).do = "check"
  <2>1. job.book \in StatsFile
    BY <1>1, <1>4, Distinct DEF Tasks, Typed, Transition
  <2>2. IsList(Check1, Call("check", job.book), <<>>)
    BY <2>1, Lists, CallIs, ConsIsList DEF Check1, Words
  <2> QED BY <1>4, <2>2 DEF IsList, Call
<1>5. ASSUME todo = Marked1 PROVE todo \in Seq(Calls) /\ Head(todo).do = "marked"
  <2>1. IsList(Marked1, Call("marked", Marker), <<>>)
    BY Lists, CallIs, ConsIsList DEF Marked1, Words
  <2> QED BY <1>5, <2>1 DEF IsList, Call
<1>6. CASE goal \in {"close", "finish"}
  <2>1. reader # None /\ Flushing
    BY <1>1, <1>6 DEF Tasks
  <2>2. todo \in Seq(Calls) /\ FlushNext
    BY <1>1, <1>6, <2>1, FlushingNext
  <2>3. Head(todo).do \in {"flush", "flushed", "leave", "complete"}
    BY <2>2 DEF FlushNext, NextIs
  <2> QED BY <1>6, <2>1, <2>2, <2>3
<1>7. CASE goal \in {"home", "open"}
  BY <1>1, <1>2, <1>3, <1>7 DEF Tasks, Recovering, RecoverGoals
<1>8. CASE goal = "commit"
  BY <1>1, <1>2, <1>3, <1>4, <1>5, <1>8 DEF Tasks, Committing, Recovering, RecoverGoals
<1>9. CASE goal = "apply"
  <2>1. job.book \in Book
    BY <1>1, <1>9 DEF Tasks, Typed, Transition
  <2> QED BY <1>1, <1>2, <1>3, <1>9, <2>1 DEF Tasks, Applying, RecoverGoals
<1>10. goal # "idle"
  BY <1>1 DEF Tasks
<1> QED BY <1>1, <1>6, <1>7, <1>8, <1>9, <1>10 DEF Tasks

-----------------------------------------------------------------------------
(* One lemma for each step of the main task.                               *)
LEMMA PlanStep ==
  ASSUME IInv, NEW b \in Book, AtPlan(b)', UNCHANGED <<goal, job, reader>>,
         goal \in RecoverGoals, goal = "apply" => b = job.book,
         SameStats, Typed', Sounds', MarkerShape', Resting', Pending', Written', Expecting',
         MarkPending' => MarkPending /\ FoundMark' = FoundMark,
         goal = "apply" /\ todo' \in {Recovered1(b), UnmarkTmp(b)} /\ ~MarkPending' =>
           Stored(b) = job.newBook /\ Stored(Global) = job.newGlobal
  PROVE  IInv'
<1>1. Tasks /\ Typed /\ Ready
  BY DEF IInv
<1>2. \A f \in StatsFile : Stored(f)' = Stored(f)
  BY FileFrame DEF SameStats
<1>3. Recovering'
  BY DEF Recovering
<1>4. goal = "commit" => Committing'
  BY <1>1, <1>3 DEF Tasks, Committing, Toggles
<1>5. goal = "apply" => Applying'
  BY <1>1, <1>2, Distinct DEF Tasks, Applying
<1>6. Tasks'
  BY <1>1, <1>3, <1>4, <1>5 DEF Tasks, RecoverGoals
<1>7. Ready'
  <2>1. CASE goal \in {"home", "open"}
    BY <1>1, <2>1 DEF Tasks, Ready
  <2>2. CASE goal \in {"commit", "apply"}
    BY <2>2 DEF Ready
  <2> QED BY <2>1, <2>2 DEF RecoverGoals
<1> QED BY <1>6, <1>7 DEF IInv

(* The new contents that recover() saves are contents.                     *)
LEMMA NewContent ==
  ASSUME Typed, Pending, MarkPending
  PROVE  /\ FoundMark \in Mark /\ FoundMark.change.book \in Book
         /\ \A f \in Touched(FoundMark.change) : NewOf(FoundMark.change, f) \in Content(f) /\ f \in StatsFile
<1>1. PICK m : m = FoundMark
  OBVIOUS
<1>2. m \in Mark /\ m.change \in Transition /\ m.change.book \in Book
  BY <1>1, MarkerTypes DEF Mark, Transition
<1>3. Counts(m.change)
  BY <1>1 DEF Pending, PendingMark
<1>4. m.change.newGlobal.completed \in 0..N /\ m.change.newGlobal \in GlobalStats /\ m.change.newBook \in BookStats
  <2>1. Finished \in SUBSET Book
    BY DEF Finished
  <2>2. Cardinality(Finished \ {m.change.book}) \in 0..(N - 1) /\ N \in Nat
    BY <1>2, <2>1, CountOne, CompletionAssumption, FS_CardinalityType DEF N
  <2> QED BY <1>2, <1>3, <2>2 DEF Counts, One, Transition
<1>5. m.change.newGlobal \in Content(Global)
  BY <1>4 DEF GlobalStats, Content
<1> QED BY <1>1, <1>2, <1>4, <1>5, Distinct DEF Touched, NewOf

(* The writeAtomic() that StartWrite() starts. *)
LEMMA StartTyped ==
  ASSUME NEW f \in StatsFile \cup {Marker}, NEW v \in Value, NEW rotate \in BOOLEAN, StartWrite(f, v, rotate)
  PROVE  /\ write' \in Write /\ write' # None /\ ok' = FALSE
         /\ write'.file = f /\ write'.value = v /\ write'.rotate = rotate /\ write'.rotated = FALSE
         /\ write'.at = "clearTemp"
<1>1. /\ write' = [file |-> f, value |-> v, rotate |-> rotate, rotated |-> FALSE, at |-> "clearTemp"]
      /\ ok' = FALSE
  BY DEF StartWrite
<1>2. write' \in Write
  BY <1>1 DEF Write, Value
<1>3. write' # None
  BY <1>2, ContentAssumption
<1> QED BY <1>1, <1>2, <1>3

(* recover() starts to write one of the two files. *)
LEMMA SaveBegins ==
  ASSUME IInv, NEW b \in Book, SaveNext(b, "save"), goal \in RecoverGoals, goal = "apply" => b = job.book,
         BeginSave(This, NewOf(FoundMark.change, This)), todo' = <<Call("saved", This)>> \o Tail(todo),
         UNCHANGED <<goal, job, reader, adopted>>
  PROVE  IInv'
<1>1. MarkPending /\ FoundMark.change.book = b /\ This \in {b, Global}
  BY DEF SaveNext, MarkOf, NextIs
<1>2. Refused
  BY DEF BeginSave, Permitted, Refused
<1>3. SameStats /\ SameMark /\ MarkerShape' /\ Filed' /\ card' = card
  BY <1>1, <1>2, Debris DEF IInv
<1>4. PICK f : f = This
  OBVIOUS
<1>5. PICK m : m = FoundMark
  OBVIOUS
<1>6. /\ f \in Touched(m.change) /\ f \in StatsFile /\ f # Marker
      /\ NewOf(m.change, f) \in Content(f) /\ NewOf(m.change, f) \in Value
  BY <1>1, <1>4, <1>5, NewContent, Distinct DEF Touched, IInv
<1>7. /\ write' \in Write /\ write' # None /\ ok' = FALSE
      /\ write'.file = f /\ write'.value = NewOf(m.change, f) /\ write'.rotate = IsValue(Pr(f)) /\ write'.rotated = FALSE
      /\ write'.at = "clearTemp"
  BY <1>4, <1>5, <1>6, StartTyped DEF BeginSave, Pr, IsValue
<1>8. ~Marking'
  BY <1>6, <1>7 DEF Marking
<1>9. Sounds' /\ Resting' /\ Pending'
  BY <1>3, <1>8, Kept DEF IInv
<1>10. Typed'
  BY <1>3, <1>7 DEF IInv, Typed
<1>11. RecoverWrites(m, f)'
  <2>1. Pr(f)' = Pr(f) /\ Bk(f)' = Bk(f) /\ Stored(f)' = Stored(f)
    BY <1>3, FileFrame
  <2>2. ~adopted => Midway(m, f)
    BY <1>1, <1>5, <1>6 DEF IInv, Pending, PendingMark
  <2>3. Pr(f) \in {Missing, Invalid} \cup Content(f) /\ Bk(f) \in {Missing, Invalid} \cup Content(f)
    BY <1>6, SlotTypes DEF IInv
  <2>4. ~IsValue(Pr(f)) /\ IsValue(Bk(f)) => Stored(f) = Bk(f)
    BY DEF Stored, Source, Pr, Bk
  <2>5. IsValue(Bk(f)') = IsValue(Bk(f))
    BY <2>1 DEF IsValue
  <2>6. ~adopted /\ ~IsValue(Pr(f)) /\ ~IsValue(Bk(f)) => f \in m.missing
    BY <2>2 DEF Midway, Anchored
  <2>7. ~adopted /\ ~IsValue(Pr(f)) /\ IsValue(Bk(f)) => Bk(f) \in Accepted(m, f)
    BY <2>2, <2>4 DEF Midway, Anchored
  <2> QED BY <1>6, <1>7, <2>1, <2>5, <2>6, <2>7 DEF RecoverWrites, Accepted, Touched, NewOf, OldOf, After, IsValue
<1>12. SlotsAt(f)'
  BY <1>3, <1>7 DEF SlotsAt, Before, After, Pr, IsValue
<1>13. MarkPending' /\ FoundMark' = m
  BY <1>1, <1>3, <1>5 DEF SameMark
<1>14. Written'
  BY <1>6, <1>7, <1>11, <1>12, <1>13 DEF Written, Writing, Content
<1>15. todo' = Cons(Call("saved", f), Tail(todo))
  BY <1>4 DEF Cons
<1>16. AtPlan(b)'
  <2>1. \A g \in {b} : HoldsTwice(g)' = HoldsTwice(g)
    BY <1>1, <1>3, Kept, <1>8, Distinct DEF IInv
  <2> QED BY <1>1, <1>4, <1>5, <1>13, <1>15, <2>1 DEF AtPlan, SaveNext, NextIs, MarkOf
<1>17. Expecting'
  <2>1. Tail(todo) \in Seq(Calls)
    BY Lists DEF SaveNext, NextIs, IsList
  <2>2. Call("saved", f) \in Calls
    BY <1>6, CallIs DEF Words
  <2>3. todo' # <<>> /\ Head(todo') = Call("saved", f)
    BY <1>15, <2>1, <2>2, ConsIsList DEF IsList
  <2> QED BY <1>6, <1>7, <1>13, <2>3 DEF Expecting, Call
<1>18. ~(todo' \in {Recovered1(b), UnmarkTmp(b)} /\ ~MarkPending')
  BY <1>13
<1> QED BY <1>3, <1>5, <1>9, <1>10, <1>13, <1>14, <1>16, <1>17, PlanStep DEF SameMark, IInv

(* A call that changes no file and starts no write.                        *)
LEMMA Still ==
  ASSUME IInv, card' = card, write = None, write' = None, ok' \in BOOLEAN, adopted' \in BOOLEAN,
         MarkPending => adopted' = adopted
  PROVE  /\ SameStats /\ SameMark /\ MarkerShape' /\ Filed' /\ Sounds' /\ Resting' /\ Pending'
         /\ Written' /\ Expecting' /\ MarkPending' = MarkPending /\ FoundMark' = FoundMark
         /\ Pr(Marker)' = Pr(Marker) /\ Tm(Marker)' = Tm(Marker)
         /\ \A f \in StatsFile : HoldsTwice(f)' = HoldsTwice(f) /\ Stored(f)' = Stored(f)
         /\ UNCHANGED <<job, reader>> => Typed'
<1>1. SameStats
  BY DEF SameStats
<1>2. /\ FoundMark' = FoundMark /\ MarkPending' = MarkPending /\ MarkerShape'
      /\ Pr(Marker)' = Pr(Marker) /\ Tm(Marker)' = Tm(Marker)
  BY MarkerFrame DEF IInv
<1>3. SameMark /\ ~Marking'
  BY <1>2 DEF SameMark, Marking
<1>4. Sounds' /\ Resting' /\ Pending' /\ \A f \in StatsFile : Stored(f)' = Stored(f)
  BY <1>1, <1>3, Kept DEF IInv
<1>5. \A f \in StatsFile : HoldsTwice(f)' = HoldsTwice(f)
  BY <1>2 DEF HoldsTwice, Holds, NewOf
<1>6. Written' /\ Expecting'
  BY DEF Written, Expecting
<1>7. Filed' /\ (UNCHANGED <<job, reader>> => Typed')
  BY DEF IInv, Typed, Filed, Content
<1> QED BY <1>1, <1>2, <1>3, <1>4, <1>5, <1>6, <1>7

(* A call that changes no file and makes recover() give up. *)
LEMMA StillReturns ==
  ASSUME IInv, card' = card, write = None, write' = None, ok' = FALSE, adopted' = adopted,
         Return("Blocked")
  PROVE  IInv'
BY Still, Returns DEF IInv, Typed

(* A step of recover() that changes no file and is not its last.           *)
LEMMA StillPlan ==
  ASSUME IInv, card' = card, write = None, write' = None, ok' = FALSE, adopted' = adopted,
         UNCHANGED <<goal, job, reader>>, goal \in RecoverGoals,
         NEW b \in Book, goal = "apply" => b = job.book, AtPlan(b)', MarkPending
  PROVE  IInv'
BY Still, PlanStep DEF IInv, Typed

(* GoOnWith(<<>>) *)
LEMMA DropHead == \A s \in Seq(Calls) : <<>> \o s = s
OBVIOUS

(* Lists of two and more calls. *)
LEMMA Tuple2 ==
  ASSUME NEW c1 \in Calls, NEW c2 \in Calls
  PROVE  <<c1, c2>> = Cons(c1, <<c2>>)
<1> DEFINE s == <<c1, c2>>  t == Cons(c1, <<c2>>)
<1>1. s \in Seq(Calls) /\ Len(s) = 2 /\ s[1] = c1 /\ s[2] = c2
  OBVIOUS
<1>2. t \in Seq(Calls) /\ Len(t) = 2 /\ t[1] = c1 /\ t[2] = c2
  BY DEF Cons
<1> HIDE DEF s, t
<1>3. \A i \in 1..Len(s) : s[i] = t[i]
  BY <1>1, <1>2
<1>4. s = t
  BY <1>1, <1>2, <1>3, SeqEqual
<1> QED BY <1>4 DEF s, t

LEMMA TwoCalls ==
  ASSUME NEW c \in Calls, NEW d \in Calls, NEW r \in Seq(Calls)
  PROVE  <<c, d>> \o r = Cons(c, Cons(d, r))
<1>1. <<c>> \in Seq(Calls) /\ <<d>> \in Seq(Calls) /\ <<c, d>> = <<c>> \o <<d>>
  BY Tuple2 DEF Cons
<1> QED BY <1>1, ConcatAssociative DEF Cons

LEMMA TailIsList == ASSUME NEW s \in Seq(Calls), s # <<>> PROVE Tail(s) \in Seq(Calls)
OBVIOUS

(* The calls of recover() that save and that look at the two copies. *)
LEMMA SavedStep == IInv /\ Saved => IInv'
<1> SUFFICES ASSUME IInv, Saved PROVE IInv'
  OBVIOUS
<1>1. write = None /\ todo # <<>> /\ Head(todo).do = "saved" /\ card' = card /\ Same /\ write' = None
  BY DEF Saved, Now, Same
<1>2. CASE Return("Blocked")
  BY <1>1, <1>2, StillReturns DEF Same
<1>3. CASE ok /\ GoOnWith(<<>>) /\ UNCHANGED <<goal, job, reader>>
  <2>1. PICK b \in Book : AtPlan(b) /\ (goal = "apply" => b = job.book) /\ goal \in RecoverGoals
    BY <1>1, WhoCalls DEF PlanWords
  <2>2. SaveNext(b, "saved") /\ todo \in Seq(Calls)
    BY <1>1, <2>1, PlanNext DEF SaveNext, PairNext, UnmarkNext, NextIs
  <2>3. todo' = Tail(todo)
    BY <1>1, <1>3, <2>2, DropHead, TailIsList DEF GoOnWith
  <2>4. b \in StatsFile /\ MarkPending /\ FoundMark.change.book = b
    BY <2>2, Distinct DEF SaveNext, MarkOf
  <2>5. AtPlan(b)'
    <3>1. HoldsTwice(b)' = HoldsTwice(b) /\ MarkPending' /\ FoundMark' = FoundMark
      BY <1>1, <2>4, Still DEF Same, IInv, Typed
    <3> QED BY <2>2, <2>3, <2>4, <3>1 DEF AtPlan, SaveNext, NextIs, SaveGlobal
  <2> QED BY <1>1, <1>3, <2>1, <2>4, <2>5, StillPlan DEF Same
<1> QED BY <1>2, <1>3 DEF Saved

LEMMA PairStep == IInv /\ Pair => IInv'
<1> SUFFICES ASSUME IInv, Pair PROVE IInv'
  OBVIOUS
<1>1. write = None /\ todo # <<>> /\ Head(todo).do = "pair" /\ card' = card /\ Same /\ write' = None
  BY DEF Pair, Now, Same
<1>2. CASE Return("Blocked")
  BY <1>1, <1>2, StillReturns DEF Same
<1>3. CASE /\ GoOnWith(IF HoldsTwice(This) THEN <<>> ELSE <<Call("save", This), Call("paired", This)>>)
           /\ UNCHANGED <<goal, job, reader>>
  <2>1. PICK b \in Book : AtPlan(b) /\ (goal = "apply" => b = job.book) /\ goal \in RecoverGoals
    BY <1>1, WhoCalls DEF PlanWords
  <2>2. PairNext(b, "pair") /\ todo \in Seq(Calls)
    BY <1>1, <2>1, PlanNext DEF SaveNext, PairNext, UnmarkNext, NextIs
  <2>3. b \in StatsFile /\ Global \in StatsFile /\ MarkPending /\ FoundMark.change.book = b
    BY <2>2, Distinct DEF PairNext, MarkOf
  <2>4. /\ HoldsTwice(b)' = HoldsTwice(b) /\ HoldsTwice(Global)' = HoldsTwice(Global)
        /\ MarkPending' /\ FoundMark' = FoundMark
    BY <1>1, <2>3, Still DEF Same, IInv, Typed
  <2>5. This \in {b, Global} /\ Tail(todo) \in Seq(Calls)
    BY <1>1, <2>2, TailIsList DEF PairNext, NextIs
  <2>6. CASE HoldsTwice(This)
    <3>1. todo' = Tail(todo)
      BY <1>3, <2>5, <2>6, DropHead DEF GoOnWith
    <3>2. AtPlan(b)'
      BY <2>2, <2>3, <2>4, <2>6, <3>1 DEF AtPlan, PairNext, NextIs
    <3> QED BY <1>1, <1>3, <2>1, <2>3, <3>2, StillPlan DEF Same
  <2>7. CASE ~HoldsTwice(This)
    <3>1. todo' = Cons(Call("save", This), Cons(Call("paired", This), Tail(todo)))
      <4>1. Call("save", This) \in Calls /\ Call("paired", This) \in Calls
        BY <2>3, <2>5, CallIs DEF Words
      <4>2. ASSUME NEW c \in Calls, NEW d \in Calls, NEW r \in Seq(Calls)
            PROVE  <<c, d>> \o r = <<c>> \o (<<d>> \o r)
        BY TwoCalls DEF Cons
      <4> QED BY <1>3, <2>5, <2>7, <4>1, <4>2 DEF GoOnWith, Cons
    <3>2. AtPlan(b)'
      BY <2>2, <2>3, <2>4, <3>1 DEF AtPlan, PairNext, NextIs, PairedGlobal, PairedBook
    <3> QED BY <1>1, <1>3, <2>1, <2>3, <3>2, StillPlan DEF Same
  <2> QED BY <2>6, <2>7
<1> QED BY <1>2, <1>3 DEF Pair

LEMMA PairedStep == IInv /\ Paired => IInv'
<1> SUFFICES ASSUME IInv, Paired PROVE IInv'
  OBVIOUS
<1>1. write = None /\ todo # <<>> /\ Head(todo).do = "paired" /\ card' = card /\ Same /\ write' = None
  BY DEF Paired, Now, Same
<1>2. CASE Return("Blocked")
  BY <1>1, <1>2, StillReturns DEF Same
<1>3. CASE HoldsTwice(This) /\ GoOnWith(<<>>) /\ UNCHANGED <<goal, job, reader>>
  <2>1. PICK b \in Book : AtPlan(b) /\ (goal = "apply" => b = job.book) /\ goal \in RecoverGoals
    BY <1>1, WhoCalls DEF PlanWords
  <2>2. PairNext(b, "paired") /\ todo \in Seq(Calls)
    BY <1>1, <2>1, PlanNext DEF SaveNext, PairNext, UnmarkNext, NextIs
  <2>3. b \in StatsFile /\ Global \in StatsFile /\ MarkPending /\ FoundMark.change.book = b
    BY <2>2, Distinct DEF PairNext, MarkOf
  <2>4. /\ HoldsTwice(b)' = HoldsTwice(b) /\ HoldsTwice(Global)' = HoldsTwice(Global)
        /\ MarkPending' /\ FoundMark' = FoundMark
    BY <1>1, <2>3, Still DEF Same, IInv, Typed
  <2>5. todo' = Tail(todo)
    BY <1>1, <1>3, <2>2, DropHead, TailIsList DEF GoOnWith
  <2>6. AtPlan(b)'
    BY <1>3, <2>2, <2>3, <2>4, <2>5 DEF AtPlan, PairNext, NextIs
  <2> QED BY <1>1, <1>3, <2>1, <2>3, <2>6, StillPlan DEF Same
<1> QED BY <1>2, <1>3 DEF Paired

LEMMA VerifyStep == IInv /\ Verify => IInv'
<1> SUFFICES ASSUME IInv, Verify PROVE IInv'
  OBVIOUS
<1>1. write = None /\ todo # <<>> /\ Head(todo).do = "verify" /\ card' = card /\ Same /\ write' = None
  BY DEF Verify, Now, Same
<1>2. CASE Return("Blocked")
  BY <1>1, <1>2, StillReturns DEF Same
<1>3. CASE GoOnWith(<<>>) /\ UNCHANGED <<goal, job, reader>>
  <2>1. PICK b \in Book : AtPlan(b) /\ (goal = "apply" => b = job.book) /\ goal \in RecoverGoals
    BY <1>1, WhoCalls DEF PlanWords
  <2>2. NextIs("verify", b, UnmarkAll(b)) /\ MarkOf(b) /\ BothTwice(b) /\ todo \in Seq(Calls)
    BY <1>1, <2>1, PlanNext DEF SaveNext, PairNext, UnmarkNext, NextIs
  <2>3. b \in StatsFile /\ Global \in StatsFile /\ MarkPending /\ FoundMark.change.book = b
    BY <2>2, Distinct DEF MarkOf
  <2>4. /\ HoldsTwice(b)' = HoldsTwice(b) /\ HoldsTwice(Global)' = HoldsTwice(Global)
        /\ MarkPending' /\ FoundMark' = FoundMark
    BY <1>1, <2>3, Still DEF Same, IInv, Typed
  <2>5. todo' = UnmarkAll(b)
    BY <1>1, <1>3, <2>2, DropHead, TailIsList DEF GoOnWith, NextIs
  <2>6. AtPlan(b)'
    BY <2>2, <2>3, <2>4, <2>5 DEF AtPlan, BothTwice
  <2> QED BY <1>1, <1>3, <2>1, <2>3, <2>6, StillPlan DEF Same
<1> QED BY <1>2, <1>3 DEF Verify

LEMMA SaveStep == IInv /\ Save => IInv'
<1> SUFFICES ASSUME IInv, Save PROVE IInv'
  OBVIOUS
<1>1. write = None /\ todo # <<>> /\ Head(todo).do = "save"
  BY DEF Save, Now
<1>2. CASE Refused /\ Return("Blocked") /\ Same
  <2>1. SameStats /\ SameMark /\ MarkerShape' /\ Filed'
    BY <1>2, Debris DEF IInv
  <2>2. write' = None /\ ok' = FALSE /\ adopted' = adopted /\ ~Marking'
    BY <1>1, <1>2 DEF Same, Marking
  <2>3. Sounds' /\ Resting' /\ Pending'
    BY <2>1, <2>2, Kept DEF IInv
  <2> QED BY <1>2, <2>1, <2>2, <2>3, Returns DEF IInv, Typed
<1>3. CASE /\ BeginSave(This, NewOf(FoundMark.change, This))
           /\ GoOnWith(<<Call("saved", This)>>)
           /\ UNCHANGED <<goal, job, reader, adopted>>
  <2>1. PICK b \in Book : AtPlan(b) /\ (goal = "apply" => b = job.book) /\ goal \in RecoverGoals
    BY <1>1, WhoCalls DEF PlanWords
  <2>2. SaveNext(b, "save")
    BY <1>1, <2>1, PlanNext DEF SaveNext, PairNext, UnmarkNext, NextIs
  <2> QED BY <1>3, <2>1, <2>2, SaveBegins DEF GoOnWith
<1> QED BY <1>2, <1>3 DEF Save

(* The list that recover() begins with.                                    *)
LEMMA Tuple3 ==
  ASSUME NEW c1 \in Calls, NEW c2 \in Calls, NEW c3 \in Calls
  PROVE  <<c1, c2, c3>> = Cons(c1, <<c2, c3>>)
<1> DEFINE s == <<c1, c2, c3>>  t == Cons(c1, <<c2, c3>>)
<1>1. s \in Seq(Calls) /\ Len(s) = 3 /\ s[1] = c1 /\ s[2] = c2 /\ s[3] = c3
  OBVIOUS
<1>2. t \in Seq(Calls) /\ Len(t) = 3 /\ t[1] = c1 /\ t[2] = c2 /\ t[3] = c3
  BY DEF Cons
<1> HIDE DEF s, t
<1>3. \A i \in 1..Len(s) : s[i] = t[i]
  BY <1>1, <1>2
<1>4. s = t
  BY <1>1, <1>2, <1>3, SeqEqual
<1> QED BY <1>4 DEF s, t

LEMMA Tuple4 ==
  ASSUME NEW c1 \in Calls, NEW c2 \in Calls, NEW c3 \in Calls, NEW c4 \in Calls
  PROVE  <<c1, c2, c3, c4>> = Cons(c1, <<c2, c3, c4>>)
<1> DEFINE s == <<c1, c2, c3, c4>>  t == Cons(c1, <<c2, c3, c4>>)
<1>1. s \in Seq(Calls) /\ Len(s) = 4 /\ s[1] = c1 /\ s[2] = c2 /\ s[3] = c3 /\ s[4] = c4
  OBVIOUS
<1>2. t \in Seq(Calls) /\ Len(t) = 4 /\ t[1] = c1 /\ t[2] = c2 /\ t[3] = c3 /\ t[4] = c4
  BY DEF Cons
<1> HIDE DEF s, t
<1>3. \A i \in 1..Len(s) : s[i] = t[i]
  BY <1>1, <1>2
<1>4. s = t
  BY <1>1, <1>2, <1>3, SeqEqual
<1> QED BY <1>4 DEF s, t

LEMMA Tuple5 ==
  ASSUME NEW c1 \in Calls, NEW c2 \in Calls, NEW c3 \in Calls, NEW c4 \in Calls, NEW c5 \in Calls
  PROVE  <<c1, c2, c3, c4, c5>> = Cons(c1, <<c2, c3, c4, c5>>)
<1> DEFINE s == <<c1, c2, c3, c4, c5>>  t == Cons(c1, <<c2, c3, c4, c5>>)
<1>1. s \in Seq(Calls) /\ Len(s) = 5 /\ s[1] = c1 /\ s[2] = c2 /\ s[3] = c3 /\ s[4] = c4 /\ s[5] = c5
  OBVIOUS
<1>2. t \in Seq(Calls) /\ Len(t) = 5 /\ t[1] = c1 /\ t[2] = c2 /\ t[3] = c3 /\ t[4] = c4 /\ t[5] = c5
  BY DEF Cons
<1> HIDE DEF s, t
<1>3. \A i \in 1..Len(s) : s[i] = t[i]
  BY <1>1, <1>2
<1>4. s = t
  BY <1>1, <1>2, <1>3, SeqEqual
<1> QED BY <1>4 DEF s, t

LEMMA Tuple6 ==
  ASSUME NEW c1 \in Calls, NEW c2 \in Calls, NEW c3 \in Calls, NEW c4 \in Calls, NEW c5 \in Calls, NEW c6 \in Calls
  PROVE  <<c1, c2, c3, c4, c5, c6>> = Cons(c1, <<c2, c3, c4, c5, c6>>)
<1> DEFINE s == <<c1, c2, c3, c4, c5, c6>>  t == Cons(c1, <<c2, c3, c4, c5, c6>>)
<1>1. s \in Seq(Calls) /\ Len(s) = 6 /\ s[1] = c1 /\ s[2] = c2 /\ s[3] = c3 /\ s[4] = c4 /\ s[5] = c5 /\ s[6] = c6
  OBVIOUS
<1>2. t \in Seq(Calls) /\ Len(t) = 6 /\ t[1] = c1 /\ t[2] = c2 /\ t[3] = c3 /\ t[4] = c4 /\ t[5] = c5 /\ t[6] = c6
  BY DEF Cons
<1> HIDE DEF s, t
<1>3. \A i \in 1..Len(s) : s[i] = t[i]
  BY <1>1, <1>2
<1>4. s = t
  BY <1>1, <1>2, <1>3, SeqEqual
<1> QED BY <1>4 DEF s, t

(* The list that recover() works off, with or without its two first calls. *)
LEMMA PlanIs ==
  ASSUME NEW m, m.change.book \in Book
  PROVE  LET b == m.change.book IN
         Plan(m) \in {PairAll(b), Cons(Call("save", b), PairAll(b)), SaveGlobal(b),
                     Cons(Call("save", b), SaveGlobal(b))}
<1> DEFINE b == m.change.book
           pairs == <<Call("pair", b), Call("pair", Global), Call("verify", b),
                      Call("unmark", "primary"), Call("unmark", "tmp"), Call("recovered", b)>>
<1>1. /\ Call("pair", b) \in Calls /\ Call("pair", Global) \in Calls /\ Call("verify", b) \in Calls
      /\ Call("unmark", "primary") \in Calls /\ Call("unmark", "tmp") \in Calls
      /\ Call("recovered", b) \in Calls /\ Call("save", b) \in Calls /\ Call("save", Global) \in Calls
  BY CallIs, Distinct DEF Words, Slot
<1> HIDE DEF b
<1>2. pairs = PairAll(b)
  <2> DEFINE c1 == Call("pair", b)  c2 == Call("pair", Global)  c3 == Call("verify", b)
             c4 == Call("unmark", "primary")  c5 == Call("unmark", "tmp")  c6 == Call("recovered", b)
  <2>1. PairAll(b) = Cons(c1, Cons(c2, Cons(c3, Cons(c4, Cons(c5, Cons(c6, <<>>))))))
    BY DEF PairAll, PairGlobal, VerifyAll, UnmarkAll, UnmarkTmp, Recovered1
  <2>2. c1 \in Calls /\ c2 \in Calls /\ c3 \in Calls /\ c4 \in Calls /\ c5 \in Calls /\ c6 \in Calls
    BY <1>1
  <2> HIDE DEF c1, c2, c3, c4, c5, c6
  <2>3. <<c6>> = Cons(c6, <<>>)
    BY OneCall
  <2>4. <<c5, c6>> = Cons(c5, <<c6>>)
    BY <2>2, Tuple2
  <2>5. <<c4, c5, c6>> = Cons(c4, <<c5, c6>>)
    BY <2>2, Tuple3
  <2>6. <<c3, c4, c5, c6>> = Cons(c3, <<c4, c5, c6>>)
    BY <2>2, Tuple4
  <2>7. <<c2, c3, c4, c5, c6>> = Cons(c2, <<c3, c4, c5, c6>>)
    BY <2>2, Tuple5
  <2>8. <<c1, c2, c3, c4, c5, c6>> = Cons(c1, <<c2, c3, c4, c5, c6>>)
    BY <2>2, Tuple6
  <2>9. <<c1, c2, c3, c4, c5, c6>> = Cons(c1, Cons(c2, Cons(c3, Cons(c4, Cons(c5, Cons(c6, <<>>))))))
    BY <2>3, <2>4, <2>5, <2>6, <2>7, <2>8
  <2> QED BY <2>1, <2>9 DEF c1, c2, c3, c4, c5, c6
<1>3. PairAll(b) \in Seq(Calls) /\ SaveGlobal(b) \in Seq(Calls)
  BY Lists DEF b, IsList
<1> HIDE DEF pairs
<1>4. Plan(m) = (Publishes(m, b) \o Publishes(m, Global)) \o PairAll(b)
  BY <1>2 DEF Plan, b, pairs
<1>5. /\ Publishes(m, b) \in {<<>>, <<Call("save", b)>>}
      /\ Publishes(m, Global) \in {<<>>, <<Call("save", Global)>>}
  BY DEF Publishes
<1>6. /\ <<>> \in Seq(Calls) /\ <<Call("save", b)>> \in Seq(Calls) /\ <<Call("save", Global)>> \in Seq(Calls)
      /\ \A s \in Seq(Calls) : <<>> \o s = s
  BY <1>1
<1>7. Plan(m) = Publishes(m, b) \o (Publishes(m, Global) \o PairAll(b))
  BY <1>3, <1>4, <1>5, <1>6, ConcatAssociative
<1> QED BY <1>3, <1>5, <1>6, <1>7 DEF Cons, SaveGlobal, b

(* recover() starts, finds nothing, or gives up. *)
LEMMA RecoverStep == IInv /\ Recover => IInv'
<1> SUFFICES ASSUME IInv, Recover PROVE IInv'
  OBVIOUS
<1>1. write = None /\ todo # <<>> /\ Head(todo).do = "recover" /\ Same /\ write' = None
  BY DEF Recover, Now, Same
<1>2. Refused
  BY DEF Recover, Refused
<1>3. /\ SameStats /\ SameMark /\ MarkerShape' /\ Filed'
      /\ NoMark => ~MarkPending /\ Pr(Marker)' = Missing /\ Tm(Marker)' = Missing
      /\ ReadMark => card' = card /\ MarkPending
  BY <1>2, Debris DEF IInv
<1>4. ok' = FALSE /\ adopted' = adopted /\ ~Marking'
  BY <1>1 DEF Same, Marking
<1>5. Sounds' /\ Resting' /\ Pending'
  BY <1>3, <1>4, Kept DEF IInv
<1>6. CASE Return("Blocked")
  BY <1>1, <1>3, <1>4, <1>5, <1>6, Returns DEF IInv, Typed
<1>7. CASE NoMark /\ Return("NoMarker")
  BY <1>1, <1>3, <1>4, <1>5, <1>7, Returns DEF IInv, Typed, SameMark
<1>8. CASE ReadMark /\ GoOnWith(Plan(FoundMark)) /\ UNCHANGED <<goal, job, reader>>
  <2>1. todo = Recover1 /\ goal \in RecoverGoals
    BY <1>1, WhoCalls DEF PlanWords
  <2>2. MarkPending /\ card' = card
    BY <1>3, <1>8
  <2>3. PICK b \in Book : FoundMark.change.book = b
    BY <2>2, NewContent DEF IInv
  <2>4. MarkPending' /\ FoundMark' = FoundMark
    BY <2>2, <1>3 DEF SameMark
  <2>5. todo' = Plan(FoundMark)
    <3>1. Tail(todo) = <<>>
      BY <2>1, Lists DEF IsList
    <3>2. Plan(FoundMark) \in Seq(Calls)
      <4>1. /\ PairAll(b) \in Seq(Calls) /\ SaveGlobal(b) \in Seq(Calls)
            /\ Cons(Call("save", b), PairAll(b)) \in Seq(Calls)
            /\ Cons(Call("save", b), SaveGlobal(b)) \in Seq(Calls)
        BY Lists DEF IsList, Words
      <4> QED BY <2>3, <4>1, PlanIs
    <3> QED BY <1>8, <3>1, <3>2, ConcatEmptySeq DEF GoOnWith
  <2>6. todo' \in {PairAll(b), Cons(Call("save", b), PairAll(b)), SaveGlobal(b),
                   Cons(Call("save", b), SaveGlobal(b))}
    BY <2>3, <2>5, PlanIs
  <2>7. AtPlan(b)'
    BY <2>3, <2>4, <2>6 DEF AtPlan, SaveGlobal
  <2>8. goal = "apply" => b = job.book
    BY <2>2, <2>3 DEF IInv, Tasks, Applying
  <2> QED BY <1>1, <1>4, <1>8, <2>1, <2>2, <2>7, <2>8, StillPlan
<1> QED BY <1>6, <1>7, <1>8 DEF Recover

(* Both copies of both files hold the new contents: the books count again  *)
(* without the marker.                                                     *)
LEMMA TwiceIsQuiet ==
  ASSUME IInv, NEW b \in Book, MarkOf(b), BothTwice(b)
  PROVE  Quiet /\ Stored(b) = FoundMark.change.newBook /\ Stored(Global) = FoundMark.change.newGlobal
<1>1. PICK m : m = FoundMark
  OBVIOUS
<1>2. /\ m \in Mark /\ PendingMark(m) /\ m.change.book = b /\ m.change \in Transition
      /\ Touched(m.change) = {b, Global} /\ b \in StatsFile /\ Global \in StatsFile /\ b # Global
      /\ MarkPending
  BY <1>1, NewContent, Distinct DEF MarkOf, IInv, Pending, Touched, Mark
<1>3. \A f \in {b, Global} : /\ Pr(f) = NewOf(m.change, f) /\ Bk(f) = NewOf(m.change, f)
                            /\ IsValue(NewOf(m.change, f))
  <2>1. \A f \in {b, Global} : Pr(f) = NewOf(m.change, f) /\ Bk(f) = NewOf(m.change, f)
    BY <1>1 DEF BothTwice, HoldsTwice, Holds, Pr, Bk
  <2>2. \A f \in {b, Global} : NewOf(m.change, f) \in Content(f)
    BY <1>1, <1>2, NewContent DEF IInv
  <2> QED BY <1>2, <2>1, <2>2, Distinct
<1>4. \A f \in {b, Global} : Source(f) = "primary" /\ Stored(f) = NewOf(m.change, f) /\ Settled(f)
  BY <1>3 DEF Source, Stored, Settled, Pr, Bk
<1>5. Stored(b) = m.change.newBook /\ Stored(Global) = m.change.newGlobal
  BY <1>2, <1>4 DEF NewOf
<1>6. \A f \in StatsFile : Settled(f)
  BY <1>2, <1>4 DEF PendingMark
<1>7. Stored(Global).completed = Cardinality(Finished)
  <2>1. Finished \in SUBSET Book /\ (b \in Finished <=> m.change.newBook.done)
    BY <1>5 DEF Finished
  <2>2. Cardinality(Finished) = Cardinality(Finished \ {b}) + IF b \in Finished THEN 1 ELSE 0
    BY <2>1, CountOne
  <2>3. m.change.newGlobal.completed = Cardinality(Finished \ {b}) + IF m.change.newBook.done THEN 1 ELSE 0
    BY <1>2 DEF PendingMark, Counts, One
  <2> QED BY <1>5, <2>1, <2>2, <2>3
<1> QED BY <1>1, <1>5, <1>6, <1>7 DEF Quiet

(* removeMarkerFiles() drops the marker only then. *)
LEMMA Unmarks ==
  ASSUME IInv, NEW b \in Book, UnmarkNext(b), write = None, write' = None, adopted' = adopted,
         \/ card' = card
         \/ card' = [card EXCEPT ![Marker] = [card[Marker] EXCEPT ![This] = Missing]]
  PROVE  /\ SameStats /\ Filed' /\ Sounds' /\ MarkerShape' /\ Resting' /\ Pending'
         /\ MarkPending' => MarkPending /\ FoundMark' = FoundMark
         /\ MarkPending /\ ~MarkPending' =>
              Stored(b) = FoundMark.change.newBook /\ Stored(Global) = FoundMark.change.newGlobal
         /\ card' # card => card'[Marker][This] = Missing /\ (This = "tmp" => Pr(Marker)' = Pr(Marker))
<1>1. /\ Pr(Marker) \in {Missing, Invalid} \cup Mark /\ Bk(Marker) \in {Missing, Invalid} \cup Mark
      /\ Tm(Marker) \in {Missing, Invalid} \cup Mark
      /\ OnSlots(card[Marker]) /\ This \in {"primary", "tmp"}
      /\ Typed /\ Sounds /\ MarkerShape /\ Resting /\ Pending
      /\ Slot = {"primary", "bak", "tmp"}
  BY MarkerTypes DEF IInv, OnSlots, UnmarkNext, NextIs, Slot
<1>2. CASE card' = card
  <2>1. SameStats /\ Filed' /\ MarkerShape'
    BY <1>1, <1>2, MarkerFrame DEF SameStats, Typed, Filed, Content
  <2>2. SameMark /\ FoundMark' = FoundMark /\ MarkPending' = MarkPending /\ ~Marking'
    BY <1>2, MarkerFrame DEF SameMark, Marking
  <2> QED BY <1>1, <1>2, <2>1, <2>2, Kept
<1>3. CASE card' = [card EXCEPT ![Marker] = [card[Marker] EXCEPT ![This] = Missing]]
  <2> DEFINE files == [card[Marker] EXCEPT ![This] = Missing]
  <2>1. /\ OnSlots(files) /\ files[This] = Missing /\ files["bak"] = Bk(Marker)
        /\ files["primary"] = IF This = "primary" THEN Missing ELSE Pr(Marker)
        /\ files["tmp"] = IF This = "tmp" THEN Missing ELSE Tm(Marker)
    BY <1>1 DEF OnSlots, Pr, Bk, Tm
  <2>2. card' = [card EXCEPT ![Marker] = files]
    BY <1>3
  <2> HIDE DEF files
  <2>3. Becomes(Marker, files["primary"], files["bak"], files["tmp"]) /\ Others(Marker)
    BY <1>1, <2>1, <2>2, PutSlots
  <2>4. SameStats
    BY <2>3, Distinct DEF Others, SameStats
  <2>5. Filed'
    BY <1>1, <2>1, <2>3, <2>4, MarkerFiled DEF Becomes
  <2>6. MarkerShape'
    BY <1>1, <2>1, <2>3, Distinct DEF Becomes, MarkerShape
  <2>7. (Pr(Marker)' = Pr(Marker) /\ Tm(Marker)' = Tm(Marker)) \/ ~MarkPending'
    BY <1>1, <2>1, <2>3 DEF Becomes, MarkerShape, UnmarkNext, NextIs, MarkPending, FoundMark, Pr, Tm, IsValue
  <2>8. /\ card'[Marker][This] = Missing /\ (This = "tmp" => Pr(Marker)' = Pr(Marker))
    <3>1. CASE This = "primary"
      BY <2>1, <2>3, <3>1 DEF Becomes, Pr
    <3>2. CASE This = "tmp"
      BY <2>1, <2>3, <3>2 DEF Becomes, Tm
    <3> QED BY <1>1, <3>1, <3>2
  <2>9. CASE Pr(Marker)' = Pr(Marker) /\ Tm(Marker)' = Tm(Marker)
    <3>1. SameMark /\ FoundMark' = FoundMark /\ MarkPending' = MarkPending /\ ~Marking'
      BY <2>9 DEF SameMark, Marking, MarkPending, FoundMark, Pr, Tm, IsValue
    <3> QED BY <1>1, <2>4, <2>5, <2>6, <2>8, <3>1, Kept
  <2>10. CASE ~MarkPending' /\ MarkPending
    <3>1. MarkOf(b) /\ BothTwice(b)
      BY <2>10 DEF UnmarkNext
    <3>2. Quiet /\ Stored(b) = FoundMark.change.newBook /\ Stored(Global) = FoundMark.change.newGlobal
      BY <3>1, TwiceIsQuiet
    <3>3. \A f \in StatsFile : Sound(f)' = Sound(f) /\ Settled(f)' = Settled(f) /\ Stored(f)' = Stored(f)
      BY <2>4, FileFrame DEF SameStats
    <3>4. Sounds' /\ Quiet'
      BY <1>1, <3>2, <3>3, QuietFrame DEF Sounds, Level
    <3> QED BY <2>4, <2>5, <2>6, <2>8, <2>10, <3>2, <3>4 DEF Resting, Pending
  <2>11. CASE ~MarkPending' /\ ~MarkPending
    <3>1. SameMark /\ ~Marking'
      BY <2>11 DEF SameMark, Marking, MarkPending, IsValue
    <3> QED BY <1>1, <2>4, <2>5, <2>6, <2>8, <2>11, <3>1, Kept
  <2> QED BY <2>7, <2>9, <2>10, <2>11
<1> QED BY <1>2, <1>3

(* The last calls of recover(). *)
LEMMA UnmarkStep == IInv /\ Unmark => IInv'
<1> SUFFICES ASSUME IInv, Unmark PROVE IInv'
  OBVIOUS
<1>1. write = None /\ todo # <<>> /\ Head(todo).do = "unmark" /\ Same /\ write' = None
      /\ ok' = FALSE /\ adopted' = adopted
  BY DEF Unmark, Now, Same
<1>2. PICK b \in Book : AtPlan(b) /\ (goal = "apply" => b = job.book) /\ goal \in RecoverGoals
  BY <1>1, WhoCalls DEF PlanWords
<1>3. UnmarkNext(b) /\ todo \in Seq(Calls)
  BY <1>1, <1>2, PlanNext DEF SaveNext, PairNext, UnmarkNext, NextIs
<1> DEFINE removed == [card EXCEPT ![Marker] = [card[Marker] EXCEPT ![This] = Missing]]
<1>4. /\ card' = card \/ card' = removed
      /\ card' # removed => Return("Blocked")
      /\ Return("Blocked") \/ (card' = removed /\ GoOnWith(<<>>) /\ UNCHANGED <<goal, job, reader>>)
  <2>1. [card EXCEPT ![Marker] = card[Marker]] = card
    BY DEF IInv, Typed, Filed
  <2> QED BY <2>1 DEF Unmark, AfterFailedRemove, Removed
<1> HIDE DEF removed
<1>5. /\ SameStats /\ Filed' /\ Sounds' /\ MarkerShape' /\ Resting' /\ Pending'
      /\ MarkPending' => MarkPending /\ FoundMark' = FoundMark
      /\ MarkPending /\ ~MarkPending' =>
           Stored(b) = FoundMark.change.newBook /\ Stored(Global) = FoundMark.change.newGlobal
      /\ card' # card => card'[Marker][This] = Missing /\ (This = "tmp" => Pr(Marker)' = Pr(Marker))
  BY <1>1, <1>3, <1>4, Unmarks DEF removed
<1>6. CASE Return("Blocked")
  BY <1>1, <1>5, <1>6, Returns DEF IInv, Typed
<1>7. CASE card' = removed /\ GoOnWith(<<>>) /\ UNCHANGED <<goal, job, reader>>
  <2>1. This \in {"primary", "tmp"} /\ This \in Slot
    BY <1>3 DEF UnmarkNext, NextIs, Slot
  <2>2. card'[Marker][This] = Missing /\ (This = "tmp" => Pr(Marker)' = Pr(Marker))
    <3>1. CASE card' # card
      BY <1>5, <3>1
    <3>2. CASE card' = card
      <4>1. card = [card EXCEPT ![Marker] = [card[Marker] EXCEPT ![This] = Missing]]
        BY <1>7, <3>2 DEF removed
      <4>2. card[Marker][This] = Missing
        BY <2>1, <4>1 DEF IInv, Typed, Filed
      <4> QED BY <3>2, <4>2 DEF Pr
    <3> QED BY <3>1, <3>2
  <2>3. todo' = Tail(todo)
    BY <1>1, <1>3, <1>7, DropHead, TailIsList DEF GoOnWith
  <2>4. b \in StatsFile /\ Global \in StatsFile /\ card'[b] = card[b] /\ card'[Global] = card[Global]
    BY <1>5, Distinct DEF SameStats
  <2>5. MarkPending' => MarkPending /\ FoundMark' = FoundMark /\ HoldsTwice(b)' = HoldsTwice(b)
                        /\ HoldsTwice(Global)' = HoldsTwice(Global)
    BY <1>5, <2>4 DEF HoldsTwice, Holds, NewOf
  <2>6. AtPlan(b)'
    <3>1. CASE This = "primary"
      <4>1. todo' = UnmarkTmp(b) /\ MarkOf(b) /\ BothTwice(b)
        BY <1>3, <2>3, <3>1 DEF UnmarkNext, NextIs
      <4>2. Pr(Marker)' = Missing
        BY <2>2, <3>1 DEF Pr
      <4> QED BY <2>5, <4>1, <4>2 DEF AtPlan, MarkOf, BothTwice
    <3>2. CASE This = "tmp"
      <4>1. todo' = Recovered1(b) /\ Pr(Marker) = Missing
        BY <1>3, <2>3, <3>2 DEF UnmarkNext, NextIs
      <4>2. Pr(Marker)' = Missing /\ Tm(Marker)' = Missing
        BY <2>2, <3>2, <4>1 DEF Tm
      <4>3. ~MarkPending'
        BY <4>2 DEF MarkPending, FoundMark, Pr, Tm, IsValue
      <4> QED BY <4>1, <4>2, <4>3 DEF AtPlan
    <3> QED BY <2>1, <3>1, <3>2
  <2>7. Typed' /\ Written' /\ Expecting'
    BY <1>1, <1>5, <1>7 DEF IInv, Typed, Written, Expecting
  <2>8. goal = "apply" /\ ~MarkPending' => Stored(b) = job.newBook /\ Stored(Global) = job.newGlobal
    <3>1. CASE goal = "apply" /\ MarkPending
      <4>1. FoundMark.change = job
        BY <3>1 DEF IInv, Tasks, Applying
      <4> QED BY <1>5, <3>1, <4>1
    <3>2. CASE goal = "apply" /\ ~MarkPending
      <4>1. todo = UnmarkTmp(b) \/ ~(goal = "apply" /\ ~MarkPending)
        <5>1. Head(todo).do # "recovered"
          BY <1>1
        <5>2. todo # Recovered1(b)
          BY <1>2, <5>1, Heads
        <5> QED BY <1>2, <3>2, <5>2 DEF AtPlan
      <4> QED BY <1>2, <3>2, <4>1 DEF IInv, Tasks, Applying
    <3> QED BY <3>1, <3>2
  <2> QED BY <1>2, <1>5, <1>7, <2>6, <2>7, <2>8, PlanStep
<1> QED BY <1>4, <1>6, <1>7

LEMMA RecoveredStep == IInv /\ Recovered => IInv'
<1> SUFFICES ASSUME IInv, Recovered PROVE IInv'
  OBVIOUS
<1>1. write = None /\ todo # <<>> /\ Head(todo).do = "recovered" /\ write' = None /\ card' = card
      /\ ok' = FALSE /\ adopted' = FALSE /\ Return("Recovered")
  BY DEF Recovered, Now
<1>2. PICK b \in Book : AtPlan(b) /\ (goal = "apply" => b = job.book) /\ goal \in RecoverGoals
  BY <1>1, WhoCalls DEF PlanWords
<1>3. todo = Recovered1(b) /\ ~MarkPending /\ Pr(Marker) = Missing /\ Tm(Marker) = Missing
  BY <1>1, <1>2, PlanNext DEF SaveNext, PairNext, UnmarkNext, NextIs
<1>4. goal = "apply" => Stored(job.book) = job.newBook /\ Stored(Global) = job.newGlobal
  BY <1>2, <1>3 DEF IInv, Tasks, Applying
<1>5. /\ SameStats /\ MarkerShape' /\ Filed' /\ Sounds' /\ Resting' /\ Pending'
      /\ ~MarkPending' /\ Pr(Marker)' = Missing /\ Tm(Marker)' = Missing
  <2>1. ok' \in BOOLEAN /\ adopted' \in BOOLEAN
    BY <1>1
  <2> QED BY <1>1, <1>3, <2>1, Still
<1> QED BY <1>1, <1>4, <1>5, Returns

(* commit() writes the marker, and looks at the result. *)
LEMMA JobMark ==
  ASSUME job \in Transition
  PROVE  [change |-> job, missing |-> {f \in Touched(job) : Absent(f)}] \in Mark
<1>1. {f \in Touched(job) : Absent(f)} \in SUBSET (Book \cup {Global})
  BY DEF Touched, Transition
<1> QED BY <1>1 DEF Mark

LEMMA CheckStep == IInv /\ Check => IInv'
<1> SUFFICES ASSUME IInv, Check PROVE IInv'
  OBVIOUS
<1>1. write = None /\ todo # <<>> /\ Head(todo).do = "check" /\ card' = card
  BY DEF Check, Now
<1>2. todo = Check1 /\ goal = "commit"
  BY <1>1, WhoCalls DEF PlanWords
<1>3. /\ job \in Transition /\ job.book \in StatsFile /\ Toggles(job)
      /\ Pr(Marker) = Missing /\ Tm(Marker) = Missing
      /\ reader # None => reader.book = job.book
  <2>1. job \in Transition /\ Committing
    BY <1>2 DEF IInv, Typed, Tasks
  <2>2. ~Recovering
    <3>1. todo # Recover1
      BY <1>1, Heads
    <3>2. \A b \in Book : ~AtPlan(b)
      BY <1>1, PlanNext DEF SaveNext, PairNext, UnmarkNext, NextIs
    <3> QED BY <3>1, <3>2 DEF Recovering
  <2>3. todo # Marked1
    <3>1. IsList(Marked1, Call("marked", Marker), <<>>)
      BY Lists, CallIs, ConsIsList DEF Marked1, Words
    <3> QED BY <1>1, <3>1 DEF IsList, Call
  <2> QED BY <2>1, <2>2, <2>3, Distinct DEF Committing, Transition
<1>4. ~MarkPending
  BY <1>3 DEF MarkPending, FoundMark, Pr, Tm, IsValue
<1>5. CASE CommitReturns(FALSE) /\ Same
  <2>1. Return("Blocked") /\ write' = None /\ ok' = FALSE /\ adopted' = adopted
    BY <1>1, <1>2, <1>5 DEF Return, Same
  <2> QED BY <1>1, <2>1, StillReturns
<1>6. CASE LET touched == {job.book, Global} IN
           /\ Matches(job)
           /\ StartWrite(Marker, [change |-> job, missing |-> {f \in touched : Absent(f)}], FALSE)
           /\ GoOnWith(<<Call("marked", Marker)>>)
           /\ adopted' = \E f \in touched : Source(f) = "tmp"
           /\ UNCHANGED <<card, goal, job, reader>>
  <2> DEFINE v == [change |-> job, missing |-> {f \in Touched(job) : Absent(f)}]
  <2>1. v \in Value
    BY <1>3, JobMark, Distinct
  <2>2. /\ Matches(job) /\ StartWrite(Marker, v, FALSE)
        /\ todo' = <<Call("marked", Marker)>> \o Tail(todo)
        /\ adopted' = \E f \in Touched(job) : Source(f) = "tmp"
        /\ UNCHANGED <<card, goal, job, reader>>
    BY <1>6 DEF Touched, GoOnWith
  <2> HIDE DEF v
  <2>3. /\ write' \in Write /\ write' # None /\ ok' = FALSE
        /\ write'.file = Marker /\ write'.value = v /\ write'.rotate = FALSE /\ write'.rotated = FALSE
        /\ write'.at = "clearTemp"
    BY <2>1, <2>2, StartTyped
  <2>4. /\ SameStats /\ SameMark /\ MarkerShape'
        /\ Pr(Marker)' = Missing /\ Tm(Marker)' = Missing /\ ~MarkPending'
    BY <1>3, <1>4, <2>2, MarkerFrame DEF SameStats, SameMark, IInv
  <2>5. /\ Sounds' /\ Resting' /\ Pending'
        /\ \A f \in StatsFile :
              /\ Source(f)' = Source(f) /\ Stored(f)' = Stored(f)
              /\ Trusted(f)' = Trusted(f) /\ Absent(f)' = Absent(f)
    BY <1>4, <2>4, Kept DEF IInv
  <2>6. Typed'
    <3>1. adopted' \in BOOLEAN
      BY <2>2
    <3> QED BY <2>2, <2>3, <3>1 DEF IInv, Typed, Filed, Content
  <2>7. Begun'
    <3>1. Touched(job) \subseteq StatsFile
      BY <1>3, Distinct DEF Touched
    <3>2. v = [change |-> job', missing |-> {f \in Touched(job) : Absent(f)}']
      BY <2>2, <2>5, <3>1 DEF v, Touched
    <3>3. Matches(job)' /\ Toggles(job)'
      BY <1>3, <2>2, <2>5, Distinct DEF Matches, Toggles, OldOf
    <3>4. adopted' = (\E f \in Touched(job) : Source(f) = "tmp")'
      BY <2>2, <2>5, <3>1 DEF Touched
    <3> QED BY <1>3, <2>2, <2>3, <2>4, <3>2, <3>3, <3>4 DEF Begun
  <2>8. Written'
    BY <2>3, <2>7 DEF Written
  <2>9. todo' = Marked1
    <3>1. job.book \in StatsFile /\ Call("check", job.book) \in Calls
      BY <1>3, CallIs DEF Words
    <3>2. Tail(todo) = <<>>
      BY <1>2, <3>1, Lists, ConsIsList DEF IsList, Check1
    <3> QED BY <2>2, <3>2 DEF Marked1, Cons
  <2>10. Expecting'
    <3>1. IsList(Marked1, Call("marked", Marker), <<>>)
      BY Lists, CallIs, ConsIsList DEF Marked1, Words
    <3> QED BY <2>3, <2>9, <3>1 DEF Expecting, IsList, Call
  <2>11. Tasks'
    <3>1. Committing'
      BY <1>3, <2>2, <2>4, <2>9 DEF Committing, Toggles, Marked1
    <3> QED BY <1>2, <2>2, <3>1 DEF IInv, Tasks
  <2>12. Ready'
    BY <1>2, <2>2 DEF Ready
  <2> QED BY <2>4, <2>5, <2>6, <2>8, <2>10, <2>11, <2>12 DEF IInv
<1> QED BY <1>5, <1>6 DEF Check

LEMMA MarkedStep == IInv /\ Marked => IInv'
<1> SUFFICES ASSUME IInv, Marked PROVE IInv'
  OBVIOUS
<1>1. write = None /\ todo # <<>> /\ Head(todo).do = "marked" /\ card' = card
      /\ write' = None /\ ok' = FALSE /\ adopted' = adopted
  BY DEF Marked, Now, Same
<1>2. todo = Marked1 /\ goal = "commit"
  BY <1>1, WhoCalls DEF PlanWords
<1>3. CASE CommitReturns(FALSE)
  BY <1>1, <1>2, <1>3, StillReturns DEF Return
<1>4. CASE goal' = "apply" /\ GoOnWith(<<Call("recover", Marker)>>) /\ UNCHANGED <<job, reader>>
  <2>1. IsList(Marked1, Call("marked", Marker), <<>>)
    BY Lists, CallIs, ConsIsList DEF Marked1, Words
  <2>2. todo' = Recover1
    BY <1>2, <1>4, <2>1 DEF GoOnWith, Recover1, Cons, IsList
  <2>3. (reader # None => reader.book = job.book) /\ (MarkPending => FoundMark.change = job)
    <3>1. Committing
      BY <1>2 DEF IInv, Tasks
    <3>2. ~Recovering
      <4>1. todo # Recover1
        BY <1>1, Heads
      <4>2. \A b \in Book : ~AtPlan(b)
        BY <1>1, PlanNext DEF SaveNext, PairNext, UnmarkNext, NextIs
      <4> QED BY <4>1, <4>2 DEF Recovering
    <3>3. todo # Check1
      <4>1. job.book \in StatsFile
        BY <1>2, Distinct DEF IInv, Tasks, Typed, Transition
      <4>2. IsList(Check1, Call("check", job.book), <<>>)
        BY <4>1, Lists, CallIs, ConsIsList DEF Check1, Words
      <4> QED BY <1>1, <4>2 DEF IsList, Call
    <3> QED BY <3>1, <3>2, <3>3 DEF Committing
  <2>4. \A b \in Book : Recover1 # Recovered1(b) /\ Recover1 # UnmarkTmp(b)
    BY Heads
  <2>5. job.book \in Book
    BY <1>2 DEF IInv, Tasks, Typed, Transition
  <2>6. /\ MarkerShape' /\ Sounds' /\ Resting' /\ Pending' /\ Written' /\ Expecting' /\ Typed'
        /\ MarkPending' = MarkPending /\ FoundMark' = FoundMark
    BY <1>1, <1>4, Still DEF IInv, Typed
  <2>7. Applying'
    BY <1>4, <2>2, <2>3, <2>4, <2>5, <2>6 DEF Applying, Recover1
  <2>8. Tasks'
    BY <1>2, <1>4, <2>7 DEF IInv, Tasks
  <2>9. Ready'
    BY <1>4 DEF Ready
  <2> QED BY <2>6, <2>8, <2>9 DEF IInv
<1> QED BY <1>3, <1>4 DEF Marked

-----------------------------------------------------------------------------
(* Between operations. *)
LEMMA Starts ==
  ASSUME IInv, Start
  PROVE  /\ goal = "idle" /\ todo = <<>> /\ job = None /\ write' = None
         /\ MarkerShape' /\ Sounds' /\ Resting' /\ Pending' /\ Written' /\ Expecting'
         /\ MarkPending' = MarkPending /\ (\A f \in StatsFile : Stored(f)' = Stored(f))
         /\ /\ job' = None \/ job' \in Transition
            /\ reader' = None \/ /\ reader' \in Reader
                                 /\ reader'.writable \subseteq {reader'.book, Global}
                                 /\ reader'.dirty \subseteq {reader'.book, Global}
            => Typed'
<1>1. goal = "idle" /\ card' = card /\ write' = write /\ ok' = ok /\ adopted' = adopted
  BY DEF Start
<1>2. todo = <<>> /\ job = None /\ write = None
  BY <1>1 DEF IInv, Tasks
<1>3. ok' \in BOOLEAN /\ adopted' \in BOOLEAN
  BY <1>1 DEF IInv, Typed
<1>4. /\ Filed' /\ MarkerShape' /\ Sounds' /\ Resting' /\ Pending' /\ Written' /\ Expecting'
      /\ MarkPending' = MarkPending /\ (\A f \in StatsFile : Stored(f)' = Stored(f))
  BY <1>1, <1>2, <1>3, Still
<1> QED BY <1>1, <1>2, <1>3, <1>4 DEF Typed

(* The reader. *)
LEMMA ReaderIs ==
  ASSUME Typed, reader # None
  PROVE  /\ reader.book \in Book /\ reader.stats \in BookStats /\ reader.global \in GlobalStats
         /\ reader.writable \subseteq {reader.book, Global} /\ reader.dirty \subseteq {reader.book, Global}
         /\ reader \in Reader /\ reader.book \in StatsFile /\ reader.book # Global
BY Distinct DEF Typed, Reader

(* Home, and the reader that opens and reads. *)
LEMMA EnterHomeStep == IInv /\ EnterHome => IInv'
<1> SUFFICES ASSUME IInv, EnterHome PROVE IInv'
  OBVIOUS
<1>1. Start /\ reader = None /\ goal' = "home" /\ todo' = Recover1 /\ job' = job /\ reader' = reader
  BY OneCall DEF EnterHome, Recover1
<1>2. Typed' /\ Tasks'
  BY <1>1, Starts DEF Tasks, Recovering, Recover1
<1>3. Ready'
  BY <1>1 DEF Ready
<1> QED BY <1>1, <1>2, <1>3, Starts DEF IInv

LEMMA OpenReaderStep == IInv /\ OpenReader => IInv'
<1> SUFFICES ASSUME IInv, OpenReader PROVE IInv'
  OBVIOUS
<1>1. Start /\ goal' = "open" /\ todo' = Recover1 /\ job' = job
  BY OneCall DEF OpenReader, Recover1
<1>2. PICK b \in Book : reader' = [book |-> b, stats |-> Zero(b), global |-> Zero(Global),
                                   writable |-> {}, dirty |-> {}]
  BY DEF OpenReader
<1>3. Zero(b) \in BookStats /\ Zero(Global) \in GlobalStats
  BY Distinct
<1>4. reader' \in Reader /\ reader' # None /\ reader'.writable = {} /\ reader'.dirty = {}
  BY <1>2, <1>3, ContentAssumption DEF Reader
<1>5. Typed' /\ Tasks'
  BY <1>1, <1>4, Starts DEF Tasks, Recovering, Recover1
<1>6. Ready'
  BY <1>4 DEF Ready
<1> QED BY <1>1, <1>5, <1>6, Starts DEF IInv

LEMMA ReadStep == IInv /\ Read => IInv'
<1> SUFFICES ASSUME IInv, Read PROVE IInv'
  OBVIOUS
<1>1. Start /\ reader # None /\ UNCHANGED <<goal, job, todo>> /\ reader.writable # {}
      /\ reader.stats.reading < MaxReading /\ reader.global.reading < MaxReading
  BY DEF Read
<1>2. PICK r : r = reader
  OBVIOUS
<1>3. /\ r.book \in Book /\ r.stats \in BookStats /\ r.global \in GlobalStats
      /\ r.writable \subseteq {r.book, Global} /\ r.dirty \subseteq {r.book, Global}
      /\ r \in Reader /\ MaxReading \in Nat
  BY <1>1, <1>2, ReaderIs, CompletionAssumption DEF IInv
<1>4. PICK s : s = IF r.book \in r.writable THEN r.stats.reading + 1 ELSE r.stats.reading
  OBVIOUS
<1>5. PICK g : g = IF Global \in r.writable THEN r.global.reading + 1 ELSE r.global.reading
  OBVIOUS
<1>6. reader' = [r EXCEPT !.stats = [r.stats EXCEPT !.reading = s],
                          !.global = [r.global EXCEPT !.reading = g],
                          !.dirty = r.dirty \cup r.writable]
  BY <1>2, <1>3, <1>4, <1>5 DEF Read, Reader, BookStats, GlobalStats
<1>7. [r.stats EXCEPT !.reading = s] \in BookStats /\ [r.global EXCEPT !.reading = g] \in GlobalStats
  <2>1. s \in 0..MaxReading
    BY <1>1, <1>2, <1>3, <1>4 DEF BookStats
  <2>2. g \in 0..MaxReading
    BY <1>1, <1>2, <1>3, <1>5 DEF GlobalStats
  <2> QED BY <1>3, <2>1, <2>2 DEF BookStats, GlobalStats
<1>8. /\ reader' \in Reader /\ reader'.book = r.book /\ reader'.writable = r.writable
      /\ reader'.dirty = r.dirty \cup r.writable
      /\ reader'.stats.done = r.stats.done /\ reader'.global.completed = r.global.completed
  <2>1. [r.stats EXCEPT !.reading = s].done = r.stats.done
    BY <1>3 DEF BookStats
  <2>2. [r.global EXCEPT !.reading = g].completed = r.global.completed
    BY <1>3 DEF GlobalStats
  <2>3. \A x \in BookStats, y \in GlobalStats, d \in SUBSET StatsFile :
           reader' = [r EXCEPT !.stats = x, !.global = y, !.dirty = d] =>
             /\ reader' \in Reader /\ reader'.book = r.book /\ reader'.writable = r.writable
             /\ reader'.dirty = d /\ reader'.stats = x /\ reader'.global = y
    BY <1>3 DEF Reader
  <2>4. r.dirty \cup r.writable \in SUBSET StatsFile
    BY <1>3 DEF Reader
  <2> QED BY <1>6, <1>7, <2>1, <2>2, <2>3, <2>4
<1>9. Typed'
  BY <1>1, <1>3, <1>8, Starts
<1>10. Tasks'
  BY <1>1, <1>8, Starts DEF Tasks, IInv
<1>11. Ready'
  <2>1. \A f \in r.writable : Level(f, InMemory(f)') = Level(f, InMemory(f))
    BY <1>2, <1>8 DEF Level, InMemory
  <2>2. ~MarkPending /\ \A f \in r.writable : Level(f, InMemory(f)) = Level(f, Stored(f))
    BY <1>1, <1>2, Starts DEF Ready, IInv
  <2>3. ~MarkPending' /\ \A f \in r.writable : Stored(f)' = Stored(f)
    BY <1>1, <1>2, <1>3, <2>2, Starts DEF Reader
  <2> QED BY <1>8, <2>1, <2>2, <2>3 DEF Ready, Level
<1> QED BY <1>1, <1>9, <1>10, <1>11, Starts DEF IInv

(* The saves of a reader. *)
LEMMA FlushSteps ==
  ASSUME IInv, todo # <<>>, NEW do, Head(todo).do = do, do \in {"flush", "flushed"}
  PROVE  /\ goal \in {"close", "finish"} /\ reader # None /\ todo \in Seq(Calls)
         /\ This \in reader.writable /\ This \in StatsFile
         /\ ~MarkPending /\ \A f \in reader.writable : Level(f, InMemory(f)) = Level(f, Stored(f))
         /\ LET e == End(goal, reader.book) IN
            \/ Tail(todo) = e
            \/ /\ This = reader.book /\ reader.writable = {reader.book, Global}
               /\ Tail(todo) = Cons(Call("flush", Global), e)
<1>1. goal \in {"close", "finish"} /\ reader # None /\ FlushNext /\ todo \in Seq(Calls)
  BY WhoCalls DEF PlanWords
<1>2. /\ This \in reader.writable
      /\ LET e == End(goal, reader.book) IN
         \/ Tail(todo) = e
         \/ /\ This = reader.book /\ reader.writable = {reader.book, Global}
            /\ Tail(todo) = Cons(Call("flush", Global), e)
  BY <1>1 DEF FlushNext, NextIs
<1>3. This \in StatsFile
  BY <1>1, <1>2, ReaderIs, Distinct DEF IInv
<1>4. ~MarkPending /\ \A f \in reader.writable : Level(f, InMemory(f)) = Level(f, Stored(f))
  BY <1>1, <1>2 DEF IInv, Ready
<1> QED BY <1>1, <1>2, <1>3, <1>4

(* Both kinds of call are followed by a call to end with. *)
LEMMA FlushStays ==
  ASSUME IInv, goal \in {"close", "finish"}, reader # None,
         NEW r, reader' = r, r # None, r.book = reader.book, r.writable = reader.writable,
         r.stats = reader.stats, r.global = reader.global,
         goal' = goal, job' = job, Flushing', MarkPending' = MarkPending,
         \A f \in StatsFile : Stored(f)' = Stored(f)
  PROVE  Tasks' /\ Ready'
<1>1. Tasks /\ Ready /\ Typed
  BY DEF IInv
<1>2. Tasks'
  BY <1>1 DEF Tasks
<1>3. Ready'
  <2>1. \A f \in reader.writable : InMemory(f)' = InMemory(f)
    BY DEF InMemory
  <2>2. reader.writable \subseteq StatsFile
    BY <1>1, ReaderIs, Distinct DEF Reader
  <2> QED BY <1>1, <2>1, <2>2 DEF Ready, Level
<1> QED BY <1>2, <1>3

(* An ordinary save starts: without a marker, and with the level that is   *)
(* stored.                                                                 *)
LEMMA FlushBegins ==
  ASSUME IInv, NEW f \in StatsFile, write = None, NoMark, ~MarkPending,
         NEW v \in Content(f), Level(f, v) = Level(f, Stored(f)),
         StartWrite(f, v, IsValue(card[f]["primary"])), adopted' = adopted,
         job' = job, reader' = reader,
         Head(todo').do = "flushed", Head(todo').file = f, todo' # <<>>
  PROVE  /\ Typed' /\ Sounds' /\ MarkerShape' /\ Resting' /\ Pending' /\ Written' /\ Expecting'
         /\ MarkPending' = MarkPending /\ \A g \in StatsFile : Stored(g)' = Stored(g)
<1>1. SameStats /\ SameMark /\ MarkerShape' /\ Filed' /\ ~MarkPending'
  BY Debris DEF IInv, Refused, SameMark
<1>2. v \in Value /\ f # Marker
  BY Distinct
<1>3. /\ write' \in Write /\ write' # None /\ ok' = FALSE
      /\ write'.file = f /\ write'.value = v /\ write'.rotate = IsValue(Pr(f)) /\ write'.rotated = FALSE
      /\ write'.at = "clearTemp"
  BY <1>2, StartTyped DEF Pr, IsValue
<1>4. Sounds' /\ Resting' /\ Pending' /\ (\A g \in StatsFile : Stored(g)' = Stored(g))
  BY <1>1, Kept DEF IInv
<1>5. Typed'
  BY <1>1, <1>3 DEF IInv, Typed
<1>6. Pr(f)' = Pr(f) /\ Bk(f)' = Bk(f)
  BY <1>1, FileFrame DEF SameStats
<1>7. SaveWrites(f)'
  <2>1. Settled(f)
    BY DEF IInv, Resting, Quiet
  <2>2. ~IsValue(Pr(f)) /\ ~IsValue(Bk(f)) => Level(f, Stored(f)) = Level(f, Zero(f))
    <3>1. ~IsValue(Pr(f)) /\ ~IsValue(Bk(f)) => Source(f) = "none" \/ (Source(f) = "tmp" /\ Stored(f) = Tm(f))
      BY DEF Source, Stored, Pr, Bk, Tm
    <3> QED BY <2>1, <3>1 DEF Settled, Stored
  <2>3. Zero(f)' = Zero(f)
    BY DEF Zero
  <2> QED BY <1>3, <1>4, <1>6, <2>2 DEF SaveWrites, Level, IsValue, Zero
<1>8. SlotsAt(f)'
  BY <1>3, <1>6 DEF SlotsAt, Before, After, IsValue
<1>9. Written'
  BY <1>1, <1>2, <1>3, <1>7, <1>8 DEF Written, Writing, Content
<1>10. Expecting'
  BY <1>1, <1>2, <1>3 DEF Expecting
<1> QED BY <1>1, <1>4, <1>5, <1>9, <1>10 DEF SameMark

(* The two calls of a save. *)
LEMMA FlushStep == IInv /\ Flush => IInv'
<1> SUFFICES ASSUME IInv, Flush PROVE IInv'
  OBVIOUS
<1>1. write = None /\ todo # <<>> /\ Head(todo).do = "flush" /\ UNCHANGED <<goal, job, reader, adopted>>
  BY DEF Flush, Now
<1>2. PICK f : f = This
  OBVIOUS
<1>3. PICK e : e = End(goal, reader.book)
  OBVIOUS
<1>4. /\ goal \in {"close", "finish"} /\ reader # None /\ todo \in Seq(Calls)
      /\ f \in reader.writable /\ f \in StatsFile
      /\ ~MarkPending /\ Level(f, InMemory(f)) = Level(f, Stored(f))
      /\ \/ Tail(todo) = e
         \/ /\ f = reader.book /\ reader.writable = {reader.book, Global}
            /\ Tail(todo) = Cons(Call("flush", Global), e)
  BY <1>1, <1>2, <1>3, FlushSteps
<1>5. e = End(goal, reader.book)'
  BY <1>1, <1>3 DEF End
<1>6. CASE BeginSave(f, InMemory(f)) /\ GoOnWith(<<Call("flushed", f)>>)
  <2>1. NoMark /\ StartWrite(f, InMemory(f), IsValue(card[f]["primary"]))
    BY <1>4, <1>6 DEF BeginSave, Permitted, ReadMark
  <2>2. InMemory(f) \in Content(f)
    <3>1. Stored(f) \in Content(f)
      BY <1>4, SlotTypes DEF IInv
    <3>2. reader.stats \in BookStats /\ reader.global \in GlobalStats
      BY <1>4, ReaderIs DEF IInv
    <3> QED BY <1>4, <3>1, <3>2, Distinct DEF InMemory, Level, Content, GlobalStats
  <2>3. PICK v \in Content(f) : v = InMemory(f)
    BY <2>2
  <2>4. todo' = Cons(Call("flushed", f), Tail(todo))
    BY <1>6 DEF GoOnWith, Cons
  <2>5. Head(todo').do = "flushed" /\ Head(todo').file = f /\ todo' # <<>>
    <3>1. Tail(todo) \in Seq(Calls) /\ Call("flushed", f) \in Calls
      BY <1>1, <1>4, TailIsList, CallIs DEF Words
    <3>2. IsList(todo', Call("flushed", f), Tail(todo))
      BY <2>4, <3>1, ConsIsList
    <3> QED BY <3>2 DEF IsList, Call
  <2>6. /\ Typed' /\ Sounds' /\ MarkerShape' /\ Resting' /\ Pending' /\ Written' /\ Expecting'
        /\ MarkPending' = MarkPending /\ \A g \in StatsFile : Stored(g)' = Stored(g)
    BY <1>1, <1>4, <2>1, <2>3, <2>5, FlushBegins
  <2>7. Flushing'
    BY <1>1, <1>4, <1>5, <2>4 DEF Flushing
  <2>8. Tasks' /\ Ready'
    BY <1>1, <1>4, <2>6, <2>7, FlushStays
  <2> QED BY <2>6, <2>8 DEF IInv
<1>7. CASE Refused /\ GoOnWith(<<>>) /\ ok' = FALSE /\ write' = write
  <2>1. SameStats /\ SameMark /\ MarkerShape' /\ Filed' /\ MarkPending' = MarkPending /\ ~Marking'
    BY <1>1, <1>7, Debris DEF IInv, SameMark, Marking
  <2>2. Sounds' /\ Resting' /\ Pending' /\ \A g \in StatsFile : Stored(g)' = Stored(g)
    BY <1>1, <2>1, Kept DEF IInv
  <2>3. Typed' /\ Written' /\ Expecting'
    BY <1>1, <1>7, <2>1 DEF IInv, Typed, Written, Expecting
  <2>4. todo' = Tail(todo)
    BY <1>1, <1>4, <1>7, DropHead, TailIsList DEF GoOnWith
  <2>5. Flushing'
    BY <1>1, <1>4, <1>5, <2>4 DEF Flushing
  <2>6. Tasks' /\ Ready'
    BY <1>1, <1>4, <2>1, <2>2, <2>5, FlushStays
  <2> QED BY <2>1, <2>2, <2>3, <2>6 DEF IInv
<1> QED BY <1>2, <1>6, <1>7 DEF Flush

LEMMA FlushedStep == IInv /\ Flushed => IInv'
<1> SUFFICES ASSUME IInv, Flushed PROVE IInv'
  OBVIOUS
<1>1. write = None /\ todo # <<>> /\ Head(todo).do = "flushed" /\ UNCHANGED <<goal, job, adopted>>
      /\ card' = card /\ ok' = FALSE /\ write' = None
      /\ reader' = IF ok THEN [reader EXCEPT !.dirty = @ \ {This}] ELSE reader
  BY DEF Flushed, Now, Same
<1>2. PICK e : e = End(goal, reader.book)
  OBVIOUS
<1>3. /\ goal \in {"close", "finish"} /\ reader # None /\ todo \in Seq(Calls)
      /\ \/ Tail(todo) = e
         \/ /\ reader.writable = {reader.book, Global}
            /\ Tail(todo) = Cons(Call("flush", Global), e)
  BY <1>1, <1>2, FlushSteps
<1>4. PICK r : r = IF ok THEN [reader EXCEPT !.dirty = reader.dirty \ {This}] ELSE reader
  OBVIOUS
<1>5. /\ reader' = r /\ r \in Reader /\ r # None /\ r.book = reader.book /\ r.writable = reader.writable
      /\ r.stats = reader.stats /\ r.global = reader.global
      /\ r.dirty \subseteq reader.dirty
  <2>1. reader \in Reader
    BY <1>3, ReaderIs DEF IInv
  <2>2. reader' = r
    BY <1>1, <1>4
  <2>3. /\ r \in Reader /\ r.book = reader.book /\ r.writable = reader.writable
        /\ r.stats = reader.stats /\ r.global = reader.global
        /\ r.dirty \subseteq reader.dirty
    BY <1>4, <2>1 DEF Reader
  <2> QED BY <2>2, <2>3, ContentAssumption
<1>6. /\ Filed' /\ Sounds' /\ MarkerShape' /\ Resting' /\ Pending' /\ Written' /\ Expecting'
      /\ MarkPending' = MarkPending /\ \A f \in StatsFile : Stored(f)' = Stored(f)
  <2>1. ok' \in BOOLEAN /\ adopted' \in BOOLEAN
    BY <1>1 DEF IInv, Typed
  <2> QED BY <1>1, <2>1, Still
<1>7. Typed'
  <2>1. write' = None /\ (job' = None \/ job' \in Transition) /\ ok' \in BOOLEAN /\ adopted' \in BOOLEAN
    BY <1>1 DEF IInv, Typed
  <2>2. reader' \in Reader /\ reader'.writable \subseteq {reader'.book, Global}
        /\ reader'.dirty \subseteq {reader'.book, Global}
    BY <1>3, <1>5, ReaderIs DEF IInv
  <2> QED BY <1>6, <2>1, <2>2 DEF Typed
<1>8. Flushing'
  <2>1. todo' = Tail(todo)
    BY <1>1, <1>3, DropHead, TailIsList DEF GoOnWith, Flushed
  <2>2. e = End(goal, reader.book)'
    BY <1>1, <1>2, <1>5 DEF End
  <2> QED BY <1>3, <1>5, <2>1, <2>2 DEF Flushing
<1>9. Tasks' /\ Ready'
  BY <1>1, <1>3, <1>5, <1>6, <1>8, FlushStays
<1> QED BY <1>6, <1>7, <1>9 DEF IInv

(* What saveReadingStats() is to do. *)
LEMMA FlushesAre ==
  ASSUME Typed, reader # None, NEW c \in Calls
  PROVE  LET b == reader.book  e == Cons(c, <<>>) IN
         \/ Flushes \o <<c>> = e
         \/ \E f \in reader.writable : Flushes \o <<c>> = Cons(Call("flush", f), e)
         \/ /\ reader.writable = {b, Global}
            /\ Flushes \o <<c>> = Cons(Call("flush", b), Cons(Call("flush", Global), e))
<1> DEFINE b == reader.book
           Dirty(f) == IF f \in reader.dirty \cap reader.writable THEN <<Call("flush", f)>> ELSE <<>>
<1>1. b \in StatsFile /\ Global \in StatsFile /\ reader.writable \subseteq {b, Global} /\ b # Global
  BY ReaderIs, Distinct
<1>2. Call("flush", b) \in Calls /\ Call("flush", Global) \in Calls
  BY <1>1, CallIs DEF Words
<1>3. Flushes = Dirty(b) \o Dirty(Global)
  BY DEF Flushes
<1>4. \A s \in Seq(Calls) : <<>> \o s = s
  OBVIOUS
<1>5. /\ <<>> \in Seq(Calls) /\ <<c>> \in Seq(Calls) /\ <<Call("flush", b)>> \in Seq(Calls)
      /\ <<Call("flush", Global)>> \in Seq(Calls)
  BY <1>2
<1>6. <<c>> = Cons(c, <<>>)
  BY OneCall
<1>7. Dirty(b) = <<>> \/ (Dirty(b) = <<Call("flush", b)>> /\ b \in reader.writable)
  OBVIOUS
<1>8. Dirty(Global) = <<>> \/ (Dirty(Global) = <<Call("flush", Global)>> /\ Global \in reader.writable)
  OBVIOUS
<1> HIDE DEF Dirty, b
<1>9. Flushes \o <<c>> = Dirty(b) \o (Dirty(Global) \o <<c>>)
  BY <1>3, <1>5, <1>7, <1>8, ConcatAssociative
<1>10. Dirty(Global) \o <<c>> \in Seq(Calls)
  BY <1>5, <1>8, ConcatProperties
<1>11. /\ Dirty(Global) = <<>> => Dirty(Global) \o <<c>> = Cons(c, <<>>)
       /\ Dirty(Global) = <<Call("flush", Global)>> =>
            Dirty(Global) \o <<c>> = Cons(Call("flush", Global), Cons(c, <<>>))
  BY <1>4, <1>5, <1>6 DEF Cons
<1>12. /\ Dirty(b) = <<>> => Flushes \o <<c>> = Dirty(Global) \o <<c>>
       /\ Dirty(b) = <<Call("flush", b)>> => Flushes \o <<c>> = Cons(Call("flush", b), Dirty(Global) \o <<c>>)
  BY <1>4, <1>9, <1>10 DEF Cons
<1>13. b \in reader.writable /\ Global \in reader.writable => reader.writable = {b, Global}
  BY <1>1
<1> QED BY <1>7, <1>8, <1>11, <1>12, <1>13 DEF b

(* The reader closes, or the book is finished. *)
LEMMA FlushingBegins ==
  ASSUME IInv, Start, reader # None, reader' = reader, job' = job, goal' \in {"close", "finish"},
         NEW c \in Calls, todo' = Flushes \o <<c>>, Cons(c, <<>>) = End(goal', reader.book),
         goal' = "finish" => ~reader.stats.done /\ reader.writable = {reader.book, Global}
  PROVE  IInv'
<1>1. Typed'
  BY Starts, ReaderIs DEF IInv
<1>2. Flushing'
  BY FlushesAre DEF IInv, Flushing, End
<1>3. Tasks'
  BY <1>2, Starts DEF Tasks
<1>4. Ready'
  <2>1. goal = "idle" /\ Ready /\ reader.writable \subseteq StatsFile
    BY Starts, ReaderIs DEF IInv, Reader
  <2>2. \A f \in reader.writable : InMemory(f)' = InMemory(f)
    BY DEF InMemory
  <2> QED BY <2>1, <2>2, Starts DEF Ready, Level
<1> QED BY <1>1, <1>3, <1>4, Starts DEF IInv

LEMMA CloseReaderStep == IInv /\ CloseReader => IInv'
<1> SUFFICES ASSUME IInv, CloseReader PROVE IInv'
  OBVIOUS
<1>1. Start /\ reader # None /\ reader' = reader /\ job' = job /\ goal' = "close"
      /\ todo' = Flushes \o <<Call("leave", reader.book)>>
  BY DEF CloseReader
<1>2. Call("leave", reader.book) \in Calls
  BY <1>1, ReaderIs, CallIs DEF IInv, Words
<1>3. Cons(Call("leave", reader.book), <<>>) = End(goal', reader.book)
  BY <1>1 DEF End
<1> QED BY <1>1, <1>2, <1>3, FlushingBegins

LEMMA FinishBookStep == IInv /\ FinishBook => IInv'
<1> SUFFICES ASSUME IInv, FinishBook PROVE IInv'
  OBVIOUS
<1>1. Start /\ reader # None /\ reader' = reader /\ job' = job /\ goal' = "finish"
      /\ todo' = Flushes \o <<Call("complete", reader.book)>>
      /\ ~reader.stats.done /\ reader.writable = {reader.book, Global}
  BY DEF FinishBook
<1>2. Call("complete", reader.book) \in Calls
  BY <1>1, ReaderIs, CallIs DEF IInv, Words
<1>3. Cons(Call("complete", reader.book), <<>>) = End(goal', reader.book)
  BY <1>1 DEF End
<1> QED BY <1>1, <1>2, <1>3, FlushingBegins

LEMMA LeaveStep == IInv /\ Leave => IInv'
<1> SUFFICES ASSUME IInv, Leave PROVE IInv'
  OBVIOUS
<1>1. /\ write = None /\ write' = None /\ ok' = FALSE /\ adopted' = adopted /\ card' = card
      /\ Idle /\ reader' = None
  BY DEF Leave, Now, Same
<1>2. /\ Filed' /\ Sounds' /\ MarkerShape' /\ Resting' /\ Pending' /\ Written' /\ Expecting'
  <2>1. ok' \in BOOLEAN /\ adopted' \in BOOLEAN
    BY <1>1 DEF IInv, Typed
  <2> QED BY <1>1, <2>1, Still
<1>3. Typed' /\ Tasks' /\ Ready'
  BY <1>1, <1>2 DEF IInv, Typed, Tasks, Ready, Idle
<1> QED BY <1>2, <1>3 DEF IInv

(* A commit() starts from what is stored, or a copy that says the same. *)
LEMMA ChangeIs ==
  ASSUME Typed, NEW b \in Book, NEW old \in BookStats, NEW oldGlobal \in Content(Global),
         NEW done \in BOOLEAN, done = ~old.done, NEW c, c = Change(b, old, oldGlobal, done)
  PROVE  c \in Transition /\ Toggles(c) /\ c.book = b
<1>1. N \in Nat
  BY CompletionAssumption, FS_CardinalityType DEF N
<1>2. oldGlobal \in [completed : 0..N, reading : 0..MaxReading]
  BY DEF Content
<1>3. PICK count : count = IF done THEN oldGlobal.completed + 1
                           ELSE IF oldGlobal.completed > 0 THEN oldGlobal.completed - 1 ELSE 0
  OBVIOUS
<1>4. count \in 0..(N + 1)
  BY <1>1, <1>2, <1>3
<1>5. c = [book |-> b, oldBook |-> old, newBook |-> [old EXCEPT !.done = done],
           oldGlobal |-> oldGlobal, newGlobal |-> [oldGlobal EXCEPT !.completed = count]]
  BY <1>2, <1>3 DEF Change
<1>6. [oldGlobal EXCEPT !.completed = count] \in GlobalStats /\ oldGlobal \in GlobalStats
      /\ [oldGlobal EXCEPT !.completed = count].completed = count
  BY <1>1, <1>2, <1>4 DEF GlobalStats, N
<1>7. [old EXCEPT !.done = done] \in BookStats /\ [old EXCEPT !.done = done].done = done
  BY DEF BookStats
<1>8. c \in Transition
  BY <1>5, <1>6, <1>7 DEF Transition
<1>9. /\ c.newBook.done = done /\ c.oldBook = old /\ c.newGlobal.completed = count
      /\ c.oldGlobal = oldGlobal /\ c.book = b
  <2>1. /\ c.newBook = [old EXCEPT !.done = done] /\ c.oldBook = old /\ c.book = b
        /\ c.newGlobal = [oldGlobal EXCEPT !.completed = count] /\ c.oldGlobal = oldGlobal
    BY <1>5
  <2> QED BY <1>6, <1>7, <2>1
<1>10. Toggles(c)
  BY <1>3, <1>9 DEF Toggles
<1> QED BY <1>8, <1>9, <1>10

(* A commit() begins. *)
LEMMA CommitTasks ==
  ASSUME IInv, NEW c \in Transition, Toggles(c), BeginCommit(c), reader' = reader,
         reader # None => reader.book = c.book
  PROVE  Tasks' /\ Ready' /\ job' = c
<1>1. job' = c /\ goal' = "commit" /\ todo' = Recover1 /\ Recover1' = Recover1
  BY OneCall DEF BeginCommit, Recover1
<1>2. Committing'
  BY <1>1 DEF Committing, Recovering, Toggles
<1>3. c # None
  BY ContentAssumption
<1> QED BY <1>1, <1>2, <1>3 DEF Tasks, Ready

(* By the reader, and by the list of recent books. *)
LEMMA CompleteStep == IInv /\ Complete => IInv'
<1> SUFFICES ASSUME IInv, Complete PROVE IInv'
  OBVIOUS
<1>1. /\ write = None /\ write' = None /\ ok' = FALSE /\ adopted' = adopted /\ card' = card
      /\ reader' = reader /\ todo # <<>> /\ Head(todo).do = "complete"
  BY DEF Complete, Now, Same
<1>2. goal = "finish" /\ reader # None /\ todo \in Seq(Calls)
  <2>1. goal \in {"close", "finish"} /\ reader # None /\ FlushNext /\ todo \in Seq(Calls)
    BY <1>1, WhoCalls DEF PlanWords
  <2> QED BY <1>1, <2>1 DEF FlushNext, NextIs
<1>3. /\ Filed' /\ Sounds' /\ MarkerShape' /\ Resting' /\ Pending' /\ Written' /\ Expecting'
      /\ MarkPending' = MarkPending /\ (\A f \in StatsFile : Stored(f)' = Stored(f))
      /\ ok' \in BOOLEAN /\ adopted' \in BOOLEAN
  <2>1. ok' \in BOOLEAN /\ adopted' \in BOOLEAN
    BY <1>1 DEF IInv, Typed
  <2> QED BY <1>1, <2>1, Still
<1>4. /\ ~reader.stats.done /\ reader.writable = {reader.book, Global} /\ ~MarkPending
      /\ \A f \in reader.writable : Level(f, InMemory(f)) = Level(f, Stored(f))
      /\ reader.book \in Book /\ reader.stats \in BookStats /\ reader.global \in GlobalStats
      /\ reader.writable \subseteq StatsFile
  BY <1>2, ReaderIs, Distinct DEF IInv, Tasks, Ready, Reader
<1>5. CASE Idle
  <2>1. Typed' /\ Tasks'
    BY <1>1, <1>3, <1>5 DEF IInv, Typed, Tasks, Idle
  <2>2. \A f \in reader.writable : InMemory(f)' = InMemory(f)
    BY <1>1 DEF InMemory
  <2>3. Ready'
    BY <1>1, <1>3, <1>4, <2>2 DEF Ready, Level
  <2> QED BY <1>3, <2>1, <2>3 DEF IInv
<1>6. CASE BeginCommit(Change(reader.book, reader.stats, reader.global, TRUE))
  <2>1. PICK b \in Book, old \in BookStats, oldGlobal \in GlobalStats :
           b = reader.book /\ old = reader.stats /\ oldGlobal = reader.global
    BY <1>4
  <2>2. oldGlobal \in Content(Global)
    <3>1. Stored(Global) \in Content(Global) /\ Global \in StatsFile
      BY Distinct, SlotTypes DEF IInv
    <3>2. oldGlobal.completed = Stored(Global).completed
      BY <1>4, <2>1 DEF Level, InMemory
    <3> QED BY <3>1, <3>2 DEF Content, GlobalStats
  <2>3. PICK c : c = Change(b, old, oldGlobal, TRUE)
    OBVIOUS
  <2>4. c \in Transition /\ Toggles(c) /\ c.book = b
    <3>1. TRUE = ~old.done
      BY <1>4, <2>1
    <3> QED BY <2>2, <2>3, <3>1, ChangeIs DEF IInv
  <2>5. Tasks' /\ Ready' /\ job' = c
    BY <1>1, <1>6, <2>1, <2>3, <2>4, CommitTasks
  <2>6. Typed'
    BY <1>1, <1>3, <2>4, <2>5 DEF IInv, Typed
  <2> QED BY <1>3, <2>5, <2>6 DEF IInv
<1> QED BY <1>5, <1>6 DEF Complete

LEMMA SetBookCompletionStep == IInv /\ SetBookCompletion => IInv'
<1> SUFFICES ASSUME IInv, SetBookCompletion PROVE IInv'
  OBVIOUS
<1>1. Start /\ reader = None /\ reader' = reader
  BY DEF SetBookCompletion
<1>2. PICK b \in Book : BeginCommit(Change(b, Stored(b), Stored(Global), ~Stored(b).done))
  BY DEF SetBookCompletion
<1>3. PICK old \in BookStats, oldGlobal \in Content(Global) : old = Stored(b) /\ oldGlobal = Stored(Global)
  BY SlotTypes, Distinct DEF IInv
<1>4. PICK done \in BOOLEAN : done = ~old.done
  OBVIOUS
<1>5. PICK c : c = Change(b, old, oldGlobal, done)
  OBVIOUS
<1>6. c \in Transition /\ Toggles(c) /\ c.book = b
  BY <1>4, <1>5, ChangeIs DEF IInv
<1>7. Tasks' /\ Ready' /\ job' = c
  BY <1>1, <1>2, <1>3, <1>4, <1>5, <1>6, CommitTasks
<1>8. Typed'
  BY <1>1, <1>6, <1>7, Starts
<1> QED BY <1>1, <1>7, <1>8, Starts DEF IInv

-----------------------------------------------------------------------------
(* The environment. *)
LEMMA PowerLossStep == IInv /\ PowerLoss => IInv'
<1> SUFFICES ASSUME IInv, PowerLoss PROVE IInv'
  OBVIOUS
<1>1. write' = None /\ ok' = FALSE /\ Idle /\ reader' = None /\ card' = card /\ adopted' = adopted
  BY DEF PowerLoss
<1>2. SameStats /\ SameMark /\ MarkerShape' /\ ~Marking'
  BY <1>1, MarkerFrame DEF SameStats, SameMark, Marking, IInv
<1>3. Sounds' /\ Resting' /\ Pending'
  BY <1>1, <1>2, Kept DEF IInv
<1>4. Typed'
  BY <1>1 DEF IInv, Typed, Filed, Idle, Content
<1>5. Written' /\ Tasks' /\ Expecting' /\ Ready'
  BY <1>1 DEF Written, Tasks, Expecting, Ready, Idle
<1> QED BY <1>2, <1>3, <1>4, <1>5 DEF IInv

(* A primary goes bad: its backup has the same level. *)
LEMMA RotStep == IInv /\ Rot => IInv'
<1> SUFFICES ASSUME IInv, Rot PROVE IInv'
  OBVIOUS
<1>1. goal = "idle" /\ reader = None /\ ~MarkPending /\ UNCHANGED <<write, ok, todo, goal, job, reader, adopted>>
  BY DEF Rot
<1>2. write = None /\ Typed /\ Sounds /\ Quiet
  BY <1>1 DEF IInv, Tasks, Resting
<1>3. PICK f \in StatsFile :
        /\ IsValue(card[f]["primary"]) /\ IsValue(card[f]["bak"])
        /\ card' = [card EXCEPT ![f]["primary"] = Invalid]
  BY DEF Rot
<1>4. IsValue(Pr(f)) /\ IsValue(Bk(f)) /\ f # Marker /\ f \in StatsFile \cup {Marker}
  BY <1>3, Distinct DEF Pr, Bk
<1> DEFINE files == [card[f] EXCEPT !["primary"] = Invalid]
<1>5. OnSlots(card[f])
  BY <1>2, <1>4, PutSlots
<1>6. /\ OnSlots(files) /\ files["primary"] = Invalid /\ files["bak"] = Bk(f) /\ files["tmp"] = Tm(f)
  BY <1>5 DEF OnSlots, Slot, Bk, Tm
<1>7. card' = [card EXCEPT ![f] = files]
  BY <1>3
<1> HIDE DEF files
<1>8. Becomes(f, Invalid, Bk(f), Tm(f)) /\ Others(f)
  BY <1>2, <1>4, <1>6, <1>7, PutSlots
<1>9. \A g \in StatsFile \cup {Marker} : g # f => card'[g] = card[g]
  BY <1>8 DEF Others
<1>10. MarkerShape' /\ ~MarkPending'
  <2>1. card'[Marker] = card[Marker]
    BY <1>4, <1>9
  <2> QED BY <1>1, <2>1, MarkerFrame DEF IInv, MarkPending, IsValue
<1>11. Filed'
  <2>1. \A s \in Slot : card'[f][s] \in {Missing, Invalid} \cup Content(f)
    <3>1. Bk(f) \in {Missing, Invalid} \cup Content(f) /\ Tm(f) \in {Missing, Invalid} \cup Content(f)
      BY <1>2, SlotTypes
    <3> QED BY <1>8, <3>1 DEF Becomes, Pr, Bk, Tm, Slot
  <2>2. \A g \in StatsFile \cup {Marker} : card'[g] \in [Slot -> {Missing, Invalid} \cup Value]
    <3>1. card'[f] \in [Slot -> {Missing, Invalid} \cup Value]
      BY <1>8, <2>1, Distinct DEF Others, OnSlots
    <3> QED BY <1>2, <1>9, <3>1 DEF Typed, Filed
  <2>3. card' \in [StatsFile \cup {Marker} -> [Slot -> {Missing, Invalid} \cup Value]]
    BY <1>8, <2>2 DEF Others
  <2> QED BY <1>2, <1>4, <1>9, <2>1, <2>3, Distinct DEF Typed, Filed, Content
<1>12. Stored(f)' = Bk(f) /\ Source(f)' = "bak"
  BY <1>4, <1>8, Distinct DEF Becomes, Stored, Source, IsValue, Pr, Bk, Tm
<1>13. Sound(f)' /\ Settled(f)' /\ Level(f, Stored(f)') = Level(f, Stored(f))
  <2>1. Sound(f)'
    BY <1>4, <1>8 DEF Becomes, Sound, IsValue
  <2>2. Level(f, Bk(f)) = Level(f, Stored(f))
    BY <1>2, <1>4 DEF Quiet, Settled
  <2>3. Settled(f)'
    BY <1>8, <1>12 DEF Becomes, Settled, Level, IsValue
  <2> QED BY <1>12, <2>1, <2>2, <2>3 DEF Level
<1>14. \A g \in StatsFile : g # f =>
         Sound(g)' = Sound(g) /\ Settled(g)' = Settled(g) /\ Stored(g)' = Stored(g)
  BY <1>9, FileFrame
<1>15. Sounds'
  BY <1>2, <1>13, <1>14 DEF Sounds
<1>16. Quiet'
  <2>1. \A g \in StatsFile : Settled(g) => Settled(g)' /\ Level(g, Stored(g)') = Level(g, Stored(g))
    BY <1>13, <1>14
  <2> QED BY <1>2, <2>1, QuietFrame
<1>17. Resting' /\ Pending'
  BY <1>10, <1>16 DEF Resting, Pending
<1>18. Typed'
  BY <1>1, <1>2, <1>11 DEF Typed
<1>19. Written' /\ Expecting' /\ Ready'
  BY <1>1, <1>2 DEF Written, Expecting, Ready
<1>20. Tasks'
  BY <1>1, <1>2 DEF Tasks, IInv
<1> QED BY <1>10, <1>15, <1>17, <1>18, <1>19, <1>20 DEF IInv

(* The list of calls, taken apart and put together again. *)
LEMMA ConsOf ==
  ASSUME NEW s \in Seq(Calls), s # <<>>
  PROVE  s = Cons(Call(Head(s).do, Head(s).file), Tail(s))
<1>1. Head(s) \in Calls /\ Tail(s) \in Seq(Calls)
  OBVIOUS
<1>2. Head(s) = Call(Head(s).do, Head(s).file)
  BY <1>1 DEF Call, Calls
<1>3. PICK c \in Calls, r \in Seq(Calls) : c = Head(s) /\ r = Tail(s)
  BY <1>1
<1>4. s = Cons(c, r)
  <2>1. Len(s) \in Nat /\ Len(s) > 0 /\ Len(r) = Len(s) - 1 /\ s[1] = c
        /\ \A i \in 1..Len(r) : r[i] = s[i + 1]
    BY <1>3
  <2>2. <<c>> \in Seq(Calls) /\ Len(<<c>>) = 1 /\ <<c>>[1] = c
    OBVIOUS
  <2>3. Cons(c, r) \in Seq(Calls) /\ Len(Cons(c, r)) = 1 + Len(r)
    BY <2>2, ConcatProperties DEF Cons
  <2>4. \A i \in 1..Len(s) : Cons(c, r)[i] = s[i]
    <3> SUFFICES ASSUME NEW i \in 1..Len(s) PROVE Cons(c, r)[i] = s[i]
      OBVIOUS
    <3>1. CASE i = 1
      BY <2>1, <2>2, <3>1, ConcatProperties DEF Cons
    <3>2. CASE i > 1
      <4>1. i - 1 \in 1..Len(r)
        BY <2>1, <3>2
      <4>2. r[i - 1] = s[(i - 1) + 1] /\ (i - 1) + 1 = i
        BY <2>1, <4>1, <3>2
      <4>3. Cons(c, r)[i] = r[i - 1]
        BY <2>1, <2>2, <3>2, ConcatProperties DEF Cons
      <4> QED BY <4>2, <4>3
    <3> QED BY <2>1, <3>1, <3>2
  <2> QED BY <2>1, <2>3, <2>4, SeqEqual
<1> QED BY <1>2, <1>3, <1>4

(* What a step of writeAtomic() leaves alone. *)
LEMMA WriteEnds ==
  ASSUME IInv, WriteStep
  PROVE  /\ write # None /\ todo # <<>> /\ UNCHANGED <<todo, goal, job, reader, adopted>>
         /\ write.file \in StatsFile \cup {Marker}
         /\ write' # None => write'.file = write.file
<1>1. PICK f : f = write.file
  OBVIOUS
<1>2. /\ write # None /\ f \in StatsFile \cup {Marker} /\ Move(f)
      /\ UNCHANGED <<todo, goal, job, reader, adopted>>
  BY <1>1, WriteMoves DEF IInv
<1>3. write' # None => write'.file = f
  BY <1>1, <1>2 DEF Move, On, Goes, Ends
<1>4. todo # <<>>
  BY <1>2 DEF IInv, Expecting
<1> QED BY <1>1, <1>2, <1>3, <1>4

(* A step of writeAtomic(), for the whole of the invariant. *)
LEMMA StatsWriteStep ==
  ASSUME IInv, WriteStep, NEW f \in StatsFile, write.file = f
  PROVE  IInv'
<1>1. /\ Typed' /\ Sounds' /\ MarkerShape' /\ Resting' /\ Pending' /\ Written'
      /\ card'[Marker] = card[Marker]
      /\ \A g \in StatsFile : g # f => card'[g] = card[g]
      /\ ~MarkPending => \A g \in StatsFile : Level(g, Stored(g)') = Level(g, Stored(g))
  BY StatsStep DEF IInv
<1>2. /\ write # None /\ todo # <<>> /\ UNCHANGED <<todo, goal, job, reader, adopted>>
      /\ write' # None => write'.file = write.file
  BY WriteEnds
<1>3. /\ FoundMark' = FoundMark /\ MarkPending' = MarkPending
      /\ Pr(Marker)' = Pr(Marker) /\ Tm(Marker)' = Tm(Marker)
  BY <1>1, MarkerFrame
<1>4. Expecting'
  BY <1>2, <1>3 DEF IInv, Expecting
<1>5. f # Marker /\ This = f /\ Head(todo).do = IF MarkPending THEN "saved" ELSE "flushed"
  BY <1>2, Distinct DEF IInv, Expecting, This
<1>6. CASE MarkPending
  <2>1. Head(todo).do = "saved" /\ todo \in Seq(Calls)
    BY <1>2, <1>5, <1>6, WhoCalls
  <2>2. PICK b \in Book : AtPlan(b) /\ (goal = "apply" => b = job.book) /\ goal \in RecoverGoals
    BY <1>2, <2>1, WhoCalls
  <2>3. SaveNext(b, "saved")
    BY <2>1, <2>2, PlanNext DEF SaveNext, PairNext, UnmarkNext, NextIs
  <2>4. todo = Cons(Call("saved", f), Tail(todo))
    BY <1>2, <1>5, <2>1, ConsOf DEF This
  <2>5. f = Global => HoldsTwice(b)' = HoldsTwice(b)
    <3>1. b \in StatsFile /\ b # Global
      BY Distinct
    <3> QED BY <1>1, <1>3, <3>1 DEF HoldsTwice, Holds, NewOf
  <2>6. b # Global
    BY Distinct
  <2>7. AtPlan(b)'
    BY <1>2, <1>3, <1>5, <1>6, <2>3, <2>4, <2>5, <2>6 DEF AtPlan, SaveNext, NextIs, MarkOf
  <2>8. Tasks'
    <3>1. Recovering' /\ Tasks
      BY <2>7 DEF Recovering, IInv
    <3>2. goal = "commit" => Committing'
      BY <1>2, <3>1 DEF Tasks, Committing, Toggles
    <3>3. goal = "apply" => Applying'
      BY <1>2, <1>3, <1>6, <2>2, <2>7, <3>1 DEF Tasks, Applying
    <3>4. goal # "idle"
      BY <1>2, <3>1 DEF Tasks
    <3> QED BY <1>2, <2>2, <3>1, <3>2, <3>3, <3>4 DEF Tasks, RecoverGoals
  <2>9. Ready'
    BY <1>2, <2>2 DEF IInv, Tasks, Ready, RecoverGoals
  <2> QED BY <1>1, <1>4, <2>8, <2>9 DEF IInv
<1>7. CASE ~MarkPending
  <2>1. Head(todo).do = "flushed"
    BY <1>5, <1>7
  <2>2. goal \in {"close", "finish"} /\ reader # None
    BY <1>2, <2>1, FlushSteps
  <2>3. Flushing'
    <3>1. Flushing
      BY <2>2 DEF IInv, Tasks
    <3> QED BY <1>2, <3>1 DEF Flushing, End
  <2>4. Tasks'
    BY <1>2, <2>2, <2>3 DEF IInv, Tasks
  <2>5. Ready'
    <3>1. \A g \in StatsFile : InMemory(g)' = InMemory(g)
      BY <1>2 DEF InMemory
    <3>2. reader.writable \subseteq StatsFile
      BY <2>2, ReaderIs DEF IInv, Reader
    <3> QED BY <1>1, <1>2, <1>3, <1>7, <2>2, <3>1, <3>2 DEF IInv, Ready, Level
  <2> QED BY <1>1, <1>4, <2>4, <2>5 DEF IInv
<1> QED BY <1>6, <1>7

LEMMA MarkerWriteStep ==
  ASSUME IInv, WriteStep, write.file = Marker
  PROVE  IInv'
<1>1. /\ Typed' /\ Sounds' /\ MarkerShape' /\ Resting' /\ Pending' /\ Written'
      /\ MarkPending' => FoundMark'.change = job
  BY MarkerStep DEF IInv
<1>2. /\ write # None /\ todo # <<>> /\ UNCHANGED <<todo, goal, job, reader, adopted>>
      /\ write' # None => write'.file = write.file
  BY WriteEnds
<1>3. Head(todo).do = "marked" /\ This = Marker
  BY <1>2 DEF IInv, Expecting, This
<1>4. todo = Marked1 /\ goal = "commit"
  BY <1>2, <1>3, WhoCalls DEF PlanWords
<1>5. Expecting'
  BY <1>2, <1>3 DEF Expecting, This
<1>6. Committing'
  BY <1>1, <1>2, <1>4 DEF IInv, Tasks, Committing, Toggles, Marked1
<1>7. Tasks' /\ Ready'
  BY <1>2, <1>4, <1>6 DEF IInv, Tasks, Ready
<1> QED BY <1>1, <1>5, <1>7 DEF IInv

LEMMA WriteStepStep == IInv /\ WriteStep => IInv'
<1> SUFFICES ASSUME IInv, WriteStep PROVE IInv'
  OBVIOUS
<1>1. PICK f \in StatsFile \cup {Marker} : f = write.file
  BY WriteEnds
<1> QED BY <1>1, StatsWriteStep, MarkerWriteStep

(* Nothing happens. *)
LEMMA StutterStep == IInv /\ UNCHANGED vars => IInv'
<1> SUFFICES ASSUME IInv, UNCHANGED vars PROVE IInv'
  OBVIOUS
<1>1. UNCHANGED <<card, write, ok, todo, goal, job, reader, adopted>>
  BY DEF vars
<1>2. SameStats /\ MarkerShape' /\ MarkPending' = MarkPending /\ FoundMark' = FoundMark
      /\ Pr(Marker)' = Pr(Marker) /\ Tm(Marker)' = Tm(Marker) /\ Marking' = Marking
  BY <1>1, MarkerFrame DEF SameStats, IInv, Marking
<1>3. \A f \in StatsFile :
         /\ Pr(f)' = Pr(f) /\ Bk(f)' = Bk(f) /\ Tm(f)' = Tm(f) /\ Source(f)' = Source(f)
         /\ Stored(f)' = Stored(f) /\ Sound(f)' = Sound(f) /\ Settled(f)' = Settled(f)
         /\ Anchored(f)' = Anchored(f) /\ Trusted(f)' = Trusted(f) /\ Absent(f)' = Absent(f)
  BY <1>1, FileFrame
<1>4. Typed' /\ Sounds' /\ Expecting'
  BY <1>1, <1>2, <1>3 DEF IInv, Typed, Filed, Content, Sounds, Expecting
<1>5. Resting' /\ Pending' /\ \A f \in StatsFile : MarkPending => HoldsTwice(f)' = HoldsTwice(f)
  BY <1>1, <1>2, Kept DEF IInv, SameMark
<1>6. Written'
  <2>1. ASSUME write # None, write.file = Marker PROVE Begun'
    <3>1. Begun
      BY <2>1 DEF IInv, Written
    <3>2. Touched(job) \subseteq StatsFile
      BY <3>1, Distinct DEF Begun, Touched, Transition
    <3>3. {f \in Touched(job) : Absent(f)}' = {f \in Touched(job) : Absent(f)}
      BY <1>1, <1>3, <3>2 DEF Touched
    <3>4. Matches(job)' /\ Toggles(job)'
      BY <1>1, <1>3, <3>1, <3>2 DEF Begun, Matches, Toggles, OldOf, Touched
    <3>5. adopted' = (\E f \in Touched(job) : Source(f) = "tmp")'
      BY <1>1, <1>3, <3>1, <3>2 DEF Begun, Touched
    <3> QED BY <1>1, <1>2, <3>1, <3>3, <3>4, <3>5 DEF Begun
  <2>2. ASSUME write # None, NEW f \in StatsFile, write.file = f PROVE Writing(f)'
    <3>1. Writing(f)
      BY <2>2, Distinct DEF IInv, Written
    <3>2. /\ Pr(f)' = Pr(f) /\ Bk(f)' = Bk(f) /\ Tm(f)' = Tm(f) /\ Stored(f)' = Stored(f)
      BY <1>3, <2>2
    <3>3. SlotsAt(f)'
      BY <1>1, <3>1, <3>2 DEF Writing, SlotsAt, IsValue
    <3>4. ~MarkPending => SaveWrites(f)'
      BY <1>1, <3>1, <3>2 DEF Writing, SaveWrites, IsValue, Level, Zero
    <3>5. PICK m : m = FoundMark
      OBVIOUS
    <3>6. MarkPending => RecoverWrites(m, f)'
      BY <1>1, <3>1, <3>2, <3>5 DEF Writing, RecoverWrites, IsValue, Accepted, Touched, NewOf, OldOf
    <3>7. FoundMark' = m
      BY <1>2, <3>5
    <3> QED BY <1>1, <1>2, <3>1, <3>3, <3>4, <3>6, <3>7 DEF Writing, Content
  <2>3. write # None => write.file \in StatsFile \cup {Marker}
    BY DEF IInv, Typed, Write
  <2> QED BY <1>1, <2>1, <2>2, <2>3, Distinct DEF Written
<1>7. Tasks'
  <2>1. ASSUME NEW b \in Book, AtPlan(b) PROVE AtPlan(b)'
    <3>1. b \in StatsFile /\ Global \in StatsFile
      BY Distinct
    <3> QED BY <1>1, <1>2, <1>5, <2>1, <3>1 DEF AtPlan
  <2>2. Recovering => Recovering'
    BY <1>1, <2>1 DEF Recovering
  <2>3. goal = "commit" => Committing'
    BY <1>1, <1>2, <2>2 DEF IInv, Tasks, Committing, Toggles, Check1
  <2>4. goal = "apply" => Applying'
    <3>1. goal = "apply" => job.book \in Book /\ job.book \in StatsFile /\ Global \in StatsFile
      BY Distinct DEF IInv, Tasks, Typed, Transition
    <3> QED BY <1>1, <1>2, <1>3, <2>1, <3>1 DEF IInv, Tasks, Applying
  <2>5. Flushing => Flushing'
    BY <1>1 DEF Flushing, End
  <2> QED BY <1>1, <2>2, <2>3, <2>4, <2>5 DEF IInv, Tasks
<1>8. Ready'
  BY <1>1 DEF IInv, Ready, Stored, Source, IsValue, MarkPending, FoundMark, Level, Zero, InMemory
<1> QED BY <1>2, <1>4, <1>5, <1>6, <1>7, <1>8 DEF IInv

-----------------------------------------------------------------------------
(* A card without any file. *)
LEMMA InitIInv == Init => IInv
<1> SUFFICES ASSUME Init PROVE IInv
  OBVIOUS
<1>1. /\ card = [f \in StatsFile \cup {Marker} |-> [s \in Slot |-> Missing]]
      /\ write = None /\ ok = FALSE /\ todo = <<>> /\ goal = "idle" /\ job = None /\ reader = None
      /\ adopted = FALSE
  BY DEF Init
<1>2. \A f \in StatsFile \cup {Marker} : Pr(f) = Missing /\ Bk(f) = Missing /\ Tm(f) = Missing
  BY <1>1 DEF Pr, Bk, Tm, Slot
<1>3. \A f \in StatsFile : Stored(f) = Zero(f) /\ Source(f) = "none"
  BY <1>2 DEF Stored, Source, IsValue, Pr, Bk, Tm
<1>4. Sounds /\ MarkerShape /\ ~MarkPending
  BY <1>2, Distinct DEF Sounds, Sound, MarkerShape, MarkPending, FoundMark, IsValue, Pr, Tm
<1>5. Typed
  BY <1>1 DEF Typed, Filed
<1>6. Quiet
  <2>1. \A f \in StatsFile : Settled(f)
    BY <1>2, <1>3 DEF Settled, IsValue
  <2>2. Finished = {}
    BY <1>3, Distinct DEF Finished, Zero
  <2>3. Stored(Global).completed = 0
    BY <1>3, Distinct DEF Zero
  <2> QED BY <2>1, <2>2, <2>3, FS_EmptySet DEF Quiet
<1>7. Resting /\ Pending
  BY <1>4, <1>6 DEF Resting, Pending
<1>8. Written /\ Tasks /\ Expecting /\ Ready
  BY <1>1 DEF Written, Tasks, Expecting, Ready
<1> QED BY <1>4, <1>5, <1>7, <1>8 DEF IInv

(* One step for each action. *)
LEMMA NextIInv == IInv /\ [Next]_vars => IInv'
<1> SUFFICES ASSUME IInv, [Next]_vars PROVE IInv'
  OBVIOUS
<1>1. CASE WriteStep
  BY <1>1, WriteStepStep
<1>2. CASE Save \/ Saved \/ Pair \/ Paired
  BY <1>2, SaveStep, SavedStep, PairStep, PairedStep
<1>3. CASE Recover \/ Verify \/ Unmark \/ Recovered \/ Check \/ Marked
  BY <1>3, RecoverStep, VerifyStep, UnmarkStep, RecoveredStep, CheckStep, MarkedStep
<1>4. CASE EnterHome \/ OpenReader \/ Read \/ Flush \/ Flushed \/ CloseReader \/ Leave
  BY <1>4, EnterHomeStep, OpenReaderStep, ReadStep, FlushStep, FlushedStep, CloseReaderStep, LeaveStep
<1>5. CASE FinishBook \/ Complete \/ SetBookCompletion
  BY <1>5, FinishBookStep, CompleteStep, SetBookCompletionStep
<1>6. CASE PowerLoss \/ Rot
  BY <1>6, PowerLossStep, RotStep
<1>7. CASE UNCHANGED vars
  BY <1>7, StutterStep
<1> QED BY <1>1, <1>2, <1>3, <1>4, <1>5, <1>6, <1>7 DEF Next

(* The inductive invariant holds in every reachable state. *)
THEOREM Invariant == Spec => []IInv
BY InitIInv, NextIInv, PTL DEF Spec

(* Every file holds what its kind of file may hold, and the count of       *)
(* finished books never exceeds the number of books, whatever fails.       *)
THEOREM TypeCorrect == Spec => []TypeOK
<1>1. IInv => TypeOK
  <2> SUFFICES ASSUME IInv PROVE TypeOK
    OBVIOUS
  <2>1. \A f \in StatsFile : Content(f) \subseteq IF f = Global THEN GlobalStats ELSE BookStats
    BY Distinct DEF Content
  <2> QED BY <2>1 DEF IInv, Typed, Filed, TypeOK
<1> QED BY <1>1, Invariant, PTL

(* commit() and recover() count each finished book once: without a marker  *)
(* the global count is the number of books that say they are finished.     *)
THEOREM CompletionCountedOnce == Spec => []CountedOnce
<1>1. IInv => CountedOnce
  <2> SUFFICES ASSUME IInv, ~MarkPending PROVE CountedOnce
    BY DEF CountedOnce
  <2>1. Quiet
    BY DEF IInv, Resting
  <2> QED BY <2>1 DEF Quiet, Finished, CountedOnce
<1> QED BY <1>1, Invariant, PTL

(* load() finds a copy, or nothing was ever written. *)
LEMMA SoundIsTrusted ==
  ASSUME NEW f, Sound(f)
  PROVE  Trusted(f)
BY DEF Sound, Trusted, Source, IsValue, Pr, Bk

(* As long as readMarker() finds a marker, recover() accepts what both     *)
(* files hold: unless it is of statistics found only in a temp.            *)
THEOREM MarkIsRecoverable == Spec => []PendingIsRecoverable
<1>1. IInv => PendingIsRecoverable
  <2> SUFFICES ASSUME IInv, MarkPending, ~adopted PROVE Recoverable(FoundMark)
    BY DEF PendingIsRecoverable
  <2>1. PICK m : m = FoundMark
    OBVIOUS
  <2>2. PendingMark(m) /\ Touched(m.change) \subseteq StatsFile
    BY <2>1, NewContent DEF IInv, Pending
  <2>3. ASSUME NEW f \in Touched(m.change) PROVE IsNew(m, f) \/ IsOld(m, f)
    <3>1. Sound(f) /\ Trusted(f) /\ Midway(m, f) /\ f \in StatsFile
      BY <2>2, <2>3, SoundIsTrusted DEF IInv, Sounds, PendingMark
    <3>2. CASE Anchored(f)
      <4>1. ~Absent(f) /\ Stored(f) \in Accepted(m, f)
        BY <3>1, <3>2 DEF Anchored, Absent, Source, Midway, Pr, Bk
      <4> QED BY <3>1, <4>1 DEF IsNew, IsOld, Accepted
    <3>3. CASE ~Anchored(f)
      <4>1. f \in m.missing /\ Tm(f) \in {Missing, Invalid, NewOf(m.change, f)}
        BY <3>1, <3>3 DEF Midway
      <4>2. OldOf(m.change, f) = Zero(f)
        BY <2>2, <4>1 DEF PendingMark
      <4>3. CASE IsValue(Tm(f))
        BY <3>1, <3>3, <4>1, <4>3 DEF IsNew, Absent, Stored, Source, Anchored, IsValue, Pr, Bk, Tm
      <4>4. CASE ~IsValue(Tm(f))
        <5>1. Source(f) = "none"
          BY <3>3, <4>4 DEF Source, Anchored, Pr, Bk, Tm
        <5> QED BY <3>1, <4>1, <4>2, <5>1 DEF IsOld, Absent, Stored
      <4> QED BY <4>3, <4>4
    <3> QED BY <3>2, <3>3
  <2> QED BY <2>1, <2>3 DEF Recoverable, Touched
<1> QED BY <1>1, Invariant, PTL

(* load() always finds a copy of every file of statistics, or nothing was  *)
(* ever written: the two properties above are never void because a file    *)
(* cannot be trusted.                                                      *)
AlwaysTrusted == \A f \in StatsFile : Trusted(f)

THEOREM StatisticsAreReadable == Spec => []AlwaysTrusted
<1>1. IInv => AlwaysTrusted
  BY SoundIsTrusted DEF IInv, Sounds, AlwaysTrusted
<1> QED BY <1>1, Invariant, PTL

(* A step that leaves the marker alone if there is one. *)
LEMMA MarkStays ==
  ASSUME IInv, MarkPending, ~Marking, Next, ~Unmark
  PROVE  MarkPending'
<1>1. card'[Marker] = card[Marker] => MarkPending'
  BY MarkerFrame DEF MarkPending, IsValue
<1>2. CASE WriteStep
  <2>1. write # None /\ write.file \in StatsFile \cup {Marker}
    BY <1>2, WriteEnds
  <2>2. PICK f \in StatsFile : f = write.file
    BY <2>1 DEF Marking
  <2>3. card'[Marker] = card[Marker]
    BY <1>2, <2>2, StatsStep DEF IInv
  <2> QED BY <1>1, <2>3
<1>3. CASE Save \/ Recover \/ Flush
  <2>1. Refused
    BY <1>3 DEF Save, Recover, Flush, BeginSave, Permitted, Refused
  <2>2. card' = card
    BY <2>1, Debris DEF IInv
  <2> QED BY <1>1, <2>2
<1>4. CASE \/ Saved \/ Pair \/ Paired \/ Verify \/ Recovered \/ Check \/ Marked
           \/ Flushed \/ Leave \/ Complete \/ PowerLoss
  <2>1. card' = card
    BY <1>4 DEF Saved, Pair, Paired, Verify, Recovered, Check, Marked, Flushed, Leave, Complete, PowerLoss
  <2> QED BY <1>1, <2>1
<1>5. CASE EnterHome \/ OpenReader \/ Read \/ CloseReader \/ FinishBook \/ SetBookCompletion
  <2>1. card' = card
    BY <1>5 DEF EnterHome, OpenReader, Read, CloseReader, FinishBook, SetBookCompletion, Start
  <2> QED BY <1>1, <2>1
<1>6. ~Rot
  BY DEF Rot
<1> QED BY <1>2, <1>3, <1>4, <1>5, <1>6 DEF Next

(* A transaction is never given up once its marker has been written: no    *)
(* step makes the marker disappear before both files hold its new          *)
(* contents, except the writeAtomic() of the marker itself, which fails.   *)
RollsForward ==
  \A m \in Mark : MarkPending /\ FoundMark = m /\ ~Marking /\ ~MarkPending' =>
    Stored(m.change.book)' = m.change.newBook /\ Stored(Global)' = m.change.newGlobal

THEOREM RolledForward == Spec => [][RollsForward]_vars
<1>1. IInv /\ [Next]_vars => [RollsForward]_vars
  <2> SUFFICES ASSUME IInv, Next, NEW m \in Mark, MarkPending, FoundMark = m, ~Marking, ~MarkPending'
               PROVE  Stored(m.change.book)' = m.change.newBook /\ Stored(Global)' = m.change.newGlobal
    BY DEF RollsForward
  <2>1. Unmark
    BY MarkStays
  <2>2. /\ write = None /\ todo # <<>> /\ Head(todo).do = "unmark" /\ write' = None /\ adopted' = adopted
        /\ \/ card' = card
           \/ card' = [card EXCEPT ![Marker] = [card[Marker] EXCEPT ![This] = Missing]]
    <3>1. [card EXCEPT ![Marker] = card[Marker]] = card
      BY DEF IInv, Typed, Filed
    <3> QED BY <2>1, <3>1 DEF Unmark, Now, Same, AfterFailedRemove, Removed
  <2>3. PICK b \in Book : UnmarkNext(b)
    <3>1. PICK b \in Book : AtPlan(b)
      BY <2>2, WhoCalls DEF PlanWords
    <3> QED BY <2>2, <3>1, PlanNext DEF SaveNext, PairNext, UnmarkNext, NextIs
  <2>4. SameStats /\ Stored(b) = FoundMark.change.newBook /\ Stored(Global) = FoundMark.change.newGlobal
    BY <2>2, <2>3, Unmarks
  <2>5. b = m.change.book
    BY <2>3 DEF UnmarkNext, MarkOf
  <2>6. Stored(b)' = Stored(b) /\ Stored(Global)' = Stored(Global)
    <3>1. card'[b] = card[b] /\ card'[Global] = card[Global]
      BY <2>4, Distinct DEF SameStats
    <3> QED BY <3>1, FileFrame
  <2> QED BY <2>4, <2>5, <2>6
<1> QED BY <1>1, Invariant, PTL DEF Spec
=============================================================================
