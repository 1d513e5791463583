------------------------ MODULE BookReplacementProofs ------------------------
(***************************************************************************)
(* Theorems about BookReplacement, for any number of books.                *)
(*                                                                         *)
(* Every call may be the last before power is lost, and what is on the     *)
(* card is then all that the next recovery knows.  The inductive invariant *)
(* IInv therefore has two halves.  Sound speaks of the card alone: whose   *)
(* the state is as far as identity and marker say so (Shape, Marked), and  *)
(* which book recovery would make of it (Whole).  It holds after each call *)
(* and each torn write, so a power loss needs no case of its own.          *)
(* Standing says, for each label, which list of calls is left and what the *)
(* calls done so far have established, which is what makes the next call   *)
(* keep Sound.                                                             *)
(*                                                                         *)
(* The proof goes by lists: a lemma for each list of calls says what its   *)
(* first call does to the card, and that the rest of the list fits what is *)
(* there then; a lemma for each handler says that the list it starts fits. *)
(***************************************************************************)
EXTENDS BookReplacement, SequenceTheorems, TLAPS

-----------------------------------------------------------------------------
(* What holds of the card whatever the program does, so that power may be  *)
(* lost at any time.  The operators take the card as an argument, as they  *)
(* are about the one before and the one after a call.                      *)

OwnedBy(h, d, x) == "published" \in h \/ \A p \in State : d[p] \in Books => d[p] = x
Unowned(d) == \A p \in State : d[p] \notin Books
Unidentified(d) == d["idn"] = Missing /\ d["idnBak"] = Missing /\ d["idnTmp"] = Missing

(* The types, file by file. *)
Typed(d) ==
  /\ d = [p \in Path |-> d[p]]
  /\ d["book"] \in Books \cup {Missing} /\ d["old"] \in Books \cup {Missing}
  /\ d["staging"] \in Books \cup {Missing, Torn}
  /\ d["pending"] \in {Missing, Torn, Had, New}
  /\ d["idn"] \in Books \cup {Missing, Barrier}
  /\ d["idnBak"] \in Books \cup {Missing}
  /\ d["idnTmp"] \in Books \cup {Missing, Barrier, Torn}
  /\ d["cache"] \in Books \cup {Missing, Directory}
  /\ d["clips"] \in Books \cup {Missing}
  /\ d["marks"] \in Books \cup {Missing, Tombstone}

(* Whose state it is, as far as the identity says so: a book behind a      *)
(* barrier, a book by name, or one whose identity is between two names.    *)
(* The old book is that book as long as it is there.                       *)
Behind(h, d) ==
  d["idn"] = Barrier =>
    /\ d["idnTmp"] \in {Missing, Torn, d["idnBak"]}
    /\ d["idnBak"] # Missing => OwnedBy(h, d, d["idnBak"])
    /\ d["old"] # Missing => d["idnBak"] = d["old"]

Named(h, d) ==
  d["idn"] \in Books =>
    /\ d["idnBak"] \in {Missing, d["idn"]} /\ d["idnTmp"] \in {Missing, Torn, Barrier}
    /\ OwnedBy(h, d, d["idn"])
    /\ d["old"] # Missing => d["idn"] = d["old"]

Between(h, d) ==
  d["idn"] = Missing /\ d["idnBak"] # Missing =>
    /\ d["idnTmp"] \in {Missing, Torn, Barrier, d["idnBak"]}
    /\ OwnedBy(h, d, d["idnBak"])
    /\ d["old"] # Missing => d["idnBak"] = d["old"]

(* Without an identity the state of an EPUB is that of the book; only the  *)
(* first identity of all is ever written.                                  *)
Nameless(e, h, d) ==
  d["idn"] = Missing /\ d["idnBak"] = Missing =>
    /\ d["idnTmp"] \in {Missing, Torn, Barrier, d["book"]}
    /\ d["idnTmp"] # Missing => d["old"] = Missing
    /\ d["idnTmp"] = Barrier => d["book"] = Missing
    /\ e /\ d["book"] # Missing => OwnedBy(h, d, d["book"])
    /\ e /\ d["old"] # Missing => Unowned(d)

Shape(e, h, d) ==
  /\ ~e => Unidentified(d)
  /\ d["cache"] = Missing => Unidentified(d)
  /\ Behind(h, d) /\ Named(h, d) /\ Between(h, d) /\ Nameless(e, h, d)

(* Other books: the marker says when the state is not that of the book.    *)
Stale(d) ==
  \/ d["pending"] = Had /\ d["old"] # Missing
  \/ d["pending"] = New /\ d["old"] = Missing

Marked(e, h, d) ==
  ~e =>
    /\ d["book"] # Missing /\ ~Stale(d) => OwnedBy(h, d, d["book"])
    /\ d["book"] = Missing /\ d["old"] # Missing => OwnedBy(h, d, d["old"])
    /\ d["pending"] = Had => d["book"] # Missing \/ d["old"] # Missing

(* Survivor, of any card. *)
Heir(d) == IF d["book"] # Missing THEN d["book"] ELSE d["old"]

(* An old book is never without its proof of ownership, unless the code    *)
(* was told that it had not been put there.                                *)
Whole(h, d, books) ==
  /\ d["old"] # Missing => d["old"] \in books /\ (d["pending"] = Had \/ "rotated" \in h)
  /\ Heir(d) \in books

Sound(e, h, d, books) == Typed(d) /\ Shape(e, h, d) /\ Marked(e, h, d) /\ Whole(h, d, books)

-----------------------------------------------------------------------------
(* The lists of calls, each from the call that is next to the end.         *)
Cons(c, r) == <<c>> \o r

RemoveCall(p, undo) == Call("remove", p, Missing, undo)
RenameCall(p, q, undo) == Call("rename", p, q, undo)
WriteCall(p, v, undo) == Call("write", p, v, undo)
MakeCall == Call("mkdir", "cache", Directory, <<>>)
UndoTmp == Cons(RemoveCall("idnTmp", <<>>), <<>>)
UndoBak == Cons(RenameCall("idnBak", "idn", <<>>), <<>>)

(* save() where there is no identity, *)
New5(r) == Cons(RenameCall("idnTmp", "idn", <<>>), r)
New4(r) == Cons(RemoveCall("idn", UndoTmp), New5(r))
New3(v, r) == Cons(WriteCall("idnTmp", v, UndoTmp), New4(r))
New2(v, r) == Cons(RemoveCall("idnTmp", UndoTmp), New3(v, r))
New1(v, r) == Cons(MakeCall, New2(v, r))

(* save() of a barrier over an identity, *)
Over6(r) == Cons(RenameCall("idnTmp", "idn", UndoBak), r)
Over5(r) == Cons(RenameCall("idn", "idnBak", UndoTmp), Over6(r))
Over4(r) == Cons(RemoveCall("idnBak", UndoTmp), Over5(r))
Over3(r) == Cons(WriteCall("idnTmp", Barrier, UndoTmp), Over4(r))
Over2(r) == Cons(RemoveCall("idnTmp", UndoTmp), Over3(r))
Over1(r) == Cons(MakeCall, Over2(r))

(* cancelReplacement() with a book behind the barrier, and without.        *)
Back4(r) == Cons(RenameCall("idnTmp", "idn", <<>>), r)
Back3(r) == Cons(RemoveCall("idn", <<>>), Back4(r))
Back2(x, r) == Cons(WriteCall("idnTmp", x, <<>>), Back3(r))
Back1(x, r) == Cons(RemoveCall("idnTmp", <<>>), Back2(x, r))
Erase2(r) == Cons(RemoveCall("idn", <<>>), r)
Erase1(r) == Cons(RemoveCall("idnTmp", <<>>), Erase2(r))

(* The state is put away. *)
Away1 == Cons(Call("quarantine", "cache", Missing, <<>>), <<>>)
Away2 == Cons(Call("replace", "marks", Tombstone, <<>>), Away1)
Away3 == Cons(RemoveCall("marks", <<>>), Away2)
Aways == {Away1, Away2, Away3}
Away(r) == Cons(RemoveCall("clips", <<>>), r)

Unmark1 == Cons(RemoveCall("pending", <<>>), <<>>)
Drop2 == Cons(RemoveCall("old", <<>>), Unmark1)
Return1 == Cons(RenameCall("old", "book", <<>>), <<>>)
ReturnUnmark == Cons(RenameCall("old", "book", <<>>), Unmark1)
Return2 == Cons(RemoveCall("book", <<>>), Return1)
Rotate1 == Cons(RenameCall("book", "old", <<>>), <<>>)
Publish1 == Cons(RenameCall("staging", "book", <<>>), <<>>)
Withdraw1(r) == Cons(RenameCall("book", "staging", <<>>), r)
Discard1 == Cons(RemoveCall("staging", <<>>), <<>>)
Mark1(v) == Cons(WriteCall("pending", v, <<>>), <<>>)

-----------------------------------------------------------------------------
(* How far the calls have come. *)
Late == "published" \in slipped
Bk == disk["book"]
Old == disk["old"]
Stg == disk["staging"]
Pnd == disk["pending"]
Idn == disk["idn"]
Bak == disk["idnBak"]
Tmp == disk["idnTmp"]
Cch == disk["cache"]

(* An old book has its marker. *)
Secured == Old # Missing => Pnd = Had

(* The rename of the book was reported as failed, and was not. *)
Stranded == Bk = Missing /\ Old # Missing /\ "rotated" \in slipped

(* An identity is written: of the book that has one already, or the first. *)
SavingNew(v, r) ==
  /\ epub /\ Idn = Missing /\ v \in Books \cup {Barrier}
  /\ Bak = v \/ (Bak = Missing /\ Old = Missing /\ (IF v = Barrier THEN Bk = Missing ELSE Bk = v))
  /\ \/ todo = New1(v, r)
     \/ /\ Cch # Missing
        /\ \/ todo = New2(v, r)
           \/ todo = New3(v, r) /\ Tmp = Missing
           \/ todo \in {New4(r), New5(r)} /\ Tmp = v

SavingOver(r) ==
  /\ epub
  /\ \/ /\ Idn \in Books
        /\ \/ todo \in {Over1(r), Over2(r)}
           \/ todo = Over3(r) /\ Tmp = Missing
           \/ todo = Over4(r) /\ Tmp = Barrier
           \/ todo = Over5(r) /\ Tmp = Barrier /\ Bak = Missing
     \/ todo = Over6(r) /\ Idn = Missing /\ Bak # Missing /\ Tmp = Barrier

Cancelling(r) ==
  /\ epub
  /\ \/ /\ Idn = Barrier /\ Bak # Missing
        /\ \/ todo = Back1(Bak, r)
           \/ todo = Back2(Bak, r) /\ Tmp = Missing
           \/ todo = Back3(r) /\ Tmp = Bak
     \/ todo = Back4(r) /\ Idn = Missing /\ Bak # Missing /\ Tmp = Bak
     \/ /\ Idn = Barrier /\ Bak = Missing /\ (Bk = Missing \/ Late) /\ Old = Missing
        /\ todo = Erase1(r) \/ (todo = Erase2(r) /\ Tmp = Missing)

(* The bookmarks are hidden by then, if the list does not do it. *)
Hides(r) == r = Away1 => disk["marks"] \notin Books

PuttingAway ==
  \/ /\ epub => Idn = Barrier
     /\ \/ todo \in Aways /\ Hides(todo) /\ disk["clips"] = Missing
        \/ \E r \in Aways : Hides(r) /\ todo \in {Away(r), Cons(MakeCall, Away(r))}
  \/ \E r \in Aways :
       /\ epub /\ Hides(r)
       /\ \/ Idn \in Books /\ todo = Cons(MakeCall, Over1(Away(r)))
          \/ Idn = Missing /\ Bak # Missing /\ todo = Cons(MakeCall, New1(Bak, Over1(Away(r))))
          \/ SavingOver(Away(r))
          \/ Bak # Missing /\ SavingNew(Bak, Over1(Away(r)))

-----------------------------------------------------------------------------
(* What is known at each label. *)

(* Behind a barrier, if there is state to protect, is the book.            *)
Blocked == epub /\ HasState => Idn = Barrier
Barriered == Blocked /\ (epub /\ HasState /\ Bk # Missing => Bak = Bk)

(* There is an identity, and it is not that of the book. *)
Mismatch == Loaded \notin {Missing, Bk}

(* All names that there are. *)
Ours == Bk # Missing => {Idn, Bak} \cap Books \subseteq {Bk}

(* An undisturbed recovery has taken the barrier away. *)
Opened == clean /\ epub /\ Bk # Missing => Idn # Barrier

Own == Bk # Missing /\ ~epub => OwnedBy(slipped, disk, Bk)
Foreign == clean /\ task \in {"open", "bind"} => Bk \notin {Idn, Bak}
FirstBook == Old = Missing => Missing \in candidates
NewMarked == Old = Missing /\ ~epub /\ HasState => Pnd = New

AtRecovered ==
  /\ task \in {"open", "publish"}
  /\ ok =>
    \/ todo = <<>> /\ Old = Missing /\ Own /\ Opened /\ (clean \/ ~epub => Pnd = Missing)
    \/ todo = Unmark1 /\ Old = Missing /\ Own /\ Opened
    \/ todo = ReturnUnmark /\ ~epub /\ Bk = Missing /\ Old # Missing
    \/ todo = Drop2 /\ Bk # Missing /\ Own /\ Opened
    \/ /\ Bk # Missing /\ Old = Missing
       /\ (Bak = Bk /\ Cancelling(Unmark1)) \/ SavingNew(Bk, Unmark1)

AtRestored ==
  /\ task \in {"open", "publish"} /\ epub
  /\ ok =>
    \/ todo = Return2 /\ Old # Missing
    \/ todo = Return1 /\ Old # Missing /\ Bk = Missing
    \/ todo = <<>> /\ Old = Missing /\ Bk # Missing /\ Ours /\ (Idn = Barrier => Bak = Bk)

AtReset ==
  /\ todo = <<>> /\ ok /\ Bk # Missing /\ Foreign
  /\ \/ task \in {"open", "publish"} /\ IF epub THEN Mismatch ELSE Stale(disk)
     \/ task = "finish" /\ Blocked
     \/ task = "bind" /\ epub /\ Old = Missing /\ Mismatch

AtFinalize ==
  /\ task \in {"open", "publish", "finish"} /\ Bk # Missing
  /\ ok =>
    \/ todo = <<>> /\ Own /\ Opened
    \/ task # "finish" /\ ((Bak = Bk /\ Cancelling(<<>>)) \/ SavingNew(Bk, <<>>))
    \/ PuttingAway /\ Foreign

AtAdopt ==
  /\ task = "bind" /\ epub /\ Bk # Missing /\ Old = Missing
  /\ ok =>
    \/ todo = <<>> /\ Unidentified(disk)
    \/ PuttingAway /\ Foreign

AtBarrier ==
  /\ task = "publish" /\ Old = Missing /\ Pnd = Missing /\ Stg = staged /\ Ours
  /\ ok =>
    \/ todo = <<>> /\ Barriered
    \/ SavingOver(<<>>)
    \/ \E v \in Books : SavingNew(v, Over1(<<>>))
    \/ SavingNew(Barrier, <<>>)
    \/ SavingNew(Barrier, UndoTmp)
    \/ todo = UndoTmp /\ epub /\ Idn = Barrier /\ Bk = Missing

AtMarked ==
  /\ task = "publish" /\ Old = Missing /\ Stg = staged /\ Barriered /\ Own
  /\ \/ Pnd = Missing /\ ok /\ Bk # Missing /\ todo = Mark1(Had)
     \/ Pnd = Missing /\ ok /\ Bk = Missing /\ ~epub /\ todo = Mark1(New)
     \/ todo = <<>> /\ (ok => (IF Bk # Missing THEN Pnd = Had ELSE NewMarked))

AtRotated ==
  /\ task = "publish" /\ Stg = staged /\ Barriered
  /\ \/ todo = Rotate1 /\ ok /\ Bk # Missing /\ Pnd = Had /\ Old = Missing
     \/ todo = <<>> /\ ~ok /\ Pnd = Had /\ (IF Bk # Missing THEN Old = Missing ELSE Stranded)
     \/ todo = <<>> /\ ok /\ Bk = Missing /\ FirstBook /\ NewMarked

AtPublished ==
  /\ task = "publish" /\ FirstBook /\ NewMarked /\ Blocked
  /\ \/ todo = Publish1 /\ ok /\ Bk = Missing /\ Stg = staged
     \/ todo = <<>> /\ ~ok /\ (Bk # Missing /\ Old = Missing => Late)
     \/ todo = <<>> /\ ok /\ Bk = staged /\ Stg = Missing

AtUnrotated ==
  /\ task = "publish" /\ Blocked
  /\ \/ todo = Return1 /\ ok /\ Old # Missing
     \/ todo = <<>> /\ (ok => Old = Missing /\ Own /\ (Barriered \/ Late))

AtWithdrawn ==
  /\ task = "publish" /\ epub /\ Blocked
  /\ \/ todo = Withdraw1(Return1) /\ ok /\ Bk # Missing /\ Stg = Missing /\ Old # Missing
     \/ todo = Withdraw1(<<>>) /\ ok /\ Bk # Missing /\ Stg = Missing /\ Old = Missing /\ Missing \in candidates
     \/ todo = Return1 /\ ok /\ Bk = Missing /\ Old # Missing
     \/ todo = <<>> /\ (ok => Old = Missing /\ Barriered)

AtCancelled ==
  /\ task = "publish" /\ (Old = Missing \/ Stranded) /\ Own
  /\ ok => \/ todo = <<>>
           \/ Cancelling(<<>>)
           \/ pc = "failed" /\ todo = Unmark1

AtDone ==
  /\ task = "finish" /\ Bk # Missing /\ Own
  /\ ok => todo = Drop2 \/ (todo \in {Unmark1, <<>>} /\ Old = Missing)

AtUnchanged ==
  /\ task = "publish" /\ Bk = staged /\ Old = Missing
  /\ todo = <<>> \/ (ok /\ todo = Discard1)

AtBind ==
  /\ task = "bind" /\ todo = <<>> /\ ok
  /\ epub /\ Bk # Missing /\ Old = Missing /\ Opened

AtBound ==
  /\ task = "bind" /\ Bk # Missing /\ Old = Missing
  /\ ok => \/ todo = <<>> /\ OwnedBy(slipped, disk, Bk) /\ (epub => Loaded = Bk)
           \/ SavingNew(Bk, <<>>)

AtReading ==
  /\ todo = <<>> /\ ok
  /\ Bk # Missing /\ Old = Missing /\ OwnedBy(slipped, disk, Bk) /\ (epub => Loaded = Bk)

Resting == todo = <<>> /\ ok

(* After a failure the list is what is tried to undo it. *)
Undoing ==
  \/ todo \in {<<>>, UndoTmp}
  \/ todo = UndoBak /\ epub /\ (Idn = Missing => Bak # Missing /\ Tmp = Barrier)

(* The book that is published, before and after; and once recovery has     *)
(* begun its work, an old book has its marker.                             *)
Kept ==
  /\ pc \notin {"idle", "recover", "cancelled", "failed"} => Secured
  /\ task = "publish" /\ pc # "idle" => staged \in candidates
  /\ task = "publish" /\ pc \in {"recover", "recovered", "restored", "reset", "finalize"} =>
       Stg \in {staged, Torn}
  /\ task = "finish" /\ pc # "idle" => Bk = staged

Standing ==
  /\ pc = "idle" => Resting
  /\ pc = "recover" => Resting /\ task \in {"open", "publish"}
  /\ pc = "recovered" => AtRecovered
  /\ pc = "restored" => AtRestored
  /\ pc = "reset" => AtReset
  /\ pc = "finalize" => AtFinalize
  /\ pc = "adopt" => AtAdopt
  /\ pc = "barrier" => AtBarrier
  /\ pc = "marked" => AtMarked
  /\ pc = "rotated" => AtRotated
  /\ pc = "published" => AtPublished
  /\ pc = "unrotated" => AtUnrotated
  /\ pc = "withdrawn" => AtWithdrawn
  /\ pc \in {"cancelled", "unmarked", "failed"} => AtCancelled
  /\ pc = "done" => AtDone
  /\ pc = "unchanged" => AtUnchanged
  /\ pc = "bind" => AtBind
  /\ pc = "bound" => AtBound
  /\ pc = "reading" => AtReading

Control ==
  /\ epub \in BOOLEAN /\ ok \in BOOLEAN /\ clean \in BOOLEAN
  /\ task \in {"open", "publish", "finish", "bind"}
  /\ pc \in Label /\ result \in Status
  /\ slipped \subseteq {"rotated", "published"}
  /\ staged \in Books /\ candidates \subseteq Books \cup {Missing}
  /\ ~ok => Undoing
  /\ clean => ok /\ pc \notin {"unmarked", "unrotated", "withdrawn", "cancelled", "failed"}

IInv ==
  /\ Sound(epub, slipped, disk, candidates)
  /\ Control /\ Kept /\ Standing
  /\ RefusalHasCause

-----------------------------------------------------------------------------
(* The constants that are told apart. *)
LEMMA Distinct ==
  /\ Missing \notin Books /\ Torn \notin Books /\ Barrier \notin Books /\ Had \notin Books
  /\ New \notin Books /\ Directory \notin Books /\ Tombstone \notin Books
  /\ Missing # Torn
  /\ \A v \in {Barrier, Had, New, Directory, Tombstone} : v # Missing /\ v # Torn
  /\ Barrier = "barrier" /\ Had = "had" /\ New = "new" /\ Directory = "directory" /\ Tombstone = "tombstone"
BY BookAssumption DEF Barrier, Had, New, Directory, Tombstone

(* Sequences of calls, by head and tail.                                   *)
Arg == Books \cup {Missing, Torn, Barrier, Had, New, Directory, Tombstone} \cup Path
Undos == {<<>>, UndoTmp, UndoBak}
Calls == [op : {"remove", "rename", "write", "replace", "mkdir", "quarantine"},
          path : Path, arg : Arg, undo : Undos]
IsList(l, c, r) == l \in Seq(Calls) /\ l # <<>> /\ Head(l) = c /\ Tail(l) = r

(* A list built from a call and a rest has that head and that tail. *)
LEMMA ConsIsList ==
  ASSUME NEW c \in Calls, NEW r \in Seq(Calls)
  PROVE  IsList(Cons(c, r), c, r)
<1>1. /\ Cons(c, r) \in Seq(Calls) /\ Len(Cons(c, r)) = Len(r) + 1
      /\ \A i \in 1..Len(Cons(c, r)) : Cons(c, r)[i] = IF i = 1 THEN c ELSE r[i - 1]
  BY DEF Cons
<1>2. Cons(c, r) # <<>> /\ Head(Cons(c, r)) = c
  BY <1>1
<1>3. Tail(Cons(c, r)) \in Seq(Calls) /\ Len(Tail(Cons(c, r))) = Len(r)
  BY <1>1, <1>2
<1>4. \A i \in 1..Len(r) : Tail(Cons(c, r))[i] = r[i]
  BY <1>1, <1>2
<1>5. Tail(Cons(c, r)) = r
  BY <1>3, <1>4
<1> QED BY <1>1, <1>2, <1>5 DEF IsList

(* The calls are calls. *)
LEMMA EveryCall ==
  ASSUME NEW p \in Path, NEW q \in Path, NEW v \in Arg, NEW u \in Undos
  PROVE  /\ RemoveCall(p, u) \in Calls /\ RenameCall(p, q, u) \in Calls /\ WriteCall(p, v, u) \in Calls
         /\ MakeCall \in Calls
         /\ Call("quarantine", "cache", Missing, <<>>) \in Calls
         /\ Call("replace", "marks", Tombstone, <<>>) \in Calls
<1>1. Missing \in Arg /\ Directory \in Arg /\ Tombstone \in Arg /\ q \in Arg
  BY DEF Arg
<1>2. "cache" \in Path /\ "marks" \in Path /\ <<>> \in Undos
  BY DEF Path, State, Undos
<1> HIDE DEF Arg, Undos
<1> QED BY <1>1, <1>2 DEF Calls, Call, RemoveCall, RenameCall, WriteCall, MakeCall

(* The lists of the program. *)
LEMMA Names ==
  /\ \A p \in {"book", "old", "staging", "pending", "idn", "idnBak", "idnTmp", "cache", "clips", "marks"} : p \in Path
  /\ \A v \in Books \cup {Missing, Barrier, Had, New} : v \in Arg
  /\ <<>> \in Undos /\ UndoTmp \in Undos /\ UndoBak \in Undos
BY DEF Path, Identity, State, Arg, Undos

(* What each short list begins with, and what is left of it. *)
LEMMA Lists ==
  /\ <<>> \in Seq(Calls)
  /\ IsList(UndoTmp, RemoveCall("idnTmp", <<>>), <<>>)
  /\ IsList(UndoBak, RenameCall("idnBak", "idn", <<>>), <<>>)
  /\ IsList(Away1, Call("quarantine", "cache", Missing, <<>>), <<>>)
  /\ IsList(Away2, Call("replace", "marks", Tombstone, <<>>), Away1)
  /\ IsList(Away3, RemoveCall("marks", <<>>), Away2)
  /\ IsList(Unmark1, RemoveCall("pending", <<>>), <<>>)
  /\ IsList(Drop2, RemoveCall("old", <<>>), Unmark1)
  /\ IsList(Return1, RenameCall("old", "book", <<>>), <<>>)
  /\ IsList(ReturnUnmark, RenameCall("old", "book", <<>>), Unmark1)
  /\ IsList(Return2, RemoveCall("book", <<>>), Return1)
  /\ IsList(Rotate1, RenameCall("book", "old", <<>>), <<>>)
  /\ IsList(Publish1, RenameCall("staging", "book", <<>>), <<>>)
  /\ IsList(Discard1, RemoveCall("staging", <<>>), <<>>)
  /\ \A v \in {Had, New} : IsList(Mark1(v), WriteCall("pending", v, <<>>), <<>>)
<1>1. ASSUME NEW p \in Path, NEW q \in Path
      PROVE  /\ RemoveCall(p, <<>>) \in Calls /\ RenameCall(p, q, <<>>) \in Calls
             /\ \A v \in {Had, New} : WriteCall(p, v, <<>>) \in Calls
             /\ Call("quarantine", "cache", Missing, <<>>) \in Calls
             /\ Call("replace", "marks", Tombstone, <<>>) \in Calls
  BY Names, EveryCall
<1>2. <<>> \in Seq(Calls)
  OBVIOUS
<1>3. ASSUME NEW c \in Calls, NEW r, NEW d, NEW e, IsList(r, d, e)
      PROVE  IsList(Cons(c, r), c, r)
  BY <1>3, ConsIsList DEF IsList
<1>4. IsList(UndoTmp, RemoveCall("idnTmp", <<>>), <<>>) /\ IsList(UndoBak, RenameCall("idnBak", "idn", <<>>), <<>>)
  BY <1>1, <1>2, Names, ConsIsList DEF UndoTmp, UndoBak
<1>5. /\ IsList(Away1, Call("quarantine", "cache", Missing, <<>>), <<>>)
      /\ IsList(Unmark1, RemoveCall("pending", <<>>), <<>>)
      /\ IsList(Return1, RenameCall("old", "book", <<>>), <<>>)
  BY <1>1, <1>2, Names, ConsIsList DEF Away1, Unmark1, Return1
<1>6. /\ IsList(Rotate1, RenameCall("book", "old", <<>>), <<>>)
      /\ IsList(Publish1, RenameCall("staging", "book", <<>>), <<>>)
      /\ IsList(Discard1, RemoveCall("staging", <<>>), <<>>)
      /\ \A v \in {Had, New} : IsList(Mark1(v), WriteCall("pending", v, <<>>), <<>>)
  BY <1>1, <1>2, Names, ConsIsList DEF Rotate1, Publish1, Discard1, Mark1
<1>7. IsList(Away2, Call("replace", "marks", Tombstone, <<>>), Away1)
  BY <1>1, <1>3, <1>5, Names DEF Away2
<1>8. IsList(Away3, RemoveCall("marks", <<>>), Away2)
  BY <1>1, <1>3, <1>7, Names DEF Away3
<1>9. /\ IsList(Drop2, RemoveCall("old", <<>>), Unmark1)
      /\ IsList(ReturnUnmark, RenameCall("old", "book", <<>>), Unmark1)
      /\ IsList(Return2, RemoveCall("book", <<>>), Return1)
  BY <1>1, <1>3, <1>5, Names DEF Drop2, ReturnUnmark, Return2
<1> QED BY <1>2, <1>4, <1>5, <1>6, <1>7, <1>8, <1>9

(* The lists that go on with another. *)
LEMMA Going ==
  ASSUME NEW r \in Seq(Calls), NEW v \in Books \cup {Barrier}
  PROVE  /\ IsList(New5(r), RenameCall("idnTmp", "idn", <<>>), r)
         /\ IsList(New4(r), RemoveCall("idn", UndoTmp), New5(r))
         /\ IsList(New3(v, r), WriteCall("idnTmp", v, UndoTmp), New4(r))
         /\ IsList(New2(v, r), RemoveCall("idnTmp", UndoTmp), New3(v, r))
         /\ IsList(New1(v, r), MakeCall, New2(v, r))
         /\ IsList(Over6(r), RenameCall("idnTmp", "idn", UndoBak), r)
         /\ IsList(Over5(r), RenameCall("idn", "idnBak", UndoTmp), Over6(r))
         /\ IsList(Over4(r), RemoveCall("idnBak", UndoTmp), Over5(r))
         /\ IsList(Over3(r), WriteCall("idnTmp", Barrier, UndoTmp), Over4(r))
         /\ IsList(Over2(r), RemoveCall("idnTmp", UndoTmp), Over3(r))
         /\ IsList(Over1(r), MakeCall, Over2(r))
         /\ IsList(Back4(r), RenameCall("idnTmp", "idn", <<>>), r)
         /\ IsList(Back3(r), RemoveCall("idn", <<>>), Back4(r))
         /\ IsList(Back2(v, r), WriteCall("idnTmp", v, <<>>), Back3(r))
         /\ IsList(Back1(v, r), RemoveCall("idnTmp", <<>>), Back2(v, r))
         /\ IsList(Erase2(r), RemoveCall("idn", <<>>), r)
         /\ IsList(Erase1(r), RemoveCall("idnTmp", <<>>), Erase2(r))
         /\ IsList(Away(r), RemoveCall("clips", <<>>), r)
         /\ IsList(Withdraw1(r), RenameCall("book", "staging", <<>>), r)
         /\ IsList(Cons(MakeCall, r), MakeCall, r)
<1>1. ASSUME NEW p \in Path, NEW q \in Path, NEW u \in Undos
      PROVE  /\ RemoveCall(p, u) \in Calls /\ RenameCall(p, q, u) \in Calls
             /\ WriteCall(p, v, u) \in Calls /\ WriteCall(p, Barrier, u) \in Calls /\ MakeCall \in Calls
  BY Names, EveryCall
<1>2. ASSUME NEW c \in Calls, NEW s, NEW d, NEW e, IsList(s, d, e)
      PROVE  IsList(Cons(c, s), c, s)
  BY <1>2, ConsIsList DEF IsList
<1>3. IsList(New5(r), RenameCall("idnTmp", "idn", <<>>), r)
  BY <1>1, Names, ConsIsList DEF New5
<1>4. IsList(New4(r), RemoveCall("idn", UndoTmp), New5(r))
  BY <1>1, <1>2, <1>3, Names DEF New4
<1>5. IsList(New3(v, r), WriteCall("idnTmp", v, UndoTmp), New4(r))
  BY <1>1, <1>2, <1>4, Names DEF New3
<1>6. IsList(New2(v, r), RemoveCall("idnTmp", UndoTmp), New3(v, r))
  BY <1>1, <1>2, <1>5, Names DEF New2
<1>7. IsList(New1(v, r), MakeCall, New2(v, r))
  BY <1>1, <1>2, <1>6, Names DEF New1
<1>8. IsList(Over6(r), RenameCall("idnTmp", "idn", UndoBak), r)
  BY <1>1, Names, ConsIsList DEF Over6
<1>9. IsList(Over5(r), RenameCall("idn", "idnBak", UndoTmp), Over6(r))
  BY <1>1, <1>2, <1>8, Names DEF Over5
<1>10. IsList(Over4(r), RemoveCall("idnBak", UndoTmp), Over5(r))
  BY <1>1, <1>2, <1>9, Names DEF Over4
<1>11. IsList(Over3(r), WriteCall("idnTmp", Barrier, UndoTmp), Over4(r))
  BY <1>1, <1>2, <1>10, Names DEF Over3
<1>12. IsList(Over2(r), RemoveCall("idnTmp", UndoTmp), Over3(r))
  BY <1>1, <1>2, <1>11, Names DEF Over2
<1>13. IsList(Over1(r), MakeCall, Over2(r))
  BY <1>1, <1>2, <1>12, Names DEF Over1
<1>14. IsList(Back4(r), RenameCall("idnTmp", "idn", <<>>), r)
  BY <1>1, Names, ConsIsList DEF Back4
<1>15. IsList(Back3(r), RemoveCall("idn", <<>>), Back4(r))
  BY <1>1, <1>2, <1>14, Names DEF Back3
<1>16. IsList(Back2(v, r), WriteCall("idnTmp", v, <<>>), Back3(r))
  BY <1>1, <1>2, <1>15, Names DEF Back2
<1>17. IsList(Back1(v, r), RemoveCall("idnTmp", <<>>), Back2(v, r))
  BY <1>1, <1>2, <1>16, Names DEF Back1
<1>18. IsList(Erase2(r), RemoveCall("idn", <<>>), r)
  BY <1>1, Names, ConsIsList DEF Erase2
<1>19. IsList(Erase1(r), RemoveCall("idnTmp", <<>>), Erase2(r))
  BY <1>1, <1>2, <1>18, Names DEF Erase1
<1>20. /\ IsList(Away(r), RemoveCall("clips", <<>>), r)
       /\ IsList(Withdraw1(r), RenameCall("book", "staging", <<>>), r)
       /\ IsList(Cons(MakeCall, r), MakeCall, r)
  BY <1>1, Names, ConsIsList DEF Away, Withdraw1
<1> QED
  BY <1>3, <1>4, <1>5, <1>6, <1>7, <1>8, <1>9, <1>10, <1>11, <1>12, <1>13, <1>14, <1>15, <1>16,
     <1>17, <1>18, <1>19, <1>20

-----------------------------------------------------------------------------
(* What a call does to the card, file by file. *)
SetIs(d, p, v) ==
  /\ d = [q \in Path |-> d[q]]
  /\ d["book"] = IF p = "book" THEN v ELSE disk["book"]
  /\ d["old"] = IF p = "old" THEN v ELSE disk["old"]
  /\ d["staging"] = IF p = "staging" THEN v ELSE disk["staging"]
  /\ d["pending"] = IF p = "pending" THEN v ELSE disk["pending"]
  /\ d["idn"] = IF p = "idn" THEN v ELSE disk["idn"]
  /\ d["idnBak"] = IF p = "idnBak" THEN v ELSE disk["idnBak"]
  /\ d["idnTmp"] = IF p = "idnTmp" THEN v ELSE disk["idnTmp"]
  /\ d["cache"] = IF p = "cache" THEN v ELSE disk["cache"]
  /\ d["clips"] = IF p = "clips" THEN v ELSE disk["clips"]
  /\ d["marks"] = IF p = "marks" THEN v ELSE disk["marks"]

(* The same of a rename of a file that is no user state. *)
MoveIs(d, p, q) ==
  /\ d = [x \in Path |-> d[x]]
  /\ d["book"] = IF p = "book" THEN Missing ELSE IF q = "book" THEN disk[p] ELSE disk["book"]
  /\ d["old"] = IF p = "old" THEN Missing ELSE IF q = "old" THEN disk[p] ELSE disk["old"]
  /\ d["staging"] = IF p = "staging" THEN Missing ELSE IF q = "staging" THEN disk[p] ELSE disk["staging"]
  /\ d["pending"] = disk["pending"]
  /\ d["idn"] = IF p = "idn" THEN Missing ELSE IF q = "idn" THEN disk[p] ELSE disk["idn"]
  /\ d["idnBak"] = IF p = "idnBak" THEN Missing ELSE IF q = "idnBak" THEN disk[p] ELSE disk["idnBak"]
  /\ d["idnTmp"] = IF p = "idnTmp" THEN Missing ELSE IF q = "idnTmp" THEN disk[p] ELSE disk["idnTmp"]
  /\ d["cache"] = disk["cache"] /\ d["clips"] = disk["clips"] /\ d["marks"] = disk["marks"]

(* One file is written or removed, all others stay. *)
LEMMA SetEffect ==
  ASSUME Typed(disk), NEW p \in Path, NEW v
  PROVE  SetIs([disk EXCEPT ![p] = v], p, v)
<1> DEFINE d == [disk EXCEPT ![p] = v]
<1>1. disk = [q \in Path |-> disk[q]]
  BY DEF Typed
<1>2. d = [q \in Path |-> d[q]] /\ \A q \in Path : d[q] = IF q = p THEN v ELSE disk[q]
  BY <1>1
<1> HIDE DEF d
<1>3. SetIs(d, p, v)
  BY <1>2, Names DEF SetIs
<1> QED BY <1>3 DEF d

(* A rename, file by file. *)
LEMMA MoveEffect ==
  ASSUME Typed(disk), NEW p \in Path \ (State \cup {"pending"}), NEW q \in Path \ (State \cup {"pending"}), p # q
  PROVE  MoveIs(Renamed(disk, p, q), p, q)
<1> DEFINE d == Renamed(disk, p, q)
<1>1. disk = [x \in Path |-> disk[x]]
  BY DEF Typed
<1>2. d = [x \in Path |-> d[x]] /\ \A x \in Path : d[x] = IF x = p THEN Missing ELSE IF x = q THEN disk[p] ELSE disk[x]
  BY <1>1 DEF Renamed
<1> HIDE DEF d
<1>3. MoveIs(d, p, q)
  BY <1>2, Names DEF MoveIs, State
<1> QED BY <1>3 DEF d

(* Nobody comes to own state that he did not. *)
LEMMA Fewer ==
  ASSUME NEW d, NEW d2, \A p \in State : d2[p] \in Books => d2[p] = d[p]
  PROVE  /\ \A x : OwnedBy(slipped, d, x) => OwnedBy(slipped, d2, x)
         /\ Unowned(d) => Unowned(d2)
BY DEF OwnedBy, Unowned

LEMMA UnownedBy ==
  ASSUME NEW d, Unowned(d), NEW x
  PROVE  OwnedBy(slipped, d, x)
BY DEF OwnedBy, Unowned

(* Without user state nobody owns any, and nothing is known of its owner.  *)
LEMMA Stateless ==
  ASSUME Sound(epub, slipped, disk, candidates), ~HasState
  PROVE  Unidentified(disk) /\ Unowned(disk)
         /\ disk["cache"] = Missing /\ disk["clips"] = Missing /\ disk["marks"] = Missing
<1>1. disk["cache"] = Missing /\ disk["clips"] = Missing /\ disk["marks"] = Missing
  BY DEF HasState, Exists, State
<1>2. Unowned(disk)
  BY <1>1, Distinct DEF Unowned, State
<1> QED BY <1>1, <1>2 DEF Sound, Shape

LEMMA StateBits ==
  /\ HasState <=> disk["cache"] # Missing \/ disk["clips"] # Missing \/ disk["marks"] # Missing
  /\ HasState' <=> disk'["cache"] # Missing \/ disk'["clips"] # Missing \/ disk'["marks"] # Missing
BY DEF HasState, Exists, State

(* The calls. *)
LEMMA CallEffect ==
  /\ \A p, u : After(RemoveCall(p, u)) = [disk EXCEPT ![p] = Missing]
  /\ \A p, q, u : After(RenameCall(p, q, u)) = Renamed(disk, p, q)
  /\ \A p, v, u : After(WriteCall(p, v, u)) = [disk EXCEPT ![p] = v]
  /\ After(Call("replace", "marks", Tombstone, <<>>)) = [disk EXCEPT !["marks"] = Tombstone]
  /\ After(MakeCall) = IF disk["cache"] # Missing THEN disk ELSE [disk EXCEPT !["cache"] = Directory]
  /\ After(Call("quarantine", "cache", Missing, <<>>)) =
       [p \in Path |-> IF p \in Identity \cup {"cache"} THEN Missing ELSE disk[p]]
<1>1. \A p, u : After(RemoveCall(p, u)) = [disk EXCEPT ![p] = Missing]
  BY DEF After, RemoveCall, Call, Removed
<1>2. \A p, q, u : After(RenameCall(p, q, u)) = Renamed(disk, p, q)
  BY DEF After, RenameCall, Call
<1>3. \A p, v, u : After(WriteCall(p, v, u)) = [disk EXCEPT ![p] = v]
  BY DEF After, WriteCall, Call
<1>4. /\ After(Call("replace", "marks", Tombstone, <<>>)) = [disk EXCEPT !["marks"] = Tombstone]
      /\ After(MakeCall) = IF disk["cache"] # Missing THEN disk ELSE [disk EXCEPT !["cache"] = Directory]
      /\ After(Call("quarantine", "cache", Missing, <<>>)) =
           [p \in Path |-> IF p \in Identity \cup {"cache"} THEN Missing ELSE disk[p]]
  BY DEF After, MakeCall, Call, Exists
<1> QED BY <1>1, <1>2, <1>3, <1>4

(* When a call may succeed, and what it may leave when it fails. *)
LEMMA CallFailure ==
  /\ \A p, u : Possible(RemoveCall(p, u))
  /\ \A p, q, u : Possible(RenameCall(p, q, u)) <=> disk[p] # Missing /\ disk[q] = Missing
  /\ \A p, v, u : Possible(WriteCall(p, v, u))
  /\ \A c \in {MakeCall, Call("quarantine", "cache", Missing, <<>>), Call("replace", "marks", Tombstone, <<>>)} :
       Possible(c)
  /\ \A c : Possible(c) => AfterFailure(c) = {disk, After(c)} \cup
                            (IF c.op = "write" THEN {[disk EXCEPT ![c.path] = Torn]} ELSE {})
  /\ \A c : ~Possible(c) => AfterFailure(c) = {disk}
<1>1. \A p, u : Possible(RemoveCall(p, u))
  BY DEF RemoveCall, Call, Possible
<1>2. \A p, q, u : Possible(RenameCall(p, q, u)) <=> disk[p] # Missing /\ disk[q] = Missing
  BY DEF RenameCall, Call, Possible, CanRename, Exists
<1>3. \A p, v, u : Possible(WriteCall(p, v, u))
  BY DEF WriteCall, Call, Possible
<1>4. \A c \in {MakeCall, Call("quarantine", "cache", Missing, <<>>), Call("replace", "marks", Tombstone, <<>>)} :
       Possible(c)
  BY DEF MakeCall, Call, Possible
<1>5. \A c : Possible(c) => AfterFailure(c) = {disk, After(c)} \cup
                            (IF c.op = "write" THEN {[disk EXCEPT ![c.path] = Torn]} ELSE {})
  BY DEF AfterFailure
<1>6. \A c : ~Possible(c) => AfterFailure(c) = {disk}
  BY DEF AfterFailure, Possible
<1> QED BY <1>1, <1>2, <1>3, <1>4, <1>5, <1>6

(* A call that may be made, fail or be cut off here. *)
Keeps(d) ==
  clean /\ task \in {"open", "bind"} /\ disk["cache"] \in Books /\ d["cache"] = Missing => Bk \notin {Idn, Bak}

Undone(undo) == undo \in {<<>>, UndoTmp}

(* The new identity's rename may fail: the backup comes back. *)
Restorable(c) ==
  c = RenameCall("idnTmp", "idn", UndoBak) /\ epub /\ Idn = Missing /\ Bak # Missing /\ Tmp = Barrier

(* The old book cannot be put back over one that is there. *)
Stuck == ~ok \/ pc = "unrotated"

Harmless(c) ==
  /\ Possible(c) \/ Stuck
  /\ \A d \in AfterFailure(c) : Sound(epub, slipped, d, candidates) /\ Keeps(d)
  /\ Undone(c.undo) \/ Restorable(c)
  /\ c.op = "write" =>
       \/ c.path = "idnTmp" /\ Undone(c.undo)
       \/ c.path = "pending" /\ pc = "marked" /\ c.undo = <<>>

(* A call is harmless if the card is sound after it, done or cut off. *)
LEMMA HarmlessCall ==
  ASSUME Sound(epub, slipped, disk, candidates)
  PROVE  /\ \A p, u : Sound(epub, slipped, [disk EXCEPT ![p] = Missing], candidates)
                      /\ Keeps([disk EXCEPT ![p] = Missing]) /\ Undone(u)
                      => Harmless(RemoveCall(p, u))
         /\ \A p, q, u : disk[p] # Missing /\ disk[q] = Missing
                         /\ Sound(epub, slipped, Renamed(disk, p, q), candidates) /\ Keeps(Renamed(disk, p, q)) /\ Undone(u)
                      => Harmless(RenameCall(p, q, u))
         /\ \A p, q, u : disk[q] # Missing /\ Stuck /\ Undone(u) => Harmless(RenameCall(p, q, u))
         /\ LET c == RenameCall("idnTmp", "idn", UndoBak) IN
              Restorable(c) /\ Sound(epub, slipped, After(c), candidates) /\ Keeps(After(c)) => Harmless(c)
         /\ \A v, u : Sound(epub, slipped, [disk EXCEPT !["idnTmp"] = v], candidates)
                      /\ Sound(epub, slipped, [disk EXCEPT !["idnTmp"] = Torn], candidates)
                      /\ u \in {<<>>, UndoTmp}
                      => Harmless(WriteCall("idnTmp", v, u))
         /\ \A v : Sound(epub, slipped, [disk EXCEPT !["pending"] = v], candidates)
                   /\ Sound(epub, slipped, [disk EXCEPT !["pending"] = Torn], candidates)
                   /\ pc = "marked"
                   => Harmless(WriteCall("pending", v, <<>>))
         /\ \A c \in {MakeCall, Call("quarantine", "cache", Missing, <<>>), Call("replace", "marks", Tombstone, <<>>)} :
              Sound(epub, slipped, After(c), candidates) /\ Keeps(After(c)) => Harmless(c)
<1>1. Keeps(disk) /\ \A p \in {"idnTmp", "pending"} : \A v : Keeps([disk EXCEPT ![p] = v])
  <2>1. Keeps(disk)
    BY Distinct DEF Keeps
  <2>2. ASSUME NEW p \in {"idnTmp", "pending"}, NEW v PROVE Keeps([disk EXCEPT ![p] = v])
    BY Distinct, SetEffect, Names DEF Keeps, SetIs, Sound
  <2> QED BY <2>1, <2>2
<1>2. ASSUME NEW c, c.op # "write", Undone(c.undo) \/ Restorable(c), Possible(c) \/ Stuck,
             Possible(c) => Sound(epub, slipped, After(c), candidates) /\ Keeps(After(c))
      PROVE  Harmless(c)
  <2>1. AfterFailure(c) = IF Possible(c) THEN {disk, After(c)} ELSE {disk}
    BY <1>2, CallFailure
  <2> QED BY <1>1, <1>2, <2>1 DEF Harmless
<1>3. ASSUME NEW p, NEW q, NEW u
      PROVE  /\ RemoveCall(p, u).op # "write" /\ RemoveCall(p, u).undo = u
             /\ RenameCall(p, q, u).op # "write" /\ RenameCall(p, q, u).undo = u
  BY DEF RemoveCall, RenameCall, Call
<1>4. ASSUME NEW p, NEW v, NEW u
      PROVE WriteCall(p, v, u).op = "write" /\ WriteCall(p, v, u).path = p /\ WriteCall(p, v, u).undo = u
  BY DEF WriteCall, Call
<1>5. \A c \in {MakeCall, Call("quarantine", "cache", Missing, <<>>), Call("replace", "marks", Tombstone, <<>>)} :
        c.op # "write" /\ c.undo = <<>>
  BY DEF MakeCall, Call
<1>6. Undone(<<>>)
  BY DEF Undone
<1>7. ASSUME NEW p, NEW u, Sound(epub, slipped, [disk EXCEPT ![p] = Missing], candidates),
             Keeps([disk EXCEPT ![p] = Missing]), Undone(u)
      PROVE  Harmless(RemoveCall(p, u))
  <2> DEFINE c == RemoveCall(p, u)
  <2>1. c.op # "write" /\ c.undo = u /\ After(c) = [disk EXCEPT ![p] = Missing] /\ Possible(c)
    BY <1>3, CallEffect, CallFailure
  <2> HIDE DEF c
  <2>2. Harmless(c)
    BY <1>2, <1>7, <2>1
  <2> QED BY <2>2 DEF c
<1>8. ASSUME NEW p, NEW q, NEW u, Undone(u),
             \/ /\ disk[p] # Missing /\ disk[q] = Missing
                /\ Sound(epub, slipped, Renamed(disk, p, q), candidates) /\ Keeps(Renamed(disk, p, q))
             \/ disk[q] # Missing /\ Stuck
      PROVE  Harmless(RenameCall(p, q, u))
  <2> DEFINE c == RenameCall(p, q, u)
  <2>1. /\ c.op # "write" /\ c.undo = u /\ After(c) = Renamed(disk, p, q)
        /\ Possible(c) <=> disk[p] # Missing /\ disk[q] = Missing
    BY <1>3, CallEffect, CallFailure
  <2> HIDE DEF c
  <2>2. Harmless(c)
    BY <1>2, <1>8, <2>1
  <2> QED BY <2>2 DEF c
<1>9. ASSUME NEW p \in {"idnTmp", "pending"}, NEW v, NEW u,
             Sound(epub, slipped, [disk EXCEPT ![p] = v], candidates),
             Sound(epub, slipped, [disk EXCEPT ![p] = Torn], candidates),
             u \in {<<>>, UndoTmp}, p = "pending" => pc = "marked" /\ u = <<>>
      PROVE  Harmless(WriteCall(p, v, u))
  <2> DEFINE c == WriteCall(p, v, u)
             d1 == [disk EXCEPT ![p] = v]
             d2 == [disk EXCEPT ![p] = Torn]
  <2>1. c.op = "write" /\ c.path = p /\ c.undo = u /\ After(c) = d1 /\ Possible(c)
    BY <1>4, CallEffect, CallFailure
  <2>2. /\ Sound(epub, slipped, d1, candidates) /\ Keeps(d1)
        /\ Sound(epub, slipped, d2, candidates) /\ Keeps(d2)
    BY <1>1, <1>9
  <2> HIDE DEF c
  <2>3. AfterFailure(c) = {disk, d1, d2}
    BY <2>1, CallFailure
  <2> HIDE DEF d1, d2
  <2>4. Harmless(c)
    BY <1>1, <1>9, <2>1, <2>2, <2>3 DEF Harmless, Undone
  <2> QED BY <2>4 DEF c
<1>10. \A c \in {MakeCall, Call("quarantine", "cache", Missing, <<>>), Call("replace", "marks", Tombstone, <<>>)} :
         Sound(epub, slipped, After(c), candidates) /\ Keeps(After(c)) => Harmless(c)
  <2> DEFINE Others == {MakeCall, Call("quarantine", "cache", Missing, <<>>), Call("replace", "marks", Tombstone, <<>>)}
  <2> SUFFICES ASSUME NEW c \in Others, Sound(epub, slipped, After(c), candidates), Keeps(After(c))
               PROVE  Harmless(c)
    OBVIOUS
  <2>1. c.op # "write" /\ c.undo = <<>> /\ Possible(c)
    BY <1>5, CallFailure
  <2> HIDE DEF Others
  <2> QED BY <1>2, <1>6, <2>1
<1>11. ASSUME NEW c, Restorable(c), Sound(epub, slipped, After(c), candidates), Keeps(After(c))
       PROVE  Harmless(c)
  <2>1. c.op # "write"
    BY <1>3, <1>11 DEF Restorable
  <2>2. Possible(c)
    BY <1>11, CallFailure, Distinct DEF Restorable, Idn, Tmp
  <2> QED BY <1>2, <1>11, <2>1, <2>2
<1> QED BY <1>6, <1>7, <1>8, <1>9, <1>10, <1>11

(* What Do does. *)
LEMMA Doing ==
  ASSUME NEW c, NEW r, IsList(todo, c, r)
  PROVE  /\ todo # <<>> /\ Head(todo) = c
         /\ Do => /\ disk' = After(c) /\ todo' = r
                  /\ UNCHANGED <<epub, slipped, task, pc, ok, staged, result, clean, candidates>>
BY DEF IsList, Do

Rest == UNCHANGED <<epub, slipped, task, pc, ok, staged, result, clean, candidates>>

(* The effect of Do, from the head of the list. *)
LEMMA DoingThis ==
  ASSUME Typed(disk), Do, NEW p \in Path, NEW u, NEW r
  PROVE  /\ IsList(todo, RemoveCall(p, u), r) => SetIs(disk', p, Missing) /\ todo' = r /\ Rest
         /\ \A v : IsList(todo, WriteCall(p, v, u), r) => SetIs(disk', p, v) /\ todo' = r /\ Rest
         /\ \A q \in Path : IsList(todo, RenameCall(p, q, u), r) /\ p # q
                          /\ p \notin State \cup {"pending"} /\ q \notin State \cup {"pending"}
              => MoveIs(disk', p, q) /\ todo' = r /\ Rest
<1>1. ASSUME IsList(todo, RemoveCall(p, u), r) PROVE SetIs(disk', p, Missing) /\ todo' = r /\ Rest
  <2>1. disk' = [disk EXCEPT ![p] = Missing] /\ todo' = r /\ Rest
    BY <1>1, Doing, CallEffect DEF Rest
  <2> QED BY <2>1, SetEffect
<1>2. ASSUME NEW v, IsList(todo, WriteCall(p, v, u), r) PROVE SetIs(disk', p, v) /\ todo' = r /\ Rest
  <2>1. disk' = [disk EXCEPT ![p] = v] /\ todo' = r /\ Rest
    BY <1>2, Doing, CallEffect DEF Rest
  <2> QED BY <2>1, SetEffect
<1>3. ASSUME NEW q \in Path, IsList(todo, RenameCall(p, q, u), r), p # q,
             p \notin State \cup {"pending"}, q \notin State \cup {"pending"}
      PROVE  MoveIs(disk', p, q) /\ todo' = r /\ Rest
  <2>1. disk' = Renamed(disk, p, q) /\ todo' = r /\ Rest
    BY <1>3, Doing, CallEffect DEF Rest
  <2>2. p \in Path \ (State \cup {"pending"}) /\ q \in Path \ (State \cup {"pending"})
    BY <1>3
  <2> QED BY <1>3, <2>1, <2>2, MoveEffect
<1> QED BY <1>1, <1>2, <1>3

-----------------------------------------------------------------------------
(* Changes that leave the card sound. *)
LEMMA KeepsCache ==
  ASSUME NEW d, d["cache"] = disk["cache"]
  PROVE  Keeps(d)
BY Distinct DEF Keeps

(* The books and the marker are as they were. *)
LEMMA SoundRest ==
  ASSUME Sound(epub, slipped, disk, candidates), NEW d, Typed(d), Shape(epub, slipped, d),
         d["book"] = disk["book"], d["old"] = disk["old"], d["pending"] = disk["pending"],
         \A p \in State : d[p] \in Books => d[p] = disk[p]
  PROVE  Sound(epub, slipped, d, candidates)
<1>1. \A x : OwnedBy(slipped, disk, x) => OwnedBy(slipped, d, x)
  BY Fewer
<1>2. Marked(epub, slipped, disk) /\ Whole(slipped, disk, candidates)
  BY DEF Sound
<1>3. Marked(epub, slipped, d)
  BY <1>1, <1>2 DEF Marked, Stale
<1>4. Whole(slipped, d, candidates)
  BY <1>2 DEF Whole, Heir
<1> QED BY <1>3, <1>4 DEF Sound

(* An identity temp that may be here. *)
FitsTmp(v) ==
  /\ v \in Books \cup {Missing, Torn, Barrier}
  /\ v = Missing \/ (epub /\ Cch # Missing)
  /\ Idn = Barrier => v \in {Missing, Torn, Bak}
  /\ Idn \in Books => v \in {Missing, Torn, Barrier}
  /\ Idn = Missing /\ Bak # Missing => v \in {Missing, Torn, Barrier, Bak}
  /\ Idn = Missing /\ Bak = Missing =>
       /\ v \in {Missing, Torn, Barrier, Bk}
       /\ v # Missing => Old = Missing
       /\ v = Barrier => Bk = Missing

(* The identity temp may be written or removed at any time, as long as it  *)
(* fits what is beside it.                                                 *)
LEMMA SoundTmp ==
  ASSUME Sound(epub, slipped, disk, candidates), NEW v, FitsTmp(v)
  PROVE  Sound(epub, slipped, [disk EXCEPT !["idnTmp"] = v], candidates)
<1> DEFINE d == [disk EXCEPT !["idnTmp"] = v]
<1>1. SetIs(d, "idnTmp", v)
  BY SetEffect, Names DEF Sound
<1> HIDE DEF d
<1>2. \A p \in State : d[p] = disk[p]
  BY <1>1 DEF SetIs, State
<1>3. (\A x : OwnedBy(slipped, disk, x) => OwnedBy(slipped, d, x)) /\ (Unowned(disk) => Unowned(d))
  BY <1>2, Fewer
<1>4. Typed(d)
  BY <1>1 DEF Typed, Sound, SetIs, FitsTmp
<1>5. Shape(epub, slipped, d)
  <2>1. Shape(epub, slipped, disk)
    BY DEF Sound
  <2>2. Behind(slipped, d)
    BY <1>1, <1>3, <2>1 DEF Shape, Behind, SetIs, FitsTmp, Idn, Bak
  <2>3. Named(slipped, d)
    BY <1>1, <1>3, <2>1 DEF Shape, Named, SetIs, FitsTmp, Idn, Bak
  <2>4. Between(slipped, d)
    BY <1>1, <1>3, <2>1 DEF Shape, Between, SetIs, FitsTmp, Idn, Bak
  <2>5. Nameless(epub, slipped, d)
    BY <1>1, <1>3, <2>1 DEF Shape, Nameless, SetIs, FitsTmp, Idn, Bak, Bk, Old
  <2> QED BY <1>1, <2>1, <2>2, <2>3, <2>4, <2>5 DEF Shape, SetIs, FitsTmp, Unidentified, Cch
<1>6. Sound(epub, slipped, d, candidates)
  BY <1>1, <1>2, <1>4, <1>5, SoundRest DEF SetIs
<1> QED BY <1>6 DEF d

LEMMA HarmlessTmp ==
  ASSUME Sound(epub, slipped, disk, candidates), NEW u, Undone(u)
  PROVE  /\ Harmless(RemoveCall("idnTmp", u))
         /\ \A v : FitsTmp(v) /\ FitsTmp(Torn) /\ u \in {<<>>, UndoTmp} => Harmless(WriteCall("idnTmp", v, u))
<1>1. FitsTmp(Missing)
  BY Distinct DEF FitsTmp, Sound, Typed, Bak, Idn
<1>2. Sound(epub, slipped, [disk EXCEPT !["idnTmp"] = Missing], candidates)
  BY <1>1, SoundTmp
<1>3. Keeps([disk EXCEPT !["idnTmp"] = Missing])
  BY SetEffect, KeepsCache, Names DEF Sound, SetIs
<1>4. Harmless(RemoveCall("idnTmp", u))
  BY <1>2, <1>3, HarmlessCall
<1>5. ASSUME NEW v, FitsTmp(v), FitsTmp(Torn), u \in {<<>>, UndoTmp} PROVE Harmless(WriteCall("idnTmp", v, u))
  BY <1>5, SoundTmp, HarmlessCall
<1> QED BY <1>4, <1>5

(* The directory is made. *)
LEMMA HarmlessMake ==
  ASSUME Sound(epub, slipped, disk, candidates)
  PROVE  /\ Harmless(MakeCall)
         /\ \A d : d = After(MakeCall) =>
              /\ d["cache"] # Missing
              /\ \A p \in Path \ {"cache"} : d[p] = disk[p]
<1> DEFINE d == After(MakeCall)
<1>1. (d = disk /\ disk["cache"] # Missing) \/ (SetIs(d, "cache", Directory) /\ disk["cache"] = Missing)
  <2>1. SetIs([disk EXCEPT !["cache"] = Directory], "cache", Directory)
    BY SetEffect, Names DEF Sound
  <2>2. d = IF disk["cache"] # Missing THEN disk ELSE [disk EXCEPT !["cache"] = Directory]
    BY CallEffect
  <2> HIDE DEF d
  <2>3. CASE disk["cache"] # Missing
    BY <2>2, <2>3
  <2>4. CASE disk["cache"] = Missing
    BY <2>1, <2>2, <2>4
  <2> QED BY <2>3, <2>4
<1> HIDE DEF d
<1>2. d["cache"] # Missing /\ d["cache"] \in Books \cup {Missing, Directory}
  BY <1>1, Distinct DEF SetIs, Sound, Typed
<1>3. \A p \in Path \ {"cache"} : d[p] = disk[p]
  BY <1>1 DEF SetIs, Path, State, Identity
<1>4. \A p \in State : d[p] \in Books => d[p] = disk[p]
  BY <1>1, Distinct DEF SetIs, State
<1>5. Typed(d)
  BY <1>1, <1>2 DEF SetIs, Sound, Typed
<1>6. (\A x : OwnedBy(slipped, disk, x) => OwnedBy(slipped, d, x)) /\ (Unowned(disk) => Unowned(d))
  BY <1>4, Fewer
<1>7. Shape(epub, slipped, d)
  BY <1>1, <1>2, <1>6 DEF SetIs, Sound, Shape, Behind, Named, Between, Nameless, Unidentified
<1>8. Sound(epub, slipped, d, candidates)
  BY <1>1, <1>4, <1>5, <1>7, SoundRest DEF SetIs
<1>9. Keeps(d)
  BY <1>2 DEF Keeps
<1>10. Harmless(MakeCall)
  BY <1>8, <1>9, HarmlessCall DEF d
<1> QED BY <1>2, <1>3, <1>10 DEF d

-----------------------------------------------------------------------------
(* The lists about the identity, call by call.                             *)
FilesSame == Bk' = Bk /\ Old' = Old /\ Stg' = Stg /\ Pnd' = Pnd
MarksSame == disk'["marks"] = disk["marks"]

(* The first call of save() where there is no identity: each leads to the  *)
(* next, and the last leaves the identity in place.                        *)
LEMMA NewStep ==
  ASSUME Sound(epub, slipped, disk, candidates), NEW v, NEW r \in Seq(Calls), SavingNew(v, r)
  PROVE  /\ todo # <<>> /\ Harmless(Head(todo))
         /\ Do => /\ FilesSame /\ MarksSame /\ Bak' = Bak
                  /\ SavingNew(v, r)' \/ (todo' = r /\ Idn' = v /\ Tmp' = Missing)
<1>1. /\ epub /\ Idn = Missing /\ v \in Books \cup {Barrier}
      /\ Bak = v \/ (Bak = Missing /\ Old = Missing /\ (IF v = Barrier THEN Bk = Missing ELSE Bk = v))
      /\ Typed(disk) /\ Shape(epub, slipped, disk)
  BY DEF SavingNew, Sound
<1>2. /\ v # Missing /\ v # Torn /\ Missing \notin Books /\ Barrier \notin Books
      /\ Barrier # Missing /\ Missing # Torn /\ Barrier # Torn
  BY <1>1, Distinct
<1>3. Cch # Missing => FitsTmp(v) /\ FitsTmp(Torn)
  <2>1. Bak \in Books \cup {Missing}
    BY <1>1 DEF Typed, Bak
  <2> QED BY <1>1, <1>2, <2>1 DEF FitsTmp
<1>4. Undone(UndoTmp) /\ Undone(<<>>)
  BY DEF Undone
<1>5. CASE todo = New1(v, r)
  <2>1. IsList(todo, MakeCall, New2(v, r))
    BY <1>1, <1>5, Going
  <2>2. todo # <<>> /\ Harmless(Head(todo))
    BY <2>1, Doing, HarmlessMake
  <2>3. ASSUME Do PROVE FilesSame /\ MarksSame /\ Bak' = Bak /\ SavingNew(v, r)'
    <3>1. disk' = After(MakeCall) /\ todo' = New2(v, r) /\ epub' = epub
      BY <2>1, <2>3, Doing
    <3>2. disk'["cache"] # Missing /\ \A p \in Path \ {"cache"} : disk'[p] = disk[p]
      BY <3>1, HarmlessMake
    <3>3. FilesSame /\ MarksSame /\ Bak' = Bak /\ Idn' = Idn
      BY <3>2 DEF Path, State, Identity, FilesSame, MarksSame, Bk, Old, Stg, Pnd, Bak, Idn
    <3> QED BY <1>1, <3>1, <3>2, <3>3 DEF SavingNew, FilesSame, MarksSame, Cch
  <2> QED BY <2>2, <2>3
<1>6. CASE todo = New2(v, r) /\ Cch # Missing
  <2>1. IsList(todo, RemoveCall("idnTmp", UndoTmp), New3(v, r))
    BY <1>1, <1>6, Going
  <2>2. todo # <<>> /\ Harmless(Head(todo))
    BY <1>4, <2>1, Doing, HarmlessTmp
  <2>3. ASSUME Do PROVE FilesSame /\ MarksSame /\ Bak' = Bak /\ SavingNew(v, r)'
    <3>1. SetIs(disk', "idnTmp", Missing) /\ todo' = New3(v, r) /\ epub' = epub
      BY <1>1, <2>1, <2>3, DoingThis, Names DEF Rest
    <3>2. FilesSame /\ MarksSame /\ Bak' = Bak /\ Idn' = Idn /\ Tmp' = Missing /\ Cch' = Cch
      BY <3>1 DEF SetIs, FilesSame, MarksSame, Bk, Old, Stg, Pnd, Bak, Idn, Tmp, Cch
    <3> QED BY <1>1, <1>6, <3>1, <3>2 DEF SavingNew, FilesSame
  <2> QED BY <2>2, <2>3
<1>7. CASE todo = New3(v, r) /\ Cch # Missing /\ Tmp = Missing
  <2>1. IsList(todo, WriteCall("idnTmp", v, UndoTmp), New4(r))
    BY <1>1, <1>7, Going
  <2>2. todo # <<>> /\ Harmless(Head(todo))
    BY <1>3, <1>4, <1>7, <2>1, Doing, HarmlessTmp
  <2>3. ASSUME Do PROVE FilesSame /\ MarksSame /\ Bak' = Bak /\ SavingNew(v, r)'
    <3>1. SetIs(disk', "idnTmp", v) /\ todo' = New4(r) /\ epub' = epub
      BY <1>1, <2>1, <2>3, DoingThis, Names DEF Rest
    <3>2. FilesSame /\ MarksSame /\ Bak' = Bak /\ Idn' = Idn /\ Tmp' = v /\ Cch' = Cch
      BY <3>1 DEF SetIs, FilesSame, MarksSame, Bk, Old, Stg, Pnd, Bak, Idn, Tmp, Cch
    <3> QED BY <1>1, <1>7, <3>1, <3>2 DEF SavingNew, FilesSame
  <2> QED BY <2>2, <2>3
<1>8. CASE todo = New4(r) /\ Cch # Missing /\ Tmp = v
  <2>1. IsList(todo, RemoveCall("idn", UndoTmp), New5(r))
    BY <1>1, <1>8, Going
  <2>2. [disk EXCEPT !["idn"] = Missing] = disk
    BY <1>1, Names DEF Typed, Idn
  <2>3. todo # <<>> /\ Harmless(Head(todo))
    <3>1. Sound(epub, slipped, [disk EXCEPT !["idn"] = Missing], candidates)
      BY <2>2
    <3>2. Keeps([disk EXCEPT !["idn"] = Missing])
      BY <2>2, KeepsCache
    <3>3. Harmless(RemoveCall("idn", UndoTmp))
      BY <1>4, <3>1, <3>2, HarmlessCall
    <3> QED BY <2>1, <3>3, Doing
  <2>4. ASSUME Do PROVE FilesSame /\ MarksSame /\ Bak' = Bak /\ SavingNew(v, r)'
    <3>1. disk' = disk /\ todo' = New5(r) /\ epub' = epub
      BY <2>1, <2>2, <2>4, Doing, CallEffect
    <3>2. FilesSame /\ MarksSame /\ Bak' = Bak /\ Idn' = Idn /\ Tmp' = Tmp /\ Cch' = Cch
      BY <3>1 DEF FilesSame, MarksSame, Bk, Old, Stg, Pnd, Bak, Idn, Tmp, Cch
    <3> QED BY <1>1, <1>8, <3>1, <3>2 DEF SavingNew, FilesSame
  <2> QED BY <2>3, <2>4
<1>9. CASE todo = New5(r) /\ Cch # Missing /\ Tmp = v
  <2>1. IsList(todo, RenameCall("idnTmp", "idn", <<>>), r)
    BY <1>1, <1>9, Going
  <2> DEFINE d == Renamed(disk, "idnTmp", "idn")
  <2>2. MoveIs(d, "idnTmp", "idn")
    BY <1>1, MoveEffect, Names DEF State
  <2>3. ASSUME Do PROVE disk' = d /\ todo' = r
    BY <2>1, <2>3, Doing, CallEffect
  <2> HIDE DEF d
  <2>4. \A p \in State : d[p] = disk[p]
    BY <2>2 DEF MoveIs, State
  <2>5. (\A x : OwnedBy(slipped, disk, x) => OwnedBy(slipped, d, x)) /\ (Unowned(disk) => Unowned(d))
    BY <2>4, Fewer
  <2>6. d["idn"] = v /\ d["idnTmp"] = Missing /\ d["idnBak"] = Bak
    BY <1>9, <2>2 DEF MoveIs, Tmp, Bak
  <2>7. Typed(d)
    BY <1>1, <2>2, <2>6 DEF Typed, MoveIs
  <2>8. Shape(epub, slipped, d)
    BY <1>1, <1>2, <1>9, <2>2, <2>5, <2>6 DEF Shape, MoveIs, Behind, Named, Between, Nameless, Unidentified, Tmp, Bak, Idn, Bk, Old, Cch
  <2>9. Sound(epub, slipped, d, candidates)
    BY <2>2, <2>4, <2>7, <2>8, SoundRest DEF MoveIs
  <2>10. Keeps(d)
    BY <2>2, KeepsCache DEF MoveIs
  <2>11. Harmless(RenameCall("idnTmp", "idn", <<>>))
    BY <1>1, <1>2, <1>4, <1>9, <2>9, <2>10, HarmlessCall DEF d, Tmp, Idn
  <2>12. ASSUME Do PROVE FilesSame /\ MarksSame /\ Bak' = Bak /\ todo' = r /\ Idn' = v /\ Tmp' = Missing
    BY <2>2, <2>3, <2>6, <2>12 DEF MoveIs, FilesSame, MarksSame, Bk, Old, Stg, Pnd, Bak, Idn, Tmp
  <2> QED BY <2>1, <2>11, <2>12, Doing
<1> QED BY <1>5, <1>6, <1>7, <1>8, <1>9 DEF SavingNew

(* Another identity, in the same directory. *)
LEMMA SoundIdentity ==
  ASSUME Sound(epub, slipped, disk, candidates), epub, Cch # Missing, NEW d, d = [q \in Path |-> d[q]],
         d["book"] = Bk, d["old"] = Old, d["staging"] = Stg, d["pending"] = Pnd,
         d["cache"] = Cch, d["clips"] = disk["clips"], d["marks"] = disk["marks"],
         d["idn"] \in Books \cup {Missing, Barrier}, d["idnBak"] \in Books \cup {Missing},
         d["idnTmp"] \in Books \cup {Missing, Barrier, Torn},
         d["idn"] = Barrier =>
           /\ d["idnTmp"] \in {Missing, Torn, d["idnBak"]}
           /\ d["idnBak"] # Missing => OwnedBy(slipped, disk, d["idnBak"])
           /\ Old # Missing => d["idnBak"] = Old,
         d["idn"] \in Books =>
           /\ d["idnBak"] \in {Missing, d["idn"]} /\ d["idnTmp"] \in {Missing, Torn, Barrier}
           /\ OwnedBy(slipped, disk, d["idn"])
           /\ Old # Missing => d["idn"] = Old,
         d["idn"] = Missing =>
           IF d["idnBak"] # Missing
             THEN /\ d["idnTmp"] \in {Missing, Torn, Barrier, d["idnBak"]}
                  /\ OwnedBy(slipped, disk, d["idnBak"])
                  /\ Old # Missing => d["idnBak"] = Old
             ELSE (Bk = Missing \/ Late) /\ Old = Missing /\ d["idnTmp"] = Missing
  PROVE  Sound(epub, slipped, d, candidates) /\ Keeps(d)
<1>1. \A p \in State : d[p] = disk[p]
  BY DEF State, Cch
<1>2. \A x : OwnedBy(slipped, disk, x) => OwnedBy(slipped, d, x)
  BY <1>1, Fewer
<1>3. Typed(d)
  BY DEF Sound, Typed, Bk, Old, Stg, Pnd, Cch
<1>4. Late => OwnedBy(slipped, d, Bk)
  BY DEF Late, OwnedBy
<1>5. Shape(epub, slipped, d)
  <2>1. Behind(slipped, d)
    BY <1>2 DEF Behind, Old
  <2>2. Named(slipped, d)
    BY <1>2 DEF Named, Old
  <2>3. Between(slipped, d)
    BY <1>2 DEF Between, Old
  <2>4. Nameless(epub, slipped, d)
    BY <1>4, Distinct DEF Nameless, Bk, Old
  <2> QED BY <2>1, <2>2, <2>3, <2>4 DEF Shape, Cch
<1>6. Sound(epub, slipped, d, candidates)
  BY <1>1, <1>3, <1>5, SoundRest DEF Bk, Old, Pnd
<1> QED BY <1>6, KeepsCache DEF Cch

(* The same of a barrier saved over an identity. *)
LEMMA OverStep ==
  ASSUME Sound(epub, slipped, disk, candidates), NEW r \in Seq(Calls), SavingOver(r)
  PROVE  /\ todo # <<>> /\ Harmless(Head(todo))
         /\ Do => /\ FilesSame /\ MarksSame
                  /\ {Idn', Bak'} \cap Books \subseteq {Idn, Bak}
                  /\ SavingOver(r)' \/ (todo' = r /\ Idn' = Barrier /\ Bak' # Missing /\ Tmp' = Missing)
<1>1. epub /\ Typed(disk) /\ Shape(epub, slipped, disk)
  BY DEF SavingOver, Sound
<1>2. /\ Missing \notin Books /\ Barrier \notin Books /\ Torn \notin Books
      /\ Barrier # Missing /\ Missing # Torn /\ Barrier # Torn
  BY Distinct
<1>3. Idn \in Books => FitsTmp(Barrier) /\ FitsTmp(Torn)
  BY <1>1, <1>2 DEF FitsTmp, Shape, Unidentified, Idn, Cch
<1>4. Undone(UndoTmp)
  BY DEF Undone
<1>5. /\ Idn \in Books \cup {Missing, Barrier} /\ Bak \in Books \cup {Missing}
      /\ Idn \in Books => /\ Bak \in {Missing, Idn} /\ Tmp \in {Missing, Torn, Barrier}
                          /\ OwnedBy(slipped, disk, Idn) /\ (Old # Missing => Idn = Old)
      /\ Idn # Missing \/ Bak # Missing => Cch # Missing
  BY <1>1 DEF Typed, Shape, Unidentified, Named, Idn, Bak, Tmp, Old, Cch
<1>6. CASE todo = Over1(r) /\ Idn \in Books
  <2>1. IsList(todo, MakeCall, Over2(r))
    BY <1>1, <1>6, Going
  <2>2. todo # <<>> /\ Harmless(Head(todo))
    BY <2>1, Doing, HarmlessMake
  <2>3. ASSUME Do PROVE FilesSame /\ MarksSame /\ Bak' = Bak /\ Idn' = Idn /\ SavingOver(r)'
    <3>1. disk' = After(MakeCall) /\ todo' = Over2(r) /\ epub' = epub
      BY <2>1, <2>3, Doing
    <3>2. \A p \in Path \ {"cache"} : disk'[p] = disk[p]
      BY <3>1, HarmlessMake
    <3>3. FilesSame /\ MarksSame /\ Bak' = Bak /\ Idn' = Idn
      BY <3>2 DEF Path, State, Identity, FilesSame, MarksSame, Bk, Old, Stg, Pnd, Bak, Idn
    <3> QED BY <1>1, <1>6, <3>1, <3>3 DEF SavingOver
  <2> QED BY <2>2, <2>3
<1>7. CASE todo = Over2(r) /\ Idn \in Books
  <2>1. IsList(todo, RemoveCall("idnTmp", UndoTmp), Over3(r))
    BY <1>1, <1>7, Going
  <2>2. todo # <<>> /\ Harmless(Head(todo))
    BY <1>4, <2>1, Doing, HarmlessTmp
  <2>3. ASSUME Do PROVE FilesSame /\ MarksSame /\ Bak' = Bak /\ Idn' = Idn /\ SavingOver(r)'
    <3>1. SetIs(disk', "idnTmp", Missing) /\ todo' = Over3(r) /\ epub' = epub
      BY <1>1, <2>1, <2>3, DoingThis, Names DEF Rest
    <3>2. FilesSame /\ MarksSame /\ Bak' = Bak /\ Idn' = Idn /\ Tmp' = Missing
      BY <3>1 DEF SetIs, FilesSame, MarksSame, Bk, Old, Stg, Pnd, Bak, Idn, Tmp
    <3> QED BY <1>1, <1>7, <3>1, <3>2 DEF SavingOver
  <2> QED BY <2>2, <2>3
<1>8. CASE todo = Over3(r) /\ Idn \in Books /\ Tmp = Missing
  <2>1. IsList(todo, WriteCall("idnTmp", Barrier, UndoTmp), Over4(r))
    BY <1>1, <1>8, Going
  <2>2. todo # <<>> /\ Harmless(Head(todo))
    BY <1>3, <1>4, <1>8, <2>1, Doing, HarmlessTmp
  <2>3. ASSUME Do PROVE FilesSame /\ MarksSame /\ Bak' = Bak /\ Idn' = Idn /\ SavingOver(r)'
    <3>1. SetIs(disk', "idnTmp", Barrier) /\ todo' = Over4(r) /\ epub' = epub
      BY <1>1, <2>1, <2>3, DoingThis, Names DEF Rest
    <3>2. FilesSame /\ MarksSame /\ Bak' = Bak /\ Idn' = Idn /\ Tmp' = Barrier
      BY <3>1 DEF SetIs, FilesSame, MarksSame, Bk, Old, Stg, Pnd, Bak, Idn, Tmp
    <3> QED BY <1>1, <1>8, <3>1, <3>2 DEF SavingOver
  <2> QED BY <2>2, <2>3
<1>9. CASE todo = Over4(r) /\ Idn \in Books /\ Tmp = Barrier
  <2>1. IsList(todo, RemoveCall("idnBak", UndoTmp), Over5(r))
    BY <1>1, <1>9, Going
  <2> DEFINE d == [disk EXCEPT !["idnBak"] = Missing]
  <2>2. SetIs(d, "idnBak", Missing)
    BY <1>1, SetEffect, Names
  <2>3. Do => disk' = d /\ todo' = Over5(r) /\ epub' = epub
    BY <2>1, Doing, CallEffect
  <2> HIDE DEF d
  <2>4. Sound(epub, slipped, d, candidates) /\ Keeps(d)
    BY <1>1, <1>2, <1>5, <1>9, <2>2, SoundIdentity DEF SetIs, Bk, Old, Stg, Pnd, Idn, Bak, Tmp, Cch
  <2>5. Harmless(RemoveCall("idnBak", UndoTmp))
    BY <1>4, <2>4, HarmlessCall DEF d
  <2>6. ASSUME Do PROVE FilesSame /\ MarksSame /\ Bak' = Missing /\ Idn' = Idn /\ SavingOver(r)'
    <3>1. FilesSame /\ MarksSame /\ Bak' = Missing /\ Idn' = Idn /\ Tmp' = Tmp
      BY <2>2, <2>3, <2>6 DEF SetIs, FilesSame, MarksSame, Bk, Old, Stg, Pnd, Bak, Idn, Tmp
    <3> QED BY <1>1, <1>9, <2>3, <2>6, <3>1 DEF SavingOver
  <2> QED BY <1>2, <2>1, <2>5, <2>6, Doing
<1>10. CASE todo = Over5(r) /\ Idn \in Books /\ Tmp = Barrier /\ Bak = Missing
  <2>1. IsList(todo, RenameCall("idn", "idnBak", UndoTmp), Over6(r))
    BY <1>1, <1>10, Going
  <2> DEFINE d == Renamed(disk, "idn", "idnBak")
  <2>2. MoveIs(d, "idn", "idnBak")
    BY <1>1, MoveEffect, Names DEF State
  <2>3. Do => disk' = d /\ todo' = Over6(r) /\ epub' = epub
    BY <2>1, Doing, CallEffect
  <2> HIDE DEF d
  <2>4. Sound(epub, slipped, d, candidates) /\ Keeps(d)
    BY <1>1, <1>2, <1>5, <1>10, <2>2, SoundIdentity DEF MoveIs, Bk, Old, Stg, Pnd, Idn, Bak, Tmp, Cch
  <2>5. Harmless(RenameCall("idn", "idnBak", UndoTmp))
    BY <1>2, <1>4, <1>10, <2>4, HarmlessCall DEF d, Idn, Bak
  <2>6. ASSUME Do PROVE FilesSame /\ MarksSame /\ Bak' = Idn /\ Idn' = Missing /\ SavingOver(r)'
    <3>1. FilesSame /\ MarksSame /\ Bak' = Idn /\ Idn' = Missing /\ Tmp' = Tmp
      BY <2>2, <2>3, <2>6 DEF MoveIs, FilesSame, MarksSame, Bk, Old, Stg, Pnd, Bak, Idn, Tmp
    <3> QED BY <1>1, <1>2, <1>10, <2>3, <2>6, <3>1 DEF SavingOver
  <2> QED BY <1>2, <2>1, <2>5, <2>6, Doing
<1>11. CASE todo = Over6(r) /\ Idn = Missing /\ Bak # Missing /\ Tmp = Barrier
  <2>1. IsList(todo, RenameCall("idnTmp", "idn", UndoBak), r)
    BY <1>1, <1>11, Going
  <2> DEFINE d == Renamed(disk, "idnTmp", "idn")
  <2>2. MoveIs(d, "idnTmp", "idn")
    BY <1>1, MoveEffect, Names DEF State
  <2>3. Do => disk' = d /\ todo' = r /\ epub' = epub
    BY <2>1, Doing, CallEffect
  <2> HIDE DEF d
  <2>4. OwnedBy(slipped, disk, Bak) /\ (Old # Missing => Bak = Old)
    BY <1>1, <1>11 DEF Shape, Between, Idn, Bak, Old
  <2>5. Sound(epub, slipped, d, candidates) /\ Keeps(d)
    BY <1>1, <1>2, <1>5, <1>11, <2>2, <2>4, SoundIdentity DEF MoveIs, Bk, Old, Stg, Pnd, Idn, Bak, Tmp, Cch
  <2>6. Harmless(RenameCall("idnTmp", "idn", UndoBak))
    <3>1. Restorable(RenameCall("idnTmp", "idn", UndoBak))
      BY <1>1, <1>11 DEF Restorable
    <3>2. After(RenameCall("idnTmp", "idn", UndoBak)) = d
      BY CallEffect DEF d
    <3> QED BY <2>5, <3>1, <3>2, HarmlessCall
  <2>7. ASSUME Do PROVE FilesSame /\ MarksSame /\ Bak' = Bak /\ Idn' = Barrier /\ Tmp' = Missing /\ todo' = r
    BY <1>11, <2>2, <2>3, <2>7 DEF MoveIs, FilesSame, MarksSame, Bk, Old, Stg, Pnd, Bak, Idn, Tmp
  <2> QED BY <1>2, <1>11, <2>1, <2>6, <2>7, Doing
<1> QED BY <1>6, <1>7, <1>8, <1>9, <1>10, <1>11 DEF SavingOver

(* The same of a barrier that is cancelled. *)
LEMMA BackStep ==
  ASSUME Sound(epub, slipped, disk, candidates), NEW r \in Seq(Calls), Cancelling(r)
  PROVE  /\ todo # <<>> /\ Harmless(Head(todo))
         /\ Do => /\ FilesSame /\ Bak' = Bak
                  /\ \/ Cancelling(r)'
                     \/ todo' = r /\ Tmp' = Missing /\ Idn' = Bak
<1>1. epub /\ Typed(disk) /\ Shape(epub, slipped, disk)
  BY DEF Cancelling, Sound
<1>2. /\ Missing \notin Books /\ Barrier \notin Books /\ Torn \notin Books
      /\ Barrier # Missing /\ Missing # Torn /\ Barrier # Torn
  BY Distinct
<1>3. Undone(<<>>)
  BY DEF Undone
<1>4. /\ Bak \in Books \cup {Missing}
      /\ Idn # Missing \/ Bak # Missing => Cch # Missing
      /\ Idn = Barrier => /\ Bak # Missing => OwnedBy(slipped, disk, Bak)
                          /\ Old # Missing => Bak = Old
      /\ Idn = Missing /\ Bak # Missing => OwnedBy(slipped, disk, Bak) /\ (Old # Missing => Bak = Old)
  BY <1>1 DEF Typed, Shape, Unidentified, Behind, Between, Idn, Bak, Old, Cch
<1>5. Idn = Barrier => FitsTmp(Bak) /\ FitsTmp(Torn)
  BY <1>1, <1>2, <1>4 DEF FitsTmp
<1>6. PICK x : x = Bak
  OBVIOUS
<1>7. CASE todo = Back1(x, r) /\ Idn = Barrier /\ Bak # Missing
  <2>1. IsList(todo, RemoveCall("idnTmp", <<>>), Back2(x, r))
    BY <1>4, <1>6, <1>7, Going
  <2>2. todo # <<>> /\ Harmless(Head(todo))
    BY <1>3, <2>1, Doing, HarmlessTmp
  <2>3. ASSUME Do PROVE FilesSame /\ Bak' = Bak /\ Cancelling(r)'
    <3>1. SetIs(disk', "idnTmp", Missing) /\ todo' = Back2(x, r) /\ epub' = epub
      BY <1>1, <2>1, <2>3, DoingThis, Names DEF Rest
    <3>2. FilesSame /\ Bak' = Bak /\ Idn' = Idn /\ Tmp' = Missing
      BY <3>1 DEF SetIs, FilesSame, Bk, Old, Stg, Pnd, Bak, Idn, Tmp
    <3> QED BY <1>1, <1>6, <1>7, <3>1, <3>2 DEF Cancelling
  <2> QED BY <2>2, <2>3
<1>8. CASE todo = Back2(x, r) /\ Idn = Barrier /\ Bak # Missing /\ Tmp = Missing
  <2>1. IsList(todo, WriteCall("idnTmp", x, <<>>), Back3(r))
    BY <1>4, <1>6, <1>8, Going
  <2>2. todo # <<>> /\ Harmless(Head(todo))
    BY <1>3, <1>5, <1>6, <1>8, <2>1, Doing, HarmlessTmp
  <2>3. ASSUME Do PROVE FilesSame /\ Bak' = Bak /\ Cancelling(r)'
    <3>1. SetIs(disk', "idnTmp", x) /\ todo' = Back3(r) /\ epub' = epub
      BY <1>1, <2>1, <2>3, DoingThis, Names DEF Rest
    <3>2. FilesSame /\ Bak' = Bak /\ Idn' = Idn /\ Tmp' = x
      BY <3>1 DEF SetIs, FilesSame, Bk, Old, Stg, Pnd, Bak, Idn, Tmp
    <3> QED BY <1>1, <1>6, <1>8, <3>1, <3>2 DEF Cancelling
  <2> QED BY <2>2, <2>3
<1>9. CASE todo = Back3(r) /\ Idn = Barrier /\ Bak # Missing /\ Tmp = Bak
  <2>1. IsList(todo, RemoveCall("idn", <<>>), Back4(r))
    BY <1>4, <1>9, Going
  <2> DEFINE d == [disk EXCEPT !["idn"] = Missing]
  <2>2. SetIs(d, "idn", Missing)
    BY <1>1, SetEffect, Names
  <2>3. Do => disk' = d /\ todo' = Back4(r) /\ epub' = epub
    BY <2>1, Doing, CallEffect
  <2> HIDE DEF d
  <2>4. Sound(epub, slipped, d, candidates) /\ Keeps(d)
    BY <1>1, <1>2, <1>4, <1>9, <2>2, SoundIdentity DEF SetIs, Bk, Old, Stg, Pnd, Idn, Bak, Tmp, Cch
  <2>5. Harmless(RemoveCall("idn", <<>>))
    BY <1>3, <2>4, HarmlessCall DEF d
  <2>6. ASSUME Do PROVE FilesSame /\ Bak' = Bak /\ Cancelling(r)'
    <3>1. FilesSame /\ Bak' = Bak /\ Idn' = Missing /\ Tmp' = Tmp
      BY <2>2, <2>3, <2>6 DEF SetIs, FilesSame, Bk, Old, Stg, Pnd, Bak, Idn, Tmp
    <3> QED BY <1>1, <1>9, <2>3, <2>6, <3>1 DEF Cancelling
  <2> QED BY <2>1, <2>5, <2>6, Doing
<1>10. CASE todo = Back4(r) /\ Idn = Missing /\ Bak # Missing /\ Tmp = Bak
  <2>1. IsList(todo, RenameCall("idnTmp", "idn", <<>>), r)
    BY <1>4, <1>10, Going
  <2> DEFINE d == Renamed(disk, "idnTmp", "idn")
  <2>2. MoveIs(d, "idnTmp", "idn")
    BY <1>1, MoveEffect, Names DEF State
  <2>3. Do => disk' = d /\ todo' = r /\ epub' = epub
    BY <2>1, Doing, CallEffect
  <2> HIDE DEF d
  <2>4. Sound(epub, slipped, d, candidates) /\ Keeps(d)
    BY <1>1, <1>2, <1>4, <1>10, <2>2, SoundIdentity DEF MoveIs, Bk, Old, Stg, Pnd, Idn, Bak, Tmp, Cch
  <2>5. Harmless(RenameCall("idnTmp", "idn", <<>>))
    BY <1>2, <1>3, <1>10, <2>4, HarmlessCall DEF d, Idn, Tmp
  <2>6. ASSUME Do PROVE FilesSame /\ Bak' = Bak /\ todo' = r /\ Tmp' = Missing /\ Idn' = Bak
    BY <1>10, <2>2, <2>3, <2>6 DEF MoveIs, FilesSame, Bk, Old, Stg, Pnd, Bak, Idn, Tmp
  <2> QED BY <2>1, <2>5, <2>6, Doing
<1>11. CASE todo = Erase1(r) /\ Idn = Barrier /\ Bak = Missing /\ (Bk = Missing \/ Late) /\ Old = Missing
  <2>1. IsList(todo, RemoveCall("idnTmp", <<>>), Erase2(r))
    BY <1>11, Going
  <2>2. todo # <<>> /\ Harmless(Head(todo))
    BY <1>3, <2>1, Doing, HarmlessTmp
  <2>3. ASSUME Do PROVE FilesSame /\ Bak' = Bak /\ Cancelling(r)'
    <3>1. SetIs(disk', "idnTmp", Missing) /\ todo' = Erase2(r) /\ epub' = epub
      BY <1>1, <2>1, <2>3, DoingThis, Names DEF Rest
    <3>2. FilesSame /\ Bak' = Bak /\ Idn' = Idn /\ Tmp' = Missing
      BY <3>1 DEF SetIs, FilesSame, Bk, Old, Stg, Pnd, Bak, Idn, Tmp
    <3> QED BY <1>1, <1>11, <2>3, <3>1, <3>2 DEF Cancelling, FilesSame, Late, Do
  <2> QED BY <2>2, <2>3
<1>12. CASE todo = Erase2(r) /\ Idn = Barrier /\ Bak = Missing /\ (Bk = Missing \/ Late) /\ Old = Missing /\ Tmp = Missing
  <2>1. IsList(todo, RemoveCall("idn", <<>>), r)
    BY <1>12, Going
  <2> DEFINE d == [disk EXCEPT !["idn"] = Missing]
  <2>2. SetIs(d, "idn", Missing)
    BY <1>1, SetEffect, Names
  <2>3. Do => disk' = d /\ todo' = r /\ epub' = epub
    BY <2>1, Doing, CallEffect
  <2> HIDE DEF d
  <2>4. Sound(epub, slipped, d, candidates) /\ Keeps(d)
    BY <1>1, <1>2, <1>4, <1>12, <2>2, SoundIdentity DEF SetIs, Bk, Old, Stg, Pnd, Idn, Bak, Tmp, Cch
  <2>5. Harmless(RemoveCall("idn", <<>>))
    BY <1>3, <2>4, HarmlessCall DEF d
  <2>6. ASSUME Do PROVE FilesSame /\ Bak' = Bak /\ todo' = r /\ Tmp' = Missing /\ Idn' = Bak
    BY <1>12, <2>2, <2>3, <2>6 DEF SetIs, FilesSame, Bk, Old, Stg, Pnd, Bak, Idn, Tmp
  <2> QED BY <2>1, <2>5, <2>6, Doing
<1> QED BY <1>6, <1>7, <1>8, <1>9, <1>10, <1>11, <1>12 DEF Cancelling

-----------------------------------------------------------------------------
(* The state is put away, call by call. *)
LEMMA SoundState ==
  ASSUME Sound(epub, slipped, disk, candidates), NEW p \in {"clips", "marks"}, NEW v \in {Missing, Tombstone},
         v = Tombstone => p = "marks"
  PROVE  Sound(epub, slipped, [disk EXCEPT ![p] = v], candidates) /\ Keeps([disk EXCEPT ![p] = v])
<1> DEFINE d == [disk EXCEPT ![p] = v]
<1>1. SetIs(d, p, v) /\ Typed(disk) /\ Shape(epub, slipped, disk)
  BY SetEffect, Names DEF Sound
<1> HIDE DEF d
<1>2. \A q \in State : d[q] \in Books => d[q] = disk[q]
  BY <1>1, Distinct DEF SetIs, State
<1>3. (\A x : OwnedBy(slipped, disk, x) => OwnedBy(slipped, d, x)) /\ (Unowned(disk) => Unowned(d))
  BY <1>2, Fewer
<1>4. Typed(d)
  BY <1>1 DEF SetIs, Typed
<1>5. Shape(epub, slipped, d)
  BY <1>1, <1>3 DEF SetIs, Shape, Behind, Named, Between, Nameless, Unidentified
<1>6. Sound(epub, slipped, d, candidates)
  BY <1>1, <1>2, <1>4, <1>5, SoundRest DEF SetIs
<1>7. Keeps(d)
  BY <1>1, KeepsCache DEF SetIs
<1> QED BY <1>6, <1>7 DEF d

(* The cache directory goes last: then there is neither state nor identity. *)
LEMMA HarmlessQuarantine ==
  ASSUME Sound(epub, slipped, disk, candidates), Foreign, disk["clips"] = Missing, disk["marks"] \notin Books,
         NEW d, d = After(Call("quarantine", "cache", Missing, <<>>))
  PROVE  /\ Harmless(Call("quarantine", "cache", Missing, <<>>))
         /\ Unidentified(d) /\ Unowned(d)
         /\ d["book"] = Bk /\ d["old"] = Old /\ d["staging"] = Stg /\ d["pending"] = Pnd
<1>1. Typed(disk) /\ Marked(epub, slipped, disk) /\ Whole(slipped, disk, candidates)
  BY DEF Sound
<1>2. d = [p \in Path |-> IF p \in Identity \cup {"cache"} THEN Missing ELSE disk[p]]
  BY CallEffect
<1>3. d = [p \in Path |-> d[p]] /\ \A p \in Path : d[p] = IF p \in Identity \cup {"cache"} THEN Missing ELSE disk[p]
  BY <1>2
<1>4. /\ d["idn"] = Missing /\ d["idnBak"] = Missing /\ d["idnTmp"] = Missing /\ d["cache"] = Missing
      /\ d["book"] = disk["book"] /\ d["old"] = disk["old"]
      /\ d["staging"] = disk["staging"] /\ d["pending"] = disk["pending"]
      /\ d["clips"] = disk["clips"] /\ d["marks"] = disk["marks"]
  BY <1>3, Names DEF Identity
<1>5. Unidentified(d) /\ Unowned(d)
  BY <1>4, Distinct DEF Unidentified, Unowned, State
<1>6. \A x : OwnedBy(slipped, d, x)
  BY <1>5, UnownedBy
<1>7. Typed(d)
  BY <1>1, <1>3, <1>4 DEF Typed
<1>8. Shape(epub, slipped, d)
  BY <1>4, <1>5, <1>6, Distinct DEF Shape, Behind, Named, Between, Nameless
<1>9. Marked(epub, slipped, d)
  BY <1>1, <1>4, <1>6 DEF Marked
<1>10. Whole(slipped, d, candidates)
  BY <1>1, <1>4 DEF Whole, Heir
<1>11. Keeps(d)
  BY DEF Keeps, Foreign
<1>12. Harmless(Call("quarantine", "cache", Missing, <<>>))
  BY <1>7, <1>8, <1>9, <1>10, <1>11, HarmlessCall DEF Sound
<1> QED BY <1>4, <1>5, <1>12 DEF Bk, Old, Stg, Pnd

LEMMA AwayLists ==
  /\ \A r \in Aways : r \in Seq(Calls) /\ Away(r) \in Seq(Calls) /\ Over1(Away(r)) \in Seq(Calls)
       /\ \A x \in Books : New1(x, Over1(Away(r))) \in Seq(Calls)
<1>1. \A r \in Aways : r \in Seq(Calls)
  BY Lists DEF IsList, Aways
<1>2. \A r \in Seq(Calls) : Away(r) \in Seq(Calls) /\ Over1(r) \in Seq(Calls)
  BY Going DEF IsList
<1>3. \A r \in Seq(Calls) : \A x \in Books : New1(x, r) \in Seq(Calls)
  BY Going DEF IsList
<1> QED BY <1>1, <1>2, <1>3

(* State is put away only behind a barrier, and only another book's. *)
LEMMA AwayStep ==
  ASSUME Sound(epub, slipped, disk, candidates), Bk # Missing, Foreign, PuttingAway
  PROVE  /\ todo # <<>> /\ Harmless(Head(todo))
         /\ Do => /\ FilesSame /\ Foreign'
                  /\ \/ PuttingAway'
                     \/ todo' = <<>> /\ Unidentified(disk') /\ Unowned(disk')
<1>1. Typed(disk) /\ Shape(epub, slipped, disk)
  BY DEF Sound
<1>2. Bk \in Books /\ Missing \notin Books /\ Barrier \notin Books /\ Barrier # Missing /\ Tombstone \notin Books
  BY <1>1, Distinct DEF Typed, Bk
<1>3. Do => Rest
  BY DEF Do, Rest
<1>4. ASSUME Rest, FilesSame, {Idn', Bak'} \cap Books \subseteq {Idn, Bak} PROVE Foreign'
  BY <1>2, <1>4 DEF Rest, FilesSame, Foreign
<1>5. CASE todo = Away3 /\ disk["clips"] = Missing /\ (epub => Idn = Barrier)
  <2>1. IsList(todo, RemoveCall("marks", <<>>), Away2)
    BY <1>5, Lists
  <2> DEFINE d == [disk EXCEPT !["marks"] = Missing]
  <2>2. SetIs(d, "marks", Missing) /\ Sound(epub, slipped, d, candidates) /\ Keeps(d)
    BY <1>1, SetEffect, SoundState, Names, Distinct
  <2>3. Do => disk' = d /\ todo' = Away2
    BY <2>1, Doing, CallEffect
  <2>4. Harmless(RemoveCall("marks", <<>>))
    BY <2>2, HarmlessCall DEF Undone
  <2> HIDE DEF d
  <2>5. ASSUME Do PROVE FilesSame /\ Foreign' /\ PuttingAway'
    <3>1. FilesSame /\ Idn' = Idn /\ Bak' = Bak /\ disk'["clips"] = Missing /\ disk'["marks"] = Missing
      BY <1>5, <2>2, <2>3, <2>5 DEF SetIs, FilesSame, Bk, Old, Stg, Pnd, Idn, Bak
    <3> QED BY <1>2, <1>3, <1>4, <1>5, <2>3, <2>5, <3>1 DEF PuttingAway, Aways, Hides, Rest
  <2> QED BY <2>1, <2>4, <2>5, Doing
<1>6. CASE todo = Away2 /\ disk["clips"] = Missing /\ (epub => Idn = Barrier)
  <2> DEFINE c == Call("replace", "marks", Tombstone, <<>>)
  <2>1. IsList(todo, c, Away1)
    BY <1>6, Lists
  <2> DEFINE d == [disk EXCEPT !["marks"] = Tombstone]
  <2>2. SetIs(d, "marks", Tombstone) /\ Sound(epub, slipped, d, candidates) /\ Keeps(d)
    BY <1>1, SetEffect, SoundState, Names, Distinct
  <2>3. (Do => disk' = d /\ todo' = Away1) /\ After(c) = d
    BY <2>1, Doing, CallEffect
  <2>4. Harmless(c)
    BY <2>2, <2>3, HarmlessCall
  <2> HIDE DEF d
  <2>5. ASSUME Do PROVE FilesSame /\ Foreign' /\ PuttingAway'
    <3>1. FilesSame /\ Idn' = Idn /\ Bak' = Bak /\ disk'["clips"] = Missing /\ disk'["marks"] = Tombstone
      BY <1>6, <2>2, <2>3, <2>5 DEF SetIs, FilesSame, Bk, Old, Stg, Pnd, Idn, Bak
    <3> QED BY <1>2, <1>3, <1>4, <1>6, <2>3, <2>5, <3>1 DEF PuttingAway, Aways, Hides, Rest
  <2> QED BY <2>1, <2>4, <2>5, Doing
<1>7. CASE todo = Away1 /\ disk["clips"] = Missing /\ disk["marks"] \notin Books
  <2> DEFINE c == Call("quarantine", "cache", Missing, <<>>)
  <2>1. IsList(todo, c, <<>>)
    BY <1>7, Lists
  <2>2. Harmless(c)
    BY <1>7, HarmlessQuarantine
  <2>3. ASSUME Do PROVE FilesSame /\ Foreign' /\ todo' = <<>> /\ Unidentified(disk') /\ Unowned(disk')
    <3>1. disk' = After(c) /\ todo' = <<>>
      BY <2>1, <2>3, Doing
    <3>2. PICK d : d = After(c)
      OBVIOUS
    <3>3. /\ Unidentified(d) /\ Unowned(d)
          /\ d["book"] = Bk /\ d["old"] = Old /\ d["staging"] = Stg /\ d["pending"] = Pnd
      BY <1>7, <3>2, HarmlessQuarantine
    <3>4. FilesSame /\ Idn' = Missing /\ Bak' = Missing
      BY <3>1, <3>2, <3>3 DEF FilesSame, Unidentified, Bk, Old, Stg, Pnd, Idn, Bak
    <3> QED BY <1>2, <1>3, <1>4, <2>3, <3>1, <3>2, <3>3, <3>4
  <2> QED BY <2>1, <2>2, <2>3, Doing
<1>8. CASE \E r \in Aways : Hides(r) /\ todo = Away(r) /\ (epub => Idn = Barrier)
  <2>1. PICK r \in Aways : Hides(r) /\ todo = Away(r) /\ (epub => Idn = Barrier)
    BY <1>8
  <2>2. IsList(todo, RemoveCall("clips", <<>>), r)
    BY <2>1, AwayLists, Going
  <2> DEFINE d == [disk EXCEPT !["clips"] = Missing]
  <2>3. SetIs(d, "clips", Missing) /\ Sound(epub, slipped, d, candidates) /\ Keeps(d)
    BY <1>1, SetEffect, SoundState, Names, Distinct
  <2>4. Do => disk' = d /\ todo' = r
    BY <2>2, Doing, CallEffect
  <2>5. Harmless(RemoveCall("clips", <<>>))
    BY <2>3, HarmlessCall DEF Undone
  <2> HIDE DEF d
  <2>6. ASSUME Do PROVE FilesSame /\ Foreign' /\ PuttingAway'
    <3>1. /\ FilesSame /\ Idn' = Idn /\ Bak' = Bak /\ disk'["clips"] = Missing
          /\ disk'["marks"] = disk["marks"]
      BY <2>3, <2>4, <2>6 DEF SetIs, FilesSame, Bk, Old, Stg, Pnd, Idn, Bak
    <3> QED BY <1>2, <1>3, <1>4, <2>1, <2>4, <2>6, <3>1 DEF PuttingAway, Hides, Rest
  <2> QED BY <2>2, <2>5, <2>6, Doing
<1>9. CASE \E l \in Seq(Calls) : todo = Cons(MakeCall, l)
           /\ \E r \in Aways :
                /\ Hides(r)
                /\ \/ l = Away(r) /\ (epub => Idn = Barrier)
                   \/ epub /\ Idn \in Books /\ l = Over1(Away(r))
                   \/ epub /\ Idn = Missing /\ Bak # Missing /\ l = New1(Bak, Over1(Away(r)))
  <2>1. PICK l \in Seq(Calls) : todo = Cons(MakeCall, l)
           /\ \E r \in Aways :
                /\ Hides(r)
                /\ \/ l = Away(r) /\ (epub => Idn = Barrier)
                   \/ epub /\ Idn \in Books /\ l = Over1(Away(r))
                   \/ epub /\ Idn = Missing /\ Bak # Missing /\ l = New1(Bak, Over1(Away(r)))
    BY <1>9
  <2>2. PICK r \in Aways :
                /\ Hides(r)
                /\ \/ l = Away(r) /\ (epub => Idn = Barrier)
                   \/ epub /\ Idn \in Books /\ l = Over1(Away(r))
                   \/ epub /\ Idn = Missing /\ Bak # Missing /\ l = New1(Bak, Over1(Away(r)))
    BY <2>1
  <2>3. IsList(todo, MakeCall, l)
    BY <2>1, ConsIsList, EveryCall, Names
  <2>4. todo # <<>> /\ Harmless(Head(todo))
    BY <2>3, Doing, HarmlessMake
  <2>5. ASSUME Do PROVE FilesSame /\ Foreign' /\ PuttingAway'
    <3>1. disk' = After(MakeCall) /\ todo' = l /\ Rest
      BY <2>3, <2>5, Doing DEF Rest
    <3>2. \A p \in Path \ {"cache"} : disk'[p] = disk[p]
      BY <3>1, HarmlessMake
    <3>3. FilesSame /\ Bak' = Bak /\ Idn' = Idn /\ disk'["marks"] = disk["marks"]
      BY <3>2 DEF Path, State, Identity, FilesSame, Bk, Old, Stg, Pnd, Bak, Idn
    <3>4. Foreign'
      BY <1>4, <3>1, <3>3
    <3>5. CASE l = Away(r) /\ (epub => Idn = Barrier)
      BY <2>2, <3>1, <3>3, <3>4, <3>5 DEF PuttingAway, Hides, Rest
    <3>6. CASE epub /\ Idn \in Books /\ l = Over1(Away(r))
      BY <2>2, <3>1, <3>3, <3>4, <3>6 DEF PuttingAway, Hides, Rest, SavingOver
    <3>7. CASE epub /\ Idn = Missing /\ Bak # Missing /\ l = New1(Bak, Over1(Away(r)))
      <4>1. Bak \in Books
        BY <1>1, <3>7 DEF Typed, Bak
      <4> QED BY <2>2, <3>1, <3>3, <3>4, <3>7, <4>1 DEF PuttingAway, Hides, Rest, SavingNew
    <3> QED BY <2>2, <3>3, <3>4, <3>5, <3>6, <3>7
  <2> QED BY <2>4, <2>5
<1>10. CASE \E r \in Aways : epub /\ Hides(r) /\ SavingOver(Away(r))
  <2>1. PICK r \in Aways : epub /\ Hides(r) /\ SavingOver(Away(r))
    BY <1>10
  <2>2. Away(r) \in Seq(Calls)
    BY AwayLists
  <2>3. todo # <<>> /\ Harmless(Head(todo))
    BY <2>1, <2>2, OverStep
  <2>4. ASSUME Do PROVE FilesSame /\ Foreign' /\ PuttingAway'
    <3>1. /\ FilesSame /\ {Idn', Bak'} \cap Books \subseteq {Idn, Bak}
          /\ SavingOver(Away(r))' \/ (todo' = Away(r) /\ Idn' = Barrier)
      BY <2>1, <2>2, <2>4, OverStep
    <3>2. Hides(r)'
      BY <2>1, <2>2, <2>4, OverStep DEF Hides, MarksSame
    <3> QED BY <1>3, <1>4, <2>1, <2>4, <3>1, <3>2 DEF PuttingAway, Rest
  <2> QED BY <2>3, <2>4
<1>11. CASE \E r \in Aways : epub /\ Hides(r) /\ Bak # Missing /\ SavingNew(Bak, Over1(Away(r)))
  <2>1. PICK r \in Aways : epub /\ Hides(r) /\ Bak # Missing /\ SavingNew(Bak, Over1(Away(r)))
    BY <1>11
  <2>2. Over1(Away(r)) \in Seq(Calls)
    BY AwayLists
  <2>3. PICK x \in Books : x = Bak
    BY <1>1, <2>1 DEF Typed, Bak
  <2>4. SavingNew(x, Over1(Away(r)))
    BY <2>1, <2>3
  <2>5. todo # <<>> /\ Harmless(Head(todo))
    BY <2>2, <2>4, NewStep
  <2>6. ASSUME Do PROVE FilesSame /\ Foreign' /\ PuttingAway'
    <3>1. /\ FilesSame /\ Bak' = x
          /\ SavingNew(x, Over1(Away(r)))' \/ (todo' = Over1(Away(r)) /\ Idn' = x)
      BY <2>2, <2>3, <2>4, <2>6, NewStep
    <3>2. Hides(r)' /\ Rest
      BY <1>3, <2>1, <2>2, <2>4, <2>6, NewStep DEF Hides, MarksSame
    <3>3. CASE SavingNew(x, Over1(Away(r)))'
      <4>1. SavingNew(Bak, Over1(Away(r)))' /\ Bak' # Missing /\ Idn' = Missing
        BY <1>2, <3>1, <3>3 DEF SavingNew
      <4> QED BY <1>2, <1>4, <2>1, <2>3, <3>1, <3>2, <4>1 DEF PuttingAway, Rest
    <3>4. CASE todo' = Over1(Away(r)) /\ Idn' = x
      <4>1. SavingOver(Away(r))'
        BY <2>1, <3>2, <3>4 DEF SavingOver, Rest
      <4> QED BY <1>4, <2>1, <2>3, <3>1, <3>2, <3>4, <4>1 DEF PuttingAway, Rest
    <3> QED BY <3>1, <3>3, <3>4
  <2> QED BY <2>5, <2>6
<1> QED
  <2>1. CASE (epub => Idn = Barrier) /\ todo \in Aways /\ Hides(todo) /\ disk["clips"] = Missing
    BY <1>5, <1>6, <1>7, <2>1 DEF Aways, Hides
  <2>2. CASE (epub => Idn = Barrier) /\ \E r \in Aways : Hides(r) /\ todo \in {Away(r), Cons(MakeCall, Away(r))}
    BY <1>8, <1>9, <2>2, AwayLists
  <2>3. ASSUME NEW r \in Aways, epub, Hides(r),
               \/ Idn \in Books /\ todo = Cons(MakeCall, Over1(Away(r)))
               \/ Idn = Missing /\ Bak # Missing /\ todo = Cons(MakeCall, New1(Bak, Over1(Away(r))))
        PROVE  \E l \in Seq(Calls) : todo = Cons(MakeCall, l)
                 /\ \E s \in Aways :
                      /\ Hides(s)
                      /\ \/ l = Away(s) /\ (epub => Idn = Barrier)
                         \/ epub /\ Idn \in Books /\ l = Over1(Away(s))
                         \/ epub /\ Idn = Missing /\ Bak # Missing /\ l = New1(Bak, Over1(Away(s)))
    <3>1. Bak \in Books \cup {Missing}
      BY <1>1 DEF Typed, Bak
    <3> QED BY <2>3, <3>1, AwayLists
  <2> QED BY <1>9, <1>10, <1>11, <2>1, <2>2, <2>3 DEF PuttingAway

-----------------------------------------------------------------------------
(* The calls about the books and the marker. *)
StateSame == \A p \in State : disk'[p] = disk[p]
IdentitySame == Idn' = Idn /\ Bak' = Bak /\ Tmp' = Tmp

LEMMA SameState ==
  ASSUME StateSame
  PROVE  /\ \A x : OwnedBy(slipped, disk', x) <=> OwnedBy(slipped, disk, x)
         /\ Unowned(disk') <=> Unowned(disk)
         /\ HasState' <=> HasState
<1>1. (\A x : OwnedBy(slipped, disk', x) <=> OwnedBy(slipped, disk, x)) /\ (Unowned(disk') <=> Unowned(disk))
  BY DEF StateSame, OwnedBy, Unowned
<1>2. disk'["cache"] = disk["cache"] /\ disk'["clips"] = disk["clips"] /\ disk'["marks"] = disk["marks"]
  BY DEF StateSame, State
<1> QED BY <1>1, <1>2, StateBits

(* What a call about them leaves alone. *)
Elsewhere == Rest /\ StateSame /\ IdentitySame

(* What it does, however it was reported. *)
LEMMA FileEffect ==
  ASSUME Typed(disk), disk' = After(Head(todo)), NEW r
  PROVE  /\ IsList(todo, RemoveCall("book", <<>>), r) =>
              StateSame /\ IdentitySame /\ Bk' = Missing /\ Old' = Old /\ Stg' = Stg /\ Pnd' = Pnd
         /\ IsList(todo, RemoveCall("old", <<>>), r) =>
              StateSame /\ IdentitySame /\ Bk' = Bk /\ Old' = Missing /\ Stg' = Stg /\ Pnd' = Pnd
         /\ IsList(todo, RemoveCall("staging", <<>>), r) =>
              StateSame /\ IdentitySame /\ Bk' = Bk /\ Old' = Old /\ Stg' = Missing /\ Pnd' = Pnd
         /\ IsList(todo, RemoveCall("pending", <<>>), r) =>
              StateSame /\ IdentitySame /\ Bk' = Bk /\ Old' = Old /\ Stg' = Stg /\ Pnd' = Missing
         /\ \A v : IsList(todo, WriteCall("pending", v, <<>>), r) =>
              StateSame /\ IdentitySame /\ Bk' = Bk /\ Old' = Old /\ Stg' = Stg /\ Pnd' = v
         /\ IsList(todo, RenameCall("old", "book", <<>>), r) =>
              StateSame /\ IdentitySame /\ Bk' = Old /\ Old' = Missing /\ Stg' = Stg /\ Pnd' = Pnd
         /\ IsList(todo, RenameCall("book", "old", <<>>), r) =>
              StateSame /\ IdentitySame /\ Bk' = Missing /\ Old' = Bk /\ Stg' = Stg /\ Pnd' = Pnd
         /\ IsList(todo, RenameCall("staging", "book", <<>>), r) =>
              StateSame /\ IdentitySame /\ Bk' = Stg /\ Old' = Old /\ Stg' = Missing /\ Pnd' = Pnd
         /\ IsList(todo, RenameCall("book", "staging", <<>>), r) =>
              StateSame /\ IdentitySame /\ Bk' = Missing /\ Old' = Old /\ Stg' = Bk /\ Pnd' = Pnd
<1>1. ASSUME NEW p \in {"book", "old", "staging", "pending"}, NEW v, SetIs(disk', p, v)
      PROVE  /\ StateSame /\ IdentitySame
             /\ Bk' = IF p = "book" THEN v ELSE Bk
             /\ Old' = IF p = "old" THEN v ELSE Old
             /\ Stg' = IF p = "staging" THEN v ELSE Stg
             /\ Pnd' = IF p = "pending" THEN v ELSE Pnd
  BY <1>1 DEF SetIs, StateSame, State, IdentitySame, Idn, Bak, Tmp, Bk, Old, Stg, Pnd
<1>2. ASSUME NEW p \in {"book", "old", "staging"}, NEW q \in {"book", "old", "staging"}, MoveIs(disk', p, q)
      PROVE  /\ StateSame /\ IdentitySame
             /\ Bk' = IF p = "book" THEN Missing ELSE IF q = "book" THEN disk[p] ELSE Bk
             /\ Old' = IF p = "old" THEN Missing ELSE IF q = "old" THEN disk[p] ELSE Old
             /\ Stg' = IF p = "staging" THEN Missing ELSE IF q = "staging" THEN disk[p] ELSE Stg
             /\ Pnd' = Pnd
  BY <1>2 DEF MoveIs, StateSame, State, IdentitySame, Idn, Bak, Tmp, Bk, Old, Stg, Pnd
<1>3. ASSUME NEW p \in {"book", "old", "staging", "pending"}
      PROVE  /\ IsList(todo, RemoveCall(p, <<>>), r) => SetIs(disk', p, Missing)
             /\ \A v : IsList(todo, WriteCall(p, v, <<>>), r) => SetIs(disk', p, v)
  BY CallEffect, SetEffect, Names DEF IsList
<1>4. ASSUME NEW p \in {"book", "old", "staging"}, NEW q \in {"book", "old", "staging"}, p # q,
             IsList(todo, RenameCall(p, q, <<>>), r)
      PROVE  MoveIs(disk', p, q)
  <2>1. p \in Path \ (State \cup {"pending"}) /\ q \in Path \ (State \cup {"pending"})
    BY Names DEF State
  <2>2. disk' = Renamed(disk, p, q)
    BY <1>4, CallEffect DEF IsList
  <2> QED BY <1>4, <2>1, <2>2, MoveEffect
<1>5. /\ IsList(todo, RemoveCall("book", <<>>), r) =>
           StateSame /\ IdentitySame /\ Bk' = Missing /\ Old' = Old /\ Stg' = Stg /\ Pnd' = Pnd
      /\ IsList(todo, RemoveCall("old", <<>>), r) =>
           StateSame /\ IdentitySame /\ Bk' = Bk /\ Old' = Missing /\ Stg' = Stg /\ Pnd' = Pnd
  BY <1>1, <1>3
<1>6. /\ IsList(todo, RemoveCall("staging", <<>>), r) =>
           StateSame /\ IdentitySame /\ Bk' = Bk /\ Old' = Old /\ Stg' = Missing /\ Pnd' = Pnd
      /\ IsList(todo, RemoveCall("pending", <<>>), r) =>
           StateSame /\ IdentitySame /\ Bk' = Bk /\ Old' = Old /\ Stg' = Stg /\ Pnd' = Missing
  BY <1>1, <1>3
<1>7. \A v : IsList(todo, WriteCall("pending", v, <<>>), r) =>
           StateSame /\ IdentitySame /\ Bk' = Bk /\ Old' = Old /\ Stg' = Stg /\ Pnd' = v
  BY <1>1, <1>3
<1>8. /\ IsList(todo, RenameCall("old", "book", <<>>), r) =>
           StateSame /\ IdentitySame /\ Bk' = Old /\ Old' = Missing /\ Stg' = Stg /\ Pnd' = Pnd
      /\ IsList(todo, RenameCall("book", "old", <<>>), r) =>
           StateSame /\ IdentitySame /\ Bk' = Missing /\ Old' = Bk /\ Stg' = Stg /\ Pnd' = Pnd
  BY <1>2, <1>4 DEF Bk, Old
<1>9. /\ IsList(todo, RenameCall("staging", "book", <<>>), r) =>
           StateSame /\ IdentitySame /\ Bk' = Stg /\ Old' = Old /\ Stg' = Missing /\ Pnd' = Pnd
      /\ IsList(todo, RenameCall("book", "staging", <<>>), r) =>
           StateSame /\ IdentitySame /\ Bk' = Missing /\ Old' = Old /\ Stg' = Bk /\ Pnd' = Pnd
  BY <1>2, <1>4 DEF Bk, Stg
<1> QED BY <1>5, <1>6, <1>7, <1>8, <1>9

LEMMA FileStep ==
  ASSUME Typed(disk), Do, NEW r
  PROVE  /\ IsList(todo, RemoveCall("book", <<>>), r) =>
              todo' = r /\ Elsewhere /\ Bk' = Missing /\ Old' = Old /\ Stg' = Stg /\ Pnd' = Pnd
         /\ IsList(todo, RemoveCall("old", <<>>), r) =>
              todo' = r /\ Elsewhere /\ Bk' = Bk /\ Old' = Missing /\ Stg' = Stg /\ Pnd' = Pnd
         /\ IsList(todo, RemoveCall("staging", <<>>), r) =>
              todo' = r /\ Elsewhere /\ Bk' = Bk /\ Old' = Old /\ Stg' = Missing /\ Pnd' = Pnd
         /\ IsList(todo, RemoveCall("pending", <<>>), r) =>
              todo' = r /\ Elsewhere /\ Bk' = Bk /\ Old' = Old /\ Stg' = Stg /\ Pnd' = Missing
         /\ \A v : IsList(todo, WriteCall("pending", v, <<>>), r) =>
              todo' = r /\ Elsewhere /\ Bk' = Bk /\ Old' = Old /\ Stg' = Stg /\ Pnd' = v
         /\ IsList(todo, RenameCall("old", "book", <<>>), r) =>
              todo' = r /\ Elsewhere /\ Bk' = Old /\ Old' = Missing /\ Stg' = Stg /\ Pnd' = Pnd
         /\ IsList(todo, RenameCall("book", "old", <<>>), r) =>
              todo' = r /\ Elsewhere /\ Bk' = Missing /\ Old' = Bk /\ Stg' = Stg /\ Pnd' = Pnd
         /\ IsList(todo, RenameCall("staging", "book", <<>>), r) =>
              todo' = r /\ Elsewhere /\ Bk' = Stg /\ Old' = Old /\ Stg' = Missing /\ Pnd' = Pnd
         /\ IsList(todo, RenameCall("book", "staging", <<>>), r) =>
              todo' = r /\ Elsewhere /\ Bk' = Missing /\ Old' = Old /\ Stg' = Bk /\ Pnd' = Pnd
<1>1. disk' = After(Head(todo)) /\ todo' = Tail(todo) /\ Rest
  BY DEF Do, Rest
<1>2. ASSUME NEW c, IsList(todo, c, r), StateSame, IdentitySame PROVE todo' = r /\ Elsewhere
  BY <1>1, <1>2 DEF IsList, Elsewhere
<1>3. /\ IsList(todo, RemoveCall("book", <<>>), r) =>
           todo' = r /\ Elsewhere /\ Bk' = Missing /\ Old' = Old /\ Stg' = Stg /\ Pnd' = Pnd
      /\ IsList(todo, RemoveCall("old", <<>>), r) =>
           todo' = r /\ Elsewhere /\ Bk' = Bk /\ Old' = Missing /\ Stg' = Stg /\ Pnd' = Pnd
      /\ IsList(todo, RemoveCall("staging", <<>>), r) =>
           todo' = r /\ Elsewhere /\ Bk' = Bk /\ Old' = Old /\ Stg' = Missing /\ Pnd' = Pnd
  BY <1>1, <1>2, FileEffect
<1>4. /\ IsList(todo, RemoveCall("pending", <<>>), r) =>
           todo' = r /\ Elsewhere /\ Bk' = Bk /\ Old' = Old /\ Stg' = Stg /\ Pnd' = Missing
      /\ \A v : IsList(todo, WriteCall("pending", v, <<>>), r) =>
           todo' = r /\ Elsewhere /\ Bk' = Bk /\ Old' = Old /\ Stg' = Stg /\ Pnd' = v
  BY <1>1, <1>2, FileEffect
<1>5. /\ IsList(todo, RenameCall("old", "book", <<>>), r) =>
           todo' = r /\ Elsewhere /\ Bk' = Old /\ Old' = Missing /\ Stg' = Stg /\ Pnd' = Pnd
      /\ IsList(todo, RenameCall("book", "old", <<>>), r) =>
           todo' = r /\ Elsewhere /\ Bk' = Missing /\ Old' = Bk /\ Stg' = Stg /\ Pnd' = Pnd
  BY <1>1, <1>2, FileEffect
<1>6. /\ IsList(todo, RenameCall("staging", "book", <<>>), r) =>
           todo' = r /\ Elsewhere /\ Bk' = Stg /\ Old' = Old /\ Stg' = Missing /\ Pnd' = Pnd
      /\ IsList(todo, RenameCall("book", "staging", <<>>), r) =>
           todo' = r /\ Elsewhere /\ Bk' = Missing /\ Old' = Old /\ Stg' = Bk /\ Pnd' = Pnd
  BY <1>1, <1>2, FileEffect
<1> QED BY <1>3, <1>4, <1>5, <1>6

(* The files of the path, with the identity and the state as they are.     *)
FilesAre(d, book, old, staging, pending) ==
  /\ d = [q \in Path |-> d[q]]
  /\ d["book"] = book /\ d["old"] = old /\ d["staging"] = staging /\ d["pending"] = pending
  /\ d["idn"] = Idn /\ d["idnBak"] = Bak /\ d["idnTmp"] = Tmp
  /\ d["cache"] = disk["cache"] /\ d["clips"] = disk["clips"] /\ d["marks"] = disk["marks"]

(* The card stays sound if the books and the marker are what identity and  *)
(* marker allow them to be.                                                *)
LEMMA SoundFiles ==
  ASSUME Sound(epub, slipped, disk, candidates),
         NEW b \in Books \cup {Missing}, NEW o \in Books \cup {Missing},
         NEW s \in Books \cup {Missing, Torn}, NEW m \in {Missing, Torn, Had, New},
         o # Missing => (m = Had \/ "rotated" \in slipped) /\ o \in candidates,
         IF b # Missing THEN b \in candidates ELSE o # Missing \/ Missing \in candidates,
         Idn = Barrier /\ o # Missing => Bak = o,
         Idn \in Books /\ o # Missing => Idn = o,
         Idn = Missing /\ Bak # Missing /\ o # Missing => Bak = o,
         Idn = Missing /\ Bak = Missing =>
           /\ Tmp \in {Missing, Torn, Barrier, b}
           /\ Tmp # Missing => o = Missing
           /\ Tmp = Barrier => b = Missing
           /\ epub /\ b # Missing => OwnedBy(slipped, disk, b)
           /\ epub /\ o # Missing => Unowned(disk),
         ~epub /\ b # Missing /\ ~(m = Had /\ o # Missing) /\ ~(m = New /\ o = Missing) => OwnedBy(slipped, disk, b),
         ~epub /\ b = Missing /\ o # Missing => OwnedBy(slipped, disk, o),
         ~epub /\ m = Had => b # Missing \/ o # Missing,
         NEW d, FilesAre(d, b, o, s, m)
  PROVE  Sound(epub, slipped, d, candidates) /\ Keeps(d)
<1>1. Typed(disk) /\ Shape(epub, slipped, disk)
  BY DEF Sound
<1>2. \A p \in State : d[p] = disk[p]
  BY DEF FilesAre, State
<1>3. (\A x : OwnedBy(slipped, disk, x) => OwnedBy(slipped, d, x)) /\ (Unowned(disk) => Unowned(d))
  BY <1>2, Fewer
<1>4. Typed(d)
  BY <1>1 DEF Typed, FilesAre, Idn, Bak, Tmp
<1>5. Shape(epub, slipped, d)
  <2>1. Behind(slipped, d) /\ Named(slipped, d) /\ Between(slipped, d)
    BY <1>1, <1>3 DEF Shape, Behind, Named, Between, FilesAre, Idn, Bak, Tmp
  <2>2. Nameless(epub, slipped, d)
    BY <1>1, <1>3 DEF Nameless, FilesAre, Idn, Bak, Tmp
  <2> QED BY <1>1, <2>1, <2>2 DEF Shape, FilesAre, Unidentified, Idn, Bak, Tmp
<1>6. Marked(epub, slipped, d)
  BY <1>3 DEF Marked, Stale, FilesAre
<1>7. Whole(slipped, d, candidates)
  BY DEF Whole, Heir, FilesAre
<1>8. Keeps(d)
  BY KeepsCache DEF FilesAre
<1> QED BY <1>4, <1>5, <1>6, <1>7, <1>8 DEF Sound

LEMMA FilesAfter ==
  ASSUME Typed(disk)
  PROVE  /\ FilesAre([disk EXCEPT !["book"] = Missing], Missing, Old, Stg, Pnd)
         /\ FilesAre([disk EXCEPT !["old"] = Missing], Bk, Missing, Stg, Pnd)
         /\ FilesAre([disk EXCEPT !["staging"] = Missing], Bk, Old, Missing, Pnd)
         /\ \A v : FilesAre([disk EXCEPT !["pending"] = v], Bk, Old, Stg, v)
         /\ FilesAre(Renamed(disk, "old", "book"), Old, Missing, Stg, Pnd)
         /\ FilesAre(Renamed(disk, "book", "old"), Missing, Bk, Stg, Pnd)
         /\ FilesAre(Renamed(disk, "staging", "book"), Stg, Old, Missing, Pnd)
         /\ FilesAre(Renamed(disk, "book", "staging"), Missing, Old, Bk, Pnd)
<1>1. ASSUME NEW p \in {"book", "old", "staging", "pending"}, NEW v
      PROVE  FilesAre([disk EXCEPT ![p] = v], IF p = "book" THEN v ELSE Bk, IF p = "old" THEN v ELSE Old,
                      IF p = "staging" THEN v ELSE Stg, IF p = "pending" THEN v ELSE Pnd)
  <2> DEFINE d == [disk EXCEPT ![p] = v]
  <2>1. SetIs(d, p, v)
    BY SetEffect, Names
  <2> HIDE DEF d
  <2>2. FilesAre(d, IF p = "book" THEN v ELSE Bk, IF p = "old" THEN v ELSE Old,
                 IF p = "staging" THEN v ELSE Stg, IF p = "pending" THEN v ELSE Pnd)
    BY <2>1 DEF SetIs, FilesAre, Bk, Old, Stg, Pnd, Idn, Bak, Tmp
  <2> QED BY <2>2 DEF d
<1>2. ASSUME NEW p \in {"book", "old", "staging"}, NEW q \in {"book", "old", "staging"}, p # q
      PROVE  FilesAre(Renamed(disk, p, q),
                      IF p = "book" THEN Missing ELSE IF q = "book" THEN disk[p] ELSE Bk,
                      IF p = "old" THEN Missing ELSE IF q = "old" THEN disk[p] ELSE Old,
                      IF p = "staging" THEN Missing ELSE IF q = "staging" THEN disk[p] ELSE Stg, Pnd)
  <2> DEFINE d == Renamed(disk, p, q)
  <2>1. p \in Path \ (State \cup {"pending"}) /\ q \in Path \ (State \cup {"pending"})
    BY Names DEF State
  <2>2. MoveIs(d, p, q)
    BY <1>2, <2>1, MoveEffect
  <2> HIDE DEF d
  <2>3. FilesAre(d, IF p = "book" THEN Missing ELSE IF q = "book" THEN disk[p] ELSE Bk,
                    IF p = "old" THEN Missing ELSE IF q = "old" THEN disk[p] ELSE Old,
                    IF p = "staging" THEN Missing ELSE IF q = "staging" THEN disk[p] ELSE Stg, Pnd)
    BY <2>2 DEF MoveIs, FilesAre, Bk, Old, Stg, Pnd, Idn, Bak, Tmp
  <2> QED BY <2>3 DEF d
<1>3. /\ FilesAre([disk EXCEPT !["book"] = Missing], Missing, Old, Stg, Pnd)
      /\ FilesAre([disk EXCEPT !["old"] = Missing], Bk, Missing, Stg, Pnd)
  BY <1>1, Zenon
<1>4. /\ FilesAre([disk EXCEPT !["staging"] = Missing], Bk, Old, Missing, Pnd)
      /\ \A v : FilesAre([disk EXCEPT !["pending"] = v], Bk, Old, Stg, v)
  BY <1>1, Zenon
<1>5. /\ FilesAre(Renamed(disk, "old", "book"), Old, Missing, Stg, Pnd)
      /\ FilesAre(Renamed(disk, "book", "old"), Missing, Bk, Stg, Pnd)
  BY <1>2 DEF Old, Bk
<1>6. /\ FilesAre(Renamed(disk, "staging", "book"), Stg, Old, Missing, Pnd)
      /\ FilesAre(Renamed(disk, "book", "staging"), Missing, Old, Bk, Pnd)
  BY <1>2 DEF Stg, Bk
<1> QED BY <1>3, <1>4, <1>5, <1>6

(* What the files are, from what is known of the card.                     *)
LEMMA SoundFacts ==
  ASSUME Sound(epub, slipped, disk, candidates)
  PROVE  /\ Bk \in Books \cup {Missing} /\ Old \in Books \cup {Missing}
         /\ Stg \in Books \cup {Missing, Torn} /\ Pnd \in {Missing, Torn, Had, New}
         /\ Idn \in Books \cup {Missing, Barrier} /\ Bak \in Books \cup {Missing}
         /\ Tmp \in Books \cup {Missing, Barrier, Torn}
         /\ Old # Missing => (Pnd = Had \/ "rotated" \in slipped) /\ Old \in candidates
         /\ IF Bk # Missing THEN Bk \in candidates ELSE Old # Missing \/ Missing \in candidates
         /\ Idn = Barrier =>
              /\ Tmp \in {Missing, Torn, Bak}
              /\ Bak # Missing => OwnedBy(slipped, disk, Bak)
              /\ Old # Missing => Bak = Old
         /\ Idn \in Books =>
              /\ Bak \in {Missing, Idn} /\ Tmp \in {Missing, Torn, Barrier}
              /\ OwnedBy(slipped, disk, Idn)
              /\ Old # Missing => Idn = Old
         /\ Idn = Missing /\ Bak # Missing =>
              /\ Tmp \in {Missing, Torn, Barrier, Bak}
              /\ OwnedBy(slipped, disk, Bak)
              /\ Old # Missing => Bak = Old
         /\ Idn = Missing /\ Bak = Missing =>
              /\ Tmp \in {Missing, Torn, Barrier, Bk}
              /\ Tmp # Missing => Old = Missing
              /\ Tmp = Barrier => Bk = Missing
              /\ epub /\ Bk # Missing => OwnedBy(slipped, disk, Bk)
              /\ epub /\ Old # Missing => Unowned(disk)
         /\ ~epub \/ Cch = Missing => Idn = Missing /\ Bak = Missing /\ Tmp = Missing
         /\ ~epub =>
              /\ Bk # Missing /\ ~(Pnd = Had /\ Old # Missing) /\ ~(Pnd = New /\ Old = Missing) => OwnedBy(slipped, disk, Bk)
              /\ Bk = Missing /\ Old # Missing => OwnedBy(slipped, disk, Old)
              /\ Pnd = Had => Bk # Missing \/ Old # Missing
<1>1. Typed(disk) /\ Shape(epub, slipped, disk) /\ Marked(epub, slipped, disk) /\ Whole(slipped, disk, candidates)
  BY DEF Sound
<1>2. /\ Bk \in Books \cup {Missing} /\ Old \in Books \cup {Missing}
      /\ Stg \in Books \cup {Missing, Torn} /\ Pnd \in {Missing, Torn, Had, New}
      /\ Idn \in Books \cup {Missing, Barrier} /\ Bak \in Books \cup {Missing}
      /\ Tmp \in Books \cup {Missing, Barrier, Torn}
  BY <1>1 DEF Typed, Bk, Old, Stg, Pnd, Idn, Bak, Tmp
<1>3. /\ Old # Missing => (Pnd = Had \/ "rotated" \in slipped) /\ Old \in candidates
      /\ IF Bk # Missing THEN Bk \in candidates ELSE Old # Missing \/ Missing \in candidates
  BY <1>1 DEF Whole, Heir, Bk, Old, Pnd
<1>4. /\ Idn = Barrier =>
           /\ Tmp \in {Missing, Torn, Bak}
           /\ Bak # Missing => OwnedBy(slipped, disk, Bak)
           /\ Old # Missing => Bak = Old
      /\ Idn \in Books =>
           /\ Bak \in {Missing, Idn} /\ Tmp \in {Missing, Torn, Barrier}
           /\ OwnedBy(slipped, disk, Idn)
           /\ Old # Missing => Idn = Old
      /\ Idn = Missing /\ Bak # Missing =>
           /\ Tmp \in {Missing, Torn, Barrier, Bak}
           /\ OwnedBy(slipped, disk, Bak)
           /\ Old # Missing => Bak = Old
  BY <1>1 DEF Shape, Behind, Named, Between, Old, Idn, Bak, Tmp
<1>5. /\ Idn = Missing /\ Bak = Missing =>
           /\ Tmp \in {Missing, Torn, Barrier, Bk}
           /\ Tmp # Missing => Old = Missing
           /\ Tmp = Barrier => Bk = Missing
           /\ epub /\ Bk # Missing => OwnedBy(slipped, disk, Bk)
           /\ epub /\ Old # Missing => Unowned(disk)
      /\ ~epub \/ Cch = Missing => Idn = Missing /\ Bak = Missing /\ Tmp = Missing
  BY <1>1 DEF Shape, Nameless, Unidentified, Bk, Old, Idn, Bak, Tmp, Cch
<1>6. ~epub =>
        /\ Bk # Missing /\ ~(Pnd = Had /\ Old # Missing) /\ ~(Pnd = New /\ Old = Missing) => OwnedBy(slipped, disk, Bk)
        /\ Bk = Missing /\ Old # Missing => OwnedBy(slipped, disk, Old)
        /\ Pnd = Had => Bk # Missing \/ Old # Missing
  BY <1>1 DEF Marked, Stale, Bk, Old, Pnd
<1> QED BY <1>2, <1>3, <1>4, <1>5, <1>6

(* Where nothing stands behind a barrier there is no state.                *)
LEMMA NothingBlocked ==
  ASSUME Sound(epub, slipped, disk, candidates), Blocked, Idn # Barrier
  PROVE  /\ Idn = Missing /\ Bak = Missing /\ Tmp = Missing
         /\ epub => \A x : OwnedBy(slipped, disk, x)
         /\ epub => Unowned(disk)
<1>1. epub => ~HasState
  BY DEF Blocked
<1>2. ~HasState => Unidentified(disk) /\ Unowned(disk)
  BY Stateless
<1>3. Unowned(disk) => \A x : OwnedBy(slipped, disk, x)
  BY UnownedBy
<1>4. ~epub => Idn = Missing /\ Bak = Missing /\ Tmp = Missing
  BY SoundFacts
<1> QED BY <1>1, <1>2, <1>3, <1>4 DEF Unidentified, Idn, Bak, Tmp

(* The marker may go when there is no old book, or what there is is taken  *)
(* for none, and the state is our own;                                     *)
LEMMA HarmlessUnmark ==
  ASSUME Sound(epub, slipped, disk, candidates), Old = Missing \/ Stranded, Own
  PROVE  Harmless(RemoveCall("pending", <<>>))
<1> DEFINE d == [disk EXCEPT !["pending"] = Missing]
<1>1. FilesAre(d, Bk, Old, Stg, Missing)
  BY FilesAfter DEF Sound
<1> HIDE DEF d
<1>2. Sound(epub, slipped, d, candidates) /\ Keeps(d)
  BY <1>1, SoundFacts, SoundFiles, Distinct DEF Own, Stranded
<1> QED BY <1>2, HarmlessCall DEF d, Undone

(* it may be written while there is no old book; *)
LEMMA HarmlessMark ==
  ASSUME Sound(epub, slipped, disk, candidates), Old = Missing, Own, pc = "marked",
         NEW v \in {Had, New}, IF v = Had THEN Bk # Missing ELSE ~epub /\ Bk = Missing
  PROVE  Harmless(WriteCall("pending", v, <<>>))
<1> DEFINE d == [disk EXCEPT !["pending"] = v]
           t == [disk EXCEPT !["pending"] = Torn]
<1>1. FilesAre(d, Bk, Old, Stg, v) /\ FilesAre(t, Bk, Old, Stg, Torn)
  BY FilesAfter DEF Sound
<1> HIDE DEF d, t
<1>2. Torn # Had /\ Torn # New /\ Had # New
  BY Distinct
<1>3. Sound(epub, slipped, d, candidates)
  BY <1>1, <1>2, SoundFacts, SoundFiles DEF Own
<1>4. Sound(epub, slipped, t, candidates)
  BY <1>1, <1>2, SoundFacts, SoundFiles DEF Own
<1> QED BY <1>3, <1>4, HarmlessCall DEF d, t

(* The old book comes back. *)
LEMMA HarmlessReturn ==
  ASSUME Sound(epub, slipped, disk, candidates), Bk = Missing, Old # Missing
  PROVE  Harmless(RenameCall("old", "book", <<>>))
<1> DEFINE d == Renamed(disk, "old", "book")
<1>1. FilesAre(d, Old, Missing, Stg, Pnd)
  BY FilesAfter DEF Sound
<1> HIDE DEF d
<1>2. Unowned(disk) => OwnedBy(slipped, disk, Old)
  BY UnownedBy
<1>3. Had # New /\ Barrier # Missing /\ Missing \notin Books
  BY Distinct
<1>4. Sound(epub, slipped, d, candidates) /\ Keeps(d)
  BY <1>1, <1>2, <1>3, SoundFacts, SoundFiles
<1> QED BY <1>4, HarmlessCall DEF d, Undone, Bk, Old

(* the old book may go when the state is that of the new one; *)
LEMMA HarmlessDrop ==
  ASSUME Sound(epub, slipped, disk, candidates), Bk # Missing, Own
  PROVE  Harmless(RemoveCall("old", <<>>))
<1> DEFINE d == [disk EXCEPT !["old"] = Missing]
<1>1. FilesAre(d, Bk, Missing, Stg, Pnd)
  BY FilesAfter DEF Sound
<1> HIDE DEF d
<1>2. Sound(epub, slipped, d, candidates) /\ Keeps(d)
  BY <1>1, SoundFacts, SoundFiles, Distinct DEF Own
<1> QED BY <1>2, HarmlessCall DEF d, Undone

(* A book that cannot be read makes way for the old one.                   *)
LEMMA HarmlessClear ==
  ASSUME Sound(epub, slipped, disk, candidates), epub, Old # Missing
  PROVE  Harmless(RemoveCall("book", <<>>))
<1> DEFINE d == [disk EXCEPT !["book"] = Missing]
<1>1. FilesAre(d, Missing, Old, Stg, Pnd)
  BY FilesAfter DEF Sound
<1> HIDE DEF d
<1>2. /\ Old \in Books \cup {Missing} /\ Stg \in Books \cup {Missing, Torn} /\ Pnd \in {Missing, Torn, Had, New}
      /\ (Pnd = Had \/ "rotated" \in slipped) /\ Old \in candidates
      /\ Idn = Barrier => Bak = Old
      /\ Idn \in Books => Idn = Old
      /\ Idn = Missing /\ Bak # Missing => Bak = Old
      /\ Idn = Missing /\ Bak = Missing => Tmp = Missing /\ Unowned(disk)
  BY SoundFacts
<1>3. Sound(epub, slipped, d, candidates) /\ Keeps(d)
  BY <1>1, <1>2, SoundFiles, Distinct
<1> QED BY <1>3, HarmlessCall DEF d, Undone

(* a book becomes the old book behind its barrier and with its marker; *)
LEMMA HarmlessRotate ==
  ASSUME Sound(epub, slipped, disk, candidates), Barriered, Bk # Missing, Pnd = Had, Old = Missing
  PROVE  Harmless(RenameCall("book", "old", <<>>))
<1> DEFINE d == Renamed(disk, "book", "old")
<1>1. FilesAre(d, Missing, Bk, Stg, Pnd)
  BY FilesAfter DEF Sound
<1> HIDE DEF d
<1>2. Idn = Barrier => Bak = Bk
  <2>1. Idn = Barrier => epub /\ Cch # Missing
    BY SoundFacts, Distinct
  <2>2. Cch # Missing => HasState
    BY StateBits DEF Cch
  <2> QED BY <2>1, <2>2 DEF Barriered
<1>3. Idn # Barrier => Idn = Missing /\ Bak = Missing /\ Tmp = Missing /\ (epub => Unowned(disk))
  BY NothingBlocked DEF Barriered
<1>4. Had # New /\ Barrier # Missing /\ Missing \notin Books /\ Barrier \notin Books
  BY Distinct
<1>5. Sound(epub, slipped, d, candidates) /\ Keeps(d)
  BY <1>1, <1>2, <1>3, <1>4, SoundFacts, SoundFiles
<1> QED BY <1>5, HarmlessCall DEF d, Undone, Bk, Old

(* the upload becomes the book behind a barrier or with a marker; *)
LEMMA HarmlessPublish ==
  ASSUME Sound(epub, slipped, disk, candidates), Blocked, Bk = Missing, FirstBook, NewMarked, Secured,
         Stg \in Books, Stg \in candidates
  PROVE  Harmless(RenameCall("staging", "book", <<>>))
<1> DEFINE d == Renamed(disk, "staging", "book")
<1>1. FilesAre(d, Stg, Old, Missing, Pnd)
  BY FilesAfter DEF Sound
<1> HIDE DEF d
<1>2. Idn # Barrier => /\ Idn = Missing /\ Bak = Missing /\ Tmp = Missing
                       /\ epub => Unowned(disk) /\ OwnedBy(slipped, disk, Stg)
  BY NothingBlocked
<1>3. ~HasState => OwnedBy(slipped, disk, Stg)
  BY Stateless, UnownedBy
<1>4. Had # New /\ Barrier # Missing /\ Missing \notin Books /\ Barrier \notin Books /\ Missing # Torn
  BY Distinct
<1>5. Sound(epub, slipped, d, candidates) /\ Keeps(d)
  BY <1>1, <1>2, <1>3, <1>4, SoundFacts, SoundFiles DEF NewMarked, Secured
<1> QED BY <1>4, <1>5, HarmlessCall DEF d, Undone, Bk, Stg

(* and it may be taken back while the old book is there, or none was. *)
LEMMA HarmlessWithdraw ==
  ASSUME Sound(epub, slipped, disk, candidates), epub, Blocked, Bk # Missing, Stg = Missing,
         Old # Missing \/ Missing \in candidates
  PROVE  Harmless(RenameCall("book", "staging", <<>>))
<1> DEFINE d == Renamed(disk, "book", "staging")
<1>1. FilesAre(d, Missing, Old, Bk, Pnd)
  BY FilesAfter DEF Sound
<1> HIDE DEF d
<1>2. Idn # Barrier => Idn = Missing /\ Bak = Missing /\ Tmp = Missing /\ Unowned(disk)
  BY NothingBlocked
<1>3. Barrier # Missing /\ Missing \notin Books /\ Barrier \notin Books
  BY Distinct
<1>4. /\ Bk \in Books /\ Old \in Books \cup {Missing} /\ Pnd \in {Missing, Torn, Had, New}
      /\ Old # Missing => (Pnd = Had \/ "rotated" \in slipped) /\ Old \in candidates
      /\ Idn = Barrier /\ Old # Missing => Bak = Old
  BY SoundFacts
<1>5. Sound(epub, slipped, d, candidates) /\ Keeps(d)
  BY <1>1, <1>2, <1>3, <1>4, SoundFiles
<1> QED BY <1>5, HarmlessCall DEF d, Undone, Bk, Stg

LEMMA HarmlessDiscard ==
  ASSUME Sound(epub, slipped, disk, candidates)
  PROVE  Harmless(RemoveCall("staging", <<>>))
<1> DEFINE d == [disk EXCEPT !["staging"] = Missing]
<1>1. FilesAre(d, Bk, Old, Missing, Pnd)
  BY FilesAfter DEF Sound
<1> HIDE DEF d
<1>2. Sound(epub, slipped, d, candidates) /\ Keeps(d)
  BY <1>1, SoundFacts, SoundFiles
<1> QED BY <1>2, HarmlessCall DEF d, Undone

(* What is tried after a failure. *)
LEMMA UndoStep ==
  ASSUME Sound(epub, slipped, disk, candidates), Undoing, todo # <<>>, todo = UndoTmp \/ ~ok
  PROVE  /\ Harmless(Head(todo)) /\ Tail(todo) = <<>> /\ Head(todo).op # "write"
         /\ Possible(Head(todo)) /\ disk' = After(Head(todo)) =>
              FilesSame /\ StateSame /\ {Idn', Bak'} \cap Books \subseteq {Idn, Bak}
<1>1. Typed(disk)
  BY DEF Sound
<1>2. CASE todo = UndoTmp
  <2>1. IsList(todo, RemoveCall("idnTmp", <<>>), <<>>)
    BY <1>2, Lists
  <2>2. Harmless(RemoveCall("idnTmp", <<>>))
    BY HarmlessTmp DEF Undone
  <2>3. RemoveCall("idnTmp", <<>>).op # "write"
    BY DEF RemoveCall, Call
  <2>4. ASSUME disk' = After(Head(todo)) PROVE FilesSame /\ StateSame /\ Idn' = Idn /\ Bak' = Bak
    <3>1. SetIs(disk', "idnTmp", Missing)
      BY <1>1, <2>1, <2>4, CallEffect, SetEffect, Names DEF IsList
    <3> QED BY <3>1 DEF SetIs, FilesSame, StateSame, State, Bk, Old, Stg, Pnd, Idn, Bak
  <2> QED BY <2>1, <2>2, <2>3, <2>4 DEF IsList
<1>3. CASE todo = UndoBak /\ ~ok /\ epub /\ (Idn = Missing => Bak # Missing /\ Tmp = Barrier)
  <2>1. IsList(todo, RenameCall("idnBak", "idn", <<>>), <<>>)
    BY <1>3, Lists
  <2>2. RenameCall("idnBak", "idn", <<>>).op # "write"
    BY DEF RenameCall, Call
  <2> DEFINE d == Renamed(disk, "idnBak", "idn")
  <2>3. MoveIs(d, "idnBak", "idn")
    BY <1>1, MoveEffect, Names DEF State
  <2>4. After(Head(todo)) = d
    BY <2>1, CallEffect DEF IsList
  <2> HIDE DEF d
  <2>5. Idn = Missing => Sound(epub, slipped, d, candidates) /\ Keeps(d)
    BY <1>1, <1>3, <2>3, SoundFacts, SoundIdentity, Distinct DEF MoveIs, Bk, Old, Stg, Pnd, Idn, Bak, Tmp, Cch
  <2>6. Harmless(RenameCall("idnBak", "idn", <<>>))
    BY <1>3, <2>5, HarmlessCall DEF d, Undone, Stuck, Idn, Bak
  <2>7. ASSUME disk' = d PROVE FilesSame /\ StateSame /\ Idn' = Bak /\ Bak' = Missing
    BY <2>3, <2>7 DEF MoveIs, FilesSame, StateSame, State, Bk, Old, Stg, Pnd, Idn, Bak
  <2> QED BY <2>1, <2>2, <2>4, <2>6, <2>7, Distinct DEF IsList
<1> QED BY <1>2, <1>3 DEF Undoing

-----------------------------------------------------------------------------
(* The calls of each label. *)
LEMMA AfterDo ==
  ASSUME todo # <<>>, Harmless(Head(todo)), Do
  PROVE  Sound(epub, slipped, disk', candidates) /\ Keeps(disk')
<1>1. Possible(Head(todo)) /\ disk' = After(Head(todo))
  BY DEF Do
<1>2. disk' \in AfterFailure(Head(todo))
  BY <1>1, CallFailure
<1> QED BY <1>2 DEF Harmless

LEMMA UnmarkStep ==
  ASSUME Sound(epub, slipped, disk, candidates), todo = Unmark1, Old = Missing \/ Stranded, Own
  PROVE  /\ todo # <<>> /\ Harmless(Head(todo))
         /\ Do => /\ todo' = <<>> /\ Elsewhere /\ Own'
                  /\ Bk' = Bk /\ Old' = Old /\ Stg' = Stg /\ Pnd' = Missing
<1>1. IsList(todo, RemoveCall("pending", <<>>), <<>>)
  BY Lists
<1>2. todo # <<>> /\ Harmless(Head(todo))
  BY <1>1, HarmlessUnmark, Doing
<1>3. Do => todo' = <<>> /\ Elsewhere /\ Bk' = Bk /\ Old' = Old /\ Stg' = Stg /\ Pnd' = Missing
  BY <1>1, FileStep DEF Sound
<1>4. Do => Own'
  BY <1>3, SameState DEF Own, Elsewhere, Rest
<1> QED BY <1>2, <1>3, <1>4

LEMMA DropStep ==
  ASSUME Sound(epub, slipped, disk, candidates), todo = Drop2, Bk # Missing, Own
  PROVE  /\ todo # <<>> /\ Harmless(Head(todo))
         /\ Do => /\ todo' = Unmark1 /\ Elsewhere /\ Own'
                  /\ Bk' = Bk /\ Old' = Missing /\ Stg' = Stg /\ Pnd' = Pnd
<1>1. IsList(todo, RemoveCall("old", <<>>), Unmark1)
  BY Lists
<1>2. todo # <<>> /\ Harmless(Head(todo))
  BY <1>1, HarmlessDrop, Doing
<1>3. Do => todo' = Unmark1 /\ Elsewhere /\ Bk' = Bk /\ Old' = Missing /\ Stg' = Stg /\ Pnd' = Pnd
  BY <1>1, FileStep DEF Sound
<1>4. Do => Own'
  BY <1>3, SameState DEF Own, Elsewhere, Rest
<1> QED BY <1>2, <1>3, <1>4

LEMMA ReturnStep ==
  ASSUME Sound(epub, slipped, disk, candidates), NEW r, IsList(todo, RenameCall("old", "book", <<>>), r),
         Bk = Missing, Old # Missing
  PROVE  /\ todo # <<>> /\ Harmless(Head(todo))
         /\ Do => /\ todo' = r /\ Elsewhere /\ Own'
                  /\ Bk' = Old /\ Old' = Missing /\ Stg' = Stg /\ Pnd' = Pnd
<1>1. todo # <<>> /\ Harmless(Head(todo))
  BY HarmlessReturn, Doing
<1>2. Do => todo' = r /\ Elsewhere /\ Bk' = Old /\ Old' = Missing /\ Stg' = Stg /\ Pnd' = Pnd
  BY FileStep DEF Sound
<1>3. ~epub => OwnedBy(slipped, disk, Old)
  BY SoundFacts
<1>4. ASSUME Do PROVE Own'
  <2>1. OwnedBy(slipped, disk, Old) => OwnedBy(slipped, disk', Old)
    BY <1>2, <1>4, SameState DEF Elsewhere
  <2> QED BY <1>2, <1>3, <1>4, <2>1 DEF Own, Elsewhere, Rest
<1> QED BY <1>1, <1>2, <1>4

(* Each label: the calls it has left are harmless, and keep what it says. *)
LEMMA RecoveredStep ==
  ASSUME Sound(epub, slipped, disk, candidates), AtRecovered, ok, todo # <<>>
  PROVE  Harmless(Head(todo)) /\ (Do => AtRecovered' /\ Stg' = Stg)
<1>1. Do => Rest
  BY DEF Do, Rest
<1>2. task \in {"open", "publish"}
  BY DEF AtRecovered
<1>3. CASE todo = Unmark1 /\ Old = Missing /\ Own /\ Opened
  <2>1. Do => Opened'
    BY <1>3, UnmarkStep DEF Opened, Elsewhere, IdentitySame, Rest
  <2> QED BY <1>2, <1>3, <2>1, UnmarkStep DEF AtRecovered, Elsewhere, Rest
<1>4. CASE todo = ReturnUnmark /\ ~epub /\ Bk = Missing /\ Old # Missing
  <2>1. IsList(todo, RenameCall("old", "book", <<>>), Unmark1)
    BY <1>4, Lists
  <2>2. Do => Opened'
    BY <1>1, <1>4 DEF Opened, Rest
  <2> QED BY <1>2, <1>4, <2>1, <2>2, ReturnStep DEF AtRecovered, Elsewhere, Rest
<1>5. CASE todo = Drop2 /\ Bk # Missing /\ Own /\ Opened
  <2>1. Do => Opened'
    BY <1>5, DropStep DEF Opened, Elsewhere, IdentitySame, Rest
  <2> QED BY <1>2, <1>5, <2>1, DropStep DEF AtRecovered, Elsewhere, Rest
<1>6. Unmark1 \in Seq(Calls)
  BY Lists DEF IsList
<1>7. Bk \in Books \cup {Missing} /\ Missing \notin Books /\ Barrier \notin Books
  BY SoundFacts, Distinct
<1>8. CASE Bk # Missing /\ Old = Missing /\ Bak = Bk /\ Cancelling(Unmark1)
  <2>1. Harmless(Head(todo))
    BY <1>6, <1>8, BackStep
  <2>2. ASSUME Do PROVE AtRecovered' /\ Stg' = Stg
    <3>1. /\ FilesSame /\ Bak' = Bk /\ epub
          /\ Cancelling(Unmark1)' \/ (todo' = Unmark1 /\ Idn' = Bk)
      BY <1>6, <1>8, <2>2, BackStep DEF Cancelling
    <3> QED BY <1>1, <1>2, <1>7, <1>8, <2>2, <3>1 DEF AtRecovered, FilesSame, Own, Opened, Rest
  <2> QED BY <2>1, <2>2
<1>9. CASE Bk # Missing /\ Old = Missing /\ SavingNew(Bk, Unmark1)
  <2>1. PICK x : x = Bk
    OBVIOUS
  <2>2. SavingNew(x, Unmark1)
    BY <1>9, <2>1
  <2>3. Harmless(Head(todo))
    BY <1>6, <2>2, NewStep
  <2>4. ASSUME Do PROVE AtRecovered' /\ Stg' = Stg
    <3>1. /\ FilesSame /\ epub
          /\ SavingNew(x, Unmark1)' \/ (todo' = Unmark1 /\ Idn' = x)
      BY <1>6, <2>2, <2>4, NewStep DEF SavingNew
    <3>2. SavingNew(x, Unmark1)' => SavingNew(Bk, Unmark1)'
      BY <2>1, <3>1 DEF SavingNew, FilesSame
    <3> QED BY <1>1, <1>2, <1>7, <1>9, <2>1, <2>4, <3>1, <3>2 DEF AtRecovered, FilesSame, Own, Opened, Rest
  <2> QED BY <2>3, <2>4
<1> QED BY <1>3, <1>4, <1>5, <1>8, <1>9 DEF AtRecovered

LEMMA RestoredStep ==
  ASSUME Sound(epub, slipped, disk, candidates), AtRestored, ok, todo # <<>>
  PROVE  Harmless(Head(todo)) /\ (Do => AtRestored' /\ Stg' = Stg)
<1>1. task \in {"open", "publish"} /\ epub
  BY DEF AtRestored
<1>2. CASE todo = Return2 /\ Old # Missing
  <2>1. IsList(todo, RemoveCall("book", <<>>), Return1)
    BY <1>2, Lists
  <2>2. Harmless(Head(todo))
    BY <1>1, <1>2, <2>1, HarmlessClear, Doing
  <2>3. Do => todo' = Return1 /\ Elsewhere /\ Bk' = Missing /\ Old' = Old /\ Stg' = Stg
    BY <2>1, FileStep DEF Sound
  <2> QED BY <1>1, <1>2, <2>2, <2>3 DEF AtRestored, Elsewhere, Rest
<1>3. CASE todo = Return1 /\ Old # Missing /\ Bk = Missing
  <2>1. IsList(todo, RenameCall("old", "book", <<>>), <<>>)
    BY <1>3, Lists
  <2>2. /\ Idn = Barrier => Bak = Old
        /\ {Idn, Bak} \cap Books \subseteq {Old}
    BY <1>3, SoundFacts, Distinct
  <2>3. Do => /\ todo' = <<>> /\ Elsewhere
              /\ Bk' = Old /\ Old' = Missing /\ Stg' = Stg
    BY <1>3, <2>1, ReturnStep
  <2>4. Harmless(Head(todo))
    BY <1>3, <2>1, ReturnStep
  <2>5. Do => Ours' /\ (Idn' = Barrier => Bak' = Bk')
    BY <2>2, <2>3 DEF Ours, Elsewhere, IdentitySame
  <2> QED BY <1>1, <1>3, <2>3, <2>4, <2>5 DEF AtRestored, Elsewhere, Rest
<1> QED BY <1>2, <1>3 DEF AtRestored

LEMMA FinalizeStep ==
  ASSUME Sound(epub, slipped, disk, candidates), AtFinalize, ok, todo # <<>>
  PROVE  Harmless(Head(todo)) /\ (Do => AtFinalize' /\ Stg' = Stg /\ Bk' = Bk)
<1>1. (Do => Rest) /\ <<>> \in Seq(Calls)
  BY Lists DEF Do, Rest
<1>2. task \in {"open", "publish", "finish"} /\ Bk # Missing
  BY DEF AtFinalize
<1>3. Bk \in Books /\ Missing \notin Books /\ Barrier \notin Books /\ Barrier # Missing
  BY <1>2, SoundFacts, Distinct
<1>4. CASE task # "finish" /\ Bak = Bk /\ Cancelling(<<>>)
  <2>1. Harmless(Head(todo))
    BY <1>1, <1>4, BackStep
  <2>2. ASSUME Do PROVE AtFinalize' /\ Stg' = Stg /\ Bk' = Bk
    <3>1. /\ FilesSame /\ Bak' = Bk /\ epub
          /\ Cancelling(<<>>)' \/ (todo' = <<>> /\ Idn' = Bk)
      BY <1>1, <1>4, <2>2, BackStep DEF Cancelling
    <3> QED BY <1>1, <1>2, <1>3, <1>4, <2>2, <3>1 DEF AtFinalize, FilesSame, Own, Opened, Rest
  <2> QED BY <2>1, <2>2
<1>5. CASE task # "finish" /\ SavingNew(Bk, <<>>)
  <2>1. PICK x : x = Bk
    OBVIOUS
  <2>2. SavingNew(x, <<>>)
    BY <1>5, <2>1
  <2>3. Harmless(Head(todo))
    BY <1>1, <2>2, NewStep
  <2>4. ASSUME Do PROVE AtFinalize' /\ Stg' = Stg /\ Bk' = Bk
    <3>1. /\ FilesSame /\ epub
          /\ SavingNew(x, <<>>)' \/ (todo' = <<>> /\ Idn' = x)
      BY <1>1, <2>2, <2>4, NewStep DEF SavingNew
    <3>2. SavingNew(x, <<>>)' => SavingNew(Bk, <<>>)'
      BY <2>1, <3>1 DEF SavingNew, FilesSame
    <3> QED BY <1>1, <1>2, <1>3, <1>5, <2>1, <2>4, <3>1, <3>2 DEF AtFinalize, FilesSame, Own, Opened, Rest
  <2> QED BY <2>3, <2>4
<1>6. CASE PuttingAway /\ Foreign
  <2>1. Harmless(Head(todo))
    BY <1>2, <1>6, AwayStep
  <2>2. ASSUME Do PROVE AtFinalize' /\ Stg' = Stg /\ Bk' = Bk
    <3>1. /\ FilesSame /\ Foreign'
          /\ \/ PuttingAway'
             \/ todo' = <<>> /\ Unidentified(disk') /\ Unowned(disk')
      BY <1>2, <1>6, <2>2, AwayStep
    <3>2. CASE PuttingAway'
      BY <1>1, <1>2, <2>2, <3>1, <3>2 DEF AtFinalize, FilesSame, Rest
    <3>3. CASE todo' = <<>> /\ Unidentified(disk') /\ Unowned(disk')
      <4>1. Own' /\ Opened'
        BY <1>3, <3>3 DEF Own, Opened, Unidentified, Unowned, OwnedBy, Idn
      <4> QED BY <1>1, <1>2, <2>2, <3>1, <3>3, <4>1 DEF AtFinalize, FilesSame, Rest
    <3> QED BY <3>1, <3>2, <3>3
  <2> QED BY <2>1, <2>2
<1> QED BY <1>4, <1>5, <1>6 DEF AtFinalize

LEMMA AdoptStep ==
  ASSUME Sound(epub, slipped, disk, candidates), AtAdopt, ok, todo # <<>>
  PROVE  Harmless(Head(todo)) /\ (Do => AtAdopt')
<1>1. PuttingAway /\ Foreign /\ Bk # Missing
  BY DEF AtAdopt
<1>2. Harmless(Head(todo))
  BY <1>1, AwayStep
<1>3. ASSUME Do PROVE AtAdopt'
  <2>1. /\ FilesSame /\ Foreign'
        /\ \/ PuttingAway'
           \/ todo' = <<>> /\ Unidentified(disk')
    BY <1>1, <1>3, AwayStep
  <2> QED BY <1>3, <2>1 DEF AtAdopt, FilesSame, Do
<1> QED BY <1>2, <1>3

LEMMA BarrierStep ==
  ASSUME Sound(epub, slipped, disk, candidates), AtBarrier, ok, todo # <<>>
  PROVE  Harmless(Head(todo)) /\ (Do => AtBarrier')
<1>1. (Do => Rest) /\ <<>> \in Seq(Calls) /\ Over1(<<>>) \in Seq(Calls) /\ UndoTmp \in Seq(Calls)
  BY Lists, Going DEF Do, Rest, IsList
<1>2. task = "publish" /\ Old = Missing /\ Pnd = Missing /\ Stg = staged /\ Ours
  BY DEF AtBarrier
<1>3. /\ Bk \in Books \cup {Missing} /\ Bak \in Books \cup {Missing}
      /\ Missing \notin Books /\ Barrier \notin Books /\ Barrier # Missing
  BY SoundFacts, Distinct
<1>4. ASSUME Do, FilesSame, {Idn', Bak'} \cap Books \subseteq {Idn, Bak} PROVE Ours'
  BY <1>2, <1>4 DEF Ours, FilesSame
<1>5. CASE SavingOver(<<>>)
  <2>1. Harmless(Head(todo))
    BY <1>1, <1>5, OverStep
  <2>2. ASSUME Do PROVE AtBarrier'
    <3>1. /\ FilesSame /\ {Idn', Bak'} \cap Books \subseteq {Idn, Bak}
          /\ SavingOver(<<>>)' \/ (todo' = <<>> /\ Idn' = Barrier /\ Bak' # Missing)
      BY <1>1, <1>5, <2>2, OverStep
    <3>2. Ours'
      BY <1>4, <2>2, <3>1
    <3>3. CASE SavingOver(<<>>)'
      BY <1>1, <1>2, <2>2, <3>1, <3>2, <3>3 DEF AtBarrier, FilesSame, Rest
    <3>4. CASE todo' = <<>> /\ Idn' = Barrier /\ Bak' # Missing
      <4>1. Bak' \in Books \cup {Missing}
        BY <1>5, <2>1, <2>2, AfterDo DEF Sound, Typed, Bak, Do
      <4>2. Barriered'
        BY <3>2, <3>4, <4>1 DEF Barriered, Blocked, Ours
      <4> QED BY <1>1, <1>2, <2>2, <3>1, <3>2, <3>4, <4>2 DEF AtBarrier, FilesSame, Rest
    <3> QED BY <3>1, <3>3, <3>4
  <2> QED BY <2>1, <2>2
<1>6. CASE \E v \in Books : SavingNew(v, Over1(<<>>))
  <2>1. PICK v \in Books : SavingNew(v, Over1(<<>>))
    BY <1>6
  <2>2. Harmless(Head(todo))
    BY <1>1, <2>1, NewStep
  <2>3. ASSUME Do PROVE AtBarrier'
    <3>1. /\ FilesSame /\ Bak' = Bak /\ epub
          /\ Bak = v \/ (Bak = Missing /\ Bk = v)
          /\ SavingNew(v, Over1(<<>>))' \/ (todo' = Over1(<<>>) /\ Idn' = v)
      BY <1>1, <1>3, <2>1, <2>3, NewStep DEF SavingNew
    <3>2. CASE SavingNew(v, Over1(<<>>))'
      <4>1. Idn' = Missing
        BY <3>2 DEF SavingNew
      <4>2. Ours'
        BY <1>2, <1>3, <3>1, <4>1 DEF Ours, FilesSame
      <4> QED BY <1>1, <1>2, <2>3, <3>1, <3>2, <4>2 DEF AtBarrier, FilesSame, Rest
    <3>3. CASE todo' = Over1(<<>>) /\ Idn' = v
      <4>1. Ours'
        BY <1>2, <1>3, <3>1, <3>3 DEF Ours, FilesSame
      <4>2. SavingOver(<<>>)'
        BY <1>1, <2>3, <3>1, <3>3 DEF SavingOver, Rest
      <4> QED BY <1>1, <1>2, <2>3, <3>1, <4>1, <4>2 DEF AtBarrier, FilesSame, Rest
    <3> QED BY <3>1, <3>2, <3>3
  <2> QED BY <2>2, <2>3
<1>7. ASSUME NEW r \in {<<>>, UndoTmp}, SavingNew(Barrier, r)
      PROVE  Harmless(Head(todo)) /\ (Do => AtBarrier')
  <2>1. Harmless(Head(todo))
    BY <1>1, <1>7, NewStep
  <2>2. ASSUME Do PROVE AtBarrier'
    <3>1. epub /\ Bak = Missing /\ Bk = Missing
      BY <1>3, <1>7 DEF SavingNew
    <3>2. /\ FilesSame /\ Bak' = Bak
          /\ SavingNew(Barrier, r)' \/ (todo' = r /\ Idn' = Barrier)
      BY <1>1, <1>7, <2>2, NewStep
    <3>3. Ours'
      BY <3>1, <3>2 DEF Ours, FilesSame
    <3>4. CASE SavingNew(Barrier, r)'
      BY <1>1, <1>2, <1>7, <2>2, <3>2, <3>3, <3>4 DEF AtBarrier, FilesSame, Rest
    <3>5. CASE todo' = r /\ Idn' = Barrier
      <4>1. Barriered'
        BY <3>1, <3>2, <3>5 DEF Barriered, Blocked, FilesSame
      <4> QED BY <1>1, <1>2, <1>7, <2>2, <3>1, <3>2, <3>3, <3>5, <4>1 DEF AtBarrier, FilesSame, Rest
    <3> QED BY <3>2, <3>4, <3>5
  <2> QED BY <2>1, <2>2
<1>8. CASE todo = UndoTmp /\ epub /\ Idn = Barrier /\ Bk = Missing
  <2>1. Undoing
    BY <1>8 DEF Undoing
  <2>2. Harmless(Head(todo))
    BY <1>8, <2>1, UndoStep
  <2>3. ASSUME Do PROVE AtBarrier'
    <3>1. IsList(todo, RemoveCall("idnTmp", <<>>), <<>>)
      BY <1>8, Lists
    <3>2. SetIs(disk', "idnTmp", Missing) /\ todo' = <<>>
      BY <2>3, <3>1, DoingThis, Names DEF Sound
    <3>3. Bk' = Missing /\ Old' = Old /\ Stg' = Stg /\ Pnd' = Pnd /\ Idn' = Barrier
      BY <1>8, <3>2 DEF SetIs, Bk, Old, Stg, Pnd, Idn
    <3>4. Ours' /\ Barriered'
      BY <3>3 DEF Ours, Barriered, Blocked
    <3> QED BY <1>1, <1>2, <2>3, <3>2, <3>3, <3>4 DEF AtBarrier, Rest
  <2> QED BY <2>2, <2>3
<1> QED BY <1>5, <1>6, <1>7, <1>8 DEF AtBarrier

(* Calls elsewhere leave the barrier as it is. *)
LEMMA StillBlocked ==
  ASSUME epub' = epub, StateSame, IdentitySame
  PROVE  (Blocked => Blocked') /\ (Barriered /\ Bk' \in {Bk, Missing} => Barriered')
<1>1. HasState' <=> HasState
  BY SameState
<1> QED BY <1>1 DEF IdentitySame, Blocked, Barriered

(* The calls of a publication. *)
LEMMA MarkedStep ==
  ASSUME Sound(epub, slipped, disk, candidates), AtMarked, ok, todo # <<>>, pc = "marked"
  PROVE  Harmless(Head(todo)) /\ Head(todo).undo = <<>> /\ (Do => AtMarked')
<1>1. /\ task = "publish" /\ Old = Missing /\ Stg = staged /\ Barriered /\ Own
      /\ Had # New
  BY Distinct DEF AtMarked
<1>2. \A v : WriteCall("pending", v, <<>>).undo = <<>>
  BY DEF WriteCall, Call
<1>3. ASSUME NEW v \in {Had, New}, todo = Mark1(v), IF v = Had THEN Bk # Missing ELSE ~epub /\ Bk = Missing
      PROVE  Harmless(Head(todo)) /\ Head(todo).undo = <<>> /\ (Do => AtMarked')
  <2>1. IsList(todo, WriteCall("pending", v, <<>>), <<>>)
    BY <1>3, Lists
  <2>2. Harmless(Head(todo)) /\ Head(todo).undo = <<>>
    BY <1>1, <1>2, <1>3, <2>1, HarmlessMark, Doing
  <2>3. ASSUME Do PROVE AtMarked'
    <3>1. todo' = <<>> /\ Elsewhere /\ Bk' = Bk /\ Old' = Old /\ Stg' = Stg /\ Pnd' = v
      BY <2>1, <2>3, FileStep DEF Sound
    <3>2. Own' /\ Barriered'
      BY <1>1, <3>1, StillBlocked, SameState DEF Own, Elsewhere, Rest
    <3> QED BY <1>1, <1>3, <3>1, <3>2 DEF AtMarked, NewMarked, Elsewhere, Rest
  <2> QED BY <2>2, <2>3
<1> QED BY <1>1, <1>3 DEF AtMarked

LEMMA RotatedStep ==
  ASSUME Sound(epub, slipped, disk, candidates), AtRotated, ok, todo # <<>>
  PROVE  Harmless(Head(todo)) /\ Head(todo).undo = <<>> /\ (Do => AtRotated')
<1>1. /\ task = "publish" /\ Stg = staged /\ Barriered
      /\ todo = Rotate1 /\ Bk # Missing /\ Pnd = Had /\ Old = Missing
  BY DEF AtRotated
<1>2. IsList(todo, RenameCall("book", "old", <<>>), <<>>) /\ RenameCall("book", "old", <<>>).undo = <<>>
  BY <1>1, Lists DEF RenameCall, Call
<1>3. Harmless(Head(todo)) /\ Head(todo).undo = <<>>
  BY <1>1, <1>2, HarmlessRotate, Doing
<1>4. ASSUME Do PROVE AtRotated'
  <2>1. todo' = <<>> /\ Elsewhere /\ Bk' = Missing /\ Old' = Bk /\ Stg' = Stg /\ Pnd' = Pnd
    BY <1>2, <1>4, FileStep DEF Sound
  <2>2. Barriered'
    BY <1>1, <2>1, StillBlocked DEF Elsewhere, Rest
  <2> QED BY <1>1, <2>1, <2>2 DEF AtRotated, FirstBook, NewMarked, Elsewhere, Rest
<1> QED BY <1>3, <1>4

LEMMA PublishedStep ==
  ASSUME Sound(epub, slipped, disk, candidates), AtPublished, ok, todo # <<>>,
         staged \in Books, staged \in candidates, Secured
  PROVE  Harmless(Head(todo)) /\ Head(todo).undo = <<>> /\ (Do => AtPublished')
<1>1. /\ task = "publish" /\ FirstBook /\ NewMarked /\ Blocked
      /\ todo = Publish1 /\ Bk = Missing /\ Stg = staged
  BY DEF AtPublished
<1>2. IsList(todo, RenameCall("staging", "book", <<>>), <<>>) /\ RenameCall("staging", "book", <<>>).undo = <<>>
  BY <1>1, Lists DEF RenameCall, Call
<1>3. Harmless(Head(todo)) /\ Head(todo).undo = <<>>
  BY <1>1, <1>2, HarmlessPublish, Doing
<1>4. ASSUME Do PROVE AtPublished'
  <2>1. todo' = <<>> /\ Elsewhere /\ Bk' = Stg /\ Old' = Old /\ Stg' = Missing /\ Pnd' = Pnd
    BY <1>2, <1>4, FileStep DEF Sound
  <2>2. Blocked' /\ (HasState' <=> HasState)
    BY <1>1, <2>1, StillBlocked, SameState DEF Elsewhere, Rest
  <2> QED BY <1>1, <2>1, <2>2 DEF AtPublished, FirstBook, NewMarked, Elsewhere, Rest
<1> QED BY <1>3, <1>4

(* The old book comes back behind its barrier. *)
LEMMA BackBarriered ==
  ASSUME Sound(epub, slipped, disk, candidates), Blocked, Elsewhere, Old # Missing, Bk' = Old
  PROVE  Barriered'
<1>1. Blocked' /\ (HasState' <=> HasState)
  BY StillBlocked, SameState DEF Elsewhere, Rest
<1>2. Idn = Barrier => Bak = Old
  BY SoundFacts
<1> QED BY <1>1, <1>2 DEF Barriered, Blocked, Elsewhere, Rest, IdentitySame

LEMMA UnrotatedStep ==
  ASSUME Sound(epub, slipped, disk, candidates), AtUnrotated, ok, todo # <<>>, pc = "unrotated"
  PROVE  Harmless(Head(todo)) /\ Head(todo).undo = <<>> /\ (Do => AtUnrotated')
<1>1. task = "publish" /\ Blocked /\ todo = Return1 /\ Old # Missing
  BY DEF AtUnrotated
<1>2. IsList(todo, RenameCall("old", "book", <<>>), <<>>) /\ RenameCall("old", "book", <<>>).undo = <<>>
  BY <1>1, Lists DEF RenameCall, Call
<1>3. Harmless(Head(todo)) /\ Head(todo).undo = <<>>
  <2>1. CASE Bk = Missing
    BY <1>1, <1>2, <2>1, ReturnStep, Doing
  <2>2. CASE Bk # Missing
    <3>1. Harmless(RenameCall("old", "book", <<>>))
      BY <2>2, HarmlessCall DEF Stuck, Undone, Bk
    <3> QED BY <1>2, <3>1, Doing
  <2> QED BY <2>1, <2>2
<1>4. ASSUME Do PROVE AtUnrotated'
  <2>1. Bk = Missing
    BY <1>2, <1>4, CallFailure DEF IsList, Do, Bk
  <2>2. todo' = <<>> /\ Elsewhere /\ Bk' = Old /\ Old' = Missing /\ Own'
    BY <1>1, <1>2, <1>4, <2>1, ReturnStep
  <2>3. Barriered' /\ Blocked'
    BY <1>1, <2>2, BackBarriered DEF Barriered
  <2> QED BY <1>1, <2>2, <2>3 DEF AtUnrotated, Elsewhere, Rest
<1> QED BY <1>3, <1>4

LEMMA WithdrawnStep ==
  ASSUME Sound(epub, slipped, disk, candidates), AtWithdrawn, ok, todo # <<>>
  PROVE  Harmless(Head(todo)) /\ Head(todo).undo = <<>> /\ (Do => AtWithdrawn')
<1>1. task = "publish" /\ epub /\ Blocked
  BY DEF AtWithdrawn
<1>2. CASE todo = Return1 /\ Bk = Missing /\ Old # Missing
  <2>1. IsList(todo, RenameCall("old", "book", <<>>), <<>>) /\ RenameCall("old", "book", <<>>).undo = <<>>
    BY <1>2, Lists DEF RenameCall, Call
  <2>2. Harmless(Head(todo)) /\ Head(todo).undo = <<>>
    BY <1>2, <2>1, ReturnStep, Doing
  <2>3. ASSUME Do PROVE AtWithdrawn'
    <3>1. todo' = <<>> /\ Elsewhere /\ Bk' = Old /\ Old' = Missing
      BY <1>2, <2>1, <2>3, ReturnStep
    <3>2. Barriered' /\ Blocked'
      BY <1>1, <1>2, <3>1, BackBarriered DEF Barriered
    <3> QED BY <1>1, <3>1, <3>2 DEF AtWithdrawn, Elsewhere, Rest
  <2> QED BY <2>2, <2>3
<1>3. ASSUME NEW r \in Seq(Calls), todo = Withdraw1(r), Bk # Missing, Stg = Missing,
             \/ r = Return1 /\ Old # Missing
             \/ r = <<>> /\ Old = Missing /\ Missing \in candidates
      PROVE  Harmless(Head(todo)) /\ Head(todo).undo = <<>> /\ (Do => AtWithdrawn')
  <2>1. IsList(todo, RenameCall("book", "staging", <<>>), r) /\ RenameCall("book", "staging", <<>>).undo = <<>>
    BY <1>3, Going DEF RenameCall, Call
  <2>2. Harmless(Head(todo)) /\ Head(todo).undo = <<>>
    BY <1>1, <1>3, <2>1, HarmlessWithdraw, Doing
  <2>3. ASSUME Do PROVE AtWithdrawn'
    <3>1. todo' = r /\ Elsewhere /\ Bk' = Missing /\ Old' = Old
      BY <2>1, <2>3, FileStep DEF Sound
    <3>2. Blocked'
      BY <1>1, <3>1, StillBlocked DEF Elsewhere, Rest
    <3>3. Barriered'
      BY <3>1, <3>2 DEF Barriered
    <3> QED BY <1>1, <1>3, <3>1, <3>2, <3>3 DEF AtWithdrawn, Elsewhere, Rest
  <2> QED BY <2>2, <2>3
<1>4. Return1 \in Seq(Calls) /\ <<>> \in Seq(Calls)
  BY Lists DEF IsList
<1> QED BY <1>2, <1>3, <1>4 DEF AtWithdrawn

LEMMA CancelledStep ==
  ASSUME Sound(epub, slipped, disk, candidates), AtCancelled, ok, todo # <<>>
  PROVE  Harmless(Head(todo)) /\ (Do => AtCancelled')
<1>1. task = "publish" /\ (Old = Missing \/ Stranded) /\ Own
  BY DEF AtCancelled
<1>2. CASE Cancelling(<<>>)
  <2>1. Harmless(Head(todo))
    BY <1>2, BackStep, Lists
  <2>2. ASSUME Do PROVE AtCancelled'
    <3>1. FilesSame /\ epub /\ (Cancelling(<<>>)' \/ todo' = <<>>)
      BY <1>2, <2>2, BackStep, Lists DEF Cancelling
    <3> QED BY <1>1, <2>2, <3>1 DEF AtCancelled, FilesSame, Own, Stranded, Do
  <2> QED BY <2>1, <2>2
<1>3. CASE pc = "failed" /\ todo = Unmark1
  BY <1>1, <1>3, UnmarkStep DEF AtCancelled, Stranded, Elsewhere, Rest
<1> QED BY <1>2, <1>3 DEF AtCancelled

LEMMA DoneStep ==
  ASSUME Sound(epub, slipped, disk, candidates), AtDone, ok, todo # <<>>
  PROVE  Harmless(Head(todo)) /\ (Do => AtDone' /\ Bk' = Bk)
<1>1. task = "finish" /\ Bk # Missing /\ Own
  BY DEF AtDone
<1>2. CASE todo = Drop2
  BY <1>1, <1>2, DropStep DEF AtDone, Elsewhere, Rest
<1>3. CASE todo = Unmark1 /\ Old = Missing
  BY <1>1, <1>3, UnmarkStep DEF AtDone, Elsewhere, Rest
<1> QED BY <1>2, <1>3 DEF AtDone

LEMMA UnchangedStep ==
  ASSUME Sound(epub, slipped, disk, candidates), AtUnchanged, ok, todo # <<>>
  PROVE  Harmless(Head(todo)) /\ Head(todo).undo = <<>> /\ (Do => AtUnchanged')
<1>1. task = "publish" /\ Bk = staged /\ Old = Missing /\ todo = Discard1
  BY DEF AtUnchanged
<1>2. IsList(todo, RemoveCall("staging", <<>>), <<>>) /\ RemoveCall("staging", <<>>).undo = <<>>
  BY <1>1, Lists DEF RemoveCall, Call
<1>3. Harmless(Head(todo)) /\ Head(todo).undo = <<>>
  BY <1>2, HarmlessDiscard, Doing
<1>4. Do => todo' = <<>> /\ Elsewhere /\ Bk' = Bk /\ Old' = Old
  BY <1>2, FileStep DEF Sound
<1> QED BY <1>1, <1>3, <1>4 DEF AtUnchanged, Elsewhere, Rest

LEMMA BoundStep ==
  ASSUME Sound(epub, slipped, disk, candidates), AtBound, ok, todo # <<>>
  PROVE  Harmless(Head(todo)) /\ (Do => AtBound')
<1>1. task = "bind" /\ Bk # Missing /\ Old = Missing /\ SavingNew(Bk, <<>>) /\ <<>> \in Seq(Calls)
  BY Lists DEF AtBound
<1>2. PICK x : x = Bk
  OBVIOUS
<1>3. SavingNew(x, <<>>)
  BY <1>1, <1>2
<1>4. Harmless(Head(todo))
  BY <1>1, <1>3, NewStep
<1>5. ASSUME Do PROVE AtBound'
  <2>1. /\ FilesSame
        /\ SavingNew(x, <<>>)' \/ (todo' = <<>> /\ Idn' = x)
    BY <1>1, <1>3, <1>5, NewStep
  <2>2. CASE SavingNew(x, <<>>)'
    <3>1. SavingNew(Bk, <<>>)'
      BY <1>2, <2>1, <2>2 DEF SavingNew, FilesSame
    <3> QED BY <1>1, <1>5, <2>1, <3>1 DEF AtBound, FilesSame, Do
  <2>3. CASE todo' = <<>> /\ Idn' = x
    <3>1. Bk' = x /\ x \in Books /\ Idn' \in Books
      BY <1>1, <1>2, <2>1, <2>3, SoundFacts DEF FilesSame
    <3>2. OwnedBy(slipped', disk', Idn')
      <4>1. Named(slipped', disk')
        <5>1. Sound(epub, slipped, disk', candidates) /\ slipped' = slipped
          BY <1>1, <1>4, <1>5, AfterDo DEF Do
        <5> QED BY <5>1 DEF Sound, Shape
      <4> QED BY <3>1, <4>1 DEF Named, Idn
    <3>3. OwnedBy(slipped', disk', Bk')
      BY <2>3, <3>1, <3>2
    <3>4. Loaded' = Bk'
      BY <2>3, <3>1 DEF Loaded, LoadedFrom, Usable, Idn
    <3> QED BY <1>1, <1>5, <2>1, <2>3, <3>3, <3>4 DEF AtBound, FilesSame, Do
  <2> QED BY <2>1, <2>2, <2>3
<1> QED BY <1>4, <1>5

-----------------------------------------------------------------------------
(* The calls preserve the invariant, done, failed or cut off.              *)

(* At these labels only what does not depend on the calls is known once    *)
(* one of them has failed; at the others the calls have ended then.        *)
Gated == {"recovered", "restored", "finalize", "adopt", "barrier", "cancelled", "unmarked", "failed",
          "done", "bound"}
Ended == {"marked", "rotated", "published", "unrotated", "withdrawn", "unchanged"}

(* At the labels in Gated a failed list goes on, at those in Ended it is over. *)
LEMMA Calling ==
  ASSUME IInv, todo # <<>>
  PROVE  pc \in Gated \cup Ended /\ (~ok => pc \in Gated)
<1>1. pc \notin {"idle", "recover", "reset", "bind", "reading"}
  BY DEF IInv, Standing, Resting, AtReset, AtBind, AtReading
<1>2. pc \in Gated \cup Ended
  BY <1>1 DEF IInv, Control, Label, Gated, Ended
<1>3. ok \/ pc \notin Ended
  BY DEF IInv, Standing, Ended, AtMarked, AtRotated, AtPublished, AtUnrotated, AtWithdrawn, AtUnchanged
<1> QED BY <1>2, <1>3

(* A call about the identity or the state leaves the books and the marker. *)
Inner(c) ==
  \/ c \in {MakeCall, Call("quarantine", "cache", Missing, <<>>), Call("replace", "marks", Tombstone, <<>>)}
  \/ \E p \in Identity \cup State, u \in Undos : c = RemoveCall(p, u)
  \/ \E p \in Identity, q \in Identity, u \in Undos : p # q /\ c = RenameCall(p, q, u)
  \/ \E v \in Arg, u \in Undos : c = WriteCall("idnTmp", v, u)

LEMMA InnerEffect ==
  ASSUME Typed(disk), NEW c, Inner(c), disk' = After(c)
  PROVE  FilesSame /\ (c.op # "write" => {Idn', Bak'} \subseteq {Idn, Bak, Tmp, Missing})
<1>1. ASSUME NEW p \in Identity \cup State, NEW v, SetIs(disk', p, v)
      PROVE  FilesSame /\ (v = Missing \/ p \in State => {Idn', Bak'} \subseteq {Idn, Bak, Tmp, Missing})
  BY <1>1 DEF SetIs, Identity, State, FilesSame, Bk, Old, Stg, Pnd, Idn, Bak, Tmp
<1>2. ASSUME NEW p \in Identity \cup State, NEW u \in Undos, c = RemoveCall(p, u)
      PROVE  FilesSame /\ {Idn', Bak'} \subseteq {Idn, Bak, Tmp, Missing}
  <2>1. SetIs(disk', p, Missing)
    BY <1>2, CallEffect, SetEffect DEF Path
  <2> QED BY <1>1, <2>1
<1>3. ASSUME NEW p \in Identity, NEW q \in Identity, NEW u \in Undos, p # q, c = RenameCall(p, q, u)
      PROVE  FilesSame /\ {Idn', Bak'} \subseteq {Idn, Bak, Tmp, Missing}
  <2>1. p \in Path \ (State \cup {"pending"}) /\ q \in Path \ (State \cup {"pending"})
    BY DEF Path, Identity, State
  <2>2. MoveIs(disk', p, q)
    BY <1>3, <2>1, CallEffect, MoveEffect
  <2> QED BY <2>2 DEF MoveIs, Identity, FilesSame, Bk, Old, Stg, Pnd, Idn, Bak, Tmp
<1>4. ASSUME NEW v \in Arg, NEW u \in Undos, c = WriteCall("idnTmp", v, u)
      PROVE  FilesSame /\ c.op = "write"
  <2>1. SetIs(disk', "idnTmp", v)
    BY <1>4, CallEffect, SetEffect, Names
  <2>2. c.op = "write"
    BY <1>4 DEF WriteCall, Call
  <2> QED BY <1>1, <2>1, <2>2 DEF Identity
<1>5. CASE c = MakeCall
  <2>1. SetIs([disk EXCEPT !["cache"] = Directory], "cache", Directory)
    BY SetEffect, Names
  <2>2. CASE disk["cache"] # Missing
    <3>1. disk' = disk
      BY <1>5, <2>2, CallEffect
    <3> QED BY <3>1 DEF FilesSame, Bk, Old, Stg, Pnd, Idn, Bak
  <2>3. CASE disk["cache"] = Missing
    <3>1. SetIs(disk', "cache", Directory)
      BY <1>5, <2>1, <2>3, CallEffect
    <3> QED BY <1>1, <3>1 DEF State
  <2> QED BY <2>2, <2>3
<1>6. CASE c = Call("replace", "marks", Tombstone, <<>>)
  <2>1. SetIs(disk', "marks", Tombstone)
    BY <1>6, CallEffect, SetEffect, Names
  <2> QED BY <1>1, <2>1 DEF State
<1>7. CASE c = Call("quarantine", "cache", Missing, <<>>)
  <2>1. disk' = [p \in Path |-> IF p \in Identity \cup {"cache"} THEN Missing ELSE disk[p]]
    BY <1>7, CallEffect
  <2>2. \A p \in Path : disk'[p] = IF p \in Identity \cup {"cache"} THEN Missing ELSE disk[p]
    BY <2>1
  <2> QED BY <2>2, Names DEF Identity, FilesSame, Bk, Old, Stg, Pnd, Idn, Bak
<1> QED BY <1>2, <1>3, <1>4, <1>5, <1>6, <1>7 DEF Inner

(* The lists about them begin with such a call. *)
LEMMA InnerHead ==
  ASSUME Typed(disk), todo # <<>>
  PROVE  /\ \A r \in Seq(Calls) : \A v : SavingNew(v, r) => Inner(Head(todo))
         /\ \A r \in Seq(Calls) : SavingOver(r) \/ Cancelling(r) => Inner(Head(todo))
         /\ PuttingAway => Inner(Head(todo))
         /\ todo = UndoTmp => Inner(Head(todo))
<1>1. \A p \in {"idn", "idnBak", "idnTmp", "clips", "marks"}, u \in Undos : Inner(RemoveCall(p, u))
  BY DEF Inner, Identity, State
<1>2. \A u \in Undos : Inner(RenameCall("idnTmp", "idn", u)) /\ Inner(RenameCall("idn", "idnBak", u))
  BY DEF Inner, Identity
<1>3. \A v \in Books \cup {Barrier}, u \in Undos : Inner(WriteCall("idnTmp", v, u))
  BY Names DEF Inner
<1>4. Inner(MakeCall) /\ Inner(Call("quarantine", "cache", Missing, <<>>)) /\ Inner(Call("replace", "marks", Tombstone, <<>>))
  BY DEF Inner
<1>5. <<>> \in Undos /\ UndoTmp \in Undos /\ UndoBak \in Undos
  BY DEF Undos
<1>6. ASSUME NEW r \in Seq(Calls), NEW v, SavingNew(v, r) PROVE Inner(Head(todo))
  <2>1. v \in Books \cup {Barrier} /\ todo \in {New1(v, r), New2(v, r), New3(v, r), New4(r), New5(r)}
    BY <1>6 DEF SavingNew
  <2>2. /\ Head(New1(v, r)) = MakeCall /\ Head(New2(v, r)) = RemoveCall("idnTmp", UndoTmp)
        /\ Head(New3(v, r)) = WriteCall("idnTmp", v, UndoTmp)
        /\ Head(New4(r)) = RemoveCall("idn", UndoTmp) /\ Head(New5(r)) = RenameCall("idnTmp", "idn", <<>>)
    BY <2>1, Going DEF IsList
  <2> QED BY <1>1, <1>2, <1>3, <1>4, <1>5, <2>1, <2>2
<1>7. ASSUME NEW r \in Seq(Calls), SavingOver(r) PROVE Inner(Head(todo))
  <2>1. todo \in {Over1(r), Over2(r), Over3(r), Over4(r), Over5(r), Over6(r)}
    BY <1>7 DEF SavingOver
  <2>2. Barrier \in Books \cup {Barrier}
    OBVIOUS
  <2>3. /\ Head(Over1(r)) = MakeCall /\ Head(Over2(r)) = RemoveCall("idnTmp", UndoTmp)
        /\ Head(Over3(r)) = WriteCall("idnTmp", Barrier, UndoTmp)
        /\ Head(Over4(r)) = RemoveCall("idnBak", UndoTmp)
        /\ Head(Over5(r)) = RenameCall("idn", "idnBak", UndoTmp)
        /\ Head(Over6(r)) = RenameCall("idnTmp", "idn", UndoBak)
    BY <2>2, Going DEF IsList
  <2> QED BY <1>1, <1>2, <1>3, <1>4, <1>5, <2>1, <2>2, <2>3
<1>8. ASSUME NEW r \in Seq(Calls), Cancelling(r) PROVE Inner(Head(todo))
  <2>1. \/ Bak \in Books /\ todo \in {Back1(Bak, r), Back2(Bak, r), Back3(r), Back4(r)}
        \/ todo \in {Erase1(r), Erase2(r)}
    BY <1>8 DEF Cancelling, Typed, Bak
  <2>2. PICK x : x = Bak
    OBVIOUS
  <2>3. CASE x \in Books /\ todo \in {Back1(x, r), Back2(x, r), Back3(r), Back4(r)}
    <3>1. x \in Books \cup {Barrier}
      BY <2>3
    <3>2. /\ Head(Back1(x, r)) = RemoveCall("idnTmp", <<>>) /\ Head(Back2(x, r)) = WriteCall("idnTmp", x, <<>>)
          /\ Head(Back3(r)) = RemoveCall("idn", <<>>) /\ Head(Back4(r)) = RenameCall("idnTmp", "idn", <<>>)
      BY <3>1, Going DEF IsList
    <3> QED BY <1>1, <1>2, <1>3, <1>5, <2>3, <3>1, <3>2
  <2>4. CASE todo \in {Erase1(r), Erase2(r)}
    <3>1. Barrier \in Books \cup {Barrier}
      OBVIOUS
    <3>2. Head(Erase1(r)) = RemoveCall("idnTmp", <<>>) /\ Head(Erase2(r)) = RemoveCall("idn", <<>>)
      BY <3>1, Going DEF IsList
    <3> QED BY <1>1, <1>5, <2>4, <3>2
  <2> QED BY <2>1, <2>2, <2>3, <2>4
<1>9. ASSUME PuttingAway PROVE Inner(Head(todo))
  <2>1. CASE todo \in Aways
    <3>1. /\ Head(Away1) = Call("quarantine", "cache", Missing, <<>>)
          /\ Head(Away2) = Call("replace", "marks", Tombstone, <<>>)
          /\ Head(Away3) = RemoveCall("marks", <<>>)
      BY Lists DEF IsList
    <3> QED BY <1>1, <1>4, <1>5, <2>1, <3>1 DEF Aways
  <2>2. ASSUME NEW l \in Seq(Calls), todo \in {Away(l), Cons(MakeCall, l)} PROVE Inner(Head(todo))
    <3>1. Barrier \in Books \cup {Barrier}
      OBVIOUS
    <3>2. Head(Away(l)) = RemoveCall("clips", <<>>) /\ Head(Cons(MakeCall, l)) = MakeCall
      BY <3>1, Going DEF IsList
    <3> QED BY <1>1, <1>4, <1>5, <2>2, <3>2
  <2>3. ASSUME NEW r \in Aways PROVE r \in Seq(Calls) /\ Away(r) \in Seq(Calls) /\ Over1(Away(r)) \in Seq(Calls)
    BY AwayLists
  <2>4. Bak # Missing => \A r \in Aways : New1(Bak, Over1(Away(r))) \in Seq(Calls)
    BY AwayLists DEF Typed, Bak
  <2>5. CASE \E r \in Aways : todo \in {Away(r), Cons(MakeCall, Away(r))}
    BY <2>2, <2>3, <2>5
  <2>6. CASE \E r \in Aways : \/ todo = Cons(MakeCall, Over1(Away(r)))
                              \/ Bak # Missing /\ todo = Cons(MakeCall, New1(Bak, Over1(Away(r))))
    BY <2>2, <2>3, <2>4, <2>6
  <2>7. CASE \E r \in Aways : SavingOver(Away(r)) \/ SavingNew(Bak, Over1(Away(r)))
    BY <1>6, <1>7, <2>3, <2>7
  <2> QED BY <1>9, <2>1, <2>5, <2>6, <2>7 DEF PuttingAway
<1>10. todo = UndoTmp => Inner(Head(todo))
  BY <1>1, <1>5, Lists DEF IsList
<1> QED BY <1>6, <1>7, <1>8, <1>9, <1>10

(* While every call has succeeded: what the next does to the book and the  *)
(* old one, however it is reported.                                        *)
LEMMA CallDoes ==
  ASSUME IInv, ok, todo # <<>>, Possible(Head(todo)), disk' = After(Head(todo)),
         epub' = epub, slipped' = slipped
  PROVE  /\ pc \notin {"cancelled", "failed"} => Secured'
         /\ pc \in {"finalize", "adopt", "barrier", "bound"} => FilesSame
         /\ pc \in {"recovered", "restored"} => Stg' = Stg
         /\ pc = "barrier" /\ Head(todo).op # "write" => Ours'
         /\ pc = "done" => Bk' = Bk /\ Own'
         /\ pc \in {"cancelled", "unmarked", "failed"} => Bk' = Bk /\ Old' = Old /\ Own'
<1>1. /\ Sound(epub, slipped, disk, candidates) /\ Standing /\ Typed(disk) /\ pc \in Gated \cup Ended
      /\ pc \notin {"cancelled", "failed"} => Secured
  BY Calling DEF IInv, Sound, Kept, Gated, Ended
<1>2. Inner(Head(todo)) => FilesSame /\ (Head(todo).op # "write" => {Idn', Bak'} \subseteq {Idn, Bak, Tmp, Missing})
  BY <1>1, InnerEffect
<1>3. FilesSame => (Secured => Secured')
  BY DEF FilesSame, Secured
<1>4. <<>> \in Seq(Calls) /\ UndoTmp \in Seq(Calls) /\ Unmark1 \in Seq(Calls) /\ Over1(<<>>) \in Seq(Calls)
  BY Lists, Going DEF IsList
<1>5. StateSame /\ Bk' = Bk => (Own => Own')
  BY SameState DEF Own
<1>6. todo = Unmark1 => StateSame /\ Bk' = Bk /\ Old' = Old /\ Stg' = Stg
  BY <1>1, Lists, FileEffect
<1>7. todo = Drop2 => StateSame /\ Bk' = Bk /\ Old' = Missing /\ Stg' = Stg
  BY <1>1, Lists, FileEffect
<1>8. todo \in {Return1, ReturnUnmark} => StateSame /\ Old' = Missing /\ Stg' = Stg
  BY <1>1, Lists, FileEffect
<1>9. CASE pc = "recovered"
  <2>1. \/ todo = Unmark1 /\ Old = Missing
        \/ todo \in {ReturnUnmark, Drop2}
        \/ Cancelling(Unmark1) \/ SavingNew(Bk, Unmark1)
    BY <1>1, <1>9 DEF Standing, AtRecovered
  <2>2. Cancelling(Unmark1) \/ SavingNew(Bk, Unmark1) => FilesSame
    BY <1>1, <1>2, <1>4, InnerHead
  <2>3. Stg' = Stg /\ (Old' = Missing \/ FilesSame)
    BY <1>6, <1>7, <1>8, <2>1, <2>2 DEF FilesSame
  <2> QED BY <1>1, <1>3, <1>9, <2>3 DEF Secured
<1>10. CASE pc = "restored"
  <2>1. todo \in {Return1, Return2}
    BY <1>1, <1>10 DEF Standing, AtRestored
  <2>2. todo = Return2 => Old' = Old /\ Stg' = Stg /\ Pnd' = Pnd
    BY <1>1, Lists, FileEffect
  <2> QED BY <1>1, <1>8, <1>10, <2>1, <2>2 DEF Secured
<1>11. CASE pc \in {"finalize", "adopt", "bound"}
  <2>1. Inner(Head(todo))
    BY <1>1, <1>4, <1>11, InnerHead DEF Standing, AtFinalize, AtAdopt, AtBound
  <2> QED BY <1>1, <1>2, <1>3, <1>11, <2>1
<1>12. CASE pc = "barrier"
  <2>1. Inner(Head(todo)) /\ Ours
    BY <1>1, <1>4, <1>12, InnerHead DEF Standing, AtBarrier
  <2>2. Tmp \in Books => Tmp \in {Idn, Bak, Bk}
    BY <1>1, SoundFacts, Distinct
  <2>3. Head(todo).op # "write" => Ours'
    BY <1>2, <2>1, <2>2, Distinct DEF Ours, FilesSame
  <2> QED BY <1>1, <1>2, <1>3, <1>12, <2>1, <2>3
<1>13. CASE pc \in {"cancelled", "unmarked", "failed"}
  <2>1. Own /\ (Cancelling(<<>>) \/ todo = Unmark1) /\ (pc # "failed" => Cancelling(<<>>))
    BY <1>1, <1>13 DEF Standing, AtCancelled
  <2>2. Cancelling(<<>>) => FilesSame /\ epub
    BY <1>1, <1>2, <1>4, InnerHead DEF Cancelling
  <2>3. Bk' = Bk /\ Old' = Old /\ Own'
    BY <1>5, <1>6, <2>1, <2>2 DEF FilesSame, Own
  <2> QED BY <1>1, <1>3, <1>13, <2>1, <2>2, <2>3
<1>14. CASE pc = "done"
  <2>1. Own /\ (todo = Drop2 \/ (todo = Unmark1 /\ Old = Missing))
    BY <1>1, <1>14 DEF Standing, AtDone
  <2> QED BY <1>5, <1>6, <1>7, <1>14, <2>1 DEF Secured
<1>15. CASE pc = "marked"
  <2>1. Old = Missing /\ \E v \in {Had, New} : todo = Mark1(v)
    BY <1>1, <1>15 DEF Standing, AtMarked
  <2>2. Old' = Old
    BY <1>1, <2>1, Lists, FileEffect
  <2> QED BY <1>15, <2>1, <2>2 DEF Secured
<1>16. CASE pc \in {"rotated", "published", "unchanged"}
  <2>1. \/ todo = Rotate1 /\ Pnd = Had
        \/ todo \in {Publish1, Discard1}
    BY <1>1, <1>16 DEF Standing, AtRotated, AtPublished, AtUnchanged
  <2>2. /\ todo = Rotate1 => Pnd' = Pnd
        /\ todo \in {Publish1, Discard1} => Pnd' = Pnd /\ Old' = Old
    BY <1>1, Lists, FileEffect
  <2> QED BY <1>1, <1>16, <2>1, <2>2 DEF Secured
<1>17. CASE pc \in {"unrotated", "withdrawn"}
  <2>1. \/ todo = Return1
        \/ \E r \in Seq(Calls) : todo = Withdraw1(r)
    BY <1>1, <1>4, <1>17, Lists DEF Standing, AtUnrotated, AtWithdrawn, IsList
  <2>2. ASSUME NEW r \in Seq(Calls), todo = Withdraw1(r) PROVE Pnd' = Pnd /\ Old' = Old
    <3>1. Barrier \in Books \cup {Barrier}
      OBVIOUS
    <3>2. IsList(todo, RenameCall("book", "staging", <<>>), r)
      BY <2>2, <3>1, Going
    <3> QED BY <1>1, <3>2, FileEffect
  <2> QED BY <1>1, <1>8, <1>17, <2>1, <2>2 DEF Secured
<1> QED
  BY <1>1, <1>9, <1>10, <1>11, <1>12, <1>13, <1>14, <1>15, <1>16, <1>17 DEF Gated, Ended

(* Any call of any label. *)
LEMMA CallStep ==
  ASSUME IInv, ok, todo # <<>>
  PROVE  /\ Harmless(Head(todo))
         /\ pc \in Ended => Head(todo).undo = <<>>
         /\ Do => Standing' /\ Kept'
<1>1. /\ Sound(epub, slipped, disk, candidates) /\ Standing /\ Kept /\ pc \in Gated \cup Ended
      /\ staged \in Books
  BY Calling DEF IInv, Control
<1>2. Do => Rest /\ (pc \notin {"cancelled", "failed"} => Secured')
  <2>1. Do => Rest /\ disk' = After(Head(todo)) /\ Possible(Head(todo))
    BY DEF Do, Rest
  <2> QED BY <2>1, CallDoes DEF Rest
<1>3. CASE pc = "recovered"
  <2>1. Harmless(Head(todo)) /\ (Do => AtRecovered' /\ Stg' = Stg)
    BY <1>1, <1>3, RecoveredStep DEF Standing
  <2>2. task # "finish"
    BY <1>1, <1>3 DEF Standing, AtRecovered
  <2>3. Do => Standing'
    BY <1>2, <1>3, <2>1 DEF Standing, Rest
  <2>4. Do => Kept'
    BY <1>1, <1>2, <1>3, <2>1, <2>2 DEF Kept, Rest
  <2> QED BY <1>3, <2>1, <2>3, <2>4 DEF Ended
<1>4. CASE pc = "restored"
  <2>1. Harmless(Head(todo)) /\ (Do => AtRestored' /\ Stg' = Stg)
    BY <1>1, <1>4, RestoredStep DEF Standing
  <2>2. task # "finish"
    BY <1>1, <1>4 DEF Standing, AtRestored
  <2>3. Do => Standing'
    BY <1>2, <1>4, <2>1 DEF Standing, Rest
  <2>4. Do => Kept'
    BY <1>1, <1>2, <1>4, <2>1, <2>2 DEF Kept, Rest
  <2> QED BY <1>4, <2>1, <2>3, <2>4 DEF Ended
<1>5. CASE pc = "finalize"
  <2>1. Harmless(Head(todo)) /\ (Do => AtFinalize' /\ Stg' = Stg /\ Bk' = Bk)
    BY <1>1, <1>5, FinalizeStep DEF Standing
  <2> QED BY <1>1, <1>2, <1>5, <2>1 DEF Standing, Kept, Rest, Ended
<1>6. CASE pc = "adopt"
  <2>1. Harmless(Head(todo)) /\ (Do => AtAdopt') /\ task = "bind"
    BY <1>1, <1>6, AdoptStep DEF Standing, AtAdopt
  <2> QED BY <1>1, <1>2, <1>6, <2>1 DEF Standing, Kept, Rest, Ended
<1>7. CASE pc = "barrier"
  <2>1. Harmless(Head(todo)) /\ (Do => AtBarrier') /\ task = "publish"
    BY <1>1, <1>7, BarrierStep DEF Standing, AtBarrier
  <2> QED BY <1>1, <1>2, <1>7, <2>1 DEF Standing, Kept, Rest, Ended
<1>8. CASE pc = "marked"
  <2>1. Harmless(Head(todo)) /\ Head(todo).undo = <<>> /\ (Do => AtMarked') /\ task = "publish"
    BY <1>1, <1>8, MarkedStep DEF Standing, AtMarked
  <2> QED BY <1>1, <1>2, <1>8, <2>1 DEF Standing, Kept, Rest
<1>9. CASE pc = "rotated"
  <2>1. Harmless(Head(todo)) /\ Head(todo).undo = <<>> /\ (Do => AtRotated') /\ task = "publish"
    BY <1>1, <1>9, RotatedStep DEF Standing, AtRotated
  <2> QED BY <1>1, <1>2, <1>9, <2>1 DEF Standing, Kept, Rest
<1>10. CASE pc = "published"
  <2>1. task = "publish" /\ staged \in candidates /\ Secured
    BY <1>1, <1>10 DEF Standing, AtPublished, Kept
  <2>2. Harmless(Head(todo)) /\ Head(todo).undo = <<>> /\ (Do => AtPublished')
    BY <1>1, <1>10, <2>1, PublishedStep DEF Standing
  <2> QED BY <1>1, <1>2, <1>10, <2>1, <2>2 DEF Standing, Kept, Rest
<1>11. CASE pc = "unrotated"
  <2>1. Harmless(Head(todo)) /\ Head(todo).undo = <<>> /\ (Do => AtUnrotated') /\ task = "publish"
    BY <1>1, <1>11, UnrotatedStep DEF Standing, AtUnrotated
  <2> QED BY <1>1, <1>2, <1>11, <2>1 DEF Standing, Kept, Rest
<1>12. CASE pc = "withdrawn"
  <2>1. Harmless(Head(todo)) /\ Head(todo).undo = <<>> /\ (Do => AtWithdrawn') /\ task = "publish"
    BY <1>1, <1>12, WithdrawnStep DEF Standing, AtWithdrawn
  <2> QED BY <1>1, <1>2, <1>12, <2>1 DEF Standing, Kept, Rest
<1>13. CASE pc \in {"cancelled", "unmarked", "failed"}
  <2>1. Harmless(Head(todo)) /\ (Do => AtCancelled') /\ task = "publish"
    BY <1>1, <1>13, CancelledStep DEF Standing, AtCancelled
  <2> QED BY <1>1, <1>2, <1>13, <2>1 DEF Standing, Kept, Rest, Ended
<1>14. CASE pc = "done"
  <2>1. Harmless(Head(todo)) /\ (Do => AtDone' /\ Bk' = Bk) /\ task = "finish"
    BY <1>1, <1>14, DoneStep DEF Standing, AtDone
  <2> QED BY <1>1, <1>2, <1>14, <2>1 DEF Standing, Kept, Rest, Ended
<1>15. CASE pc = "unchanged"
  <2>1. Harmless(Head(todo)) /\ Head(todo).undo = <<>> /\ (Do => AtUnchanged') /\ task = "publish"
    BY <1>1, <1>15, UnchangedStep DEF Standing, AtUnchanged
  <2> QED BY <1>1, <1>2, <1>15, <2>1 DEF Standing, Kept, Rest
<1>16. CASE pc = "bound"
  <2>1. Harmless(Head(todo)) /\ (Do => AtBound') /\ task = "bind"
    BY <1>1, <1>16, BoundStep DEF Standing, AtBound
  <2> QED BY <1>1, <1>2, <1>16, <2>1 DEF Standing, Kept, Rest, Ended
<1> QED
  BY <1>1, <1>3, <1>4, <1>5, <1>6, <1>7, <1>8, <1>9, <1>10, <1>11, <1>12, <1>13, <1>14, <1>15, <1>16
  DEF Gated, Ended

LEMMA HeadHarmless ==
  ASSUME IInv, todo # <<>>
  PROVE  Harmless(Head(todo))
<1>1. CASE ok
  BY <1>1, CallStep
<1>2. CASE ~ok
  BY <1>2, UndoStep DEF IInv, Control
<1> QED BY <1>1, <1>2

(* Nothing but the identity has changed, and a call has failed.            *)
LEMMA Broken ==
  ASSUME Standing, Kept, pc \in Gated, ok' = FALSE,
         UNCHANGED <<epub, slipped, task, pc, staged, candidates>>,
         FilesSame, StateSame, {Idn', Bak'} \cap Books \subseteq {Idn, Bak}
  PROVE  Standing' /\ Kept'
<1>1. Kept'
  BY DEF Kept, FilesSame, Secured
<1>2. Own => Own'
  BY SameState DEF Own, FilesSame
<1>3. Ours => Ours'
  BY DEF Ours, FilesSame
<1>4. CASE pc \in {"recovered", "restored", "finalize", "adopt"}
  <2>1. /\ pc = "recovered" => AtRecovered'
        /\ pc = "restored" => AtRestored'
    BY <1>4 DEF Standing, AtRecovered, AtRestored
  <2>2. /\ pc = "finalize" => AtFinalize'
        /\ pc = "adopt" => AtAdopt'
    BY <1>4 DEF Standing, AtFinalize, AtAdopt, FilesSame
  <2> QED BY <1>1, <1>4, <2>1, <2>2 DEF Standing
<1>5. CASE pc = "barrier"
  <2>1. AtBarrier'
    BY <1>3, <1>5 DEF Standing, AtBarrier, FilesSame
  <2> QED BY <1>1, <1>5, <2>1 DEF Standing
<1>6. CASE pc \in {"cancelled", "unmarked", "failed"}
  <2>1. AtCancelled'
    BY <1>2, <1>6 DEF Standing, AtCancelled, FilesSame, Stranded
  <2> QED BY <1>1, <1>6, <2>1 DEF Standing
<1>7. CASE pc \in {"done", "bound"}
  <2>1. /\ pc = "done" => AtDone'
        /\ pc = "bound" => AtBound'
    BY <1>2, <1>7 DEF Standing, AtDone, AtBound, FilesSame
  <2> QED BY <1>1, <1>7, <2>1 DEF Standing
<1> QED BY <1>1, <1>4, <1>5, <1>6, <1>7 DEF Gated

LEMMA DoInv ==
  ASSUME IInv, Do
  PROVE  IInv' /\ Keeps(disk')
<1>1. todo # <<>> /\ UNCHANGED <<epub, slipped, task, pc, ok, staged, result, clean, candidates>>
  BY DEF Do
<1>2. Sound(epub', slipped', disk', candidates') /\ Keeps(disk')
  BY <1>1, HeadHarmless, AfterDo
<1>3. pc # "idle"
  BY <1>1, Calling DEF Gated, Ended
<1>4. RefusalHasCause'
  BY <1>1, <1>3 DEF RefusalHasCause
<1>5. CASE ok
  <2>1. Standing' /\ Kept'
    BY <1>1, <1>5, CallStep
  <2>2. Control'
    BY <1>1, <1>5 DEF IInv, Control
  <2> QED BY <1>2, <1>4, <2>1, <2>2 DEF IInv
<1>6. CASE ~ok
  <2>1. /\ FilesSame /\ StateSame /\ todo' = <<>>
        /\ {Idn', Bak'} \cap Books \subseteq {Idn, Bak}
    BY <1>1, <1>6, UndoStep DEF IInv, Control, Do
  <2>2. pc \in Gated
    BY <1>1, <1>6, Calling
  <2>3. ok' = FALSE
    BY <1>1, <1>6 DEF IInv, Control
  <2>4. Standing' /\ Kept'
    BY <1>1, <2>1, <2>2, <2>3, Broken DEF IInv
  <2>5. Control'
    BY <1>1, <1>6, <2>1 DEF IInv, Control, Undoing
  <2> QED BY <1>2, <1>4, <2>4, <2>5 DEF IInv
<1> QED BY <1>5, <1>6

(* A call of a list that goes on is reported as failed, and was not.       *)
LEMMA LateGated ==
  ASSUME IInv, ok, todo # <<>>, pc \in Gated, Possible(Head(todo)), disk' = After(Head(todo)),
         Head(todo).op # "write", ok' = FALSE, UNCHANGED <<epub, slipped, task, pc, staged, candidates>>
  PROVE  Standing' /\ Kept'
<1>1. /\ pc \notin {"cancelled", "failed"} => Secured'
      /\ pc \in {"finalize", "adopt", "barrier", "bound"} => FilesSame
      /\ pc \in {"recovered", "restored"} => Stg' = Stg
      /\ pc = "barrier" => Ours'
      /\ pc = "done" => Bk' = Bk /\ Own'
      /\ pc \in {"cancelled", "unmarked", "failed"} => Bk' = Bk /\ Old' = Old /\ Own'
  BY CallDoes
<1>2. Standing /\ Kept
  BY DEF IInv
<1>3. task = "finish" => pc \in {"finalize", "done"}
  BY <1>2 DEF Gated, Standing, AtRecovered, AtRestored, AtAdopt, AtBarrier, AtCancelled, AtBound
<1>4. Kept'
  <2>1. /\ Stg \in {staged, Torn} \/ ~(task = "publish" /\ pc \in {"recovered", "restored", "finalize"})
        /\ task = "publish" => staged \in candidates
        /\ task = "finish" => Bk = staged
    BY <1>2 DEF Kept, Gated
  <2>2. pc \in {"recovered", "restored", "finalize"} => Stg' = Stg
    BY <1>1 DEF FilesSame
  <2>3. task = "finish" => Bk' = Bk
    BY <1>1, <1>3 DEF FilesSame
  <2> QED BY <1>1, <2>1, <2>2, <2>3 DEF Kept, Gated
<1>5. /\ pc = "recovered" => AtRecovered'
      /\ pc = "restored" => AtRestored'
  BY <1>2 DEF Standing, AtRecovered, AtRestored
<1>6. /\ pc = "finalize" => AtFinalize'
      /\ pc = "adopt" => AtAdopt'
      /\ pc = "bound" => AtBound'
  BY <1>1, <1>2 DEF Standing, AtFinalize, AtAdopt, AtBound, FilesSame
<1>7. pc = "barrier" => AtBarrier'
  BY <1>1, <1>2 DEF Standing, AtBarrier, FilesSame
<1>8. pc = "done" => AtDone'
  BY <1>1, <1>2 DEF Standing, AtDone
<1>9. pc \in {"cancelled", "unmarked", "failed"} => AtCancelled'
  BY <1>1, <1>2 DEF Standing, AtCancelled, Stranded
<1>10. Standing'
  BY <1>5, <1>6, <1>7, <1>8, <1>9 DEF Standing, Gated
<1> QED BY <1>4, <1>10

(* The same of a list that is over then.                                   *)
LEMMA LateEnded ==
  ASSUME IInv, ok, todo # <<>>, pc \in Ended, Possible(Head(todo)), disk' = After(Head(todo)),
         Head(todo).op # "write", ok' = FALSE, todo' = <<>>,
         UNCHANGED <<epub, task, pc, staged, candidates>>,
         slipped' = IF Slips THEN slipped \cup {pc} ELSE slipped
  PROVE  Standing' /\ Kept'
<1>1. Sound(epub, slipped, disk, candidates) /\ Standing /\ Kept /\ Typed(disk)
  BY DEF IInv, Sound
<1>2. Secured /\ task = "publish" /\ staged \in candidates
  BY <1>1 DEF Kept, Ended, Standing, AtMarked, AtRotated, AtPublished, AtUnrotated, AtWithdrawn, AtUnchanged
<1>3. Secured' => Kept'
  BY <1>2 DEF Kept, Ended
<1>4. CASE pc = "marked"
  <2>1. PICK v \in {Had, New} : todo = Mark1(v)
    BY <1>1, <1>4 DEF Standing, AtMarked
  <2>2. Head(todo) = WriteCall("pending", v, <<>>)
    BY <2>1, Lists DEF IsList
  <2>3. WriteCall("pending", v, <<>>).op = "write"
    BY DEF WriteCall, Call
  <2> QED BY <2>2, <2>3
<1>5. CASE pc = "rotated"
  <2>1. Stg = staged /\ Barriered /\ todo = Rotate1 /\ Bk # Missing /\ Pnd = Had /\ Old = Missing
    BY <1>1, <1>5 DEF Standing, AtRotated
  <2>2. StateSame /\ IdentitySame /\ Bk' = Missing /\ Old' = Bk /\ Stg' = Stg /\ Pnd' = Pnd
    BY <1>1, <2>1, Lists, FileEffect
  <2>3. "rotated" \in slipped'
    BY <1>5, <2>1, <2>2 DEF Slips, Old
  <2>4. Barriered'
    BY <2>1, <2>2, StillBlocked
  <2>5. AtRotated' /\ Secured'
    BY <1>2, <2>1, <2>2, <2>3, <2>4 DEF AtRotated, Stranded, Secured
  <2> QED BY <1>3, <1>5, <2>5 DEF Standing
<1>6. CASE pc = "published"
  <2>1. FirstBook /\ NewMarked /\ Blocked /\ todo = Publish1
    BY <1>1, <1>6 DEF Standing, AtPublished
  <2>2. IsList(todo, RenameCall("staging", "book", <<>>), <<>>)
    BY <2>1, Lists
  <2>3. Bk = Missing
    <3>1. Possible(RenameCall("staging", "book", <<>>))
      BY <2>2 DEF IsList
    <3> QED BY <3>1, CallFailure DEF Bk
  <2>4. StateSame /\ IdentitySame /\ Bk' = Stg /\ Old' = Old /\ Stg' = Missing /\ Pnd' = Pnd /\ Bk = Missing
    BY <1>1, <2>2, <2>3, FileEffect
  <2>5. Bk' # Missing /\ Old = Missing => "published" \in slipped'
    BY <1>6, <2>4 DEF Slips, Bk, Old, Exists
  <2>6. Blocked' /\ (HasState' <=> HasState)
    BY <2>1, <2>4, StillBlocked, SameState
  <2>7. FirstBook' /\ NewMarked' /\ Secured'
    BY <1>2, <2>1, <2>4, <2>6 DEF FirstBook, NewMarked, Secured
  <2>8. AtPublished'
    BY <1>2, <2>4, <2>5, <2>6, <2>7 DEF AtPublished, Late
  <2> QED BY <1>3, <1>6, <2>7, <2>8 DEF Standing
<1>7. CASE pc = "unrotated"
  <2>1. Blocked /\ todo = Return1
    BY <1>1, <1>7 DEF Standing, AtUnrotated
  <2>2. StateSame /\ IdentitySame /\ Old' = Missing
    BY <1>1, <2>1, Lists, FileEffect
  <2>3. AtUnrotated' /\ Secured'
    BY <1>2, <2>1, <2>2, StillBlocked DEF AtUnrotated, Secured
  <2> QED BY <1>3, <1>7, <2>3 DEF Standing
<1>8. CASE pc = "withdrawn"
  <2>1. epub /\ Blocked /\ (todo = Return1 \/ \E r \in Seq(Calls) : todo = Withdraw1(r))
    BY <1>1, <1>8, Lists DEF Standing, AtWithdrawn, IsList
  <2>2. todo = Return1 => StateSame /\ IdentitySame /\ Old' = Missing
    BY <1>1, Lists, FileEffect
  <2>3. ASSUME NEW r \in Seq(Calls), todo = Withdraw1(r)
        PROVE  StateSame /\ IdentitySame /\ Old' = Old /\ Pnd' = Pnd
    <3>1. Barrier \in Books \cup {Barrier}
      OBVIOUS
    <3>2. IsList(todo, RenameCall("book", "staging", <<>>), r)
      BY <2>3, <3>1, Going
    <3> QED BY <1>1, <3>2, FileEffect
  <2>4. StateSame /\ IdentitySame /\ Secured'
    BY <1>2, <2>1, <2>2, <2>3 DEF Secured
  <2>5. AtWithdrawn'
    BY <1>2, <2>1, <2>4, StillBlocked DEF AtWithdrawn
  <2> QED BY <1>3, <1>8, <2>4, <2>5 DEF Standing
<1>9. CASE pc = "unchanged"
  <2>1. Bk = staged /\ Old = Missing /\ todo = Discard1
    BY <1>1, <1>9 DEF Standing, AtUnchanged
  <2>2. Bk' = Bk /\ Old' = Old
    BY <1>1, <2>1, Lists, FileEffect
  <2>3. AtUnchanged' /\ Secured'
    BY <1>2, <2>1, <2>2 DEF AtUnchanged, Secured
  <2> QED BY <1>3, <1>9, <2>3 DEF Standing
<1> QED BY <1>4, <1>5, <1>6, <1>7, <1>8, <1>9 DEF Ended

(* A call that fails and has not been done changes at most an identity     *)
(* temp or the marker.                                                     *)
LEMMA FailFrame ==
  ASSUME IInv, Fail, disk' = disk \/ Head(todo).op = "write"
  PROVE  /\ Bk' = Bk /\ Old' = Old /\ Stg' = Stg /\ StateSame /\ Idn' = Idn /\ Bak' = Bak
         /\ pc # "marked" => Pnd' = Pnd
         /\ slipped' = slipped /\ Undoing'
<1>1. todo # <<>> /\ disk' \in AfterFailure(Head(todo)) /\ epub' = epub
  BY DEF Fail
<1>2. Harmless(Head(todo)) /\ Typed(disk)
  BY <1>1, HeadHarmless DEF IInv, Sound
<1>3. PICK c : c = Head(todo)
  OBVIOUS
<1>4. slipped' = slipped
  <2>1. CASE disk' = disk
    BY <2>1 DEF Fail, Slips
  <2>2. CASE Head(todo).op = "write"
    <3>1. pc \in {"rotated", "published"} => todo \in {Rotate1, Publish1}
      BY <1>1 DEF IInv, Standing, AtRotated, AtPublished
    <3>2. Head(Rotate1) = RenameCall("book", "old", <<>>) /\ Head(Publish1) = RenameCall("staging", "book", <<>>)
      BY Lists DEF IsList
    <3>3. \A p, q : RenameCall(p, q, <<>>).op = "rename"
      BY DEF RenameCall, Call
    <3>4. pc \notin {"rotated", "published"}
      BY <2>2, <3>1, <3>2, <3>3
    <3> QED BY <3>4 DEF Fail, Slips
  <2> QED BY <2>1, <2>2
<1>5. ok => todo' = c.undo
  BY <1>3 DEF Fail
<1>6. ~ok => todo' = <<>>
  BY <1>1, UndoStep DEF Fail, IInv, Control
<1>7. CASE disk' = disk
  <2>1. /\ Bk' = Bk /\ Old' = Old /\ Stg' = Stg /\ StateSame /\ Idn' = Idn /\ Bak' = Bak
        /\ Tmp' = Tmp /\ Pnd' = Pnd
    BY <1>7 DEF StateSame, Bk, Old, Stg, Pnd, Idn, Bak, Tmp
  <2>2. c.undo \in {<<>>, UndoTmp} \/ (c.undo = UndoBak /\ epub /\ Bak # Missing /\ Tmp = Barrier)
    BY <1>2, <1>3 DEF Harmless, Undone, Restorable, RenameCall, Call
  <2>3. Undoing'
    BY <1>1, <1>5, <1>6, <2>1, <2>2 DEF Undoing
  <2> QED BY <1>4, <2>1, <2>3
<1>8. CASE disk' # disk
  <2>1. /\ c.op = "write"
        /\ \/ c.path = "idnTmp" /\ c.undo \in {<<>>, UndoTmp}
           \/ c.path = "pending" /\ pc = "marked" /\ c.undo = <<>>
    BY <1>2, <1>3, <1>8 DEF Harmless, Undone
  <2>2. \E v : disk' = [disk EXCEPT ![c.path] = v]
    BY <1>1, <1>3, <1>8, <2>1 DEF AfterFailure, After
  <2>3. Undoing'
    BY <1>5, <1>6, <2>1 DEF Undoing
  <2>4. ASSUME NEW p \in {"idnTmp", "pending"}, NEW v, disk' = [disk EXCEPT ![p] = v]
        PROVE  /\ Bk' = Bk /\ Old' = Old /\ Stg' = Stg /\ StateSame /\ Idn' = Idn /\ Bak' = Bak
               /\ p # "pending" => Pnd' = Pnd
    <3>1. SetIs(disk', p, v)
      BY <1>2, <2>4, SetEffect, Names
    <3> QED BY <2>4, <3>1 DEF SetIs, StateSame, State, Bk, Old, Stg, Pnd, Idn, Bak
  <2>5. /\ Bk' = Bk /\ Old' = Old /\ Stg' = Stg /\ StateSame /\ Idn' = Idn /\ Bak' = Bak
        /\ c.path # "pending" => Pnd' = Pnd
    BY <2>1, <2>2, <2>4
  <2> QED BY <1>4, <2>1, <2>3, <2>5
<1> QED BY <1>7, <1>8

(* More is excused once more has slipped. *)
LEMMA Grows ==
  ASSUME NEW e, NEW h, NEW h2, h \subseteq h2, NEW d, NEW books, Sound(e, h, d, books)
  PROVE  Sound(e, h2, d, books)
<1>1. \A x : OwnedBy(h, d, x) => OwnedBy(h2, d, x)
  BY DEF OwnedBy
<1>2. Shape(e, h2, d)
  BY <1>1 DEF Sound, Shape, Behind, Named, Between, Nameless
<1>3. Marked(e, h2, d) /\ Whole(h2, d, books)
  BY <1>1 DEF Sound, Marked, Whole
<1> QED BY <1>2, <1>3 DEF Sound

(* What was tried to undo it still fits. *)
LEMMA LateUndo ==
  ASSUME IInv, todo # <<>>, disk' = After(Head(todo)), epub' = epub, todo' = Head(todo).undo
  PROVE  Undoing'
<1>1. Harmless(Head(todo)) /\ Typed(disk)
  BY HeadHarmless DEF IInv, Sound
<1>2. CASE Undone(Head(todo).undo)
  BY <1>2 DEF Undone, Undoing
<1>3. CASE Restorable(Head(todo))
  <2>1. Head(todo).undo = UndoBak /\ epub /\ Tmp = Barrier
    BY <1>3 DEF Restorable, RenameCall, Call
  <2>2. MoveIs(disk', "idnTmp", "idn")
    BY <1>1, <1>3, CallEffect, MoveEffect, Names DEF Restorable, State
  <2>3. Idn' = Barrier
    BY <2>1, <2>2 DEF MoveIs, Idn, Tmp
  <2> QED BY <2>1, <2>3, Distinct DEF Undoing
<1> QED BY <1>1, <1>2, <1>3 DEF Harmless

LEMMA FailInv ==
  ASSUME IInv, Fail
  PROVE  IInv' /\ Keeps(disk')
<1>1. /\ todo # <<>> /\ ok' = FALSE /\ UNCHANGED <<epub, task, pc, staged, result, candidates>>
      /\ todo' = (IF ok THEN Head(todo).undo ELSE Tail(todo))
      /\ slipped' = (IF Slips THEN slipped \cup {pc} ELSE slipped)
      /\ disk' \in AfterFailure(Head(todo))
      /\ clean' = (clean /\ ~Possible(Head(todo)))
  BY DEF Fail
<1>2. Harmless(Head(todo))
  BY <1>1, HeadHarmless
<1>3. Sound(epub', slipped', disk', candidates') /\ Keeps(disk')
  <2>1. Sound(epub, slipped, disk', candidates) /\ Keeps(disk')
    BY <1>1, <1>2 DEF Harmless
  <2>2. slipped \subseteq slipped'
    BY <1>1
  <2>3. Sound(epub, slipped', disk', candidates)
    BY <2>1, <2>2, Grows
  <2> QED BY <1>1, <2>1, <2>3
<1>4. clean' = FALSE
  BY <1>1, <1>2 DEF Harmless, Stuck, IInv, Control
<1>5. RefusalHasCause'
  BY <1>4 DEF RefusalHasCause
<1>6. slipped' \subseteq {"rotated", "published"}
  BY <1>1 DEF Slips, IInv, Control
<1>7. Undoing' => Control'
  BY <1>1, <1>4, <1>6 DEF IInv, Control
<1>8. pc \in Gated => slipped' = slipped
  BY <1>1 DEF Slips, Gated
<1>9. CASE disk' = disk \/ Head(todo).op = "write"
  <2>1. /\ Bk' = Bk /\ Old' = Old /\ Stg' = Stg /\ StateSame /\ Idn' = Idn /\ Bak' = Bak
        /\ pc # "marked" => Pnd' = Pnd
        /\ slipped' = slipped /\ Undoing'
    BY <1>9, FailFrame
  <2>2. CASE pc \in Gated
    <3>1. FilesSame /\ {Idn', Bak'} \cap Books \subseteq {Idn, Bak}
      BY <2>1, <2>2 DEF Gated, FilesSame
    <3>2. Standing' /\ Kept'
      BY <1>1, <2>1, <2>2, <3>1, Broken DEF IInv
    <3> QED BY <1>3, <1>5, <1>7, <2>1, <3>2 DEF IInv
  <2>3. CASE pc \in Ended
    <3>1. ok /\ pc \notin Gated
      BY <1>1, <2>3, Calling DEF Gated, Ended
    <3>2. todo' = <<>>
      BY <1>1, <2>3, <3>1, CallStep
    <3>3. Kept'
      <4>1. pc = "marked" => Old = Missing
        BY DEF IInv, Standing, AtMarked
      <4> QED BY <1>1, <2>1, <2>3, <4>1 DEF IInv, Kept, Ended, Secured
    <3>4. /\ HasState' <=> HasState
          /\ \A x : OwnedBy(slipped, disk', x) <=> OwnedBy(slipped, disk, x)
      BY <2>1, SameState
    <3>5. (Blocked => Blocked') /\ (Barriered => Barriered') /\ (Own => Own')
      BY <1>1, <2>1, <3>4 DEF Blocked, Barriered, Own
    <3>6. pc = "marked" => AtMarked'
      BY <1>1, <2>1, <3>2, <3>5 DEF IInv, Standing, AtMarked
    <3>7. pc = "rotated" => AtRotated'
      BY <1>1, <2>1, <3>1, <3>2, <3>5 DEF IInv, Standing, AtRotated
    <3>8. pc = "published" => AtPublished'
      BY <1>1, <2>1, <3>1, <3>2, <3>4, <3>5 DEF IInv, Standing, AtPublished, FirstBook, NewMarked
    <3>9. pc = "unrotated" => AtUnrotated'
      BY <1>1, <2>1, <3>2, <3>5 DEF IInv, Standing, AtUnrotated
    <3>10. pc = "withdrawn" => AtWithdrawn'
      BY <1>1, <2>1, <3>2, <3>5 DEF IInv, Standing, AtWithdrawn
    <3>11. pc = "unchanged" => AtUnchanged'
      BY <1>1, <2>1, <3>2 DEF IInv, Standing, AtUnchanged
    <3>12. Standing'
      BY <1>1, <2>3, <3>6, <3>7, <3>8, <3>9, <3>10, <3>11 DEF Standing, Ended
    <3> QED BY <1>3, <1>5, <1>7, <2>1, <3>3, <3>12 DEF IInv
  <2> QED BY <1>1, <2>2, <2>3, Calling
<1>10. CASE disk' # disk /\ Head(todo).op # "write"
  <2>1. Possible(Head(todo)) /\ disk' = After(Head(todo))
    BY <1>1, <1>10 DEF AfterFailure
  <2>2. CASE ~ok
    <3>1. /\ FilesSame /\ StateSame /\ Tail(todo) = <<>>
          /\ {Idn', Bak'} \cap Books \subseteq {Idn, Bak}
      BY <1>1, <2>1, <2>2, UndoStep DEF IInv, Control
    <3>2. pc \in Gated
      BY <1>1, <2>2, Calling
    <3>3. Standing' /\ Kept'
      BY <1>1, <1>8, <3>1, <3>2, Broken DEF IInv
    <3>4. Undoing'
      BY <1>1, <2>2, <3>1 DEF Undoing
    <3> QED BY <1>3, <1>5, <1>7, <3>3, <3>4 DEF IInv
  <2>3. CASE ok /\ pc \in Gated
    <3>1. Standing' /\ Kept'
      BY <1>1, <1>8, <1>10, <2>1, <2>3, LateGated
    <3>2. Undoing'
      BY <1>1, <2>1, <2>3, LateUndo
    <3> QED BY <1>3, <1>5, <1>7, <3>1, <3>2 DEF IInv
  <2>4. CASE ok /\ pc \in Ended
    <3>1. todo' = <<>>
      BY <1>1, <2>4, CallStep
    <3>2. Standing' /\ Kept'
      BY <1>1, <1>10, <2>1, <2>4, <3>1, LateEnded
    <3>3. Undoing'
      BY <3>1 DEF Undoing
    <3> QED BY <1>3, <1>5, <1>7, <3>2, <3>3 DEF IInv
  <2> QED BY <1>1, <2>2, <2>3, <2>4, Calling
<1> QED BY <1>9, <1>10

LEMMA PowerLossInv ==
  ASSUME IInv, PowerLoss
  PROVE  IInv' /\ Keeps(disk')
<1>1. /\ pc' = "idle" /\ todo' = <<>> /\ ok' = TRUE /\ result' = "none"
      /\ UNCHANGED <<epub, slipped, task, staged, clean, candidates>>
  BY DEF PowerLoss
<1>2. ASSUME disk' = disk PROVE Sound(epub', slipped', disk', candidates') /\ Keeps(disk')
  BY <1>1, <1>2, Distinct DEF IInv, Keeps
<1>3. ASSUME todo # <<>>, Head(todo).op = "write", disk' = [disk EXCEPT ![Head(todo).path] = Torn]
      PROVE  Sound(epub', slipped', disk', candidates') /\ Keeps(disk')
  <2>1. disk' \in AfterFailure(Head(todo))
    BY <1>3 DEF AfterFailure
  <2>2. Harmless(Head(todo))
    BY <1>3, HeadHarmless
  <2> QED BY <1>1, <2>1, <2>2 DEF IInv, Harmless
<1>4. Sound(epub', slipped', disk', candidates') /\ Keeps(disk')
  BY <1>2, <1>3 DEF PowerLoss
<1>5. Control'
  BY <1>1 DEF IInv, Control, Label, Status
<1>6. Kept' /\ Standing' /\ RefusalHasCause'
  BY <1>1 DEF Kept, Standing, Resting, RefusalHasCause
<1> QED BY <1>4, <1>5, <1>6 DEF IInv

-----------------------------------------------------------------------------
(* The lists as the program writes them. *)
LEMMA Glue ==
  ASSUME NEW c \in Calls, NEW r \in Seq(Calls)
  PROVE  /\ <<c>> = Cons(c, <<>>) /\ <<c>> \o r = Cons(c, r) /\ Cons(c, r) \in Seq(Calls)
         /\ \A s \in Seq(Calls) : Cons(c, r) \o s = Cons(c, r \o s)
         /\ \A s \in Seq(Calls) : <<>> \o s = s /\ s \o <<>> = s
<1>1. <<c>> \in Seq(Calls) /\ <<>> \in Seq(Calls)
  OBVIOUS
<1>2. ASSUME NEW s \in Seq(Calls) PROVE <<>> \o s = s /\ s \o <<>> = s
  BY ConcatEmptySeq
<1>3. \A s \in Seq(Calls) : (<<c>> \o r) \o s = <<c>> \o (r \o s)
  BY <1>1, ConcatAssociative
<1>4. <<c>> \o r \in Seq(Calls)
  BY <1>1, ConcatProperties
<1> QED BY <1>1, <1>2, <1>3, <1>4 DEF Cons

(* OrElse, from the head of a list. *)
LEMMA OrElseCons ==
  ASSUME NEW c \in Calls, NEW r \in Seq(Calls), NEW u \in Undos
  PROVE  /\ OrElse(Cons(c, r), u) = Cons([c EXCEPT !.undo = u], OrElse(r, u))
         /\ OrElse(r, u) \in Seq(Calls) /\ OrElse(<<>>, u) = <<>>
<1>1. \A d \in Calls : [d EXCEPT !.undo = u] \in Calls
  BY DEF Calls
<1>2. ASSUME NEW s \in Seq(Calls)
      PROVE  /\ OrElse(s, u) \in Seq(Calls) /\ Len(OrElse(s, u)) = Len(s)
             /\ \A i \in 1..Len(s) : OrElse(s, u)[i] = [s[i] EXCEPT !.undo = u]
  <2>1. \A i \in 1..Len(s) : [s[i] EXCEPT !.undo = u] \in Calls
    BY <1>1
  <2> DEFINE e(i) == [s[i] EXCEPT !.undo = u]
             f == [i \in 1..Len(s) |-> e(i)]
  <2>2. OrElse(s, u) = f
    BY DEF OrElse
  <2>3. \A i \in 1..Len(s) : e(i) \in Calls
    BY <2>1
  <2> HIDE DEF e
  <2>4. f \in Seq(Calls) /\ Len(f) = Len(s) /\ \A i \in 1..Len(s) : f[i] = e(i)
    BY <2>3
  <2> QED BY <2>2, <2>4 DEF e
<1>3. PICK d \in Calls : d = [c EXCEPT !.undo = u]
  BY <1>1
<1>4. OrElse(Cons(c, r), u) = Cons(d, OrElse(r, u))
  <2>1. /\ Cons(c, r) \in Seq(Calls) /\ Len(Cons(c, r)) = Len(r) + 1
        /\ \A i \in 1..Len(Cons(c, r)) : Cons(c, r)[i] = IF i = 1 THEN c ELSE r[i - 1]
    BY DEF Cons
  <2>2. /\ Cons(d, OrElse(r, u)) \in Seq(Calls) /\ Len(Cons(d, OrElse(r, u))) = Len(r) + 1
        /\ \A i \in 1..Len(r) + 1 : Cons(d, OrElse(r, u))[i] = IF i = 1 THEN d ELSE OrElse(r, u)[i - 1]
    BY <1>2 DEF Cons
  <2>3. /\ OrElse(Cons(c, r), u) \in Seq(Calls) /\ Len(OrElse(Cons(c, r), u)) = Len(r) + 1
        /\ \A i \in 1..Len(r) + 1 :
             OrElse(Cons(c, r), u)[i] = [(IF i = 1 THEN c ELSE r[i - 1]) EXCEPT !.undo = u]
    BY <1>2, <2>1
  <2>4. ASSUME NEW i \in 1..Len(r) + 1
        PROVE  OrElse(Cons(c, r), u)[i] = Cons(d, OrElse(r, u))[i]
    <3>1. CASE i = 1
      BY <1>3, <2>2, <2>3, <3>1
    <3>2. CASE i # 1
      <4>1. i - 1 \in 1..Len(r)
        BY <3>2
      <4>2. OrElse(r, u)[i - 1] = [r[i - 1] EXCEPT !.undo = u]
        BY <1>2, <4>1
      <4> QED BY <2>2, <2>3, <3>2, <4>2
    <3> QED BY <3>1, <3>2
  <2> QED BY <2>2, <2>3, <2>4, SeqEqual
<1>5. OrElse(<<>>, u) = <<>>
  <2>1. <<>> \in Seq(Calls) /\ Len(<<>>) = 0
    OBVIOUS
  <2>2. OrElse(<<>>, u) \in Seq(Calls) /\ Len(OrElse(<<>>, u)) = 0
    BY <1>2, <2>1
  <2> QED BY <2>2, EmptySeq
<1> QED BY <1>2, <1>3, <1>4, <1>5

(* The lists of one or two calls. *)
LEMMA ShortLists ==
  /\ Remove("pending") = Unmark1 /\ DropOld = Drop2
  /\ Rename("old", "book") \o Remove("pending") = ReturnUnmark
  /\ Rename("old", "book") = Return1 /\ Remove("book") \o Rename("old", "book") = Return2
  /\ Rename("book", "old") = Rotate1 /\ Rename("staging", "book") = Publish1
  /\ Rename("book", "staging") \o Return1 = Withdraw1(Return1)
  /\ Rename("book", "staging") \o <<>> = Withdraw1(<<>>)
  /\ Remove("staging") = Discard1 /\ Remove("idnTmp") = UndoTmp
  /\ Rename("idnBak", "idn") = UndoBak
  /\ \A v \in {Had, New} : Write("pending", v) = Mark1(v)
<1>1. ASSUME NEW p \in Path
      PROVE  /\ Remove(p) = Cons(RemoveCall(p, <<>>), <<>>)
             /\ \A r \in Seq(Calls) : Remove(p) \o r = Cons(RemoveCall(p, <<>>), r)
  <2>1. RemoveCall(p, <<>>) \in Calls
    BY EveryCall, Names
  <2> QED BY <2>1, Glue, Lists DEF Remove, RemoveCall
<1>2. ASSUME NEW p \in Path, NEW q \in Path
      PROVE  /\ Rename(p, q) = Cons(RenameCall(p, q, <<>>), <<>>)
             /\ \A r \in Seq(Calls) : Rename(p, q) \o r = Cons(RenameCall(p, q, <<>>), r)
  <2>1. RenameCall(p, q, <<>>) \in Calls
    BY EveryCall, Names
  <2> QED BY <2>1, Glue, Lists DEF Rename, RenameCall
<1>3. ASSUME NEW p \in Path, NEW v \in Arg
      PROVE  Write(p, v) = Cons(WriteCall(p, v, <<>>), <<>>)
  <2>1. WriteCall(p, v, <<>>) \in Calls
    BY EveryCall, Names
  <2> QED BY <2>1, Glue, Lists DEF Write, WriteCall
<1>4. <<>> \in Seq(Calls) /\ Unmark1 \in Seq(Calls) /\ Return1 \in Seq(Calls)
  BY Lists DEF IsList
<1>5. /\ Remove("pending") = Unmark1 /\ Remove("staging") = Discard1 /\ Remove("idnTmp") = UndoTmp
      /\ \A v \in {Had, New} : Write("pending", v) = Mark1(v)
  BY <1>1, <1>3, Names DEF Unmark1, Discard1, UndoTmp, Mark1
<1>6. /\ Rename("old", "book") = Return1 /\ Rename("book", "old") = Rotate1
      /\ Rename("staging", "book") = Publish1 /\ Rename("idnBak", "idn") = UndoBak
  BY <1>2, Names DEF Return1, Rotate1, Publish1, UndoBak
<1>7. DropOld = Drop2 /\ Remove("book") \o Rename("old", "book") = Return2
  BY <1>1, <1>4, <1>5, <1>6, Names DEF DropOld, Drop2, Return2
<1>8. /\ Rename("old", "book") \o Remove("pending") = ReturnUnmark
      /\ Rename("book", "staging") \o Return1 = Withdraw1(Return1)
      /\ Rename("book", "staging") \o <<>> = Withdraw1(<<>>)
  BY <1>2, <1>4, <1>5, Names DEF ReturnUnmark, Withdraw1
<1> QED BY <1>5, <1>6, <1>7, <1>8

(* What save() does, alone and with calls to follow.                       *)
LEMMA SaveLists ==
  ASSUME NEW v \in Books \cup {Barrier}, NEW r \in Seq(Calls)
  PROVE  /\ SaveCalls(v, FALSE) = New1(v, <<>>) /\ SaveCalls(v, FALSE) \o r = New1(v, r)
         /\ SaveCalls(Barrier, TRUE) = Over1(<<>>) /\ SaveCalls(Barrier, TRUE) \o r = Over1(r)
<1> DEFINE a(u) == RemoveCall("idnTmp", u)
           b(w, u) == WriteCall("idnTmp", w, u)
           c(u) == RemoveCall("idn", u)
           d(u) == RemoveCall("idnBak", u)
           e(u) == RenameCall("idn", "idnBak", u)
           f(u) == RenameCall("idnTmp", "idn", u)
           L == Seq(Calls)
           N == <<>>
           J(s, t) == s \o t
           T(s) == OrElse(s, UndoTmp)
           B(s) == OrElse(s, UndoBak)
           t1(x) == [x EXCEPT !.undo = UndoTmp]
           b1(x) == [x EXCEPT !.undo = UndoBak]
<1>1. \A u \in {N, UndoTmp, UndoBak} :
        /\ a(u) \in Calls /\ c(u) \in Calls /\ d(u) \in Calls /\ e(u) \in Calls /\ f(u) \in Calls
        /\ \A w \in Books \cup {Barrier} : b(w, u) \in Calls
        /\ MakeCall \in Calls
  BY EveryCall, Names
<1>2. /\ t1(a(N)) = a(UndoTmp) /\ t1(c(N)) = c(UndoTmp) /\ t1(d(N)) = d(UndoTmp)
      /\ t1(e(N)) = e(UndoTmp) /\ b1(f(N)) = f(UndoBak)
      /\ \A w : t1(b(w, N)) = b(w, UndoTmp)
  BY DEF RemoveCall, RenameCall, WriteCall, Call
<1>3. \A x \in Calls, s \in L : /\ T(Cons(x, s)) = Cons(t1(x), T(s))
                                /\ B(Cons(x, s)) = Cons(b1(x), B(s))
  BY OrElseCons, Names
<1>4. N \in Undos /\ UndoTmp \in Undos /\ UndoBak \in Undos /\ N \in L /\ r \in L
  BY Names
<1>5. T(N) = N /\ B(N) = N
  <2>1. RemoveCall("idn", <<>>) \in Calls
    BY EveryCall, Names
  <2> QED BY <1>4, <2>1, OrElseCons
<1>6. \A x \in Calls, s \in L : Cons(x, s) \in L
  BY Glue
<1>7. /\ \A x \in Calls, s \in L, t \in L : J(Cons(x, s), t) = Cons(x, J(s, t))
      /\ \A t \in L : J(N, t) = t
  <2>1. RemoveCall("idn", <<>>) \in Calls
    BY EveryCall, Names
  <2> QED BY <1>4, <2>1, Glue
<1>8. \A s \in L, t \in L : J(J(s, t), r) = J(s, J(t, r)) /\ J(s, t) \in L
  BY <1>4, ConcatAssociative, ConcatProperties
<1>9. /\ MakeCache = Cons(MakeCall, N)
      /\ Remove("idnTmp") = Cons(a(N), N) /\ Remove("idnBak") = Cons(d(N), N) /\ Remove("idn") = Cons(c(N), N)
      /\ Rename("idn", "idnBak") = Cons(e(N), N) /\ Rename("idnTmp", "idn") = Cons(f(N), N)
      /\ \A w \in Books \cup {Barrier} : Write("idnTmp", w) = Cons(b(w, N), N)
      /\ Remove("idnTmp") = UndoTmp /\ Rename("idnBak", "idn") = UndoBak
  <2>1. \A x \in Calls : <<x>> = Cons(x, N)
    BY <1>4, Glue
  <2>2. /\ MakeCache = <<MakeCall>>
        /\ Remove("idnTmp") = <<a(N)>> /\ Remove("idnBak") = <<d(N)>> /\ Remove("idn") = <<c(N)>>
        /\ Rename("idn", "idnBak") = <<e(N)>> /\ Rename("idnTmp", "idn") = <<f(N)>>
        /\ \A w : Write("idnTmp", w) = <<b(w, N)>>
    BY DEF MakeCache, MakeCall, Remove, Rename, Write, RemoveCall, RenameCall, WriteCall
  <2>3. Remove("idnTmp") = UndoTmp /\ Rename("idnBak", "idn") = UndoBak
    BY ShortLists
  <2> HIDE DEF a, b, c, d, e, f
  <2> QED BY <1>1, <1>4, <2>1, <2>2, <2>3
<1>10. \A w \in Books \cup {Barrier}, s \in L :
         /\ New1(w, s) = Cons(MakeCall, Cons(a(UndoTmp), Cons(b(w, UndoTmp), Cons(c(UndoTmp), Cons(f(N), s)))))
         /\ Over1(s) = Cons(MakeCall, Cons(a(UndoTmp), Cons(b(Barrier, UndoTmp), Cons(d(UndoTmp),
                         Cons(e(UndoTmp), Cons(f(UndoBak), s))))))
  BY DEF New1, New2, New3, New4, New5, Over1, Over2, Over3, Over4, Over5, Over6
<1>11. /\ SaveCalls(v, FALSE) =
            J(J(MakeCache, T(J(J(Remove("idnTmp"), Write("idnTmp", v)), Remove("idn")))), Rename("idnTmp", "idn"))
       /\ SaveCalls(Barrier, TRUE) =
            J(J(MakeCache, T(J(J(Remove("idnTmp"), Write("idnTmp", Barrier)),
                               J(Remove("idnBak"), Rename("idn", "idnBak"))))), B(Rename("idnTmp", "idn")))
  BY <1>9 DEF SaveCalls
<1>12. /\ SaveCalls(v, FALSE) = New1(v, N) /\ J(SaveCalls(v, FALSE), r) = New1(v, r)
       /\ SaveCalls(Barrier, TRUE) = Over1(N) /\ J(SaveCalls(Barrier, TRUE), r) = Over1(r)
  <2> DEFINE tmp == Cons(a(N), N)
             first == Cons(a(N), Cons(b(v, N), Cons(c(N), N)))
             second == Cons(a(N), Cons(b(Barrier, N), Cons(d(N), Cons(e(N), N))))
             firstUndo == Cons(a(UndoTmp), Cons(b(v, UndoTmp), Cons(c(UndoTmp), N)))
             secondUndo == Cons(a(UndoTmp), Cons(b(Barrier, UndoTmp), Cons(d(UndoTmp), Cons(e(UndoTmp), N))))
  <2> HIDE DEF a, b, c, d, e, f, L, N, J, T, B, t1, b1
  <2>0. /\ a(N) \in Calls /\ c(N) \in Calls /\ d(N) \in Calls /\ e(N) \in Calls /\ f(N) \in Calls
        /\ \A w \in Books \cup {Barrier} : b(w, N) \in Calls /\ b(w, UndoTmp) \in Calls
        /\ a(UndoTmp) \in Calls /\ c(UndoTmp) \in Calls /\ d(UndoTmp) \in Calls /\ e(UndoTmp) \in Calls
        /\ f(UndoBak) \in Calls /\ MakeCall \in Calls /\ v \in Books \cup {Barrier} /\ Barrier \in Books \cup {Barrier}
    BY <1>1
  <2>10. \A x \in Calls, s \in L : J(Cons(x, N), s) = Cons(x, s)
    BY <1>4, <1>7
  <2>1. ASSUME NEW w \in Books \cup {Barrier}, NEW s \in L
        PROVE  J(J(Remove("idnTmp"), Write("idnTmp", w)), s) = Cons(a(N), Cons(b(w, N), s))
    <3>1. J(Remove("idnTmp"), Write("idnTmp", w)) = Cons(a(N), Cons(b(w, N), N))
      <4>1. Remove("idnTmp") = Cons(a(N), N) /\ Write("idnTmp", w) = Cons(b(w, N), N) /\ Cons(b(w, N), N) \in L
        BY <1>4, <1>6, <1>9, <2>0
      <4> QED BY <2>0, <2>10, <4>1
    <3>2. Cons(b(w, N), N) \in L /\ J(Cons(b(w, N), N), s) = Cons(b(w, N), s)
      BY <1>4, <1>6, <2>0, <2>10
    <3>3. J(Cons(a(N), Cons(b(w, N), N)), s) = Cons(a(N), J(Cons(b(w, N), N), s))
      BY <1>7, <2>0, <3>2
    <3> QED BY <3>1, <3>2, <3>3
  <2>2. J(J(Remove("idnTmp"), Write("idnTmp", v)), Remove("idn")) = first
    <3>1. Remove("idn") = Cons(c(N), N) /\ Cons(c(N), N) \in L
      BY <1>4, <1>6, <1>9, <2>0
    <3> QED BY <2>0, <2>1, <3>1
  <2>3. J(Remove("idnBak"), Rename("idn", "idnBak")) = Cons(d(N), Cons(e(N), N)) /\ Cons(d(N), Cons(e(N), N)) \in L
    BY <1>4, <1>6, <1>9, <2>0, <2>10
  <2>4. J(J(Remove("idnTmp"), Write("idnTmp", Barrier)), J(Remove("idnBak"), Rename("idn", "idnBak"))) = second
    BY <2>0, <2>1, <2>3
  <2>5. T(first) = firstUndo
    <3>1. Cons(c(N), N) \in L /\ Cons(b(v, N), Cons(c(N), N)) \in L
      BY <1>4, <1>6, <2>0
    <3>2. T(Cons(c(N), N)) = Cons(c(UndoTmp), N)
      BY <1>2, <1>3, <1>4, <1>5, <2>0
    <3> QED BY <1>2, <1>3, <2>0, <3>1, <3>2
  <2>6. T(second) = secondUndo
    <3>1. /\ Cons(e(N), N) \in L /\ Cons(d(N), Cons(e(N), N)) \in L
          /\ Cons(b(Barrier, N), Cons(d(N), Cons(e(N), N))) \in L
      BY <1>4, <1>6, <2>0
    <3>2. T(Cons(d(N), Cons(e(N), N))) = Cons(d(UndoTmp), Cons(e(UndoTmp), N))
      BY <1>2, <1>3, <1>4, <1>5, <2>0, <3>1
    <3> QED BY <1>2, <1>3, <2>0, <3>1, <3>2
  <2>7. B(Rename("idnTmp", "idn")) = Cons(f(UndoBak), N)
    BY <1>2, <1>3, <1>4, <1>5, <1>9, <2>0
  <2>8. firstUndo \in L /\ secondUndo \in L
    BY <1>4, <1>6, <2>0
  <2>9. ASSUME NEW s \in L
        PROVE  /\ J(firstUndo, s) = Cons(a(UndoTmp), Cons(b(v, UndoTmp), Cons(c(UndoTmp), s)))
               /\ J(secondUndo, s) = Cons(a(UndoTmp), Cons(b(Barrier, UndoTmp), Cons(d(UndoTmp), Cons(e(UndoTmp), s))))
    <3>1. \A x \in Calls, y \in Calls : /\ Cons(x, Cons(y, N)) \in L
                                        /\ J(Cons(x, Cons(y, N)), s) = Cons(x, Cons(y, s))
      BY <1>4, <1>6, <1>7, <2>10
    <3>2. \A x \in Calls, y \in Calls, z \in Calls :
             /\ Cons(x, Cons(y, Cons(z, N))) \in L
             /\ J(Cons(x, Cons(y, Cons(z, N))), s) = Cons(x, Cons(y, Cons(z, s)))
      BY <1>6, <1>7, <3>1
    <3>3. J(firstUndo, s) = Cons(a(UndoTmp), Cons(b(v, UndoTmp), Cons(c(UndoTmp), s)))
      BY <2>0, <3>2
    <3>4. J(secondUndo, s) = Cons(a(UndoTmp), J(Cons(b(Barrier, UndoTmp), Cons(d(UndoTmp), Cons(e(UndoTmp), N))), s))
      <4>1. Cons(b(Barrier, UndoTmp), Cons(d(UndoTmp), Cons(e(UndoTmp), N))) \in L /\ a(UndoTmp) \in Calls
        BY <2>0, <3>2
      <4> QED BY <1>7, <4>1
    <3>5. J(Cons(b(Barrier, UndoTmp), Cons(d(UndoTmp), Cons(e(UndoTmp), N))), s) =
            Cons(b(Barrier, UndoTmp), Cons(d(UndoTmp), Cons(e(UndoTmp), s)))
      BY <2>0, <3>2
    <3> QED BY <3>3, <3>4, <3>5
  <2>11. /\ SaveCalls(v, FALSE) = J(Cons(MakeCall, firstUndo), Cons(f(N), N))
         /\ SaveCalls(Barrier, TRUE) = J(Cons(MakeCall, secondUndo), Cons(f(UndoBak), N))
    <3> HIDE DEF first, second, firstUndo, secondUndo
    <3> QED BY <1>1, <1>4, <1>9, <1>11, <2>2, <2>4, <2>5, <2>6, <2>7, <2>8, <2>10
  <2>12. ASSUME NEW s \in L
         PROVE  /\ J(Cons(MakeCall, firstUndo), Cons(f(N), s)) = New1(v, s)
                /\ J(Cons(MakeCall, secondUndo), Cons(f(UndoBak), s)) = Over1(s)
    <3>1. Cons(f(N), s) \in L /\ Cons(f(UndoBak), s) \in L /\ MakeCall \in Calls
      BY <1>1, <1>4, <1>6
    <3>2. /\ J(Cons(MakeCall, firstUndo), Cons(f(N), s)) = Cons(MakeCall, J(firstUndo, Cons(f(N), s)))
          /\ J(Cons(MakeCall, secondUndo), Cons(f(UndoBak), s)) = Cons(MakeCall, J(secondUndo, Cons(f(UndoBak), s)))
      BY <1>7, <2>8, <3>1
    <3> QED BY <1>10, <2>9, <3>1, <3>2
  <2> HIDE DEF firstUndo, secondUndo
  <2>13. Cons(MakeCall, firstUndo) \in L /\ Cons(MakeCall, secondUndo) \in L /\ Cons(f(N), N) \in L /\ Cons(f(UndoBak), N) \in L
    BY <1>1, <1>4, <1>6, <2>8
  <2>14. J(Cons(f(N), N), r) = Cons(f(N), r) /\ J(Cons(f(UndoBak), N), r) = Cons(f(UndoBak), r)
    BY <1>1, <1>4, <2>10
  <2>15. /\ J(J(Cons(MakeCall, firstUndo), Cons(f(N), N)), r) = J(Cons(MakeCall, firstUndo), Cons(f(N), r))
         /\ J(J(Cons(MakeCall, secondUndo), Cons(f(UndoBak), N)), r) = J(Cons(MakeCall, secondUndo), Cons(f(UndoBak), r))
    BY <1>8, <2>13, <2>14
  <2> QED BY <1>4, <2>11, <2>12, <2>15
<1> QED BY <1>12

(* What cancelReplacement() does, and how the state is put away.           *)
Join(s, t) == s \o t

(* Lists are joined. *)
LEMMA JoinLaws ==
  /\ \A x \in Calls : <<x>> = Cons(x, <<>>)
  /\ \A x \in Calls, s \in Seq(Calls) : Cons(x, s) \in Seq(Calls) /\ Join(Cons(x, <<>>), s) = Cons(x, s)
  /\ \A x \in Calls, s \in Seq(Calls), t \in Seq(Calls) : Join(Cons(x, s), t) = Cons(x, Join(s, t))
  /\ \A s \in Seq(Calls) : Join(<<>>, s) = s /\ Join(s, <<>>) = s
  /\ \A s \in Seq(Calls), t \in Seq(Calls), u \in Seq(Calls) : Join(Join(s, t), u) = Join(s, Join(t, u))
<1>1. <<>> \in Seq(Calls) /\ RemoveCall("idn", <<>>) \in Calls
  BY EveryCall, Names, Lists
<1>2. \A x \in Calls : <<x>> = Cons(x, <<>>)
  BY <1>1, Glue
<1>3. \A x \in Calls, s \in Seq(Calls) : Cons(x, s) \in Seq(Calls) /\ Join(<<x>>, s) = Cons(x, s)
  BY Glue DEF Join
<1>4. \A x \in Calls, s \in Seq(Calls), t \in Seq(Calls) : Join(Cons(x, s), t) = Cons(x, Join(s, t))
  BY Glue DEF Join
<1>5. \A s \in Seq(Calls) : Join(<<>>, s) = s /\ Join(s, <<>>) = s
  BY <1>1, Glue DEF Join
<1>6. \A s \in Seq(Calls), t \in Seq(Calls), u \in Seq(Calls) : Join(Join(s, t), u) = Join(s, Join(t, u))
  BY ConcatAssociative DEF Join
<1>7. \A x \in Calls, s \in Seq(Calls) : Join(Cons(x, <<>>), s) = Cons(x, s)
  BY <1>2, <1>3
<1> QED BY <1>2, <1>3, <1>4, <1>5, <1>6, <1>7

LEMMA CancelLists ==
  ASSUME NEW v \in Books \cup {Barrier}, NEW r \in Seq(Calls)
  PROVE  /\ Join(Join(Join(Remove("idnTmp"), Write("idnTmp", v)), Remove("idn")), Rename("idnTmp", "idn")) = Back1(v, <<>>)
         /\ Join(Remove("idnTmp"), Remove("idn")) = Erase1(<<>>)
         /\ Join(Join(Join(Join(Remove("idnTmp"), Write("idnTmp", v)), Remove("idn")), Rename("idnTmp", "idn")), r) = Back1(v, r)
         /\ Join(Join(Remove("idnTmp"), Remove("idn")), r) = Erase1(r)
<1> DEFINE a == RemoveCall("idnTmp", <<>>)
           b == WriteCall("idnTmp", v, <<>>)
           c == RemoveCall("idn", <<>>)
           d == RenameCall("idnTmp", "idn", <<>>)
           L == Seq(Calls)
           N == <<>>
<1>1. a \in Calls /\ b \in Calls /\ c \in Calls /\ d \in Calls /\ N \in L /\ r \in L
  BY EveryCall, Names, Lists
<1>2. /\ Remove("idnTmp") = Cons(a, N) /\ Write("idnTmp", v) = Cons(b, N)
      /\ Remove("idn") = Cons(c, N) /\ Rename("idnTmp", "idn") = Cons(d, N)
  <2>1. /\ Remove("idnTmp") = <<a>> /\ Write("idnTmp", v) = <<b>> /\ Remove("idn") = <<c>>
        /\ Rename("idnTmp", "idn") = <<d>>
    BY DEF Remove, Write, Rename, RemoveCall, WriteCall, RenameCall
  <2>2. \A x \in Calls : <<x>> = Cons(x, N)
    BY JoinLaws
  <2> HIDE DEF a, b, c, d, N
  <2> QED BY <1>1, <2>1, <2>2
<1>3. /\ Back1(v, r) = Cons(a, Cons(b, Cons(c, Cons(d, r)))) /\ Erase1(r) = Cons(a, Cons(c, r))
      /\ Back1(v, N) = Cons(a, Cons(b, Cons(c, Cons(d, N)))) /\ Erase1(N) = Cons(a, Cons(c, N))
  BY DEF Back1, Back2, Back3, Back4, Erase1, Erase2
<1>4. /\ \A x \in Calls, s \in L : Cons(x, s) \in L /\ Join(Cons(x, N), s) = Cons(x, s)
      /\ \A x \in Calls, s \in L, t \in L : Join(Cons(x, s), t) = Cons(x, Join(s, t))
  BY JoinLaws
<1> HIDE DEF a, b, c, d, L, N
<1>5. \A x \in Calls, y \in Calls, s \in L : Cons(x, Cons(y, N)) \in L /\ Join(Cons(x, Cons(y, N)), s) = Cons(x, Cons(y, s))
  BY <1>1, <1>4
<1>6. Join(Remove("idnTmp"), Write("idnTmp", v)) = Cons(a, Cons(b, N)) /\ Join(Remove("idnTmp"), Remove("idn")) = Cons(a, Cons(c, N))
  BY <1>1, <1>2, <1>4
<1>7. Join(Cons(a, Cons(b, N)), Remove("idn")) = Cons(a, Cons(b, Cons(c, N)))
  BY <1>1, <1>2, <1>4, <1>5
<1>8. Join(Cons(a, Cons(b, Cons(c, N))), Rename("idnTmp", "idn")) = Cons(a, Cons(b, Cons(c, Cons(d, N))))
  <2>1. Cons(d, N) \in L /\ Cons(b, Cons(c, N)) \in L
    BY <1>1, <1>4, <1>5
  <2> QED BY <1>1, <1>2, <1>4, <1>5, <2>1
<1>9. Join(Cons(a, Cons(b, Cons(c, Cons(d, N)))), r) = Cons(a, Cons(b, Cons(c, Cons(d, r))))
  <2>1. Cons(c, Cons(d, N)) \in L /\ Cons(b, Cons(c, Cons(d, N))) \in L
    BY <1>1, <1>4, <1>5
  <2>2. Join(Cons(b, Cons(c, Cons(d, N))), r) = Cons(b, Cons(c, Cons(d, r)))
    BY <1>1, <1>4, <1>5, <2>1
  <2> QED BY <1>1, <1>4, <2>1, <2>2
<1>10. Join(Cons(a, Cons(c, N)), r) = Cons(a, Cons(c, r))
  BY <1>1, <1>5
<1> QED BY <1>3, <1>6, <1>7, <1>8, <1>9, <1>10 DEF N

LEMMA PutAwayList ==
  \E r \in Aways : /\ PutAway = Away(r) /\ Hides(r) /\ r \in Seq(Calls) /\ Away(r) \in Seq(Calls)
                   /\ \A s \in Seq(Calls) : MakeCache \o s = Cons(MakeCall, s)
<1> DEFINE a == RemoveCall("clips", <<>>)
           b == RemoveCall("marks", <<>>)
           c == Call("replace", "marks", Tombstone, <<>>)
           d == Call("quarantine", "cache", Missing, <<>>)
           L == Seq(Calls)
           N == <<>>
<1>1. a \in Calls /\ b \in Calls /\ c \in Calls /\ d \in Calls /\ N \in L /\ MakeCall \in Calls
  BY EveryCall, Names, Lists
<1>2. /\ Remove("clips") = Cons(a, N) /\ Remove("marks") = Cons(b, N)
      /\ Replace("marks", Tombstone) = Cons(c, N) /\ QuarantineCache = Cons(d, N)
      /\ MakeCache = Cons(MakeCall, N)
  <2>1. /\ Remove("clips") = <<a>> /\ Remove("marks") = <<b>> /\ Replace("marks", Tombstone) = <<c>>
        /\ QuarantineCache = <<d>> /\ MakeCache = <<MakeCall>>
    BY DEF Remove, Replace, QuarantineCache, RemoveCall, MakeCache, MakeCall
  <2>2. \A x \in Calls : <<x>> = Cons(x, N)
    BY JoinLaws
  <2> HIDE DEF a, b, c, d, N
  <2> QED BY <1>1, <2>1, <2>2
<1>3. /\ Away1 = Cons(d, N) /\ Away2 = Cons(c, Away1) /\ Away3 = Cons(b, Away2)
      /\ \A r : Away(r) = Cons(a, r)
  BY DEF Away1, Away2, Away3, Away
<1>4. /\ \A x \in Calls, s \in L : Cons(x, s) \in L /\ Join(Cons(x, N), s) = Cons(x, s)
      /\ \A x \in Calls, s \in L, t \in L : Join(Cons(x, s), t) = Cons(x, Join(s, t))
      /\ \A s \in L : Join(N, s) = s /\ Join(s, N) = s
  BY JoinLaws
<1>5. PutAway = Join(Join(Remove("clips"), ShadowBookmarks), QuarantineCache)
  BY DEF PutAway, Join
<1>6. ShadowBookmarks = CASE disk["marks"] = Tombstone -> N
        [] disk["marks"] = Missing -> Replace("marks", Tombstone)
        [] OTHER -> Join(Remove("marks"), Replace("marks", Tombstone))
  BY DEF ShadowBookmarks, Join
<1>7. Away1 # Away2 /\ Away1 # Away3 /\ Tombstone # Missing
  BY Distinct, Lists DEF IsList, Call, RemoveCall
<1>8. \A s \in L : MakeCache \o s = Cons(MakeCall, s)
  <2>1. \A s \in L : MakeCache \o s = Join(MakeCache, s)
    BY DEF Join
  <2> HIDE DEF L, N
  <2> QED BY <1>1, <1>2, <1>4, <2>1
<1> HIDE DEF a, b, c, d, L, N
<1>9. Away1 \in L /\ Away2 \in L /\ Away3 \in L /\ \A r \in L : Away(r) \in L
  BY <1>1, <1>3, <1>4
<1>10. CASE disk["marks"] = Tombstone
  <2>0. ShadowBookmarks = N
    BY <1>6, <1>7, <1>10
  <2>1. PutAway = Away(Away1)
    BY <1>1, <1>2, <1>3, <1>4, <1>5, <1>9, <2>0
  <2>2. Hides(Away1)
    BY <1>10, Distinct DEF Hides
  <2> QED BY <1>8, <1>9, <2>1, <2>2 DEF L, Aways
<1>11. CASE disk["marks"] = Missing
  <2>1. ShadowBookmarks = Cons(c, N)
    BY <1>2, <1>6, <1>7, <1>11
  <2>2. PutAway = Away(Away2)
    BY <1>1, <1>2, <1>3, <1>4, <1>5, <1>9, <2>1
  <2>3. Hides(Away2)
    BY <1>7 DEF Hides
  <2> QED BY <1>8, <1>9, <2>2, <2>3 DEF L, Aways
<1>12. CASE disk["marks"] \notin {Tombstone, Missing}
  <2>1. ShadowBookmarks = Cons(b, Cons(c, N)) /\ Cons(c, N) \in L
    <3>1. ShadowBookmarks = Join(Remove("marks"), Replace("marks", Tombstone))
      BY <1>6, <1>12
    <3> QED BY <1>1, <1>2, <1>4, <3>1
  <2>2. Join(Cons(a, N), Cons(b, Cons(c, N))) = Cons(a, Cons(b, Cons(c, N)))
    BY <1>1, <1>4, <2>1
  <2>3. Join(Cons(b, Cons(c, N)), Cons(d, N)) = Cons(b, Cons(c, Cons(d, N)))
    BY <1>1, <1>3, <1>4, <1>9, <2>1
  <2>4. Join(Cons(a, Cons(b, Cons(c, N))), Cons(d, N)) = Cons(a, Cons(b, Cons(c, Cons(d, N))))
    BY <1>1, <1>3, <1>4, <1>9, <2>1, <2>3
  <2>5. PutAway = Away(Away3)
    BY <1>2, <1>3, <1>5, <2>1, <2>2, <2>4
  <2>6. Hides(Away3)
    BY <1>7 DEF Hides
  <2> QED BY <1>8, <1>9, <2>5, <2>6 DEF L, Aways
<1> QED BY <1>10, <1>11, <1>12

-----------------------------------------------------------------------------
(* What a handler decides.  With its calls over, *)
LEMMA NotOver ==
  ASSUME Sound(epub, slipped, disk, candidates), todo = <<>>
  PROVE  /\ \A r \in Seq(Calls), v \in Books \cup {Barrier} : ~SavingNew(v, r)
         /\ \A r \in Seq(Calls) : ~SavingOver(r)
         /\ \A r \in Seq(Calls) : ~Cancelling(r)
         /\ ~PuttingAway
         /\ todo \notin {UndoTmp, UndoBak, Unmark1, Drop2, Return1, ReturnUnmark, Return2, Rotate1, Publish1, Discard1}
         /\ todo \notin {Mark1(Had), Mark1(New), Withdraw1(Return1), Withdraw1(<<>>)}
<1>1. \A r \in Seq(Calls), v \in Books \cup {Barrier} : ~SavingNew(v, r)
  BY Going DEF IsList, SavingNew
<1>2. \A r \in Seq(Calls) : ~SavingOver(r)
  <2>1. PICK w \in Books \cup {Barrier} : w = Barrier
    OBVIOUS
  <2> QED BY <2>1, Going DEF IsList, SavingOver
<1>3. \A r \in Seq(Calls) : ~Cancelling(r)
  <2>1. PICK w \in Books \cup {Barrier} : w = Barrier
    OBVIOUS
  <2>2. PICK x \in Books \cup {Missing} : x = Bak
    BY SoundFacts
  <2>3. ASSUME NEW r \in Seq(Calls), Cancelling(r) PROVE FALSE
    <3>1. Back3(r) # <<>> /\ Back4(r) # <<>> /\ Erase1(r) # <<>> /\ Erase2(r) # <<>>
      BY <2>1, Going DEF IsList
    <3>2. x # Missing => Back1(x, r) # <<>> /\ Back2(x, r) # <<>>
      BY <2>2, Going DEF IsList
    <3> QED BY <2>2, <2>3, <3>1, <3>2 DEF Cancelling
  <2> QED BY <2>2, <2>3
<1>4. ~PuttingAway
  <2>1. ASSUME NEW r \in Aways
        PROVE  /\ r \in Seq(Calls) /\ r # <<>> /\ Away(r) \in Seq(Calls) /\ Away(r) # <<>>
               /\ Over1(Away(r)) \in Seq(Calls) /\ \A s \in Seq(Calls) : Cons(MakeCall, s) # <<>>
               /\ \A v \in Books \cup {Barrier} : New1(v, Over1(Away(r))) \in Seq(Calls)
    <3>1. r \in Seq(Calls) /\ r # <<>>
      BY Lists DEF IsList, Aways
    <3>2. Away(r) \in Seq(Calls) /\ Away(r) # <<>> /\ \A s \in Seq(Calls) : Cons(MakeCall, s) # <<>>
      <4>1. PICK w \in Books \cup {Barrier} : w = Barrier
        OBVIOUS
      <4> QED BY <3>1, <4>1, Going DEF IsList
    <3>3. Over1(Away(r)) \in Seq(Calls)
      <4>1. PICK w \in Books \cup {Barrier} : w = Barrier
        OBVIOUS
      <4> QED BY <3>2, <4>1, Going DEF IsList
    <3>4. \A v \in Books \cup {Barrier} : New1(v, Over1(Away(r))) \in Seq(Calls)
      BY <3>3, Going DEF IsList
    <3> QED BY <3>1, <3>2, <3>3, <3>4
  <2>2. ASSUME NEW r \in Aways, epub, Idn = Missing, Bak # Missing,
               todo = Cons(MakeCall, New1(Bak, Over1(Away(r)))) PROVE FALSE
    <3>1. PICK v \in Books \cup {Missing} : v = Bak
      BY SoundFacts
    <3>2. New1(v, Over1(Away(r))) \in Seq(Calls)
      BY <2>1, <2>2, <3>1
    <3>3. Cons(MakeCall, New1(v, Over1(Away(r)))) # <<>>
      BY <2>1, <3>2
    <3> QED BY <2>2, <3>1, <3>3
  <2>3. todo \notin Aways /\ \A r \in Aways : /\ todo # Away(r) /\ todo # Cons(MakeCall, Away(r))
                                              /\ todo # Cons(MakeCall, Over1(Away(r)))
    BY <2>1
  <2>4. \A r \in Aways : ~SavingOver(Away(r))
    BY <1>2, <2>1
  <2>5. \A r \in Aways : ~SavingNew(Bak, Over1(Away(r)))
    BY <1>1, <2>1 DEF SavingNew
  <2> QED BY <2>2, <2>3, <2>4, <2>5 DEF PuttingAway
<1>5. todo \notin {UndoTmp, UndoBak, Unmark1, Drop2, Return1, ReturnUnmark, Return2, Rotate1, Publish1, Discard1}
  BY Lists DEF IsList
<1>6. todo \notin {Mark1(Had), Mark1(New), Withdraw1(Return1), Withdraw1(<<>>)}
  <2>1. Mark1(Had) # <<>> /\ Mark1(New) # <<>>
    BY Lists DEF IsList
  <2>2. \A r \in Seq(Calls) : Withdraw1(r) # <<>>
    <3>1. PICK w \in Books \cup {Barrier} : w = Barrier
      OBVIOUS
    <3> QED BY <3>1, Going DEF IsList
  <2>3. Return1 \in Seq(Calls) /\ <<>> \in Seq(Calls)
    BY Lists DEF IsList
  <2> QED BY <2>1, <2>2, <2>3
<1> QED BY <1>1, <1>2, <1>3, <1>4, <1>5, <1>6

(* where load() finds what it loads, *)
LEMMA LoadIs ==
  ASSUME Sound(epub, slipped, disk, candidates)
  PROVE  /\ Usable("idn") <=> Idn # Missing
         /\ Usable("idnBak") <=> Bak # Missing
         /\ Usable("idnTmp") <=> Tmp \in Books \cup {Barrier}
         /\ Idn # Missing => LoadedFrom = "idn" /\ Loaded = Idn
         /\ Idn = Missing /\ Bak # Missing => LoadedFrom = "idnBak" /\ Loaded = Bak
         /\ Idn = Missing /\ Bak = Missing /\ Tmp \in Books \cup {Barrier} => LoadedFrom = "idnTmp" /\ Loaded = Tmp
         /\ Idn = Missing /\ Bak = Missing /\ Tmp \in {Missing, Torn} => LoadedFrom = "nowhere" /\ Loaded = Missing
         /\ LoadInvalid => Tmp = Torn
         /\ LoadInvalid <=> Idn = Missing /\ Bak = Missing /\ Tmp = Torn
         /\ Inconsistent /\ Idn = Barrier => Tmp = Torn
         /\ Inconsistent <=> Tmp = Torn \/ (Tmp \in Books \cup {Barrier} /\ Tmp # Bak)
<1>1. /\ Idn \in Books \cup {Missing, Barrier} /\ Bak \in Books \cup {Missing}
      /\ Tmp \in Books \cup {Missing, Barrier, Torn}
      /\ Idn = Barrier => Tmp \in {Missing, Torn, Bak}
  BY SoundFacts
<1>2. /\ Usable("idn") <=> Idn # Missing
      /\ Usable("idnBak") <=> Bak # Missing
      /\ Usable("idnTmp") <=> Tmp \in Books \cup {Barrier}
  BY <1>1, Distinct DEF Usable, Idn, Bak, Tmp
<1>3. /\ Idn # Missing => LoadedFrom = "idn" /\ Loaded = Idn
      /\ Idn = Missing /\ Bak # Missing => LoadedFrom = "idnBak" /\ Loaded = Bak
      /\ Idn = Missing /\ Bak = Missing /\ Tmp \in Books \cup {Barrier} => LoadedFrom = "idnTmp" /\ Loaded = Tmp
      /\ Idn = Missing /\ Bak = Missing /\ Tmp \in {Missing, Torn} => LoadedFrom = "nowhere" /\ Loaded = Missing
  BY <1>2, Distinct DEF LoadedFrom, Loaded, Idn, Bak, Tmp
<1>4. LoadInvalid <=> Idn = Missing /\ Bak = Missing /\ Tmp = Torn
  <2>1. LoadedFrom = "nowhere" <=> Idn = Missing /\ Bak = Missing /\ Tmp \notin Books \cup {Barrier}
    BY <1>2 DEF LoadedFrom
  <2>2. (\E p \in Identity : Exists(disk, p)) <=> Idn # Missing \/ Bak # Missing \/ Tmp # Missing
    BY DEF Identity, Exists, Idn, Bak, Tmp
  <2> QED BY <1>1, <2>1, <2>2, Distinct DEF LoadInvalid
<1>5. Inconsistent <=> Tmp = Torn \/ (Tmp \in Books \cup {Barrier} /\ Tmp # Bak)
  BY <1>1, <1>2, Distinct DEF Inconsistent, Tmp, Bak
<1>6. Inconsistent /\ Idn = Barrier => Tmp = Torn
  BY <1>1, <1>5, Distinct
<1> QED BY <1>2, <1>3, <1>4, <1>5, <1>6

(* and what the recovery of a book concludes. *)
LEMMA RecoveredIs ==
  ASSUME Sound(epub, slipped, disk, candidates), Bk # Missing
  PROVE  /\ Recovered(Bk) \in {"Invalid", "NotPrepared", "ReplacementPublished", "RestoredCurrentSource"}
         /\ Recovered(Bk) = "Invalid" => Tmp = Torn
         /\ Recovered(Bk) = "NotPrepared" => Idn # Barrier
         /\ Recovered(Bk) = "ReplacementPublished" => Mismatch /\ Bk \notin {Idn, Bak}
         /\ Recovered(Bk) = "ReplacementPublished" =>
              (Idn = Barrier /\ Bak # Bk) \/ (Idn = Missing /\ Bak \in Books /\ Bak # Bk)
         /\ Recovered(Bk) = "RestoredCurrentSource" =>
              \/ Idn = Barrier /\ Bak = Bk /\ ~Inconsistent
              \/ Idn = Missing /\ (Bak = Bk \/ (Bak = Missing /\ Old = Missing))
<1>1. /\ Bk \in Books /\ Idn \in Books \cup {Missing, Barrier} /\ Bak \in Books \cup {Missing}
      /\ Tmp \in Books \cup {Missing, Barrier, Torn}
      /\ Idn = Barrier => Tmp \in {Missing, Torn, Bak}
      /\ Idn = Missing /\ Bak # Missing => Tmp \in {Missing, Torn, Barrier, Bak}
      /\ Idn = Missing /\ Bak = Missing =>
           /\ Tmp \in {Missing, Torn, Barrier, Bk}
           /\ Tmp # Missing => Old = Missing
           /\ Tmp = Barrier => Bk = Missing
  BY SoundFacts
<1>2. /\ Missing \notin Books /\ Torn \notin Books /\ Barrier \notin Books
      /\ Missing # Torn /\ Barrier # Missing /\ Barrier # Torn
  BY Distinct
<1>3. CASE Idn = Missing
  <2>1. Recovered(Bk) =
          IF \/ Torn \in {Bak, Tmp}
             \/ /\ Usable("idnBak") /\ Usable("idnTmp") /\ Tmp \notin {Bak, Barrier}
            THEN "Invalid"
          ELSE IF (IF Bak # Missing THEN Bak ELSE Tmp) = Missing THEN "NotPrepared"
          ELSE IF (IF Bak # Missing THEN Bak ELSE Tmp) # Bk THEN "ReplacementPublished"
          ELSE "RestoredCurrentSource"
    BY <1>2, <1>3 DEF Recovered, Exists, Idn, Bak, Tmp
  <2>2. Usable("idnBak") /\ Usable("idnTmp") <=> Bak # Missing /\ Tmp \in Books \cup {Barrier}
    BY LoadIs
  <2>3. CASE Bak # Missing
    <3>1. Recovered(Bk) = IF Tmp = Torn THEN "Invalid" ELSE IF Bak # Bk THEN "ReplacementPublished" ELSE "RestoredCurrentSource"
      BY <1>1, <1>2, <1>3, <2>1, <2>2, <2>3
    <3>2. Loaded = Bak
      BY <1>3, <2>3, LoadIs
    <3> QED BY <1>1, <1>2, <1>3, <2>3, <3>1, <3>2 DEF Mismatch
  <2>4. CASE Bak = Missing
    <3>1. Tmp \in {Missing, Torn, Bk}
      BY <1>1, <1>3, <2>4
    <3>2. Recovered(Bk) = IF Tmp = Torn THEN "Invalid" ELSE IF Tmp = Missing THEN "NotPrepared" ELSE "RestoredCurrentSource"
      BY <1>1, <1>2, <2>1, <2>2, <2>4, <3>1
    <3>3. Tmp = Bk => Old = Missing
      BY <1>1, <1>3, <2>4
    <3> QED BY <1>2, <1>3, <2>4, <3>1, <3>2, <3>3
  <2> QED BY <2>3, <2>4
<1>4. CASE Idn = Barrier
  <2>1. Recovered(Bk) = IF Inconsistent THEN "Invalid" ELSE IF Bak = Bk THEN "RestoredCurrentSource" ELSE "ReplacementPublished"
    BY <1>2, <1>4 DEF Recovered, Exists, Retained, Idn, Bak
  <2>2. Loaded = Barrier /\ (Inconsistent => Tmp = Torn)
    BY <1>2, <1>4, LoadIs
  <2> QED BY <1>1, <1>2, <1>4, <2>1, <2>2 DEF Mismatch
<1>5. CASE Idn \in Books
  <2>1. Recovered(Bk) = "NotPrepared"
    BY <1>2, <1>5 DEF Recovered, Exists, Idn
  <2> QED BY <1>2, <1>5, <2>1
<1> QED BY <1>1, <1>3, <1>4, <1>5

(* Nothing on the card has changed. *)
LEMMA SameCard ==
  ASSUME UNCHANGED <<epub, slipped, disk>>
  PROVE  /\ Bk' = Bk /\ Old' = Old /\ Stg' = Stg /\ Pnd' = Pnd /\ Idn' = Idn /\ Bak' = Bak /\ Tmp' = Tmp /\ Cch' = Cch
         /\ HasState' <=> HasState
         /\ \A x : OwnedBy(slipped, disk', x) <=> OwnedBy(slipped, disk, x)
         /\ Loaded' = Loaded
         /\ (Blocked' <=> Blocked) /\ (Barriered' <=> Barriered) /\ (Mismatch' <=> Mismatch)
         /\ (Ours' <=> Ours) /\ (Own' <=> Own)
         /\ (Late' <=> Late) /\ (Secured' <=> Secured) /\ (Stranded' <=> Stranded)
<1>1. Bk' = Bk /\ Old' = Old /\ Stg' = Stg /\ Pnd' = Pnd /\ Idn' = Idn /\ Bak' = Bak /\ Tmp' = Tmp /\ Cch' = Cch
  BY DEF Bk, Old, Stg, Pnd, Idn, Bak, Tmp, Cch
<1>2. StateSame
  BY DEF StateSame
<1>3. (HasState' <=> HasState) /\ \A x : OwnedBy(slipped, disk', x) <=> OwnedBy(slipped, disk, x)
  BY <1>2, SameState
<1>4. Loaded' = Loaded
  BY DEF Loaded, LoadedFrom, Usable
<1>5. (Late' <=> Late) /\ (Secured' <=> Secured) /\ (Stranded' <=> Stranded)
  BY <1>1 DEF Late, Secured, Stranded
<1> QED BY <1>1, <1>3, <1>4, <1>5 DEF Blocked, Barriered, Mismatch, Ours, Own

(* The calls it makes. *)
LEMMA CancelDecides ==
  ASSUME Sound(epub, slipped, disk, candidates), NEW r \in Seq(Calls), UNCHANGED <<epub, slipped, disk>>,
         Idn = Barrier /\ Bak = Missing => (Bk = Missing \/ Late) /\ Old = Missing,
         todo' = CancelCalls \o r \/ (r = <<>> /\ todo' = CancelCalls)
  PROVE  /\ Cancelling(r)' \/ todo' = r
         /\ Idn = Barrier /\ ~Inconsistent => Cancelling(r)'
<1>1. /\ Bak \in Books \cup {Missing}
      /\ Idn = Barrier => epub
      /\ Barrier # Missing /\ <<>> \in Seq(Calls)
  BY SoundFacts, Distinct, Lists
<1>2. /\ Bk' = Bk /\ Old' = Old /\ Idn' = Idn /\ Bak' = Bak /\ epub' = epub /\ (Late' <=> Late)
  BY SameCard
<1>3. CASE Idn # Barrier \/ Inconsistent
  <2>1. CancelCalls = <<>>
    BY <1>3 DEF CancelCalls, Idn
  <2>2. <<>> \o r = r
    BY JoinLaws DEF Join
  <2> QED BY <1>3, <2>1, <2>2
<1>4. CASE Idn = Barrier /\ ~Inconsistent /\ Bak = Missing
  <2>1. CancelCalls = Join(Remove("idnTmp"), Remove("idn"))
    BY <1>4 DEF CancelCalls, Idn, Bak, Exists, Join
  <2>2. PICK v \in Books \cup {Barrier} : v = Barrier
    OBVIOUS
  <2>3. Join(CancelCalls, r) = Erase1(r) /\ CancelCalls = Erase1(<<>>)
    BY <1>1, <2>1, <2>2, CancelLists
  <2>4. CancelCalls \o r = Erase1(r)
    BY <2>3 DEF Join
  <2>5. todo' = Erase1(r)
    BY <2>3, <2>4
  <2>6. /\ epub' /\ Idn' = Barrier /\ Bak' = Missing /\ (Bk' = Missing \/ Late') /\ Old' = Missing
    BY <1>1, <1>2, <1>4
  <2>7. Cancelling(r)'
    BY <2>5, <2>6 DEF Cancelling
  <2> QED BY <2>7
<1>5. CASE Idn = Barrier /\ ~Inconsistent /\ Bak # Missing
  <2>1. PICK v \in Books : v = Bak
    BY <1>1, <1>5
  <2>2. CancelCalls = Join(Join(Join(Remove("idnTmp"), Write("idnTmp", v)), Remove("idn")), Rename("idnTmp", "idn"))
    BY <1>5, <2>1 DEF CancelCalls, Idn, Bak, Exists, Join
  <2>3. Join(CancelCalls, r) = Back1(v, r) /\ CancelCalls = Back1(v, <<>>)
    BY <1>1, <2>1, <2>2, CancelLists
  <2>4. CancelCalls \o r = Back1(v, r)
    BY <2>3 DEF Join
  <2>5. todo' = Back1(Bak', r)
    BY <1>2, <2>1, <2>3, <2>4
  <2>6. epub' /\ Idn' = Barrier /\ Bak' # Missing
    BY <1>1, <1>2, <1>5
  <2>7. Cancelling(r)'
    BY <2>5, <2>6 DEF Cancelling
  <2> QED BY <2>7
<1> QED BY <1>3, <1>4, <1>5

(* A first identity, or the same again, is saved. *)
LEMMA SaveDecides ==
  ASSUME Sound(epub, slipped, disk, candidates), UNCHANGED <<epub, slipped, disk>>, NEW v \in Books \cup {Barrier}, NEW r \in Seq(Calls),
         epub, Idn = Missing,
         Bak = v \/ (Bak = Missing /\ Old = Missing /\ (IF v = Barrier THEN Bk = Missing ELSE Bk = v)),
         todo' = SaveCalls(v, FALSE) \o r \/ (r = <<>> /\ todo' = SaveCalls(v, FALSE))
  PROVE  SavingNew(v, r)'
<1>1. todo' = New1(v, r)
  BY SaveLists
<1>2. Bk' = Bk /\ Old' = Old /\ Idn' = Idn /\ Bak' = Bak
  BY SameCard
<1> QED BY <1>1, <1>2 DEF SavingNew

(* A replacement that did not happen is undone. *)
LEMMA RecoverDecides ==
  ASSUME Sound(epub, slipped, disk, candidates), NEW r \in Seq(Calls), UNCHANGED <<epub, slipped, disk>>,
         epub, Bk # Missing, Recovered(Bk) = "RestoredCurrentSource",
         todo' = RecoverCalls(Bk) \o r \/ (r = <<>> /\ todo' = RecoverCalls(Bk))
  PROVE  (Bak' = Bk' /\ Cancelling(r)') \/ SavingNew(Bk, r)'
<1>1. PICK x \in Books : x = Bk
  BY SoundFacts
<1>2. /\ Bk' = Bk /\ Idn' = Idn /\ Bak' = Bak
  BY SameCard
<1>3. CASE Idn = Barrier
  <2>1. Bak = Bk /\ ~Inconsistent
    BY <1>3, RecoveredIs, Distinct
  <2>2. RecoverCalls(Bk) = CancelCalls
    BY <1>3 DEF RecoverCalls, Idn
  <2>3. Cancelling(r)'
    BY <1>3, <2>1, <2>2, CancelDecides
  <2> QED BY <1>2, <2>1, <2>3
<1>4. CASE Idn # Barrier
  <2>1. Idn = Missing /\ (Bak = Bk \/ (Bak = Missing /\ Old = Missing))
    BY <1>4, RecoveredIs
  <2>2. ~Usable("idn") /\ Idn # x
    BY <1>1, <2>1, LoadIs
  <2>3. RecoverCalls(x) = SaveCalls(x, FALSE)
    <3>1. RecoverCalls(x) = Save(x)
      BY <1>1, <1>4 DEF RecoverCalls, Idn
    <3>2. Save(x) = SaveCalls(x, Usable("idn"))
      BY <2>2 DEF Save, Idn
    <3>3. Usable("idn") = FALSE
      BY <2>2 DEF Usable
    <3> QED BY <3>1, <3>2, <3>3
  <2>4. SavingNew(x, r)'
    BY <1>1, <2>1, <2>3, SaveDecides, Distinct
  <2> QED BY <1>1, <1>2, <2>4
<1> QED BY <1>3, <1>4

LEMMA NoRecover ==
  ASSUME Recovered(Bk) # "RestoredCurrentSource"
  PROVE  RecoverCalls(Bk) = <<>>
BY DEF RecoverCalls

(* A barrier is prepared, for the book that is there or for none. *)
LEMMA PrepareDecides ==
  ASSUME Sound(epub, slipped, disk, candidates), NEW x \in Books \cup {Missing}, ~CannotPrepare(x), epub
  PROVE  /\ Idn = Barrier => PrepareCalls(x) = <<>> /\ (x # Missing => Bak = x)
         /\ Idn \in Books => PrepareCalls(x) = SaveCalls(Barrier, TRUE) /\ (x # Missing => Idn = x)
         /\ Idn = Missing /\ Bak # Missing =>
              PrepareCalls(x) = SaveCalls(Bak, FALSE) \o SaveCalls(Barrier, TRUE) /\ (x # Missing => Bak = x)
         /\ Idn = Missing /\ Bak = Missing =>
              IF x # Missing THEN PrepareCalls(x) = SaveCalls(x, FALSE) \o SaveCalls(Barrier, TRUE)
              ELSE IF Tmp = Missing THEN PrepareCalls(x) = SaveCalls(Barrier, FALSE)
              ELSE IF Tmp = Barrier THEN PrepareCalls(x) = SaveCalls(Barrier, FALSE) \o Remove("idnTmp")
              ELSE PrepareCalls(x) = SaveCalls(Tmp, FALSE) \o SaveCalls(Barrier, TRUE)
<1>1. /\ Idn \in Books \cup {Missing, Barrier} /\ Bak \in Books \cup {Missing}
      /\ Tmp \in Books \cup {Missing, Barrier, Torn}
  BY SoundFacts
<1>2. /\ Missing \notin Books /\ Torn \notin Books /\ Barrier \notin Books
      /\ Missing # Torn /\ Barrier # Missing /\ Barrier # Torn
  BY Distinct
<1>3. CASE Idn = Barrier
  <2>1. PrepareCalls(x) = <<>>
    BY <1>3 DEF PrepareCalls, Idn
  <2>2. x # Missing => Bak = x
    BY <1>3 DEF CannotPrepare, Idn, Bak
  <2> QED BY <1>2, <1>3, <2>1, <2>2
<1>4. Idn # Barrier /\ x # Missing => Loaded \in {Missing, x}
  BY DEF CannotPrepare, Idn
<1>5. CASE Idn \in Books
  <2>1. LoadedFrom = "idn" /\ Usable("idn") /\ Loaded = Idn /\ Idn # Barrier
    BY <1>2, <1>5, LoadIs
  <2>2. PrepareCalls(x) = SaveCalls(Barrier, TRUE)
    BY <2>1 DEF PrepareCalls, Save, Idn
  <2> QED BY <1>2, <1>4, <1>5, <2>1, <2>2
<1>6. ASSUME Idn = Missing, Loaded # Missing \/ x # Missing
      PROVE  LET v == IF x # Missing THEN x ELSE Loaded IN
             PrepareCalls(x) = SaveCalls(v, FALSE) \o (IF v = Barrier THEN Remove("idnTmp") ELSE SaveCalls(Barrier, TRUE))
  <2>1. LoadedFrom # "idn" /\ Idn # Barrier
    BY <1>1, <1>2, <1>6, LoadIs
  <2> QED BY <1>6, <2>1 DEF PrepareCalls, Idn
<1>7. CASE Idn = Missing /\ Bak # Missing
  <2>1. Loaded = Bak /\ Bak \in Books /\ Bak # Barrier
    BY <1>1, <1>2, <1>7, LoadIs
  <2>2. x # Missing => x = Bak
    BY <1>2, <1>4, <1>7, <2>1
  <2> QED BY <1>2, <1>6, <1>7, <2>1, <2>2
<1>8. CASE Idn = Missing /\ Bak = Missing
  <2>1. CASE x # Missing
    BY <1>2, <1>6, <1>8, <2>1
  <2>2. CASE x = Missing
    <3>1. Tmp # Torn
      BY <1>8, LoadIs DEF CannotPrepare
    <3>2. CASE Tmp = Missing
      <4>1. Loaded = Missing /\ LoadedFrom # "idn" /\ Idn # Barrier
        BY <1>2, <1>8, <3>2, LoadIs
      <4>2. PrepareCalls(x) = SaveCalls(Barrier, FALSE)
        BY <2>2, <4>1 DEF PrepareCalls, Idn
      <4> QED BY <1>2, <1>8, <2>2, <3>2, <4>2
    <3>3. CASE Tmp # Missing
      <4>1. Loaded = Tmp
        BY <1>1, <1>8, <3>1, <3>3, LoadIs
      <4> QED BY <1>2, <1>6, <1>8, <2>2, <3>3, <4>1
    <3> QED BY <3>2, <3>3
  <2> QED BY <2>1, <2>2
<1> QED BY <1>1, <1>3, <1>5, <1>7, <1>8

-----------------------------------------------------------------------------
(* A handler goes on, or returns, and leaves the card as it is.            *)
Tasks == {"open", "publish", "finish", "bind"}
AfterFault == {"unmarked", "unrotated", "withdrawn", "cancelled", "failed"}

LEMMA SoundSame ==
  ASSUME IInv, UNCHANGED <<epub, slipped, disk>>
  PROVE  /\ Sound(epub', slipped', disk', candidates) /\ Keeps(disk')
         /\ Bk = staged /\ Old = Missing => Sound(epub', slipped', disk', {staged})
<1>1. Sound(epub', slipped', disk', candidates)
  BY DEF IInv
<1>2. Keeps(disk')
  BY Distinct DEF Keeps
<1>3. ASSUME Bk = staged, Old = Missing PROVE Sound(epub', slipped', disk', {staged})
  <2>1. staged \in Books /\ staged # Missing
    BY Distinct DEF IInv, Control
  <2>2. Whole(slipped, disk, {staged})
    BY <1>3, <2>1 DEF Whole, Heir, Bk, Old
  <2> QED BY <1>1, <2>2 DEF Sound
<1> QED BY <1>1, <1>2, <1>3

LEMMA Goes ==
  ASSUME IInv, UNCHANGED <<epub, slipped, disk, staged, result, candidates>>, ok' = TRUE,
         pc' \in Label \ {"idle"}, task' \in Tasks, clean' \in BOOLEAN, clean' => pc' \notin AfterFault,
         Kept', Standing'
  PROVE  IInv' /\ Keeps(disk')
<1>1. Sound(epub', slipped', disk', candidates') /\ Keeps(disk')
  BY SoundSame
<1>2. Control'
  BY DEF IInv, Control, Tasks, AfterFault
<1>3. RefusalHasCause'
  BY DEF RefusalHasCause
<1> QED BY <1>1, <1>2, <1>3 DEF IInv

LEMMA Returns ==
  ASSUME IInv, UNCHANGED <<epub, slipped, disk, staged>>, pc' = "idle", todo' = <<>>, ok' = TRUE,
         result' \in Status, task' \in Tasks, clean' \in BOOLEAN,
         candidates' = candidates \/ (candidates' = {staged} /\ Bk = staged /\ Old = Missing),
         result' = "StateUnavailable" /\ clean' =>
           \/ Torn \in {Pnd, Tmp}
           \/ "rotated" \in slipped /\ Old # Missing /\ Pnd # Had
           \/ task' = "publish" /\ epub /\ Loaded # Bk
  PROVE  IInv' /\ Keeps(disk')
<1>1. Sound(epub', slipped', disk', candidates') /\ Keeps(disk')
  BY SoundSame
<1>2. Control'
  BY DEF IInv, Control, Tasks, AfterFault, Label
<1>3. RefusalHasCause'
  <2>1. Loaded' = Loaded
    BY SameCard
  <2> QED BY <2>1 DEF RefusalHasCause, Exists, HadBook, Old, Pnd, Tmp, Bk
<1>4. Kept' /\ Standing'
  BY DEF Kept, Standing, Resting
<1> QED BY <1>1, <1>2, <1>3, <1>4 DEF IInv

-----------------------------------------------------------------------------
(* A handler begins. *)
LEMMA OpenInv ==
  ASSUME IInv, Open
  PROVE  IInv' /\ Keeps(disk')
<1>1. todo = <<>> /\ ok
  BY DEF Open, IInv, Standing, Resting
<1>2. /\ pc' = "recover" /\ task' = "open" /\ clean' = TRUE
      /\ UNCHANGED <<epub, slipped, disk, todo, ok, staged, result, candidates>>
  BY DEF Open
<1>3. Kept' /\ Standing' /\ ok' = TRUE
  BY <1>1, <1>2 DEF Kept, Standing, Resting, IInv, Control
<1> QED BY <1>2, <1>3, Goes DEF Label, Tasks, AfterFault

LEMMA UploadInv ==
  ASSUME IInv, NEW b \in Books, Upload(b)
  PROVE  IInv' /\ Keeps(disk')
<1>1. todo = <<>> /\ ok
  BY DEF Upload, IInv, Standing, Resting
<1>2. /\ pc' = "recover" /\ task' = "publish" /\ clean' = TRUE /\ staged' = b /\ candidates' = candidates \cup {b}
      /\ UNCHANGED <<epub, slipped, todo, ok, result>>
  BY DEF Upload
<1>3. PICK content \in {b, Torn} : disk' = [disk EXCEPT !["staging"] = content]
  BY DEF Upload
<1>4. Sound(epub, slipped, disk, candidates)
  BY DEF IInv
<1>5. SetIs(disk', "staging", content)
  BY <1>3, <1>4, SetEffect, Names DEF Sound
<1>6. \A p \in State : disk'[p] = disk[p]
  BY <1>5 DEF SetIs, State
<1>7. (\A x : OwnedBy(slipped, disk', x) <=> OwnedBy(slipped, disk, x)) /\ (Unowned(disk') <=> Unowned(disk))
  BY <1>6, SameState DEF StateSame
<1>8. Typed(disk') /\ Whole(slipped', disk', candidates')
  BY <1>2, <1>4, <1>5, Distinct DEF Sound, Typed, Whole, Heir, SetIs
<1>9. Shape(epub', slipped', disk')
  BY <1>2, <1>4, <1>5, <1>7 DEF Sound, Shape, Behind, Named, Between, Nameless, Unidentified, SetIs
<1>10. Marked(epub', slipped', disk')
  BY <1>2, <1>4, <1>5, <1>7 DEF Sound, Marked, Stale, SetIs
<1>11. Keeps(disk')
  BY <1>5, Distinct DEF Keeps, SetIs
<1>12. Control' /\ Standing' /\ RefusalHasCause'
  BY <1>1, <1>2 DEF IInv, Control, Standing, RefusalHasCause, Resting, Label
<1>13. Kept'
  BY <1>2, <1>3, <1>5 DEF Kept, SetIs, Stg
<1> QED BY <1>8, <1>9, <1>10, <1>11, <1>12, <1>13 DEF IInv, Sound

(* A book is copied over this one. *)
LEMMA CopyOverInv ==
  ASSUME IInv, NEW b \in Books, CopyOver(b)
  PROVE  IInv' /\ Keeps(disk')
<1>1. todo = <<>> /\ ok /\ pc = "idle" /\ epub
  BY DEF CopyOver, IInv, Standing, Resting
<1>2. /\ disk' = [disk EXCEPT !["book"] = b] /\ result' = "none"
      /\ candidates' = IF Old # Missing THEN candidates \cup {b} ELSE {b}
      /\ UNCHANGED <<epub, slipped, task, pc, todo, ok, staged, clean>>
  BY DEF CopyOver, Exists, Old
<1>3. Sound(epub, slipped, disk, candidates)
  BY DEF IInv
<1>4. SetIs(disk', "book", b)
  BY <1>2, <1>3, SetEffect, Names DEF Sound
<1>5. \A p \in State : disk'[p] = disk[p]
  BY <1>4 DEF SetIs, State
<1>6. (\A x : OwnedBy(slipped, disk', x) <=> OwnedBy(slipped, disk, x)) /\ (Unowned(disk') <=> Unowned(disk))
  BY <1>5, SameState DEF StateSame
<1>7. Typed(disk')
  BY <1>3, <1>4 DEF Sound, Typed, SetIs
<1>8. Whole(slipped', disk', candidates')
  BY <1>2, <1>3, <1>4, Distinct DEF Sound, Whole, Heir, SetIs, Old
<1>9. Idn = Missing /\ Bak = Missing => Unidentified(disk) /\ Unowned(disk) /\ \A x : OwnedBy(slipped, disk, x)
  <2>1. Idn = Missing /\ Bak = Missing => ~HasState
    BY <1>3, LoadIs, SoundFacts DEF CopyOver
  <2> QED BY <1>3, <2>1, Stateless, UnownedBy
<1>10. Shape(epub', slipped', disk')
  <2>1. Behind(slipped', disk') /\ Named(slipped', disk') /\ Between(slipped', disk')
    BY <1>2, <1>3, <1>4, <1>6 DEF Sound, Shape, Behind, Named, Between, SetIs
  <2>2. Nameless(epub', slipped', disk')
    BY <1>1, <1>2, <1>3, <1>4, <1>6, <1>9, Distinct DEF Sound, Shape, Nameless, Unidentified, SetIs, Idn, Bak
  <2>3. disk'["cache"] = Missing => Unidentified(disk')
    BY <1>3, <1>4 DEF Sound, Shape, Unidentified, SetIs
  <2> QED BY <1>1, <1>2, <2>1, <2>2, <2>3 DEF Shape
<1>11. Marked(epub', slipped', disk') /\ Keeps(disk')
  BY <1>1, <1>2, <1>4, Distinct DEF Marked, Keeps, SetIs
<1>12. Control' /\ Standing' /\ RefusalHasCause' /\ Kept'
  BY <1>1, <1>2 DEF IInv, Control, Standing, RefusalHasCause, Resting, Kept, Status
<1> QED BY <1>7, <1>8, <1>10, <1>11, <1>12 DEF IInv, Sound

(* A handler that gives up. *)
LEMMA CallFailedInv ==
  ASSUME IInv, CallFailed
  PROVE  IInv' /\ Keeps(disk')
<1>1. ~clean /\ task \in Tasks /\ clean \in BOOLEAN
  BY DEF CallFailed, IInv, Control, Tasks
<1> QED BY <1>1, Returns DEF CallFailed, Return, Handler, Status

LEMMA CannotDecideInv ==
  ASSUME IInv, CannotDecide
  PROVE  IInv' /\ Keeps(disk')
<1>1. task \in Tasks
  BY DEF IInv, Control, Tasks
<1>2. PICK status \in {"InvalidStagedFile", "StorageError", "StateUnavailable"} : Return(status)
  BY DEF CannotDecide
<1> QED BY <1>1, <1>2, Returns DEF CannotDecide, Return, Status

LEMMA RecoverRefusesInv ==
  ASSUME IInv, RecoverRefuses
  PROVE  IInv' /\ Keeps(disk')
<1>1. task \in Tasks /\ clean \in BOOLEAN
  BY DEF IInv, Control, Tasks
<1>2. Old # Missing => Pnd = Had \/ "rotated" \in slipped
  BY SoundFacts DEF IInv
<1>3. Pnd = Torn \/ ("rotated" \in slipped /\ Old # Missing /\ Pnd # Had)
  BY <1>2 DEF RecoverRefuses, OwnsBackup, HadBook, Exists, Old, Pnd
<1> QED BY <1>1, <1>3, Returns DEF RecoverRefuses, Return, Handler, Status

-----------------------------------------------------------------------------
(* recoverInterruptedBookFileReplacement() *)
Recovery == {"recover", "recovered", "restored", "reset", "finalize"}

LEMMA KeptOn ==
  ASSUME Kept, UNCHANGED <<disk, task, staged, candidates>>, pc # "idle", pc \in Recovery \/ pc' \notin Recovery,
         Secured \/ pc \notin {"recover", "cancelled", "failed"} \/ pc' \in {"cancelled", "failed"}
  PROVE  Kept'
BY DEF Kept, Recovery, Secured, Stg, Bk, Old, Pnd

LEMMA SecuredHere ==
  ASSUME OwnsBackup
  PROVE  Secured
BY DEF OwnsBackup, Secured, Exists, HadBook, Old, Pnd

LEMMA RecoverOtherInv ==
  ASSUME IInv, RecoverOther
  PROVE  IInv' /\ Keeps(disk')
<1>1. Secured
  BY SecuredHere DEF RecoverOther
<1>2. /\ pc = "recover" /\ ~epub /\ task \in {"open", "publish"} /\ Kept /\ Sound(epub, slipped, disk, candidates)
      /\ clean \in BOOLEAN /\ UNCHANGED <<epub, slipped, disk, task, staged, clean>>
  <2>1. UNCHANGED disk
    BY DEF RecoverOther, Proceed, Return
  <2> QED BY <2>1 DEF RecoverOther, At, Handler, IInv, Control, Standing
<1>3. /\ Bk' = Bk /\ Old' = Old /\ Pnd' = Pnd /\ Idn' = Idn /\ Bak' = Bak
      /\ (Own' <=> Own) /\ (Stale(disk)' <=> Stale(disk))
  BY <1>2, SameCard DEF Stale
<1>4. /\ Bk \in Books \cup {Missing} /\ Idn = Missing /\ Bak = Missing
      /\ Pnd \in {Missing, Had, New}
      /\ Old # Missing => Pnd = Had
      /\ Bk # Missing /\ ~(Pnd = Had /\ Old # Missing) /\ ~(Pnd = New /\ Old = Missing) => OwnedBy(slipped, disk, Bk)
      /\ Pnd = Had => Bk # Missing \/ Old # Missing
  BY <1>1, <1>2, SoundFacts DEF RecoverOther, OwnsBackup, Secured, Pnd
<1>5. Had # New /\ Had # Missing /\ New # Missing
  BY Distinct
<1>6. /\ Exists(disk, "book") <=> Bk # Missing
      /\ Exists(disk, "old") <=> Old # Missing
      /\ Exists(disk, "pending") <=> Pnd # Missing
      /\ HadBook <=> Pnd = Had
  BY DEF Exists, HadBook, Bk, Old, Pnd
<1>7. /\ NonEpubRecovery = "Nothing" => Pnd = Missing
      /\ NonEpubRecovery = "CancelPending" => Pnd # Missing /\ Old = Missing /\ (Pnd = Had <=> Bk # Missing)
      /\ NonEpubRecovery = "RestoreOld" => Old # Missing /\ Bk = Missing
      /\ NonEpubRecovery = "FinalizeReplacement" => Pnd # Missing /\ Bk # Missing /\ (Pnd = Had <=> Old # Missing)
      /\ NonEpubRecovery \in {"Nothing", "CancelPending", "RestoreOld", "FinalizeReplacement"}
  <2>1. NonEpubRecovery =
          IF Pnd = Missing THEN "Nothing" ELSE
          CASE Old = Missing /\ (Pnd = Had <=> Bk # Missing) -> "CancelPending"
            [] Old # Missing /\ Bk = Missing /\ Pnd = Had -> "RestoreOld"
            [] Bk # Missing /\ (Pnd = Had <=> Old # Missing) -> "FinalizeReplacement"
            [] OTHER -> "FailClosed"
    BY Zenon DEF NonEpubRecovery, Exists, HadBook, Bk, Old, Pnd
  <2> QED BY <1>4, <1>5, <2>1
<1>8. CASE NonEpubRecovery = "Nothing"
  <2>1. Proceed("recovered", <<>>)
    BY <1>8 DEF RecoverOther
  <2>2. Old = Missing /\ Own /\ Pnd = Missing
    BY <1>2, <1>4, <1>5, <1>7, <1>8 DEF Own
  <2>3. AtRecovered'
    BY <1>2, <1>3, <2>1, <2>2 DEF AtRecovered, Proceed, Opened
  <2>4. Kept' /\ Standing'
    BY <1>1, <1>2, <2>1, <2>3, KeptOn DEF Proceed, Standing, Recovery
  <2> QED BY <1>2, <2>1, <2>4, Goes DEF Proceed, Label, Tasks, AfterFault
<1>9. CASE NonEpubRecovery = "CancelPending"
  <2>1. Proceed("recovered", Unmark1)
    BY <1>9, ShortLists DEF RecoverOther
  <2>2. Old = Missing /\ Own
    BY <1>2, <1>4, <1>5, <1>7, <1>9 DEF Own
  <2>3. AtRecovered'
    BY <1>2, <1>3, <2>1, <2>2 DEF AtRecovered, Proceed, Opened
  <2>4. Kept' /\ Standing'
    BY <1>1, <1>2, <2>1, <2>3, KeptOn DEF Proceed, Standing, Recovery
  <2> QED BY <1>2, <2>1, <2>4, Goes DEF Proceed, Label, Tasks, AfterFault
<1>10. CASE NonEpubRecovery = "RestoreOld"
  <2>1. Proceed("recovered", ReturnUnmark)
    BY <1>10, ShortLists DEF RecoverOther
  <2>2. AtRecovered'
    BY <1>2, <1>3, <1>7, <1>10, <2>1 DEF AtRecovered, Proceed
  <2>3. Kept' /\ Standing'
    BY <1>1, <1>2, <2>1, <2>2, KeptOn DEF Proceed, Standing, Recovery
  <2> QED BY <1>2, <2>1, <2>3, Goes DEF Proceed, Label, Tasks, AfterFault
<1>11. CASE NonEpubRecovery = "FinalizeReplacement"
  <2>1. Proceed("reset", <<>>)
    BY <1>11 DEF RecoverOther
  <2>2. Bk # Missing /\ Stale(disk)
    BY <1>4, <1>7, <1>11 DEF Stale, Pnd, Old
  <2>3. AtReset'
    BY <1>2, <1>3, <1>4, <2>1, <2>2 DEF AtReset, Foreign, Proceed
  <2>4. Kept' /\ Standing'
    BY <1>1, <1>2, <2>1, <2>3, KeptOn DEF Proceed, Standing, Recovery
  <2> QED BY <1>2, <2>1, <2>4, Goes DEF Proceed, Label, Tasks, AfterFault
<1> QED BY <1>7, <1>8, <1>9, <1>10, <1>11

LEMMA RecoverEpubInv ==
  ASSUME IInv, RecoverEpub
  PROVE  IInv' /\ Keeps(disk')
<1>1. Secured
  BY SecuredHere DEF RecoverEpub
<1>2. /\ pc = "recover" /\ epub /\ task \in {"open", "publish"} /\ Kept /\ Sound(epub, slipped, disk, candidates)
      /\ clean \in BOOLEAN /\ UNCHANGED <<epub, slipped, disk, task, staged, clean>> /\ <<>> \in Seq(Calls)
  <2>1. UNCHANGED disk
    BY DEF RecoverEpub, Proceed, Return
  <2> QED BY <2>1, Lists DEF RecoverEpub, At, Handler, IInv, Control, Standing
<1>3. /\ Bk' = Bk /\ Old' = Old /\ Pnd' = Pnd /\ Idn' = Idn /\ Bak' = Bak
      /\ (Own' <=> Own) /\ (Mismatch' <=> Mismatch)
  BY <1>2, SameCard
<1>4. /\ Exists(disk, "book") <=> Bk # Missing
      /\ Exists(disk, "old") <=> Old # Missing
      /\ Exists(disk, "pending") <=> Pnd # Missing
      /\ Untouched => Pnd = Missing /\ Old = Missing /\ Bk # Missing /\ Idn # Barrier
  <2>1. Untouched => disk["idn"] \in Books \/ disk["idn"] = Missing
    BY DEF Untouched, Exists, Identity
  <2> QED BY <2>1, Distinct DEF Untouched, Exists, Bk, Old, Pnd, Idn
<1>5. Bk \in Books \cup {Missing}
  BY <1>2, SoundFacts
<1>6. CASE Untouched
  <2>1. Proceed("recovered", <<>>)
    BY <1>6 DEF RecoverEpub
  <2>2. AtRecovered'
    BY <1>2, <1>3, <1>4, <1>6, <2>1 DEF AtRecovered, Proceed, Opened, Own
  <2>3. Kept' /\ Standing'
    BY <1>1, <1>2, <2>1, <2>2, KeptOn DEF Proceed, Standing, Recovery
  <2> QED BY <1>2, <2>1, <2>3, Goes DEF Proceed, Label, Tasks, AfterFault
<1>7. CASE ~Untouched /\ Bk = Missing /\ Old # Missing
  <2>1. Proceed("restored", Return1)
    BY <1>4, <1>7, ShortLists DEF RecoverEpub
  <2>2. AtRestored'
    BY <1>2, <1>3, <1>7, <2>1 DEF AtRestored, Proceed
  <2>3. Kept' /\ Standing'
    BY <1>1, <1>2, <2>1, <2>2, KeptOn DEF Proceed, Standing, Recovery
  <2> QED BY <1>2, <2>1, <2>3, Goes DEF Proceed, Label, Tasks, AfterFault
<1>8. CASE ~Untouched /\ Bk = Missing /\ Old = Missing
  <2>1. Proceed("recovered", Unmark1)
    BY <1>4, <1>8, ShortLists DEF RecoverEpub
  <2>2. AtRecovered'
    BY <1>2, <1>3, <1>8, <2>1 DEF AtRecovered, Proceed, Opened, Own
  <2>3. Kept' /\ Standing'
    BY <1>1, <1>2, <2>1, <2>2, KeptOn DEF Proceed, Standing, Recovery
  <2> QED BY <1>2, <2>1, <2>3, Goes DEF Proceed, Label, Tasks, AfterFault
<1>9. CASE ~Untouched /\ Bk # Missing /\ Recovered(Bk) = "Invalid"
  <2>1. Return("StateUnavailable")
    BY <1>4, <1>9 DEF RecoverEpub, Bk
  <2>2. Tmp = Torn
    BY <1>2, <1>9, RecoveredIs
  <2> QED BY <1>2, <2>1, <2>2, Returns DEF Return, Status, Tasks
<1>10. CASE ~Untouched /\ Bk # Missing /\ Recovered(Bk) = "ReplacementPublished"
  <2>1. Proceed("reset", <<>>)
    BY <1>4, <1>10 DEF RecoverEpub, Bk
  <2>2. Mismatch /\ Bk \notin {Idn, Bak}
    BY <1>2, <1>10, RecoveredIs
  <2>3. AtReset'
    BY <1>2, <1>3, <1>10, <2>1, <2>2 DEF AtReset, Foreign, Proceed
  <2>4. Kept' /\ Standing'
    BY <1>1, <1>2, <2>1, <2>3, KeptOn DEF Proceed, Standing, Recovery
  <2> QED BY <1>2, <2>1, <2>4, Goes DEF Proceed, Label, Tasks, AfterFault
<1>11. CASE ~Untouched /\ Bk # Missing /\ Recovered(Bk) \notin {"Invalid", "ReplacementPublished"}
  <2>1. Proceed("finalize", RecoverCalls(Bk))
    BY <1>4, <1>11 DEF RecoverEpub, Bk
  <2>2. ASSUME Recovered(Bk) = "RestoredCurrentSource" PROVE AtFinalize'
    <3>1. (Bak' = Bk' /\ Cancelling(<<>>)') \/ SavingNew(Bk, <<>>)'
      BY <1>2, <1>11, <2>1, <2>2, RecoverDecides DEF Proceed
    <3> QED BY <1>2, <1>3, <1>11, <2>1, <3>1 DEF AtFinalize, Proceed
  <2>3. ASSUME Recovered(Bk) # "RestoredCurrentSource" PROVE AtFinalize'
    <3>1. Idn # Barrier
      BY <1>2, <1>11, <2>3, RecoveredIs
    <3>2. todo' = <<>>
      BY <2>1, <2>3, NoRecover DEF Proceed
    <3> QED BY <1>2, <1>3, <1>11, <2>1, <3>1, <3>2 DEF AtFinalize, Proceed, Own, Opened
  <2>4. AtFinalize'
    BY <2>2, <2>3
  <2>5. Kept' /\ Standing'
    BY <1>1, <1>2, <2>1, <2>4, KeptOn DEF Proceed, Standing, Recovery
  <2> QED BY <1>2, <2>1, <2>5, Goes DEF Proceed, Label, Tasks, AfterFault
<1> QED BY <1>6, <1>7, <1>8, <1>9, <1>10, <1>11

LEMMA RecoverUnreadableInv ==
  ASSUME IInv, RecoverUnreadable
  PROVE  IInv' /\ Keeps(disk')
<1>1. Secured
  BY SecuredHere DEF RecoverUnreadable
<1>2. /\ pc = "recover" /\ epub /\ task \in {"open", "publish"} /\ Kept
      /\ clean' = FALSE /\ UNCHANGED <<epub, slipped, disk, task, staged>>
  <2>1. UNCHANGED disk
    BY DEF RecoverUnreadable, Proceed
  <2> QED BY <2>1 DEF RecoverUnreadable, At, IInv, Standing
<1>3. Bk' = Bk /\ Old' = Old
  BY <1>2, SameCard
<1>4. CASE Old # Missing
  <2>1. Proceed("restored", Return2)
    BY <1>4, ShortLists DEF RecoverUnreadable, Exists, Old
  <2>2. AtRestored'
    BY <1>2, <1>3, <1>4, <2>1 DEF AtRestored, Proceed
  <2>3. Kept' /\ Standing'
    BY <1>1, <1>2, <2>1, <2>2, KeptOn DEF Proceed, Standing, Recovery
  <2> QED BY <1>2, <2>1, <2>3, Goes DEF Proceed, Label, Tasks, AfterFault
<1>5. CASE Old = Missing
  <2>1. Proceed("recovered", <<>>)
    BY <1>5 DEF RecoverUnreadable, Exists, Old
  <2>2. AtRecovered'
    BY <1>2, <1>3, <1>5, <2>1 DEF AtRecovered, Proceed, Own, Opened
  <2>3. Kept' /\ Standing'
    BY <1>1, <1>2, <2>1, <2>2, KeptOn DEF Proceed, Standing, Recovery
  <2> QED BY <1>2, <2>1, <2>3, Goes DEF Proceed, Label, Tasks, AfterFault
<1> QED BY <1>4, <1>5

LEMMA RestoredInv ==
  ASSUME IInv, Restored
  PROVE  IInv' /\ Keeps(disk')
<1>1. /\ pc = "restored" /\ todo = <<>> /\ ok /\ AtRestored /\ Kept /\ Sound(epub, slipped, disk, candidates)
      /\ clean \in BOOLEAN /\ UNCHANGED <<epub, slipped, disk, task, staged, clean>>
  <2>1. UNCHANGED disk
    BY DEF Restored, Proceed, Return
  <2> QED BY <2>1 DEF Restored, At, Handler, IInv, Control, Standing
<1>2. /\ task \in {"open", "publish"} /\ epub
      /\ Old = Missing /\ Bk # Missing /\ Ours /\ (Idn = Barrier => Bak = Bk)
  <2>1. todo \notin {Return2, Return1}
    BY <1>1, NotOver
  <2> QED BY <1>1, <2>1 DEF AtRestored
<1>3. /\ Bk' = Bk /\ Old' = Old /\ Idn' = Idn /\ Bak' = Bak
  BY <1>1, SameCard
<1>4. Unmark1 \in Seq(Calls)
  BY Lists DEF IsList
<1>5. CASE Recovered(Bk) \in {"NotPrepared", "RestoredCurrentSource"}
  <2>1. /\ pc' = "recovered" /\ todo' = RecoverCalls(Bk) \o Unmark1 /\ ok' = TRUE
        /\ UNCHANGED <<result, candidates>>
    BY <1>5, ShortLists DEF Restored, Proceed, Bk
  <2>2. ASSUME Recovered(Bk) = "RestoredCurrentSource" PROVE AtRecovered'
    <3>1. (Bak' = Bk' /\ Cancelling(Unmark1)') \/ SavingNew(Bk, Unmark1)'
      BY <1>1, <1>2, <1>4, <2>1, <2>2, RecoverDecides
    <3> QED BY <1>1, <1>2, <1>3, <2>1, <3>1 DEF AtRecovered
  <2>3. ASSUME Recovered(Bk) = "NotPrepared" PROVE AtRecovered'
    <3>1. Idn # Barrier
      BY <1>1, <1>2, <2>3, RecoveredIs
    <3>2. todo' = Unmark1
      <4>1. RecoverCalls(Bk) = <<>>
        BY <2>3, NoRecover
      <4>2. <<>> \o Unmark1 = Unmark1
        BY <1>4, JoinLaws DEF Join
      <4> QED BY <2>1, <4>1, <4>2
    <3> QED BY <1>1, <1>2, <1>3, <2>1, <3>1, <3>2 DEF AtRecovered, Own, Opened
  <2>4. AtRecovered'
    BY <1>5, <2>2, <2>3
  <2>5. Kept' /\ Standing'
    BY <1>1, <2>1, <2>4, KeptOn DEF Standing, Recovery
  <2> QED BY <1>1, <1>2, <2>1, <2>5, Goes DEF Label, Tasks, AfterFault
<1>6. CASE Recovered(Bk) \notin {"NotPrepared", "RestoredCurrentSource"}
  <2>1. Return("StateUnavailable")
    BY <1>6 DEF Restored, Bk
  <2>2. Tmp = Torn
    <3>1. Recovered(Bk) # "ReplacementPublished"
      BY <1>1, <1>2, RecoveredIs DEF Ours
    <3> QED BY <1>1, <1>2, <1>6, <3>1, RecoveredIs
  <2> QED BY <1>1, <1>2, <2>1, <2>2, Returns DEF Return, Status, Tasks
<1> QED BY <1>5, <1>6

LEMMA FinalizeInv ==
  ASSUME IInv, Finalize
  PROVE  IInv' /\ Keeps(disk')
<1>1. /\ pc = "finalize" /\ todo = <<>> /\ ok /\ AtFinalize /\ Kept /\ Sound(epub, slipped, disk, candidates)
      /\ clean \in BOOLEAN /\ UNCHANGED <<epub, slipped, disk, task, staged, clean, result, candidates>>
      /\ pc' = (IF task = "finish" THEN "done" ELSE "recovered") /\ todo' = Drop2 /\ ok' = TRUE
  BY ShortLists DEF Finalize, Proceed, At, Handler, IInv, Control, Standing
<1>2. task \in {"open", "publish", "finish"} /\ Bk # Missing /\ Own /\ Opened
  <2>1. Bk \in Books /\ <<>> \in Seq(Calls)
    BY <1>1, SoundFacts, Lists DEF AtFinalize
  <2>2. ~PuttingAway /\ ~Cancelling(<<>>) /\ ~SavingNew(Bk, <<>>)
    BY <1>1, <2>1, NotOver
  <2> QED BY <1>1, <2>2 DEF AtFinalize
<1>3. Bk' = Bk /\ Idn' = Idn /\ (Own' <=> Own)
  BY <1>1, SameCard
<1>4. CASE task = "finish"
  <2>1. AtDone'
    BY <1>1, <1>2, <1>3, <1>4 DEF AtDone
  <2>2. Kept' /\ Standing'
    BY <1>1, <1>4, <2>1, KeptOn DEF Standing, Recovery
  <2> QED BY <1>1, <1>4, <2>2, Goes DEF Label, Tasks, AfterFault
<1>5. CASE task # "finish"
  <2>1. AtRecovered'
    BY <1>1, <1>2, <1>3, <1>5 DEF AtRecovered, Opened
  <2>2. Kept' /\ Standing'
    BY <1>1, <1>5, <2>1, KeptOn DEF Standing, Recovery
  <2> QED BY <1>1, <1>2, <1>5, <2>2, Goes DEF Label, Tasks, AfterFault
<1> QED BY <1>4, <1>5

-----------------------------------------------------------------------------
(* resetBookUserStateAfterReplacement() *)

(* The calls that put the state away, after those that raise the barrier.  *)
LEMMA AwayDecides ==
  ASSUME Sound(epub, slipped, disk, candidates), epub => Idn = Barrier \/ Loaded \notin {Missing, Bk},
         Bk # Missing, UNCHANGED <<epub, slipped, disk>>,
         IF epub THEN ~CannotPrepare(Missing) /\ todo' = MakeCache \o PrepareCalls(Missing) \o PutAway
                 ELSE todo' = MakeCache \o PutAway
  PROVE  PuttingAway'
<1>1. PICK r \in Aways : /\ PutAway = Away(r) /\ Hides(r) /\ r \in Seq(Calls) /\ Away(r) \in Seq(Calls)
                         /\ \A s \in Seq(Calls) : MakeCache \o s = Cons(MakeCall, s)
  BY PutAwayList
<1>2. Hides(r)' /\ Idn' = Idn /\ Bak' = Bak
  BY <1>1, SameCard DEF Hides
<1>3. PICK b \in Books \cup {Barrier} : b = Barrier
  OBVIOUS
<1>4. <<>> \in Seq(Calls) /\ Over1(<<>>) \in Seq(Calls) /\ Over1(Away(r)) \in Seq(Calls)
  BY <1>1, <1>3, Lists, Going DEF IsList
<1>5. CASE ~epub
  <2>1. todo' = Cons(MakeCall, Away(r))
    BY <1>1, <1>5
  <2> QED BY <1>2, <1>5, <2>1 DEF PuttingAway
<1>6. ASSUME epub, NEW p \in Seq(Calls), NEW q \in Seq(Calls), PrepareCalls(Missing) = p, p \o Away(r) = q
      PROVE  todo' = Cons(MakeCall, q)
  <2>1. todo' = (MakeCache \o p) \o Away(r)
    BY <1>1, <1>6
  <2>2. MakeCache \in Seq(Calls)
    <3>1. MakeCall \in Calls
      BY EveryCall, Names
    <3>2. MakeCache = <<MakeCall>>
      BY DEF MakeCache, MakeCall
    <3> QED BY <3>1, <3>2
  <2>3. (MakeCache \o p) \o Away(r) = MakeCache \o (p \o Away(r))
    <3>1. Join(Join(MakeCache, p), Away(r)) = Join(MakeCache, Join(p, Away(r)))
      BY <1>1, <2>2, JoinLaws
    <3> QED BY <3>1 DEF Join
  <2> QED BY <1>1, <1>6, <2>1, <2>3
<1>7. CASE epub /\ Idn = Barrier
  <2>1. PrepareCalls(Missing) = <<>>
    BY <1>7, PrepareDecides
  <2>2. <<>> \o Away(r) = Away(r)
    BY <1>1, JoinLaws DEF Join
  <2>3. todo' = Cons(MakeCall, Away(r))
    BY <1>1, <1>4, <1>6, <1>7, <2>1, <2>2
  <2> QED BY <1>2, <1>7, <2>3 DEF PuttingAway
<1>8. CASE epub /\ Idn \in Books
  <2>1. PrepareCalls(Missing) = SaveCalls(Barrier, TRUE)
    BY <1>8, PrepareDecides
  <2>2. PrepareCalls(Missing) = Over1(<<>>) /\ Over1(<<>>) \o Away(r) = Over1(Away(r))
    BY <1>1, <1>3, <2>1, SaveLists
  <2>3. todo' = Cons(MakeCall, Over1(Away(r)))
    BY <1>4, <1>6, <1>8, <2>2
  <2> QED BY <1>2, <1>8, <2>3 DEF PuttingAway
<1>9. CASE epub /\ Idn \notin Books \cup {Barrier}
  <2>1. /\ Idn = Missing /\ Bak # Missing /\ Bak \in Books
    <3>1. /\ Idn = Missing /\ Bak \in Books \cup {Missing} /\ Tmp \in Books \cup {Missing, Barrier, Torn}
          /\ Idn = Missing /\ Bak = Missing => Tmp \in {Missing, Torn, Barrier, Bk} /\ (Tmp = Barrier => Bk = Missing)
      BY <1>9, SoundFacts
    <3>2. Barrier # Missing
      BY Distinct
    <3>3. Loaded \notin {Missing, Bk}
      BY <1>9, <3>1, <3>2
    <3> QED BY <3>1, <3>3, LoadIs
  <2>2. PICK v \in Books : v = Bak
    BY <2>1
  <2>3. PrepareCalls(Missing) = SaveCalls(v, FALSE) \o SaveCalls(Barrier, TRUE)
    BY <1>9, <2>1, <2>2, PrepareDecides
  <2>4. /\ SaveCalls(Barrier, TRUE) = Over1(<<>>)
        /\ SaveCalls(v, FALSE) = New1(v, <<>>)
        /\ SaveCalls(v, FALSE) \o Over1(<<>>) = New1(v, Over1(<<>>))
        /\ SaveCalls(v, FALSE) \o Over1(Away(r)) = New1(v, Over1(Away(r)))
        /\ Over1(<<>>) \o Away(r) = Over1(Away(r))
    BY <1>1, <1>4, <2>2, SaveLists
  <2>5. /\ New1(v, <<>>) \in Seq(Calls) /\ New1(v, Over1(<<>>)) \in Seq(Calls)
        /\ New1(v, Over1(Away(r))) \in Seq(Calls)
    BY <1>4, <2>2, Going DEF IsList
  <2>6. New1(v, Over1(<<>>)) \o Away(r) = New1(v, Over1(Away(r)))
    <3>1. SaveCalls(v, FALSE) \in Seq(Calls)
      BY <2>4, <2>5
    <3>2. Join(Join(SaveCalls(v, FALSE), Over1(<<>>)), Away(r)) = Join(SaveCalls(v, FALSE), Join(Over1(<<>>), Away(r)))
      <4> DEFINE p == SaveCalls(v, FALSE)
                 q == Over1(<<>>)
                 a == Away(r)
      <4>1. p \in Seq(Calls) /\ q \in Seq(Calls) /\ a \in Seq(Calls)
        BY <1>1, <1>4, <3>1
      <4> HIDE DEF p, q, a
      <4>2. Join(Join(p, q), a) = Join(p, Join(q, a))
        BY <4>1, JoinLaws
      <4> QED BY <4>2 DEF p, q, a
    <3> QED BY <2>4, <3>2 DEF Join
  <2>7. PrepareCalls(Missing) = New1(v, Over1(<<>>))
    BY <2>3, <2>4
  <2>8. todo' = Cons(MakeCall, New1(v, Over1(Away(r))))
    BY <1>6, <1>9, <2>5, <2>6, <2>7
  <2> QED BY <1>2, <1>9, <2>1, <2>2, <2>8 DEF PuttingAway
<1> QED BY <1>5, <1>7, <1>8, <1>9

LEMMA ResetInv ==
  ASSUME IInv, Reset
  PROVE  IInv' /\ Keeps(disk')
<1>1. /\ pc = "reset" /\ AtReset /\ Kept /\ Sound(epub, slipped, disk, candidates) /\ task \in Tasks
      /\ clean \in BOOLEAN /\ UNCHANGED <<epub, slipped, disk, task, staged, clean>>
  <2>1. UNCHANGED disk
    BY DEF Reset, Proceed, Return
  <2> QED BY <2>1 DEF Reset, At, Handler, IInv, Control, Standing, Tasks
<1>2. /\ Bk # Missing /\ Foreign
      /\ \/ task \in {"open", "publish"} /\ (epub => Mismatch)
         \/ task = "finish" /\ Blocked
         \/ task = "bind" /\ epub /\ Old = Missing /\ Mismatch
  BY <1>1 DEF AtReset
<1>3. /\ Bk' = Bk /\ Old' = Old /\ Idn' = Idn /\ Bak' = Bak
      /\ (Foreign' <=> Foreign) /\ (Own' <=> Own)
  BY <1>1, SameCard DEF Foreign
<1>4. epub /\ HasState => Idn = Barrier \/ Loaded \notin {Missing, Bk}
  BY <1>2 DEF Mismatch, Blocked
<1>5. DEFINE after == IF task = "bind" THEN "adopt" ELSE "finalize"
<1>6. ASSUME pc' = after, ok' = TRUE, UNCHANGED <<result, candidates>>,
             PuttingAway' \/ (todo' = <<>> /\ Own /\ Opened' /\ (task = "bind" => Unidentified(disk)))
      PROVE  IInv' /\ Keeps(disk')
  <2>1. after = "adopt" => AtAdopt'
    BY <1>1, <1>2, <1>3, <1>6 DEF AtAdopt, Unidentified
  <2>2. after = "finalize" => AtFinalize'
    BY <1>1, <1>2, <1>3, <1>6 DEF AtFinalize
  <2>3. Kept' /\ Standing'
    BY <1>1, <1>6, <2>1, <2>2, KeptOn DEF Standing, Recovery
  <2> QED BY <1>1, <1>6, <2>3, Goes DEF Label, AfterFault
<1>7. CASE ~HasState /\ (epub \/ task = "finish")
  <2>1. Proceed(after, <<>>)
    BY <1>7 DEF Reset
  <2>2. Unidentified(disk) /\ OwnedBy(slipped, disk, Bk)
    BY <1>1, <1>7, Stateless, UnownedBy
  <2>3. Own /\ Opened'
    BY <1>3, <2>2, Distinct DEF Own, Opened, Unidentified, Idn
  <2> HIDE DEF after
  <2> QED BY <1>6, <2>1, <2>2, <2>3 DEF Proceed
<1>8. CASE ~epub /\ ~(~HasState /\ task = "finish")
  <2>1. Proceed(after, MakeCache \o PutAway)
    BY <1>8 DEF Reset
  <2>2. PuttingAway'
    BY <1>1, <1>2, <1>8, <2>1, AwayDecides DEF Proceed
  <2> HIDE DEF after
  <2> QED BY <1>6, <2>1, <2>2 DEF Proceed
<1>9. CASE epub /\ HasState
  <2>1. ~SameSource
    <3>1. Idn = Barrier => Loaded = Barrier
      BY <1>1, LoadIs, Distinct
    <3>2. Bk # Barrier
      BY <1>1, SoundFacts, Distinct
    <3> QED BY <1>4, <1>9, <3>1, <3>2 DEF SameSource, Bk
  <2>2. CASE LoadInvalid \/ CannotPrepare(Missing)
    <3>1. Return("StateUnavailable")
      BY <1>9, <2>1, <2>2 DEF Reset
    <3>2. Tmp = Torn
      BY <1>1, <2>2, LoadIs DEF CannotPrepare, Idn
    <3> QED BY <1>1, <3>1, <3>2, Returns DEF Return, Status
  <2>3. CASE ~(LoadInvalid \/ CannotPrepare(Missing))
    <3>1. Proceed(after, MakeCache \o PrepareCalls(Missing) \o PutAway)
      BY <1>9, <2>1, <2>3 DEF Reset
    <3>2. PuttingAway'
      BY <1>1, <1>2, <1>4, <1>9, <2>3, <3>1, AwayDecides DEF Proceed
    <3> HIDE DEF after
    <3> QED BY <1>6, <3>1, <3>2 DEF Proceed
  <2> QED BY <2>2, <2>3
<1> QED BY <1>7, <1>8, <1>9

-----------------------------------------------------------------------------
(* publishStagedBookFile() *)
LEMMA BarrierDecides ==
  ASSUME Sound(epub, slipped, disk, candidates), epub, Old = Missing, ~CannotPrepare(Bk),
         UNCHANGED <<epub, slipped, disk>>, todo' = PrepareCalls(Bk)
  PROVE  /\ Ours
         /\ \/ todo' = <<>> /\ Barriered'
            \/ SavingOver(<<>>)'
            \/ (\E v \in Books : SavingNew(v, Over1(<<>>))')
            \/ SavingNew(Barrier, <<>>)'
            \/ SavingNew(Barrier, UndoTmp)'
<1>1. /\ Bk \in Books \cup {Missing} /\ Idn \in Books \cup {Missing, Barrier} /\ Bak \in Books \cup {Missing}
      /\ Idn \in Books => Bak \in {Missing, Idn}
      /\ Idn = Missing /\ Bak = Missing => Tmp \in {Missing, Torn, Barrier, Bk}
  BY SoundFacts
<1>2. /\ Missing \notin Books /\ Torn \notin Books /\ Barrier \notin Books
      /\ Missing # Torn /\ Barrier # Missing /\ Barrier # Torn
  BY Distinct
<1>3. PICK x \in Books \cup {Missing} : x = Bk
  BY <1>1
<1>4. ~CannotPrepare(x) /\ todo' = PrepareCalls(x)
  BY <1>3
<1>5. /\ Bk' = Bk /\ Old' = Old /\ Idn' = Idn /\ Bak' = Bak
  BY SameCard
<1>6. <<>> \in Seq(Calls) /\ Over1(<<>>) \in Seq(Calls) /\ UndoTmp \in Seq(Calls)
  <2>1. PICK b \in Books \cup {Barrier} : b = Barrier
    OBVIOUS
  <2> QED BY <2>1, Lists, Going DEF IsList
<1>7. SaveCalls(Barrier, TRUE) = Over1(<<>>)
  <2>1. PICK b \in Books \cup {Barrier} : b = Barrier
    OBVIOUS
  <2> QED BY <1>6, <2>1, SaveLists
<1>8. CASE Idn = Barrier
  <2>1. PrepareCalls(x) = <<>> /\ (x # Missing => Bak = x)
    BY <1>4, <1>8, PrepareDecides
  <2> QED BY <1>1, <1>2, <1>3, <1>4, <1>5, <1>8, <2>1, SameCard DEF Ours, Barriered, Blocked
<1>9. CASE Idn \in Books
  <2>1. PrepareCalls(x) = Over1(<<>>) /\ (x # Missing => Idn = x)
    BY <1>4, <1>7, <1>9, PrepareDecides
  <2>2. Ours
    BY <1>1, <1>2, <1>3, <1>9, <2>1 DEF Ours
  <2>3. SavingOver(<<>>)'
    BY <1>4, <1>5, <1>9, <2>1 DEF SavingOver
  <2> QED BY <2>2, <2>3
<1>10. CASE Idn = Missing /\ Bak # Missing
  <2>1. PICK v \in Books : v = Bak
    BY <1>1, <1>10
  <2>2. todo' = SaveCalls(v, FALSE) \o Over1(<<>>) /\ (x # Missing => Bak = x)
    BY <1>4, <1>7, <1>10, <2>1, PrepareDecides
  <2>3. SavingNew(v, Over1(<<>>))'
    BY <1>6, <1>10, <2>1, <2>2, SaveDecides
  <2>4. Ours
    BY <1>1, <1>2, <1>3, <1>10, <2>2 DEF Ours
  <2> QED BY <2>3, <2>4
<1>11. CASE Idn = Missing /\ Bak = Missing
  <2>1. Ours
    BY <1>2, <1>11 DEF Ours
  <2>2. CASE x # Missing
    <3>1. todo' = SaveCalls(x, FALSE) \o Over1(<<>>)
      BY <1>4, <1>7, <1>11, <2>2, PrepareDecides
    <3>2. SavingNew(x, Over1(<<>>))'
      BY <1>2, <1>3, <1>6, <1>11, <2>2, <3>1, SaveDecides
    <3> QED BY <1>3, <2>1, <2>2, <3>2
  <2>3. CASE x = Missing
    <3>1. Tmp # Torn
      BY <1>4, <1>11, LoadIs DEF CannotPrepare
    <3>2. Tmp \in {Missing, Barrier}
      BY <1>1, <1>3, <1>11, <2>3, <3>1
    <3>3. PICK b \in Books \cup {Barrier} : b = Barrier
      OBVIOUS
    <3>4. CASE Tmp = Missing
      <4>1. todo' = SaveCalls(b, FALSE)
        BY <1>4, <1>11, <2>3, <3>3, <3>4, PrepareDecides
      <4>2. SavingNew(b, <<>>)'
        BY <1>3, <1>6, <1>11, <2>3, <3>3, <4>1, SaveDecides
      <4> QED BY <2>1, <3>3, <4>2
    <3>5. CASE Tmp = Barrier
      <4>1. todo' = SaveCalls(b, FALSE) \o UndoTmp
        BY <1>2, <1>4, <1>11, <2>3, <3>3, <3>5, PrepareDecides, ShortLists
      <4>2. SavingNew(b, UndoTmp)'
        BY <1>3, <1>6, <1>11, <2>3, <3>3, <4>1, SaveDecides
      <4> QED BY <2>1, <3>3, <4>2
    <3> QED BY <3>2, <3>4, <3>5
  <2> QED BY <2>2, <2>3
<1> QED BY <1>1, <1>8, <1>9, <1>10, <1>11

(* After a recovery the old book is gone and the state is our own. *)
LEMMA AtRecoveredOver ==
  ASSUME IInv, pc = "recovered", todo = <<>>, ok
  PROVE  Old = Missing /\ Own /\ Opened /\ (clean \/ ~epub => Pnd = Missing)
<1>1. AtRecovered /\ Sound(epub, slipped, disk, candidates) /\ Unmark1 \in Seq(Calls)
  BY Lists DEF IInv, Standing, IsList
<1>2. Bk # Missing => Bk \in Books
  BY <1>1, SoundFacts
<1>3. /\ todo \notin {Unmark1, ReturnUnmark, Drop2} /\ ~Cancelling(Unmark1)
      /\ Bk # Missing => ~SavingNew(Bk, Unmark1)
  BY <1>1, <1>2, NotOver
<1> QED BY <1>1, <1>3 DEF AtRecovered

LEMMA StageInv ==
  ASSUME IInv, Stage
  PROVE  IInv' /\ Keeps(disk')
<1>1. /\ pc = "recovered" /\ todo = <<>> /\ ok /\ task = "publish" /\ Kept /\ Sound(epub, slipped, disk, candidates)
      /\ clean \in BOOLEAN /\ staged \in Books /\ UNCHANGED <<epub, slipped, disk, task, staged, clean>>
  <2>1. UNCHANGED disk
    BY DEF Stage, Proceed, Return
  <2> QED BY <2>1 DEF Stage, At, Handler, IInv, Control
<1>2. Old = Missing /\ Own /\ Opened /\ (clean \/ ~epub => Pnd = Missing)
  BY <1>1, AtRecoveredOver
<1>3. Stg \in {staged, Torn}
  BY <1>1 DEF Kept
<1>4. /\ Bk' = Bk /\ Old' = Old /\ Stg' = Stg /\ Pnd' = Pnd /\ (Ours' <=> Ours) /\ (Barriered' <=> Barriered)
      /\ <<>> \in Seq(Calls)
  BY <1>1, SameCard, Lists
<1>5. ASSUME Return("StateUnavailable"), clean => Tmp = Torn \/ (epub /\ Loaded # Bk)
      PROVE  IInv' /\ Keeps(disk')
  BY <1>1, <1>5, Returns DEF Return, Status, Tasks
<1>6. CASE Pnd # Missing
  <2>1. Return("StateUnavailable")
    BY <1>6 DEF Stage, Exists, Pnd
  <2> QED BY <1>2, <1>5, <1>6, <2>1
<1>7. CASE Pnd = Missing /\ Stg = Torn
  <2>1. Return("InvalidStagedFile")
    BY <1>2, <1>7 DEF Stage, Exists, Pnd, Old, Stg
  <2> QED BY <1>1, <2>1, Returns DEF Return, Status, Tasks
<1>8. CASE Pnd = Missing /\ Stg # Torn /\ Stg = Bk
  <2>1. Proceed("unchanged", Discard1)
    BY <1>2, <1>8, ShortLists DEF Stage, Exists, Pnd, Old, Stg, Bk
  <2>2. AtUnchanged'
    BY <1>1, <1>2, <1>3, <1>4, <1>8, <2>1 DEF AtUnchanged, Proceed
  <2>3. Kept' /\ Standing'
    BY <1>1, <2>1, <2>2, KeptOn DEF Proceed, Standing, Recovery
  <2> QED BY <1>1, <2>1, <2>3, Goes DEF Proceed, Label, Tasks, AfterFault
<1>9. ASSUME Pnd = Missing, Stg # Torn, pc' = "barrier", ok' = TRUE, UNCHANGED <<result, candidates>>, Ours,
             \/ todo' = <<>> /\ Barriered'
             \/ SavingOver(<<>>)'
             \/ (\E v \in Books : SavingNew(v, Over1(<<>>))')
             \/ SavingNew(Barrier, <<>>)'
             \/ SavingNew(Barrier, UndoTmp)'
      PROVE  IInv' /\ Keeps(disk')
  <2>1. AtBarrier'
    BY <1>1, <1>2, <1>3, <1>4, <1>9 DEF AtBarrier
  <2>2. Kept' /\ Standing'
    BY <1>1, <1>9, <2>1, KeptOn DEF Standing, Recovery
  <2> QED BY <1>1, <1>9, <2>2, Goes DEF Label, Tasks, AfterFault
<1>10. CASE Pnd = Missing /\ Stg \notin {Torn, Bk} /\ (~epub \/ ~HasState)
  <2>1. Proceed("barrier", <<>>)
    BY <1>2, <1>10 DEF Stage, Exists, Pnd, Old, Stg, Bk
  <2>2. Idn = Missing /\ Bak = Missing
    <3>1. ~epub => Idn = Missing /\ Bak = Missing
      BY <1>1, SoundFacts
    <3>2. ~HasState => Idn = Missing /\ Bak = Missing
      BY <1>1, Stateless DEF Unidentified, Idn, Bak
    <3> QED BY <1>10, <3>1, <3>2
  <2>3. Ours /\ Barriered
    BY <1>10, <2>2, Distinct DEF Ours, Barriered, Blocked
  <2> QED BY <1>4, <1>9, <1>10, <2>1, <2>3 DEF Proceed
<1>11. CASE Pnd = Missing /\ Stg \notin {Torn, Bk} /\ epub /\ HasState /\ CannotPrepare(Bk)
  <2>1. Return("StateUnavailable")
    BY <1>2, <1>11 DEF Stage, Exists, Pnd, Old, Stg, Bk
  <2>2. Tmp = Torn \/ Loaded # Bk
    <3>1. LoadInvalid \/ (Idn = Barrier /\ Inconsistent) => Tmp = Torn
      BY <1>1, LoadIs
    <3>2. Idn = Barrier => Loaded # Bk
      BY <1>1, LoadIs, SoundFacts, Distinct
    <3> QED BY <1>11, <3>1, <3>2 DEF CannotPrepare, Idn
  <2> QED BY <1>5, <1>11, <2>1, <2>2
<1>12. CASE Pnd = Missing /\ Stg \notin {Torn, Bk} /\ epub /\ HasState /\ ~CannotPrepare(Bk)
  <2>1. Proceed("barrier", PrepareCalls(Bk))
    BY <1>2, <1>12 DEF Stage, Exists, Pnd, Old, Stg, Bk
  <2>2. /\ Ours
        /\ \/ todo' = <<>> /\ Barriered'
           \/ SavingOver(<<>>)'
           \/ (\E v \in Books : SavingNew(v, Over1(<<>>))')
           \/ SavingNew(Barrier, <<>>)'
           \/ SavingNew(Barrier, UndoTmp)'
    BY <1>1, <1>2, <1>12, <2>1, BarrierDecides DEF Proceed
  <2> QED BY <1>9, <1>12, <2>1, <2>2 DEF Proceed
<1> QED BY <1>6, <1>7, <1>8, <1>10, <1>11, <1>12

LEMMA MarkInv ==
  ASSUME IInv, Mark
  PROVE  IInv' /\ Keeps(disk')
<1>1. /\ pc = "barrier" /\ todo = <<>> /\ ok /\ AtBarrier /\ Kept /\ Sound(epub, slipped, disk, candidates)
      /\ clean \in BOOLEAN /\ UNCHANGED <<epub, slipped, disk, task, staged, clean, result, candidates>>
      /\ pc' = "marked" /\ todo' = MarkPending /\ ok' = TRUE
  BY DEF Mark, Proceed, At, Handler, IInv, Control, Standing
<1>2. task = "publish" /\ Old = Missing /\ Pnd = Missing /\ Stg = staged /\ Barriered
  <2>1. /\ <<>> \in Seq(Calls) /\ Over1(<<>>) \in Seq(Calls) /\ UndoTmp \in Seq(Calls)
    <3>1. PICK b \in Books \cup {Barrier} : b = Barrier
      OBVIOUS
    <3> QED BY <3>1, Lists, Going DEF IsList
  <2>2. \A r \in Seq(Calls), v \in Books \cup {Barrier} : ~SavingNew(v, r)
    BY <1>1, NotOver
  <2>3. \A v \in Books : ~SavingNew(v, Over1(<<>>))
    BY <2>1, <2>2
  <2>4. ~SavingNew(Barrier, <<>>) /\ ~SavingNew(Barrier, UndoTmp)
    BY <2>1, <2>2
  <2>5. ~SavingOver(<<>>) /\ todo # UndoTmp
    BY <1>1, <2>1, NotOver
  <2> QED BY <1>1, <2>3, <2>4, <2>5 DEF AtBarrier
<1>3. Own
  BY <1>1, <1>2, SoundFacts, Distinct DEF Own
<1>4. /\ Bk' = Bk /\ Old' = Old /\ Stg' = Stg /\ Pnd' = Pnd /\ (Barriered' <=> Barriered) /\ (Own' <=> Own)
      /\ (HasState' <=> HasState)
  BY <1>1, SameCard
<1>5. todo' = IF Bk # Missing THEN Mark1(Had) ELSE IF ~epub /\ HasState THEN Mark1(New) ELSE <<>>
  BY <1>1, ShortLists DEF MarkPending, Exists, Bk
<1>6. AtMarked'
  BY <1>1, <1>2, <1>3, <1>4, <1>5 DEF AtMarked, NewMarked
<1>7. Kept' /\ Standing'
  BY <1>1, <1>6, KeptOn DEF Standing, Recovery
<1> QED BY <1>1, <1>2, <1>7, Goes DEF Label, Tasks, AfterFault

(* Without the book's own name behind it a barrier is over no book, unless *)
(* that came there by a rename that was reported as failed.                *)
LEMMA CancelAfter ==
  ASSUME Sound(epub, slipped, disk, candidates), Blocked, Barriered \/ Late, Own,
         Old = Missing \/ Stranded, task = "publish",
         UNCHANGED <<epub, slipped, disk, task>>, todo' = CancelCalls
  PROVE  AtCancelled'
<1>1. Idn = Barrier /\ Bak = Missing => (Bk = Missing \/ Late) /\ Old = Missing
  <2>1. ~epub \/ Cch = Missing => Idn = Missing
    BY SoundFacts
  <2>2. Cch # Missing => HasState
    BY StateBits DEF Cch
  <2>3. Idn = Barrier /\ Old # Missing => Bak = Old
    BY DEF Sound, Shape, Behind, Idn, Old, Bak
  <2> QED BY <2>1, <2>2, <2>3, Distinct DEF Barriered
<1>2. Cancelling(<<>>)' \/ todo' = <<>>
  BY <1>1, CancelDecides, Lists
<1>3. Old' = Old /\ (Own' <=> Own) /\ (Stranded' <=> Stranded)
  BY SameCard
<1> QED BY <1>2, <1>3 DEF AtCancelled

LEMMA RotateInv ==
  ASSUME IInv, Rotate
  PROVE  IInv' /\ Keeps(disk')
<1>1. /\ pc = "marked" /\ todo = <<>> /\ AtMarked /\ Kept /\ Sound(epub, slipped, disk, candidates)
      /\ clean \in BOOLEAN /\ UNCHANGED <<epub, slipped, disk, task, staged, clean>> /\ (clean => ok)
  <2>1. UNCHANGED disk
    BY DEF Rotate, Proceed
  <2> QED BY <2>1 DEF Rotate, At, Handler, IInv, Control, Standing
<1>2. /\ task = "publish" /\ Old = Missing /\ Stg = staged /\ Barriered /\ Own
      /\ ok => (IF Bk # Missing THEN Pnd = Had ELSE NewMarked)
  <2>1. todo \notin {Mark1(Had), Mark1(New)}
    BY <1>1, NotOver
  <2> QED BY <1>1, <2>1 DEF AtMarked
<1>3. /\ Bk' = Bk /\ Old' = Old /\ Stg' = Stg /\ Pnd' = Pnd /\ (Barriered' <=> Barriered) /\ (HasState' <=> HasState)
  BY <1>1, SameCard
<1>4. CASE ~ok
  <2>1. Proceed("unmarked", CancelCalls)
    BY <1>4 DEF Rotate
  <2>2. AtCancelled'
    BY <1>1, <1>2, <2>1, CancelAfter DEF Proceed, Barriered
  <2>3. Kept' /\ Standing'
    BY <1>1, <2>1, <2>2, KeptOn DEF Proceed, Standing, Recovery
  <2> QED BY <1>1, <1>2, <1>4, <2>1, <2>3, Goes DEF Proceed, Label, Tasks, AfterFault
<1>5. CASE ok
  <2>1. Proceed("rotated", IF Bk # Missing THEN Rotate1 ELSE <<>>)
    BY <1>5, ShortLists DEF Rotate, Exists, Bk
  <2>2. Bk = Missing => Missing \in candidates
    BY <1>1, <1>2, SoundFacts
  <2>3. AtRotated'
    BY <1>1, <1>2, <1>3, <1>5, <2>1, <2>2 DEF AtRotated, Proceed, FirstBook, NewMarked
  <2>4. Kept' /\ Standing'
    BY <1>1, <2>1, <2>3, KeptOn DEF Proceed, Standing, Recovery
  <2> QED BY <1>1, <1>2, <2>1, <2>4, Goes DEF Proceed, Label, Tasks, AfterFault
<1> QED BY <1>4, <1>5

LEMMA PublishInv ==
  ASSUME IInv, Publish
  PROVE  IInv' /\ Keeps(disk')
<1>1. /\ pc = "rotated" /\ todo = <<>> /\ AtRotated /\ Kept /\ Sound(epub, slipped, disk, candidates)
      /\ clean \in BOOLEAN /\ UNCHANGED <<epub, slipped, disk, task, staged, clean>> /\ (clean => ok)
  <2>1. UNCHANGED disk
    BY DEF Publish, Proceed
  <2> QED BY <2>1 DEF Publish, At, Handler, IInv, Control, Standing
<1>2. /\ task = "publish" /\ Stg = staged /\ Barriered
      /\ ok => Bk = Missing /\ FirstBook /\ NewMarked
      /\ ~ok => Pnd = Had /\ IF Bk # Missing THEN Old = Missing ELSE Stranded
  <2>1. todo # Rotate1
    BY <1>1, NotOver
  <2> QED BY <1>1, <2>1 DEF AtRotated
<1>3. /\ Bk' = Bk /\ Old' = Old /\ Stg' = Stg /\ Pnd' = Pnd /\ (Blocked' <=> Blocked) /\ (HasState' <=> HasState)
  BY <1>1, SameCard
<1>4. CASE ~ok
  <2>1. Proceed("cancelled", CancelCalls)
    BY <1>4 DEF Publish
  <2>2. Own
    BY <1>1, <1>2, <1>4, SoundFacts, Distinct DEF Own
  <2>3. AtCancelled'
    BY <1>1, <1>2, <1>4, <2>1, <2>2, CancelAfter DEF Proceed, Barriered
  <2>4. Kept' /\ Standing'
    BY <1>1, <2>1, <2>3, KeptOn DEF Proceed, Standing, Recovery
  <2> QED BY <1>1, <1>2, <1>4, <2>1, <2>4, Goes DEF Proceed, Label, Tasks, AfterFault
<1>5. CASE ok
  <2>1. Proceed("published", Publish1)
    BY <1>5, ShortLists DEF Publish
  <2>2. AtPublished'
    BY <1>1, <1>2, <1>3, <1>5, <2>1 DEF AtPublished, Proceed, FirstBook, NewMarked, Barriered
  <2>3. Kept' /\ Standing'
    BY <1>1, <2>1, <2>2, KeptOn DEF Proceed, Standing, Recovery
  <2> QED BY <1>1, <1>2, <2>1, <2>3, Goes DEF Proceed, Label, Tasks, AfterFault
<1> QED BY <1>4, <1>5

(* The new book is in place, or is not. *)
LEMMA AtPublishedOver ==
  ASSUME IInv, pc = "published", todo = <<>>
  PROVE  /\ task = "publish" /\ FirstBook /\ NewMarked /\ Blocked
         /\ ok => Bk = staged /\ Stg = Missing
         /\ ~ok => (Bk # Missing /\ Old = Missing => Late)
<1>1. AtPublished /\ Sound(epub, slipped, disk, candidates)
  BY DEF IInv, Standing
<1>2. todo # Publish1
  BY <1>1, NotOver
<1> QED BY <1>1, <1>2 DEF AtPublished

LEMMA VerifyInv ==
  ASSUME IInv, Verify
  PROVE  IInv' /\ Keeps(disk')
<1>1. /\ pc = "published" /\ todo = <<>> /\ ok /\ Sound(epub, slipped, disk, candidates) /\ staged \in Books /\ Kept
      /\ clean \in BOOLEAN /\ UNCHANGED <<epub, slipped, disk, staged, clean, result, candidates>>
      /\ task' = "finish" /\ pc' = "reset" /\ todo' = <<>> /\ ok' = TRUE
  BY DEF Verify, Proceed, At, IInv, Control
<1>2. Blocked /\ Bk = staged
  BY <1>1, AtPublishedOver
<1>3. Bk' = Bk /\ (Blocked' <=> Blocked) /\ (Secured' <=> Secured)
  BY <1>1, SameCard
<1>4. AtReset' /\ Kept'
  BY <1>1, <1>2, <1>3, Distinct DEF AtReset, Foreign, Kept
<1>5. Standing'
  BY <1>1, <1>4 DEF Standing
<1> QED BY <1>1, <1>4, <1>5, Goes DEF Label, Tasks, AfterFault

LEMMA UnpublishInv ==
  ASSUME IInv, Unpublish
  PROVE  IInv' /\ Keeps(disk')
<1>1. /\ pc = "published" /\ todo = <<>> /\ Sound(epub, slipped, disk, candidates) /\ staged \in Books /\ Kept
      /\ UNCHANGED <<epub, slipped, disk, task, staged>> /\ clean \in BOOLEAN /\ (clean => ok)
  <2>1. UNCHANGED disk
    BY DEF Unpublish, Proceed
  <2> QED BY <2>1 DEF Unpublish, At, IInv, Control
<1>2. /\ task = "publish" /\ FirstBook /\ NewMarked /\ Blocked
      /\ ok => Bk = staged /\ Stg = Missing
      /\ ~ok => (Bk # Missing /\ Old = Missing => Late)
  BY <1>1, AtPublishedOver
<1>3. /\ Bk' = Bk /\ Old' = Old /\ Stg' = Stg /\ (Blocked' <=> Blocked) /\ (Barriered' <=> Barriered)
      /\ (Own' <=> Own) /\ (Late' <=> Late)
  BY <1>1, SameCard
<1>4. PutBack = IF Old # Missing THEN Return1 ELSE <<>>
  BY ShortLists DEF PutBack, Exists, Old
<1>5. CASE ~ok /\ clean' = clean /\ Proceed("unrotated", PutBack)
  <2>1. Old = Missing => Own /\ (Barriered \/ Late)
    <3>1. CASE Bk = Missing
      BY <1>2, <3>1 DEF Own, Barriered
    <3>2. CASE Bk # Missing /\ Old = Missing
      BY <1>2, <1>5, <3>2 DEF Own, OwnedBy, Late
    <3> QED BY <3>1, <3>2
  <2>2. AtUnrotated'
    BY <1>1, <1>2, <1>3, <1>4, <1>5, <2>1 DEF AtUnrotated, Proceed
  <2>3. Kept' /\ Standing'
    BY <1>1, <1>5, <2>2, KeptOn DEF Proceed, Standing, Recovery
  <2> QED BY <1>1, <1>2, <1>5, <2>3, Goes DEF Proceed, Label, Tasks, AfterFault
<1>6. CASE ok /\ epub /\ clean' = FALSE /\ Proceed("withdrawn", Rename("book", "staging") \o PutBack)
  <2>1. todo' = Withdraw1(IF Old # Missing THEN Return1 ELSE <<>>)
    BY <1>4, <1>6, ShortLists DEF Proceed
  <2>2. AtWithdrawn'
    BY <1>1, <1>2, <1>3, <1>6, <2>1, Distinct DEF AtWithdrawn, Proceed, FirstBook
  <2>3. Kept' /\ Standing'
    BY <1>1, <1>6, <2>2, KeptOn DEF Proceed, Standing, Recovery
  <2> QED BY <1>1, <1>2, <1>6, <2>3, Goes DEF Proceed, Label, Tasks, AfterFault
<1> QED BY <1>5, <1>6 DEF Unpublish

LEMMA CancelInv ==
  ASSUME IInv, Cancel
  PROVE  IInv' /\ Keeps(disk')
<1>1. /\ pc \in {"unrotated", "withdrawn"} /\ todo = <<>> /\ ok /\ Sound(epub, slipped, disk, candidates) /\ Kept
      /\ UNCHANGED <<epub, slipped, disk, task, staged, clean, result, candidates>> /\ clean = FALSE
      /\ pc' \in {"cancelled", "failed"} /\ todo' = CancelCalls /\ ok' = TRUE
  BY DEF Cancel, Proceed, Handler, IInv, Control
<1>2. task = "publish" /\ Old = Missing /\ Blocked /\ (Barriered \/ Late) /\ Own
  <2>1. todo \notin {Return1, Withdraw1(Return1), Withdraw1(<<>>)}
    BY <1>1, NotOver
  <2> QED BY <1>1, <2>1 DEF IInv, Standing, AtUnrotated, AtWithdrawn, Own
<1>3. AtCancelled'
  BY <1>1, <1>2, CancelAfter
<1>4. Kept' /\ Standing'
  BY <1>1, <1>3, KeptOn DEF Standing, Recovery
<1> QED BY <1>1, <1>2, <1>4, Goes DEF Label, Tasks, AfterFault

LEMMA UnmarkInv ==
  ASSUME IInv, Unmark
  PROVE  IInv' /\ Keeps(disk')
<1>1. /\ pc = "cancelled" /\ AtCancelled /\ Kept
      /\ UNCHANGED <<epub, slipped, disk, task, staged, clean, result, candidates>> /\ ~clean /\ clean \in BOOLEAN
      /\ pc' = "failed" /\ todo' = Unmark1 /\ ok' = TRUE
  BY ShortLists DEF Unmark, At, Proceed, Handler, IInv, Control, Standing
<1>2. Old' = Old /\ (Own' <=> Own) /\ (Stranded' <=> Stranded)
  BY <1>1, SameCard
<1>3. AtCancelled' /\ task = "publish"
  BY <1>1, <1>2 DEF AtCancelled
<1>4. Kept' /\ Standing'
  BY <1>1, <1>3, KeptOn DEF Standing, Recovery
<1> QED BY <1>1, <1>3, <1>4, Goes DEF Label, Tasks, AfterFault

LEMMA FinishInv ==
  ASSUME IInv, Finish
  PROVE  IInv' /\ Keeps(disk')
<1>1. /\ todo = <<>> /\ Sound(epub, slipped, disk, candidates) /\ Kept /\ Standing /\ clean \in BOOLEAN /\ task \in Tasks
      /\ UNCHANGED <<epub, slipped, task, staged, clean>>
  BY DEF Finish, At, Handler, IInv, Control, Tasks
<1>2. CASE pc = "failed" /\ Return("StorageError")
  BY <1>1, <1>2, Returns DEF Return, Status
<1>3. CASE pc = "unmarked" /\ Return("StateUnavailable")
  <2>1. ~clean
    BY <1>3 DEF IInv, Control
  <2> QED BY <1>1, <1>3, <2>1, Returns DEF Return, Status
<1>4. CASE pc = "unchanged" /\ Return(IF ok THEN "Unchanged" ELSE "StorageError")
  <2>1. Bk = staged /\ Old = Missing
    BY <1>1, <1>4 DEF Standing, AtUnchanged
  <2> QED BY <1>1, <1>4, <2>1, Returns DEF Return, Status
<1>5. CASE pc = "done" /\ ok /\ Return("Published")
  <2>1. todo # Drop2
    BY <1>1, NotOver
  <2>2. Bk = staged /\ Old = Missing
    BY <1>1, <1>5, <2>1 DEF Standing, AtDone, Kept
  <2> QED BY <1>1, <1>5, <2>2, Returns DEF Return, Status
<1> QED BY <1>2, <1>3, <1>4, <1>5 DEF Finish, At

-----------------------------------------------------------------------------
(* A reader opens the book. *)
LEMMA BeginLoadInv ==
  ASSUME IInv, BeginLoad
  PROVE  IInv' /\ Keeps(disk')
<1>1. /\ pc = "recovered" /\ todo = <<>> /\ ok /\ task' = "bind" /\ Sound(epub, slipped, disk, candidates) /\ Kept
      /\ clean \in BOOLEAN /\ UNCHANGED <<epub, slipped, disk, staged, clean>>
  <2>1. UNCHANGED disk
    BY DEF BeginLoad, Proceed, Return
  <2> QED BY <2>1 DEF BeginLoad, At, IInv, Control
<1>2. Old = Missing /\ Own /\ Opened
  BY <1>1, AtRecoveredOver
<1>3. /\ Bk' = Bk /\ Old' = Old /\ Idn' = Idn /\ Loaded' = Loaded /\ (Own' <=> Own)
      /\ (Secured' <=> Secured)
  BY <1>1, SameCard
<1>4. CASE Bk = Missing
  <2>1. Return("NoBook")
    BY <1>4 DEF BeginLoad, Exists, Bk
  <2> QED BY <1>1, <2>1, Returns DEF Return, Status, Tasks
<1>5. CASE Bk # Missing /\ epub
  <2>1. Proceed("bind", <<>>)
    BY <1>5 DEF BeginLoad, Exists, Bk
  <2>2. AtBind'
    BY <1>1, <1>2, <1>3, <1>5, <2>1 DEF AtBind, Proceed, Opened
  <2>3. Kept' /\ Standing'
    BY <1>1, <1>3, <2>1, <2>2 DEF Proceed, Standing, Kept
  <2> QED BY <1>1, <2>1, <2>3, Goes DEF Proceed, Label, Tasks, AfterFault
<1>6. CASE Bk # Missing /\ ~epub
  <2>1. Proceed("bound", <<>>)
    BY <1>6 DEF BeginLoad, Exists, Bk
  <2>2. AtBound'
    BY <1>1, <1>2, <1>3, <1>6, <2>1 DEF AtBound, Proceed, Own
  <2>3. Kept' /\ Standing'
    BY <1>1, <1>3, <2>1, <2>2 DEF Proceed, Standing, Kept
  <2> QED BY <1>1, <2>1, <2>3, Goes DEF Proceed, Label, Tasks, AfterFault
<1> QED BY <1>4, <1>5, <1>6

LEMMA BindInv ==
  ASSUME IInv, Bind
  PROVE  IInv' /\ Keeps(disk')
<1>1. /\ pc = "bind" /\ todo = <<>> /\ ok /\ AtBind /\ Kept /\ Sound(epub, slipped, disk, candidates)
      /\ clean \in BOOLEAN /\ UNCHANGED <<epub, slipped, disk, task, staged, clean>>
  <2>1. UNCHANGED disk
    BY DEF Bind, Proceed, Return
  <2> QED BY <2>1 DEF Bind, At, Handler, IInv, Control, Standing
<1>2. task = "bind" /\ epub /\ Bk # Missing /\ Old = Missing /\ Opened
  BY <1>1 DEF AtBind
<1>3. /\ Bk' = Bk /\ Old' = Old /\ Idn' = Idn /\ Bak' = Bak /\ Tmp' = Tmp /\ Loaded' = Loaded
      /\ (\A x : OwnedBy(slipped, disk', x) <=> OwnedBy(slipped, disk, x)) /\ (Mismatch' <=> Mismatch)
      /\ (Secured' <=> Secured)
  BY <1>1, SameCard
<1>4. /\ Bk \in Books /\ Idn \in Books \cup {Missing, Barrier} /\ Bak \in Books \cup {Missing}
      /\ Tmp \in Books \cup {Missing, Barrier, Torn}
      /\ Idn \in Books => Bak \in {Missing, Idn} /\ OwnedBy(slipped, disk, Idn)
      /\ Idn = Missing /\ Bak # Missing => OwnedBy(slipped, disk, Bak)
      /\ Idn = Missing /\ Bak = Missing => OwnedBy(slipped, disk, Bk)
  BY <1>1, <1>2, SoundFacts
<1>5. CASE LoadInvalid
  <2>1. Return("StateUnavailable") /\ Tmp = Torn
    BY <1>1, <1>5, LoadIs DEF Bind
  <2> QED BY <1>1, <1>2, <2>1, Returns DEF Return, Status, Tasks
<1>6. CASE ~LoadInvalid /\ Loaded = Missing
  <2>1. Proceed("adopt", <<>>)
    BY <1>6 DEF Bind
  <2>2. Unidentified(disk)
    BY <1>1, <1>4, <1>6, LoadIs, Distinct DEF Unidentified, Idn, Bak, Tmp
  <2>3. AtAdopt'
    BY <1>1, <1>2, <1>3, <2>1, <2>2 DEF AtAdopt, Proceed, Unidentified
  <2>4. Kept' /\ Standing'
    BY <1>1, <2>1, <2>3, KeptOn DEF Proceed, Standing, Recovery
  <2> QED BY <1>1, <1>2, <2>1, <2>4, Goes DEF Proceed, Label, Tasks, AfterFault
<1>7. CASE ~LoadInvalid /\ Loaded = Bk
  <2>1. Proceed("bound", <<>>)
    BY <1>2, <1>7 DEF Bind, Bk
  <2>2. OwnedBy(slipped, disk, Bk)
    BY <1>1, <1>4, <1>7, LoadIs, Distinct
  <2>3. AtBound'
    BY <1>1, <1>2, <1>3, <1>7, <2>1, <2>2 DEF AtBound, Proceed
  <2>4. Kept' /\ Standing'
    BY <1>1, <2>1, <2>3, KeptOn DEF Proceed, Standing, Recovery
  <2> QED BY <1>1, <1>2, <2>1, <2>4, Goes DEF Proceed, Label, Tasks, AfterFault
<1>8. CASE ~LoadInvalid /\ Loaded \notin {Missing, Bk}
  <2>1. Proceed("reset", <<>>)
    BY <1>8 DEF Bind, Bk
  <2>2. Foreign
    <3>1. Idn = Barrier => ~clean
      BY <1>2 DEF Opened
    <3> QED BY <1>1, <1>4, <1>8, <3>1, LoadIs, Distinct DEF Foreign
  <2>3. AtReset'
    BY <1>1, <1>2, <1>3, <1>8, <2>1, <2>2 DEF AtReset, Proceed, Foreign, Mismatch
  <2>4. Kept' /\ Standing'
    BY <1>1, <1>2, <1>3, <2>1, <2>3 DEF Proceed, Standing, Kept
  <2> QED BY <1>1, <1>2, <2>1, <2>4, Goes DEF Proceed, Label, Tasks, AfterFault
<1> QED BY <1>5, <1>6, <1>7, <1>8

LEMMA AdoptInv ==
  ASSUME IInv, Adopt
  PROVE  IInv' /\ Keeps(disk')
<1>1. /\ pc = "adopt" /\ todo = <<>> /\ ok /\ AtAdopt /\ Kept /\ Sound(epub, slipped, disk, candidates)
      /\ clean \in BOOLEAN /\ UNCHANGED <<epub, slipped, disk, task, staged, clean, result, candidates>>
      /\ pc' = "bound" /\ todo' = Save(Bk) /\ ok' = TRUE
  BY DEF Adopt, Proceed, At, Handler, IInv, Control, Standing, Bk
<1>2. task = "bind" /\ epub /\ Bk # Missing /\ Old = Missing /\ Idn = Missing /\ Bak = Missing
  <2>1. ~PuttingAway
    BY <1>1, NotOver
  <2> QED BY <1>1, <2>1 DEF AtAdopt, Unidentified, Idn, Bak
<1>3. PICK x \in Books : x = Bk
  BY <1>1, <1>2, SoundFacts
<1>4. todo' = SaveCalls(x, FALSE)
  <2>1. Usable("idn") = FALSE
    <3>1. ~Usable("idn")
      BY <1>1, <1>2, LoadIs
    <3> QED BY <3>1 DEF Usable
  <2>2. Save(x) = SaveCalls(x, Usable("idn"))
    BY <1>2, <1>3 DEF Save, Idn
  <2> QED BY <1>1, <1>3, <2>1, <2>2
<1>5. SavingNew(x, <<>>)'
  BY <1>1, <1>2, <1>3, <1>4, SaveDecides, Lists, Distinct
<1>6. Bk' = Bk /\ Old' = Old
  BY <1>1, SameCard
<1>7. AtBound'
  BY <1>1, <1>2, <1>3, <1>5, <1>6 DEF AtBound
<1>8. Kept' /\ Standing'
  BY <1>1, <1>7, KeptOn DEF Standing, Recovery
<1> QED BY <1>1, <1>2, <1>8, Goes DEF Label, Tasks, AfterFault

LEMMA BoundInv ==
  ASSUME IInv, Bound
  PROVE  IInv' /\ Keeps(disk')
<1>1. /\ pc = "bound" /\ todo = <<>> /\ ok /\ AtBound /\ Sound(epub, slipped, disk, candidates)
      /\ pc' = "reading" /\ candidates' = {Bk}
      /\ UNCHANGED <<epub, slipped, disk, task, todo, ok, staged, result, clean>>
  BY DEF Bound, At, IInv, Standing, Bk
<1>2. task = "bind" /\ Bk \in Books /\ Old = Missing /\ OwnedBy(slipped, disk, Bk) /\ (epub => Loaded = Bk)
  <2>1. Bk \in Books /\ <<>> \in Seq(Calls)
    BY <1>1, SoundFacts, Lists DEF AtBound
  <2>2. ~SavingNew(Bk, <<>>)
    BY <1>1, <2>1, NotOver
  <2> QED BY <1>1, <2>1, <2>2 DEF AtBound
<1>3. Bk # Missing
  BY <1>2, Distinct
<1>4. Whole(slipped', disk', candidates')
  BY <1>1, <1>2, <1>3 DEF Whole, Heir, Bk, Old
<1>5. Sound(epub', slipped', disk', candidates')
  BY <1>1, <1>4 DEF Sound
<1>6. Keeps(disk')
  BY <1>1, Distinct DEF Keeps
<1>7. Bk' = Bk /\ Old' = Old /\ Loaded' = Loaded /\ (OwnedBy(slipped, disk', Bk) <=> OwnedBy(slipped, disk, Bk))
  BY <1>1, SameCard
<1>8. AtReading'
  BY <1>1, <1>2, <1>3, <1>7 DEF AtReading
<1>9. Kept' /\ Standing' /\ RefusalHasCause'
  BY <1>1, <1>2, <1>7, <1>8 DEF Standing, Kept, Secured, RefusalHasCause
<1>10. Control'
  BY <1>1, <1>2 DEF IInv, Control, Label
<1> QED BY <1>5, <1>6, <1>9, <1>10 DEF IInv

LEMMA ReadOnInv ==
  ASSUME IInv, ReadOn
  PROVE  IInv' /\ Keeps(disk')
<1>1. /\ pc = "reading" /\ todo = <<>> /\ ok /\ AtReading /\ Sound(epub, slipped, disk, candidates)
      /\ pc' = "idle" /\ result' = "Read"
      /\ UNCHANGED <<epub, slipped, task, todo, ok, staged, clean, candidates>>
  BY DEF ReadOn, IInv, Standing, AtReading
<1>2. Bk # Missing /\ Old = Missing /\ OwnedBy(slipped, disk, Bk) /\ (epub => Loaded = Bk)
  BY <1>1 DEF AtReading
<1>3. PICK b \in Books : b = disk["book"]
  BY <1>1, <1>2, SoundFacts DEF Bk
<1>4. PICK written \in {{"cache"}, State} : disk' = [p \in Path |-> IF p \in written THEN b ELSE disk[p]]
  BY <1>3 DEF ReadOn
<1>5. /\ disk' = [p \in Path |-> disk'[p]]
      /\ disk'["book"] = b /\ disk'["old"] = Missing /\ disk'["staging"] = disk["staging"]
      /\ disk'["pending"] = disk["pending"] /\ disk'["idn"] = disk["idn"]
      /\ disk'["idnBak"] = disk["idnBak"] /\ disk'["idnTmp"] = disk["idnTmp"]
      /\ disk'["cache"] = b /\ disk'["clips"] \in {b, disk["clips"]} /\ disk'["marks"] \in {b, disk["marks"]}
  BY <1>2, <1>3, <1>4, Names DEF State, Old
<1>6. OwnedBy(slipped, disk', b)
  BY <1>2, <1>3, <1>5 DEF OwnedBy, State, Bk
<1>7. b # Missing /\ b # Barrier
  BY <1>3, Distinct
<1>8. Typed(disk')
  BY <1>1, <1>5 DEF Sound, Typed
<1>9. Whole(slipped', disk', candidates')
  BY <1>1, <1>2, <1>3, <1>5, <1>7 DEF Sound, Whole, Heir, Bk
<1>10. Marked(epub', slipped', disk')
  BY <1>1, <1>2, <1>3, <1>5, <1>6, <1>7 DEF Sound, Marked, Old
<1>11. Shape(epub', slipped', disk')
  <2>1. ~epub => Unidentified(disk')
    BY <1>1, <1>5 DEF Sound, Shape, Unidentified
  <2>2. /\ Idn # Missing => epub /\ Idn = b
        /\ Idn = Missing /\ Bak # Missing => epub /\ Bak = b
    BY <1>1, <1>2, <1>3, LoadIs, SoundFacts DEF Bk
  <2>3. Behind(slipped', disk') /\ Named(slipped', disk') /\ Between(slipped', disk')
    <3>1. Behind(slipped, disk) /\ Named(slipped, disk) /\ Between(slipped, disk)
      BY <1>1 DEF Sound, Shape
    <3>2. Behind(slipped', disk')
      BY <1>5, <1>7, <2>2, Distinct DEF Behind, Idn
    <3>3. Named(slipped', disk')
      BY <1>1, <1>5, <1>6, <2>2, <3>1, Distinct DEF Named, Idn
    <3>4. Between(slipped', disk')
      BY <1>1, <1>5, <1>6, <2>2, <3>1 DEF Between, Idn, Bak
    <3> QED BY <3>2, <3>3, <3>4
  <2>4. Nameless(epub', slipped', disk')
    BY <1>1, <1>3, <1>5, <1>6 DEF Sound, Shape, Nameless
  <2>5. disk'["cache"] # Missing
    BY <1>5, <1>7
  <2> QED BY <1>1, <2>1, <2>3, <2>4, <2>5 DEF Shape
<1>12. Keeps(disk')
  BY <1>5, <1>7 DEF Keeps
<1>13. Control' /\ Kept' /\ Standing' /\ RefusalHasCause'
  BY <1>1 DEF IInv, Control, Kept, Standing, RefusalHasCause, Resting, Label, Status
<1> QED BY <1>8, <1>9, <1>10, <1>11, <1>12, <1>13 DEF IInv, Sound

-----------------------------------------------------------------------------
(* The program. *)
LEMMA InitIInv ==
  Init => IInv
<1> SUFFICES ASSUME Init PROVE IInv
  OBVIOUS
<1>1. PICK b \in Books, owner \in Books \cup {Missing}, reader \in Books \cup {Missing}, idn \in BOOLEAN :
        /\ reader \in {b, Missing} /\ owner \in {b, Missing}
        /\ idn => epub /\ reader = b
        /\ disk = [p \in Path |-> CASE p = "book" -> owner
                                    [] p \in State -> reader
                                    [] p = "idn" /\ idn -> b
                                    [] OTHER -> Missing]
  BY DEF Init
<1>2. /\ epub \in BOOLEAN /\ task = "open" /\ pc = "idle" /\ todo = <<>> /\ ok = TRUE /\ staged \in Books
      /\ result = "none" /\ clean = TRUE /\ slipped = {} /\ candidates = {disk["book"]}
  BY DEF Init
<1>3. /\ disk = [p \in Path |-> disk[p]]
      /\ disk["book"] = owner /\ disk["old"] = Missing /\ disk["staging"] = Missing /\ disk["pending"] = Missing
      /\ disk["idn"] = (IF idn THEN b ELSE Missing) /\ disk["idnBak"] = Missing /\ disk["idnTmp"] = Missing
      /\ disk["cache"] = reader /\ disk["clips"] = reader /\ disk["marks"] = reader
  BY <1>1, Names DEF State
<1>4. b # Missing /\ b # Barrier /\ Missing # Had /\ Missing # New
  BY Distinct
<1>5. OwnedBy(slipped, disk, b)
  BY <1>1, <1>3, Distinct DEF OwnedBy, State
<1>6. Typed(disk)
  BY <1>3, Distinct DEF Typed
<1>7. Shape(epub, slipped, disk)
  <2>1. Behind(slipped, disk) /\ Named(slipped, disk) /\ Between(slipped, disk)
    BY <1>3, <1>4, <1>5, Distinct DEF Behind, Named, Between
  <2>2. Nameless(epub, slipped, disk)
    <3>1. disk["book"] # Missing => OwnedBy(slipped, disk, disk["book"])
      BY <1>1, <1>3, <1>5
    <3> QED BY <1>3, <3>1, Distinct DEF Nameless
  <2>3. ~epub \/ disk["cache"] = Missing => Unidentified(disk)
    BY <1>1, <1>3, <1>4 DEF Unidentified
  <2> QED BY <2>1, <2>2, <2>3 DEF Shape
<1>8. Marked(epub, slipped, disk)
  BY <1>1, <1>3, <1>4, <1>5 DEF Marked
<1>9. Whole(slipped, disk, candidates)
  BY <1>2, <1>3 DEF Whole, Heir
<1>10. Control
  BY <1>1, <1>2, <1>3 DEF Control, Label, Status
<1>11. Kept /\ Standing /\ RefusalHasCause
  BY <1>2 DEF Kept, Standing, Resting, RefusalHasCause
<1> QED BY <1>6, <1>7, <1>8, <1>9, <1>10, <1>11 DEF IInv, Sound

(* A step that changes nothing keeps everything. *)
LEMMA StutterIInv ==
  IInv /\ UNCHANGED vars => IInv' /\ Keeps(disk')
<1> SUFFICES ASSUME IInv, UNCHANGED vars PROVE IInv' /\ Keeps(disk')
  OBVIOUS
<1>1. /\ epub' = epub /\ disk' = disk /\ task' = task /\ pc' = pc /\ todo' = todo
      /\ ok' = ok /\ staged' = staged /\ result' = result /\ clean' = clean /\ slipped' = slipped
      /\ candidates' = candidates
  BY DEF vars
<1>2. /\ Bk' = Bk /\ Old' = Old /\ Stg' = Stg /\ Pnd' = Pnd
      /\ Idn' = Idn /\ Bak' = Bak /\ Tmp' = Tmp /\ Cch' = Cch
  BY <1>1 DEF Bk, Old, Stg, Pnd, Idn, Bak, Tmp, Cch
<1>3. (Late' <=> Late) /\ (Secured' <=> Secured) /\ (Stranded' <=> Stranded)
  BY <1>1, <1>2 DEF Late, Secured, Stranded
<1>4. /\ \A r, v : SavingNew(v, r)' <=> SavingNew(v, r)
      /\ \A r : (SavingOver(r)' <=> SavingOver(r)) /\ (Cancelling(r)' <=> Cancelling(r)) /\ (Hides(r)' <=> Hides(r))
  BY <1>1, <1>2, <1>3 DEF SavingNew, SavingOver, Cancelling, Hides
<1>5. /\ Loaded' = Loaded /\ (HasState' <=> HasState)
  BY <1>1 DEF Loaded, LoadedFrom, Usable, HasState
<1>6. /\ (Blocked' <=> Blocked) /\ (Mismatch' <=> Mismatch) /\ (Ours' <=> Ours) /\ (Opened' <=> Opened)
      /\ (Own' <=> Own) /\ (Foreign' <=> Foreign) /\ (FirstBook' <=> FirstBook)
  BY <1>1, <1>2, <1>5 DEF Blocked, Mismatch, Ours, Opened, Own, Foreign, FirstBook
<1>7. /\ (Barriered' <=> Barriered) /\ (NewMarked' <=> NewMarked) /\ (Undoing' <=> Undoing) /\ (Resting' <=> Resting)
  BY <1>1, <1>2, <1>5, <1>6 DEF Barriered, NewMarked, Undoing, Resting
<1>8. PuttingAway' <=> PuttingAway
  BY <1>1, <1>2, <1>4 DEF PuttingAway
<1>9. (AtRecovered => AtRecovered') /\ (AtRestored => AtRestored') /\ (AtReset => AtReset')
  BY <1>1, <1>2, <1>4, <1>5, <1>6 DEF AtRecovered, AtRestored, AtReset
<1>10. (AtFinalize => AtFinalize') /\ (AtAdopt => AtAdopt') /\ (AtBarrier => AtBarrier')
  BY <1>1, <1>2, <1>4, <1>6, <1>7, <1>8 DEF AtFinalize, AtAdopt, AtBarrier
<1>11. (AtMarked => AtMarked') /\ (AtRotated => AtRotated') /\ (AtPublished => AtPublished')
  BY <1>1, <1>2, <1>3, <1>6, <1>7 DEF AtMarked, AtRotated, AtPublished
<1>12. (AtUnrotated => AtUnrotated') /\ (AtWithdrawn => AtWithdrawn') /\ (AtCancelled => AtCancelled')
  BY <1>1, <1>2, <1>3, <1>4, <1>6, <1>7 DEF AtUnrotated, AtWithdrawn, AtCancelled
<1>13. (AtDone => AtDone') /\ (AtUnchanged => AtUnchanged') /\ (AtBind => AtBind')
  BY <1>1, <1>2, <1>6 DEF AtDone, AtUnchanged, AtBind
<1>14. (AtBound => AtBound') /\ (AtReading => AtReading')
  BY <1>1, <1>2, <1>4, <1>5 DEF AtBound, AtReading
<1>15. Standing'
  BY <1>1, <1>7, <1>9, <1>10, <1>11, <1>12, <1>13, <1>14 DEF IInv, Standing
<1>16. Control' /\ Kept' /\ RefusalHasCause'
  <2>1. Kept'
    BY <1>1, <1>2, <1>3 DEF IInv, Kept
  <2>2. RefusalHasCause'
    BY <1>1, <1>5 DEF IInv, RefusalHasCause, Exists, HadBook
  <2> QED BY <1>1, <1>7, <2>1, <2>2 DEF IInv, Control
<1>17. Sound(epub, slipped, disk, candidates)'
  BY <1>1 DEF IInv
<1>18. Keeps(disk')
  BY <1>1, Distinct DEF Keeps
<1> QED BY <1>15, <1>16, <1>17, <1>18 DEF IInv

(* Every step, of any handler. *)
LEMMA NextIInv ==
  IInv /\ [Next]_vars => IInv' /\ Keeps(disk')
<1> SUFFICES ASSUME IInv, [Next]_vars PROVE IInv' /\ Keeps(disk')
  OBVIOUS
<1>1. CASE UNCHANGED vars
  BY <1>1, StutterIInv
<1>2. ASSUME NEW b \in Books, Upload(b) \/ CopyOver(b) PROVE IInv' /\ Keeps(disk')
  BY <1>2, UploadInv, CopyOverInv
<1>3. CASE Open \/ Do \/ Fail \/ CallFailed \/ CannotDecide \/ PowerLoss
  BY <1>3, OpenInv, DoInv, FailInv, CallFailedInv, CannotDecideInv, PowerLossInv
<1>4. CASE RecoverRefuses \/ RecoverOther \/ RecoverEpub \/ RecoverUnreadable \/ Restored \/ Finalize \/ Reset
  BY <1>4, RecoverRefusesInv, RecoverOtherInv, RecoverEpubInv, RecoverUnreadableInv, RestoredInv, FinalizeInv, ResetInv
<1>5. CASE Stage \/ Mark \/ Rotate \/ Publish \/ Verify
  BY <1>5, StageInv, MarkInv, RotateInv, PublishInv, VerifyInv
<1>6. CASE Unpublish \/ Cancel \/ Unmark \/ Finish
  BY <1>6, UnpublishInv, CancelInv, UnmarkInv, FinishInv
<1>7. CASE BeginLoad \/ Bind \/ Adopt \/ Bound \/ ReadOn
  BY <1>7, BeginLoadInv, BindInv, AdoptInv, BoundInv, ReadOnInv
<1> QED BY <1>1, <1>2, <1>3, <1>4, <1>5, <1>6, <1>7 DEF Next

(* The inductive invariant: at every call, of whatever handler and however *)
(* it was reached, the card is one that the recovery of this path explains. *)
THEOREM Invariant == Spec => []IInv
<1> USE DEF Spec
<1>1. Init => IInv
  BY InitIInv
<1>2. IInv /\ [Next]_vars => IInv'
  BY NextIInv
<1> QED BY <1>1, <1>2, PTL

(* Every file, label and history variable keeps its kind of value: no      *)
(* handler leaves something on the card that another cannot name.          *)
THEOREM TypeCorrect == Spec => []TypeOK
<1>1. IInv => TypeOK
  <2> SUFFICES ASSUME IInv PROVE TypeOK
    OBVIOUS
  <2>1. Typed(disk)
    BY DEF IInv, Sound
  <2>2. ASSUME NEW p \in Path
        PROVE  disk[p] \in {Missing} \cup
                 (CASE p \in {"book", "old"} -> Books
                    [] p = "staging" -> Books \cup {Torn}
                    [] p = "pending" -> {Torn, Had, New}
                    [] p \in {"idn", "idnBak"} -> Books \cup {Barrier}
                    [] p = "idnTmp" -> Books \cup {Barrier, Torn}
                    [] p = "cache" -> Books \cup {Directory}
                    [] p = "clips" -> Books
                    [] p = "marks" -> Books \cup {Tombstone})
    <3>1. CASE p \in {"book", "old", "staging", "pending"}
      BY <2>1, <3>1 DEF Typed
    <3>2. CASE p \in Identity
      BY <2>1, <3>2 DEF Typed, Identity
    <3>3. CASE p \in State
      BY <2>1, <3>3 DEF Typed, State
    <3> QED BY <3>1, <3>2, <3>3 DEF Path
  <2> QED BY <2>2 DEF TypeOK, IInv, Control
<1> QED BY <1>1, Invariant, PTL

(* However a publication failed or was cut off, a reader never shows a     *)
(* book with the progress, clippings or bookmarks of another: unless the   *)
(* code was told that the upload had not become the book, and it had.      *)
THEOREM StateIsOwn == Spec => []NeverInherits
<1>1. IInv => NeverInherits
  BY DEF IInv, Standing, AtReading, OwnedBy, NeverInherits, Bk
<1> QED BY <1>1, Invariant, PTL

(* The book acknowledged or shown last, or one uploaded since, is on the   *)
(* card whatever failed, and recovery makes the path of it: unless the     *)
(* code was told that the book had not been renamed to old, and it had.    *)
THEOREM BookSurvives == Spec => []OldOrNewBook
<1>1. IInv => OldOrNewBook
  <2> SUFFICES ASSUME IInv PROVE OldOrNewBook
    OBVIOUS
  <2>1. Survivor = Heir(disk)
    BY DEF Survivor, Heir, Exists
  <2>2. Survivor \in candidates /\ (Old # Missing => HadBook \/ "rotated" \in slipped)
    BY <2>1 DEF IInv, Sound, Whole, HadBook, Old
  <2>3. Authority # Survivor => Old # Missing /\ ~HadBook
    BY DEF Authority, Survivor, Exists, Old
  <2> QED BY <2>2, <2>3 DEF OldOrNewBook
<1> QED BY <1>1, Invariant, PTL

(* An undisturbed handler refuses only over a file that was cut off, over  *)
(* an old book whose rename was reported as failed and was not, or, if it  *)
(* publishes, over a book whose identity is not the one that is kept.      *)
THEOREM RefusedForCause == Spec => []RefusalHasCause
<1>1. IInv => RefusalHasCause
  BY DEF IInv
<1> QED BY <1>1, Invariant, PTL

(* No step of an undisturbed opening puts away the state of the book that  *)
(* the identity, behind a barrier or not, says it belongs to.              *)
THEOREM OwnStateIsKept == Spec => KeepsOwnState
<1>1. IInv /\ [Next]_vars =>
        [clean /\ task \in {"open", "bind"} /\ disk["cache"] \in Books /\ disk'["cache"] = Missing
           => disk["book"] \notin {disk["idn"], disk["idnBak"]}]_vars
  BY NextIInv DEF Keeps, Bk, Idn, Bak
<1> QED BY <1>1, Invariant, PTL DEF Spec, KeepsOwnState

(* An old book is never without the marker that proves it ours, so that    *)
(* recovery takes no backup for somebody else's file: unless it is the     *)
(* book of a rename that was reported as failed, and was not.              *)
THEOREM BackupIsOwned == Spec => [](Exists(disk, "old") => HadBook \/ "rotated" \in slipped)
<1>1. IInv => (Exists(disk, "old") => HadBook \/ "rotated" \in slipped)
  BY DEF IInv, Sound, Whole, Exists, HadBook
<1> QED BY <1>1, Invariant, PTL

(* decideNonEpubReplacementRecovery() has an answer for every card that a  *)
(* publication leaves: it fails closed for none.                           *)
THEOREM RecoveryHasAnAnswer == Spec => [](OwnsBackup /\ ~epub => NonEpubRecovery # "FailClosed")
<1>1. IInv => (OwnsBackup /\ ~epub => NonEpubRecovery # "FailClosed")
  <2> SUFFICES ASSUME IInv, OwnsBackup, ~epub PROVE NonEpubRecovery # "FailClosed"
    OBVIOUS
  <2> DEFINE final == Exists(disk, "book")
             old == Exists(disk, "old")
  <2>1. HadBook => final \/ old
    BY DEF IInv, Sound, Marked, Exists, HadBook
  <2>2. old => HadBook
    BY DEF OwnsBackup
  <2>3. \/ ~old /\ HadBook = final
        \/ old /\ ~final /\ HadBook
        \/ final /\ HadBook = old
    <3> final \in BOOLEAN /\ old \in BOOLEAN /\ HadBook \in BOOLEAN
      BY DEF Exists, HadBook
    <3> HIDE DEF final, old
    <3> QED BY <2>1, <2>2
  <2> QED BY <2>3 DEF NonEpubRecovery
<1> QED BY <1>1, Invariant, PTL
=============================================================================
