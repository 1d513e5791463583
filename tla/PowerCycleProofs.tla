-------------------------- MODULE PowerCycleProofs --------------------------
(***************************************************************************)
(* Theorems about OtaBoot, for any number of updates, and about PowerCycle *)
(* for any set of pictures: it is a behaviour of OtaBoot and of WakeFrame  *)
(* at once, and what the two promise holds of it.                          *)
(*                                                                         *)
(* That the next start is sound is not inductive: a trial may fail, and    *)
(* then the start after the next one counts.  The invariant follows the    *)
(* image that the device falls back to, whatever becomes of the trial: it  *)
(* stays confirmed and whole while the other partition is overwritten, and *)
(* its record is never the one that is erased.                             *)
(***************************************************************************)
EXTENDS PowerCycle, TLAPS

(* The partition that is started when no record is on trial or new. *)
Valid(s) == record[s].seq # 0 /\ record[s].state = "valid"

Fallback ==
  IF Valid(1) /\ (Valid(0) => record[1].seq > record[0].seq) THEN Partition(record[1].seq)
  ELSE IF Valid(0) THEN Partition(record[0].seq)
  ELSE 0

Trial(s) == record[s].seq # 0 /\ record[s].state \in {"new", "pending"}

(* A record with this number would be followed rather than the one in s. *)
Beats(seq, s) == seq > 0 /\ (Usable(record[s]) => seq > record[s].seq)

(* Some image is whole, and the one that runs. *)
Images ==
  /\ \E p \in Slot : image[p] = "whole"
  /\ running # Off => image[running] = "whole"
  /\ running = Off => install.pc = "none" /\ confirm.pc = "none"

Retained == proven[Fallback] /\ image[Fallback] = "whole"

(* What is tried is the other image, and the latest record names it. *)
Tryout ==
  \A s \in Slot : Trial(s) =>
    /\ Partition(record[s].seq) = Other(Fallback)
    /\ image[Other(Fallback)] = "whole" /\ ~proven[Other(Fallback)]
    /\ ~Trial(Other(s))
    /\ Beats(record[s].seq, Other(s))

(* A confirmed image that runs is the one to fall back to. *)
Home ==
  running # Off /\ proven[running] =>
    /\ Fallback = running /\ confirm.pc # "write"
    /\ \A s \in Slot : Trial(s) => install.pc = "restart" /\ record[s].state = "new"

(* One that is not confirmed does not install: else "rash". *)
Guest ==
  running # Off /\ ~proven[running] =>
    /\ install.pc = "none"
    /\ \A s \in Slot : Trial(s) => record[s].state = "pending"

Installing ==
  /\ install.pc \in {"flash", "switch", "write"} => ~proven[Other(running)]
  /\ install.pc \in {"switch", "write"} => image[Other(running)] = "whole"
  /\ install.pc = "write" =>
       /\ install.slot \in Slot /\ record[install.slot] = Erased
       /\ Partition(install.seq) = Other(running)
       /\ Beats(install.seq, Other(install.slot))

Confirming ==
  confirm.pc = "write" =>
    /\ confirm.slot \in Slot /\ record[confirm.slot] = Erased
    /\ \A s \in Slot : ~Trial(s)
    /\ Partition(confirm.seq) = running
    /\ Beats(confirm.seq, Other(confirm.slot))

Careful == Retained /\ Tryout /\ Home /\ Guest /\ Installing /\ Confirming

IInv == OtaTypeOK /\ Images /\ (rash \/ Careful)

-----------------------------------------------------------------------------
LEMMA PartitionIsSlot == ASSUME NEW seq \in Nat PROVE Partition(seq) \in Slot
BY DEF Partition, Slot

(* The next number names the partition it is for, and is above the last. *)
LEMMA NextSeqNames ==
  ASSUME NEW seq \in Nat, NEW dest \in Slot
  PROVE  /\ NextSeq(seq, dest) \in Nat /\ NextSeq(seq, dest) > seq
         /\ Partition(NextSeq(seq, dest)) = dest
BY DEF NextSeq, Partition, Slot

LEMMA FallbackIsSlot == OtaTypeOK => Fallback \in Slot
BY PartitionIsSlot, SeqAssumption DEF OtaTypeOK, Record, Fallback, Slot

(* The record in use, of records that are what their type says. *)
LEMMA ActiveIs ==
  ASSUME NEW rec \in [Slot -> Record]
  PROVE  /\ ActiveSlot(rec) \in Slot \cup {None}
         /\ TargetSlot(rec) \in Slot
         /\ Rejected(rec) \in [Slot -> Record]
         /\ Tried(rec) \in [Slot -> Record]
         /\ ActiveSeq(rec) \in 0..MaxSeq
         /\ Named(rec) \in Slot
<1>1. ActiveSlot(rec) \in Slot \cup {None} /\ TargetSlot(rec) \in Slot
  BY DEF ActiveSlot, TargetSlot, Slot
<1>2. Rejected(rec) \in [Slot -> Record]
  BY DEF Rejected, Record, State
<1>3. Tried(rec) \in [Slot -> Record]
  BY DEF Tried, Record, State
<1>4. ActiveSeq(rec) \in 0..MaxSeq
  BY <1>1, SeqAssumption DEF ActiveSeq, Record
<1>5. Named(rec) \in Slot
  BY <1>1, PartitionIsSlot, SeqAssumption DEF Named, Record, Slot
<1> QED BY <1>1, <1>2, <1>3, <1>4, <1>5

LEMMA NextBootIsWhole ==
  OtaTypeOK /\ Images => NextBoot \in Slot /\ image[NextBoot] = "whole"
<1> SUFFICES ASSUME OtaTypeOK, Images PROVE NextBoot \in Slot /\ image[NextBoot] = "whole"
  OBVIOUS
<1>1. Named(Rejected(record)) \in Slot
  BY ActiveIs DEF OtaTypeOK
<1> QED BY <1>1 DEF NextBoot, Images, Other, Slot

-----------------------------------------------------------------------------
LEMMA InitIInv == Init => IInv
<1> SUFFICES ASSUME Init PROVE IInv
  OBVIOUS
<1>1. Fallback = 0 /\ \A s \in Slot : ~Trial(s)
  BY DEF Init, Fallback, Valid, Trial, Erased, Slot
<1>2. OtaTypeOK
  <2>1. Idle \in Work /\ Erased \in Record
    BY SeqAssumption DEF Idle, Work, Pc, None, Slot, Erased, Record, State
  <2> QED BY <2>1 DEF Init, OtaTypeOK, Slot
<1>3. Images
  BY DEF Init, Images, Slot, Off
<1>4. Careful
  BY <1>1 DEF Init, Careful, Retained, Tryout, Home, Guest, Installing, Confirming, Idle, Slot
<1> QED BY <1>2, <1>3, <1>4 DEF IInv

LEMMA TypeStep == OtaTypeOK /\ [Next]_ota => OtaTypeOK'
<1> SUFFICES ASSUME OtaTypeOK, [Next]_ota PROVE OtaTypeOK'
  OBVIOUS
<1> USE SeqAssumption DEF OtaTypeOK
<1>0. Erased \in Record /\ Idle \in Work
  BY DEF Erased, Record, State, Idle, Work, Pc
<1>1. ASSUME NEW up \in BOOLEAN, Boot(up) PROVE OtaTypeOK'
  <2>1. record' \in [Slot -> Record]
    BY <1>1, ActiveIs DEF Boot
  <2>2. NextBoot \in Slot
    <3>1. Named(Rejected(record)) \in Slot
      BY ActiveIs
    <3> QED BY <3>1 DEF NextBoot, Other, Slot
  <2> QED BY <1>1, <2>1, <2>2 DEF Boot
<1>2. ASSUME NEW s \in Slot, BootCut(s) PROVE OtaTypeOK'
  BY <1>0, <1>2 DEF BootCut
<1>3. CASE Stop
  BY <1>0, <1>3 DEF Stop
<1>4. CASE Begin
  <2>1. install' \in Work
    BY <1>4, <1>0 DEF Begin, Idle, Work, Pc
  <2> QED BY <1>4, <2>1 DEF Begin
<1>5. CASE Flashed
  <2>1. install' \in Work
    BY <1>5 DEF Flashed, Work, Pc
  <2> QED BY <1>5, <2>1 DEF Flashed
<1>6. CASE EraseRecord
  <2>1. ActiveSeq(record) \in Nat /\ TargetSlot(record) \in Slot
    BY ActiveIs
  <2>2. NextSeq(ActiveSeq(record), Destination(running)) \in Int
    BY <2>1 DEF NextSeq
  <2>3. NextSeq(ActiveSeq(record), Destination(running)) > 0
    BY <2>1 DEF NextSeq
  <2>4. install' \in Work
    BY <1>6, <2>1, <2>2, <2>3 DEF EraseRecord, Work, Pc
  <2> QED BY <1>0, <1>6, <2>4 DEF EraseRecord
<1>7. CASE WriteRecord
  <2>1. install' \in Work /\ [seq |-> install.seq, state |-> "new"] \in Record
    BY <1>7 DEF WriteRecord, Idle, Work, Pc, Record, State
  <2> QED BY <1>7, <2>1 DEF WriteRecord
<1>8. CASE InstallFails
  BY <1>0, <1>8 DEF InstallFails
<1>9. CASE ConfirmErase
  <2>1. ActiveSlot(record) \in Slot
    BY <1>9, ActiveIs DEF ConfirmErase, OnTrial
  <2>2. confirm' \in Work
    BY <1>9, <2>1 DEF ConfirmErase, Work, Pc, Record
  <2> QED BY <1>0, <1>9, <2>2 DEF ConfirmErase
<1>10. CASE ConfirmWrite
  <2>1. [seq |-> confirm.seq, state |-> "valid"] \in Record
    BY DEF Work, Record, State
  <2> QED BY <1>0, <1>10, <2>1 DEF ConfirmWrite
<1>11. CASE ConfirmFails
  BY <1>0, <1>11 DEF ConfirmFails
<1>12. CASE UNCHANGED ota
  BY <1>12 DEF ota
<1> QED BY <1>1, <1>2, <1>3, <1>4, <1>5, <1>6, <1>7, <1>8, <1>9, <1>10, <1>11, <1>12
        DEF Next, InstallFromCard, InstallRelease

LEMMA ImagesStep == OtaTypeOK /\ Images /\ [Next]_ota => Images'
<1> SUFFICES ASSUME OtaTypeOK, Images, [Next]_ota PROVE Images'
  OBVIOUS
<1> USE DEF Images, OtaTypeOK
<1>1. ASSUME NEW up \in BOOLEAN, Boot(up) PROVE Images'
  BY <1>1, NextBootIsWhole DEF Boot, Off
<1>2. ASSUME NEW s \in Slot, BootCut(s) PROVE Images'
  BY <1>2 DEF BootCut
<1>3. CASE Stop
  BY <1>3 DEF Stop, Idle
<1>4. CASE Begin
  <2>1. image'[running] = "whole" /\ running \in Slot
    BY <1>4 DEF Begin, Destination, Other, Slot, Off
  <2> QED BY <1>4, <2>1 DEF Begin
<1>5. CASE Flashed
  BY <1>5 DEF Flashed, Destination, Other, Slot, Off
<1>6. CASE EraseRecord
  BY <1>6 DEF EraseRecord
<1>7. CASE WriteRecord
  BY <1>7 DEF WriteRecord
<1>8. CASE InstallFails
  BY <1>8 DEF InstallFails
<1>9. CASE ConfirmErase
  BY <1>9 DEF ConfirmErase
<1>10. CASE ConfirmWrite \/ ConfirmFails
  BY <1>10 DEF ConfirmWrite, ConfirmFails
<1>11. CASE UNCHANGED ota
  BY <1>11 DEF ota
<1> QED BY <1>1, <1>2, <1>3, <1>4, <1>5, <1>6, <1>7, <1>8, <1>9, <1>10, <1>11
        DEF Next, InstallFromCard, InstallRelease

-----------------------------------------------------------------------------
(* The record in use is the latest of those that count. *)
LEMMA ActiveIsLatest ==
  ASSUME NEW rec \in [Slot -> Record], NEW s \in Slot
  PROVE  /\ ActiveSlot(rec) = None => ~Usable(rec[s])
         /\ ActiveSlot(rec) # None => ActiveSlot(rec) \in Slot /\ Usable(rec[ActiveSlot(rec)])
         /\ Usable(rec[s]) => ActiveSlot(rec) # None /\ rec[ActiveSlot(rec)].seq >= rec[s].seq
         /\ TargetSlot(rec) # ActiveSlot(rec)
BY SeqAssumption DEF ActiveSlot, TargetSlot, Usable, Slot, None, Record

(* The record on trial is the one in use while it is not rejected. *)
LEMMA TrialIsActive ==
  ASSUME OtaTypeOK, Tryout, NEW s \in Slot, Trial(s)
  PROVE  ActiveSlot(record) = s /\ (record[s].state = "new" => ActiveSlot(Rejected(record)) = s)
<1>1. \A t \in Slot : record[t].seq \in Int
  BY SeqAssumption DEF OtaTypeOK, Record
<1>2. Usable(record[s])
  BY DEF Trial, Usable
<1>3. ~Trial(Other(s)) /\ (Usable(record[Other(s)]) => record[s].seq > record[Other(s)].seq)
  BY DEF Tryout, Beats
<1>4. ActiveSlot(record) = s
  BY <1>1, <1>2, <1>3 DEF ActiveSlot, Slot, Other
<1>5. ASSUME record[s].state = "new" PROVE ActiveSlot(Rejected(record)) = s
  <2>1. Rejected(record)[s] = record[s] /\ Rejected(record)[Other(s)] = record[Other(s)]
    BY <1>3, <1>5 DEF Rejected, Trial, Slot, Other
  <2> QED BY <1>1, <1>2, <1>3, <2>1 DEF ActiveSlot, Slot, Other
<1> QED BY <1>4, <1>5

(* After a start the image on trial, if it was new, runs next; else the    *)
(* one to fall back to.                                                    *)
LEMMA NextBootIs ==
  ASSUME OtaTypeOK, Retained, Tryout
  PROVE  /\ \A s \in Slot : Trial(s) /\ record[s].state = "new" => NextBoot = Other(Fallback)
         /\ (\A s \in Slot : Trial(s) => record[s].state # "new") => NextBoot = Fallback
<1> USE DEF OtaTypeOK
<1>1. ASSUME NEW s \in Slot, Trial(s), record[s].state = "new" PROVE NextBoot = Other(Fallback)
  <2>1. ActiveSlot(Rejected(record)) = s /\ s # None
    BY <1>1, TrialIsActive DEF Slot, None
  <2>2. Rejected(record)[s] = record[s]
    BY <1>1 DEF Rejected
  <2>3. Named(Rejected(record)) = Other(Fallback)
    BY <1>1, <2>1, <2>2 DEF Named, Tryout
  <2> QED BY <1>1, <2>3 DEF NextBoot, Tryout
<1>2. ASSUME \A s \in Slot : Trial(s) => record[s].state # "new" PROVE NextBoot = Fallback
  <2> DEFINE rec == Rejected(record)
  <2>1. \A s \in Slot : record[s].seq \in Int /\ rec[s].seq = record[s].seq
    BY SeqAssumption DEF Rejected, Record
  <2>2. \A s \in Slot : Usable(rec[s]) <=> Valid(s)
    BY <1>2 DEF Rejected, Usable, Valid, Trial, Record, State
  <2>3. Named(rec) = Fallback
    BY <2>1, <2>2 DEF Named, ActiveSlot, Fallback, Slot, None
  <2> QED BY <2>3 DEF NextBoot, Retained
<1> QED BY <1>1, <1>2

(* Records that are not valid do not count for the fallback. *)
LEMMA FallbackKept ==
  ASSUME \A s \in Slot : /\ Valid(s)' <=> Valid(s)
                         /\ Valid(s) => record'[s].seq = record[s].seq
  PROVE  Fallback' = Fallback
BY DEF Fallback, Slot

(* What the bootloader does to a record. *)
LEMMA StartedIs ==
  ASSUME NEW rec \in [Slot -> Record], NEW s \in Slot
  PROVE  /\ Rejected(rec)[s].seq = rec[s].seq
         /\ Rejected(rec)[s].state =
              IF rec[s].seq # 0 /\ rec[s].state = "pending" THEN "aborted" ELSE rec[s].state
         /\ Tried(rec)[s].seq = rec[s].seq
         /\ Tried(rec)[s].state =
              IF s = ActiveSlot(rec) /\ rec[s].state = "new" THEN "pending" ELSE rec[s].state
<1>1. /\ Rejected(rec)[s].seq = rec[s].seq
      /\ Rejected(rec)[s].state =
           IF rec[s].seq # 0 /\ rec[s].state = "pending" THEN "aborted" ELSE rec[s].state
  BY DEF Rejected, Record
<1>2. s # None
  BY DEF Slot, None
<1>3. CASE ActiveSlot(rec) # None /\ rec[ActiveSlot(rec)].state = "new"
  <2>1. Tried(rec) = [rec EXCEPT ![ActiveSlot(rec)].state = "pending"]
    BY <1>3 DEF Tried
  <2> QED BY <1>1, <1>3, <2>1 DEF Record
<1>4. CASE ~(ActiveSlot(rec) # None /\ rec[ActiveSlot(rec)].state = "new")
  <2>1. Tried(rec) = rec
    BY <1>4 DEF Tried
  <2> QED BY <1>1, <1>2, <1>4, <2>1
<1> QED BY <1>3, <1>4

LEMMA BootIsCareful ==
  ASSUME OtaTypeOK, Images, Careful, NEW up \in BOOLEAN, Boot(up) PROVE Careful'
<1> USE DEF OtaTypeOK, Careful
<1> DEFINE rec == Rejected(record)
<1>1. record' = Tried(rec) /\ running' \in {Off, NextBoot} /\ running = Off
      /\ UNCHANGED <<image, proven, install, confirm>>
  BY DEF Boot
<1>2. rec \in [Slot -> Record]
  BY ActiveIs
<1>3. \A s \in Slot : record'[s].seq = record[s].seq
  BY <1>1, <1>2, StartedIs
<1>4. \A s \in Slot : Valid(s)' <=> Valid(s)
  BY <1>1, <1>2, <1>3, StartedIs DEF Valid
<1>5. Fallback' = Fallback
  BY <1>3, <1>4, FallbackKept
<1>6. \A s \in Slot : Trial(s)' => Trial(s) /\ record[s].state = "new" /\ record'[s].state = "pending"
  <2>1. ASSUME NEW s \in Slot, Trial(s)' PROVE Trial(s) /\ record[s].state = "new"
    BY <1>1, <1>2, <1>3, <2>1, StartedIs DEF Trial
  <2>2. ASSUME NEW s \in Slot, Trial(s)' PROVE record'[s].state = "pending"
    <3>1. ActiveSlot(rec) = s /\ s # None
      BY <2>1, <2>2, TrialIsActive DEF Slot, None
    <3>2. rec[s].state = "new"
      BY <2>1, <2>2 DEF Rejected
    <3> QED BY <1>1, <1>2, <3>1, <3>2 DEF Tried
  <2> QED BY <2>1, <2>2
<1>7. Tryout'
  <2>1. \A s \in Slot : Usable(record[s])' => Usable(record[s])
    BY <1>1, <1>2, <1>3, StartedIs DEF Usable
  <2>2. \A s \in Slot : Other(s) \in Slot
    BY DEF Other, Slot
  <2> QED BY <1>1, <1>3, <1>5, <1>6, <2>1, <2>2 DEF Tryout, Beats
<1>8. running' # Off => (proven[running'] => running' = Fallback /\ \A s \in Slot : ~Trial(s)')
  BY <1>1, <1>6, NextBootIs DEF Tryout
<1>9. install.pc = "none" /\ confirm.pc = "none"
  BY <1>1 DEF Images
<1> QED BY <1>1, <1>5, <1>6, <1>7, <1>8, <1>9 DEF Retained, Home, Guest, Installing, Confirming

(* Installing overwrites the image that is not running, and its record.    *)
LEMMA InstallIsCareful ==
  ASSUME OtaTypeOK, Images, Careful, ~rash',
         Begin \/ Flashed \/ EraseRecord \/ WriteRecord \/ InstallFails
  PROVE  Careful'
<1> USE DEF OtaTypeOK, Careful
<1>1. /\ running \in Slot /\ running # Off /\ Other(running) \in Slot
      /\ Other(running) # running /\ running' = running /\ Other(Other(running)) = running
  BY DEF Begin, Flashed, EraseRecord, WriteRecord, InstallFails, Images, Slot, Off, Other
<1>2. proven[running] /\ Fallback = running
  BY <1>1 DEF Begin, Flashed, EraseRecord, WriteRecord, InstallFails, Home, Guest, Idle
<1>3. confirm.pc # "write" /\ confirm' = confirm
  BY <1>1, <1>2 DEF Begin, Flashed, EraseRecord, WriteRecord, InstallFails, Home
<1>4. \A s \in Slot : ~Trial(s)
  BY <1>1, <1>2 DEF Begin, Flashed, EraseRecord, WriteRecord, InstallFails, Home, Idle
<1>5. CASE Begin
  <2>1. Fallback' = Fallback /\ \A s \in Slot : ~Trial(s)'
    BY <1>4, <1>5 DEF Begin, Fallback, Valid, Trial
  <2>2. proven'[running] /\ ~proven'[Other(running)] /\ image'[running] = "whole"
    BY <1>1, <1>2, <1>5 DEF Begin, Destination, Images
  <2>3. install'.pc = "flash"
    BY <1>5 DEF Begin, Idle
  <2> QED BY <1>1, <1>2, <1>3, <2>1, <2>2, <2>3
          DEF Retained, Tryout, Home, Guest, Installing, Confirming
<1>6. CASE Flashed
  <2>1. Fallback' = Fallback /\ \A s \in Slot : ~Trial(s)'
    BY <1>4, <1>6 DEF Flashed, Fallback, Valid, Trial
  <2>2. image'[running] = "whole" /\ image'[Other(running)] = "whole" /\ proven' = proven
    BY <1>1, <1>2, <1>6 DEF Flashed, Destination, Images
  <2>3. install.pc = "flash" /\ install'.pc = "switch"
    BY <1>6 DEF Flashed, Work
  <2> QED BY <1>1, <1>2, <1>3, <2>1, <2>2, <2>3
          DEF Retained, Tryout, Home, Guest, Installing, Confirming
<1>7. CASE EraseRecord
  <2> DEFINE target == TargetSlot(record)
             active == ActiveSlot(record)
             seq == NextSeq(ActiveSeq(record), Other(running))
  <2>1. /\ target \in Slot /\ target # active /\ ActiveSeq(record) \in Nat
        /\ Other(target) \in Slot /\ Other(target) # target /\ active \in Slot \cup {None}
    BY ActiveIs, ActiveIsLatest, SeqAssumption DEF Slot, Other
  <2>2. /\ record' = [record EXCEPT ![target] = Erased]
        /\ install' = [pc |-> "write", slot |-> target, seq |-> seq]
        /\ install.pc = "switch" /\ UNCHANGED <<image, proven>>
    BY <1>7 DEF EraseRecord, Destination
  <2>3. record'[target] = Erased /\ record'[Other(target)] = record[Other(target)]
    BY <2>1, <2>2
  <2>4. \A s \in Slot : ~Trial(s)'
    BY <1>4, <2>1, <2>3 DEF Trial, Erased, Slot, Other
  <2>5. \A s \in Slot : record[s].seq \in Int /\ (Usable(record[s]) <=> Valid(s))
    BY <1>4, SeqAssumption DEF Trial, Usable, Valid, Record, State
  <2>6. Fallback' = Fallback
    BY <2>1, <2>3, <2>5, ActiveIsLatest
       DEF ActiveSlot, TargetSlot, Fallback, Valid, Slot, None, Other, Erased
  <2>7. seq \in Nat /\ seq > ActiveSeq(record) /\ Partition(seq) = Other(running)
    BY <1>1, <2>1, NextSeqNames
  <2>8. Usable(record[Other(target)]) => seq > record[Other(target)].seq
    <3> SUFFICES ASSUME Usable(record[Other(target)]) PROVE seq > record[Other(target)].seq
      OBVIOUS
    <3>1. active # None
      BY <2>1, ActiveIsLatest
    <3>2. active = Other(target)
      BY <2>1, <3>1 DEF Slot, Other, None
    <3> QED BY <2>7, <3>1, <3>2 DEF ActiveSeq
  <2>9. Beats(install.seq, Other(install.slot))'
    BY <2>1, <2>2, <2>3, <2>7, <2>8 DEF Beats, Usable
  <2> QED BY <1>1, <1>2, <1>3, <2>1, <2>2, <2>3, <2>4, <2>6, <2>7, <2>9
          DEF Retained, Tryout, Home, Guest, Installing, Confirming
<1>8. CASE WriteRecord
  <2> DEFINE slot == install.slot
             r == [seq |-> install.seq, state |-> "new"]
  <2>1. /\ install.pc = "write" /\ record' = [record EXCEPT ![slot] = r]
        /\ install' = [Idle EXCEPT !.pc = "restart"] /\ UNCHANGED <<image, proven>>
    BY <1>8 DEF WriteRecord
  <2>2. /\ slot \in Slot /\ record[slot] = Erased /\ Partition(install.seq) = Other(running)
        /\ Beats(install.seq, Other(slot)) /\ image[Other(running)] = "whole"
        /\ ~proven[Other(running)]
    BY <2>1 DEF Installing
  <2>3. Other(slot) \in Slot /\ Other(slot) # slot
    BY <2>2 DEF Other, Slot
  <2>4. record'[slot] = r /\ record'[Other(slot)] = record[Other(slot)]
    BY <2>1, <2>2, <2>3
  <2>5. Fallback' = Fallback
    <3>1. \A s \in Slot : s = slot \/ s = Other(slot)
      BY <2>2 DEF Other, Slot
    <3> QED BY <2>2, <2>4, <3>1, FallbackKept DEF Valid, Erased
  <2>6. \A s \in Slot : Trial(s)' => s = slot
    BY <1>4, <2>2, <2>4 DEF Trial, Other, Slot
  <2>7. Tryout'
    BY <1>1, <1>2, <2>1, <2>2, <2>3, <2>4, <2>5, <2>6 DEF Tryout, Beats
  <2>8. install'.pc = "restart"
    BY <2>1 DEF Idle
  <2> QED BY <1>1, <1>2, <1>3, <2>1, <2>4, <2>5, <2>6, <2>7, <2>8
          DEF Retained, Home, Guest, Installing, Confirming
<1>9. CASE InstallFails
  <2>1. Fallback' = Fallback /\ \A s \in Slot : ~Trial(s)'
    BY <1>4, <1>9 DEF InstallFails, Fallback, Valid, Trial
  <2>2. install'.pc = "none" /\ UNCHANGED <<image, proven>>
    BY <1>9 DEF InstallFails, Idle
  <2> QED BY <1>1, <1>2, <1>3, <2>1, <2>2
          DEF Retained, Tryout, Home, Guest, Installing, Confirming
<1> QED BY <1>5, <1>6, <1>7, <1>8, <1>9

(* Confirming rewrites the record of the trial, and changes the fallback.  *)
LEMMA ConfirmIsCareful ==
  ASSUME OtaTypeOK, Images, Careful, ConfirmErase \/ ConfirmWrite \/ ConfirmFails
  PROVE  Careful'
<1> USE DEF OtaTypeOK, Careful
<1>1. CASE ConfirmErase
  <2> DEFINE s0 == ActiveSlot(record)
  <2>1. /\ s0 \in Slot /\ Trial(s0) /\ Partition(record[s0].seq) = running /\ running # Off
        /\ install = Idle
    BY <1>1, ActiveIs, ActiveIsLatest DEF ConfirmErase, OnTrial, Trial, Usable
  <2>2. /\ record' = [record EXCEPT ![s0] = Erased]
        /\ confirm' = [pc |-> "write", slot |-> s0, seq |-> record[s0].seq]
        /\ UNCHANGED <<image, proven, running, install>>
    BY <1>1 DEF ConfirmErase
  <2>3. Other(s0) \in Slot /\ Other(s0) # s0 /\ \A s \in Slot : s = s0 \/ s = Other(s0)
    BY <2>1 DEF Other, Slot
  <2>4. record'[s0] = Erased /\ record'[Other(s0)] = record[Other(s0)]
    BY <2>1, <2>2, <2>3
  <2>5. Fallback' = Fallback
    BY <2>1, <2>3, <2>4, FallbackKept DEF Valid, Trial, Erased
  <2>6. ~proven[running]
    BY <2>1 DEF Tryout
  <2>7. \A s \in Slot : ~Trial(s)'
    BY <2>1, <2>3, <2>4 DEF Tryout, Trial, Erased
  <2>8. Beats(confirm.seq, Other(confirm.slot))'
    BY <2>1, <2>2, <2>4 DEF Tryout, Beats, Usable
  <2>9. install.pc = "none"
    BY <2>1 DEF Idle
  <2> QED BY <2>1, <2>2, <2>4, <2>5, <2>6, <2>7, <2>8, <2>9
          DEF Retained, Tryout, Home, Guest, Installing, Confirming
<1>2. CASE ConfirmWrite
  <2>0. confirm.pc = "write" /\ confirm.slot \in Slot
    BY <1>2 DEF ConfirmWrite, Confirming
  <2> PICK slot \in Slot : slot = confirm.slot
    BY <2>0
  <2>1. /\ confirm.pc = "write" /\ confirm' = Idle
        /\ record' = [record EXCEPT ![slot] = [seq |-> confirm.seq, state |-> "valid"]]
        /\ proven' = [proven EXCEPT ![running] = TRUE]
        /\ UNCHANGED <<image, running, install>>
    BY <1>2 DEF ConfirmWrite
  <2>2. /\ slot \in Slot /\ record[slot] = Erased /\ Partition(confirm.seq) = running
        /\ Beats(confirm.seq, Other(slot)) /\ \A s \in Slot : ~Trial(s)
    BY <2>1 DEF Confirming
  <2>3. running \in Slot /\ running # Off /\ image[running] = "whole" /\ install.pc = "none"
    BY <2>1 DEF Images, Guest, Home
  <2>4. Other(slot) \in Slot /\ Other(slot) # slot /\ \A s \in Slot : s = slot \/ s = Other(slot)
    BY <2>2 DEF Other, Slot
  <2>5. /\ record'[slot] = [seq |-> confirm.seq, state |-> "valid"]
        /\ record'[Other(slot)] = record[Other(slot)]
    BY <2>1, <2>2, <2>4
  <2>6. \A s \in Slot : ~Trial(s)'
    BY <2>2, <2>4, <2>5 DEF Trial
  <2>7. Fallback' = running
    <3>1. Valid(slot)' /\ record'[slot].seq = confirm.seq /\ confirm.seq \in Int
      <4>1. confirm.seq \in Int
        BY SeqAssumption DEF Work
      <4> QED BY <2>2, <2>5, <4>1 DEF Valid, Beats
    <3>2. Valid(Other(slot))' => confirm.seq > record'[Other(slot)].seq
      BY <2>2, <2>5 DEF Valid, Beats, Usable
    <3>3. \A s \in Slot : record'[s].seq \in Int
      BY <2>4, <2>5, <3>1, SeqAssumption DEF Record
    <3> QED BY <2>2, <3>1, <3>2, <3>3 DEF Fallback, Slot, Other
  <2>8. proven'[running]
    BY <2>1, <2>3
  <2>9. confirm'.pc = "none"
    BY <2>1 DEF Idle
  <2> QED BY <2>1, <2>3, <2>6, <2>7, <2>8, <2>9
          DEF Retained, Tryout, Home, Guest, Installing, Confirming
<1>3. CASE ConfirmFails
  <2>1. /\ confirm'.pc = "none" /\ Fallback' = Fallback /\ \A s \in Slot : Trial(s)' <=> Trial(s)
        /\ UNCHANGED <<record, image, proven, running, install>>
    BY <1>3 DEF ConfirmFails, Fallback, Valid, Trial, Idle
  <2>2. Tryout'
    BY <2>1 DEF Tryout, Trial, Beats, Usable
  <2>3. install.pc = "none"
    BY <1>3 DEF ConfirmFails, Images, Home, Guest
  <2> QED BY <2>1, <2>2, <2>3 DEF Retained, Home, Guest, Installing, Confirming
<1> QED BY <1>1, <1>2, <1>3

(* Power, at any time. *)
LEMMA PowerIsCareful ==
  ASSUME OtaTypeOK, Images, Careful, Stop \/ \E s \in Slot : BootCut(s)
  PROVE  Careful'
<1> USE DEF OtaTypeOK, Careful
<1>1. CASE Stop
  <2>1. /\ running' = Off /\ install'.pc = "none" /\ confirm'.pc = "none"
        /\ UNCHANGED <<record, image, proven>>
    BY <1>1 DEF Stop, Idle
  <2>2. Fallback' = Fallback /\ \A s \in Slot : Trial(s)' <=> Trial(s)
    BY <2>1 DEF Fallback, Valid, Trial
  <2>3. Tryout'
    BY <2>1, <2>2 DEF Tryout, Trial, Beats, Usable
  <2> QED BY <2>1, <2>2, <2>3 DEF Retained, Home, Guest, Installing, Confirming
<1>2. ASSUME NEW s0 \in Slot, BootCut(s0) PROVE Careful'
  <2>1. /\ running = Off /\ record' = [record EXCEPT ![s0] = Erased]
        /\ UNCHANGED <<image, proven, running, install, confirm>>
    BY <1>2 DEF BootCut
  <2>2. Trial(s0)
    BY <1>2, ActiveIsLatest DEF BootCut, Trial, Usable, Slot, None
  <2>3. Other(s0) \in Slot /\ Other(s0) # s0 /\ \A s \in Slot : s = s0 \/ s = Other(s0)
    BY DEF Other, Slot
  <2>4. record'[s0] = Erased /\ record'[Other(s0)] = record[Other(s0)]
    BY <2>1, <2>3
  <2>5. Fallback' = Fallback
    BY <2>2, <2>3, <2>4, FallbackKept DEF Valid, Trial, Erased
  <2>6. \A s \in Slot : ~Trial(s)'
    BY <2>2, <2>3, <2>4 DEF Tryout, Trial, Erased
  <2>7. install.pc = "none" /\ confirm.pc = "none"
    BY <2>1 DEF Images
  <2> QED BY <2>1, <2>5, <2>6, <2>7 DEF Retained, Tryout, Home, Guest, Installing, Confirming
<1> QED BY <1>1, <1>2

LEMMA StepIInv == IInv /\ [Next]_ota => IInv'
<1> SUFFICES ASSUME IInv, [Next]_ota PROVE IInv'
  OBVIOUS
<1>1. OtaTypeOK' /\ Images'
  BY TypeStep, ImagesStep DEF IInv
<1>2. rash => rash'
  BY DEF Next, InstallFromCard, InstallRelease, Boot, BootCut, Stop, Begin, Flashed, EraseRecord,
         WriteRecord, InstallFails, ConfirmErase, ConfirmWrite, ConfirmFails, ota, IInv, OtaTypeOK
<1>3. ASSUME ~rash' PROVE Careful'
  <2>1. OtaTypeOK /\ Images /\ Careful
    BY <1>2, <1>3 DEF IInv
  <2>2. CASE UNCHANGED ota
    BY <2>1, <2>2 DEF ota, Careful, Retained, Tryout, Home, Guest, Installing, Confirming,
                      Fallback, Valid, Trial, Beats
  <2> QED BY <1>3, <2>1, <2>2, BootIsCareful, InstallIsCareful, ConfirmIsCareful, PowerIsCareful
          DEF Next, InstallFromCard, InstallRelease
<1> QED BY <1>1, <1>3 DEF IInv

THEOREM IInvAlways == Spec => []IInv
BY InitIInv, StepIInv, PTL DEF Spec

(* Every variable stays in its type. *)
THEOREM OtaTyped == Spec => []OtaTypeOK
<1>1. IInv => OtaTypeOK
  BY DEF IInv
<1> QED BY <1>1, IInvAlways, PTL

(* The next start finds an image that is whole and confirmed or not yet    *)
(* tried, wherever power was lost and whichever update failed.             *)
THEOREM NextBootAlwaysSound == Spec => []NextBootIsSound
<1>1. IInv => NextBootIsSound
  <2> SUFFICES ASSUME IInv PROVE NextBootIsSound
    OBVIOUS
  <2>1. image[NextBoot] = "whole"
    BY NextBootIsWhole DEF IInv
  <2>2. ASSUME Careful
        PROVE  proven[NextBoot] \/ \E s \in Slot : record[s].state = "new" /\ record[s].seq # 0
                                                   /\ Partition(record[s].seq) = NextBoot
    <3>1. CASE \E s \in Slot : Trial(s) /\ record[s].state = "new"
      BY <2>2, <3>1, NextBootIs DEF IInv, Careful, Trial, Tryout
    <3>2. CASE \A s \in Slot : Trial(s) => record[s].state # "new"
      BY <2>2, <3>2, NextBootIs DEF IInv, Careful, Retained
    <3> QED BY <3>1, <3>2
  <2> QED BY <2>1, <2>2 DEF IInv, NextBootIsSound
<1> QED BY <1>1, IInvAlways, PTL

-----------------------------------------------------------------------------
(* Also for an update that was rash: a new record is the latest one, and   *)
(* is there only until the next start.                                     *)
New(s) == record[s].seq # 0 /\ record[s].state = "new"

NewIsLatest ==
  /\ install.pc = "none" \/ confirm.pc = "none"
  /\ \A s \in Slot : New(s) => /\ Beats(record[s].seq, Other(s))
                               /\ running # Off => install.pc = "restart"
  /\ install.pc = "write" => /\ install.slot \in Slot /\ record[install.slot] = Erased
                             /\ Beats(install.seq, Other(install.slot))

(* After a start no record is new. *)
LEMMA BootTriesNew ==
  ASSUME OtaTypeOK, NewIsLatest, NEW up \in BOOLEAN, Boot(up)
  PROVE  \A s \in Slot : ~New(s)'
<1> SUFFICES ASSUME NEW s \in Slot, New(s)' PROVE FALSE
  OBVIOUS
<1> DEFINE rec == Rejected(record)
<1>1. record' = Tried(rec) /\ rec \in [Slot -> Record]
  BY ActiveIs DEF Boot, OtaTypeOK
<1>2. New(s) /\ rec[s].state = "new"
  BY <1>1, StartedIs DEF New, OtaTypeOK
<1>3. Other(s) \in Slot /\ record[s].seq \in Int /\ record[Other(s)].seq \in Int
  BY SeqAssumption DEF Other, Slot, OtaTypeOK, Record
<1>4. Usable(rec[Other(s)]) => rec[s].seq > rec[Other(s)].seq
  <2>1. Usable(rec[Other(s)]) => Usable(record[Other(s)])
    BY <1>3, StartedIs DEF Usable, OtaTypeOK
  <2> QED BY <1>2, <1>3, <2>1, StartedIs DEF NewIsLatest, Beats, OtaTypeOK
<1>5. Usable(rec[s]) /\ rec[s].seq \in Int /\ rec[Other(s)].seq \in Int
  BY <1>2, <1>3, StartedIs DEF Usable, New, OtaTypeOK
<1>6. ActiveSlot(rec) = s
  BY <1>4, <1>5 DEF ActiveSlot, Slot, Other
<1> QED BY <1>1, <1>2, <1>6, StartedIs DEF New

LEMMA LatestStep == OtaTypeOK /\ Images /\ NewIsLatest /\ [Next]_ota => NewIsLatest'
<1> SUFFICES ASSUME OtaTypeOK, Images, NewIsLatest, [Next]_ota PROVE NewIsLatest'
  OBVIOUS
<1>1. ASSUME NEW up \in BOOLEAN, Boot(up) PROVE NewIsLatest'
  BY <1>1, BootTriesNew DEF Boot, Images, NewIsLatest
<1>2. ASSUME NEW s0 \in Slot, BootCut(s0) PROVE NewIsLatest'
  <2>1. install'.pc = "none" /\ running' = Off /\ record' = [record EXCEPT ![s0] = Erased]
    BY <1>2 DEF BootCut, Images
  <2>2. ASSUME NEW s \in Slot, New(s)' PROVE Beats(record[s].seq, Other(s))'
    <3>1. New(s) /\ s # s0 /\ Other(s) = s0
      BY <2>1, <2>2 DEF New, OtaTypeOK, Erased, Other, Slot
    <3> QED BY <2>1, <3>1 DEF NewIsLatest, Beats, Usable, OtaTypeOK, Erased
  <2> QED BY <2>1, <2>2 DEF NewIsLatest
<1>3. CASE Stop
  <2>1. install'.pc = "none" /\ running' = Off /\ record' = record
    BY <1>3 DEF Stop, Idle
  <2> QED BY <2>1 DEF NewIsLatest, New, Beats, Usable
<1>4. CASE Begin
  <2>1. \A s \in Slot : ~New(s)
    BY <1>4 DEF Begin, NewIsLatest, Idle
  <2>2. install'.pc = "flash" /\ confirm'.pc = "none" /\ record' = record
    BY <1>4 DEF Begin, Idle
  <2> QED BY <2>1, <2>2 DEF NewIsLatest, New
<1>5. CASE Flashed \/ InstallFails
  <2>1. \A s \in Slot : ~New(s)
    BY <1>5 DEF Flashed, InstallFails, NewIsLatest, Images
  <2>2. /\ install'.pc \in {"switch", "none"} /\ confirm' = confirm /\ record' = record
        /\ install.pc # "none"
    BY <1>5 DEF Flashed, InstallFails, Idle, OtaTypeOK, Work
  <2> QED BY <2>1, <2>2 DEF NewIsLatest, New
<1>6. CASE EraseRecord
  <2> DEFINE target == TargetSlot(record)
             seq == NextSeq(ActiveSeq(record), Destination(running))
  <2>1. \A s \in Slot : ~New(s)
    BY <1>6 DEF EraseRecord, NewIsLatest, Images
  <2>2. /\ install' = [pc |-> "write", slot |-> target, seq |-> seq] /\ confirm' = confirm
        /\ record' = [record EXCEPT ![target] = Erased] /\ install.pc = "switch"
    BY <1>6 DEF EraseRecord
  <2>3. /\ target \in Slot /\ Other(target) \in Slot /\ Other(target) # target
        /\ ActiveSlot(record) \in Slot \cup {None} /\ ActiveSeq(record) \in Nat
    BY ActiveIs, SeqAssumption DEF OtaTypeOK, Other, Slot
  <2>4. record'[target] = Erased /\ record'[Other(target)] = record[Other(target)]
    BY <2>2, <2>3 DEF OtaTypeOK
  <2>5. \A s \in Slot : ~New(s)'
    BY <2>1, <2>3, <2>4 DEF New, Erased, Slot, Other
  <2>6. seq \in Nat /\ seq > ActiveSeq(record)
    <3>1. Destination(running) \in Slot
      BY <1>6 DEF EraseRecord, Images, OtaTypeOK, Destination, Other, Slot
    <3> QED BY <2>3, <3>1, NextSeqNames
  <2>7. Usable(record[Other(target)]) => seq > record[Other(target)].seq
    <3> SUFFICES ASSUME Usable(record[Other(target)]) PROVE seq > record[Other(target)].seq
      OBVIOUS
    <3>1. ActiveSlot(record) # None /\ ActiveSlot(record) # target
      BY <2>3, ActiveIsLatest DEF OtaTypeOK
    <3>2. ActiveSlot(record) = Other(target)
      BY <2>3, <3>1 DEF Slot, Other, None
    <3> QED BY <2>6, <3>1, <3>2 DEF ActiveSeq
  <2>8. Beats(install.seq, Other(install.slot))'
    BY <2>2, <2>3, <2>4, <2>6, <2>7 DEF Beats, Usable
  <2> QED BY <2>2, <2>3, <2>4, <2>5, <2>8 DEF NewIsLatest
<1>7. CASE WriteRecord
  <2>1. PICK slot \in Slot : slot = install.slot
    BY <1>7 DEF WriteRecord, NewIsLatest
  <2>2. /\ record[slot] = Erased /\ Beats(install.seq, Other(slot)) /\ confirm' = confirm
        /\ record' = [record EXCEPT ![slot] = [seq |-> install.seq, state |-> "new"]]
        /\ install'.pc = "restart"
    BY <1>7, <2>1 DEF WriteRecord, NewIsLatest, Idle
  <2>3. \A s \in Slot : ~New(s)
    BY <1>7 DEF WriteRecord, NewIsLatest, Images
  <2>4. Other(slot) \in Slot /\ Other(slot) # slot /\ \A s \in Slot : s = slot \/ s = Other(slot)
    BY DEF Other, Slot
  <2>5. /\ record'[slot] = [seq |-> install.seq, state |-> "new"]
        /\ record'[Other(slot)] = record[Other(slot)]
    BY <2>2, <2>4 DEF OtaTypeOK
  <2>6. ASSUME NEW s \in Slot, New(s)' PROVE s = slot /\ Beats(record[s].seq, Other(s))'
    BY <2>2, <2>3, <2>4, <2>5, <2>6 DEF New, Beats, Usable
  <2>7. install.pc # "none"
    BY <1>7 DEF WriteRecord
  <2> QED BY <2>2, <2>6, <2>7 DEF NewIsLatest
<1>8. CASE ConfirmErase \/ ConfirmWrite \/ ConfirmFails
  <2>1. install.pc = "none" /\ install' = install /\ running # Off
    BY <1>8 DEF ConfirmErase, ConfirmWrite, ConfirmFails, NewIsLatest, Idle, Images
  <2>2. \A s \in Slot : ~New(s)
    BY <2>1 DEF NewIsLatest
  <2>3. \A s \in Slot : ~New(s)'
    BY <1>8, <2>2 DEF New, ConfirmErase, ConfirmWrite, ConfirmFails, OtaTypeOK, Erased
  <2> QED BY <2>1, <2>3 DEF NewIsLatest
<1>9. CASE UNCHANGED ota
  BY <1>9 DEF ota, NewIsLatest, New, Beats, Usable
<1> QED BY <1>1, <1>2, <1>3, <1>4, <1>5, <1>6, <1>7, <1>8, <1>9
        DEF Next, InstallFromCard, InstallRelease

-----------------------------------------------------------------------------
(* The parts.  Every step is a step of each, or leaves it alone. *)

LEMMA StepIsOtaStep == [CycleNext]_cycle => [Next]_ota
<1> SUFFICES ASSUME [CycleNext]_cycle PROVE [Next]_ota
  OBVIOUS
<1>1. CASE ComeUp \/ BackToSleep
  BY <1>1 DEF ComeUp, BackToSleep, Next
<1>2. CASE LosePowerInBootloader \/ GoDown
  BY <1>2 DEF LosePowerInBootloader, GoDown, Next
<1>3. CASE Update
  BY <1>3 DEF Update, Next
<1>4. CASE MainLoop \/ GoToSleep \/ Setup \/ LoseCard
  BY <1>4 DEF MainLoop, GoToSleep, Setup, LoseCard
<1>5. CASE UNCHANGED cycle
  BY <1>5 DEF cycle
<1> QED BY <1>1, <1>2, <1>3, <1>4, <1>5 DEF CycleNext

LEMMA StepIsWakeStep == [CycleNext]_cycle => [W!Next]_wake
<1> SUFFICES ASSUME [CycleNext]_cycle PROVE [W!Next]_wake
  OBVIOUS
<1>1. CASE ComeUp
  BY <1>1 DEF ComeUp, W!Next
<1>2. CASE BackToSleep
  BY <1>2 DEF BackToSleep, W!Next
<1>3. CASE LosePowerInBootloader \/ Update
  BY <1>3 DEF LosePowerInBootloader, Update
<1>4. CASE GoDown
  BY <1>4 DEF GoDown, W!Next
<1>5. CASE MainLoop
  BY <1>5 DEF MainLoop, W!Next
<1>6. CASE GoToSleep
  BY <1>6 DEF GoToSleep, W!Next
<1>7. CASE Setup
  BY <1>7 DEF Setup, W!Next
<1>8. CASE LoseCard
  BY <1>8 DEF LoseCard, W!Next
<1>9. CASE UNCHANGED cycle
  BY <1>9 DEF cycle
<1> QED BY <1>1, <1>2, <1>3, <1>4, <1>5, <1>6, <1>7, <1>8, <1>9 DEF CycleNext

(* Whatever sleep and wake do, the records and images see an OtaBoot.      *)
THEOREM RefinesOtaBoot == CycleSpec => Spec
<1>1. CycleInit => Init
  BY DEF CycleInit
<1> QED BY <1>1, StepIsOtaStep, PTL DEF CycleSpec, Spec

(* The frame, the flag and the panel see a WakeFrame. *)
THEOREM RefinesWakeFrame == CycleSpec => W!Spec
<1>1. CycleInit => W!Init
  BY DEF CycleInit
<1>2. [CycleNext]_cycle => [W!Next]_W!wake
  BY StepIsWakeStep DEF wake, W!wake
<1> QED BY <1>1, <1>2, PTL DEF CycleSpec, W!Spec

(* The next start is sound also when starts go back to sleep at once and   *)
(* installations share the main loop with the rest.                        *)
THEOREM CycleBootsSoundly == CycleSpec => []NextBootIsSound
BY RefinesOtaBoot, NextBootAlwaysSound, PTL

-----------------------------------------------------------------------------
(* The frame and the panel.  While the device is awake a frame that stayed *)
(* is not allowed any more, or has been noticed; on the way to sleep in    *)
(* Quick Resume the frame that was saved is what the panel shows, even     *)
(* while an older permission is still in the state file.                   *)

Painted == {"going", "shown", "persist", "parked"}

Framed ==
  /\ pc = "overlay" => ~quick
  /\ pc \in Painted \cup {"awake", "overlay"} => panel \in Screen
  /\ pc = "awake" /\ allowed => frame = NoFrame \/ clung
  /\ quick /\ pc \in {"going", "shown", "persist"} /\ saved => frame = panel \/ overpainted
  /\ quick /\ allowed => frame \in {NoFrame, panel} \/ clung \/ overpainted

LEMMA WakeInit == W!Init => W!WakeTypeOK /\ Framed
BY DEF W!Init, W!WakeTypeOK, W!Pc, W!Down, Framed, Painted

LEMMA WakeTypeStep == W!WakeTypeOK /\ Framed /\ [W!Next]_wake => W!WakeTypeOK'
<1> SUFFICES ASSUME W!WakeTypeOK, Framed, [W!Next]_wake PROVE W!WakeTypeOK'
  OBVIOUS
<1> USE DEF W!WakeTypeOK, W!Pc, W!Down, W!Discard, W!Lingers, W!SaveState, W!SaveStateFails
<1>1. CASE W!PullCard \/ W!BeginSleep \/ W!SaveBase
  <2>1. CASE W!PullCard
    BY <2>1 DEF W!PullCard
  <2>2. CASE W!BeginSleep
    BY <2>2 DEF W!BeginSleep, W!SaveFrame, Framed, Painted
  <2>3. CASE W!SaveBase
    BY <2>3 DEF W!SaveBase, W!SaveFrame, Framed, Painted
  <2> QED BY <1>1, <2>1, <2>2, <2>3
<1>2. CASE W!PersistSleep \/ W!PowerDown \/ W!Restart
  BY <1>2 DEF W!PersistSleep, W!PowerDown, W!Restart
<1>3. ASSUME NEW s \in Screen, W!GoToSleep(s) \/ W!Splash(s) \/ W!Replay(s) \/ W!ShowPage(s)
      PROVE  W!WakeTypeOK'
  BY <1>3 DEF W!GoToSleep, W!Splash, W!Replay, W!ShowPage, W!Consumed
<1>4. ASSUME NEW b \in BOOLEAN, W!KeepScreen(b) \/ W!StartupSleep(b) \/ W!Accept(b)
      PROVE  W!WakeTypeOK'
  <2>1. CASE W!KeepScreen(b)
    BY <2>1 DEF W!KeepScreen, W!SaveFrame, Framed, Painted
  <2>2. CASE W!StartupSleep(b)
    BY <2>2 DEF W!StartupSleep
  <2>3. CASE W!Accept(b)
    BY <2>3 DEF W!Accept
  <2> QED BY <1>4, <2>1, <2>2, <2>3
<1>5. ASSUME NEW rejected \in BOOLEAN, NEW s \in Screen, W!BootWithoutCard(rejected, s)
      PROVE  W!WakeTypeOK'
  BY <1>5 DEF W!BootWithoutCard
<1>6. CASE W!Block \/ W!Resume \/ W!Rearm \/ W!SetQuickResume \/ W!ChangeSleepImage
  BY <1>6 DEF W!Block, W!Resume, W!Rearm, W!SetQuickResume, W!ChangeSleepImage
<1>7. CASE UNCHANGED wake
  BY <1>7 DEF wake
<1> QED BY <1>1, <1>2, <1>3, <1>4, <1>5, <1>6, <1>7 DEF W!Next

LEMMA FramedStep == W!WakeTypeOK /\ Framed /\ [W!Next]_wake => Framed'
<1> SUFFICES ASSUME W!WakeTypeOK, Framed, [W!Next]_wake PROVE Framed'
  OBVIOUS
<1> USE DEF W!WakeTypeOK, Framed, Painted, W!Down, W!Discard, W!Lingers, W!SaveState, W!SaveStateFails
<1>1. CASE W!PullCard
  BY <1>1 DEF W!PullCard
<1>2. CASE W!BeginSleep
  BY <1>2 DEF W!BeginSleep, W!SaveFrame
<1>3. CASE W!SaveBase
  BY <1>3 DEF W!SaveBase, W!SaveFrame
<1>4. CASE W!PersistSleep
  BY <1>4 DEF W!PersistSleep
<1>5. CASE W!PowerDown \/ W!Restart
  BY <1>5 DEF W!PowerDown, W!Restart
<1>6. ASSUME NEW s \in Screen, W!GoToSleep(s) PROVE Framed'
  BY <1>6 DEF W!GoToSleep
<1>7. ASSUME NEW s \in Screen, W!Splash(s) \/ W!Replay(s) \/ W!ShowPage(s) PROVE Framed'
  <2>1. CASE W!Splash(s)
    <3>1. pc' = "awake" /\ panel' \in Screen /\ (frame' = NoFrame \/ clung' = (frame' # NoFrame /\ allowed'))
      BY <2>1 DEF W!Splash
    <3> QED BY <3>1
  <2>2. CASE W!Replay(s)
    <3>1. pc' = "awake" /\ panel' \in Screen /\ (frame' = NoFrame \/ clung' = (frame' # NoFrame /\ allowed'))
      BY <2>2 DEF W!Replay, W!Consumed
    <3> QED BY <3>1
  <2>3. CASE W!ShowPage(s)
    BY <2>3 DEF W!ShowPage
  <2> QED BY <1>7, <2>1, <2>2, <2>3
<1>8. ASSUME NEW b \in BOOLEAN, W!KeepScreen(b) PROVE Framed'
  BY <1>8 DEF W!KeepScreen, W!SaveFrame
<1>9. ASSUME NEW b \in BOOLEAN, W!StartupSleep(b) \/ W!Accept(b) PROVE Framed'
  BY <1>9 DEF W!StartupSleep, W!Accept
<1>10. ASSUME NEW rejected \in BOOLEAN, NEW s \in Screen, W!BootWithoutCard(rejected, s)
       PROVE  Framed'
  BY <1>10 DEF W!BootWithoutCard
<1>11. CASE W!Block \/ W!Resume \/ W!Rearm
  <2>1. CASE W!Block \/ W!Resume
    BY <2>1 DEF W!Block, W!Resume
  <2>2. CASE W!Rearm
    <3>1. pc' = "replay" /\ (allowed' => allowed) /\ UNCHANGED <<frame, quick, panel, clung, overpainted>>
      BY <2>2 DEF W!Rearm
    <3> QED BY <3>1
  <2> QED BY <1>11, <2>1, <2>2
<1>12. CASE W!SetQuickResume \/ W!ChangeSleepImage
  BY <1>12 DEF W!SetQuickResume, W!ChangeSleepImage
<1>13. CASE UNCHANGED wake
  BY <1>13 DEF wake
<1> QED BY <1>1, <1>2, <1>3, <1>4, <1>5, <1>6, <1>7, <1>8, <1>9, <1>10, <1>11, <1>12, <1>13
        DEF W!Next

(* A wake never paints a difference to a frame that the panel does not     *)
(* show, unless the frame could be neither removed nor forbidden, or       *)
(* another picture was painted between its save and the sleep.             *)
THEOREM FastWakeAlwaysMatches == CycleSpec => []FastWakeMatches
<1>1. CycleInit => W!WakeTypeOK /\ Framed
  BY WakeInit DEF CycleInit
<1>2. W!WakeTypeOK /\ Framed /\ [CycleNext]_cycle => (W!WakeTypeOK /\ Framed)'
  BY StepIsWakeStep, WakeTypeStep, FramedStep
<1>3. Framed => FastWakeMatches
  BY DEF Framed, FastWakeMatches, W!FastWakeMatches
<1> QED BY <1>1, <1>2, <1>3, PTL DEF CycleSpec

-----------------------------------------------------------------------------
(* The two together.  A new record is written in the main loop, where no   *)
(* frame that is left is allowed, and the device goes down before it saves *)
(* one.                                                                    *)

InStep ==
  /\ running = Off <=> pc \in W!Down
  /\ install.pc # "none" \/ confirm.pc # "none" => pc = "awake"

Clean == (\E s \in Slot : New(s)) => ~(allowed /\ frame # NoFrame) \/ clung

CycleInv ==
  /\ OtaTypeOK /\ Images /\ NewIsLatest
  /\ W!WakeTypeOK /\ Framed
  /\ InStep /\ Clean

LEMMA CycleInitInv == CycleInit => CycleInv
<1> SUFFICES ASSUME CycleInit PROVE CycleInv
  OBVIOUS
<1>1. OtaTypeOK /\ Images
  BY InitIInv DEF CycleInit, IInv
<1>2. W!WakeTypeOK /\ Framed
  BY WakeInit DEF CycleInit
<1>3. NewIsLatest /\ InStep /\ Clean
  BY DEF CycleInit, Init, W!Init, NewIsLatest, InStep, Clean, New, Erased, Idle, Off, W!Down
<1> QED BY <1>1, <1>2, <1>3 DEF CycleInv

LEMMA InStepStep == CycleInv /\ [CycleNext]_cycle => InStep'
<1> SUFFICES ASSUME CycleInv, [CycleNext]_cycle PROVE InStep'
  OBVIOUS
<1> USE DEF CycleInv, InStep, W!Down
<1>1. CASE ComeUp
  <2>1. running' \in Slot /\ install.pc = "none" /\ confirm.pc = "none" /\ UNCHANGED <<install, confirm>>
    BY <1>1, NextBootIsWhole DEF ComeUp, Boot, Images
  <2>2. pc' \in {"resolve", "splash", "awake"}
    BY <1>1 DEF ComeUp, W!Accept, W!BootWithoutCard
  <2> QED BY <2>1, <2>2 DEF Slot, Off
<1>2. CASE BackToSleep
  <2>1. running' = Off /\ install.pc = "none" /\ confirm.pc = "none" /\ UNCHANGED <<install, confirm>>
    BY <1>2 DEF BackToSleep, Boot, Images
  <2>2. pc' = "off"
    BY <1>2 DEF BackToSleep, W!StartupSleep, W!BootWithoutCard
  <2> QED BY <2>1, <2>2
<1>3. CASE LosePowerInBootloader
  BY <1>3 DEF LosePowerInBootloader, BootCut, wake
<1>4. CASE GoDown
  BY <1>4 DEF GoDown, Stop, Idle, W!PowerDown, W!Restart
<1>5. CASE Update
  BY <1>5 DEF Update, wake, InstallFromCard, InstallRelease, Begin, Flashed, EraseRecord,
              WriteRecord, InstallFails, ConfirmErase, ConfirmWrite, ConfirmFails, Off
<1>6. CASE MainLoop
  BY <1>6 DEF MainLoop, ota, Idle, W!BeginSleep, W!SetQuickResume, W!ChangeSleepImage, W!ShowPage
<1>7. CASE GoToSleep
  BY <1>7 DEF GoToSleep, ota, W!SaveBase, W!PersistSleep, W!GoToSleep, W!KeepScreen
<1>8. CASE Setup
  BY <1>8 DEF Setup, ota, W!Block, W!Resume, W!Rearm, W!Splash, W!Replay
<1>9. CASE LoseCard
  BY <1>9 DEF LoseCard, ota, W!PullCard
<1>10. CASE UNCHANGED cycle
  BY <1>10 DEF cycle, ota, wake
<1> QED BY <1>1, <1>2, <1>3, <1>4, <1>5, <1>6, <1>7, <1>8, <1>9, <1>10 DEF CycleNext

LEMMA CleanStep == CycleInv /\ [CycleNext]_cycle => Clean'
<1> SUFFICES ASSUME CycleInv, [CycleNext]_cycle, NEW s \in Slot, New(s)'
             PROVE  ~(allowed' /\ frame' # NoFrame) \/ clung'
  BY DEF Clean
<1> USE DEF CycleInv
<1>1. CASE ComeUp \/ BackToSleep
  BY <1>1, BootTriesNew DEF ComeUp, BackToSleep
<1>2. CASE LosePowerInBootloader
  <2>1. New(s)
    BY <1>2 DEF LosePowerInBootloader, BootCut, New, OtaTypeOK, Erased
  <2> QED BY <1>2, <2>1 DEF LosePowerInBootloader, wake, Clean
<1>3. CASE GoDown
  <2>1. New(s)
    BY <1>3 DEF GoDown, Stop, New
  <2> QED BY <1>3, <2>1 DEF GoDown, W!PowerDown, W!Restart, Clean
<1>4. CASE Update
  BY <1>4 DEF Update, wake, Framed
<1>5. CASE MainLoop \/ GoToSleep \/ Setup
  <2>1. New(s)
    BY <1>5 DEF MainLoop, GoToSleep, Setup, ota, New
  <2>2. pc \notin W!Down
    BY <1>5 DEF MainLoop, GoToSleep, Setup, W!Down, W!BeginSleep, W!SetQuickResume,
                W!ChangeSleepImage, W!ShowPage, W!SaveBase, W!PersistSleep, W!GoToSleep,
                W!KeepScreen, W!Block, W!Resume, W!Rearm, W!Splash, W!Replay
  <2>3. install.pc = "restart" /\ pc = "awake"
    BY <2>1, <2>2 DEF NewIsLatest, InStep
  <2> QED BY <1>5, <2>3
          DEF MainLoop, GoToSleep, Setup, Idle, W!SaveBase, W!PersistSleep, W!GoToSleep,
              W!KeepScreen, W!Block, W!Resume, W!Rearm, W!Splash, W!Replay
<1>6. CASE LoseCard
  BY <1>6 DEF LoseCard, W!PullCard, Clean, ota, New
<1>7. CASE UNCHANGED cycle
  BY <1>7 DEF cycle, ota, wake, Clean, New
<1> QED BY <1>1, <1>2, <1>3, <1>4, <1>5, <1>6, <1>7 DEF CycleNext

THEOREM CycleInvAlways == CycleSpec => []CycleInv
<1>1. CycleInv /\ [CycleNext]_cycle => CycleInv'
  BY StepIsOtaStep, StepIsWakeStep, TypeStep, ImagesStep, LatestStep, WakeTypeStep, FramedStep,
     InStepStep, CleanStep DEF CycleInv
<1> QED BY <1>1, CycleInitInv, PTL DEF CycleSpec

(* The types, and that the device is off exactly when no image runs.       *)
THEOREM CycleTyped == CycleSpec => []CycleTypeOK
<1>1. CycleInv => CycleTypeOK
  BY DEF CycleInv, InStep, CycleTypeOK
<1> QED BY <1>1, CycleInvAlways, PTL

(* A new image does not start from the frame of the image before it,       *)
(* unless the frame could be neither removed nor forbidden.                *)
THEOREM FirstStartIsAlwaysClean == CycleSpec => []FirstStartIsClean
<1>1. CycleInv => FirstStartIsClean
  BY DEF CycleInv, Clean, New, FirstStartIsClean
<1> QED BY <1>1, CycleInvAlways, PTL
=============================================================================
