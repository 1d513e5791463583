------------------------------ MODULE OtaBoot -------------------------------
(***************************************************************************)
(* Which firmware starts.  Two partitions hold images, two otadata records *)
(* say which of them to boot.  src/network/OtaBootSwitch.cpp adds a record *)
(* once FirmwareFlasher.cpp or OtaUpdater.cpp has written an image,        *)
(* src/main.cpp confirms an image that has been up for ten seconds, and    *)
(* the bootloader drops one that was started and never confirmed.          *)
(*                                                                         *)
(* Power may be lost anywhere, also between the erasure of a flash sector  *)
(* and the write that follows.  The device also stops to sleep and to      *)
(* restart: whatever the reason, the bootloader comes next.                *)
(***************************************************************************)
EXTENDS Integers

CONSTANT MaxSeq   \* bound: the sequence numbers of the records

ASSUME SeqAssumption == MaxSeq \in Nat \ {0}

VARIABLES
  record,    \* the two otadata records
  image,     \* what each partition holds
  proven,    \* history: the image in it has been confirmed by main.cpp
  running,   \* the partition whose image runs, or Off
  install,   \* where flashFromSdPath or installUpdate is
  confirm,   \* where esp_ota_mark_app_valid_cancel_rollback is
  rash       \* history: an image was installed by one not yet confirmed

ota == <<record, image, proven, running, install, confirm, rash>>

Slot == {0, 1}             \* of otadata; the partitions are numbered alike
Off == -1
None == -1
Other(s) == 1 - s

(* A record that is erased, or that a power cut left without a valid CRC,  *)
(* has the sequence number 0.                                              *)
State == {"new", "pending", "valid", "aborted"}
Record == [seq : 0..MaxSeq, state : State]
Erased == [seq |-> 0, state |-> "new"]
Idle == [pc |-> "none", slot |-> None, seq |-> 0]

Init ==
  /\ record = [s \in Slot |-> Erased]
  /\ image = [p \in Slot |-> IF p = 0 THEN "whole" ELSE "partial"]
  /\ proven = [p \in Slot |-> p = 0]
  /\ running = 0 /\ install = Idle /\ confirm = Idle /\ rash = FALSE

-----------------------------------------------------------------------------
(* Records.  (seq - 1) % 2 is the partition that a record names.           *)

Usable(r) == r.seq # 0 /\ r.state # "aborted"

ActiveSlot(rec) ==
  IF Usable(rec[1]) /\ (Usable(rec[0]) => rec[1].seq > rec[0].seq) THEN 1
  ELSE IF Usable(rec[0]) THEN 0
  ELSE None

ActiveSeq(rec) == IF ActiveSlot(rec) = None THEN 0 ELSE rec[ActiveSlot(rec)].seq

Partition(seq) == (seq - 1) % 2

(* The smallest number above seq that names dest. *)
NextSeq(seq, dest) == IF seq % 2 = dest THEN seq + 1 ELSE seq + 2

(* Mutant: the record in use is overwritten. *)
SameSlot(rec) == IF ActiveSlot(rec) = 1 THEN 1 ELSE 0

(* Mutant: the slot after the one in use. *)
SlotAfter(rec) == ActiveSlot(rec) + 1

TargetSlot(rec) == IF ActiveSlot(rec) = 0 THEN 1 ELSE 0

-----------------------------------------------------------------------------
(* The bootloader.  An image that is still on trial has failed.  Of the    *)
(* records left the latest is followed; without one the first partition is *)
(* started, and the other partition instead of one that does not verify.   *)

Rejected(rec) ==
  [s \in Slot |-> IF rec[s].seq # 0 /\ rec[s].state = "pending"
                  THEN [rec[s] EXCEPT !.state = "aborted"] ELSE rec[s]]

Named(rec) == IF ActiveSlot(rec) = None THEN 0 ELSE Partition(rec[ActiveSlot(rec)].seq)

NextBoot == LET p == Named(Rejected(record)) IN IF image[p] = "whole" THEN p ELSE Other(p)

(* The image starts its trial when its record is new. *)
Tried(rec) ==
  LET s == ActiveSlot(rec)
  IN IF s # None /\ rec[s].state = "new" THEN [rec EXCEPT ![s].state = "pending"] ELSE rec

(* up: the firmware stays up, or goes back to sleep during startup. *)
Boot(up) ==
  /\ running = Off
  /\ image[NextBoot] = "whole"
  /\ record' = Tried(Rejected(record))
  /\ running' = IF up THEN NextBoot ELSE Off
  /\ UNCHANGED <<image, proven, install, confirm, rash>>

(* Power is lost after the bootloader erased a record to rewrite it. *)
BootCut(s) ==
  /\ running = Off
  /\ \/ record[s].seq # 0 /\ record[s].state = "pending"
     \/ /\ \A t \in Slot : record[t].seq = 0 \/ record[t].state # "pending"
        /\ s = ActiveSlot(record) /\ record[s].state = "new"
  /\ record' = [record EXCEPT ![s] = Erased]
  /\ UNCHANGED <<image, proven, running, install, confirm, rash>>

(* Power lost, deep sleep, a crash, ESP.restart(). *)
Stop ==
  /\ running # Off
  /\ running' = Off /\ install' = Idle /\ confirm' = Idle
  /\ UNCHANGED <<record, image, proven, rash>>

-----------------------------------------------------------------------------
(* flashFromSdPath and installUpdate; the image has been validated, or is  *)
(* verified by esp_ota_end.                                                *)

(* The record that the running image is started from says so. *)
OnTrial ==
  LET s == ActiveSlot(record)
  IN s # None /\ record[s].state = "pending" /\ Partition(record[s].seq) = running

(* esp_ota_get_next_update_partition *)
Destination(p) == Other(p)

Begin ==
  /\ running # Off /\ install = Idle /\ confirm = Idle
  /\ image' = [image EXCEPT ![Destination(running)] = "partial"]
  /\ proven' = [proven EXCEPT ![Destination(running)] = FALSE]
  /\ install' = [Idle EXCEPT !.pc = "flash"]
  /\ rash' = (rash \/ ~proven[running])
  /\ UNCHANGED <<record, running, confirm>>

(* From the SD card: nobody asks whether the running image is on trial. *)
InstallFromCard == Begin

(* From the network: esp_ota_begin refuses an update by an image on trial. *)
InstallRelease == ~OnTrial /\ Begin

Flashed ==
  /\ install.pc = "flash"
  /\ image' = [image EXCEPT ![Destination(running)] = "whole"]
  /\ install' = [install EXCEPT !.pc = "switch"]
  /\ UNCHANGED <<record, proven, running, confirm, rash>>

(* switchTo and esp_ota_set_boot_partition: erase the other record, *)
EraseRecord ==
  LET seq == NextSeq(ActiveSeq(record), Destination(running))
  IN /\ install.pc = "switch"
     /\ seq <= MaxSeq
     /\ record' = [record EXCEPT ![TargetSlot(record)] = Erased]
     /\ install' = [pc |-> "write", slot |-> TargetSlot(record), seq |-> seq]
     /\ UNCHANGED <<image, proven, running, confirm, rash>>

(* and write it.  The caller restarts. *)
WriteRecord ==
  /\ install.pc = "write"
  /\ record' = [record EXCEPT ![install.slot] = [seq |-> install.seq, state |-> "new"]]
  /\ install' = [Idle EXCEPT !.pc = "restart"]
  /\ UNCHANGED <<image, proven, running, confirm, rash>>

(* Any of it fails: the activity shows an error and the device goes on. *)
InstallFails ==
  /\ install.pc \in {"flash", "switch", "write"}
  /\ install' = Idle
  /\ UNCHANGED <<record, image, proven, running, confirm, rash>>

-----------------------------------------------------------------------------
(* markOtaValidOnceHealthy: the record of the image on trial is rewritten. *)

ConfirmErase ==
  /\ running # Off /\ install = Idle /\ confirm = Idle
  /\ OnTrial
  /\ confirm' = [pc |-> "write", slot |-> ActiveSlot(record), seq |-> record[ActiveSlot(record)].seq]
  /\ record' = [record EXCEPT ![ActiveSlot(record)] = Erased]
  /\ UNCHANGED <<image, proven, running, install, rash>>

ConfirmWrite ==
  /\ confirm.pc = "write"
  /\ record' = [record EXCEPT ![confirm.slot] = [seq |-> confirm.seq, state |-> "valid"]]
  /\ proven' = [proven EXCEPT ![running] = TRUE]
  /\ confirm' = Idle
  /\ UNCHANGED <<image, running, install, rash>>

(* The write fails: the image runs on without a record. *)
ConfirmFails ==
  /\ confirm.pc = "write"
  /\ confirm' = Idle
  /\ UNCHANGED <<record, image, proven, running, install, rash>>

-----------------------------------------------------------------------------
Next ==
  \/ \E up \in BOOLEAN : Boot(up)
  \/ \E s \in Slot : BootCut(s)
  \/ Stop
  \/ InstallFromCard \/ InstallRelease
  \/ Flashed \/ EraseRecord \/ WriteRecord \/ InstallFails
  \/ ConfirmErase \/ ConfirmWrite \/ ConfirmFails

Spec == Init /\ [][Next]_ota

-----------------------------------------------------------------------------
Pc == {"none", "flash", "switch", "write", "restart"}
Work == [pc : Pc, slot : Slot \cup {None}, seq : 0..MaxSeq]

OtaTypeOK ==
  /\ record \in [Slot -> Record]
  /\ image \in [Slot -> {"whole", "partial"}]
  /\ proven \in [Slot -> BOOLEAN]
  /\ running \in Slot \cup {Off}
  /\ install \in Work /\ confirm \in Work
  /\ rash \in BOOLEAN

(* The next start of the device, whatever causes it and whenever, finds an *)
(* image that is whole: one that has been confirmed, or a new one that has *)
(* not been tried before.  An image that failed its trial is not started   *)
(* again, so a boot loop ends (main.cpp:674).  An installation made before *)
(* the running image was confirmed overwrites the only other image, and    *)
(* then only a whole image is left.                                        *)
NextBootIsSound ==
  /\ image[NextBoot] = "whole"
  /\ rash \/ proven[NextBoot]
     \/ \E s \in Slot : record[s].state = "new" /\ record[s].seq # 0
                        /\ Partition(record[s].seq) = NextBoot
=============================================================================
