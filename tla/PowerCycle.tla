----------------------------- MODULE PowerCycle -----------------------------
(***************************************************************************)
(* One life of the device after another: which firmware starts (OtaBoot)   *)
(* and what the panel starts from (WakeFrame).  They meet where the device *)
(* goes down and comes up: every wake, also from deep sleep and also one   *)
(* that goes straight back to sleep, runs the bootloader, and an           *)
(* installation ends in a restart.                                         *)
(***************************************************************************)
EXTENDS OtaBoot

CONSTANTS Screen, Bundled, NoFrame

ASSUME PictureAssumption == NoFrame \notin Screen /\ NoFrame # Bundled

VARIABLES frame, allowed, memory, quick, panel, pc, saved, mounted, clung, overpainted

W == INSTANCE WakeFrame

wake == <<frame, allowed, memory, quick, panel, pc, saved, mounted, clung, overpainted>>
cycle == <<ota, wake>>

CycleInit == Init /\ W!Init

-----------------------------------------------------------------------------
(* The power button, a flash, a restart, or USB power brings it up. *)
ComeUp ==
  \/ Boot(TRUE) /\ \E load \in BOOLEAN : W!Accept(load)
  \/ Boot(TRUE) /\ \E s \in Screen : W!BootWithoutCard(FALSE, s)

(* Startup goes back to sleep: for the bootloader that was a start. *)
BackToSleep ==
  \/ Boot(FALSE) /\ \E restore \in BOOLEAN : W!StartupSleep(restore)
  \/ Boot(FALSE) /\ \E s \in Screen : W!BootWithoutCard(TRUE, s)

LosePowerInBootloader == (\E s \in Slot : BootCut(s)) /\ UNCHANGED wake

GoDown == Stop /\ (W!PowerDown \/ W!Restart)

(* An installation blocks the main loop, which also confirms the image and *)
(* puts the device to sleep.                                               *)
Update ==
  /\ pc = "awake"
  /\ \/ InstallFromCard \/ InstallRelease
     \/ Flashed \/ EraseRecord \/ WriteRecord \/ InstallFails
     \/ ConfirmErase \/ ConfirmWrite \/ ConfirmFails
  /\ UNCHANGED wake

MainLoop ==
  /\ install = Idle /\ confirm = Idle
  /\ \/ W!BeginSleep \/ W!SetQuickResume \/ W!ChangeSleepImage
     \/ \E s \in Screen : W!ShowPage(s)
  /\ UNCHANGED ota

GoToSleep ==
  /\ \/ W!SaveBase \/ W!PersistSleep
     \/ \E s \in Screen : W!GoToSleep(s)
     \/ \E replayable \in BOOLEAN : W!KeepScreen(replayable)
  /\ UNCHANGED ota

Setup ==
  /\ \/ W!Block \/ W!Resume \/ W!Rearm
     \/ \E s \in Screen : W!Splash(s) \/ W!Replay(s)
  /\ UNCHANGED ota

LoseCard == W!PullCard /\ UNCHANGED ota

CycleNext ==
  ComeUp \/ BackToSleep \/ LosePowerInBootloader \/ GoDown \/ Update \/ MainLoop
  \/ GoToSleep \/ Setup \/ LoseCard

CycleSpec == CycleInit /\ [][CycleNext]_cycle

-----------------------------------------------------------------------------
CycleTypeOK == OtaTypeOK /\ W!WakeTypeOK /\ (running = Off <=> pc \in W!Down)

(* Whenever the next wake would paint a difference to the saved frame, the *)
(* panel shows that frame (see WakeFrame).                                 *)
FastWakeMatches == W!FastWakeMatches

(* The first start of a new image does not resume from a frame that the    *)
(* image before it saved: the frame is gone, or not allowed, by the time   *)
(* the new record is in place, unless both the removal of the frame and    *)
(* the withdrawal of its permission had failed, or the card did not answer *)
(* (clung).                                                                *)
FirstStartIsClean ==
  /\ running = Off
  /\ \E s \in Slot : record[s].state = "new" /\ record[s].seq # 0
  => ~(allowed /\ frame # NoFrame) \/ clung
=============================================================================
