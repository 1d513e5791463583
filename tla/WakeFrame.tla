----------------------------- MODULE WakeFrame ------------------------------
(***************************************************************************)
(* src/activities/boot_sleep/SleepFrameStore.cpp, with enterDeepSleep(),   *)
(* enterStartupDeepSleep() and the resume decision of setup() in           *)
(* src/main.cpp: the frame saved at sleep, and the flag in the state file  *)
(* (showBootScreen) that allows the next wake to start from it.            *)
(*                                                                         *)
(* In Quick Resume the wake paints a difference to that frame, which is    *)
(* right only if the frame is what the e-ink panel shows.  The panel keeps *)
(* its picture without power.                                              *)
(*                                                                         *)
(* A write may fail at any time, and so may the removal of a file, which   *)
(* nobody checks.  A card that has been pulled out refuses everything      *)
(* until the next start.  Saving a frame or the state is atomic here, with *)
(* either outcome if it fails: StagedFileTransaction and AtomicFile are    *)
(* modelled on their own.                                                  *)
(***************************************************************************)

CONSTANTS
  Screen,    \* pictures that a page, a sleep screen or a cover can be
  Bundled,   \* the default sleep screen
  NoFrame    \* no frame file

VARIABLES
  frame,      \* the frame file on the card
  allowed,    \* showBootScreen is false in the state file
  memory,     \* the same in APP_STATE
  quick,      \* SETTINGS.quickResumeSleepScreen
  panel,      \* what the panel shows
  pc,         \* where main.cpp is
  saved,      \* savedWakeFrame
  mounted,    \* the card answers
  clung,      \* history: the frame was to go but stayed, and the state file
              \* still allows it
  overpainted \* history: since the frame was saved something was painted that
              \* is not a sleep screen saved in its turn

wake == <<frame, allowed, memory, quick, panel, pc, saved, mounted, clung, overpainted>>

(* Asleep or without power: off.  restart: ESP.restart() or a crash. *)
Down == {"off", "restart"}

Init ==
  /\ frame = NoFrame /\ allowed = FALSE /\ memory = FALSE
  /\ quick \in BOOLEAN /\ panel \in Screen
  /\ pc = "awake" /\ saved = FALSE /\ mounted = TRUE
  /\ clung = FALSE /\ overpainted = FALSE

-----------------------------------------------------------------------------
(* Storage *)

(* SleepFrameStore::save() of the picture s.                               *)
SaveFrame(s) ==
  \/ /\ mounted
     /\ frame' = s /\ saved' = TRUE
     /\ clung' = FALSE /\ overpainted' = FALSE
  \/ /\ frame' \in IF mounted THEN {frame, s} ELSE {frame}
     /\ saved' = FALSE /\ UNCHANGED <<clung, overpainted>>

(* The frame stays: its removal failed, or was never tried.  That is       *)
(* harmless once the permission is withdrawn.                              *)
Lingers == UNCHANGED frame /\ clung' = (frame # NoFrame /\ allowed')

(* Mutant: the frame stays. *)
LeaveFrame == UNCHANGED frame /\ clung' = FALSE

(* discard() *)
Discard ==
  \/ mounted /\ frame' = NoFrame /\ clung' = FALSE
  \/ Lingers

(* APP_STATE.saveToFile(), and the same reporting a failure. *)
SaveState(value) == mounted /\ allowed' = value
SaveStateFails(value) == allowed' \in IF mounted THEN {allowed, value} ELSE {allowed}

PullCard ==
  /\ pc \notin Down /\ mounted
  /\ mounted' = FALSE
  /\ UNCHANGED <<frame, allowed, memory, quick, panel, pc, saved, clung, overpainted>>

-----------------------------------------------------------------------------
(* enterDeepSleep *)

(* Quick Resume keeps the page that is on the screen, before goToSleep(). *)
BeginSleep ==
  /\ pc = "awake" /\ pc' = "going"
  /\ IF quick THEN SaveFrame(panel) ELSE saved' = FALSE /\ UNCHANGED <<frame, clung, overpainted>>
  /\ UNCHANGED <<allowed, memory, quick, panel, mounted>>

(* The sleep image over the page needs the page in the frame file. *)
SaveBase ==
  /\ pc = "going" /\ ~quick /\ pc' = "overlay"
  /\ SaveFrame(panel)
  /\ UNCHANGED <<allowed, memory, quick, panel, mounted>>

(* goToSleep() shows the sleep screen: s, or the page with a moon on it.   *)
(* Whatever was saved below it does not count.  The render lock was given  *)
(* up after the save: in Quick Resume another page may be drawn first, by  *)
(* a render that was pending or by a loop() that navigates, and the frame  *)
(* that was saved counts all the same.                                     *)
GoToSleep(s) ==
  /\ pc \in {"going", "overlay"} /\ pc' = "shown"
  /\ panel' = s
  /\ saved' = (quick /\ saved)
  /\ overpainted' = (overpainted \/ (quick /\ s # panel))
  /\ UNCHANGED <<frame, allowed, memory, quick, mounted, clung>>

(* The sleep screen is kept, unless it is not replayable. *)
KeepScreen(replayable) ==
  /\ pc = "shown" /\ pc' = "persist"
  /\ IF ~quick /\ replayable THEN SaveFrame(panel) ELSE UNCHANGED <<frame, clung, overpainted, saved>>
  /\ UNCHANGED <<allowed, memory, quick, panel, mounted>>

PersistSleep ==
  /\ pc = "persist" /\ pc' = "parked"
  /\ \/ SaveState(saved) /\ memory' = saved /\ UNCHANGED <<frame, clung>>
     \/ SaveStateFails(saved) /\ memory' = FALSE /\ Discard
  /\ UNCHANGED <<quick, panel, saved, mounted, overpainted>>

(* Deep sleep from "parked"; loss of power anywhere else. *)
PowerDown ==
  /\ pc \notin Down /\ pc' = "off"
  /\ memory' = FALSE /\ saved' = FALSE /\ mounted' = TRUE
  /\ UNCHANGED <<frame, allowed, quick, panel, clung, overpainted>>

Restart ==
  /\ pc = "awake" /\ pc' = "restart"
  /\ memory' = FALSE /\ mounted' = TRUE
  /\ UNCHANGED <<frame, allowed, quick, panel, saved, clung, overpainted>>

-----------------------------------------------------------------------------
(* setup *)

(* No card and the wake was rejected, or no card at all: the settings and  *)
(* the state have their defaults.                                          *)
BootWithoutCard(rejected, s) ==
  /\ pc \in Down /\ rejected => pc = "off"
  /\ panel' = IF rejected THEN Bundled ELSE s
  /\ pc' = IF rejected THEN "off" ELSE "awake"
  /\ mounted' = rejected /\ memory' = FALSE
  /\ IF rejected THEN overpainted' = TRUE /\ UNCHANGED <<frame, allowed, clung>>
     ELSE UNCHANGED <<allowed, overpainted>> /\ Lingers
  /\ UNCHANGED <<quick, saved>>

(* enterStartupDeepSleep(restore) after a rejected wake, or at USB power. *)
StartupSleep(restore) ==
  LET replay == restore /\ allowed /\ ~quick /\ frame # NoFrame
  IN /\ pc = "off"
     /\ \/ replay /\ panel' = frame /\ UNCHANGED <<frame, clung, overpainted>>
        \/ /\ panel' = Bundled /\ overpainted' = TRUE
           /\ UNCHANGED <<frame, clung>> \/ (replay /\ mounted /\ frame' = NoFrame /\ clung' = FALSE)
     /\ UNCHANGED <<allowed, memory, quick, pc, saved, mounted>>

(* The wake is accepted: the state file is loaded, or skipped by a         *)
(* recovery start.                                                         *)
Accept(load) ==
  /\ pc \in Down /\ pc' = IF load /\ pc = "off" THEN "resolve" ELSE "splash"
  /\ memory' = (load /\ allowed)
  /\ UNCHANGED <<frame, allowed, quick, panel, saved, mounted, clung, overpainted>>

(* canRestoreSavedSleepFrame() says no: a flash, a restart, a recovery. *)
Block ==
  /\ pc = "resolve" /\ pc' = "splash"
  /\ UNCHANGED <<frame, allowed, memory, quick, panel, saved, mounted, clung, overpainted>>

CanRestore == memory /\ frame # NoFrame /\ mounted

Resume ==
  /\ pc = "resolve"
  /\ pc' = IF CanRestore THEN "rearm" ELSE "splash"
  /\ UNCHANGED <<frame, allowed, memory, quick, panel, saved, mounted, clung, overpainted>>

(* Every other resume: the frame is discarded and the flag withdrawn. *)
Splash(s) ==
  /\ pc = "splash" /\ pc' = "awake"
  /\ IF memory THEN SaveState(FALSE) \/ SaveStateFails(FALSE) ELSE UNCHANGED allowed
  /\ Discard
  /\ memory' = FALSE
  /\ panel' = s
  /\ UNCHANGED <<quick, saved, mounted, overpainted>>

(* SavedFrame: the flag is withdrawn before anything is painted, *)
Rearm ==
  /\ pc = "rearm" /\ pc' = "replay"
  /\ memory' = FALSE
  /\ SaveState(FALSE) \/ SaveStateFails(FALSE)
  /\ UNCHANGED <<frame, quick, panel, saved, mounted, clung, overpainted>>

(* Mutant: the frame is left for the next wake. *)
Kept(f) == f

(* load() removes the frame it has read. *)
Consumed(f) == NoFrame

(* then the frame is loaded and painted: over a full refresh, or in Quick  *)
(* Resume as a difference.  If it cannot be read it is discarded, or just  *)
(* not used if it cannot be opened.                                        *)
Replay(s) ==
  /\ pc = "replay" /\ pc' = "awake"
  /\ UNCHANGED <<allowed, memory, quick, saved, mounted, overpainted>>
  /\ \/ mounted /\ frame' = Consumed(frame) /\ clung' = FALSE
     \/ Discard
  /\ panel' = s

-----------------------------------------------------------------------------
(* Between two sleeps *)

ShowPage(s) ==
  /\ pc = "awake" /\ panel' = s
  /\ UNCHANGED <<frame, allowed, memory, quick, pc, saved, mounted, clung, overpainted>>

SetQuickResume ==
  /\ pc = "awake" /\ mounted
  /\ quick' = ~quick
  /\ UNCHANGED <<frame, allowed, memory, panel, pc, saved, mounted, clung, overpainted>>

(* Another sleep image was chosen. *)
ChangeSleepImage ==
  /\ pc = "awake"
  /\ UNCHANGED <<allowed, memory, quick, panel, pc, saved, mounted, overpainted>>
  /\ Discard

Next ==
  \/ PullCard \/ BeginSleep \/ SaveBase \/ PersistSleep \/ PowerDown \/ Restart
  \/ \E s \in Screen : GoToSleep(s) \/ Splash(s) \/ Replay(s) \/ ShowPage(s)
  \/ \E b \in BOOLEAN : KeepScreen(b) \/ StartupSleep(b) \/ Accept(b)
  \/ \E rejected \in BOOLEAN, s \in Screen : BootWithoutCard(rejected, s)
  \/ Block \/ Resume \/ Rearm \/ SetQuickResume \/ ChangeSleepImage

Spec == Init /\ [][Next]_wake

-----------------------------------------------------------------------------
Pc == Down \cup {"awake", "going", "overlay", "shown", "persist", "parked",
                 "resolve", "splash", "rearm", "replay"}

WakeTypeOK ==
  /\ frame \in Screen \cup {NoFrame} /\ panel \in Screen \cup {Bundled}
  /\ allowed \in BOOLEAN /\ memory \in BOOLEAN /\ quick \in BOOLEAN
  /\ saved \in BOOLEAN /\ mounted \in BOOLEAN
  /\ clung \in BOOLEAN /\ overpainted \in BOOLEAN
  /\ pc \in Pc

(* Whenever the next wake would paint a difference to the saved frame, the *)
(* panel shows that frame, wherever power was lost and whichever write     *)
(* failed (main.cpp:285, "Never advertise a frame that was not durably     *)
(* paired with its one-shot state", and HalDisplay.h:20).  To remove the   *)
(* frame and to withdraw the permission each suffice.  Excepted is what    *)
(* the code does not prevent: that both fail, or are not tried because the *)
(* card does not answer (clung); and a picture painted over the panel      *)
(* after the save, by a page drawn before goToSleep() has the screen, by a *)
(* startup sleep or by a rejected start without a card (overpainted).      *)
FastWakeMatches ==
  pc = "off" /\ quick /\ allowed /\ frame # NoFrame => panel = frame \/ clung \/ overpainted
=============================================================================
