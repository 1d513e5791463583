-------------------------- MODULE ActivityManager ---------------------------
(***************************************************************************)
(* src/activities/ActivityManager.cpp: the screens of the reader and the   *)
(* two tasks that share them.  The main task runs the current activity and *)
(* carries out pushes, pops and replacements; the render task draws the    *)
(* current activity whenever it is notified.  They share the rendering     *)
(* mutex, the render generations and one waiter.                           *)
(*                                                                         *)
(* What an activity does inside loop(), onEnter(), onResume() or a result  *)
(* handler is any sequence of calls to the manager.  While the main task   *)
(* holds the mutex inside a Push, Pop or Replace the render task can only  *)
(* touch variables that those do not, so each of them is one step.         *)
(***************************************************************************)
EXTENDS Integers, Sequences, SequencesExt

CONSTANTS
  Activity,    \* bound: activity objects alive at the same time
  None,        \* no activity
  Modulus,     \* size of the generation counter: 2^32 in the code
  MaySleep     \* whether the device goes to sleep (and starts again)

ASSUME ActivityAssumption ==
  /\ None \notin Activity
  /\ Modulus \in Nat /\ Modulus >= 6 /\ Modulus % 2 = 0
  /\ MaySleep \in BOOLEAN

VARIABLES
  current,          \* currentActivity
  stack,            \* stackActivities, the bottom first
  life,             \* what has been called on each activity object
  handler,          \* the activities whose resultHandler is set
  pending,          \* pendingAction and pendingActivity
  pc,               \* where the main task is
  back,             \* where it goes on after a notification or a wait
  currentActivityPaused,
  requestedUpdate,
  requested,        \* requestedRenderGeneration
  completed,        \* completedRenderGeneration
  waiting,          \* waitingRenderGeneration, or -1 for no waiting task
  waitTarget,       \* the main task's targetGeneration
  mutex,            \* holder of renderingMutex
  render,           \* the render task
  notified,         \* whether each task has a pending notification
  frame,            \* history: is the state behind the last request on the panel?
  sleep             \* history: the Sleep activity on its way to the screen

activities == <<current, stack, life, handler, pending, currentActivityPaused, sleep>>
generations == <<requestedUpdate, requested, completed, waiting, waitTarget, frame>>
vars == <<activities, generations, pc, back, mutex, render, notified>>

Half == Modulus \div 2
Generation == 0..(Modulus - 1)

(* Callbacks in which an activity, or main.cpp between two loops, may call *)
(* the manager.                                                            *)
Callback == {"Outside", "BootEnter", "Loop", "Handler", "Enter", "Resume"}
MainPc == Callback \cup {"Drain", "GoHome", "HomeEnter", "Publish", "Notify",
                         "WaitNotify", "Waiting", "Asleep"}
RenderPc == {"Idle", "Load", "Lock", "Render", "Wake"}

(* An object is Absent, Ready (constructed) or Entered; pauses counts      *)
(* onPause() calls not yet undone by onResume().                           *)
Life == [stage : {"Absent", "Ready", "Entered"}, pauses : 0..2]
NoLife == [stage |-> "Absent", pauses |-> 0]

NoPending == [action |-> "None", activity |-> None]

Init ==
  /\ current = None /\ stack = <<>> /\ sleep = None
  /\ life = [a \in Activity |-> NoLife]
  /\ handler = {} /\ pending = NoPending
  /\ pc = "Outside" /\ back = "Outside" /\ currentActivityPaused = FALSE
  /\ requestedUpdate = FALSE /\ requested = 0 /\ completed = 0
  /\ waiting = -1 /\ waitTarget = 0
  /\ mutex = "Free"
  /\ render = [pc |-> "Idle", target |-> 0, activity |-> None, waiter |-> FALSE]
  /\ notified = [main |-> FALSE, render |-> FALSE]
  /\ frame = "Shown"

-----------------------------------------------------------------------------
(* Generations *)

(* Mutant: the counter does not wrap. *)
CountOn(g) == g + 1

NextGeneration(g) == (g + 1) % Modulus

(* Mutant: the comparison is strict. *)
ReachedStrictly(done, target) == (done - target) % Modulus \in 1..(Half - 1)

(* static_cast<int32_t>(completed - target) >= 0 *)
Reached(done, target) == (done - target) % Modulus < Half

(* Bound: requests under way stay below half the counter.  (Locals that are *)
(* out of scope are reset, which merges states.)                           *)
RoomToRequest == (requested - completed) % Modulus < Half - 1

NewGeneration ==
  /\ RoomToRequest
  /\ requested' = NextGeneration(requested)
  /\ frame' = "Stale"

-----------------------------------------------------------------------------
(* Calls that an activity makes *)

Calling == pc \in Callback /\ current # None

(* Activity objects are made one at a time; an id is reused once its       *)
(* object is gone.                                                         *)
Fresh(a) == life[a].stage = "Absent"

Drop(lives, gone) == [a \in Activity |-> IF a \in gone THEN NoLife ELSE lives[a]]

(* pendingActivity becomes a new object; one that was pending is deleted.  *)
Propose(action, a) ==
  /\ Fresh(a)
  /\ pending' = [action |-> action, activity |-> a]
  /\ life' = [Drop(life, {pending.activity}) EXCEPT ![a].stage = "Ready"]

StartActivity(a) ==
  /\ Calling
  /\ Propose("Push", a)
  /\ handler' \in {handler \ {current}, handler \cup {current}}
  /\ UNCHANGED <<current, stack, currentActivityPaused, sleep, generations, pc, back,
                 mutex, render, notified>>

(* replaceActivity() while there is a current activity *)
ReplaceActivity(a) ==
  /\ Calling
  /\ Propose("Replace", a)
  /\ UNCHANGED <<current, stack, handler, currentActivityPaused, sleep, generations, pc,
                 back, mutex, render, notified>>

(* popActivity() *)
Finish ==
  /\ Calling
  /\ pending' = [action |-> "Pop", activity |-> None]
  /\ life' = Drop(life, {pending.activity})
  /\ UNCHANGED <<current, stack, handler, currentActivityPaused, sleep, generations, pc,
                 back, mutex, render, notified>>

(* replaceActivity() with no current activity, during setup() *)
LaunchFirst(a) ==
  /\ pc = "Outside" /\ current = None
  /\ current' = a
  /\ life' = [life EXCEPT ![a].stage = "Ready"]
  /\ pc' = "BootEnter"
  /\ UNCHANGED <<stack, handler, pending, currentActivityPaused, sleep, generations, back,
                 mutex, render, notified>>

RequestUpdate ==
  /\ Calling
  /\ requestedUpdate' = TRUE
  /\ UNCHANGED <<activities, requested, completed, waiting, waitTarget, frame, pc, back,
                 mutex, render, notified>>

(* requestUpdate(true): count, then notify *)
RequestImmediateUpdate ==
  /\ Calling
  /\ NewGeneration
  /\ pc' = "Notify" /\ back' = pc
  /\ UNCHANGED <<activities, requestedUpdate, completed, waiting, waitTarget, mutex,
                 render, notified>>

(* requestUpdateAndWait(), never called with the mutex held *)
RequestUpdateAndWait ==
  /\ Calling
  /\ mutex # "Main"
  /\ waiting = -1
  /\ NewGeneration
  /\ waiting' = requested' /\ waitTarget' = requested'
  /\ pc' = "WaitNotify" /\ back' = pc
  /\ UNCHANGED <<activities, requestedUpdate, completed, mutex, render, notified>>

(* RenderLock in a callback *)
LockInCallback ==
  /\ Calling
  /\ mutex = "Free"
  /\ mutex' = "Main"
  /\ UNCHANGED <<activities, generations, pc, back, render, notified>>

UnlockInCallback ==
  /\ pc \in Callback /\ mutex = "Main"
  /\ mutex' = "Free"
  /\ UNCHANGED <<activities, generations, pc, back, render, notified>>

(* goToSleep(): the Sleep activity is proposed and loop() runs at once.    *)
GoToSleep(a) ==
  /\ MaySleep
  /\ pc = "Outside" /\ current # None /\ mutex = "Free"
  /\ Propose("Replace", a)
  /\ sleep' = a
  /\ pc' = "Loop"
  /\ currentActivityPaused' = FALSE
  /\ UNCHANGED <<current, stack, handler, generations, back, mutex, render, notified>>

-----------------------------------------------------------------------------
(* loop(): the main task between and after the callbacks *)

(* Mutant: Push, Pop and Replace do not wait for the mutex. *)
FreeForAll == TRUE

MutexFree == mutex = "Free"

BeginLoop ==
  /\ pc = "Outside" /\ current # None /\ mutex = "Free"
  /\ pc' = "Loop"
  /\ currentActivityPaused' = FALSE
  /\ UNCHANGED <<current, stack, life, handler, pending, sleep, generations, back, mutex,
                 render, notified>>

(* Mutant: onEnter() leaves the flag of the activity that was popped. *)
PausedAsBefore(flag) == flag

PausedAfterEnter(flag) == FALSE

Entered(lives, a) == [lives EXCEPT ![a].stage = "Entered"]

Resumed(lives, a) == [lives EXCEPT ![a].pauses = @ - 1]

EndLoop ==
  /\ pc = "Loop" /\ mutex # "Main"
  /\ pc' = "Drain"
  /\ UNCHANGED <<activities, generations, back, mutex, render, notified>>

(* onEnter() returns. *)
EndEnter ==
  /\ pc \in {"Enter", "BootEnter", "HomeEnter"} /\ mutex # "Main"
  /\ life' = Entered(life, current)
  /\ pc' = IF pc = "BootEnter" THEN "Outside" ELSE "Drain"
  /\ currentActivityPaused' = IF pc = "Enter" THEN PausedAfterEnter(currentActivityPaused)
                              ELSE currentActivityPaused
  /\ UNCHANGED <<current, stack, handler, pending, sleep, generations, back, mutex,
                 render, notified>>

(* The handler returns.  Unless it asked for something else, onResume().   *)
EndHandler ==
  /\ pc = "Handler" /\ mutex # "Main"
  /\ IF pending.action = "None"
       THEN life' = Resumed(life, current) /\ pc' = "Resume"
       ELSE life' = life /\ pc' = "Drain"
  /\ UNCHANGED <<current, stack, handler, pending, currentActivityPaused, sleep,
                 generations, back, mutex, render, notified>>

EndResume ==
  /\ pc = "Resume" /\ mutex # "Main"
  /\ pc' = "Drain"
  /\ currentActivityPaused' = FALSE
  /\ requestedUpdate' = TRUE
  /\ UNCHANGED <<current, stack, life, handler, pending, sleep, requested, completed,
                 waiting, waitTarget, frame, back, mutex, render, notified>>

HandlerTaken(a) == handler \ {a}

(* Pop: onExit() and the destructor of the current activity; the one below *)
(* comes back with its result handler called, or with onResume() when it   *)
(* has none, or Home is launched.                                          *)
Pop ==
  /\ pc = "Drain" /\ pending.action = "Pop" /\ MutexFree
  /\ pending' = NoPending
  /\ LET left == Drop(life, {current})
         below == Last(stack)
     IN IF stack = <<>>
       THEN /\ current' = None
            /\ handler' = handler \ {current}
            /\ life' = left
            /\ pc' = "GoHome"
            /\ UNCHANGED <<stack, currentActivityPaused>>
       ELSE /\ current' = below
            /\ stack' = Front(stack)
            /\ currentActivityPaused' = TRUE
            /\ handler' = HandlerTaken(below) \ {current}
            /\ IF below \in handler
                 THEN pc' = "Handler" /\ life' = left
                 ELSE pc' = "Resume" /\ life' = Resumed(left, below)
  /\ UNCHANGED <<sleep, generations, back, mutex, render, notified>>

(* goHome() with no current activity: Home is assigned without the mutex,  *)
(* and its onEnter() navigates nowhere.                                    *)
GoHome(a) ==
  /\ pc = "GoHome"
  /\ Fresh(a)
  /\ current' = a
  /\ life' = [life EXCEPT ![a].stage = "Ready"]
  /\ pc' = "HomeEnter"
  /\ UNCHANGED <<stack, handler, pending, currentActivityPaused, sleep, generations, back,
                 mutex, render, notified>>

(* Replace: the current activity and everything below it are deleted. *)
Replace ==
  /\ pc = "Drain" /\ pending.action = "Replace" /\ MutexFree
  /\ life' = Drop(life, {current} \cup ToSet(stack))
  /\ handler' = {}
  /\ stack' = <<>>
  /\ current' = pending.activity
  /\ pending' = NoPending
  /\ pc' = "Enter"
  /\ UNCHANGED <<currentActivityPaused, sleep, generations, back, mutex, render, notified>>

(* Push: the current activity stays alive below the new one. *)
Push ==
  /\ pc = "Drain" /\ pending.action = "Push" /\ MutexFree
  /\ life' = IF currentActivityPaused THEN life ELSE [life EXCEPT ![current].pauses = @ + 1]
  /\ stack' = Append(stack, current)
  /\ current' = pending.activity
  /\ pending' = NoPending
  /\ pc' = "Enter"
  /\ UNCHANGED <<handler, currentActivityPaused, sleep, generations, back, mutex, render,
                 notified>>

EndDrain ==
  /\ pc = "Drain" /\ pending.action = "None"
  /\ pc' = "Publish"
  /\ UNCHANGED <<activities, generations, back, mutex, render, notified>>

AfterLoop == IF sleep # None THEN "Asleep" ELSE "Outside"

(* requestedUpdate.exchange(false): the deferred updates become a request. *)
(* (Without room for a request they stay deferred until the next loop.)    *)
Publish ==
  /\ pc = "Publish"
  /\ IF requestedUpdate /\ RoomToRequest
       THEN /\ NewGeneration
            /\ requestedUpdate' = FALSE
            /\ pc' = "Notify" /\ back' = AfterLoop
       ELSE /\ pc' = AfterLoop
            /\ UNCHANGED <<requestedUpdate, requested, frame, back>>
  /\ UNCHANGED <<activities, completed, waiting, waitTarget, mutex, render, notified>>

(* Mutant: a busy render task is not notified. *)
NotifiedIfIdle == render.pc = "Idle"

NotifiedAlways == TRUE

Notify ==
  /\ pc \in {"Notify", "WaitNotify"}
  /\ notified' = [notified EXCEPT !.render = @ \/ NotifiedAlways]
  /\ IF pc = "Notify" THEN pc' = back /\ back' = "Outside"
                       ELSE pc' = "Waiting" /\ back' = back
  /\ UNCHANGED <<activities, generations, mutex, render>>

(* Mutant: any notification ends the wait. *)
AnyWakeUp == TRUE

WaitIsOver == Reached(completed, waitTarget)

WakeUp ==
  /\ pc = "Waiting" /\ notified.main
  /\ notified' = [notified EXCEPT !.main = FALSE]
  /\ IF WaitIsOver THEN pc' = back /\ back' = "Outside" /\ waitTarget' = 0
                   ELSE UNCHANGED <<pc, back, waitTarget>>
  /\ UNCHANGED <<activities, requestedUpdate, requested, completed, waiting, frame, mutex,
                 render>>

(* Deep sleep ends in a reset. *)
Reset ==
  /\ pc = "Asleep" /\ mutex = "Free"
  /\ current' = None /\ stack' = <<>> /\ sleep' = None
  /\ life' = [a \in Activity |-> NoLife]
  /\ handler' = {} /\ pending' = NoPending
  /\ pc' = "Outside" /\ back' = "Outside" /\ currentActivityPaused' = FALSE
  /\ requestedUpdate' = FALSE /\ requested' = 0 /\ completed' = 0
  /\ waiting' = -1 /\ waitTarget' = 0
  /\ mutex' = "Free"
  /\ render' = [pc |-> "Idle", target |-> 0, activity |-> None, waiter |-> FALSE]
  /\ notified' = [main |-> FALSE, render |-> FALSE]
  /\ frame' = "Shown"

-----------------------------------------------------------------------------
(* renderTaskLoop() *)

TakeNotification ==
  /\ render.pc = "Idle" /\ notified.render
  /\ notified' = [notified EXCEPT !.render = FALSE]
  /\ render' = [render EXCEPT !.pc = "Load"]
  /\ UNCHANGED <<activities, generations, pc, back, mutex>>

LoadTarget ==
  /\ render.pc = "Load"
  /\ render' = [render EXCEPT !.pc = "Lock", !.target = requested]
  /\ UNCHANGED <<activities, generations, pc, back, mutex, notified>>

(* The mutex is taken, currentActivity is read and drawing starts. *)
StartRender ==
  /\ render.pc = "Lock" /\ mutex = "Free"
  /\ mutex' = "Render"
  /\ render' = [render EXCEPT !.pc = "Render", !.activity = current]
  /\ frame' = IF frame = "Stale" THEN "Drawing" ELSE frame
  /\ UNCHANGED <<activities, requestedUpdate, requested, completed, waiting, waitTarget,
                 pc, back, notified>>

(* A render() that finds its work unfinished asks for another. *)
RenderRequestsUpdate ==
  /\ render.pc = "Render" /\ render.activity # None
  /\ ~requestedUpdate
  /\ requestedUpdate' = TRUE
  /\ UNCHANGED <<activities, requested, completed, waiting, waitTarget, frame, pc, back,
                 mutex, render, notified>>

(* Mutant: the generation that is acknowledged is read after drawing. *)
LatestGeneration == requested

AckedGeneration == render.target

(* render() returned; the critical section that acknowledges it. *)
Complete ==
  /\ render.pc = "Render"
  /\ completed' = AckedGeneration
  /\ LET release == waiting # -1 /\ Reached(AckedGeneration, waiting) IN
       /\ waiting' = IF release THEN -1 ELSE waiting
       /\ render' = [render EXCEPT !.pc = "Wake", !.activity = None, !.waiter = release]
  /\ frame' = IF frame = "Drawing" THEN "Shown" ELSE frame
  /\ UNCHANGED <<activities, requestedUpdate, requested, waitTarget, pc, back, mutex, notified>>

(* The waiter is notified and the RenderLock goes out of scope. *)
Wake ==
  /\ render.pc = "Wake"
  /\ notified' = [notified EXCEPT !.main = @ \/ render.waiter]
  /\ render' = [render EXCEPT !.pc = "Idle", !.target = 0, !.waiter = FALSE]
  /\ mutex' = "Free"
  /\ UNCHANGED <<activities, generations, pc, back>>

(* External: a driver uses the notification of the main task too. *)
OtherNotification ==
  /\ pc = "Waiting" /\ ~notified.main
  /\ notified' = [notified EXCEPT !.main = TRUE]
  /\ UNCHANGED <<activities, generations, pc, back, mutex, render>>

-----------------------------------------------------------------------------
ActivityCalls ==
  \/ \E a \in Activity : StartActivity(a) \/ ReplaceActivity(a) \/ LaunchFirst(a) \/ GoToSleep(a)
  \/ Finish \/ RequestUpdate \/ RequestImmediateUpdate \/ RequestUpdateAndWait
  \/ LockInCallback

MainTask ==
  \/ BeginLoop \/ EndLoop \/ EndEnter \/ EndHandler \/ EndResume
  \/ Pop \/ Replace \/ Push \/ EndDrain \/ Publish \/ Notify \/ WakeUp \/ Reset
  \/ UnlockInCallback
  \/ \E a \in Activity : GoHome(a)

RenderTask == TakeNotification \/ LoadTarget \/ StartRender \/ Complete \/ Wake

Next == ActivityCalls \/ MainTask \/ RenderTask \/ RenderRequestsUpdate \/ OtherNotification

Spec == Init /\ [][Next]_vars

-----------------------------------------------------------------------------
TypeOK ==
  /\ current \in Activity \cup {None} /\ sleep \in Activity \cup {None}
  /\ stack \in Seq(Activity)
  /\ life \in [Activity -> Life]
  /\ handler \subseteq Activity
  /\ pending \in [action : {"None", "Push", "Pop", "Replace"}, activity : Activity \cup {None}]
  /\ pc \in MainPc /\ back \in MainPc
  /\ currentActivityPaused \in BOOLEAN
  /\ requestedUpdate \in BOOLEAN
  /\ requested \in Generation /\ completed \in Generation
  /\ waiting \in Generation \cup {-1} /\ waitTarget \in Generation
  /\ mutex \in {"Free", "Main", "Render"}
  /\ render \in [pc : RenderPc, target : Generation, activity : Activity \cup {None},
                 waiter : BOOLEAN]
  /\ notified \in [main : BOOLEAN, render : BOOLEAN]
  /\ frame \in {"Stale", "Drawing", "Shown"}

(* The render task never draws an activity that has been deleted, and what *)
(* it draws stays the current one until it is done.                        *)
RendersLiveActivity ==
  render.activity # None => render.activity = current /\ life[current].stage # "Absent"

(* Between two loops every activity under the current one has been paused  *)
(* exactly once more than resumed and the current one exactly as often,    *)
(* whatever chain of handlers and onEnter() calls led there: the readers   *)
(* count reading time between these calls.  And no result handler is left  *)
(* behind on an activity without a child, which would get the result of    *)
(* its next child.                                                         *)
StackInOrder ==
  pc = "Outside" /\ current # None =>
    /\ life[current].pauses = 0
    /\ \A i \in DOMAIN stack : life[stack[i]].pauses = 1
    /\ pending.action = "None" => handler \subseteq ToSet(stack)

(* Once the completed generation is the requested one, the panel shows a   *)
(* frame whose drawing began after the last request: a page turn is never  *)
(* acknowledged by the frame before it.                                    *)
AcknowledgedIsShown == completed = requested => frame = "Shown"

(* requestUpdateAndWait() does not return before such a frame is complete. *)
WaitIsHonest == [][pc = "Waiting" /\ pc' # "Waiting" => frame = "Shown"]_vars

(* When goToSleep() returns, the Sleep activity is the one on the screen   *)
(* (ActivityManager.cpp:351, "sleep screen must be rendered immediately",  *)
(* and :422-434, a pending activity that is replaced "should never happen  *)
(* in practice").                                                          *)
SleepIsShown == pc = "Asleep" => current = sleep

-----------------------------------------------------------------------------
(* Liveness.  Both tasks are scheduled; callbacks return; main.cpp delays  *)
(* between two loops, so that a render task that wants the mutex gets it.  *)
Fairness ==
  /\ WF_vars(MainTask)
  /\ WF_vars(TakeNotification) /\ WF_vars(LoadTarget) /\ SF_vars(StartRender)
  /\ WF_vars(Complete) /\ WF_vars(Wake)

FairSpec == Spec /\ Fairness

(* No wake-up is lost: a task in requestUpdateAndWait() gets out again. *)
WaitReturns == pc = "Waiting" ~> pc # "Waiting"

(* Every request is acknowledged in the end. *)
RequestsComplete == \A g \in Generation : (requested = g) ~> Reached(completed, g)

=============================================================================
