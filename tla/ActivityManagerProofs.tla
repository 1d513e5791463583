----------------------- MODULE ActivityManagerProofs ------------------------
(***************************************************************************)
(* Theorems about ActivityManager, for any number of activity objects, any *)
(* size of the generation counter, with and without sleep.                 *)
(*                                                                         *)
(* What the run checks between two loops, or at the end of a wait, is not  *)
(* inductive.  IInv adds where the generations stand between the completed *)
(* and the requested one (Counted), who holds the mutex (Exclusive), which *)
(* objects exist (Alive), how often each has been paused while the main    *)
(* task is in each of the callbacks (Paused), and whose handler is set     *)
(* (Handled).                                                              *)
(***************************************************************************)
EXTENDS ActivityManager, TLAPS

(* The callback that runs, also while it waits for the render task. *)
At == IF pc \in {"Notify", "WaitNotify", "Waiting"} THEN back ELSE pc

(* How many requests were made after generation g. *)
Ahead(r, g) == IF r >= g THEN r - g ELSE r - g + Modulus
Lag(g) == Ahead(requested, g)

(* Everything lies between the completed generation and the requested one. *)
Counted ==
  /\ Lag(completed) < Half
  /\ render.pc \in {"Lock", "Render"} => Lag(render.target) <= Lag(completed)
  /\ waiting # -1 => Lag(waiting) < Lag(completed)
  /\ pc \in {"WaitNotify", "Waiting"} => waitTarget = requested
  /\ frame # "Shown" => Lag(completed) > 0
  /\ frame = "Drawing" => render.pc = "Render"
  /\ frame = "Stale" /\ render.pc = "Render" => Lag(render.target) > 0

(* The render task draws under the mutex, and only then. *)
Exclusive ==
  /\ render.pc \in {"Render", "Wake"} <=> mutex = "Render"
  /\ render.activity # None => render.pc = "Render" /\ render.activity = current

Below == ToSet(stack)

Empty == stack = <<>> /\ pending = NoPending /\ handler = {}

(* The current activity, those below it and the pending one are different  *)
(* objects, and they are the objects that exist.                           *)
Alive ==
  /\ \A a \in Activity : IF a \in Below \cup {current, pending.activity}
                         THEN life[a].stage # "Absent" ELSE life[a] = NoLife
  /\ current = None => pc \in {"Outside", "GoHome"} /\ Empty
  /\ pc = "GoHome" => current = None
  /\ pending.activity # None <=> pending.action \in {"Push", "Replace"}
  /\ pending.activity # None => life[pending.activity] = [stage |-> "Ready", pauses |-> 0]
  /\ pending.activity # None => pending.activity # current /\ pending.activity \notin Below
  /\ current \notin Below
  /\ \A i, j \in DOMAIN stack : stack[i] = stack[j] => i = j

(* How often each object has been paused, where the main task is. *)
Paused ==
  /\ \A a \in Below : life[a].pauses = 1
  /\ current # None => life[current].pauses =
       IF At = "Handler" \/ (At = "Drain" /\ currentActivityPaused /\ pending.action # "None")
       THEN 1 ELSE 0
  /\ At = "Handler" => currentActivityPaused
  /\ At = "Loop" => ~currentActivityPaused
  /\ At \in {"HomeEnter", "Publish"} => pending.action = "None"
  /\ pc \notin {"Notify", "WaitNotify", "Waiting"} => back = "Outside"
  /\ back \in Callback \cup {"Asleep"}

(* Who waits for a result. *)
Handled ==
  /\ handler \subseteq Below \cup {current}
  /\ pending.action = "None" => handler \subseteq Below

(* The types, of the objects and of the two tasks. *)
Objects ==
  /\ current \in Activity \cup {None} /\ sleep \in Activity \cup {None}
  /\ stack \in Seq(Activity)
  /\ life \in [Activity -> Life]
  /\ handler \subseteq Activity
  /\ pending \in [action : {"None", "Push", "Pop", "Replace"}, activity : Activity \cup {None}]

Tasks ==
  /\ pc \in MainPc /\ back \in MainPc
  /\ currentActivityPaused \in BOOLEAN
  /\ requestedUpdate \in BOOLEAN
  /\ requested \in Generation /\ completed \in Generation
  /\ waiting \in Generation \cup {-1} /\ waitTarget \in Generation
  /\ mutex \in {"Free", "Main", "Render"}
  /\ render \in [pc : RenderPc, target : Generation, activity : Activity \cup {None},
                 waiter : BOOLEAN]
  /\ notified \in [main : BOOLEAN, render : BOOLEAN]
  /\ frame \in {"Stale", "Drawing", "Shown"}

InOrder == Objects /\ Alive /\ Paused /\ Handled

IInv == Tasks /\ Counted /\ Exclusive /\ InOrder

-----------------------------------------------------------------------------
(* Arithmetic of the generation counter *)

LEMMA HalfIsHalf == Half \in Nat /\ Half >= 3 /\ Modulus = 2 * Half
<1>1. ASSUME NEW m \in Nat, m >= 6, m % 2 = 0
      PROVE  m \div 2 \in Nat /\ m \div 2 >= 3 /\ m = 2 * (m \div 2)
  BY <1>1, Z3
<1> QED
  BY <1>1, ActivityAssumption DEF Half

LEMMA Difference ==
  ASSUME NEW x \in Generation, NEW y \in Generation
  PROVE  (x - y) % Modulus = IF x >= y THEN x - y ELSE x - y + Modulus
<1>1. ASSUME NEW m \in Nat, m > 0, NEW z \in Int, -m < z, z < m
      PROVE  z % m = IF z >= 0 THEN z ELSE z + m
  BY <1>1, Z3
<1>2. Modulus \in Nat /\ Modulus > 0 /\ x - y \in Int /\ -Modulus < x - y /\ x - y < Modulus
  BY ActivityAssumption DEF Generation
<1>3. x - y >= 0 <=> x >= y
  BY DEF Generation
<1> QED
  BY <1>1, <1>2, <1>3

LEMMA NextIs ==
  ASSUME NEW x \in Generation
  PROVE  NextGeneration(x) = IF x = Modulus - 1 THEN 0 ELSE x + 1
<1>1. ASSUME NEW m \in Nat, m > 0, NEW z \in 0..m
      PROVE  z % m = IF z = m THEN 0 ELSE z
  BY <1>1, Z3
<1>2. Modulus \in Nat /\ Modulus > 0 /\ x + 1 \in 0..Modulus
  BY ActivityAssumption DEF Generation
<1>3. (x + 1) % Modulus = IF x + 1 = Modulus THEN 0 ELSE x + 1
  BY <1>1, <1>2
<1>4. x + 1 = Modulus <=> x = Modulus - 1
  BY <1>2 DEF Generation
<1> QED
  BY <1>3, <1>4 DEF NextGeneration

LEMMA LagIsNat ==
  ASSUME requested \in Generation, NEW g \in Generation
  PROVE  Lag(g) \in Nat
BY HalfIsHalf DEF Lag, Ahead, Generation

LEMMA ReachedMeans ==
  ASSUME requested \in Generation, NEW x \in Generation, NEW y \in Generation,
         Lag(x) < Half, Lag(y) < Half
  PROVE  Reached(x, y) <=> Lag(x) <= Lag(y)
BY Difference, HalfIsHalf DEF Reached, Lag, Ahead, Generation

LEMMA RoomMeans ==
  ASSUME requested \in Generation, completed \in Generation
  PROVE  RoomToRequest <=> Lag(completed) < Half - 1
BY Difference DEF RoomToRequest, Lag, Ahead

LEMMA OneMore ==
  ASSUME requested \in Generation, completed \in Generation, NewGeneration
  PROVE  /\ requested' \in Generation
         /\ Ahead(requested', requested') = 0
         /\ \A g \in Generation : Lag(g) < Half - 1 => Ahead(requested', g) = Lag(g) + 1
         /\ Lag(completed) < Half - 1 /\ frame' = "Stale"
<1>1. requested' = IF requested = Modulus - 1 THEN 0 ELSE requested + 1
  BY NextIs DEF NewGeneration
<1>2. requested' \in Generation
  BY <1>1, HalfIsHalf DEF Generation
<1>3. ASSUME NEW g \in Generation, Lag(g) < Half - 1
      PROVE  Ahead(requested', g) = Lag(g) + 1
  BY <1>1, <1>3, HalfIsHalf DEF Lag, Ahead, Generation
<1>4. Ahead(requested', requested') = 0
  <2>1. \A g \in Generation : Ahead(g, g) = 0
    BY HalfIsHalf DEF Ahead, Generation
  <2> QED
    BY <1>2, <2>1
<1> QED
  BY <1>2, <1>3, <1>4, RoomMeans DEF NewGeneration

-----------------------------------------------------------------------------
(* Sequences *)

LEMMA Appended ==
  ASSUME NEW s \in Seq(Activity), NEW a \in Activity
  PROVE  /\ Append(s, a) \in Seq(Activity)
         /\ ToSet(Append(s, a)) = ToSet(s) \cup {a}
         /\ DOMAIN Append(s, a) = 1..(Len(s) + 1)
         /\ \A i \in 1..Len(s) : Append(s, a)[i] = s[i]
         /\ Append(s, a)[Len(s) + 1] = a
<1>1. /\ Append(s, a) \in Seq(Activity)
      /\ DOMAIN Append(s, a) = 1..(Len(s) + 1)
      /\ \A i \in 1..Len(s) : Append(s, a)[i] = s[i]
      /\ Append(s, a)[Len(s) + 1] = a
      /\ DOMAIN s = 1..Len(s) /\ Len(s) \in Nat
  OBVIOUS
<1>2. ToSet(Append(s, a)) \subseteq ToSet(s) \cup {a}
  BY <1>1 DEF ToSet
<1>3. \A i \in 1..Len(s) : i \in 1..(Len(s) + 1)
  BY <1>1
<1>4. ToSet(s) \subseteq ToSet(Append(s, a))
  BY <1>1, <1>3 DEF ToSet
<1>5. a \in ToSet(Append(s, a))
  BY <1>1 DEF ToSet
<1> QED
  BY <1>1, <1>2, <1>4, <1>5

LEMMA Popped ==
  ASSUME NEW s \in Seq(Activity), s # <<>>,
         \A i, j \in DOMAIN s : s[i] = s[j] => i = j
  PROVE  /\ Front(s) \in Seq(Activity) /\ Last(s) \in Activity
         /\ ToSet(s) = ToSet(Front(s)) \cup {Last(s)}
         /\ Last(s) \notin ToSet(Front(s))
         /\ \A i, j \in DOMAIN Front(s) : Front(s)[i] = Front(s)[j] => i = j
<1>1. Len(s) \in Nat /\ Len(s) >= 1 /\ DOMAIN s = 1..Len(s) /\ \A i \in 1..Len(s) : s[i] \in Activity
  OBVIOUS
<1>2. /\ Front(s) \in Seq(Activity) /\ DOMAIN Front(s) = 1..(Len(s) - 1)
      /\ \A i \in 1..(Len(s) - 1) : Front(s)[i] = s[i]
  BY <1>1 DEF Front
<1>3. ASSUME NEW n \in Nat, n >= 1
      PROVE  /\ \A i \in 1..(n - 1) : i \in 1..n /\ i # n
             /\ n \in 1..n
             /\ \A i \in 1..n : i \in 1..(n - 1) \/ i = n
  BY <1>3
<1>4. /\ \A i \in 1..(Len(s) - 1) : i \in 1..Len(s) /\ i # Len(s)
      /\ Len(s) \in 1..Len(s)
      /\ \A i \in 1..Len(s) : i \in 1..(Len(s) - 1) \/ i = Len(s)
  BY <1>1, <1>3
<1>5. ToSet(Front(s)) = {s[i] : i \in 1..(Len(s) - 1)} /\ ToSet(s) = {s[i] : i \in 1..Len(s)}
  BY <1>1, <1>2 DEF ToSet
<1>6. ToSet(s) = ToSet(Front(s)) \cup {Last(s)}
  BY <1>4, <1>5 DEF Last
<1>7. Last(s) \notin ToSet(Front(s))
  BY <1>1, <1>4, <1>5 DEF Last
<1>8. Last(s) \in Activity
  BY <1>1, <1>4 DEF Last
<1>9. \A i, j \in DOMAIN Front(s) : Front(s)[i] = Front(s)[j] => i = j
  BY <1>1, <1>2, <1>4
<1> QED
  BY <1>2, <1>6, <1>7, <1>8, <1>9

-----------------------------------------------------------------------------
(* The tasks *)

LEMMA ZeroIsGeneration == 0 \in Generation
BY ActivityAssumption DEF Generation

LEMMA TasksTyped ==
  ASSUME IInv, Next
  PROVE  Tasks'
<1> USE DEF Tasks
<1>1. Tasks /\ current \in Activity \cup {None}
  BY DEF IInv, InOrder, Objects
<1>2. NewGeneration => requested' \in Generation /\ frame' = "Stale"
  BY <1>1, OneMore
<1>3. CASE \E a \in Activity : StartActivity(a) \/ ReplaceActivity(a) \/ LaunchFirst(a) \/ GoToSleep(a)
  <2>1. PICK a \in Activity : StartActivity(a) \/ ReplaceActivity(a) \/ LaunchFirst(a) \/ GoToSleep(a)
    BY <1>3
  <2>2. CASE StartActivity(a)
    BY <1>1, <2>2 DEF StartActivity, generations
  <2>3. CASE ReplaceActivity(a)
    BY <1>1, <2>3 DEF ReplaceActivity, generations
  <2>4. CASE LaunchFirst(a)
    BY <1>1, <2>4 DEF LaunchFirst, generations, MainPc, Callback
  <2>5. CASE GoToSleep(a)
    BY <1>1, <2>5 DEF GoToSleep, generations, MainPc, Callback
  <2> QED
    BY <2>1, <2>2, <2>3, <2>4, <2>5
<1>4. CASE Finish \/ RequestUpdate \/ LockInCallback \/ UnlockInCallback
  BY <1>1, <1>4 DEF Finish, RequestUpdate, LockInCallback, UnlockInCallback, activities, generations
<1>5. CASE RequestImmediateUpdate \/ RequestUpdateAndWait
  BY <1>1, <1>2, <1>5 DEF RequestImmediateUpdate, RequestUpdateAndWait, activities, MainPc
<1>6. CASE BeginLoop \/ EndLoop \/ EndDrain
  BY <1>1, <1>6 DEF BeginLoop, EndLoop, EndDrain, activities, generations, MainPc, Callback
<1>16. CASE EndEnter
  <2>1. currentActivityPaused' = FALSE \/ currentActivityPaused' = currentActivityPaused
    BY <1>16 DEF EndEnter, PausedAfterEnter
  <2>2. pc' \in MainPc
    BY <1>16 DEF EndEnter, MainPc, Callback
  <2> QED
    BY <1>1, <1>16, <2>1, <2>2 DEF EndEnter, generations
<1>17. CASE EndHandler
  BY <1>1, <1>17 DEF EndHandler, generations, MainPc, Callback
<1>18. CASE EndResume
  BY <1>1, <1>18 DEF EndResume, MainPc, Callback
<1>7. CASE Pop \/ Replace \/ Push
  BY <1>1, <1>7 DEF Pop, Replace, Push, generations, MainPc, Callback
<1>8. CASE Publish
  <2>1. AfterLoop \in MainPc /\ {"Notify", "Outside", "Asleep"} \subseteq MainPc
    BY DEF AfterLoop, MainPc, Callback
  <2>2. CASE requestedUpdate /\ RoomToRequest
    BY <1>1, <1>2, <1>8, <2>1, <2>2 DEF Publish, activities
  <2>3. CASE ~(requestedUpdate /\ RoomToRequest)
    BY <1>1, <1>8, <2>1, <2>3 DEF Publish, activities
  <2> QED
    BY <2>2, <2>3
<1>9. CASE Notify
  <2>1. notified' \in [main : BOOLEAN, render : BOOLEAN]
    BY <1>1, <1>9 DEF Notify, NotifiedAlways
  <2> QED
    BY <1>1, <1>9, <2>1 DEF Notify, activities, generations, MainPc, Callback
<1>19. CASE WakeUp
  <2>1. notified' \in [main : BOOLEAN, render : BOOLEAN]
    BY <1>1, <1>19 DEF WakeUp
  <2>2. pc' \in MainPc /\ back' \in MainPc /\ waitTarget' \in Generation
    BY <1>1, <1>19, ZeroIsGeneration DEF WakeUp, MainPc, Callback
  <2> QED
    BY <1>1, <1>19, <2>1, <2>2 DEF WakeUp, activities
<1>10. CASE Reset
  BY <1>1, <1>10, ZeroIsGeneration DEF Reset, MainPc, Callback, RenderPc
<1>11. CASE \E a \in Activity : GoHome(a)
  BY <1>1, <1>11 DEF GoHome, generations, MainPc, Callback
<1>12. CASE TakeNotification \/ LoadTarget \/ StartRender
  BY <1>1, <1>12 DEF TakeNotification, LoadTarget, StartRender, activities, generations, RenderPc
<1>13. CASE Complete
  BY <1>1, <1>13 DEF Complete, AckedGeneration, activities, RenderPc
<1>14. CASE Wake
  BY <1>1, <1>14, ZeroIsGeneration DEF Wake, activities, generations, RenderPc
<1>15. CASE RenderRequestsUpdate \/ OtherNotification
  BY <1>1, <1>15 DEF RenderRequestsUpdate, OtherNotification, activities, generations
<1> QED
  BY <1>3, <1>4, <1>5, <1>6, <1>7, <1>8, <1>9, <1>10, <1>11, <1>12, <1>13, <1>14, <1>15,
     <1>16, <1>17, <1>18, <1>19
  DEF Next, ActivityCalls, MainTask, RenderTask

LEMMA CountedKept ==
  ASSUME IInv, Next
  PROVE  Counted'
<1> USE DEF Counted
<1>1. /\ Counted /\ requested \in Generation /\ completed \in Generation /\ waitTarget \in Generation
      /\ waiting \in Generation \cup {-1} /\ render.target \in Generation
      /\ render.pc \in RenderPc /\ frame \in {"Stale", "Drawing", "Shown"}
      /\ render \in [pc : RenderPc, target : Generation, activity : Activity \cup {None},
                     waiter : BOOLEAN]
  BY DEF IInv, Tasks
<1>2. back \in Callback \cup {"Asleep"}
  BY DEF IInv, InOrder, Paused
<1> DEFINE Still ==
      /\ UNCHANGED <<requested, completed, waiting, waitTarget, frame, render>>
      /\ pc' \in {"WaitNotify", "Waiting"} => pc \in {"WaitNotify", "Waiting"}
<1>3. Still => Counted'
  BY <1>1 DEF Lag
<1> HIDE DEF Still
<1>4. CASE \E a \in Activity : \/ StartActivity(a) \/ ReplaceActivity(a) \/ LaunchFirst(a)
                               \/ GoToSleep(a) \/ GoHome(a)
  <2>1. Still
    BY <1>4 DEF StartActivity, ReplaceActivity, LaunchFirst, GoToSleep, GoHome, generations, Still
  <2> QED
    BY <2>1, <1>3
<1>5. CASE Finish \/ RequestUpdate \/ LockInCallback \/ UnlockInCallback
  <2>1. Still
    BY <1>5 DEF Finish, RequestUpdate, LockInCallback, UnlockInCallback, generations, Still
  <2> QED
    BY <2>1, <1>3
<1>6. CASE BeginLoop \/ EndLoop \/ EndEnter \/ EndHandler \/ EndResume \/ EndDrain
  <2>1. Still
    BY <1>6 DEF BeginLoop, EndLoop, EndEnter, EndHandler, EndResume, EndDrain, generations, Still
  <2> QED
    BY <2>1, <1>3
<1>7. CASE Pop \/ Replace \/ Push
  <2>1. Still
    BY <1>7 DEF Pop, Replace, Push, generations, Still
  <2> QED
    BY <2>1, <1>3
<1>8. CASE Notify \/ RenderRequestsUpdate \/ OtherNotification
  <2>1. Still
    BY <1>2, <1>8 DEF Notify, RenderRequestsUpdate, OtherNotification, generations, Still, Callback
  <2> QED
    BY <2>1, <1>3
<1>9. CASE WakeUp
  BY <1>1, <1>2, <1>9 DEF WakeUp, Lag, Callback
<1>10. CASE Reset
  BY <1>10, HalfIsHalf DEF Reset, Lag, Ahead
<1>11. ASSUME NewGeneration, UNCHANGED <<completed, render>>,
              \/ waiting' = waiting
              \/ waiting' = requested'
       PROVE  /\ Lag(completed)' < Half /\ Lag(completed)' > 0 /\ frame' = "Stale"
              /\ render.pc \in {"Lock", "Render"} =>
                   Lag(render.target)' <= Lag(completed)' /\ Lag(render.target)' > 0
              /\ (waiting # -1)' => Lag(waiting)' < Lag(completed)'
  <2>1. /\ requested' \in Generation /\ Lag(completed) < Half - 1 /\ frame' = "Stale"
        /\ Ahead(requested', requested') = 0
        /\ \A g \in Generation : Lag(g) < Half - 1 => Ahead(requested', g) = Lag(g) + 1
    BY <1>1, <1>11, OneMore
  <2>2. Lag(completed)' = Lag(completed) + 1 /\ Lag(completed) \in Nat
    BY <1>1, <1>11, <2>1, LagIsNat DEF Lag
  <2>3. render.pc \in {"Lock", "Render"} =>
          Lag(render.target) \in Nat /\ Lag(render.target)' = Lag(render.target) + 1
    <3>1. render.pc \in {"Lock", "Render"} => Lag(render.target) < Half - 1
      BY <1>1, <2>1, <2>2, LagIsNat, HalfIsHalf
    <3>2. Lag(render.target)' = Ahead(requested', render.target)
      BY <1>11 DEF Lag
    <3> QED
      BY <1>1, <2>1, <3>1, <3>2, LagIsNat
  <2>4. (waiting # -1)' => Lag(waiting)' < Lag(completed)'
    <3>1. CASE waiting' = requested'
      <4>1. Lag(waiting)' = 0
        BY <2>1, <3>1 DEF Lag
      <4> QED
        BY <2>2, <4>1
    <3>2. CASE waiting' = waiting /\ waiting # -1
      <4>1. waiting \in Generation /\ Lag(waiting) \in Nat /\ Lag(waiting) < Lag(completed)
        BY <1>1, <3>2, LagIsNat
      <4>2. Lag(waiting) < Half - 1
        BY <2>1, <2>2, <4>1, HalfIsHalf
      <4>3. Lag(waiting)' = Lag(waiting) + 1
        BY <2>1, <3>2, <4>1, <4>2 DEF Lag
      <4> QED
        BY <2>2, <4>1, <4>3
    <3> QED
      BY <1>11, <3>1, <3>2
  <2> QED
    BY <1>1, <2>1, <2>2, <2>3, <2>4, HalfIsHalf
<1>12. CASE RequestImmediateUpdate
  BY <1>1, <1>11, <1>12 DEF RequestImmediateUpdate, Calling, Callback
<1>13. CASE RequestUpdateAndWait
  BY <1>1, <1>11, <1>13 DEF RequestUpdateAndWait
<1>14. CASE Publish
  <2>1. CASE requestedUpdate /\ RoomToRequest
    BY <1>1, <1>11, <1>14, <2>1 DEF Publish
  <2>2. CASE ~(requestedUpdate /\ RoomToRequest)
    <3>1. Still
      BY <1>14, <2>2 DEF Publish, AfterLoop, Still
    <3> QED
      BY <3>1, <1>3
  <2> QED
    BY <2>1, <2>2
<1>15. CASE TakeNotification
  BY <1>1, <1>15 DEF TakeNotification, generations, Lag
<1>16. CASE LoadTarget
  <2>1. /\ UNCHANGED <<requested, completed, waiting, waitTarget, frame, pc>>
        /\ render'.pc = "Lock" /\ render'.target = requested /\ render.pc = "Load"
    BY <1>1, <1>16 DEF LoadTarget, generations
  <2>2. Lag(requested) = 0 /\ Lag(completed) >= 0
    BY <1>1, HalfIsHalf DEF Lag, Ahead, Generation
  <2> QED
    BY <1>1, <2>1, <2>2 DEF Lag
<1>17. CASE StartRender
  <2>1. /\ UNCHANGED <<requested, completed, waiting, waitTarget, pc>>
        /\ render'.pc = "Render" /\ render'.target = render.target /\ render.pc = "Lock"
        /\ frame' = IF frame = "Stale" THEN "Drawing" ELSE frame
    BY <1>1, <1>17 DEF StartRender
  <2> QED
    BY <1>1, <2>1 DEF Lag
<1>18. CASE Complete
  <2>1. /\ UNCHANGED <<requested, waitTarget, pc>>
        /\ render'.pc = "Wake" /\ render.pc = "Render" /\ completed' = render.target
        /\ frame' = IF frame = "Drawing" THEN "Shown" ELSE frame
        /\ waiting' = IF waiting # -1 /\ Reached(render.target, waiting) THEN -1 ELSE waiting
    BY <1>1, <1>18 DEF Complete, AckedGeneration
  <2>2. Lag(completed)' = Lag(render.target) /\ Lag(render.target) < Half
    BY <1>1, <2>1, LagIsNat, HalfIsHalf DEF Lag
  <2>3. (waiting # -1)' => Lag(waiting)' < Lag(completed)'
    <3>1. waiting # -1 => (Reached(render.target, waiting) <=> Lag(render.target) <= Lag(waiting))
      <4>1. waiting # -1 => waiting \in Generation /\ Lag(waiting) < Half
        BY <1>1, LagIsNat, HalfIsHalf
      <4> QED
        BY <1>1, <2>2, <4>1, ReachedMeans
    <3>2. waiting # -1 => Lag(waiting) \in Int /\ Lag(render.target) \in Int
      BY <1>1, LagIsNat
    <3>3. waiting' # -1 => waiting' = waiting /\ Lag(waiting)' = Lag(waiting)
      BY <2>1 DEF Lag
    <3> QED
      BY <2>1, <2>2, <3>1, <3>2, <3>3
  <2> QED
    BY <1>1, <2>1, <2>2, <2>3
<1>19. CASE Wake
  BY <1>1, <1>19 DEF Wake, generations, Lag
<1> QED
  BY <1>4, <1>5, <1>6, <1>7, <1>8, <1>9, <1>10, <1>12, <1>13, <1>14, <1>15, <1>16, <1>17, <1>18, <1>19
  DEF Next, ActivityCalls, MainTask, RenderTask

LEMMA ExclusiveKept ==
  ASSUME IInv, Next
  PROVE  Exclusive'
<1> USE DEF Exclusive
<1>1. /\ Exclusive
      /\ render \in [pc : RenderPc, target : Generation, activity : Activity \cup {None},
                     waiter : BOOLEAN]
  BY DEF IInv, Tasks
<1>2. CASE \E a \in Activity : \/ StartActivity(a) \/ ReplaceActivity(a) \/ GoToSleep(a)
  BY <1>1, <1>2 DEF StartActivity, ReplaceActivity, GoToSleep
<1>3. CASE \E a \in Activity : LaunchFirst(a) \/ GoHome(a)
  <2>1. current = None
    BY <1>3 DEF LaunchFirst, GoHome, IInv, InOrder, Alive
  <2> QED
    BY <1>1, <1>3, <2>1 DEF LaunchFirst, GoHome
<1>4. CASE Finish \/ RequestUpdate \/ LockInCallback \/ UnlockInCallback
  BY <1>1, <1>4 DEF Finish, RequestUpdate, LockInCallback, UnlockInCallback, activities
<1>5. CASE RequestImmediateUpdate \/ RequestUpdateAndWait \/ Publish \/ Notify \/ WakeUp
  BY <1>1, <1>5 DEF RequestImmediateUpdate, RequestUpdateAndWait, Publish, Notify, WakeUp, activities
<1>6. CASE BeginLoop \/ EndLoop \/ EndEnter \/ EndHandler \/ EndResume \/ EndDrain
  BY <1>1, <1>6 DEF BeginLoop, EndLoop, EndEnter, EndHandler, EndResume, EndDrain, activities
<1>7. CASE Pop \/ Replace \/ Push
  BY <1>1, <1>7 DEF Pop, Replace, Push, MutexFree
<1>8. CASE Reset
  BY <1>8 DEF Reset
<1>9. CASE RenderRequestsUpdate \/ OtherNotification
  BY <1>1, <1>9 DEF RenderRequestsUpdate, OtherNotification, activities
<1>10. CASE RenderTask
  BY <1>1, <1>10 DEF RenderTask, TakeNotification, LoadTarget, StartRender, Complete, Wake, activities
<1> QED
  BY <1>2, <1>3, <1>4, <1>5, <1>6, <1>7, <1>8, <1>9, <1>10 DEF Next, ActivityCalls, MainTask

-----------------------------------------------------------------------------
(* The objects.  Most steps of the tasks leave them alone. *)

LEMMA DropKeeps ==
  ASSUME NEW lives \in [Activity -> Life], NEW gone
  PROVE  /\ Drop(lives, gone) \in [Activity -> Life]
         /\ \A a \in Activity : a \notin gone => Drop(lives, gone)[a] = lives[a]
         /\ \A a \in Activity : a \in gone => Drop(lives, gone)[a] = NoLife
BY DEF Drop, NoLife, Life

LEMMA ObjectsUntouched ==
  ASSUME IInv, UNCHANGED <<activities, pc, back>>
  PROVE  InOrder'
BY DEF IInv, InOrder, Objects, Alive, Paused, Handled, activities, At, Below, Empty

LEMMA ObjectsUncalled ==
  ASSUME IInv, UNCHANGED activities,
         At' = At \/ (At = "Publish" /\ At' \in {"Outside", "Asleep"}),
         (current = None)' => pc' = pc,
         pc' # "GoHome",
         pc' \notin {"Notify", "WaitNotify", "Waiting"} => back' = "Outside",
         back' \in Callback \cup {"Asleep"}
  PROVE  InOrder'
BY DEF IInv, InOrder, Objects, Alive, Paused, Handled, activities, Below, Empty

LEMMA Proposed ==
  ASSUME InOrder, current # None, NEW a \in Activity, NEW action \in {"Push", "Replace"},
         Propose(action, a), UNCHANGED <<current, stack>>
  PROVE  /\ life' \in [Activity -> Life]
         /\ pending' = [action |-> action, activity |-> a] /\ a # None
         /\ life'[a] = [stage |-> "Ready", pauses |-> 0]
         /\ a # current /\ a \notin Below
         /\ \A b \in Below \cup {current} : b \in Activity /\ life'[b] = life[b]
         /\ \A b \in Activity : b \notin Below \cup {current, a} => life'[b] = NoLife
<1>1. /\ life \in [Activity -> Life] /\ current \in Activity /\ stack \in Seq(Activity)
      /\ pending.activity # current
      /\ \A b \in Activity : IF b \in Below \cup {current, pending.activity}
                             THEN life[b].stage # "Absent" ELSE life[b] = NoLife
  BY DEF InOrder, Objects, Alive
<1>2. Below \subseteq Activity
  BY <1>1 DEF Below, ToSet
<1>12. pending.activity \notin Below
  BY <1>2, ActivityAssumption DEF InOrder, Alive
<1>3. /\ a \notin Below \cup {current, pending.activity} /\ life[a] = NoLife
      /\ pending' = [action |-> action, activity |-> a]
      /\ life' = [Drop(life, {pending.activity}) EXCEPT ![a].stage = "Ready"]
  BY <1>1 DEF Propose, Fresh
<1> DEFINE L == Drop(life, {pending.activity})
<1>4. /\ L \in [Activity -> Life]
      /\ \A b \in Activity : b # pending.activity => L[b] = life[b]
      /\ \A b \in Activity : b = pending.activity => L[b] = NoLife
  BY <1>1, DropKeeps
<1>5. L[a] = NoLife
  BY <1>3, <1>4
<1> HIDE DEF L
<1>6. /\ life' = [L EXCEPT ![a].stage = "Ready"]
  BY <1>3 DEF L
<1>7. life' \in [Activity -> Life] /\ \A b \in Activity : b # a => life'[b] = L[b]
  BY <1>4, <1>6 DEF Life
<1>8. life'[a] = [stage |-> "Ready", pauses |-> 0]
  BY <1>4, <1>5, <1>6 DEF NoLife
<1>9. a # current /\ a \notin Below /\ a # None
  BY <1>1, <1>3, ActivityAssumption
<1>10. \A b \in Below \cup {current} : b \in Activity /\ life'[b] = life[b]
  BY <1>1, <1>2, <1>4, <1>7, <1>9, <1>12
<1>11. \A b \in Activity : b \notin Below \cup {current, a} => life'[b] = NoLife
  BY <1>1, <1>4, <1>7
<1> QED
  BY <1>3, <1>7, <1>8, <1>9, <1>10, <1>11

LEMMA StartKeepsOrder ==
  ASSUME IInv, NEW a \in Activity, StartActivity(a) \/ ReplaceActivity(a) \/ GoToSleep(a)
  PROVE  InOrder'
<1>1. InOrder /\ Objects /\ Alive /\ Paused /\ Handled
  BY DEF IInv, InOrder
<1>2. PICK action \in {"Push", "Replace"} : Propose(action, a)
  BY DEF StartActivity, ReplaceActivity, GoToSleep
<1>3. /\ current # None /\ UNCHANGED <<current, stack>> /\ pc \in Callback
      /\ \/ UNCHANGED <<pc, back, currentActivityPaused, sleep>>
         \/ /\ pc = "Outside" /\ pc' = "Loop" /\ currentActivityPaused' = FALSE /\ sleep' = a
            /\ UNCHANGED back
      /\ handler' \in {handler, handler \ {current}, handler \cup {current}}
  BY DEF StartActivity, ReplaceActivity, GoToSleep, Calling, Callback
<1>4. /\ life' \in [Activity -> Life]
      /\ pending' = [action |-> action, activity |-> a] /\ a # None
      /\ life'[a] = [stage |-> "Ready", pauses |-> 0]
      /\ a # current /\ a \notin Below
      /\ \A b \in Below \cup {current} : b \in Activity /\ life'[b] = life[b]
      /\ \A b \in Activity : b \notin Below \cup {current, a} => life'[b] = NoLife
  BY <1>1, <1>2, <1>3, Proposed
<1>5. Below' = Below
  BY <1>3 DEF Below
<1>6. Objects'
  BY <1>1, <1>3, <1>4 DEF Objects
<1>7. Alive'
  BY <1>1, <1>3, <1>4, <1>5 DEF Alive, NoLife, Callback
<1>8. Paused'
  BY <1>1, <1>3, <1>4, <1>5 DEF Paused, At, Callback
<1>9. Handled'
  BY <1>1, <1>3, <1>4, <1>5 DEF Handled
<1> QED
  BY <1>6, <1>7, <1>8, <1>9 DEF InOrder

LEMMA FinishKeepsOrder ==
  ASSUME IInv, Finish
  PROVE  InOrder'
<1>1. InOrder /\ Objects /\ Alive /\ Paused /\ Handled
  BY DEF IInv, InOrder
<1>2. /\ current # None /\ pc \in Callback
      /\ UNCHANGED <<current, stack, handler, pc, back, currentActivityPaused, sleep>>
      /\ pending' = [action |-> "Pop", activity |-> None]
      /\ life' = Drop(life, {pending.activity})
  BY DEF Finish, Calling
<1>3. Below' = Below /\ Below \subseteq Activity
  BY <1>1, <1>2 DEF Below, ToSet, Objects
<1>4. /\ life' \in [Activity -> Life]
      /\ \A b \in Below \cup {current} : life'[b] = life[b]
      /\ \A b \in Activity : b \notin Below \cup {current} => life'[b] = NoLife
  <2>1. pending.activity \notin Below \cup {current}
    BY <1>1, <1>2, <1>3, ActivityAssumption DEF Alive
  <2>2. life \in [Activity -> Life] /\ current \in Activity
    BY <1>1, <1>2 DEF Objects
  <2>3. /\ life' \in [Activity -> Life]
        /\ \A b \in Activity : b # pending.activity => life'[b] = life[b]
        /\ \A b \in Activity : b = pending.activity => life'[b] = NoLife
    BY <1>2, <2>2, DropKeeps
  <2> QED
    BY <1>1, <1>3, <2>1, <2>2, <2>3 DEF Alive
<1>5. Objects'
  BY <1>1, <1>2, <1>4 DEF Objects
<1>6. Alive'
  <2>1. pending'.activity = None /\ pending'.action = "Pop"
    BY <1>2
  <2>2. \A a \in Activity : IF a \in Below \cup {current, None}
                            THEN life'[a].stage # "Absent" ELSE life'[a] = NoLife
    BY <1>1, <1>3, <1>4, ActivityAssumption DEF Alive
  <2> QED
    BY <1>1, <1>2, <1>3, <2>1, <2>2 DEF Alive, Callback
<1>7. Paused'
  BY <1>1, <1>2, <1>3, <1>4 DEF Paused, At, Callback
<1>8. Handled'
  BY <1>1, <1>2, <1>3 DEF Handled
<1> QED
  BY <1>5, <1>6, <1>7, <1>8 DEF InOrder

(* The first activity, or Home when nothing is left. *)
LEMMA LaunchKeepsOrder ==
  ASSUME IInv, NEW a \in Activity, LaunchFirst(a) \/ GoHome(a)
  PROVE  InOrder'
<1>1. InOrder /\ Objects /\ Alive /\ Paused /\ Handled
  BY DEF IInv, InOrder
<1>2. /\ current = None /\ current' = a
      /\ UNCHANGED <<stack, handler, pending, back, currentActivityPaused, sleep>>
      /\ life' = [life EXCEPT ![a].stage = "Ready"]
      /\ \/ pc = "Outside" /\ pc' = "BootEnter"
         \/ pc = "GoHome" /\ pc' = "HomeEnter"
  BY <1>1 DEF LaunchFirst, GoHome, Alive
<1>3. stack = <<>> /\ pending = NoPending /\ handler = {} /\ back = "Outside"
  BY <1>1, <1>2 DEF Alive, Empty, Paused
<1>4. Below = {} /\ Below' = {} /\ DOMAIN stack = {}
  BY <1>2, <1>3 DEF Below, ToSet
<1>5. life[a] = NoLife
  BY <1>1, <1>2, <1>3, <1>4, ActivityAssumption DEF Alive, NoPending
<1>6. /\ life' \in [Activity -> Life]
      /\ life'[a] = [stage |-> "Ready", pauses |-> 0]
      /\ \A b \in Activity : b # a => life'[b] = life[b]
  BY <1>1, <1>2, <1>5 DEF Objects, Life, NoLife
<1>7. Objects'
  BY <1>1, <1>2, <1>6 DEF Objects
<1>8. Alive'
  BY <1>1, <1>2, <1>3, <1>4, <1>6, ActivityAssumption DEF Alive, NoPending
<1>9. Paused'
  BY <1>1, <1>2, <1>3, <1>4, <1>6 DEF Paused, At, NoPending, Callback
<1>10. Handled'
  BY <1>2, <1>3 DEF Handled
<1> QED
  BY <1>7, <1>8, <1>9, <1>10 DEF InOrder

(* Steps of the main task that run no activity's destructor. *)
LEMMA LoopKeepsOrder ==
  ASSUME IInv, BeginLoop \/ EndLoop \/ EndResume \/ EndDrain
  PROVE  InOrder'
<1>1. InOrder /\ Objects /\ Alive /\ Paused /\ Handled
  BY DEF IInv, InOrder
<1>2. /\ UNCHANGED <<current, stack, life, handler, pending, sleep, back>>
      /\ \/ pc = "Outside" /\ pc' = "Loop" /\ currentActivityPaused' = FALSE /\ current # None
         \/ pc = "Loop" /\ pc' = "Drain" /\ UNCHANGED currentActivityPaused
         \/ pc = "Resume" /\ pc' = "Drain" /\ currentActivityPaused' = FALSE
         \/ pc = "Drain" /\ pc' = "Publish" /\ pending.action = "None" /\ UNCHANGED currentActivityPaused
  BY DEF BeginLoop, EndLoop, EndResume, EndDrain, activities
<1>3. Below' = Below /\ Empty' = Empty
  BY <1>2 DEF Below, Empty
<1>4. Objects'
  BY <1>1, <1>2 DEF Objects
<1>5. Alive'
  BY <1>1, <1>2, <1>3 DEF Alive
<1>6. Paused'
  BY <1>1, <1>2, <1>3 DEF Paused, At
<1>7. Handled'
  BY <1>1, <1>2, <1>3 DEF Handled
<1> QED
  BY <1>4, <1>5, <1>6, <1>7 DEF InOrder

LEMMA EnterKeepsOrder ==
  ASSUME IInv, EndEnter
  PROVE  InOrder'
<1>1. InOrder /\ Objects /\ Alive /\ Paused /\ Handled
  BY DEF IInv, InOrder
<1>2. /\ UNCHANGED <<current, stack, handler, pending, sleep, back>>
      /\ life' = [life EXCEPT ![current].stage = "Entered"]
      /\ \/ pc = "Enter" /\ pc' = "Drain" /\ currentActivityPaused' = FALSE
         \/ pc = "BootEnter" /\ pc' = "Outside" /\ UNCHANGED currentActivityPaused
         \/ pc = "HomeEnter" /\ pc' = "Drain" /\ UNCHANGED currentActivityPaused
  BY DEF EndEnter, Entered, PausedAfterEnter
<1>3. Below' = Below /\ Below \subseteq Activity
  BY <1>1, <1>2 DEF Below, ToSet, Objects
<1>4. current \in Activity /\ current \notin Below /\ pending.activity # current
  BY <1>1, <1>2 DEF Alive, Objects
<1>5. /\ life' \in [Activity -> Life]
      /\ life'[current].stage = "Entered" /\ life'[current].pauses = life[current].pauses
      /\ \A b \in Activity : b # current => life'[b] = life[b]
  BY <1>1, <1>2, <1>4 DEF Objects, Life
<1>6. Objects'
  BY <1>1, <1>2, <1>5 DEF Objects
<1>7. Alive'
  <2>1. pending.activity # None => pending.activity \in Activity
    BY <1>1 DEF Objects
  <2>2. \A a \in Activity : IF a \in Below \cup {current, pending.activity}
                            THEN life'[a].stage # "Absent" ELSE life'[a] = NoLife
    BY <1>1, <1>4, <1>5 DEF Alive
  <2> QED
    BY <1>1, <1>2, <1>3, <1>4, <1>5, <2>1, <2>2, ActivityAssumption DEF Alive
<1>8. Paused'
  BY <1>1, <1>2, <1>3, <1>4, <1>5 DEF Paused, At
<1>9. Handled'
  BY <1>1, <1>2, <1>3 DEF Handled
<1> QED
  BY <1>6, <1>7, <1>8, <1>9 DEF InOrder

LEMMA HandlerKeepsOrder ==
  ASSUME IInv, EndHandler
  PROVE  InOrder'
<1>1. InOrder /\ Objects /\ Alive /\ Paused /\ Handled
  BY DEF IInv, InOrder
<1>2. /\ UNCHANGED <<current, stack, handler, pending, sleep, back, currentActivityPaused>>
      /\ pc = "Handler"
      /\ \/ /\ pending.action = "None" /\ pc' = "Resume"
            /\ life' = [life EXCEPT ![current].pauses = @ - 1]
         \/ pending.action # "None" /\ pc' = "Drain" /\ life' = life
  BY DEF EndHandler, Resumed
<1>3. Below' = Below /\ Below \subseteq Activity
  BY <1>1, <1>2 DEF Below, ToSet, Objects
<1>4. /\ current \in Activity /\ current \notin Below /\ pending.activity # current
      /\ life[current].pauses = 1 /\ currentActivityPaused
  BY <1>1, <1>2 DEF Alive, Paused, Objects, At
<1>5. CASE pc' = "Drain"
  <2>1. Objects'
    BY <1>1, <1>2, <1>5 DEF Objects
  <2>2. Alive'
    BY <1>1, <1>2, <1>3, <1>4, <1>5 DEF Alive
  <2>3. Paused'
    BY <1>1, <1>2, <1>3, <1>4, <1>5 DEF Paused, At
  <2> QED
    BY <1>1, <1>2, <1>3, <2>1, <2>2, <2>3 DEF Handled, InOrder
<1>6. CASE pc' = "Resume"
  <2>1. /\ life' \in [Activity -> Life]
        /\ life'[current].stage = life[current].stage /\ life'[current].pauses = 0
        /\ \A b \in Activity : b # current => life'[b] = life[b]
    <3>1. life' = [life EXCEPT ![current].pauses = @ - 1] /\ life \in [Activity -> Life]
      BY <1>1, <1>2, <1>6 DEF Objects
    <3>2. life'[current] = [life[current] EXCEPT !.pauses = 0]
      BY <1>4, <3>1 DEF Life
    <3>3. life[current] \in Life
      BY <1>4, <3>1
    <3>4. life'[current] \in Life /\ life'[current].stage = life[current].stage
          /\ life'[current].pauses = 0
      BY <3>2, <3>3 DEF Life
    <3> QED
      BY <1>4, <3>1, <3>4
  <2>2. Objects'
    BY <1>1, <1>2, <2>1 DEF Objects
  <2>3. Alive'
    <3>1. pending.activity # None => pending.activity \in Activity
      BY <1>1 DEF Objects
    <3>2. \A a \in Activity : IF a \in Below \cup {current, pending.activity}
                              THEN life'[a].stage # "Absent" ELSE life'[a] = NoLife
      BY <1>1, <1>4, <2>1 DEF Alive
    <3> QED
      BY <1>1, <1>2, <1>3, <1>4, <1>6, <2>1, <3>1, <3>2, ActivityAssumption DEF Alive
  <2>4. Paused'
    BY <1>1, <1>2, <1>3, <1>4, <1>6, <2>1 DEF Paused, At
  <2> QED
    BY <1>1, <1>2, <1>3, <2>2, <2>3, <2>4 DEF Handled, InOrder
<1> QED
  BY <1>2, <1>5, <1>6

(* Steps that only wait for the render task, or publish a request. *)
LEMMA WaitingKeepsOrder ==
  ASSUME IInv, RequestImmediateUpdate \/ RequestUpdateAndWait \/ Publish \/ Notify \/ WakeUp
  PROVE  InOrder'
<1>1. Alive /\ Paused /\ current \in Activity \cup {None}
  BY DEF IInv, InOrder, Objects
<1> DEFINE Waits == {"Notify", "WaitNotify", "Waiting"}
<1>2. ASSUME UNCHANGED activities, current # None, pc \in Callback,
             pc' \in {"Notify", "WaitNotify"}, back' = pc
      PROVE  InOrder'
  <2>1. At' = At /\ pc' \in Waits /\ (current = None)' = FALSE
    BY <1>2 DEF At, activities, Callback
  <2>2. back' \in Callback \cup {"Asleep"} /\ pc' # "GoHome"
    BY <1>2
  <2> QED
    BY <1>2, <2>1, <2>2, ObjectsUncalled
<1>3. CASE RequestImmediateUpdate \/ RequestUpdateAndWait
  BY <1>2, <1>3 DEF RequestImmediateUpdate, RequestUpdateAndWait, Calling
<1>4. ASSUME UNCHANGED activities, pc \in Waits, current # None,
             \/ pc' = back /\ back' = "Outside"
             \/ pc' \in Waits /\ back' = back
      PROVE  InOrder'
  <2>1. back \in Callback \cup {"Asleep"}
    BY <1>1 DEF Paused
  <2>2. At' = At /\ (current = None)' = FALSE
    BY <1>4, <2>1 DEF At, activities, Callback
  <2>3. /\ back' \in Callback \cup {"Asleep"} /\ pc' # "GoHome"
        /\ pc' \notin Waits => back' = "Outside"
    BY <1>4, <2>1 DEF Callback
  <2> QED
    BY <1>4, <2>2, <2>3, ObjectsUncalled
<1>5. pc \in Waits => current # None
  BY <1>1 DEF Alive
<1>6. CASE Notify
  BY <1>4, <1>5, <1>6 DEF Notify
<1>7. CASE WakeUp
  BY <1>4, <1>5, <1>7 DEF WakeUp
<1>8. CASE Publish
  <2>1. /\ UNCHANGED activities /\ pc = "Publish" /\ current # None
        /\ \/ pc' = "Notify" /\ back' \in {"Outside", "Asleep"}
           \/ pc' \in {"Outside", "Asleep"} /\ back' = back
    BY <1>1, <1>8 DEF Publish, AfterLoop, Alive
  <2>2. back = "Outside"
    BY <1>1, <2>1 DEF Paused
  <2>3. At = "Publish" /\ At' \in {"Outside", "Asleep"} /\ (current = None)' = FALSE
    BY <2>1 DEF At, activities
  <2>4. /\ back' \in Callback \cup {"Asleep"} /\ pc' # "GoHome"
        /\ pc' \notin Waits => back' = "Outside"
    BY <2>1, <2>2 DEF Callback
  <2> QED
    BY <2>1, <2>3, <2>4, ObjectsUncalled
<1> QED
  BY <1>3, <1>6, <1>7, <1>8

LEMMA ReplaceKeepsOrder ==
  ASSUME IInv, Replace
  PROVE  InOrder'
<1>1. InOrder /\ Objects /\ Alive /\ Paused /\ Handled
  BY DEF IInv, InOrder
<1>2. /\ pc = "Drain" /\ pc' = "Enter" /\ pending.action = "Replace"
      /\ life' = Drop(life, {current} \cup Below)
      /\ handler' = {} /\ stack' = <<>> /\ current' = pending.activity /\ pending' = NoPending
      /\ UNCHANGED <<back, currentActivityPaused, sleep>>
  BY DEF Replace, Below
<1> DEFINE a == pending.activity
<1>3. /\ a \in Activity /\ a # current /\ a \notin Below
      /\ life[a] = [stage |-> "Ready", pauses |-> 0]
  BY <1>1, <1>2 DEF Alive, Objects
<1>4. Below' = {} /\ DOMAIN stack' = {}
  BY <1>2 DEF Below, ToSet
<1>5. /\ life' \in [Activity -> Life] /\ life'[a] = life[a]
      /\ \A b \in Activity : b # a => life'[b] = NoLife
  <2>1. \A b \in Activity : b \notin {current} \cup Below => life'[b] = life[b]
    BY <1>1, <1>2, DropKeeps DEF Objects
  <2>2. \A b \in Activity : b \in {current} \cup Below => life'[b] = NoLife
    BY <1>1, <1>2, DropKeeps DEF Objects
  <2>3. \A b \in Activity : b \notin Below \cup {current, a} => life[b] = NoLife
    BY <1>1 DEF Alive
  <2> QED
    BY <1>1, <1>2, <1>3, <2>1, <2>2, <2>3, DropKeeps DEF Objects
<1>6. current' = a /\ a # None
  BY <1>2, <1>3, ActivityAssumption
<1> HIDE DEF a
<1>7. Objects'
  <2>1. stack' \in Seq(Activity) /\ handler' \subseteq Activity
    BY <1>2
  <2>2. pending' \in [action : {"None", "Push", "Pop", "Replace"}, activity : Activity \cup {None}]
    BY <1>2 DEF NoPending
  <2>3. current' \in Activity \cup {None} /\ sleep' \in Activity \cup {None}
    BY <1>1, <1>2, <1>3, <1>6 DEF Objects
  <2> QED
    BY <1>5, <2>1, <2>2, <2>3 DEF Objects
<1>8. Alive'
  <2>1. \A b \in Activity : IF b \in {a, None} THEN life'[b].stage # "Absent" ELSE life'[b] = NoLife
    BY <1>3, <1>5, ActivityAssumption
  <2> QED
    BY <1>2, <1>4, <1>6, <2>1 DEF Alive, NoPending
<1>9. Paused'
  BY <1>1, <1>2, <1>3, <1>4, <1>5, <1>6 DEF Paused, At
<1>10. Handled'
  BY <1>2 DEF Handled
<1> QED
  BY <1>7, <1>8, <1>9, <1>10 DEF InOrder

LEMMA PushKeepsOrder ==
  ASSUME IInv, Push
  PROVE  InOrder'
<1>1. InOrder /\ Objects /\ Alive /\ Paused /\ Handled
  BY DEF IInv, InOrder
<1> DEFINE a == pending.activity
           c == current
<1>2. /\ pc = "Drain" /\ pc' = "Enter" /\ pending.action = "Push"
      /\ life' = IF currentActivityPaused THEN life ELSE [life EXCEPT ![c].pauses = @ + 1]
      /\ stack' = Append(stack, c) /\ current' = a /\ pending' = NoPending
      /\ UNCHANGED <<handler, back, currentActivityPaused, sleep>>
  BY DEF Push
<1>3. /\ a \in Activity /\ a # c /\ a \notin Below
      /\ life[a] = [stage |-> "Ready", pauses |-> 0]
      /\ c \in Activity /\ c \notin Below
      /\ life[c].pauses = IF currentActivityPaused THEN 1 ELSE 0
      /\ stack \in Seq(Activity) /\ life \in [Activity -> Life]
  BY <1>1, <1>2 DEF Alive, Paused, At, Objects
<1>4. c # None /\ a # None
  BY <1>3, ActivityAssumption
<1> HIDE DEF a, c
<1>5. /\ stack' \in Seq(Activity) /\ Below' = Below \cup {c}
      /\ DOMAIN stack' = 1..(Len(stack) + 1)
      /\ \A i \in 1..Len(stack) : stack'[i] = stack[i]
      /\ stack'[Len(stack) + 1] = c
  BY <1>2, <1>3, Appended DEF Below
<1>6. /\ life' \in [Activity -> Life]
      /\ life'[c].pauses = 1 /\ life'[c].stage = life[c].stage
      /\ \A b \in Activity : b # c => life'[b] = life[b]
  <2>1. CASE currentActivityPaused
    BY <1>2, <1>3, <2>1
  <2>2. CASE ~currentActivityPaused
    <3>1. life'[c] = [life[c] EXCEPT !.pauses = 1]
      BY <1>2, <1>3, <2>2 DEF Life
    <3>2. life[c] \in Life
      BY <1>3
    <3>3. life'[c] \in Life /\ life'[c].pauses = 1 /\ life'[c].stage = life[c].stage
      BY <3>1, <3>2 DEF Life
    <3>4. life' = [life EXCEPT ![c] = life'[c]]
      BY <1>2, <1>3, <2>2
    <3> QED
      BY <1>3, <3>3, <3>4
  <2> QED
    BY <2>1, <2>2
<1>7. Objects'
  BY <1>1, <1>2, <1>3, <1>5, <1>6 DEF Objects, NoPending
<1>8. Alive'
  <2>1. \A b \in Activity : IF b \in Below \cup {c, a, None}
                            THEN life'[b].stage # "Absent" ELSE life'[b] = NoLife
    BY <1>1, <1>3, <1>6, ActivityAssumption DEF Alive, a, c
  <2>2. \A i, j \in DOMAIN stack' : stack'[i] = stack'[j] => i = j
    <3>1. DOMAIN stack = 1..Len(stack) /\ Len(stack) \in Nat
      BY <1>3
    <3>2. \A i \in 1..Len(stack) : stack[i] # c
      BY <1>3, <3>1 DEF Below, ToSet
    <3>3. ASSUME NEW n \in Nat PROVE \A i \in 1..(n + 1) : i \in 1..n \/ i = n + 1
      BY <3>3
    <3>4. \A i \in 1..(Len(stack) + 1) : i \in 1..Len(stack) \/ i = Len(stack) + 1
      BY <3>1, <3>3
    <3> QED
      BY <1>1, <1>5, <3>1, <3>2, <3>4 DEF Alive
  <2> QED
    BY <1>2, <1>3, <1>4, <1>5, <2>1, <2>2 DEF Alive, NoPending
<1>9. Paused'
  <2>1. \A b \in Below : b \in Activity
    BY <1>3 DEF Below, ToSet
  <2>2. \A b \in Below' : life'[b].pauses = 1
    BY <1>1, <1>3, <1>5, <1>6, <2>1 DEF Paused
  <2>3. life'[current'].pauses = 0 /\ At' = "Enter"
    BY <1>2, <1>3, <1>6 DEF At
  <2> QED
    BY <1>1, <1>2, <2>2, <2>3 DEF Paused
<1>10. Handled'
  BY <1>1, <1>2, <1>5 DEF Handled, c
<1> QED
  BY <1>7, <1>8, <1>9, <1>10 DEF InOrder

LEMMA PopKeepsOrder ==
  ASSUME IInv, Pop
  PROVE  InOrder'
<1>1. InOrder /\ Objects /\ Alive /\ Paused /\ Handled
  BY DEF IInv, InOrder
<1> DEFINE c == current
           left == Drop(life, {c})
           below == Last(stack)
<1>2. /\ pc = "Drain" /\ pending.action = "Pop" /\ pending' = NoPending
      /\ UNCHANGED <<back, sleep>>
  BY DEF Pop
<1>3. /\ c \in Activity /\ c # None /\ c \notin Below /\ pending.activity = None
      /\ stack \in Seq(Activity) /\ life \in [Activity -> Life]
      /\ back = "Outside"
  BY <1>1, <1>2, ActivityAssumption DEF Alive, Paused, Objects
<1>4. Below \subseteq Activity
  BY <1>3 DEF Below, ToSet
<1>5. /\ left \in [Activity -> Life] /\ left[c] = NoLife
      /\ \A b \in Activity : b # c => left[b] = life[b]
  BY <1>3, DropKeeps
<1>6. CASE stack = <<>>
  <2>1. /\ current' = None /\ handler' = handler \ {c} /\ life' = left /\ pc' = "GoHome"
        /\ UNCHANGED <<stack, currentActivityPaused>>
    BY <1>6 DEF Pop
  <2>2. Below = {} /\ Below' = {} /\ DOMAIN stack' = {}
    BY <1>6, <2>1 DEF Below, ToSet
  <2> HIDE DEF left, c
  <2>3. Objects'
    BY <1>1, <1>2, <1>5, <2>1 DEF Objects, NoPending
  <2>4. handler' = {}
    BY <1>1, <2>1, <2>2 DEF Handled, c
  <2>5. Alive'
    <3>1. \A b \in Activity : b \notin {None} /\ life'[b] = NoLife
      BY <1>1, <1>3, <1>5, <2>1, <2>2, ActivityAssumption DEF Alive, c
    <3> QED
      BY <1>2, <1>6, <2>1, <2>2, <2>4, <3>1 DEF Alive, NoPending, Empty
  <2>6. Paused'
    BY <1>1, <1>2, <1>3, <2>1, <2>2 DEF Paused, At, Callback
  <2>7. Handled'
    BY <2>4 DEF Handled
  <2> QED
    BY <2>3, <2>5, <2>6, <2>7 DEF InOrder
<1>7. CASE stack # <<>>
  <2>1. /\ current' = below /\ stack' = Front(stack) /\ currentActivityPaused' = TRUE
        /\ handler' = (handler \ {below}) \ {c}
        /\ \/ below \in handler /\ pc' = "Handler" /\ life' = left
           \/ /\ below \notin handler /\ pc' = "Resume"
              /\ life' = [left EXCEPT ![below].pauses = @ - 1]
    BY <1>7 DEF Pop, HandlerTaken, Resumed
  <2>2. /\ Front(stack) \in Seq(Activity) /\ below \in Activity
        /\ Below = ToSet(Front(stack)) \cup {below}
        /\ below \notin ToSet(Front(stack))
        /\ \A i, j \in DOMAIN Front(stack) : Front(stack)[i] = Front(stack)[j] => i = j
    BY <1>1, <1>3, <1>7, Popped DEF Below, Alive
  <2>3. Below' = ToSet(Front(stack))
    BY <2>1 DEF Below
  <2>4. Below = Below' \cup {below} /\ below \notin Below' /\ below # None /\ below # c
    BY <1>3, <2>2, <2>3, ActivityAssumption
  <2>5. left[below].pauses = 1 /\ left[below] = life[below] /\ left[below] \in Life
    BY <1>1, <1>5, <2>2, <2>4 DEF Paused
  <2>6. stack' \in Seq(Activity)
        /\ \A i, j \in DOMAIN stack' : stack'[i] = stack'[j] => i = j
    BY <2>1, <2>2
  <2> HIDE DEF left, below, c
  <2>7. /\ life' \in [Activity -> Life]
        /\ life'[below].stage = life[below].stage
        /\ life'[below].pauses = IF pc' = "Handler" THEN 1 ELSE 0
        /\ \A b \in Activity : b # below => life'[b] = left[b]
    <3>1. CASE pc' = "Handler"
      BY <1>5, <2>1, <2>5, <3>1
    <3>2. CASE pc' = "Resume"
      <4>1. life' = [left EXCEPT ![below].pauses = @ - 1]
        BY <2>1, <3>2
      <4>2. life'[below] = [left[below] EXCEPT !.pauses = 0]
        BY <1>5, <2>2, <2>5, <4>1 DEF Life
      <4>3. /\ life'[below] \in Life /\ life'[below].pauses = 0
            /\ life'[below].stage = life[below].stage
        BY <2>5, <4>2 DEF Life
      <4>4. life' = [left EXCEPT ![below] = life'[below]]
        BY <1>5, <2>2, <4>1
      <4> QED
        BY <1>5, <2>2, <3>2, <4>3, <4>4
    <3> QED
      BY <2>1, <3>1, <3>2
  <2>8. Objects'
    BY <1>1, <1>2, <2>1, <2>2, <2>6, <2>7 DEF Objects, NoPending
  <2>9. Alive'
    <3>1. \A b \in Activity : IF b \in Below' \cup {below, None}
                              THEN life'[b].stage # "Absent" ELSE life'[b] = NoLife
      <4>1. \A b \in Activity : IF b \in Below \cup {c, None}
                                THEN life[b].stage # "Absent" ELSE life[b] = NoLife
        BY <1>1, <1>3 DEF Alive, c
      <4> QED
        BY <1>3, <1>5, <2>4, <2>7, <4>1, ActivityAssumption
    <3> QED
      BY <1>2, <2>1, <2>4, <2>6, <3>1 DEF Alive, NoPending
  <2>10. Paused'
    <3>1. \A b \in Below' : life'[b].pauses = 1
      BY <1>1, <1>3, <1>4, <1>5, <2>4, <2>7 DEF Paused
    <3> QED
      BY <1>2, <1>3, <2>1, <2>7, <3>1 DEF Paused, At, Callback
  <2>11. Handled'
    BY <1>1, <2>1, <2>4 DEF Handled, c
  <2> QED
    BY <2>8, <2>9, <2>10, <2>11 DEF InOrder
<1> QED
  BY <1>6, <1>7

LEMMA NothingYet ==
  ASSUME current = None, stack = <<>>, sleep = None, life = [a \in Activity |-> NoLife],
         handler = {}, pending = NoPending, pc = "Outside", back = "Outside"
  PROVE  InOrder
<1>1. Below = {} /\ DOMAIN stack = {}
  BY DEF Below, ToSet
<1>2. Objects
  BY DEF Objects, NoLife, Life, NoPending
<1>3. Alive
  BY <1>1, ActivityAssumption DEF Alive, Empty, NoPending
<1>4. Paused /\ Handled
  BY <1>1 DEF Paused, Handled, At, Callback
<1> QED
  BY <1>2, <1>3, <1>4 DEF InOrder

LEMMA ResetKeepsOrder ==
  ASSUME Reset
  PROVE  InOrder'
<1>1. /\ current' = None /\ stack' = <<>> /\ sleep' = None /\ life' = [a \in Activity |-> NoLife]
      /\ handler' = {} /\ pending' = NoPending /\ pc' = "Outside" /\ back' = "Outside"
  BY DEF Reset
<1>2. Below' = {} /\ DOMAIN stack' = {}
  BY <1>1 DEF Below, ToSet
<1>3. Objects'
  BY <1>1 DEF Objects, NoLife, Life, NoPending
<1>4. Alive'
  BY <1>1, <1>2, ActivityAssumption DEF Alive, Empty, NoPending
<1>5. Paused' /\ Handled'
  BY <1>1, <1>2 DEF Paused, Handled, At, Callback
<1> QED
  BY <1>3, <1>4, <1>5 DEF InOrder

LEMMA OrderKept ==
  ASSUME IInv, Next
  PROVE  InOrder'
<1>1. CASE \E a \in Activity : \/ StartActivity(a) \/ ReplaceActivity(a) \/ GoToSleep(a)
                               \/ LaunchFirst(a) \/ GoHome(a)
  BY <1>1, StartKeepsOrder, LaunchKeepsOrder
<1>2. CASE Finish
  BY <1>2, FinishKeepsOrder
<1>3. CASE \/ RequestUpdate \/ LockInCallback \/ UnlockInCallback
           \/ RenderRequestsUpdate \/ OtherNotification
  BY <1>3, ObjectsUntouched
  DEF RequestUpdate, LockInCallback, UnlockInCallback, RenderRequestsUpdate, OtherNotification
<1>4. CASE RenderTask
  BY <1>4, ObjectsUntouched
  DEF RenderTask, TakeNotification, LoadTarget, StartRender, Complete, Wake
<1>5. CASE RequestImmediateUpdate \/ RequestUpdateAndWait \/ Publish \/ Notify \/ WakeUp
  BY <1>5, WaitingKeepsOrder
<1>6. CASE BeginLoop \/ EndLoop \/ EndResume \/ EndDrain
  BY <1>6, LoopKeepsOrder
<1>7. CASE EndEnter \/ EndHandler
  BY <1>7, EnterKeepsOrder, HandlerKeepsOrder
<1>8. CASE Pop \/ Replace \/ Push
  BY <1>8, PopKeepsOrder, ReplaceKeepsOrder, PushKeepsOrder
<1>9. CASE Reset
  BY <1>9, ResetKeepsOrder
<1> QED
  BY <1>1, <1>2, <1>3, <1>4, <1>5, <1>6, <1>7, <1>8, <1>9 DEF Next, ActivityCalls, MainTask

-----------------------------------------------------------------------------
(* The theorems *)

LEMMA IInvInitially == Init => IInv
<1> SUFFICES ASSUME Init PROVE IInv
  OBVIOUS
<1>1. InOrder
  BY NothingYet DEF Init
<1>2. Tasks
  BY ZeroIsGeneration DEF Init, Tasks, MainPc, Callback, RenderPc
<1>3. Counted
  BY HalfIsHalf DEF Init, Counted, Lag, Ahead
<1>4. Exclusive
  BY DEF Init, Exclusive
<1> QED
  BY <1>1, <1>2, <1>3, <1>4 DEF IInv

LEMMA IInvUnchanged ==
  ASSUME IInv, UNCHANGED vars
  PROVE  IInv'
<1>1. InOrder'
  BY ObjectsUntouched DEF vars
<1>2. Tasks' /\ Counted' /\ Exclusive'
  BY DEF IInv, Tasks, Counted, Exclusive, Lag, vars, activities, generations
<1> QED
  BY <1>1, <1>2 DEF IInv

LEMMA IInvAlways == Spec => []IInv
<1>1. IInv /\ [Next]_vars => IInv'
  BY TasksTyped, CountedKept, ExclusiveKept, OrderKept, IInvUnchanged DEF IInv
<1> QED
  BY <1>1, IInvInitially, PTL DEF Spec

(* Every variable keeps its type; in particular no activity is paused      *)
(* twice and none is resumed that was not paused.                          *)
THEOREM TypeCorrect == Spec => []TypeOK
<1>1. IInv => TypeOK
  BY DEF IInv, InOrder, Objects, Tasks, TypeOK
<1> QED
  BY <1>1, IInvAlways, PTL

(* The render task draws nothing but the current activity, and that is     *)
(* alive until the drawing is done.                                        *)
THEOREM NeverRendersTheDead == Spec => []RendersLiveActivity
<1>1. IInv => RendersLiveActivity
  <2> SUFFICES ASSUME IInv, render.activity # None
               PROVE  render.activity = current /\ life[current].stage # "Absent"
    BY DEF RendersLiveActivity
  <2>1. render.activity = current /\ current \in Activity
    BY DEF IInv, Exclusive, InOrder, Objects
  <2> QED
    BY <2>1 DEF IInv, InOrder, Alive
<1> QED
  BY <1>1, IInvAlways, PTL

(* Whatever chain of pushes, pops and handlers led to the next loop, the   *)
(* pauses balance and every result handler has the child it waits for.     *)
THEOREM StackAlwaysInOrder == Spec => []StackInOrder
<1>1. IInv => StackInOrder
  <2> SUFFICES ASSUME IInv, pc = "Outside", current # None
               PROVE  /\ life[current].pauses = 0
                      /\ \A i \in DOMAIN stack : life[stack[i]].pauses = 1
                      /\ pending.action = "None" => handler \subseteq ToSet(stack)
    BY DEF StackInOrder
  <2>1. life[current].pauses = 0
    BY DEF IInv, InOrder, Paused, At
  <2>2. \A i \in DOMAIN stack : stack[i] \in Below
    BY DEF Below, ToSet
  <2> QED
    BY <2>1, <2>2 DEF IInv, InOrder, Paused, Handled, Below
<1> QED
  BY <1>1, IInvAlways, PTL

(* No object is forgotten: what exists is the current activity, those      *)
(* below it, or the pending one.                                           *)
NothingLeaks ==
  \A a \in Activity :
    life[a].stage # "Absent" => a \in ToSet(stack) \cup {current, pending.activity}

THEOREM NothingEverLeaks == Spec => []NothingLeaks
<1>1. IInv => NothingLeaks
  BY DEF IInv, InOrder, Alive, Below, NothingLeaks, NoLife
<1> QED
  BY <1>1, IInvAlways, PTL

(* Once the last request is acknowledged, its frame is on the panel.       *)
THEOREM AcknowledgedAlwaysShown == Spec => []AcknowledgedIsShown
<1>1. IInv => AcknowledgedIsShown
  <2> SUFFICES ASSUME IInv, completed = requested PROVE frame = "Shown"
    BY DEF AcknowledgedIsShown
  <2>1. requested \in Generation /\ (frame # "Shown" => Lag(completed) > 0)
    BY DEF IInv, Tasks, Counted
  <2>2. Lag(completed) = 0
    <3>1. \A g \in Generation : Ahead(g, g) = 0
      BY HalfIsHalf DEF Ahead, Generation
    <3> QED
      BY <2>1, <3>1 DEF Lag
  <2> QED
    BY <2>1, <2>2
<1> QED
  BY <1>1, IInvAlways, PTL

(* requestUpdateAndWait() returns only behind a frame that was begun after *)
(* it was called, however often the counter has wrapped.                   *)
THEOREM WaitAlwaysHonest == Spec => WaitIsHonest
<1>1. IInv /\ [Next]_vars => [pc = "Waiting" /\ pc' # "Waiting" => frame = "Shown"]_vars
  <2> SUFFICES ASSUME IInv, Next, pc = "Waiting", pc' # "Waiting"
               PROVE  frame = "Shown"
    OBVIOUS
  <2>1. WakeUp /\ WaitIsOver
    BY DEF Next, ActivityCalls, MainTask, RenderTask, StartActivity, ReplaceActivity, LaunchFirst,
      GoToSleep, Finish, RequestUpdate, RequestImmediateUpdate, RequestUpdateAndWait,
      LockInCallback, UnlockInCallback, BeginLoop, EndLoop, EndEnter, EndHandler, EndResume,
      Pop, Replace, Push, EndDrain, Publish, Notify, WakeUp, Reset, GoHome, TakeNotification,
      LoadTarget, StartRender, Complete, Wake, RenderRequestsUpdate, OtherNotification,
      Calling, Callback
  <2>2. /\ requested \in Generation /\ completed \in Generation /\ waitTarget = requested
        /\ Lag(completed) < Half /\ (frame # "Shown" => Lag(completed) > 0)
    BY DEF IInv, Tasks, Counted
  <2>3. Lag(requested) = 0
    <3>1. \A g \in Generation : Ahead(g, g) = 0
      BY HalfIsHalf DEF Ahead, Generation
    <3> QED
      BY <2>2, <3>1 DEF Lag
  <2>4. Lag(completed) <= Lag(requested)
    BY <2>1, <2>2, <2>3, ReachedMeans, HalfIsHalf DEF WaitIsOver
  <2> QED
    BY <2>2, <2>3, <2>4, LagIsNat
<1> QED
  BY <1>1, IInvAlways, PTL DEF Spec, WaitIsHonest
=============================================================================
