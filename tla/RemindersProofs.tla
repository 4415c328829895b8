--------------------------- MODULE RemindersProofs ---------------------------
(***************************************************************************)
(* What Reminders promises of snoozes and of what counts as fired, for     *)
(* every choice of its constants.  TypeOK is split into parts, each kept   *)
(* by every step; what is asked of a ring under way is added to make it    *)
(* inductive.                                                              *)
(***************************************************************************)
EXTENDS Reminders, TLAPS

Bounds == [user : Nat, fault : Nat, restart : Nat, moved : Nat]
Notices == [Ids -> Hrefs \cup {NoHref}]

TaskType ==
  /\ open \subseteq Tasks /\ place \in [Tasks -> Lists \cup {Nowhere}]
  /\ alarms \in [Tasks -> SUBSET AlarmTimes]
StoreType == fired \subseteq Hrefs \X Times /\ snoozed \in [Hrefs -> Times]
LoopType ==
  /\ pc \in {"collect", "ring", "calling", "answered", "sleep"}
  /\ due \subseteq Ring /\ next \in Times /\ timer \in 0..MaxSleep
  /\ ringing \in Called \cup {NoRing} /\ answer \in Ids \cup {0}
  /\ now \in Times /\ started \in Times
DeskType == shown \in Notices /\ screen \in Notices /\ closing \subseteq Ids
NotifyType ==
  /\ location \in {"busy", "waiting"}
  /\ permit \in BOOLEAN /\ waiting \subseteq Loops /\ ahead \in Loops /\ woken \subseteq Loops
RestType ==
  /\ used \in Bounds
  /\ taken \in [Hrefs -> [Times -> Nat]]
  /\ excused \subseteq Hrefs \cup {NoHref} /\ left \subseteq Hrefs

LEMMA TypeParts ==
  /\ TypeOK <=> TaskType /\ StoreType /\ LoopType /\ DeskType /\ NotifyType /\ RestType
  /\ TypeOK' <=> TaskType' /\ StoreType' /\ LoopType' /\ DeskType' /\ NotifyType' /\ RestType'
BY DEF TypeOK, TaskType, StoreType, LoopType, DeskType, NotifyType, RestType, Bounds, Notices

LEMMA ConstantTypes ==
  /\ MaxTime \in Nat /\ AlarmTimes \subseteq Times /\ Lengths \subseteq Nat \ {0}
  /\ Grace \in Nat /\ Keep \in Nat /\ MaxSleep \in Nat \ {0} /\ Ids \subseteq Nat \ {0}
  /\ 0 \in Times /\ Times \subseteq Nat
BY TimesAssumption, GraceAssumption, SleepAssumption DEF Times

LEMMA BoundTypes ==
  /\ RestType /\ User => used' \in Bounds
  /\ RestType /\ Fault => used' \in Bounds
BY DEF RestType, Bounds, User, Fault

LEMMA TwoBounds ==
  ASSUME NEW u \in Bounds
  PROVE  /\ [u EXCEPT !.fault = @ + 1, !.restart = @ + 1] \in Bounds
         /\ [u EXCEPT !.user = @ + 1, !.moved = @ + 1] \in Bounds
<1>1. u.fault + 1 \in Nat /\ u.restart + 1 \in Nat /\ u.user + 1 \in Nat /\ u.moved + 1 \in Nat
  BY DEF Bounds
<1>2. [u EXCEPT !.fault = u.fault + 1] \in Bounds /\ [u EXCEPT !.user = u.user + 1] \in Bounds
  BY <1>1 DEF Bounds
<1> QED BY <1>1, <1>2 DEF Bounds

-----------------------------------------------------------------------------
(* wake_reminders. *)

LEMMA NotifyOneType ==
  ASSUME NotifyType, location' = location, NotifyOne
  PROVE  NotifyType'
<1>1. waiting # {} => Foremost \in Loops
  BY DEF NotifyType, Foremost
<1> QED BY <1>1 DEF NotifyType, NotifyOne

LEMMA AwaitType ==
  ASSUME NotifyType, NEW w \in Loops, Await(w), location' \in {"busy", "waiting"}
  PROVE  NotifyType'
BY DEF NotifyType, Await

LEMMA GiveUpType ==
  ASSUME NotifyType, NEW w \in Loops, GiveUp(w), location' \in {"busy", "waiting"}
  PROVE  NotifyType'
<1>1. waiting \ {w} # {} => (CHOOSE x \in waiting \ {w} : TRUE) \in Loops
  BY DEF NotifyType
<1> QED BY <1>1 DEF NotifyType, GiveUp

-----------------------------------------------------------------------------
(* The loop's steps. *)

LEMMA DueType ==
  ASSUME TypeOK, OpenPlaced
  PROVE  Due \subseteq Ring
<1>1. ASSUME NEW h \in Hrefs
      PROVE  [href |-> h, at |-> snoozed[h], snoozed |-> TRUE] \in Ring
  BY TypeParts DEF StoreType, Ring
<1>2. ASSUME NEW t \in open, NEW at \in Latest(DueAlarms(t))
      PROVE  [href |-> Href(t), at |-> at, snoozed |-> FALSE] \in Ring
  <2>1. t \in Tasks /\ place[t] \in Lists
    BY TypeParts DEF TaskType, OpenPlaced
  <2>2. at \in alarms[t]
    BY <1>2 DEF Latest, DueAlarms
  <2>3. at \in Times
    BY <2>1, <2>2, TypeParts, ConstantTypes DEF TaskType
  <2> QED BY <2>1, <2>3 DEF Ring, Href, Hrefs
<1>3. ASSUME NEW r \in Due
      PROVE  r \in Ring
  <2>1. CASE \E h \in Hrefs : r = [href |-> h, at |-> snoozed[h], snoozed |-> TRUE]
    BY <1>1, <2>1
  <2>2. CASE \E t \in open : \E at \in Latest(DueAlarms(t)) :
               r = [href |-> Href(t), at |-> at, snoozed |-> FALSE]
    BY <1>2, <2>2
  <2> QED BY <1>3, <2>1, <2>2 DEF Due
<1> QED BY <1>3

LEMMA NextType ==
  ASSUME TypeOK, NEW n \in IF Coming = {} THEN {0} ELSE Earliest(Coming)
  PROVE  n \in Times
<1>1. ASSUME NEW at \in Coming
      PROVE  at \in Times
  <2>1. CASE \E t \in open : at \in alarms[t]
    BY <2>1, TypeParts, ConstantTypes DEF TaskType
  <2>2. CASE \E h \in Hrefs : at = snoozed[h]
    BY <2>2, TypeParts DEF StoreType
  <2> QED BY <2>1, <2>2 DEF Coming
<1> QED BY <1>1, ConstantTypes DEF Earliest

\* Answered steps: what is left of a ring.
LEMMA UnsnoozedType ==
  ASSUME StoreType, NEW h, NEW until
  PROVE  Unsnoozed(h, until) \in [Hrefs -> Times]
BY ConstantTypes DEF StoreType, Unsnoozed

LEMMA WaitType ==
  ASSUME LoopType
  PROVE  Wait \in 0..MaxSleep
<1>1. next \in Nat /\ now \in Nat /\ MaxSleep \in Nat
  BY ConstantTypes DEF LoopType
<1> QED BY <1>1 DEF Wait

LEMMA CallType ==
  ASSUME TypeOK, CallServer
  PROVE  ringing' \in Called /\ due' \subseteq Ring
<1>1. PICK r \in due : /\ due' = due \ {r}
                       /\ ringing' = [href |-> r.href, at |-> r.at, snoozed |-> r.snoozed,
                                      replaces |-> Replaced(r.href)]
  BY DEF CallServer
<1>2. r \in Ring /\ due \subseteq Ring
  BY <1>1 DEF TypeOK
<1>3. Replaced(r.href) \in Ids \cup {0}
  BY DEF Replaced
<1> QED BY <1>1, <1>2, <1>3 DEF Ring, Called

LEMMA LoopTypes ==
  ASSUME TypeOK, OpenPlaced, RingUnderWay, LoopStep
  PROVE  TypeOK'
<1> USE TypeParts
<1>1. CASE Collect
  <2>1. due' \subseteq Ring /\ next' \in Times
    BY <1>1, DueType, NextType DEF Collect
  <2>2. snoozed' \in [Hrefs -> Times]
    BY <1>1, ConstantTypes DEF Collect, StoreType
  <2> QED BY <1>1, <2>1, <2>2 DEF Collect, tasks, notify, desk, ghost, TaskType, StoreType, LoopType,
             DeskType, NotifyType, RestType
<1>2. CASE CallServer
  <2>1. ringing' \in Called /\ due' \subseteq Ring
    BY <1>2, CallType
  <2> QED BY <1>2, <2>1 DEF CallServer, tasks, store, notify, desk, ghost, TaskType, StoreType,
             LoopType, DeskType, NotifyType, RestType
<1>3. CASE ServerShows
  <2>1. ringing \in Called
    BY <1>3 DEF ServerShows, RingUnderWay
  <2>2. PICK i \in Ids : /\ answer' = i
                         /\ screen' = [screen EXCEPT ![i] = ringing.href]
                         /\ excused' = IF i \in closing THEN excused \cup {ringing.href} ELSE excused
    BY <1>3 DEF ServerShows
  <2>3. taken' \in [Hrefs -> [Times -> Nat]]
    BY <1>3, <2>1 DEF ServerShows, Called, RestType
  <2>4. screen' \in Notices /\ excused' \subseteq Hrefs \cup {NoHref}
    BY <2>1, <2>2 DEF Called, DeskType, Notices, RestType
  <2> QED BY <1>3, <2>2, <2>3, <2>4 DEF ServerShows, tasks, store, notify, TaskType, StoreType,
             LoopType, DeskType, NotifyType, RestType
<1>4. CASE ServerRefuses
  BY <1>4, BoundTypes DEF ServerRefuses, tasks, store, notify, desk, ghost, TaskType, StoreType,
     LoopType, DeskType, NotifyType, RestType
<1>5. CASE RecordShown
  <2>1. ringing \in Called
    BY <1>5 DEF RecordShown, RingUnderWay
  <2>2. fired' \subseteq Hrefs \X Times /\ snoozed' \in [Hrefs -> Times]
    BY <1>5, <2>1, UnsnoozedType DEF RecordShown, Called, StoreType
  <2>3. shown' \in Notices
    BY <1>5, <2>1 DEF RecordShown, Called, DeskType, Notices
  <2> QED BY <1>5, <2>2, <2>3 DEF RecordShown, tasks, notify, desk, ghost, TaskType, StoreType,
             LoopType, DeskType, NotifyType, RestType
<1>6. CASE RecordRefused
  <2>1. snoozed' \in [Hrefs -> Times]
    BY <1>6, UnsnoozedType DEF RecordRefused, StoreType
  <2> QED BY <1>6, <2>1 DEF RecordRefused, tasks, notify, desk, ghost, TaskType, StoreType,
             LoopType, DeskType, NotifyType, RestType
<1>7. CASE Sleep
  <2>1. NotifyType'
    BY <1>7, AwaitType DEF Sleep, NotifyType, Loops
  <2>2. timer' \in 0..MaxSleep
    BY <1>7, WaitType, ConstantTypes DEF Sleep
  <2> QED BY <1>7, <2>1, <2>2, ConstantTypes DEF Sleep, tasks, store, desk, ghost, TaskType,
             StoreType, LoopType, DeskType, RestType
<1>8. CASE WokenUp
  BY <1>8, ConstantTypes DEF WokenUp, tasks, store, desk, ghost, TaskType, StoreType, LoopType,
     DeskType, NotifyType, RestType
<1>9. CASE SleptEnough
  <2>1. NotifyType'
    BY <1>9, GiveUpType DEF SleptEnough, NotifyType, Loops
  <2> QED BY <1>9, <2>1 DEF SleptEnough, tasks, store, desk, ghost, TaskType, StoreType, LoopType,
             DeskType, RestType
<1> QED BY <1>1, <1>2, <1>3, <1>4, <1>5, <1>6, <1>7, <1>8, <1>9 DEF LoopStep

-----------------------------------------------------------------------------
(* Everyone else's steps. *)

LEMMA LocationTypes ==
  ASSUME TypeOK, LocationStep
  PROVE  TypeOK'
<1> USE TypeParts
<1>1. NotifyType'
  BY AwaitType, GiveUpType DEF LocationStep, LocationWaits, LocationWoken, LocationTurns, NotifyType,
     Loops
<1>2. UNCHANGED <<now, tasks, store, loop, shown, desk, used, ghost>>
  BY DEF LocationStep, LocationWaits, LocationWoken, LocationTurns
<1> QED BY <1>1, <1>2 DEF tasks, store, loop, desk, ghost, TaskType, StoreType, LoopType, DeskType,
           RestType

\* What the user's steps leave alone.
LEMMA ElsewhereTypes ==
  ASSUME LoopType, Elsewhere
  PROVE  LoopType' /\ shown' = shown /\ location' = location
BY DEF Elsewhere, loop, LoopType

LEMMA LeaveType ==
  ASSUME StoreType, NEW h, Leave(h)
  PROVE  StoreType'
BY ConstantTypes DEF StoreType, Leave, store

LEMMA SnoozeType ==
  ASSUME TypeOK, NEW t \in Tasks, NEW minutes \in Lengths, Snooze(t, now + minutes)
  PROVE  TaskType' /\ StoreType'
<1>1. now + minutes \in Times
  BY TypeParts, ConstantTypes DEF Snooze, LoopType, Times
<1> QED BY <1>1, TypeParts DEF Snooze, tasks, TaskType, StoreType

LEMMA CompleteType ==
  ASSUME TypeOK, NEW t \in Tasks, Complete(t)
  PROVE  TaskType' /\ StoreType'
BY TypeParts, ConstantTypes DEF Complete, TaskType, StoreType

LEMMA UserTypes ==
  ASSUME TypeOK, UserStep
  PROVE  TypeOK'
<1> USE TypeParts, ElsewhereTypes, NotifyOneType, BoundTypes
<1> USE DEF desk, ghost, DeskType, RestType
<1>1. ASSUME NEW t \in Tasks, NEW times \in SUBSET AlarmTimes, SetAlarms(t, times)
      PROVE  TypeOK'
  BY <1>1 DEF SetAlarms, store, TaskType, StoreType
<1>2. ASSUME NEW t \in Tasks, CompleteTask(t)
      PROVE  TypeOK'
  <2>1. TaskType' /\ StoreType' /\ NotifyOne
    BY <1>2, CompleteType DEF CompleteTask, Complete
  <2> QED BY <1>2, <2>1 DEF CompleteTask
<1>3. ASSUME NEW t \in Tasks, CompleteElsewhere(t)
      PROVE  TypeOK'
  BY <1>3 DEF CompleteElsewhere, store, TaskType, StoreType
<1>4. ASSUME NEW t \in Tasks, ReopenTask(t)
      PROVE  TypeOK'
  BY <1>4 DEF ReopenTask, store, TaskType, StoreType
<1>5. ASSUME NEW t \in Tasks, DeleteTask(t)
      PROVE  TypeOK'
  BY <1>5, LeaveType DEF DeleteTask, TaskType
<1>6. ASSUME NEW t \in Tasks, NEW l \in Lists, MoveTask(t, l)
      PROVE  TypeOK'
  <2>1. used' \in Bounds
    BY <1>6, TwoBounds DEF MoveTask
  <2>2. left' \subseteq Hrefs
    BY <1>6 DEF MoveTask, Href, Hrefs, TaskType
  <2> QED BY <1>6, <2>1, <2>2, LeaveType DEF MoveTask, TaskType
<1>7. ASSUME NEW t \in Tasks, NEW minutes \in Lengths, SnoozeTask(t, now + minutes)
      PROVE  TypeOK'
  <2>1. TaskType' /\ StoreType' /\ NotifyOne
    BY <1>7, SnoozeType DEF SnoozeTask, Snooze
  <2> QED BY <1>7, <2>1 DEF SnoozeTask
<1>8. ASSUME NEW i \in Ids, Dismissed(i)
      PROVE  screen' \in Notices /\ closing' \subseteq Ids
  BY <1>8 DEF Dismissed, Notices
<1>9. ASSUME NEW i \in Ids, Button(i)
      PROVE  TypeOK'
  <2>1. screen[i][1] \in Tasks
    BY <1>9 DEF Button, Notices, Hrefs
  <2>2. TaskType' /\ StoreType'
    <3>1. CASE Complete(screen[i][1])
      BY <2>1, <3>1, CompleteType
    <3>2. CASE \E minutes \in Lengths : Snooze(screen[i][1], now + minutes)
      BY <2>1, <3>2, SnoozeType
    <3>3. CASE UNCHANGED <<tasks, store, notify>>
      BY <3>3 DEF tasks, store, TaskType, StoreType
    <3> QED BY <1>9, <3>1, <3>2, <3>3 DEF Button
  <2>3. NotifyOne \/ UNCHANGED notify
    BY <1>9 DEF Button, Complete, Snooze
  <2>4. LoopType' /\ UNCHANGED <<shown, location>>
    BY <1>9 DEF Button
  <2>5. NotifyType'
    BY <2>3, <2>4 DEF notify, NotifyType
  <2> QED BY <1>8, <1>9, <2>2, <2>4, <2>5 DEF Button
<1>10. ASSUME NEW i \in Ids, Dismiss(i)
       PROVE  TypeOK'
  BY <1>8, <1>10 DEF Dismiss, tasks, store, notify, TaskType, StoreType, NotifyType
<1>11. ASSUME NEW i \in Ids, Closed(i)
       PROVE  TypeOK'
  BY <1>11 DEF Closed, tasks, store, loop, notify, TaskType, StoreType, LoopType, NotifyType, Notices
<1> QED BY <1>1, <1>2, <1>3, <1>4, <1>5, <1>6, <1>7, <1>9, <1>10, <1>11 DEF UserStep

LEMMA TimeTypes ==
  ASSUME TypeOK, Tick \/ Suspends \/ Restart
  PROVE  TypeOK'
<1> USE TypeParts, ConstantTypes
<1>1. ASSUME NEW d \in Nat
      PROVE  Later(d) \in Times
  BY DEF Later, LoopType, Times
<1>2. CASE Tick
  <2>1. now' \in Times /\ timer' \in 0..MaxSleep /\ used' \in Bounds
    BY <1>1, <1>2, BoundTypes DEF Tick, LoopType, RestType
  <2> QED BY <1>2, <2>1 DEF Tick, tasks, store, notify, desk, ghost, TaskType, StoreType, LoopType,
             DeskType, NotifyType, RestType
<1>3. CASE Suspends
  <2>1. PICK d \in 1..(Grace + 1) : Suspend(d)
    BY <1>3 DEF Suspends
  <2>2. now' \in Times /\ used' \in Bounds
    BY <1>1, <2>1, BoundTypes DEF Suspend
  <2>3. NotifyType'
    BY <2>1, NotifyOneType DEF Suspend, notify, NotifyType
  <2> QED BY <2>1, <2>2, <2>3 DEF Suspend, tasks, store, loop, desk, ghost, TaskType, StoreType,
             LoopType, DeskType, RestType
<1>4. CASE Restart
  <2>1. used' \in Bounds
    BY <1>4, TwoBounds DEF Restart, RestType
  <2>2. excused' \subseteq Hrefs \cup {NoHref}
    BY <1>4 DEF Restart, RestType, DeskType, Notices
  <2>3. shown' \in Notices /\ closing' \subseteq Ids
    BY <1>4 DEF Restart, Notices
  <2>4. TaskType' /\ StoreType'
    BY <1>4 DEF Restart, tasks, TaskType, StoreType
  <2>5. NotifyType'
    BY <1>4 DEF Restart, NotifyType
  <2>6. LoopType'
    BY <1>4 DEF Restart, LoopType
  <2>7. DeskType' /\ RestType'
    BY <1>4, <2>1, <2>2, <2>3 DEF Restart, DeskType, RestType
  <2> QED BY <2>4, <2>5, <2>6, <2>7
<1> QED BY <1>2, <1>3, <1>4

LEMMA TypeStep ==
  ASSUME TypeOK, OpenPlaced, RingUnderWay, [Next]_vars
  PROVE  TypeOK'
<1>1. CASE UNCHANGED vars
  BY <1>1, TypeParts DEF vars, tasks, store, loop, notify, desk, ghost, TaskType, StoreType, LoopType,
     DeskType, NotifyType, RestType
<1> QED BY <1>1, LoopTypes, LocationTypes, UserTypes, TimeTypes DEF Next

LEMMA InitTypes == Init => TypeOK
<1> SUFFICES ASSUME Init PROVE TypeOK
  OBVIOUS
<1> USE TypeParts, ConstantTypes
<1>1. TaskType /\ StoreType /\ DeskType /\ NotifyType /\ RestType
  BY HomeAssumption DEF Init, TaskType, StoreType, DeskType, NotifyType, RestType, Notices, Bounds,
     Loops
<1>2. LoopType
  BY DEF Init, LoopType
<1> QED BY <1>1, <1>2

-----------------------------------------------------------------------------
(* The invariant. *)

\* How a step changes where tasks are.
LEMMA PlacedStep ==
  ASSUME TypeOK, OpenPlaced, [Next]_vars
  PROVE  OpenPlaced'
<1>1. place \in [Tasks -> Lists \cup {Nowhere}] /\ open \subseteq Tasks
  BY DEF TypeOK
<1>2. ASSUME NEW t \in Tasks, DeleteTask(t)
      PROVE  OpenPlaced'
  BY <1>1, <1>2 DEF DeleteTask, OpenPlaced
<1>3. ASSUME NEW t \in Tasks, NEW l \in Lists, MoveTask(t, l)
      PROVE  OpenPlaced'
  BY <1>1, <1>3 DEF MoveTask, OpenPlaced
<1>4. ASSUME NEW t \in Tasks, ReopenTask(t)
      PROVE  OpenPlaced'
  BY <1>4 DEF ReopenTask, OpenPlaced
<1>5. CASE place' = place /\ open' \subseteq open
  BY <1>5 DEF OpenPlaced
<1>6. ASSUME NEW i \in Ids, Button(i)
      PROVE  place' = place /\ open' \subseteq open
  BY <1>6 DEF Button, Complete, Snooze, tasks
<1>7. \/ place' = place /\ open' \subseteq open
      \/ \E t \in Tasks : DeleteTask(t) \/ ReopenTask(t) \/ \E l \in Lists : MoveTask(t, l)
  <2>1. CASE UserStep
    BY <1>6, <2>1 DEF UserStep, SetAlarms, CompleteTask, Complete, CompleteElsewhere, SnoozeTask,
       Snooze, Dismiss, Closed, tasks
  <2>2. CASE LoopStep \/ LocationStep
    BY <2>2 DEF LoopStep, LocationStep, Collect, CallServer, ServerShows, ServerRefuses, RecordShown,
       RecordRefused, Sleep, WokenUp, SleptEnough, LocationWaits, LocationWoken, LocationTurns, tasks
  <2>3. CASE Tick \/ Suspends \/ Restart \/ UNCHANGED vars
    BY <2>3 DEF Tick, Suspends, Suspend, Restart, tasks, vars
  <2> QED BY <2>1, <2>2, <2>3 DEF Next
<1> QED BY <1>2, <1>3, <1>4, <1>5, <1>7

\* The loop alone touches what it is doing, and only a ring that was taken, what
\* was taken; the table fired grows by a recorded ring.
LEMMA OnlyLoop ==
  ASSUME [Next]_vars
  PROVE  /\ LoopStep \/ Restart \/ UNCHANGED <<pc, ringing, answer>>
         /\ ServerShows \/ UNCHANGED taken
         /\ RecordShown \/ fired' \subseteq fired
<1>1. CASE UserStep
  <2>1. UNCHANGED <<pc, ringing, answer>>
    BY <1>1 DEF UserStep, SetAlarms, CompleteTask, CompleteElsewhere, ReopenTask, DeleteTask,
       MoveTask, SnoozeTask, Button, Dismiss, Closed, Elsewhere, loop
  <2>2. UNCHANGED taken
    BY <1>1 DEF UserStep, SetAlarms, CompleteTask, CompleteElsewhere, ReopenTask, DeleteTask,
       MoveTask, SnoozeTask, Button, Dismiss, Closed, ghost
  <2>3. fired' \subseteq fired
    BY <1>1 DEF UserStep, SetAlarms, CompleteTask, Complete, CompleteElsewhere, ReopenTask,
       DeleteTask, MoveTask, Leave, SnoozeTask, Snooze, Button, Dismiss, Closed, store
  <2> QED BY <2>1, <2>2, <2>3
<1>2. CASE LocationStep
  BY <1>2 DEF LocationStep, LocationWaits, LocationWoken, LocationTurns, loop, store, ghost
<1>3. CASE LoopStep
  BY <1>3 DEF LoopStep, Collect, CallServer, ServerRefuses, RecordRefused, Sleep, WokenUp,
     SleptEnough, RecordShown, store, ghost, ServerShows
<1>4. CASE Tick \/ Suspends \/ Restart \/ UNCHANGED vars
  BY <1>4 DEF Tick, Suspends, Suspend, Restart, vars, loop, store, ghost
<1> QED BY <1>1, <1>2, <1>3, <1>4 DEF Next

LEMMA UnderWayStep ==
  ASSUME TypeOK, RingUnderWay, [Next]_vars
  PROVE  RingUnderWay'
<1>1. CASE CallServer
  BY <1>1, CallType DEF RingUnderWay
<1>2. CASE LoopStep /\ ~CallServer
  BY <1>2 DEF LoopStep, RingUnderWay, Collect, ServerShows, ServerRefuses, RecordShown,
     RecordRefused, Sleep, WokenUp, SleptEnough
<1>3. CASE Restart
  BY <1>3 DEF Restart, RingUnderWay
<1> QED BY <1>1, <1>2, <1>3, OnlyLoop DEF RingUnderWay

\* What was taken stays taken, and the ring the server answers with an id is.
LEMMA TakenStep ==
  ASSUME TypeOK, RingUnderWay, [Next]_vars
  PROVE  /\ \A h \in Hrefs, at \in Times : taken[h][at] > 0 => taken'[h][at] > 0
         /\ ServerShows => taken'[ringing.href][ringing.at] > 0
<1>1. taken \in [Hrefs -> [Times -> Nat]]
  BY DEF TypeOK
<1>2. CASE ServerShows
  <2>1. ringing.href \in Hrefs /\ ringing.at \in Times
    BY <1>2 DEF ServerShows, RingUnderWay, Called
  <2>2. taken' = [taken EXCEPT ![ringing.href][ringing.at] = @ + 1]
    BY <1>2 DEF ServerShows
  <2>3. taken'[ringing.href][ringing.at] = taken[ringing.href][ringing.at] + 1
    BY <1>1, <2>1, <2>2
  <2>4. ASSUME NEW h \in Hrefs, NEW at \in Times
        PROVE  taken'[h][at] = taken[h][at] \/ taken'[h][at] = taken[h][at] + 1
    BY <1>1, <2>1, <2>2
  <2>5. ASSUME NEW h \in Hrefs, NEW at \in Times
        PROVE  taken[h][at] \in Nat
    BY <1>1
  <2> QED BY <2>1, <2>3, <2>4, <2>5
<1>3. CASE UNCHANGED taken /\ ~ServerShows
  BY <1>3
<1> QED BY <1>2, <1>3, OnlyLoop

LEMMA AnswerStep ==
  ASSUME TypeOK, RingUnderWay, AnswerTaken, [Next]_vars
  PROVE  AnswerTaken'
<1>1. CASE ServerShows
  BY <1>1, TakenStep DEF ServerShows, AnswerTaken
<1>2. CASE LoopStep /\ ~ServerShows
  BY <1>2 DEF LoopStep, AnswerTaken, Collect, CallServer, ServerRefuses, RecordShown,
     RecordRefused, Sleep, WokenUp, SleptEnough
<1>3. CASE Restart
  BY <1>3 DEF Restart, AnswerTaken
<1>4. CASE UNCHANGED <<pc, ringing, answer>> /\ ~ServerShows
  BY <1>4, OnlyLoop DEF AnswerTaken
<1> QED BY <1>1, <1>2, <1>3, <1>4, OnlyLoop

LEMMA FiredStep ==
  ASSUME TypeOK, RingUnderWay, AnswerTaken, FiredTaken, [Next]_vars
  PROVE  FiredTaken'
<1>1. ASSUME NEW f \in fired
      PROVE  taken'[f[1]][f[2]] > 0
  BY TakenStep DEF FiredTaken, TypeOK
<1>2. CASE RecordShown
  <2>1. taken[ringing.href][ringing.at] > 0 /\ ringing \in Called
    BY <1>2 DEF RecordShown, AnswerTaken, RingUnderWay
  <2>2. taken'[ringing.href][ringing.at] > 0
    BY <2>1, TakenStep DEF Called
  <2>3. fired' = fired \cup {<<ringing.href, ringing.at>>}
    BY <1>2 DEF RecordShown
  <2> QED BY <1>1, <2>2, <2>3 DEF FiredTaken
<1>3. CASE fired' \subseteq fired
  BY <1>1, <1>3 DEF FiredTaken
<1> QED BY <1>2, <1>3, OnlyLoop

LEMMA ReminderInit == Init => ReminderInvariant
<1> SUFFICES ASSUME Init PROVE ReminderInvariant
  OBVIOUS
<1>1. TypeOK
  BY InitTypes
<1>2. OpenPlaced /\ RingUnderWay /\ AnswerTaken /\ FiredTaken
  BY HomeAssumption DEF Init, OpenPlaced, RingUnderWay, AnswerTaken, FiredTaken
<1> QED BY <1>1, <1>2 DEF ReminderInvariant

LEMMA ReminderStep == ReminderInvariant /\ [Next]_vars => ReminderInvariant'
BY TypeStep, PlacedStep, UnderWayStep, AnswerStep, FiredStep DEF ReminderInvariant

\* Whatever counts as fired, and so is never looked for again, the notification
\* server took (ring marks it only on an Ok): no reminder is lost to a refusal.
THEOREM ReminderInvariance == Spec => []ReminderInvariant
BY ReminderInit, ReminderStep, PTL DEF Spec

\* The variables keep their types.
THEOREM ReminderTypes == Spec => []TypeOK
<1>1. ReminderInvariant => TypeOK
  BY DEF ReminderInvariant
<1> QED BY <1>1, ReminderInvariance, PTL

-----------------------------------------------------------------------------
(* Snoozes. *)

\* Which steps that are not the user's forget one.
LEMMA WhoForgets ==
  ASSUME TypeOK, [Next]_vars, used'.user = used.user
  PROVE  Collect \/ RecordShown \/ RecordRefused \/ UNCHANGED snoozed
<1>1. used.user + 1 # used.user
  BY DEF TypeOK
<1>2. used \in [user : Nat, fault : Nat, restart : Nat, moved : Nat]
  BY DEF TypeOK
<1>3. ~User
  BY <1>1, <1>2 DEF User
<1>4. ASSUME NEW t \in Tasks, NEW l \in Lists
      PROVE  ~MoveTask(t, l)
  BY <1>1, <1>2 DEF MoveTask
<1>5. CASE UserStep
  BY <1>3, <1>4, <1>5 DEF UserStep, SetAlarms, CompleteTask, CompleteElsewhere, ReopenTask,
     DeleteTask, SnoozeTask, Button, Dismiss, Closed, store
<1>6. CASE LocationStep \/ LoopStep
  BY <1>6 DEF LocationStep, LocationWaits, LocationWoken, LocationTurns, LoopStep, CallServer,
     ServerShows, ServerRefuses, Sleep, WokenUp, SleptEnough, store
<1>7. CASE Tick \/ Suspends \/ Restart \/ UNCHANGED vars
  BY <1>7 DEF Tick, Suspends, Suspend, Restart, vars, store
<1> QED BY <1>5, <1>6, <1>7 DEF Next

LEMMA SnoozeStep ==
  ASSUME ReminderInvariant, [Next]_vars, used'.user = used.user,
         NEW h \in Hrefs, snoozed[h] # 0, snoozed'[h] = 0
  PROVE  \/ taken[h][snoozed[h]] > 0
         \/ ~Live(h)
         \/ now - snoozed[h] > Grace /\ now - started > Grace
<1>1. TypeOK /\ RingUnderWay /\ AnswerTaken
  BY DEF ReminderInvariant
<1>2. snoozed \in [Hrefs -> Times]
  BY <1>1 DEF TypeOK
<1>3. ASSUME snoozed' = Unsnoozed(ringing.href, ringing.at)
      PROVE  h = ringing.href /\ snoozed[h] = ringing.at
  BY <1>2, <1>3 DEF Unsnoozed
<1>4. CASE Collect
  BY <1>4 DEF Collect
<1>5. CASE RecordShown
  <2>1. h = ringing.href /\ snoozed[h] = ringing.at
    BY <1>3, <1>5 DEF RecordShown
  <2> QED BY <1>1, <1>5, <2>1 DEF RecordShown, AnswerTaken
<1>6. CASE RecordRefused
  <2>1. h = ringing.href /\ snoozed[h] = ringing.at /\ TooLate(snoozed[h])
    BY <1>3, <1>6 DEF RecordRefused
  <2>2. now \in Nat /\ started \in Nat /\ snoozed[h] \in Nat /\ Grace \in Nat
    BY <1>1, <1>2, ConstantTypes DEF TypeOK
  <2> QED BY <2>1, <2>2 DEF TooLate
<1> QED BY <1>1, <1>4, <1>5, <1>6, WhoForgets

\* A snooze is never forgotten but by its user, its ring, its task's end or a
\* refusal that outlasts GRACE (unsnooze_at, collect).
THEOREM SnoozesKept == Spec => SnoozeKept
<1>1. ReminderInvariant /\ [Next]_vars =>
        [\A h \in Hrefs : snoozed[h] # 0 /\ snoozed'[h] = 0 /\ used'.user = used.user =>
           \/ taken[h][snoozed[h]] > 0
           \/ ~Live(h)
           \/ now - snoozed[h] > Grace /\ now - started > Grace]_vars
  BY SnoozeStep
<1> QED BY <1>1, ReminderInvariance, PTL DEF Spec, SnoozeKept

-----------------------------------------------------------------------------
(* A reminder rings once.  Each one that was taken as often as the restarts *)
(* and moves so far excuse is Spent: it is not about to be shown, and what  *)
(* keeps collect from finding it stays until the next restart or move.      *)

LEMMA RingTypes ==
  ASSUME TypeOK
  PROVE  /\ now \in Nat /\ MaxTime \in Nat /\ now <= MaxTime /\ Grace \in Nat /\ Times \subseteq Nat
         /\ snoozed \in [Hrefs -> Times] /\ taken \in [Hrefs -> [Times -> Nat]]
         /\ due \subseteq Ring /\ used \in Bounds
         /\ open \subseteq Tasks /\ place \in [Tasks -> Lists \cup {Nowhere}]
         /\ alarms \in [Tasks -> SUBSET AlarmTimes] /\ fired \subseteq Hrefs \X Times
BY ConstantTypes DEF TypeOK, Times, Bounds

\* The clock does not go back.
LEMMA NowStep ==
  ASSUME TypeOK, [Next]_vars
  PROVE  now' \in Nat /\ now <= now'
<1>1. ASSUME NEW d \in Nat, now' = Later(d)
      PROVE  now' \in Nat /\ now <= now'
  BY <1>1, RingTypes DEF Later
<1>2. now' = now \/ \E d \in Nat : now' = Later(d)
  <2>1. CASE UserStep
    BY <2>1 DEF UserStep, SetAlarms, CompleteTask, CompleteElsewhere, ReopenTask, DeleteTask,
       MoveTask, SnoozeTask, Button, Dismiss, Closed, Elsewhere
  <2>2. CASE LoopStep \/ LocationStep
    BY <2>2 DEF LoopStep, LocationStep, Collect, CallServer, ServerShows, ServerRefuses, RecordShown,
       RecordRefused, Sleep, WokenUp, SleptEnough, LocationWaits, LocationWoken, LocationTurns
  <2>3. CASE Tick
    BY <2>3 DEF Tick
  <2>4. CASE Suspends
    <3>1. PICK d \in 1..(Grace + 1) : now' = Later(d)
      BY <2>4 DEF Suspends, Suspend
    <3>2. d \in Nat
      BY RingTypes
    <3> QED BY <3>1, <3>2
  <2>5. CASE Restart \/ UNCHANGED vars
    BY <2>5 DEF Restart, vars
  <2> QED BY <2>1, <2>2, <2>3, <2>4, <2>5 DEF Next
<1> QED BY <1>1, <1>2, RingTypes

\* A snooze is changed to none, or to a time that has not passed.
LEMMA SnoozedTo ==
  ASSUME TypeOK, [Next]_vars, NEW h \in Hrefs
  PROVE  snoozed'[h] \in {snoozed[h], 0} \/ snoozed'[h] > now
<1> USE RingTypes
<1>1. ASSUME NEW t \in Tasks, Complete(t)
      PROVE  snoozed'[h] \in {snoozed[h], 0}
  BY <1>1 DEF Complete
<1>2. ASSUME NEW t \in Tasks, NEW until, Snooze(t, until)
      PROVE  snoozed'[h] = snoozed[h] \/ snoozed'[h] > now
  BY <1>2 DEF Snooze
<1>3. ASSUME NEW g, Leave(g)
      PROVE  snoozed'[h] \in {snoozed[h], 0}
  BY <1>3 DEF Leave, store
<1>4. ASSUME NEW i \in Ids, Button(i)
      PROVE  snoozed'[h] \in {snoozed[h], 0} \/ snoozed'[h] > now
  <2>1. screen[i][1] \in Tasks
    BY <1>4 DEF Button, TypeOK, Hrefs
  <2>2. \/ Complete(screen[i][1])
        \/ \E minutes \in Lengths : Snooze(screen[i][1], now + minutes)
        \/ UNCHANGED store
    BY <1>4 DEF Button
  <2> QED BY <1>1, <1>2, <2>1, <2>2 DEF store
<1>5. CASE UserStep
  BY <1>1, <1>2, <1>3, <1>4, <1>5 DEF UserStep, SetAlarms, CompleteTask, CompleteElsewhere,
     ReopenTask, DeleteTask, MoveTask, SnoozeTask, Dismiss, Closed, store
<1>6. CASE LoopStep
  BY <1>6 DEF LoopStep, Collect, CallServer, ServerShows, ServerRefuses, RecordShown, RecordRefused,
     Unsnoozed, Sleep, WokenUp, SleptEnough, store
<1>7. CASE LocationStep \/ Tick \/ Suspends \/ Restart \/ UNCHANGED vars
  BY <1>7 DEF LocationStep, LocationWaits, LocationWoken, LocationTurns, Tick, Suspends, Suspend,
     Restart, vars, store
<1> QED BY <1>5, <1>6, <1>7 DEF Next

\* So a task that is not snoozed until a time that passed never is again.
LEMMA PastSnooze ==
  ASSUME TypeOK, [Next]_vars, NEW h \in Hrefs, NEW at \in Times,
         at # 0, at <= now, snoozed[h] # at
  PROVE  snoozed'[h] # at
BY SnoozedTo, RingTypes

-----------------------------------------------------------------------------
(* What a pass shows. *)

LEMMA OneLatest ==
  ASSUME NEW times \in SUBSET Nat, NEW x \in Latest(times), NEW y \in Latest(times)
  PROVE  x = y
BY DEF Latest

\* A member of Due is a snooze that ran out, or its task's latest alarm.
LEMMA DueMember ==
  ASSUME TypeOK, NEW r \in Due
  PROVE  \/ /\ r.snoozed /\ r.href \in Hrefs /\ r.at = snoozed[r.href] /\ SnoozeDue(r.href)
            /\ r = [href |-> r.href, at |-> snoozed[r.href], snoozed |-> TRUE]
         \/ \E t \in open : /\ ~r.snoozed /\ r.href = Href(t) /\ ~SnoozeDue(Href(t))
                            /\ r.at \in Latest(DueAlarms(t))
                            /\ r = [href |-> Href(t), at |-> r.at, snoozed |-> FALSE]
<1>1. CASE \E h \in {g \in Hrefs : SnoozeDue(g) /\ Live(g)} :
             r = [href |-> h, at |-> snoozed[h], snoozed |-> TRUE]
  BY <1>1
<1>2. CASE \E t \in {u \in open : ~SnoozeDue(Href(u))} : \E at \in Latest(DueAlarms(t)) :
             r = [href |-> Href(t), at |-> at, snoozed |-> FALSE]
  <2>1. PICK t \in {u \in open : ~SnoozeDue(Href(u))} : \E at \in Latest(DueAlarms(t)) :
               r = [href |-> Href(t), at |-> at, snoozed |-> FALSE]
    BY <1>2
  <2>2. PICK at \in Latest(DueAlarms(t)) : r = [href |-> Href(t), at |-> at, snoozed |-> FALSE]
    BY <2>1
  <2>3. r.href = Href(t) /\ r.at = at /\ ~r.snoozed
    BY <2>2
  <2> QED BY <2>1, <2>2, <2>3
<1>3. CASE r \in UNION {{[href |-> Href(t), at |-> at, snoozed |-> FALSE] :
                          at \in Latest(DueAlarms(t))} : t \in {u \in open : ~SnoozeDue(Href(u))}}
  BY <1>2, <1>3
<1> QED BY <1>1, <1>3 DEF Due

LEMMA DueAlarmPast ==
  ASSUME TypeOK, NEW t \in open, NEW at \in Latest(DueAlarms(t))
  PROVE  /\ at \in Nat \ {0} /\ at <= now /\ now - at <= Grace /\ <<Href(t), at>> \notin fired
         /\ DueAlarms(t) \subseteq Nat
<1>1. DueAlarms(t) \subseteq Nat \ {0}
  <2>1. alarms[t] \subseteq 1..MaxTime
    BY RingTypes, TimesAssumption
  <2> QED BY <2>1, TimesAssumption DEF DueAlarms
<1>2. at \in DueAlarms(t)
  BY DEF Latest
<1> QED BY <1>1, <1>2 DEF DueAlarms

LEMMA CollectSound ==
  ASSUME TypeOK, OpenPlaced, Collect
  PROVE  DueSound'
<1> USE RingTypes
<1>1. due' = Due /\ pc' = "ring" /\ now' = now
      /\ snoozed' = [h \in Hrefs |-> IF SnoozeDue(h) /\ ~Live(h) THEN 0 ELSE snoozed[h]]
  BY DEF Collect
<1>2. Due \subseteq Ring
  BY DueType
<1>3. ASSUME NEW r \in Due
      PROVE  Sound(r)'
  <2>1. r.href \in Hrefs
    BY <1>2, <1>3 DEF Ring
  <2>2. CASE r.snoozed /\ r.at = snoozed[r.href] /\ SnoozeDue(r.href)
    BY <1>1, <2>2 DEF Sound, SnoozeDue
  <2>3. CASE \E t \in open : /\ r.href = Href(t) /\ ~SnoozeDue(Href(t))
                             /\ r.at \in Latest(DueAlarms(t))
    <3>1. PICK t \in open : /\ r.href = Href(t) /\ ~SnoozeDue(Href(t))
                            /\ r.at \in Latest(DueAlarms(t))
      BY <2>3
    <3>2. r.at \in Nat \ {0} /\ r.at <= now
      BY <3>1, DueAlarmPast
    <3>3. snoozed[r.href] \in Nat /\ snoozed'[r.href] = snoozed[r.href]
      BY <1>1, <2>1, <3>1
    <3>4. snoozed[r.href] = 0 \/ snoozed[r.href] > now
      BY <3>1, <3>3 DEF SnoozeDue
    <3> QED BY <1>1, <3>2, <3>3, <3>4 DEF Sound
  <2> QED BY <1>3, <2>2, <2>3, DueMember
<1>4. ASSUME NEW r \in Due, NEW s \in Due, r.href = s.href
      PROVE  r = s
  <2>1. CASE r.snoozed
    BY <1>4, <2>1, DueMember
  <2>2. CASE ~r.snoozed
    <3>1. PICK t \in open : r.href = Href(t) /\ ~SnoozeDue(Href(t)) /\ r.at \in Latest(DueAlarms(t))
                            /\ r = [href |-> Href(t), at |-> r.at, snoozed |-> FALSE]
      BY <2>2, <1>4, DueMember
    <3>2. PICK u \in open : s.href = Href(u) /\ ~SnoozeDue(Href(u)) /\ s.at \in Latest(DueAlarms(u))
                            /\ s = [href |-> Href(u), at |-> s.at, snoozed |-> FALSE]
      BY <1>4, <3>1, DueMember
    <3>3. t = u
      <4>1. Href(t) = Href(u)
        BY <1>4, <3>1, <3>2
      <4> QED BY <4>1 DEF Href
    <3>4. DueAlarms(t) \subseteq Nat
      BY <3>1, DueAlarmPast
    <3>5. r.at = s.at
      BY <3>1, <3>2, <3>3, <3>4, OneLatest
    <3> QED BY <3>1, <3>2, <3>3, <3>5
  <2> QED BY <2>1, <2>2
<1> QED BY <1>1, <1>3, <1>4 DEF DueSound, Calling

\* Soundness lasts.
LEMMA SoundStep ==
  ASSUME TypeOK, [Next]_vars, NEW r, r.href \in Hrefs, r.at \in Times, Sound(r)
  PROVE  r.at # 0 /\ r.at <= now' /\ (r.snoozed \/ snoozed'[r.href] # r.at)
<1>1. r.at # 0 /\ r.at <= now'
  BY NowStep, RingTypes DEF Sound
<1>2. r.snoozed \/ snoozed'[r.href] # r.at
  BY PastSnooze DEF Sound
<1> QED BY <1>1, <1>2

\* What the steps that are neither the loop's nor a restart leave.
LEMMA LoopOnly ==
  ASSUME [Next]_vars
  PROVE  LoopStep \/ Restart \/ UNCHANGED <<pc, due, ringing, answer>>
<1>1. CASE UserStep
  BY <1>1 DEF UserStep, SetAlarms, CompleteTask, CompleteElsewhere, ReopenTask, DeleteTask,
     MoveTask, SnoozeTask, Button, Dismiss, Closed, Elsewhere, loop
<1>2. CASE LocationStep \/ Tick \/ Suspends \/ UNCHANGED vars
  BY <1>2 DEF LocationStep, LocationWaits, LocationWoken, LocationTurns, Tick, Suspends, Suspend,
     vars, loop
<1> QED BY <1>1, <1>2 DEF Next

LEMMA SoundDueStep ==
  ASSUME TypeOK, OpenPlaced, RingUnderWay, DueSound, [Next]_vars
  PROVE  DueSound'
<1>1. ASSUME NEW r \in due
      PROVE  Sound(r)'
  <2>1. r.href \in Hrefs /\ r.at \in Times
    BY RingTypes DEF Ring
  <2>2. Sound(r)
    BY DEF DueSound
  <2> QED BY <2>1, <2>2, SoundStep DEF Sound
<1>2. ASSUME pc = "calling", ringing' = ringing
      PROVE  Sound(ringing)'
  <2>1. ringing.href \in Hrefs /\ ringing.at \in Times
    BY <1>2 DEF RingUnderWay, Called
  <2>2. Sound(ringing)
    BY <1>2 DEF DueSound
  <2>3. /\ ringing.at # 0 /\ ringing.at <= now'
        /\ ringing.snoozed \/ snoozed'[ringing.href] # ringing.at
    BY <2>1, <2>2, SoundStep
  <2> QED BY <1>2, <2>3 DEF Sound
<1>3. CASE Collect
  BY <1>3, CollectSound
<1>4. CASE CallServer
  <2>1. PICK r \in due : /\ due' = due \ {r}
                         /\ ringing' = [href |-> r.href, at |-> r.at, snoozed |-> r.snoozed,
                                        replaces |-> Replaced(r.href)]
    BY <1>4 DEF CallServer
  <2>2. Sound(ringing)'
    BY <1>1, <2>1 DEF Sound
  <2>3. \A s \in due' : s.href # ringing'.href
    BY <2>1 DEF DueSound
  <2> QED BY <1>1, <2>1, <2>2, <2>3 DEF DueSound
<1>5. CASE ServerShows \/ ServerRefuses
  BY <1>1, <1>5 DEF ServerShows, ServerRefuses, DueSound, Calling
<1>6. CASE RecordShown \/ RecordRefused
  BY <1>1, <1>6 DEF RecordShown, RecordRefused, DueSound, Calling
<1>7. CASE Sleep \/ WokenUp \/ SleptEnough
  BY <1>1, <1>7 DEF Sleep, WokenUp, SleptEnough, DueSound, Calling
<1>8. CASE Restart
  BY <1>8 DEF Restart, DueSound, Calling
<1>9. CASE UNCHANGED <<pc, due, ringing, answer>>
  BY <1>1, <1>2, <1>9 DEF DueSound, Calling
<1> QED BY <1>3, <1>4, <1>5, <1>6, <1>7, <1>8, <1>9, LoopOnly DEF LoopStep

-----------------------------------------------------------------------------
(* What is remembered of it. *)

\* How often a reminder may have rung: RingsOnce.
Allowed == 1 + used.restart + used.moved

LEMMA AllowedStep ==
  ASSUME TypeOK, [Next]_vars
  PROVE  /\ Allowed \in Nat
         /\ \/ Allowed' = Allowed + 1
            \/ Allowed' = Allowed /\ ~Restart /\ \A t \in Tasks, l \in Lists : ~MoveTask(t, l)
<1>1. used \in Bounds
  BY RingTypes
<1>2. Restart => Allowed' = Allowed + 1
  BY <1>1 DEF Restart, Bounds, Allowed
<1>3. ASSUME NEW t \in Tasks, NEW l \in Lists, MoveTask(t, l)
      PROVE  Allowed' = Allowed + 1
  BY <1>1, <1>3 DEF MoveTask, Bounds, Allowed
<1>4. User \/ Fault => Allowed' = Allowed
  BY <1>1 DEF User, Fault, Bounds, Allowed
<1>5. used' = used => Allowed' = Allowed
  BY DEF Allowed
<1>6. \/ User \/ Fault \/ used' = used \/ Restart
      \/ \E t \in Tasks, l \in Lists : MoveTask(t, l)
  <2>1. CASE UserStep
    BY <2>1 DEF UserStep, SetAlarms, CompleteTask, CompleteElsewhere, ReopenTask, DeleteTask,
       SnoozeTask, Button, Dismiss, Closed
  <2>2. CASE LoopStep \/ LocationStep
    BY <2>2 DEF LoopStep, LocationStep, Collect, CallServer, ServerShows, ServerRefuses, RecordShown,
       RecordRefused, Sleep, WokenUp, SleptEnough, LocationWaits, LocationWoken, LocationTurns
  <2>3. CASE Tick \/ Suspends \/ UNCHANGED vars
    BY <2>3 DEF Tick, Suspends, Suspend, vars
  <2> QED BY <2>1, <2>2, <2>3 DEF Next
<1>7. Allowed \in Nat /\ Allowed + 1 # Allowed
  BY <1>1 DEF Bounds, Allowed
<1> QED BY <1>2, <1>3, <1>4, <1>5, <1>6, <1>7

\* That it rang, or that its task is gone, stays: forget drops the first only with
\* the second, or with a move.
LEMMA FiredOrGone ==
  ASSUME TypeOK, [Next]_vars, ~Restart, \A t \in Tasks, l \in Lists : ~MoveTask(t, l),
         NEW h \in Hrefs, NEW at \in Times, <<h, at>> \in fired \/ place[h[1]] = Nowhere
  PROVE  <<h, at>> \in fired' \/ place'[h[1]] = Nowhere
<1> USE RingTypes
<1>1. h[1] \in Tasks
  BY DEF Hrefs
<1>2. CASE fired \subseteq fired' /\ place' = place
  BY <1>2
<1>3. ASSUME NEW t \in Tasks, DeleteTask(t)
      PROVE  <<h, at>> \in fired' \/ place'[h[1]] = Nowhere
  <2>1. CASE h[1] = t
    BY <1>1, <1>3, <2>1 DEF DeleteTask
  <2>2. CASE h[1] # t
    <3>1. place'[h[1]] = place[h[1]]
      BY <1>1, <1>3, <2>2 DEF DeleteTask
    <3>2. h # Href(t)
      BY <2>2 DEF Href
    <3>3. <<h, at>> \in fired => <<h, at>> \in fired'
      BY <1>3, <3>2 DEF DeleteTask, Leave, store
    <3> QED BY <3>1, <3>3
  <2> QED BY <2>1, <2>2
<1>4. (fired \subseteq fired' /\ place' = place) \/ \E t \in Tasks : DeleteTask(t)
  <2>1. ASSUME NEW i \in Ids, Button(i)
        PROVE  fired' = fired /\ place' = place
    BY <2>1 DEF Button, Complete, Snooze, tasks, store
  <2>2. CASE UserStep
    BY <2>1, <2>2 DEF UserStep, SetAlarms, CompleteTask, Complete, CompleteElsewhere, ReopenTask,
       SnoozeTask, Snooze, Dismiss, Closed, tasks, store
  <2>3. CASE LoopStep \/ LocationStep
    BY <2>3 DEF LoopStep, LocationStep, Collect, CallServer, ServerShows, ServerRefuses, RecordShown,
       RecordRefused, Sleep, WokenUp, SleptEnough, LocationWaits, LocationWoken, LocationTurns,
       tasks, store
  <2>4. CASE Tick \/ Suspends \/ UNCHANGED vars
    BY <2>4 DEF Tick, Suspends, Suspend, vars, tasks, store
  <2> QED BY <2>2, <2>3, <2>4 DEF Next
<1> QED BY <1>2, <1>3, <1>4

\* What keeps collect from finding it.
Over(h, at) ==
  /\ snoozed[h] # at
  /\ <<h, at>> \in fired \/ now - at > Grace \/ place[h[1]] = Nowhere

LEMMA OverStep ==
  ASSUME TypeOK, [Next]_vars, ~Restart, \A t \in Tasks, l \in Lists : ~MoveTask(t, l),
         NEW h \in Hrefs, NEW at \in Times, at # 0, at <= now, Over(h, at)
  PROVE  Over(h, at)'
<1>1. snoozed'[h] # at
  BY PastSnooze DEF Over
<1>2. now - at > Grace => now' - at > Grace
  BY NowStep, RingTypes
<1>3. <<h, at>> \in fired \/ place[h[1]] = Nowhere => <<h, at>> \in fired' \/ place'[h[1]] = Nowhere
  BY FiredOrGone
<1> QED BY <1>1, <1>2, <1>3 DEF Over

LEMMA OverNotDue ==
  ASSUME TypeOK, OpenPlaced, NEW h \in Hrefs, NEW at \in Times, Over(h, at),
         NEW r \in Due, r.href = h, r.at = at
  PROVE  FALSE
<1>1. ~(r.snoozed /\ r.at = snoozed[r.href])
  BY DEF Over
<1>2. PICK t \in open : r.href = Href(t) /\ r.at \in Latest(DueAlarms(t))
  BY <1>1, DueMember
<1>3. now - at <= Grace /\ <<h, at>> \notin fired
  BY <1>2, DueAlarmPast
<1>4. place[h[1]] = Nowhere
  <2>1. at \in Nat /\ now \in Nat /\ Grace \in Nat
    BY RingTypes
  <2> QED BY <1>3, <2>1 DEF Over
<1>5. h[1] = t /\ place[t] \in Lists
  BY <1>2 DEF Href, OpenPlaced
<1> QED BY <1>4, <1>5, NowhereAssumption

\* Its ring is recorded.
LEMMA RecordedOver ==
  ASSUME TypeOK, RingUnderWay, RecordShown, NEW h \in Hrefs, NEW at \in Times, at # 0,
         IsRing(h, at), ringing.snoozed \/ snoozed[h] # at
  PROVE  Over(h, at)'
<1>1. <<h, at>> \in fired'
  BY DEF RecordShown, IsRing
<1>2. snoozed'[h] # at
  BY RingTypes DEF RecordShown, IsRing, Unsnoozed
<1> QED BY <1>1, <1>2 DEF Over

LEMMA SpentStep ==
  ASSUME ReminderInvariant, DueSound, [Next]_vars,
         ~Restart, \A t \in Tasks, l \in Lists : ~MoveTask(t, l),
         NEW h \in Hrefs, NEW at \in Times, Spent(h, at)
  PROVE  Spent(h, at)'
<1>1. TypeOK /\ OpenPlaced /\ RingUnderWay
  BY DEF ReminderInvariant
<1>2. at # 0 /\ at <= now /\ at <= now'
  BY <1>1, NowStep, RingTypes DEF Spent
<1>3. Over(h, at) => Over(h, at)'
  BY <1>1, <1>2, OverStep
<1>4. pc # "answered" \/ answer = 0 => Over(h, at)
  BY DEF Spent, Remembered, Over
<1>5. /\ \A r \in due : ~(r.href = h /\ r.at = at)
      /\ ~(pc = "calling" /\ IsRing(h, at))
  BY DEF Spent
<1>6. Over(h, at)' => Remembered(h, at)'
  BY DEF Over, Remembered
<1>7. CASE Collect
  <2>1. Over(h, at) /\ due' = Due /\ pc' = "ring"
    BY <1>4, <1>7 DEF Collect
  <2>2. \A r \in due' : ~(r.href = h /\ r.at = at)
    BY <1>1, <2>1, OverNotDue
  <2> QED BY <1>2, <1>3, <1>6, <2>1, <2>2 DEF Spent
<1>8. CASE CallServer
  <2>1. PICK r \in due : /\ due' = due \ {r}
                         /\ ringing' = [href |-> r.href, at |-> r.at, snoozed |-> r.snoozed,
                                        replaces |-> Replaced(r.href)]
    BY <1>8 DEF CallServer
  <2>2. Over(h, at)
    BY <1>4, <1>8 DEF CallServer
  <2>3. ~IsRing(h, at)'
    BY <1>5, <2>1 DEF IsRing
  <2> QED BY <1>2, <1>3, <1>5, <1>6, <2>1, <2>2, <2>3 DEF Spent
<1>9. CASE ServerShows \/ ServerRefuses
  <2>1. Over(h, at) /\ due' = due /\ pc' = "answered"
    BY <1>4, <1>9 DEF ServerShows, ServerRefuses
  <2> QED BY <1>2, <1>3, <1>5, <1>6, <2>1 DEF Spent
<1>10. CASE RecordShown
  <2>1. due' = due /\ pc' = "ring" /\ pc = "answered" /\ answer # 0
    BY <1>10 DEF RecordShown
  <2>2. Over(h, at) \/ (IsRing(h, at) /\ (ringing.snoozed \/ snoozed[h] # at))
    BY DEF Spent, Remembered, Over
  <2>3. Over(h, at)'
    BY <1>1, <1>2, <1>3, <1>10, <2>2, RecordedOver
  <2> QED BY <1>2, <1>5, <1>6, <2>1, <2>3 DEF Spent
<1>11. CASE RecordRefused \/ Sleep \/ WokenUp \/ SleptEnough
  <2>1. Over(h, at) /\ due' = due /\ pc' # "calling"
    BY <1>4, <1>11 DEF RecordRefused, Sleep, WokenUp, SleptEnough
  <2> QED BY <1>2, <1>3, <1>5, <1>6, <2>1 DEF Spent
<1>12. CASE UNCHANGED <<pc, due, ringing, answer>>
  <2>1. snoozed[h] # at => snoozed'[h] # at
    BY <1>1, <1>2, PastSnooze
  <2>2. Over(h, at) \/ (/\ pc = "answered" /\ answer # 0 /\ IsRing(h, at)
                        /\ ringing.snoozed \/ snoozed[h] # at)
    BY DEF Spent, Remembered, Over
  <2>3. Remembered(h, at)'
    BY <1>3, <1>6, <1>12, <2>1, <2>2 DEF Remembered, IsRing
  <2>4. ~(pc' = "calling" /\ IsRing(h, at)')
    BY <1>5, <1>12 DEF IsRing
  <2> QED BY <1>2, <1>5, <1>12, <2>3, <2>4 DEF Spent
<1> QED BY <1>7, <1>8, <1>9, <1>10, <1>11, <1>12, LoopOnly DEF LoopStep

\* The ring that was just taken.
LEMMA ShownSpent ==
  ASSUME ReminderInvariant, DueSound, ServerShows
  PROVE  Spent(ringing.href, ringing.at)'
<1>1. pc = "calling" /\ pc' = "answered" /\ UNCHANGED <<due, ringing, snoozed, now>>
  BY DEF ServerShows, store
<1>2. answer' # 0
  BY ConstantTypes DEF ServerShows
<1>3. Sound(ringing) /\ \A r \in due : r.href # ringing.href
  BY <1>1 DEF DueSound, Calling
<1> QED BY <1>1, <1>2, <1>3 DEF Spent, Remembered, IsRing, Sound

LEMMA RingsStep ==
  ASSUME RingInvariant, [Next]_vars
  PROVE  RingsOnce' /\ SpentRings'
<1>1. ReminderInvariant /\ DueSound /\ SpentRings /\ RingsOnce /\ TypeOK /\ RingUnderWay
  BY DEF RingInvariant, ReminderInvariant
<1>2. Allowed \in Nat /\ taken \in [Hrefs -> [Times -> Nat]]
  BY <1>1, AllowedStep, RingTypes
<1>3. ASSUME NEW h \in Hrefs, NEW at \in Times
      PROVE  /\ taken[h][at] \in Nat /\ taken[h][at] <= Allowed
             /\ taken[h][at] = Allowed => Spent(h, at)
  BY <1>1, <1>2 DEF RingsOnce, SpentRings, Allowed
<1>4. ASSUME NEW h \in Hrefs, NEW at \in Times
      PROVE  /\ taken'[h][at] <= Allowed'
             /\ taken'[h][at] = Allowed' => Spent(h, at)'
  <2>1. CASE Allowed' = Allowed + 1
    <3>1. CASE ServerShows
      BY <3>1, <2>1, <1>2 DEF ServerShows, Allowed
    <3>2. CASE taken' = taken
      BY <1>2, <1>3, <2>1, <3>2
    <3> QED BY <3>1, <3>2, OnlyLoop
  <2>2. CASE Allowed' = Allowed /\ ~Restart /\ \A t \in Tasks, l \in Lists : ~MoveTask(t, l)
    <3>1. CASE taken'[h][at] = taken[h][at]
      BY <1>1, <1>3, <2>2, <3>1, SpentStep
    <3>2. CASE taken'[h][at] # taken[h][at]
      <4>1. ServerShows
        BY <3>2, OnlyLoop
      <4>2. ringing.href \in Hrefs /\ ringing.at \in Times /\ pc = "calling"
        BY <1>1, <4>1 DEF ServerShows, RingUnderWay, Called
      <4>3. h = ringing.href /\ at = ringing.at /\ taken'[h][at] = taken[h][at] + 1
        BY <1>2, <3>2, <4>1, <4>2 DEF ServerShows
      <4>4. taken[h][at] # Allowed
        BY <1>3, <4>2, <4>3 DEF Spent, IsRing
      <4>5. Spent(ringing.href, ringing.at)'
        BY <1>1, <4>1, ShownSpent
      <4>6. ringing' = ringing
        BY <4>1 DEF ServerShows
      <4>7. Spent(h, at)'
        BY <4>3, <4>5, <4>6 DEF Spent, Remembered, IsRing
      <4>8. taken[h][at] + 1 <= Allowed
        <5>1. taken[h][at] \in Nat /\ taken[h][at] <= Allowed
          BY <1>3
        <5> QED BY <1>2, <4>4, <5>1
      <4>9. taken'[h][at] <= Allowed'
        BY <2>2, <4>3, <4>8
      <4> QED BY <4>7, <4>9
    <3> QED BY <3>1, <3>2
  <2> QED BY <1>1, <2>1, <2>2, AllowedStep
<1> QED BY <1>4 DEF RingsOnce, SpentRings, Allowed

LEMMA RingInit == Init => RingInvariant
<1> SUFFICES ASSUME Init PROVE RingInvariant
  OBVIOUS
<1>1. ReminderInvariant
  BY ReminderInit
<1>2. \A h \in Hrefs, at \in Times : taken[h][at] = 0
  BY DEF Init
<1>3. used.restart = 0 /\ used.moved = 0
  BY DEF Init
<1>4. SpentRings /\ RingsOnce
  BY <1>2, <1>3 DEF SpentRings, RingsOnce
<1>5. DueSound
  BY DEF Init, DueSound, Calling
<1> QED BY <1>1, <1>4, <1>5 DEF RingInvariant

LEMMA RingStep == RingInvariant /\ [Next]_vars => RingInvariant'
<1> SUFFICES ASSUME RingInvariant, [Next]_vars PROVE RingInvariant'
  OBVIOUS
<1>1. ReminderInvariant /\ DueSound
  BY DEF RingInvariant
<1>2. ReminderInvariant'
  BY <1>1, ReminderStep
<1>3. DueSound'
  BY <1>1, SoundDueStep DEF ReminderInvariant
<1> QED BY <1>2, <1>3, RingsStep DEF RingInvariant

\* However often it is looked for, snoozed again, late or refused first, a reminder
\* is shown once, and once more for each restart and each move at most (the table
\* fired, unsnooze_at, and one reminder a task in a pass of collect).
THEOREM EachRingsOnce == Spec => []RingsOnce
<1>1. RingInvariant => RingsOnce
  BY DEF RingInvariant
<1> QED BY <1>1, RingInit, RingStep, PTL DEF Spec

-----------------------------------------------------------------------------
(* One notification for a task.  What is on the screen the loop knows of,   *)
(* so that a new one takes its place.                                      *)

LEMMA DeskTypes ==
  ASSUME TypeOK
  PROVE  shown \in Notices /\ screen \in Notices /\ 0 \notin Ids /\ answer \in Ids \cup {0}
BY ConstantTypes DEF TypeOK, Notices

\* Who changes what is shown.
LEMMA DeskStep ==
  ASSUME [Next]_vars
  PROVE  \/ ServerShows \/ Restart
         \/ UNCHANGED <<screen, closing, excused>>
         \/ \E i \in Ids : Dismissed(i) /\ UNCHANGED <<shown, excused, loop>>
         \/ \E i \in Ids : Closed(i)
<1>1. CASE UserStep
  BY <1>1 DEF UserStep, SetAlarms, CompleteTask, CompleteElsewhere, ReopenTask, DeleteTask,
     MoveTask, SnoozeTask, Button, Dismiss, Elsewhere, desk, ghost
<1>2. CASE LoopStep \/ LocationStep
  BY <1>2 DEF LoopStep, LocationStep, Collect, CallServer, ServerRefuses, RecordShown, RecordRefused,
     Sleep, WokenUp, SleptEnough, LocationWaits, LocationWoken, LocationTurns, desk, ghost
<1>3. CASE Tick \/ Suspends \/ UNCHANGED vars
  BY <1>3 DEF Tick, Suspends, Suspend, vars, desk, ghost
<1> QED BY <1>1, <1>2, <1>3 DEF Next

LEMMA KnownShows ==
  ASSUME TypeOK, ScreenKnown, ServerShows
  PROVE  ScreenKnown'
<1> USE DeskTypes
<1>1. PICK i \in Ids :
        /\ i \in IF ringing.replaces # 0 THEN {ringing.replaces} ELSE Earliest(FreeIds)
        /\ answer' = i
        /\ screen' = [screen EXCEPT ![i] = ringing.href]
        /\ excused' = IF i \in closing THEN excused \cup {ringing.href} ELSE excused
  BY DEF ServerShows
<1>2. pc = "calling" /\ pc' = "answered" /\ UNCHANGED <<shown, closing, ringing>>
  BY DEF ServerShows
<1>3. screen'[i] = ringing.href /\ \A j \in Ids \ {i} : screen'[j] = screen[j]
  BY <1>1 DEF Notices
<1>4. ASSUME NEW j \in Ids, screen'[j] # NoHref, screen'[j] \notin excused'
      PROVE  j \notin closing' /\ (shown'[j] = screen'[j] \/ JustShown(j)')
  <2>1. CASE j = i
    BY <1>1, <1>2, <1>3, <1>4, <2>1 DEF JustShown
  <2>2. CASE j # i
    BY <1>1, <1>2, <1>3, <1>4, <2>2 DEF ScreenKnown, JustShown
  <2> QED BY <2>1, <2>2
<1>5. ringing'.replaces \in {0, answer'} /\ screen'[answer'] \in {ringing'.href, NoHref}
  BY <1>1, <1>2, <1>3
<1> QED BY <1>2, <1>4, <1>5 DEF ScreenKnown, Calling

LEMMA KnownRecorded ==
  ASSUME TypeOK, ScreenKnown, RecordShown
  PROVE  ScreenKnown'
<1> USE DeskTypes
<1>1. /\ pc = "answered" /\ answer \in Ids /\ pc' = "ring"
      /\ shown' = [i \in Ids |-> IF i = answer THEN ringing.href
                                 ELSE IF i = ringing.replaces THEN NoHref ELSE shown[i]]
      /\ UNCHANGED <<screen, closing, excused>>
  BY DEF RecordShown, desk, ghost
<1>2. ringing.replaces \in {0, answer} /\ screen[answer] \in {ringing.href, NoHref}
  BY <1>1 DEF ScreenKnown
<1>3. \A i \in Ids : shown'[i] = IF i = answer THEN ringing.href ELSE shown[i]
  BY <1>1, <1>2
<1>4. \A i \in Ids : shown[i] # NoHref /\ shown[i] = ringing.href => i = ringing.replaces
  BY <1>1 DEF ScreenKnown, Calling
<1>5. \A i, j \in Ids : shown'[i] # NoHref /\ shown'[i] = shown'[j] => i = j
  BY <1>2, <1>3, <1>4 DEF ScreenKnown
<1>6. \A i \in Ids : screen[i] # NoHref /\ screen[i] \notin excused =>
        i \notin closing /\ shown'[i] = screen[i]
  BY <1>2, <1>3 DEF ScreenKnown, JustShown
<1> QED BY <1>1, <1>5, <1>6 DEF ScreenKnown, Calling

LEMMA KnownCalled ==
  ASSUME TypeOK, ScreenKnown, CallServer
  PROVE  ScreenKnown'
<1>1. PICK r \in due : ringing' = [href |-> r.href, at |-> r.at, snoozed |-> r.snoozed,
                                   replaces |-> Replaced(r.href)]
  BY DEF CallServer
<1>2. pc = "ring" /\ pc' = "calling" /\ UNCHANGED <<shown, screen, closing, excused>>
  BY DEF CallServer, desk, ghost
<1>3. ASSUME NEW i \in Ids, shown[i] # NoHref, shown[i] = r.href
      PROVE  i = Replaced(r.href)
  <2>1. \A j \in Ids : shown[j] = r.href => j = i
    BY <1>3 DEF ScreenKnown
  <2>2. {j \in Ids : shown[j] = r.href} = {i}
    BY <1>3, <2>1
  <2> QED BY <2>2 DEF Replaced
<1> QED BY <1>1, <1>2, <1>3 DEF ScreenKnown, Calling, JustShown

LEMMA ScreenStep ==
  ASSUME TypeOK, ScreenKnown, [Next]_vars
  PROVE  ScreenKnown'
<1> USE DeskTypes
<1>1. CASE Restart
  <2>1. \A i \in Ids : shown'[i] = NoHref /\ screen'[i] \in excused'
    BY <1>1 DEF Restart
  <2> QED BY <1>1, <2>1 DEF Restart, ScreenKnown, Calling
<1>2. CASE ServerShows \/ RecordShown \/ CallServer
  BY <1>2, KnownShows, KnownRecorded, KnownCalled
<1>3. ASSUME NEW i \in Ids, Dismissed(i), UNCHANGED <<shown, excused, loop>>
      PROVE  ScreenKnown'
  <2>1. \A j \in Ids : screen'[j] = IF j = i THEN NoHref ELSE screen[j]
    BY <1>3 DEF Dismissed, Notices
  <2>2. closing' = closing \cup {i} /\ UNCHANGED <<pc, ringing, answer>>
    BY <1>3 DEF Dismissed, loop
  <2>3. ASSUME NEW j \in Ids, screen'[j] # NoHref, screen'[j] \notin excused'
        PROVE  j \notin closing' /\ (shown'[j] = screen'[j] \/ JustShown(j)')
    BY <1>3, <2>1, <2>2, <2>3 DEF ScreenKnown, JustShown
  <2>4. pc = "answered" /\ answer # 0 => screen'[answer] \in {ringing.href, NoHref}
    BY <2>1 DEF ScreenKnown
  <2> QED BY <1>3, <2>2, <2>3, <2>4 DEF ScreenKnown, Calling
<1>4. ASSUME NEW i \in Ids, Closed(i)
      PROVE  ScreenKnown'
  <2>1. i \in closing /\ closing' = closing \ {i}
        /\ UNCHANGED <<pc, ringing, answer, screen, excused>>
    BY <1>4 DEF Closed, loop, ghost
  <2>2. \A j \in Ids : shown'[j] = IF j = i THEN NoHref ELSE shown[j]
    BY <1>4 DEF Closed, Notices
  <2>3. ASSUME NEW j \in Ids, screen'[j] # NoHref, screen'[j] \notin excused'
        PROVE  j \notin closing' /\ (shown'[j] = screen'[j] \/ JustShown(j)')
    BY <2>1, <2>2, <2>3 DEF ScreenKnown, JustShown
  <2> QED BY <2>1, <2>2, <2>3 DEF ScreenKnown, Calling
<1>5. CASE ServerRefuses \/ RecordRefused
  BY <1>5 DEF ServerRefuses, RecordRefused, desk, ghost, ScreenKnown, Calling, JustShown
<1>6. CASE Collect \/ Sleep \/ WokenUp \/ SleptEnough
  BY <1>6 DEF Collect, Sleep, WokenUp, SleptEnough, desk, ghost, ScreenKnown, Calling, JustShown
<1>7. CASE UNCHANGED <<pc, ringing, answer, shown, screen, closing, excused>>
  BY <1>7 DEF ScreenKnown, Calling, JustShown
<1>8. \/ LoopStep \/ Restart
      \/ \E i \in Ids : Dismissed(i) /\ UNCHANGED <<shown, excused, loop>>
      \/ \E i \in Ids : Closed(i)
      \/ UNCHANGED <<pc, ringing, answer, shown, screen, closing, excused>>
  <2>1. LoopStep \/ Restart \/ (\E i \in Ids : Closed(i)) \/ UNCHANGED shown
    <3>1. CASE UserStep
      BY <3>1 DEF UserStep, SetAlarms, CompleteTask, CompleteElsewhere, ReopenTask, DeleteTask,
         MoveTask, SnoozeTask, Button, Dismiss, Elsewhere
    <3>2. CASE LocationStep \/ Tick \/ Suspends \/ UNCHANGED vars
      BY <3>2 DEF LocationStep, LocationWaits, LocationWoken, LocationTurns, Tick, Suspends, Suspend,
         vars
    <3> QED BY <3>1, <3>2 DEF Next
  <2> QED BY <2>1, DeskStep, LoopOnly DEF LoopStep
<1> QED BY <1>1, <1>2, <1>3, <1>4, <1>5, <1>6, <1>7, <1>8 DEF LoopStep

-----------------------------------------------------------------------------
(* Which notifications a task that was moved has.                          *)

LEMMA RingsTypes ==
  ASSUME TypeOK, RingUnderWay, NEW h \in Hrefs
  PROVE  /\ h[1] \in Tasks /\ h = <<h[1], h[2]>>
         /\ \A t \in Tasks : place[t] \in Lists => Href(t) \in Hrefs
BY DEF Hrefs, Href

\* What collect finds is where its task is.
LEMMA DueIsThere ==
  ASSUME TypeOK, OpenPlaced, NEW r \in Due
  PROVE  place[r.href[1]] = r.href[2] /\ r.href[1] \in open
<1>1. CASE \E h \in {g \in Hrefs : SnoozeDue(g) /\ Live(g)} :
             r = [href |-> h, at |-> snoozed[h], snoozed |-> TRUE]
  BY <1>1 DEF Live, Hrefs
<1>2. ASSUME NEW t \in open, r.href = Href(t)
      PROVE  place[r.href[1]] = r.href[2] /\ r.href[1] \in open
  BY <1>2 DEF Href
<1>3. CASE \E t \in {u \in open : ~SnoozeDue(Href(u))} : \E at \in Latest(DueAlarms(t)) :
             r = [href |-> Href(t), at |-> at, snoozed |-> FALSE]
  BY <1>2, <1>3
<1> QED BY <1>1, <1>3 DEF Due

\* Nothing begins to ring but what collect found.
LEMMA RingingStep ==
  ASSUME TypeOK, RingUnderWay, [Next]_vars, NEW h \in Hrefs, Ringing(h)'
  PROVE  Ringing(h) \/ (Collect /\ \E r \in Due : r.href = h)
<1> USE DeskTypes DEF Ringing
<1>1. CASE Collect
  BY <1>1 DEF Collect, desk
<1>2. CASE CallServer
  BY <1>2 DEF CallServer, desk
<1>3. CASE ServerShows
  BY <1>3 DEF ServerShows, Notices
<1>4. CASE ServerRefuses \/ RecordShown \/ RecordRefused \/ Sleep \/ WokenUp \/ SleptEnough
  BY <1>4 DEF ServerRefuses, RecordShown, RecordRefused, Sleep, WokenUp, SleptEnough, desk
<1>5. CASE Restart
  BY <1>5 DEF Restart
<1>6. ASSUME NEW i \in Ids, Dismissed(i), UNCHANGED loop
      PROVE  Ringing(h)
  <2>1. h # NoHref
    BY HrefAssumption
  <2> QED BY <1>6, <2>1 DEF Dismissed, Notices, loop
<1>7. CASE UNCHANGED <<pc, ringing, due, screen>>
  BY <1>7
<1>8. \/ LoopStep \/ Restart \/ UNCHANGED <<pc, ringing, due, screen>>
      \/ \E i \in Ids : Dismissed(i) /\ UNCHANGED loop
  <2>1. CASE UserStep
    BY <2>1 DEF UserStep, SetAlarms, CompleteTask, CompleteElsewhere, ReopenTask, DeleteTask,
       MoveTask, SnoozeTask, Button, Dismiss, Closed, Elsewhere, desk, loop
  <2>2. CASE LocationStep \/ Tick \/ Suspends \/ UNCHANGED vars
    BY <2>2 DEF LocationStep, LocationWaits, LocationWoken, LocationTurns, Tick, Suspends, Suspend,
       vars, desk, loop
  <2> QED BY <2>1, <2>2 DEF Next
<1> QED BY <1>1, <1>2, <1>3, <1>4, <1>5, <1>6, <1>7, <1>8 DEF LoopStep

\* A task goes only where it is moved, and what rings of it is left behind then.
LEMMA PlaceStep ==
  ASSUME TypeOK, [Next]_vars
  PROVE  \/ UNCHANGED <<place, left>>
         \/ \E t \in Tasks : place' = [place EXCEPT ![t] = Nowhere] /\ UNCHANGED left
         \/ \E t \in Tasks, l \in Lists : MoveTask(t, l)
<1>1. CASE UserStep
  BY <1>1 DEF UserStep, SetAlarms, CompleteTask, Complete, CompleteElsewhere, ReopenTask, DeleteTask,
     SnoozeTask, Snooze, Button, Dismiss, Closed, tasks, ghost
<1>2. CASE LoopStep \/ LocationStep
  BY <1>2 DEF LoopStep, LocationStep, Collect, CallServer, ServerShows, ServerRefuses, RecordShown,
     RecordRefused, Sleep, WokenUp, SleptEnough, LocationWaits, LocationWoken, LocationTurns, tasks,
     ghost
<1>3. CASE Tick \/ Suspends \/ Restart \/ UNCHANGED vars
  BY <1>3 DEF Tick, Suspends, Suspend, Restart, vars, tasks, ghost
<1> QED BY <1>1, <1>2, <1>3 DEF Next

LEMMA RingsWhereItIsStep ==
  ASSUME TypeOK, OpenPlaced, RingUnderWay, RingsWhereItIs, [Next]_vars
  PROVE  RingsWhereItIs'
<1> USE RingsTypes
<1>1. CASE UNCHANGED <<place, left>>
  <2>1. ASSUME NEW h \in Hrefs \ left, Ringing(h)'
        PROVE  /\ place[h[1]] \in {h[2], Nowhere}
               /\ Ringing(h) \/ (place[h[1]] = h[2] /\ h[2] # Nowhere)
    BY <2>1, RingingStep, DueIsThere, NowhereAssumption DEF RingsWhereItIs, Hrefs, OpenPlaced
  <2>2. ASSUME NEW g \in Hrefs \ left, NEW h \in Hrefs \ left, Ringing(g)', Ringing(h)', g[1] = h[1]
        PROVE  g = h
    <3>1. CASE Ringing(g) /\ Ringing(h)
      BY <2>2, <3>1 DEF RingsWhereItIs
    <3>2. CASE ~(Ringing(g) /\ Ringing(h))
      BY <2>1, <2>2, <3>2
    <3> QED BY <3>1, <3>2
  <2> QED BY <1>1, <2>1, <2>2 DEF RingsWhereItIs
<1>2. ASSUME ~Collect
      PROVE  \A h \in Hrefs : Ringing(h)' => Ringing(h)
  BY <1>2, RingingStep
<1>3. ASSUME NEW t \in Tasks, place' = [place EXCEPT ![t] = Nowhere], UNCHANGED left
      PROVE  RingsWhereItIs'
  <2>1. CASE Collect
    BY <1>1, <1>3, <2>1 DEF Collect, tasks
  <2>2. CASE ~Collect
    <3>1. \A h \in Hrefs : place'[h[1]] \in {place[h[1]], Nowhere}
      BY <1>3 DEF TypeOK
    <3> QED BY <1>2, <1>3, <2>2, <3>1 DEF RingsWhereItIs
  <2> QED BY <2>1, <2>2
<1>4. ASSUME NEW t \in Tasks, NEW l \in Lists, MoveTask(t, l)
      PROVE  RingsWhereItIs'
  <2>1. /\ left' = IF Ringing(Href(t)) THEN left \cup {Href(t)} ELSE left
        /\ place' = [place EXCEPT ![t] = l] /\ place[t] \in Lists /\ l # place[t]
    BY <1>4 DEF MoveTask
  <2>2. ~Collect
    BY <2>1 DEF Collect, tasks, TypeOK
  <2>3. ASSUME NEW h \in Hrefs, h \notin left', Ringing(h)
        PROVE  h \notin left /\ h[1] # t
    <3>1. h \notin left
      BY <2>1, <2>3
    <3>2. h # Href(t)
      BY <2>1, <2>3
    <3>3. h[1] = t => place[t] = h[2]
      BY <2>1, <2>3, <3>1, NowhereAssumption DEF RingsWhereItIs
    <3> QED BY <3>1, <3>2, <3>3 DEF Href
  <2>4. \A h \in Hrefs : h[1] # t => place'[h[1]] = place[h[1]]
    BY <2>1 DEF TypeOK
  <2> QED BY <1>2, <2>2, <2>3, <2>4 DEF RingsWhereItIs
<1> QED BY <1>1, <1>3, <1>4, PlaceStep

\* However its reminders, buttons, dismissals, moves and the server's signals fall, a
\* task has one notification on the screen, but where NotificationClosed was overtaken,
\* asstd died, or the task was moved with its ring up or under way (ring's replaces_id
\* and the map of what it showed, by href).
THEOREM OneNotification == Spec => []OnePerTask
<1>1. Init => TypeOK /\ ScreenKnown /\ RingsWhereItIs
  <2>1. Init => ScreenKnown
    BY DEF Init, ScreenKnown, Calling
  <2>2. Init => RingsWhereItIs
    BY HrefAssumption DEF Init, RingsWhereItIs, Ringing
  <2> QED BY <2>1, <2>2, InitTypes
<1>2. ReminderInvariant /\ ScreenKnown /\ RingsWhereItIs /\ [Next]_vars
        => ScreenKnown' /\ RingsWhereItIs'
  BY ScreenStep, RingsWhereItIsStep DEF ReminderInvariant
<1>3. ReminderInvariant /\ ScreenKnown /\ RingsWhereItIs => OnePerTask
  <2> SUFFICES ASSUME TypeOK, ScreenKnown, RingsWhereItIs, NEW i \in Ids, NEW j \in Ids, i # j,
                      screen[i] # NoHref, screen[j] # NoHref, screen[i][1] = screen[j][1],
                      screen[i] \notin excused, screen[j] \notin excused
               PROVE  screen[i] # screen[j] /\ {screen[i], screen[j]} \cap left # {}
    BY DEF OnePerTask, ReminderInvariant
  <2>1. ASSUME screen[i] = screen[j]
        PROVE  FALSE
    <3>1. /\ shown[i] = screen[i] \/ JustShown(i)
          /\ shown[j] = screen[i] \/ JustShown(j)
      BY <2>1 DEF ScreenKnown
    <3>2. ~(shown[i] = screen[i] /\ shown[j] = screen[i])
      BY DEF ScreenKnown
    <3>3. ~(JustShown(i) /\ shown[j] = screen[i])
      BY DeskTypes DEF ScreenKnown, JustShown, Calling
    <3>4. ~(JustShown(j) /\ shown[i] = screen[i])
      BY <2>1, DeskTypes DEF ScreenKnown, JustShown, Calling
    <3> QED BY <3>1, <3>2, <3>3, <3>4 DEF JustShown
  <2>2. screen[i] \in Hrefs /\ screen[j] \in Hrefs
    BY DeskTypes DEF Notices
  <2>3. Ringing(screen[i]) /\ Ringing(screen[j])
    BY DEF Ringing
  <2> QED BY <2>1, <2>2, <2>3 DEF RingsWhereItIs
<1> QED BY <1>1, <1>2, <1>3, ReminderInvariance, PTL DEF Spec

=============================================================================
