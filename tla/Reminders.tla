------------------------------ MODULE Reminders ------------------------------
(***************************************************************************)
(* Reminders (asstd/src/reminders.rs): a loop that looks for alarms and    *)
(* snoozes that are due, shows each through the desktop's notification     *)
(* server, and sleeps until the next one or a minute at most, unless it is *)
(* woken; beside it the notifications' buttons, the other clients' changes *)
(* to tasks, and location::run, which waits on the same Notify.            *)
(*                                                                         *)
(* Time is in ticks.  The daemon's own steps take none: it passes while    *)
(* the loop sleeps, while a slow notification server has not answered, and *)
(* while the machine is suspended, when the sleep's timer stands still.    *)
(***************************************************************************)
EXTENDS Integers

CONSTANTS
  Tasks,       \* tasks, by UID
  Lists,       \* the lists they can be in; a task's href is its UID in a list
  Home,        \* the list they are in at first
  AlarmTimes,  \* times an alarm can be set for
  Lengths,     \* the snooze lengths on offer
  Ids,         \* the notification server's ids
  Grace,       \* GRACE: an alarm missed by more is not shown
  Keep,        \* how long it is remembered that an alarm rang (30 days)
  MaxSleep,    \* the longest sleep (60 s)
  MaxTime,     \* bound: the clock stands still from here
  MaxUser,     \* bound: changes to tasks and snoozes
  MaxFaults,   \* bound: refused calls and ticks a call takes, suspends, crashes
  MaxEvents    \* bound: changes and faults together

ASSUME HomeAssumption == Home \in Lists
ASSUME TimesAssumption ==
  MaxTime \in Nat /\ AlarmTimes \subseteq 1..MaxTime /\ Lengths \subseteq Nat \ {0}
ASSUME GraceAssumption == Grace \in Nat /\ Keep \in Nat /\ Keep >= Grace
ASSUME SleepAssumption == MaxSleep \in 1..Grace /\ Ids \subseteq Nat \ {0}
ASSUME BoundsAssumption == {MaxUser, MaxFaults, MaxEvents} \subseteq Nat

VARIABLES
  now,      \* the wall clock
  open,     \* the tasks that are open
  place,    \* the list a task is in
  alarms,   \* its alarms that no device has acknowledged
  fired,    \* table fired: <<href, time>>
  snoozed,  \* table snoozed: href -> until, 0 for none
  pc,       \* where the loop is
  due,      \* what it has to show in this pass
  next,     \* when the next one is due, 0 for none
  ringing,  \* the one it is showing
  answer,   \* the notification server's answer: an id, or 0 for an error
  timer,    \* what is left of the loop's sleep
  started,  \* when asstd started
  shown,    \* the loop's notifications: id -> href
  location, \* whether location::run waits on wake_reminders or is busy
  permit,   \* wake_reminders: a notify_one nobody waited for
  waiting,  \* wake_reminders: who waits
  ahead,    \* wake_reminders: who waits longer, when both do
  woken,    \* wake_reminders: who was woken and has not run since
  screen,   \* the notifications on the screen: id -> href
  closing,  \* ids whose NotificationClosed is on its way
  used,     \* how much of each bound is used
  taken,    \* history: how often the notification server took a reminder
  excused,  \* history: hrefs whose notification the loop cannot know of
  left      \* history: hrefs a task was moved away from with its ring up or under way

tasks  == <<open, place, alarms>>
store  == <<fired, snoozed>>
loop   == <<pc, due, next, ringing, answer, timer, started>>
notify == <<permit, waiting, ahead, woken>>
desk   == <<screen, closing>>
ghost  == <<taken, excused, left>>
vars   == <<now, tasks, store, loop, shown, location, notify, desk, used, ghost>>

Hrefs == Tasks \X Lists
Times == 0..MaxTime
Loops == {"reminders", "location"}

Nowhere == "nowhere"
ASSUME NowhereAssumption == Nowhere \notin Lists

NoHref == <<"none", "none">>
ASSUME HrefAssumption == NoHref \notin Hrefs
NoRing == [href |-> NoHref, at |-> 0, snoozed |-> FALSE, replaces |-> 0]

Href(t) == <<t, place[t]>>

\* The store has this href, and its task is open.
Live(h) == h[1] \in open /\ h[2] = place[h[1]]

MayChange == used.user < MaxUser /\ used.user + used.fault < MaxEvents
MayFail == used.fault < MaxFaults /\ used.user + used.fault < MaxEvents

User == MayChange /\ used' = [used EXCEPT !.user = @ + 1]
Fault == MayFail /\ used' = [used EXCEPT !.fault = @ + 1]

-----------------------------------------------------------------------------
(***************************************************************************)
(* tokio's Notify: notify_one wakes the one who waits longest, or leaves   *)
(* one permit.                                                             *)
(***************************************************************************)

Foremost == IF waiting = Loops THEN ahead ELSE CHOOSE w \in waiting : TRUE

NotifyOne ==
  /\ IF waiting = {}
     THEN permit' = TRUE /\ UNCHANGED <<waiting, woken>>
     ELSE /\ waiting' = waiting \ {Foremost} /\ woken' = woken \cup {Foremost}
          /\ UNCHANGED permit
  /\ ahead' = ahead

\* notified().await: at once if there is a permit.
Await(w) ==
  /\ permit' = FALSE
  /\ IF permit
     THEN UNCHANGED <<waiting, ahead, woken>>
     ELSE /\ waiting' = waiting \cup {w}
          /\ ahead' = IF waiting = {} THEN w ELSE ahead
          /\ UNCHANGED woken

\* The wait is dropped for another branch of a select!: a wake-up meant for it
\* goes on to the other.
GiveUp(w) ==
  IF w \in woken
  THEN /\ woken' = IF waiting = {} THEN woken \ {w} ELSE (woken \ {w}) \cup waiting
       /\ permit' = (permit \/ waiting = {})
       /\ waiting' = {} /\ UNCHANGED ahead
  ELSE /\ waiting' = waiting \ {w}
       /\ ahead' = IF waiting \ {w} = {} THEN ahead ELSE CHOOSE x \in waiting \ {w} : TRUE
       /\ UNCHANGED <<permit, woken>>

-----------------------------------------------------------------------------
(***************************************************************************)
(* The loop.                                                               *)
(***************************************************************************)

\* Mutant: what rang already is not looked up.
DueAlarms_Again(t) == {at \in alarms[t] : at <= now /\ now - at <= Grace}

\* A task's alarms that are due, missed by no more than GRACE, and did not ring.
DueAlarms(t) ==
  {at \in alarms[t] : at <= now /\ now - at <= Grace /\ <<Href(t), at>> \notin fired}

SnoozeDue(h) == snoozed[h] # 0 /\ snoozed[h] <= now

Latest(times) == {at \in times : \A other \in times : other <= at}
Earliest(times) == {at \in times : \A other \in times : other >= at}

\* One reminder for a task: a snooze that ran out, or the latest alarm.
Due ==
  {[href |-> h, at |-> snoozed[h], snoozed |-> TRUE] : h \in {g \in Hrefs : SnoozeDue(g) /\ Live(g)}}
  \cup
  (UNION {{[href |-> Href(t), at |-> at, snoozed |-> FALSE] : at \in Latest(DueAlarms(t))} :
            t \in {u \in open : ~SnoozeDue(Href(u))}})

Coming ==
  (UNION {{at \in alarms[t] : at > now} : t \in open})
  \cup {snoozed[h] : h \in {g \in Hrefs : snoozed[g] > now}}

\* collect: under the store's lock.  The snooze of a task that is completed or
\* gone is dropped.
Collect ==
  /\ pc = "collect"
  /\ due' = Due
  /\ next' \in IF Coming = {} THEN {0} ELSE Earliest(Coming)
  /\ snoozed' = [h \in Hrefs |-> IF SnoozeDue(h) /\ ~Live(h) THEN 0 ELSE snoozed[h]]
  /\ pc' = "ring"
  /\ UNCHANGED <<now, tasks, fired, ringing, answer, timer, started, shown, location, notify, desk,
                 used, ghost>>

\* Mutant: the task's last notification is not looked for.
Replaced_None(h) == 0

\* One notification per task: a new one replaces the last.
Replaced(h) ==
  LET ids == {i \in Ids : shown[i] = h} IN IF ids = {} THEN 0 ELSE CHOOSE i \in ids : TRUE

\* Mutant: it counts as fired before the notification server took it.
CallServer_Fires ==
  /\ pc = "ring"
  /\ \E r \in due :
       /\ due' = due \ {r}
       /\ fired' = fired \cup {<<r.href, r.at>>}
       /\ ringing' = [href |-> r.href, at |-> r.at, snoozed |-> r.snoozed,
                      replaces |-> Replaced(r.href)]
  /\ pc' = "calling"
  /\ UNCHANGED <<now, tasks, snoozed, next, answer, timer, started, shown, location, notify, desk,
                 used, ghost>>

\* ring: the call is made; nothing is locked until its answer is back.
CallServer ==
  /\ pc = "ring"
  /\ \E r \in due :
       /\ due' = due \ {r}
       /\ ringing' = [href |-> r.href, at |-> r.at, snoozed |-> r.snoozed,
                      replaces |-> Replaced(r.href)]
  /\ pc' = "calling"
  /\ UNCHANGED <<now, tasks, store, next, answer, timer, started, shown, location, notify, desk,
                 used, ghost>>

FreeIds == {i \in Ids : screen[i] = NoHref /\ shown[i] = NoHref /\ i \notin closing}

\* The notification server shows it, in the place of the one it replaces.  One that
\* was closed while its NotificationClosed is on its way comes back under its id.
ServerShows ==
  /\ pc = "calling"
  /\ \E i \in Ids :
       /\ i \in IF ringing.replaces # 0 THEN {ringing.replaces} ELSE Earliest(FreeIds)
       /\ answer' = i
       /\ screen' = [screen EXCEPT ![i] = ringing.href]
       /\ excused' = IF i \in closing THEN excused \cup {ringing.href} ELSE excused
  /\ taken' = [taken EXCEPT ![ringing.href][ringing.at] = @ + 1]
  /\ pc' = "answered"
  /\ UNCHANGED <<now, tasks, store, due, next, ringing, timer, started, shown, location, notify,
                 closing, used, left>>

\* It is not there (yet), or refuses.
ServerRefuses ==
  /\ pc = "calling" /\ Fault
  /\ answer' = 0
  /\ pc' = "answered"
  /\ UNCHANGED <<now, tasks, store, due, next, ringing, timer, started, shown, location, notify,
                 desk, ghost>>

\* Mutant: whatever snooze the task has by now.
Unsnoozed_Any(h, until) == [snoozed EXCEPT ![h] = 0]

\* unsnooze_at: a task snoozed again since is still waiting.
Unsnoozed(h, until) == [snoozed EXCEPT ![h] = IF @ = until THEN 0 ELSE @]

\* Taken: it has fired, and its snooze is over.
RecordShown ==
  /\ pc = "answered" /\ answer # 0
  /\ fired' = fired \cup {<<ringing.href, ringing.at>>}
  /\ snoozed' = IF ringing.snoozed THEN Unsnoozed(ringing.href, ringing.at) ELSE snoozed
  /\ shown' = [i \in Ids |-> IF i = answer THEN ringing.href
                             ELSE IF i = ringing.replaces THEN NoHref ELSE shown[i]]
  /\ pc' = "ring" /\ ringing' = NoRing /\ answer' = 0
  /\ UNCHANGED <<now, tasks, due, next, timer, started, location, notify, desk, used, ghost>>

\* A snooze rings however late, so one that cannot be shown is dropped GRACE after
\* it was due or asstd started.
TooLate(at) == now - (IF at > started THEN at ELSE started) > Grace

\* Not taken: it stays due for the next pass.
RecordRefused ==
  /\ pc = "answered" /\ answer = 0
  /\ snoozed' = IF ringing.snoozed /\ TooLate(ringing.at)
                THEN Unsnoozed(ringing.href, ringing.at) ELSE snoozed
  /\ pc' = "ring" /\ ringing' = NoRing
  /\ UNCHANGED <<now, tasks, fired, due, next, answer, timer, started, shown, location, notify,
                 desk, used, ghost>>

\* Until the next one, as `collect` knew it; a time that passed meanwhile is taken
\* for none.
Wait ==
  IF next = 0 \/ next < now \/ next - now > MaxSleep THEN MaxSleep ELSE next - now

Sleep ==
  /\ pc = "ring" /\ due = {}
  /\ timer' = IF permit THEN 0 ELSE Wait
  /\ next' = 0
  /\ Await("reminders")
  /\ pc' = IF permit THEN "collect" ELSE "sleep"
  /\ UNCHANGED <<now, tasks, store, due, ringing, answer, started, shown, location, desk,
                 used, ghost>>

WokenUp ==
  /\ pc = "sleep" /\ "reminders" \in woken
  /\ woken' = woken \ {"reminders"}
  /\ pc' = "collect" /\ timer' = 0
  /\ UNCHANGED <<now, tasks, store, due, next, ringing, answer, started, shown, location,
                 permit, waiting, ahead, desk, used, ghost>>

SleptEnough ==
  /\ pc = "sleep" /\ timer = 0
  /\ GiveUp("reminders")
  /\ pc' = "collect"
  /\ UNCHANGED <<now, tasks, store, due, next, ringing, answer, timer, started, shown, location,
                 desk, used, ghost>>

-----------------------------------------------------------------------------
(***************************************************************************)
(* location::run: waits for a position, its timer, or wake_reminders.      *)
(***************************************************************************)

LocationWaits ==
  /\ location = "busy"
  /\ Await("location")
  /\ location' = IF permit THEN "busy" ELSE "waiting"
  /\ UNCHANGED <<now, tasks, store, loop, shown, desk, used, ghost>>

LocationWoken ==
  /\ location = "waiting" /\ "location" \in woken
  /\ woken' = woken \ {"location"} /\ location' = "busy"
  /\ UNCHANGED <<now, tasks, store, loop, shown, permit, waiting, ahead, desk, used, ghost>>

\* A position, or ten minutes.
LocationTurns ==
  /\ location = "waiting"
  /\ GiveUp("location") /\ location' = "busy"
  /\ UNCHANGED <<now, tasks, store, loop, shown, desk, used, ghost>>

-----------------------------------------------------------------------------
(***************************************************************************)
(* The user, here and on other devices, and the notifications' buttons.    *)
(***************************************************************************)

Elsewhere == UNCHANGED <<now, loop, shown, location>>

\* A task's alarms are changed, or acknowledged on the phone.
SetAlarms(t, times) ==
  /\ t \in open /\ times # alarms[t] /\ User
  /\ alarms' = [alarms EXCEPT ![t] = times]
  /\ NotifyOne
  /\ UNCHANGED <<open, place, store, desk, ghost>> /\ Elsewhere

\* complete: the snooze is over; a repeating task goes on to its next date.
Complete(t) ==
  /\ t \in open
  /\ snoozed' = [snoozed EXCEPT ![Href(t)] = 0]
  /\ \/ open' = open \ {t} /\ UNCHANGED alarms
     \/ \E times \in SUBSET AlarmTimes : alarms' = [alarms EXCEPT ![t] = times] /\ UNCHANGED open
  /\ NotifyOne
  /\ UNCHANGED <<place, fired>>

CompleteTask(t) == Complete(t) /\ User /\ UNCHANGED <<desk, ghost>> /\ Elsewhere

\* Completed on another device.
CompleteElsewhere(t) ==
  /\ t \in open /\ User
  /\ open' = open \ {t}
  /\ NotifyOne
  /\ UNCHANGED <<place, alarms, store, desk, ghost>> /\ Elsewhere

ReopenTask(t) ==
  /\ t \notin open /\ place[t] \in Lists /\ User
  /\ open' = open \cup {t}
  /\ NotifyOne
  /\ UNCHANGED <<place, alarms, store, desk, ghost>> /\ Elsewhere

\* forget: a row the server never had goes with what hangs off it; one it has stays,
\* marked deleted, and the tables stay.
Leave(h) ==
  \/ UNCHANGED store
  \/ fired' = {f \in fired : f[1] # h} /\ snoozed' = [snoozed EXCEPT ![h] = 0]

DeleteTask(t) ==
  /\ t \in open /\ User
  /\ open' = open \ {t} /\ place' = [place EXCEPT ![t] = Nowhere]
  /\ Leave(Href(t))
  /\ NotifyOne
  /\ UNCHANGED <<alarms, desk, ghost>> /\ Elsewhere

\* A reminder that is about to ring, rings, or rang and is on the screen.
Ringing(h) ==
  \/ \E r \in due : r.href = h
  \/ pc \in {"calling", "answered"} /\ ringing.href = h
  \/ \E i \in Ids : screen[i] = h

\* move_to: a new href, which the tables fired and snoozed do not know, nor the map
\* of what is shown.
MoveTask(t, l) ==
  /\ place[t] \in Lists \ {l} /\ MayChange
  /\ used' = [used EXCEPT !.user = @ + 1, !.moved = @ + 1]
  /\ place' = [place EXCEPT ![t] = l]
  /\ Leave(Href(t))
  /\ left' = IF Ringing(Href(t)) THEN left \cup {Href(t)} ELSE left
  /\ NotifyOne
  /\ UNCHANGED <<open, alarms, desk, taken, excused>> /\ Elsewhere

\* snooze, snooze_until: an open task's, until a time that has not passed.
Snooze(t, until) ==
  /\ t \in open /\ until > now /\ until <= MaxTime
  /\ snoozed' = [snoozed EXCEPT ![Href(t)] = until]
  /\ NotifyOne
  /\ UNCHANGED <<tasks, fired>>

SnoozeTask(t, until) == Snooze(t, until) /\ User /\ UNCHANGED <<desk, ghost>> /\ Elsewhere

\* The notification leaves the screen, and says so.
Dismissed(i) == screen' = [screen EXCEPT ![i] = NoHref] /\ closing' = closing \cup {i}

\* Any of a notification's buttons: it names the task, wherever it is by now.
\* Snooze... snoozes the first length before it asks for another.
Button(i) ==
  /\ screen[i] # NoHref /\ User
  /\ LET t == screen[i][1] IN
       \/ Complete(t)
       \/ \E minutes \in Lengths : Snooze(t, now + minutes)
       \/ t \notin open /\ UNCHANGED <<tasks, store, notify>>
  /\ Dismissed(i)
  /\ UNCHANGED ghost /\ Elsewhere

\* Clicked away, or it expires.
Dismiss(i) ==
  /\ screen[i] # NoHref /\ User
  /\ Dismissed(i)
  /\ UNCHANGED <<tasks, store, notify, ghost>> /\ Elsewhere

\* NotificationClosed arrives.
Closed(i) ==
  /\ i \in closing
  /\ closing' = closing \ {i}
  /\ shown' = [shown EXCEPT ![i] = NoHref]
  /\ UNCHANGED <<now, tasks, store, loop, location, notify, screen, used, ghost>>

-----------------------------------------------------------------------------
(***************************************************************************)
(* Time, suspends and restarts.                                            *)
(***************************************************************************)

Later(d) == IF now + d > MaxTime THEN MaxTime ELSE now + d

\* A tick while the loop sleeps, or while the notification server is slow.
Tick ==
  /\ \/ pc = "sleep" /\ timer > 0 /\ "reminders" \notin woken /\ timer' = timer - 1 /\ UNCHANGED used
     \/ pc = "calling" /\ Fault /\ UNCHANGED timer
  /\ now' = Later(1)
  /\ UNCHANGED <<tasks, store, pc, due, next, ringing, answer, started, shown, location, notify,
                 desk, ghost>>

\* Suspended for a while: timers stand still.  logind's signal wakes the loop, where
\* there is a system bus.
Suspend(d) ==
  /\ Fault
  /\ now' = Later(d)
  /\ NotifyOne \/ UNCHANGED notify
  /\ UNCHANGED <<tasks, store, loop, shown, location, desk, ghost>>

\* asstd dies and starts again.  What is on the screen stays.
Restart ==
  /\ MayFail
  /\ used' = [used EXCEPT !.fault = @ + 1, !.restart = @ + 1]
  /\ pc' = "collect" /\ due' = {} /\ next' = 0 /\ ringing' = NoRing /\ answer' = 0 /\ timer' = 0
  /\ started' = now
  /\ fired' = {f \in fired : now - f[2] <= Keep}
  /\ shown' = [i \in Ids |-> NoHref] /\ closing' = {}
  /\ location' = "busy" /\ permit' = FALSE /\ waiting' = {} /\ woken' = {} /\ ahead' = ahead
  /\ excused' = excused \cup {screen[i] : i \in Ids}
  /\ UNCHANGED <<now, tasks, snoozed, screen, taken, left>>

-----------------------------------------------------------------------------

Init ==
  /\ now = 0 /\ open = Tasks /\ place = [t \in Tasks |-> Home]
  /\ alarms \in [Tasks -> SUBSET AlarmTimes]
  /\ fired = {} /\ snoozed = [h \in Hrefs |-> 0]
  /\ pc = "collect" /\ due = {} /\ next = 0 /\ ringing = NoRing /\ answer = 0 /\ timer = 0
  /\ started = 0 /\ shown = [i \in Ids |-> NoHref]
  /\ location = "busy" /\ permit = FALSE /\ waiting = {} /\ ahead = "reminders" /\ woken = {}
  /\ screen = [i \in Ids |-> NoHref] /\ closing = {}
  /\ used = [user |-> 0, fault |-> 0, restart |-> 0, moved |-> 0]
  /\ taken = [h \in Hrefs |-> [at \in Times |-> 0]] /\ excused = {} /\ left = {}

LoopStep ==
  \/ Collect \/ CallServer \/ ServerShows \/ ServerRefuses \/ RecordShown \/ RecordRefused
  \/ Sleep \/ WokenUp \/ SleptEnough

LocationStep == LocationWaits \/ LocationWoken \/ LocationTurns

UserStep ==
  \/ \E t \in Tasks :
       \/ \E times \in SUBSET AlarmTimes : SetAlarms(t, times)
       \/ CompleteTask(t) \/ CompleteElsewhere(t) \/ ReopenTask(t) \/ DeleteTask(t)
       \/ \E l \in Lists : MoveTask(t, l)
       \/ \E minutes \in Lengths : SnoozeTask(t, now + minutes)
  \/ \E i \in Ids : Button(i) \/ Dismiss(i) \/ Closed(i)

Suspends == \E d \in 1..(Grace + 1) : Suspend(d)

Next ==
  \/ LoopStep \/ LocationStep \/ UserStep \/ Tick \/ Suspends \/ Restart

Spec == Init /\ [][Next]_vars

-----------------------------------------------------------------------------
(***************************************************************************)
(* Properties.                                                             *)
(***************************************************************************)

Ring == [href : Hrefs, at : Times, snoozed : BOOLEAN]

Called == [href : Hrefs, at : Times, snoozed : BOOLEAN, replaces : Ids \cup {0}]

\* The type of every variable.
TypeOK ==
  /\ now \in Times /\ started \in Times
  /\ open \subseteq Tasks /\ place \in [Tasks -> Lists \cup {Nowhere}]
  /\ alarms \in [Tasks -> SUBSET AlarmTimes]
  /\ fired \subseteq Hrefs \X Times /\ snoozed \in [Hrefs -> Times]
  /\ pc \in {"collect", "ring", "calling", "answered", "sleep"}
  /\ due \subseteq Ring /\ next \in Times /\ timer \in 0..MaxSleep
  /\ ringing \in Called \cup {NoRing}
  /\ answer \in Ids \cup {0}
  /\ shown \in [Ids -> Hrefs \cup {NoHref}] /\ screen \in [Ids -> Hrefs \cup {NoHref}]
  /\ closing \subseteq Ids
  /\ location \in {"busy", "waiting"}
  /\ permit \in BOOLEAN /\ waiting \subseteq Loops /\ ahead \in Loops /\ woken \subseteq Loops
  /\ used \in [user : Nat, fault : Nat, restart : Nat, moved : Nat]
  /\ taken \in [Hrefs -> [Times -> Nat]]
  /\ excused \subseteq Hrefs \cup {NoHref} /\ left \subseteq Hrefs

\* A snooze is forgotten, but by the user's own doing, only when the notification
\* server took it, at the time it has now; or its task is closed or gone; or it was
\* refused for longer than GRACE.  One that was renewed while its ring was under way
\* is still waiting (unsnooze_at).
SnoozeKept ==
  [][\A h \in Hrefs : snoozed[h] # 0 /\ snoozed'[h] = 0 /\ used'.user = used.user =>
       \/ taken[h][snoozed[h]] > 0
       \/ ~Live(h)
       \/ now - snoozed[h] > Grace /\ now - started > Grace]_vars

\* A reminder is shown once, however often it is looked for, snoozed again, late
\* or refused first; again only where asstd died before it wrote that it rang, or
\* the task was moved away and back.
RingsOnce ==
  \A h \in Hrefs, at \in Times : taken[h][at] <= 1 + used.restart + used.moved

\* reminders.rs: "One notification per task: a new one replaces the last."  So it is in
\* one run of asstd, whichever lists the task is moved to and back, but for one closed
\* and rung again in the same moment; and but for a task that was moved with its ring
\* up or under way, whose old notification the loop keeps under the old href.
OnePerTask ==
  \A i, j \in Ids :
    i # j /\ screen[i] # NoHref /\ screen[j] # NoHref /\ screen[i][1] = screen[j][1] =>
      \/ {screen[i], screen[j]} \cap excused # {}
      \/ screen[i] # screen[j] /\ {screen[i], screen[j]} \cap left # {}

\* What a task's user waits for: alarms not shown yet and not missed by more than
\* GRACE, and a snooze that ran out.
Owed(t) ==
  IF t \notin open THEN {}
  ELSE {at \in alarms[t] : at <= now /\ now - at <= Grace /\ taken[Href(t)][at] = 0}
       \cup {at \in {snoozed[Href(t)]} : at # 0 /\ at <= now}

\* The loop goes on, time too, and a call to the notification server is answered.
Fairness == WF_vars(LoopStep) /\ WF_vars(Tick)

FairSpec == Spec /\ Fairness

\* A reminder that is due rings, unless its task is closed or it is missed by more
\* than GRACE: whatever was slept through, whoever took the wake-up, however many
\* were due at once, and though the server refused.
RemindersRing == \A t \in Tasks : Owed(t) # {} ~> Owed(t) = {}

-----------------------------------------------------------------------------

\* A ring that was answered with an id is one the notification server took; so is
\* all that counts as fired.
AnswerTaken == pc = "answered" /\ answer # 0 => taken[ringing.href][ringing.at] > 0

OpenPlaced == \A t \in open : place[t] \in Lists

RingUnderWay == pc \in {"calling", "answered"} => ringing \in Called

FiredTaken == \A f \in fired : taken[f[1]][f[2]] > 0

\* The inductive invariant of RemindersProofs.
ReminderInvariant == TypeOK /\ OpenPlaced /\ RingUnderWay /\ AnswerTaken /\ FiredTaken

\* What is to be shown is past, and an alarm among it is not what its task is
\* snoozed until.
Sound(r) == r.at # 0 /\ r.at <= now /\ (r.snoozed \/ snoozed[r.href] # r.at)

Calling == pc \in {"calling", "answered"}

\* One pass shows one reminder for a task.
DueSound ==
  /\ \A r \in due : Sound(r) /\ (Calling => r.href # ringing.href)
  /\ \A r, s \in due : r.href = s.href => r = s
  /\ pc = "calling" => Sound(ringing)

IsRing(h, at) == ringing.href = h /\ ringing.at = at

\* It is remembered that this reminder rang, or about to be.
Remembered(h, at) ==
  \/ pc = "answered" /\ answer # 0 /\ IsRing(h, at) /\ (ringing.snoozed \/ snoozed[h] # at)
  \/ /\ snoozed[h] # at
     /\ <<h, at>> \in fired \/ now - at > Grace \/ place[h[1]] = Nowhere

\* A reminder that rings no more before a restart or a move.
Spent(h, at) ==
  /\ at # 0 /\ at <= now
  /\ \A r \in due : ~(r.href = h /\ r.at = at)
  /\ ~(pc = "calling" /\ IsRing(h, at))
  /\ Remembered(h, at)

SpentRings ==
  \A h \in Hrefs, at \in Times : taken[h][at] = 1 + used.restart + used.moved => Spent(h, at)

\* What RingsOnce needs to be inductive.
RingInvariant == ReminderInvariant /\ DueSound /\ SpentRings /\ RingsOnce

\* The notification on the screen that the ring under way has been answered with.
JustShown(i) == pc = "answered" /\ answer = i /\ screen[i] = ringing.href

\* What is on the screen the loop knows of, under one id for a task, and the ring
\* under way replaces it.
ScreenKnown ==
  /\ \A i \in Ids : screen[i] # NoHref /\ screen[i] \notin excused =>
       i \notin closing /\ (shown[i] = screen[i] \/ JustShown(i))
  /\ \A i, j \in Ids : shown[i] # NoHref /\ shown[i] = shown[j] => i = j
  /\ Calling => \A i \in Ids : shown[i] # NoHref /\ shown[i] = ringing.href => i = ringing.replaces
  /\ pc = "answered" /\ answer # 0 =>
       ringing.replaces \in {0, answer} /\ screen[answer] \in {ringing.href, NoHref}

\* What rings or is on the screen for a task, and is not left behind by a move, is of one
\* href; and that is where the task is, if it still is anywhere.
RingsWhereItIs ==
  /\ \A g, h \in Hrefs \ left : Ringing(g) /\ Ringing(h) /\ g[1] = h[1] => g = h
  /\ \A h \in Hrefs \ left : Ringing(h) => place[h[1]] \in {h[2], Nowhere}

=============================================================================
