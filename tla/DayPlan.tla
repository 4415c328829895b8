------------------------------- MODULE DayPlan -------------------------------
(***************************************************************************)
(* The window's own plan of the day: slots that put a task on a day at a   *)
(* time (asst-gtk: model.rs, plan.rs, prefs.rs and the messages of         *)
(* window.rs).  Slots are kept in window.toml and never reach the server,  *)
(* so each follows the open tasks as the window last loaded them.          *)
(*                                                                         *)
(* Minutes are as in the code, on a shorter day.  A message that a handler *)
(* sends itself is the next the window handles, and is one step with it.   *)
(* A task goes by one name here, though the code finds it by its href and  *)
(* keeps its slot by its uid.                                              *)
(***************************************************************************)
EXTENDS Integers, FiniteSets

CONSTANTS
  Nothing,      \* no slot, no offer
  Uids,         \* uids, as numbers: the order of blocks that are alike
  Timed,        \* the tasks that are due at a time, and at what minute
  LastDay,      \* bound: days are 0 .. LastDay
  DayMinutes,   \* minutes of a day
  Snap,         \* PLAN_SNAP
  MinDuration,  \* PLAN_MIN_DURATION
  Default,      \* PLAN_DEFAULT_DURATION
  PlaceFrom,    \* PLAN_PLACE_FROM
  DropFrom,     \* where a drop on Day starts an empty plan,
  DropFloor,    \* the first minute it gives, and
  DropTo,       \* the last
  Drags,        \* the slots a drag or the popover may ask for
  Clocks,       \* the minutes at which a key may plan a task
  Saved,        \* plans that window.toml may hold at the start
  OpenSets,     \* the open tasks a load may bring
  MaxLoads,     \* bound: loads
  MaxGestures   \* bound: changes of the plan

ASSUME TasksAssumption ==
  /\ Uids \subseteq Nat /\ IsFiniteSet(Uids)
  /\ Timed \in [DOMAIN Timed -> Nat] /\ DOMAIN Timed \subseteq Uids
  /\ \A tasks \in OpenSets : tasks \subseteq Uids
ASSUME MinutesAssumption ==
  /\ {LastDay, Snap, MinDuration, Default, PlaceFrom, DropFrom, DropFloor, DropTo, MaxLoads,
      MaxGestures} \subseteq Nat
  /\ DayMinutes \in Nat /\ Snap \in 1 .. DayMinutes /\ MinDuration > 0 /\ PlaceFrom <= DayMinutes
  /\ Drags \subseteq [start : Nat, duration : Nat] /\ Clocks \subseteq Nat

PlanDays == 0 .. LastDay

VARIABLES
  slots,    \* prefs.plan
  known,    \* the open tasks the window knows
  loaded,   \* has it loaded any yet?
  popover,  \* is a popover open, so that nothing is drawn?
  viewing,  \* is the Day view on screen?
  day,      \* day_day
  today,    \* the date of the clock
  offer,    \* the Undo of the toast on screen, or Nothing
  left      \* loads and gestures still to come

planVars == <<slots, known, loaded, popover, viewing, day, today, offer, left>>

-----------------------------------------------------------------------------
(* Minutes. *)

Least(S) == CHOOSE x \in S : \A y \in S : x <= y
Most(S) == CHOOSE x \in S : \A y \in S : y <= x
Clamp(x, lo, hi) == Most({lo, Least({x, hi})})

SnapTo(min) == Clamp(((min + Snap \div 2) \div Snap) * Snap, 0, DayMinutes - 1)

SlotDuration(start, duration) ==
  LET room == Most({DayMinutes - Least({start, DayMinutes - 1}), 1})
  IN Clamp(duration, Least({MinDuration, room}), room)

End(s) == s.start + s.duration
Overlap(a, b) == a.start < End(b) /\ b.start < End(a)

Busy(plan, d) == {[start |-> s.start, duration |-> s.duration] : s \in {s \in plan : s.date = d}}

First(S) == CHOOSE s \in S : \A o \in S :
              s.start < o.start \/ (s.start = o.start /\ s.duration <= o.duration)

Ceil(x) == ((x + Snap - 1) \div Snap) * Snap

(* The day's slots in order push the start on, to the grid after each one  *)
(* it does not fit before: from `at`, where those of S are still ahead.    *)
Walk(busy, duration) ==
  LET walk[S \in SUBSET busy] ==
        [at \in 0 .. 2 * DayMinutes |->
           IF S = {} THEN at
           ELSE IF End(First(S)) <= at THEN walk[S \ {First(S)}][at]
           ELSE IF First(S).start >= at + duration THEN at
           ELSE walk[S \ {First(S)}][Ceil(End(First(S)))]]
  IN walk

FirstFree(plan, d, from, duration) ==
  LET busy == Busy(plan, d)
      start == Walk(busy, duration)[busy][from]
  IN IF start + duration <= DayMinutes THEN start ELSE from

-----------------------------------------------------------------------------
(* Slots: one for each task and day. *)

Placed(s) == s.start < DayMinutes /\ s.duration = SlotDuration(s.start, s.duration)

PlanSlot == {s \in [uid : Uids, date : PlanDays, start : Nat, duration : Nat] : Placed(s)}

OnePerDay(plan) == \A s, t \in plan : s.uid = t.uid /\ s.date = t.date => s = t

\* window.toml holds what Place put there.
ASSUME SavedAssumption == \A plan \in Saved : plan \subseteq PlanSlot /\ OnePerDay(plan)
ASSUME NothingAssumption == Nothing \notin PlanSlot

SlotOf(plan, u, d) ==
  LET own == {s \in plan : s.uid = u /\ s.date = d}
  IN IF own = {} THEN Nothing ELSE CHOOSE s \in own : TRUE

Unplace(plan, u, d) == {s \in plan : ~(s.uid = u /\ s.date = d)}

Place(plan, u, d, start, duration) ==
  LET at == Least({start, DayMinutes - 1})
  IN Unplace(plan, u, d)
     \cup {[uid |-> u, date |-> d, start |-> at, duration |-> SlotDuration(at, duration)]}

PruneSlots(plan, live) == {s \in plan : s.uid \in live}

CarryTarget == Most({day + 1, today})

(* The open tasks' slots move on at their time of day; a task that has a   *)
(* slot there already keeps that one.                                      *)
Moving(plan, from) == {s \in plan : s.date = from /\ s.uid \in known}
Created(plan, from, to) == {s \in Moving(plan, from) : SlotOf(plan, s.uid, to) = Nothing}
\* Mutant: a task that moves on leaves every day it was on.
CarryLeavesAll(plan, from, to) ==
  {s \in plan : ~\E m \in Moving(plan, from) : m.uid = s.uid}
  \cup {[s EXCEPT !.date = to] : s \in Created(plan, from, to)}

CarryForward(plan, from, to) ==
  (plan \ Moving(plan, from)) \cup {[s EXCEPT !.date = to] : s \in Created(plan, from, to)}

\* Mutant: what had a slot on the later day already loses it.
UncarryAll(plan, c) ==
  LET kept == {s \in plan : ~(s.date = c.to /\ \E m \in c.moved : m.uid = s.uid)}
  IN {s \in kept : ~(s.date = c.from /\ \E m \in c.moved : m.uid = s.uid)} \cup c.moved

Uncarry(plan, c) ==
  LET kept == {s \in plan : ~(s.date = c.to /\ s.uid \in c.created)}
  IN {s \in kept : ~(s.date = c.from /\ \E m \in c.moved : m.uid = s.uid)} \cup c.moved

-----------------------------------------------------------------------------
(* The Day view: each block takes the leftmost column that none it         *)
(* overlaps holds, and blocks linked by overlap share one width.           *)

Blocks(d) == {s \in slots : s.date = d /\ s.uid \in known}

Before(a, b) ==
  \/ a.start < b.start
  \/ a.start = b.start /\ a.duration < b.duration
  \/ a.start = b.start /\ a.duration = b.duration /\ a.uid < b.uid

\* Mutant: a column is never given twice.
ColumnsOnce(blocks) ==
  LET col[b \in blocks] == Least((0 .. Cardinality(blocks)) \ {col[o] : o \in {o \in blocks : Before(o, b)}})
  IN col

ColumnOf(blocks) ==
  LET col[b \in blocks] ==
        LET taken == {col[o] : o \in {o \in blocks : Before(o, b) /\ Overlap(o, b)}}
        IN Least((0 .. Cardinality(blocks)) \ taken)
  IN col

Group(blocks, b) ==
  {o \in blocks : \A S \in SUBSET blocks :
     (b \in S /\ \A x \in S, y \in blocks : Overlap(x, y) => y \in S) => o \in S}

Layout(blocks) ==
  LET col == ColumnOf(blocks)
  IN [b \in blocks |-> [col |-> col[b], cols |-> 1 + Most({col[o] : o \in Group(blocks, b)})]]

-----------------------------------------------------------------------------

PlanTypeOK ==
  /\ slots \subseteq PlanSlot /\ OnePerDay(slots)
  /\ known \subseteq Uids /\ {day, today} \subseteq PlanDays

PlanInit ==
  /\ slots \in Saved /\ known = {} /\ loaded = FALSE /\ popover = FALSE
  /\ viewing = TRUE /\ day = 0 /\ today = 0 /\ offer = Nothing
  /\ left = [loads |-> MaxLoads, gestures |-> MaxGestures]

(* What the next rendering leaves of a plan: none while a popover is open. *)
Rendered(plan, live) == IF loaded /\ ~popover THEN PruneSlots(plan, live) ELSE plan

PlanDay == IF viewing THEN day ELSE today

Gesture == left.gestures > 0 /\ left' = [left EXCEPT !.gestures = @ - 1]

(* The edit toast: `before` is the plan as the change found it, and only   *)
(* the properties read it.                                                 *)
Undoable(u, d) ==
  [kind |-> "slot", uid |-> u, date |-> d, prior |-> SlotOf(slots, u, d), before |-> slots]

PlanSet(u, start, duration) ==
  LET d == PlanDay
      prior == SlotOf(slots, u, d)
      next == Place(slots, u, d, start, duration)
  IN /\ u \in known
     /\ IF prior # Nothing /\ prior.start = start /\ prior.duration = duration
          THEN slots' = next /\ UNCHANGED offer
          ELSE slots' = Rendered(next, known) /\ offer' = Undoable(u, d)
     /\ UNCHANGED <<known, loaded, popover, viewing, day, today>>

(* A drag, an edge or the popover's Apply, with the slot it asks for.      *)
DragTo(u, at) == Gesture /\ PlanSet(u, at.start, at.duration)

(* The key that plans the task under the cursor.  What is planned already  *)
(* is told in the edit toast's place.                                      *)
KeyPlace(u, now) ==
  LET from == IF PlanDay = today THEN Most({PlaceFrom, SnapTo(now)}) ELSE PlaceFrom
      start == IF u \in DOMAIN Timed THEN Timed[u] ELSE FirstFree(slots, PlanDay, from, Default)
  IN /\ u \in known /\ Gesture
     /\ IF SlotOf(slots, u, PlanDay) = Nothing
          THEN PlanSet(u, start, Default)
          ELSE offer' = Nothing /\ UNCHANGED <<slots, known, loaded, popover, viewing, day, today>>

(* A task dropped on Day in the sidebar goes after the plan's last slot.   *)
DropOnDay(u) ==
  LET ends == {End(s) : s \in {s \in slots : s.date = PlanDay}}
      start == IF ends = {} THEN DropFrom ELSE Most({DropFloor} \cup ends)
  IN Gesture /\ PlanSet(u, Least({start, DropTo}), Default)

(* The arrow keys move a block, and offer no Undo.                         *)
PlanNudge(u, delta) ==
  LET s == SlotOf(slots, u, day)
  IN /\ viewing /\ u \in known /\ s # Nothing /\ Gesture
     /\ slots' = Rendered(Place(slots, u, day, SnapTo(s.start + delta), s.duration), known)
     /\ UNCHANGED <<known, loaded, popover, viewing, day, today, offer>>

PlanUnplace(u) ==
  /\ viewing /\ u \in known /\ SlotOf(slots, u, day) # Nothing /\ Gesture
  /\ slots' = Rendered(Unplace(slots, u, day), known)
  /\ offer' = Undoable(u, day)
  /\ UNCHANGED <<known, loaded, popover, viewing, day, today>>

PlanCarry ==
  LET to == CarryTarget
      moved == Moving(slots, day)
  IN /\ viewing /\ to \in PlanDays /\ moved # {} /\ Gesture
     /\ slots' = Rendered(CarryForward(slots, day, to), known)
     /\ offer' = [kind |-> "carry", from |-> day, to |-> to, moved |-> moved,
                  created |-> {s.uid : s \in Created(slots, day, to)}, before |-> slots]
     /\ UNCHANGED <<known, loaded, popover, viewing, day, today>>

(* The toast's button: PlanUndo for a slot, PlanUncarry for a carry.       *)
Undone ==
  CASE offer.kind = "carry" -> Uncarry(slots, offer)
    [] offer.kind = "slot" /\ offer.uid \notin known -> slots
    [] offer.kind = "slot" /\ offer.uid \in known /\ offer.prior = Nothing ->
         Unplace(slots, offer.uid, offer.date)
    [] OTHER -> Place(slots, offer.uid, offer.date, offer.prior.start, offer.prior.duration)

PlanUndo ==
  /\ offer # Nothing
  /\ slots' = Rendered(Undone, known)
  /\ offer' = Nothing
  /\ UNCHANGED <<known, loaded, popover, viewing, day, today, left>>

ToastGoes ==
  /\ offer # Nothing /\ offer' = Nothing
  /\ UNCHANGED <<slots, known, loaded, popover, viewing, day, today, left>>

-----------------------------------------------------------------------------
(* What happens around the plan. *)

(* The open tasks come in anew; what is gone takes its slots with it.      *)
PlanLoaded(tasks) ==
  /\ left.loads > 0 /\ left' = [left EXCEPT !.loads = @ - 1]
  /\ known' = tasks /\ loaded' = TRUE
  /\ slots' = IF popover THEN slots ELSE PruneSlots(slots, tasks)
  /\ UNCHANGED <<popover, viewing, day, today, offer>>

Popover ==
  /\ popover' = ~popover
  /\ slots' = IF popover /\ loaded THEN PruneSlots(slots, known) ELSE slots
  /\ UNCHANGED <<known, loaded, viewing, day, today, offer, left>>

Step(d) ==
  /\ viewing /\ d \in {day - 1, day + 1} \cap PlanDays
  /\ day' = d /\ slots' = Rendered(slots, known)
  /\ UNCHANGED <<known, loaded, popover, viewing, today, offer, left>>

Navigates ==
  /\ viewing' = ~viewing /\ slots' = Rendered(slots, known)
  /\ UNCHANGED <<known, loaded, popover, day, today, offer, left>>

Midnight ==
  /\ today < LastDay /\ today' = today + 1
  /\ UNCHANGED <<slots, known, loaded, popover, viewing, day, offer, left>>

PlanNext ==
  \/ \E u \in Uids : \/ \E at \in Drags : DragTo(u, at)
                     \/ \E now \in Clocks : KeyPlace(u, now)
                     \/ \E delta \in {-Snap, Snap} : PlanNudge(u, delta)
                     \/ DropOnDay(u) \/ PlanUnplace(u)
  \/ PlanCarry \/ PlanUndo \/ ToastGoes
  \/ \E tasks \in OpenSets : PlanLoaded(tasks)
  \/ Popover \/ Navigates \/ Midnight
  \/ \E d \in PlanDays : Step(d)

PlanSpec == PlanInit /\ [][PlanNext]_planVars

-----------------------------------------------------------------------------

(* Undo puts every slot the change had touched back as the change found    *)
(* it, and touches no other: though slots were moved with the keys since,  *)
(* tasks went and came back, or the day on view or the date is another.    *)
Touched == {x \in Uids \X PlanDays :
  IF offer.kind = "slot" THEN x = <<offer.uid, offer.date>>
  ELSE \E m \in offer.moved : m.uid = x[1]
         /\ (x[2] = offer.from \/ (x[2] = offer.to /\ SlotOf(offer.before, x[1], x[2]) = Nothing))}
UndoPutsBack ==
  [][PlanUndo => \A u \in known, d \in PlanDays :
       SlotOf(slots', u, d) =
         SlotOf(IF <<u, d>> \in Touched THEN offer.before ELSE slots, u, d)]_planVars

(* A task that stays open stays on the plan of some day, until the user    *)
(* takes it off or takes back having put it on.                            *)
StaysPlanned ==
  [][\A u \in known \cap known' :
       (\E s \in slots : s.uid = u) /\ ~(\E s \in slots' : s.uid = u)
         => PlanUnplace(u) \/ (PlanUndo /\ offer.kind = "slot" /\ offer.uid = u)]_planVars

(* On the day on view, blocks that overlap have columns of their own, the  *)
(* blocks of a group are of one width, and no column of it is wasted; and  *)
(* the start a key gives a task is the first with room, if there is one.   *)
Room(d, at, duration) ==
  /\ at + duration <= DayMinutes
  /\ \A s \in slots : s.date = d => ~Overlap(s, [start |-> at, duration |-> duration])
LaidOut ==
  LET blocks == Blocks(day)
      at == Layout(blocks)
      Deep(m) == Cardinality({b \in blocks : b.start <= m /\ m < End(b)})
      roomy == {m \in 0 .. DayMinutes : m % Snap = 0 /\ Room(day, m, Default)}
  IN /\ \A b \in blocks :
          /\ at[b].col < at[b].cols
          /\ \A o \in blocks \ {b} : Overlap(o, b) => at[o].col # at[b].col /\ at[o].cols = at[b].cols
          /\ \E o \in Group(blocks, b) : Deep(o.start) = at[b].cols
     /\ \A from \in {m \in 0 .. DayMinutes - 1 : m % Snap = 0} :
          FirstFree(slots, day, from, Default) =
            IF \E m \in roomy : m >= from THEN Least({m \in roomy : m >= from}) ELSE from

=============================================================================
