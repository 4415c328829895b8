----------------------------- MODULE WindowProofs -----------------------------
(***************************************************************************)
(* What the window holds back for Undo, for any tasks, any number of       *)
(* toasts and calls, and any order of answers: nothing is deleted that was *)
(* taken back, a window that is gone has deleted the rest, and a check     *)
(* completes the date that was shown.                                      *)
(*                                                                         *)
(* And what the window's plan of the day holds, for any tasks, days, grid  *)
(* and saved plan: what a gesture leaves of it, what the Undo of one puts  *)
(* back, and how the Day view lays it out.  The two share no state.        *)
(***************************************************************************)
EXTENDS Window, DayPlan, TLAPS, SequenceTheorems, FiniteSetTheorems

Core == <<daemon, hidden, timers, toasts, calls, up, leaving, doomed, refused, past>>

-----------------------------------------------------------------------------
(* The inductive invariant. *)

CallType == [op : {"complete", "delete", "reopen"}, task : Tasks, said : {"none", "ok", "error"}]

HeldType ==
  /\ daemon \in [Tasks -> [state : {"open", "done", "gone"}, due : Nat]]
  /\ calls \subseteq CallType
  /\ timers \subseteq [task : Tasks, latest : BOOLEAN]
  /\ toasts \in Seq(SUBSET Tasks) /\ up \in {"shown", "tray", "gone"}
  /\ hidden \subseteq Tasks /\ doomed \subseteq Tasks /\ dropped \subseteq Tasks
  /\ leaving \subseteq SUBSET Tasks

Going(c) == c.op = "delete" /\ c.said = "none"

\* What is hidden was deleted and not taken back.
HiddenDoomed == hidden \subseteq doomed

\* A toast holds what was deleted, and no two hold the same, but what was deleted twice.
ToastsHold ==
  /\ \A i \in DOMAIN toasts : toasts[i] \subseteq doomed \cup again
  /\ \A i, j \in DOMAIN toasts : i # j => toasts[i] \cap toasts[j] \subseteq again

\* What is on its way to be deleted is no toast's any more, but what was deleted twice.
GoingHeld ==
  \A c \in calls : Going(c) /\ c.task \notin again =>
    c.task \in doomed /\ \A i \in DOMAIN toasts : c.task \notin toasts[i]

Over(t) == daemon[t].state = "gone" \/ t \in refused \cup dropped

\* What was deleted and not taken back is held; every Quit has it still to send, and when
\* the window is gone it went.  But for what was deleted after the first Quit.
DoomedHeld ==
  /\ up # "gone" => doomed \subseteq hidden \cup dropped
  /\ up # "gone" => \A S \in leaving, t \in doomed : t \in S \/ Over(t) \/ t \in late
  /\ up = "gone" => \A t \in doomed : Over(t) \/ t \in late

HeldInvariant == HeldType /\ HiddenDoomed /\ ToastsHold /\ GoingHeld /\ DoomedHeld

-----------------------------------------------------------------------------
(* What the actions share. *)

LEMMA NothingHeld ==
  ASSUME HeldInvariant, UNCHANGED Core
  PROVE  HeldInvariant'
BY DEF HeldInvariant, HeldType, HiddenDoomed, ToastsHold, GoingHeld, Going, DoomedHeld, Over, Core, past

\* A call that is no delete changes nothing of what is held.
LEMMA OtherCall ==
  ASSUME HeldInvariant, NEW t \in Tasks, NEW op \in {"complete", "reopen"},
         calls' \in {calls, calls \cup {Call(op, t)}},
         timers' \subseteq [task : Tasks, latest : BOOLEAN],
         UNCHANGED <<daemon, hidden, toasts, up, leaving, doomed, refused, past>>
  PROVE  HeldInvariant'
<1>1. HeldType'
  BY DEF HeldInvariant, HeldType, CallType, Call, past
<1>2. \A c \in calls' : Going(c) => c \in calls
  BY DEF Going, Call
<1>3. GoingHeld'
  BY <1>2 DEF HeldInvariant, GoingHeld, Going, past
<1>4. HiddenDoomed' /\ ToastsHold' /\ DoomedHeld'
  BY DEF HeldInvariant, HiddenDoomed, ToastsHold, DoomedHeld, Over, past
<1> QED BY <1>1, <1>3, <1>4 DEF HeldInvariant

\* settle: what it takes out of what is hidden, it forgets.
LEMMA SettleHolds ==
  ASSUME HeldInvariant, up # "gone", NEW o, NEW c,
         Settle(o, c) \/ UNCHANGED <<hidden, dropped>>,
         UNCHANGED <<daemon, timers, toasts, calls, up, leaving, doomed, refused, again, late>>
  PROVE  HeldInvariant'
<1>1. /\ hidden' \subseteq hidden /\ dropped' \subseteq Tasks
      /\ dropped \subseteq dropped' /\ hidden \subseteq hidden' \cup dropped'
  BY DEF Settle, HeldInvariant, HeldType
<1>2. HeldType' /\ HiddenDoomed'
  BY <1>1 DEF HeldInvariant, HeldType, HiddenDoomed
<1>3. ToastsHold'
  BY DEF HeldInvariant, ToastsHold
<1>4. GoingHeld'
  BY DEF HeldInvariant, GoingHeld, Going
<1>5. DoomedHeld'
  BY <1>1 DEF HeldInvariant, DoomedHeld, Over
<1> QED BY <1>2, <1>3, <1>4, <1>5 DEF HeldInvariant

\* The toasts without one.
LEMMA WithoutOne ==
  ASSUME HeldType, NEW i \in DOMAIN toasts
  PROVE  /\ Without(i) \in Seq(SUBSET Tasks)
         /\ \A j \in DOMAIN Without(i) :
              \E k \in DOMAIN toasts \ {i} :
                Without(i)[j] = toasts[k] /\ (k = IF j < i THEN j ELSE j + 1)
<1> DEFINE n == Len(toasts)
<1>1. /\ toasts \in Seq(SUBSET Tasks) /\ n \in Nat /\ i \in 1 .. n /\ DOMAIN toasts = 1 .. n
      /\ \A k \in 1 .. n : toasts[k] \in SUBSET Tasks
  BY DEF HeldType
<1>2. DOMAIN Without(i) = 1 .. (n - 1) /\ n - 1 \in Nat
  BY <1>1 DEF Without
<1>3. \A j \in 1 .. (n - 1) : Without(i)[j] = IF j < i THEN toasts[j] ELSE toasts[j + 1]
  BY DEF Without
<1>4. ASSUME NEW j \in 1 .. (n - 1)
      PROVE  \E k \in (1 .. n) \ {i} :
               Without(i)[j] = toasts[k] /\ (k = IF j < i THEN j ELSE j + 1)
  <2>1. CASE j < i
    BY <2>1, <1>1, <1>3
  <2>2. CASE ~(j < i)
    <3>1. j + 1 \in (1 .. n) \ {i}
      BY <2>2, <1>1
    <3> QED BY <2>2, <3>1, <1>3
  <2> QED BY <2>1, <2>2
<1>5. Without(i) \in [1 .. (n - 1) -> SUBSET Tasks]
  <2>1. \A j \in 1 .. (n - 1) : Without(i)[j] \in SUBSET Tasks
    BY <1>1, <1>4
  <2>2. Without(i) = [j \in 1 .. (n - 1) |-> Without(i)[j]]
    BY DEF Without
  <2> QED BY <2>1, <2>2
<1>6. Without(i) \in Seq(SUBSET Tasks)
  BY <1>2, <1>5
<1> QED BY <1>1, <1>2, <1>4, <1>6

LEMMA WithoutApart ==
  ASSUME HeldType, ToastsHold, NEW i \in DOMAIN toasts
  PROVE  /\ \A j \in DOMAIN Without(i) :
              /\ Without(i)[j] \subseteq doomed \cup again
              /\ Without(i)[j] \cap toasts[i] \subseteq again
              /\ \E k \in DOMAIN toasts : Without(i)[j] = toasts[k]
         /\ \A j, l \in DOMAIN Without(i) :
              j # l => Without(i)[j] \cap Without(i)[l] \subseteq again
<1>1. \A j \in DOMAIN Without(i) :
        \E k \in DOMAIN toasts \ {i} :
          Without(i)[j] = toasts[k] /\ (k = IF j < i THEN j ELSE j + 1)
  BY WithoutOne
<1>2. DOMAIN Without(i) \subseteq Int /\ i \in Int
  BY DEF Without, HeldType
<1>3. ASSUME NEW j \in DOMAIN Without(i), NEW l \in DOMAIN Without(i), j # l
      PROVE  Without(i)[j] \cap Without(i)[l] \subseteq again
  <2>1. PICK k \in DOMAIN toasts \ {i} :
               Without(i)[j] = toasts[k] /\ (k = IF j < i THEN j ELSE j + 1)
    BY <1>1
  <2>2. PICK m \in DOMAIN toasts \ {i} :
               Without(i)[l] = toasts[m] /\ (m = IF l < i THEN l ELSE l + 1)
    BY <1>1
  <2>3. k # m
    BY <1>2, <1>3, <2>1, <2>2
  <2> QED BY <2>1, <2>2, <2>3 DEF ToastsHold
<1> QED BY <1>1, <1>3 DEF ToastsHold

-----------------------------------------------------------------------------
(* Deleting. *)

LEMMA HidesHolds ==
  ASSUME HeldInvariant, up = "shown", NEW S \in SUBSET Tasks, Hides(S)
  PROVE  HeldInvariant'
<1>1. /\ hidden' = hidden \cup S /\ toasts' = Append(toasts, S)
      /\ doomed' = doomed \cup S /\ again' = again \cup (S \cap doomed)
      /\ late' = IF leaving # {} THEN late \cup S ELSE late
      /\ UNCHANGED <<daemon, timers, calls, up, leaving, refused, dropped>>
  BY DEF Hides, sent, Closing
<1> DEFINE n == Len(toasts)
<1>2. /\ toasts \in Seq(SUBSET Tasks) /\ n \in Nat /\ DOMAIN toasts = 1 .. n
      /\ toasts' \in Seq(SUBSET Tasks) /\ DOMAIN toasts' = 1 .. (n + 1)
      /\ toasts'[n + 1] = S /\ \A i \in 1 .. n : toasts'[i] = toasts[i]
  BY <1>1 DEF HeldInvariant, HeldType
<1>3. \A i \in 1 .. (n + 1) : i = n + 1 \/ i \in 1 .. n
  BY <1>2
<1>4. HeldType' /\ HiddenDoomed'
  BY <1>1, <1>2 DEF HeldInvariant, HeldType, HiddenDoomed
<1>5. ToastsHold'
  <2>1. \A i \in 1 .. n : toasts[i] \subseteq doomed \cup again /\ toasts[i] \cap S \subseteq again'
    BY <1>1, <1>2 DEF HeldInvariant, ToastsHold
  <2>2. \A i \in 1 .. (n + 1) : toasts'[i] \subseteq doomed' \cup again'
    BY <1>1, <1>2, <1>3, <2>1
  <2>3. \A i, j \in 1 .. (n + 1) : i # j => toasts'[i] \cap toasts'[j] \subseteq again'
    BY <1>1, <1>2, <1>3, <2>1 DEF HeldInvariant, ToastsHold
  <2> QED BY <1>2, <2>2, <2>3 DEF ToastsHold
<1>6. GoingHeld'
  <2> SUFFICES ASSUME NEW c \in calls, Going(c), c.task \notin again'
               PROVE  c.task \in doomed' /\ \A i \in DOMAIN toasts' : c.task \notin toasts'[i]
    BY <1>1 DEF GoingHeld, Going
  <2>1. c.task \in doomed /\ \A i \in 1 .. n : c.task \notin toasts[i]
    BY <1>1, <1>2 DEF HeldInvariant, GoingHeld
  <2>2. c.task \notin S
    BY <1>1, <2>1
  <2> QED BY <1>1, <1>2, <1>3, <2>1, <2>2
<1>7. DoomedHeld'
  BY <1>1 DEF HeldInvariant, DoomedHeld, Over
<1> QED BY <1>4, <1>5, <1>6, <1>7 DEF HeldInvariant

\* Undo sends nothing: what its toast deletes is hidden no more.
LEMMA UndoSends ==
  ASSUME NEW i \in DOMAIN toasts, Undo(i)
  PROVE  calls' = calls
<1>1. hidden' = hidden \ toasts[i]
  BY DEF Undo
<1>2. Goes(toasts[i], hidden') = {}
  BY <1>1 DEF Goes
<1> QED BY <1>2 DEF Undo, SendsDelete

LEMMA UndoHolds ==
  ASSUME HeldInvariant, NEW i \in DOMAIN toasts, Undo(i)
  PROVE  HeldInvariant'
<1>1. /\ up = "shown" /\ hidden' = hidden \ toasts[i] /\ doomed' = doomed \ toasts[i]
      /\ toasts' = Without(i) /\ calls' = calls
      /\ UNCHANGED <<daemon, timers, up, leaving, refused, dropped, again, late>>
  BY UndoSends DEF Undo, past
<1>2. /\ Without(i) \in Seq(SUBSET Tasks)
      /\ \A j \in DOMAIN Without(i) :
           /\ Without(i)[j] \subseteq doomed \cup again
           /\ Without(i)[j] \cap toasts[i] \subseteq again
           /\ \E k \in DOMAIN toasts : Without(i)[j] = toasts[k]
      /\ \A j, l \in DOMAIN Without(i) :
           j # l => Without(i)[j] \cap Without(i)[l] \subseteq again
  BY WithoutOne, WithoutApart DEF HeldInvariant
<1>3. HeldType'
  BY <1>1, <1>2 DEF HeldInvariant, HeldType
<1>4. HiddenDoomed' /\ DoomedHeld'
  BY <1>1 DEF HeldInvariant, HiddenDoomed, DoomedHeld, Over
<1>5. ToastsHold'
  <2>1. \A j \in DOMAIN Without(i) : Without(i)[j] \subseteq (doomed \ toasts[i]) \cup again
    BY <1>2
  <2> QED BY <1>1, <1>2, <2>1 DEF ToastsHold
<1>6. GoingHeld'
  <2> SUFFICES ASSUME NEW c \in calls, Going(c), c.task \notin again
               PROVE  c.task \in doomed' /\ \A j \in DOMAIN toasts' : c.task \notin toasts'[j]
    BY <1>1 DEF GoingHeld, Going
  <2>1. c.task \in doomed /\ \A k \in DOMAIN toasts : c.task \notin toasts[k]
    BY DEF HeldInvariant, GoingHeld
  <2> QED BY <1>1, <1>2, <2>1
<1> QED BY <1>3, <1>4, <1>5, <1>6 DEF HeldInvariant

\* Toasts go, and what they held that is hidden still is sent.
LEMMA ToastsGo ==
  ASSUME HeldInvariant, up # "gone", NEW S \in SUBSET Tasks, SendsDelete(Goes(S, hidden)),
         toasts' \in Seq(SUBSET Tasks), up' \in {"shown", "tray"},
         \A j \in DOMAIN toasts' :
           /\ toasts'[j] \subseteq doomed \cup again
           /\ toasts'[j] \cap S \subseteq again
           /\ \E k \in DOMAIN toasts : toasts'[j] = toasts[k],
         \A j, l \in DOMAIN toasts' : j # l => toasts'[j] \cap toasts'[l] \subseteq again,
         UNCHANGED <<daemon, hidden, timers, leaving, doomed, refused, past>>
  PROVE  HeldInvariant'
<1>1. \A c \in calls' \ calls : c.task \in S \cap hidden /\ c.task \in Tasks /\ c = Call("delete", c.task)
  BY DEF SendsDelete, Goes, Call
<1>2. HeldType'
  <2>1. calls' \subseteq CallType
    BY <1>1 DEF HeldInvariant, HeldType, Call, CallType
  <2> QED BY <2>1 DEF HeldInvariant, HeldType, past
<1>3. HiddenDoomed' /\ ToastsHold'
  BY DEF HeldInvariant, HiddenDoomed, ToastsHold, past
<1>4. DoomedHeld'
  BY DEF HeldInvariant, DoomedHeld, Over, past
<1>5. GoingHeld'
  <2> SUFFICES ASSUME NEW c \in calls', Going(c), c.task \notin again
               PROVE  c.task \in doomed /\ \A j \in DOMAIN toasts' : c.task \notin toasts'[j]
    BY DEF GoingHeld, Going, past
  <2>1. CASE c \in calls
    BY <2>1 DEF HeldInvariant, GoingHeld
  <2>2. CASE c \notin calls
    BY <2>2, <1>1 DEF HeldInvariant, HiddenDoomed
  <2> QED BY <2>1, <2>2
<1> QED BY <1>2, <1>3, <1>4, <1>5 DEF HeldInvariant

LEMMA DismissHolds ==
  ASSUME HeldInvariant, NEW i \in DOMAIN toasts, Dismiss(i)
  PROVE  HeldInvariant'
<1>1. toasts[i] \in SUBSET Tasks
  BY DEF HeldInvariant, HeldType
<1>2. /\ up # "gone" /\ SendsDelete(Goes(toasts[i], hidden)) /\ toasts' = Without(i)
      /\ UNCHANGED <<daemon, hidden, timers, up, leaving, doomed, refused, past>>
  BY DEF Dismiss, Alive, ghosts
<1>3. up' \in {"shown", "tray"}
  BY <1>2 DEF HeldInvariant, HeldType
<1>4. /\ Without(i) \in Seq(SUBSET Tasks)
      /\ \A j \in DOMAIN Without(i) :
           /\ Without(i)[j] \subseteq doomed \cup again
           /\ Without(i)[j] \cap toasts[i] \subseteq again
           /\ \E k \in DOMAIN toasts : Without(i)[j] = toasts[k]
      /\ \A j, l \in DOMAIN Without(i) :
           j # l => Without(i)[j] \cap Without(i)[l] \subseteq again
  BY WithoutOne, WithoutApart DEF HeldInvariant
<1> QED BY <1>1, <1>2, <1>3, <1>4, ToastsGo

LEMMA HideHolds ==
  ASSUME HeldInvariant, Hide
  PROVE  HeldInvariant'
<1> DEFINE S == UNION {toasts[i] : i \in DOMAIN toasts}
<1>1. S \in SUBSET Tasks
  BY DEF HeldInvariant, HeldType
<1>2. /\ up = "shown" /\ up' = "tray" /\ toasts' = <<>> /\ SendsDelete(Goes(S, hidden))
      /\ UNCHANGED <<daemon, hidden, timers, leaving, doomed, refused, past>>
  BY DEF Hide, ghosts
<1>3. toasts' \in Seq(SUBSET Tasks) /\ DOMAIN toasts' = {}
  BY <1>2
<1> HIDE DEF S
<1> QED BY <1>1, <1>2, <1>3, ToastsGo

-----------------------------------------------------------------------------
(* Calls at asstd, and what others do. *)

\* A task that is gone stays gone.
LEMMA DaemonMoves ==
  ASSUME HeldType, NEW t \in Tasks, NEW op \in {"complete", "delete", "reopen"},
         daemon[t].state # "gone", daemon' = [daemon EXCEPT ![t] = Does(op, t)]
  PROVE  /\ daemon' \in [Tasks -> [state : {"open", "done", "gone"}, due : Nat]]
         /\ \A u \in Tasks : daemon[u].state = "gone" => daemon'[u].state = "gone"
<1>1. daemon[t] \in [state : {"open", "done", "gone"}, due : Nat]
  BY DEF HeldType
<1>2. Does(op, t) \in [state : {"open", "done", "gone"}, due : Nat]
  BY <1>1 DEF Does, AfterComplete
<1> QED BY <1>2 DEF HeldType

\* Calls that were answered, or whose answer came, are no longer on their way.
LEMMA FewerCalls ==
  ASSUME HeldInvariant,
         daemon' \in [Tasks -> [state : {"open", "done", "gone"}, due : Nat]],
         \A u \in Tasks : daemon[u].state = "gone" => daemon'[u].state = "gone",
         calls' \subseteq CallType,
         \A c \in calls' : Going(c) => c \in calls, refused \subseteq refused',
         UNCHANGED <<hidden, timers, toasts, up, leaving, doomed, past>>
  PROVE  HeldInvariant'
<1>1. HeldType' /\ HiddenDoomed' /\ ToastsHold'
  BY DEF HeldInvariant, HeldType, HiddenDoomed, ToastsHold, past
<1>2. GoingHeld'
  BY DEF HeldInvariant, GoingHeld, Going, past
<1>3. \A t \in doomed : Over(t) => Over(t)'
  BY DEF HeldInvariant, HeldType, Over, past
<1>4. DoomedHeld'
  BY <1>3 DEF HeldInvariant, DoomedHeld, past
<1> QED BY <1>1, <1>2, <1>4 DEF HeldInvariant

LEMMA AnsweredCalls ==
  ASSUME HeldType, NEW c \in calls, NEW said \in {"ok", "error"},
         Answered(c, said) \/ calls' = calls \ {c}
  PROVE  /\ calls' \subseteq CallType
         /\ \A d \in calls' : Going(d) => d \in calls
<1>1. /\ c \in CallType
      /\ [c EXCEPT !.said = said].said = said
      /\ [c EXCEPT !.said = said] \in CallType
  BY DEF HeldType, CallType
<1> QED BY <1>1 DEF HeldType, Answered, Going

LEMMA ServeHolds ==
  ASSUME HeldInvariant, NEW c \in calls, Serve(c)
  PROVE  HeldInvariant'
<1>1. /\ HeldType /\ c.task \in Tasks /\ c.op \in {"complete", "delete", "reopen"}
      /\ daemon \in [Tasks -> [state : {"open", "done", "gone"}, due : Nat]]
  BY DEF HeldInvariant, HeldType, CallType
<1>2. UNCHANGED <<hidden, timers, toasts, up, leaving, doomed, refused, past>>
  BY DEF Serve, held
<1>3. CASE daemon[c.task].state = "gone"
  <2>1. Answered(c, "error") /\ daemon' = daemon
    BY <1>3 DEF Serve
  <2> QED BY <1>1, <1>2, <2>1, AnsweredCalls, FewerCalls
<1>4. CASE daemon[c.task].state # "gone"
  <2>1. /\ daemon' = [daemon EXCEPT ![c.task] = Does(c.op, c.task)]
        /\ Answered(c, "ok") \/ calls' = calls \ {c}
    BY <1>4 DEF Serve
  <2>2. /\ daemon' \in [Tasks -> [state : {"open", "done", "gone"}, due : Nat]]
        /\ \A u \in Tasks : daemon[u].state = "gone" => daemon'[u].state = "gone"
    BY <1>1, <1>4, <2>1, DaemonMoves
  <2>3. /\ calls' \subseteq CallType
        /\ \A d \in calls' : Going(d) => d \in calls
    BY <1>1, <2>1, AnsweredCalls
  <2> QED BY <1>2, <2>2, <2>3, FewerCalls
<1> QED BY <1>3, <1>4

LEMMA CallFailsHolds ==
  ASSUME HeldInvariant, NEW c \in calls, CallFails(c)
  PROVE  HeldInvariant'
<1>1. /\ Answered(c, "error") /\ refused \subseteq refused'
      /\ UNCHANGED <<daemon, hidden, timers, toasts, up, leaving, doomed, past>>
  BY DEF CallFails, held
<1>2. HeldType
  BY DEF HeldInvariant
<1>3. daemon' \in [Tasks -> [state : {"open", "done", "gone"}, due : Nat]]
  BY <1>1, <1>2 DEF HeldType
<1>4. /\ calls' \subseteq CallType
      /\ \A d \in calls' : Going(d) => d \in calls
  BY <1>1, <1>2, AnsweredCalls
<1> QED BY <1>1, <1>3, <1>4, FewerCalls

LEMMA ReplyHolds ==
  ASSUME HeldInvariant, NEW c \in calls, Reply(c)
  PROVE  HeldInvariant'
<1>1. /\ calls' = calls \ {c}
      /\ UNCHANGED <<daemon, hidden, timers, toasts, up, leaving, doomed, refused, past>>
  BY DEF Reply, ghosts
<1>2. daemon' \in [Tasks -> [state : {"open", "done", "gone"}, due : Nat]]
  BY <1>1 DEF HeldInvariant, HeldType
<1>3. calls' \subseteq CallType
  BY <1>1 DEF HeldInvariant, HeldType
<1> QED BY <1>1, <1>2, <1>3, FewerCalls

\* A task changes at asstd, by others or with the selection.
LEMMA DaemonHolds ==
  ASSUME HeldInvariant, NEW t \in Tasks, NEW op \in {"complete", "reopen", "delete"},
         daemon[t].state # "gone", daemon' = [daemon EXCEPT ![t] = Does(op, t)],
         UNCHANGED <<hidden, timers, toasts, calls, up, leaving, doomed, refused, past>>
  PROVE  HeldInvariant'
<1>1. HeldType
  BY DEF HeldInvariant
<1>2. /\ daemon' \in [Tasks -> [state : {"open", "done", "gone"}, due : Nat]]
      /\ \A u \in Tasks : daemon[u].state = "gone" => daemon'[u].state = "gone"
  BY <1>1, DaemonMoves
<1>3. calls' \subseteq CallType
  BY <1>1 DEF HeldType
<1> QED BY <1>2, <1>3, FewerCalls

LEMMA OtherChangesHolds ==
  ASSUME HeldInvariant, NEW t \in Tasks, NEW op \in {"complete", "reopen", "delete"},
         OtherChanges(t, op)
  PROVE  HeldInvariant'
<1>1. /\ daemon[t].state # "gone" /\ daemon' = [daemon EXCEPT ![t] = Does(op, t)]
      /\ UNCHANGED <<hidden, timers, toasts, calls, up, leaving, doomed, refused, past>>
  BY DEF OtherChanges, held, sent
<1> QED BY <1>1, DaemonHolds

LEMMA ServeBatchHolds ==
  ASSUME HeldInvariant, NEW S \in batches, S \subseteq Tasks, ServeBatch(S)
  PROVE  HeldInvariant'
<1>1. UNCHANGED <<hidden, timers, toasts, calls, up, leaving, doomed, refused, past>>
  BY DEF ServeBatch, held
<1>2. \/ daemon' = daemon
      \/ \E t \in S : daemon[t].state # "gone" /\ daemon' = [daemon EXCEPT ![t] = AfterComplete(t)]
  BY DEF ServeBatch
<1>3. CASE daemon' = daemon
  BY <1>1, <1>3, NothingHeld DEF Core
<1>4. ASSUME NEW t \in S, daemon[t].state # "gone", daemon' = [daemon EXCEPT ![t] = AfterComplete(t)]
      PROVE  HeldInvariant'
  <2>1. Does("complete", t) = AfterComplete(t)
    BY DEF Does
  <2> QED BY <1>1, <1>4, <2>1, DaemonHolds
<1> QED BY <1>2, <1>3, <1>4

-----------------------------------------------------------------------------
(* Closing. *)

LEMMA QuitHolds ==
  ASSUME HeldInvariant, Quit
  PROVE  HeldInvariant'
<1>1. /\ up # "gone" /\ leaving' = leaving \cup {hidden}
      /\ UNCHANGED <<daemon, hidden, timers, toasts, calls, up, doomed, refused, past>>
  BY DEF Quit, Held, held, sent, ghosts, Alive
<1>2. HeldType' /\ HiddenDoomed' /\ ToastsHold'
  BY <1>1 DEF HeldInvariant, HeldType, HiddenDoomed, ToastsHold, past
<1>3. GoingHeld'
  BY <1>1 DEF HeldInvariant, GoingHeld, Going, past
<1>4. DoomedHeld'
  BY <1>1 DEF HeldInvariant, DoomedHeld, Over, past
<1> QED BY <1>2, <1>3, <1>4 DEF HeldInvariant

LEMMA QuitDeletesHolds ==
  ASSUME HeldInvariant, NEW S \in leaving, QuitDeletes(S)
  PROVE  HeldInvariant'
<1>1. PICK t \in S :
        /\ leaving' = (leaving \ {S}) \cup {S \ {t}}
        /\ \/ daemon' = [daemon EXCEPT ![t].state = "gone"] /\ refused' = refused
           \/ daemon' = daemon /\ refused' = refused /\ daemon[t].state = "gone"
           \/ daemon' = daemon /\ refused' = refused \cup {t}
  BY DEF QuitDeletes
<1>2. /\ up # "gone" /\ t \in Tasks
      /\ UNCHANGED <<hidden, timers, toasts, calls, up, doomed, past>>
  BY DEF QuitDeletes, Alive, held, sent, HeldInvariant, HeldType
<1>3. /\ daemon' \in [Tasks -> [state : {"open", "done", "gone"}, due : Nat]]
      /\ \A u \in Tasks : daemon[u].state = "gone" => daemon'[u].state = "gone"
      /\ daemon'[t].state = "gone" \/ t \in refused'
  BY <1>1, <1>2 DEF HeldInvariant, HeldType
<1>4. HeldType' /\ HiddenDoomed' /\ ToastsHold'
  BY <1>1, <1>2, <1>3 DEF HeldInvariant, HeldType, HiddenDoomed, ToastsHold, past
<1>5. GoingHeld'
  BY <1>2 DEF HeldInvariant, GoingHeld, Going, past
<1>6. \A u \in doomed : Over(u) => Over(u)'
  BY <1>1, <1>2, <1>3 DEF HeldInvariant, HeldType, Over, past
<1>7. Over(t)'
  BY <1>3 DEF Over
<1>8. DoomedHeld'
  <2>1. ASSUME NEW R \in leaving', NEW u \in doomed
        PROVE  u \in R \/ Over(u)' \/ u \in late
    <3>1. \A Q \in leaving : u \in Q \/ Over(u)' \/ u \in late
      BY <1>2, <1>6 DEF HeldInvariant, DoomedHeld
    <3>2. R \in leaving \/ R = S \ {t}
      BY <1>1
    <3> QED BY <1>7, <3>1, <3>2
  <2> QED BY <1>2, <2>1 DEF HeldInvariant, DoomedHeld, past
<1> QED BY <1>4, <1>5, <1>8 DEF HeldInvariant

LEMMA ClosedHolds ==
  ASSUME HeldInvariant, Closed
  PROVE  HeldInvariant'
<1>1. /\ up # "gone" /\ {} \in leaving /\ up' = "gone" /\ leaving' = {} /\ hidden' = {} /\ timers' = {}
      /\ toasts' = <<>>
      /\ UNCHANGED <<daemon, calls, doomed, refused, past>>
  BY DEF Closed, Alive, ghosts, sent
<1>2. toasts' \in Seq(SUBSET Tasks) /\ DOMAIN toasts' = {}
  BY <1>1
<1>3. HeldType' /\ HiddenDoomed' /\ ToastsHold'
  BY <1>1, <1>2 DEF HeldInvariant, HeldType, HiddenDoomed, ToastsHold, past
<1>4. GoingHeld'
  BY <1>1, <1>2 DEF HeldInvariant, GoingHeld, Going, past
<1>5. DoomedHeld'
  BY <1>1 DEF HeldInvariant, DoomedHeld, Over, past
<1> QED BY <1>3, <1>4, <1>5 DEF HeldInvariant

LEMMA PresentHolds ==
  ASSUME HeldInvariant, Present
  PROVE  HeldInvariant'
<1>1. /\ up = "tray" /\ up' = "shown"
      /\ UNCHANGED <<daemon, hidden, timers, toasts, calls, leaving, doomed, refused, past>>
  BY DEF Present, held, sent, ghosts
<1> QED BY <1>1 DEF HeldInvariant, HeldType, HiddenDoomed, ToastsHold, GoingHeld, Going, DoomedHeld, Over,
                past

-----------------------------------------------------------------------------
(* All steps. *)

\* The selection that is completed holds tasks.
BatchType == batches \subseteq SUBSET Tasks

LEMMA WindowStepHolds ==
  ASSUME HeldInvariant, BatchType, WindowStep
  PROVE  HeldInvariant'
<1>1. CASE Subscribe \/ Changed \/ (\E l \in loads : Read(l)) \/ (\E t \in offers : OfferEnds(t))
  BY <1>1, NothingHeld DEF Subscribe, Changed, Read, OfferEnds, Core, held, sent, ghosts
<1>2. CASE BatchFailed
  BY <1>2, NothingHeld DEF BatchFailed, Core, held, ghosts
<1>3. ASSUME NEW S \in leaving, QuitDeletes(S)
      PROVE  HeldInvariant'
  BY <1>3, QuitDeletesHolds
<1>4. CASE Closed
  BY <1>4, ClosedHolds
<1>5. ASSUME NEW l \in loads, Loaded(l)
      PROVE  HeldInvariant'
  <2>1. /\ (Settle(l.open, completed) \/ UNCHANGED <<hidden, dropped>>)
        /\ UNCHANGED <<daemon, timers, toasts, calls, up, leaving, doomed, refused, again, late>>
    BY <1>5 DEF Loaded, sent
  <2> QED BY <1>5, <2>1, SettleHolds DEF Loaded, Alive
<1>6. ASSUME NEW l \in loads, CompletedLoaded(l)
      PROVE  HeldInvariant'
  <2>1. /\ (Settle(open, l.done) \/ UNCHANGED <<hidden, dropped>>)
        /\ UNCHANGED <<daemon, timers, toasts, calls, up, leaving, doomed, refused, again, late>>
    BY <1>6 DEF CompletedLoaded, sent
  <2> QED BY <1>6, <2>1, SettleHolds DEF CompletedLoaded, Alive
<1>7. ASSUME NEW x \in timers, CompleteNow(x)
      PROVE  HeldInvariant'
  <2>1. x.task \in Tasks /\ timers' \subseteq [task : Tasks, latest : BOOLEAN]
    BY <1>7 DEF CompleteNow, HeldInvariant, HeldType
  <2>2. /\ calls' \in {calls, calls \cup {Call("complete", x.task)}}
        /\ UNCHANGED <<daemon, hidden, toasts, up, leaving, doomed, refused, past>>
    BY <1>7 DEF CompleteNow, SendsComplete, ghosts
  <2> QED BY <2>1, <2>2, OtherCall
<1>8. ASSUME NEW i \in DOMAIN toasts, Dismiss(i)
      PROVE  HeldInvariant'
  BY <1>8, DismissHolds
<1>9. ASSUME NEW c \in calls, Serve(c) \/ Reply(c)
      PROVE  HeldInvariant'
  BY <1>9, ServeHolds, ReplyHolds
<1>10. ASSUME NEW S \in batches, ServeBatch(S)
       PROVE  HeldInvariant'
  BY <1>10, ServeBatchHolds DEF BatchType
<1> QED BY <1>1, <1>2, <1>3, <1>4, <1>5, <1>6, <1>7, <1>8, <1>9, <1>10 DEF WindowStep

LEMMA UserStepHolds ==
  ASSUME HeldInvariant, UserStep
  PROVE  HeldInvariant'
<1>1. CASE LookAtDone \/ LookAway \/ Refresh \/ (\E t \in Tasks : Uncheck(t))
  BY <1>1, NothingHeld DEF LookAtDone, LookAway, Refresh, Uncheck, Core, held, sent, ghosts
<1>2. CASE \E S \in SUBSET Tasks : BatchComplete(S)
  BY <1>2, NothingHeld DEF BatchComplete, Core
<1>3. CASE Hide
  BY <1>3, HideHolds
<1>4. CASE Present
  BY <1>4, PresentHolds
<1>5. CASE Quit
  BY <1>5, QuitHolds
<1>6. ASSUME NEW t \in Tasks, Check(t)
      PROVE  HeldInvariant'
  <2>1. timers' \subseteq [task : Tasks, latest : BOOLEAN]
    <3>1. \A x \in timers : x \in [task : Tasks, latest : BOOLEAN]
      BY DEF HeldInvariant, HeldType
    <3> DEFINE moved(x) == [x EXCEPT !.latest = @ /\ x.task # t]
    <3>2. \A x \in timers : moved(x) \in [task : Tasks, latest : BOOLEAN]
      BY <3>1
    <3>3. [task |-> t, latest |-> TRUE] \in [task : Tasks, latest : BOOLEAN]
      OBVIOUS
    <3>4. timers' = {moved(x) : x \in timers} \cup {[task |-> t, latest |-> TRUE]} \/ timers' = timers
      BY <1>6, Zenon DEF Check, SendsComplete
    <3> HIDE DEF moved
    <3> QED BY <3>1, <3>2, <3>3, <3>4
  <2>2. /\ calls' \in {calls, calls \cup {Call("complete", t)}}
        /\ UNCHANGED <<daemon, hidden, toasts, up, leaving, doomed, refused, past>>
    BY <1>6 DEF Check, SendsComplete
  <2> QED BY <2>1, <2>2, OtherCall
<1>7. ASSUME NEW t \in Tasks, Reopen(t)
      PROVE  HeldInvariant'
  <2>1. /\ calls' \in {calls, calls \cup {Call("reopen", t)}}
        /\ UNCHANGED <<daemon, hidden, timers, toasts, up, leaving, doomed, refused, past>>
    BY <1>7 DEF Reopen, held, ghosts
  <2>2. timers' \subseteq [task : Tasks, latest : BOOLEAN]
    BY <2>1 DEF HeldInvariant, HeldType
  <2> QED BY <2>1, <2>2, OtherCall
<1>8. ASSUME NEW t \in Tasks, Delete(t)
      PROVE  HeldInvariant'
  BY <1>8, HidesHolds DEF Delete
<1>9. ASSUME NEW S \in SUBSET Tasks, BatchDelete(S)
      PROVE  HeldInvariant'
  BY <1>9, HidesHolds DEF BatchDelete
<1>10. ASSUME NEW i \in DOMAIN toasts, Undo(i)
       PROVE  HeldInvariant'
  BY <1>10, UndoHolds
<1> QED BY <1>1, <1>2, <1>3, <1>4, <1>5, <1>6, <1>7, <1>8, <1>9, <1>10 DEF UserStep

LEMMA OtherStepHolds ==
  ASSUME HeldInvariant, OtherStep
  PROVE  HeldInvariant'
<1>1. CASE (\E l \in loads : LoadFails(l)) \/ (\E S \in batches : BatchFails(S))
  BY <1>1, NothingHeld DEF LoadFails, BatchFails, Core, held, sent, ghosts
<1>2. CASE \E t \in Tasks, op \in {"complete", "reopen", "delete"} : OtherChanges(t, op)
  BY <1>2, OtherChangesHolds
<1>3. CASE \E c \in calls : CallFails(c)
  BY <1>3, CallFailsHolds
<1> QED BY <1>1, <1>2, <1>3 DEF OtherStep


LEMMA BatchStep ==
  ASSUME BatchType, [Next]_vars
  PROVE  BatchType'
<1>1. \A S, T : S \in batches /\ T \subseteq S => T \in SUBSET Tasks
  BY DEF BatchType
<1>2. ASSUME NEW S \in batches, ServeBatch(S)
      PROVE  BatchType'
  <2>1. batches' \subseteq (batches \ {S}) \cup {Failed} \cup {S \ {t} : t \in S}
    BY <1>2 DEF ServeBatch
  <2> QED BY <1>1, <2>1 DEF BatchType, Failed
<1>3. CASE BatchFailed \/ (\E S \in batches : BatchFails(S)) \/ (\E S \in SUBSET Tasks : BatchComplete(S))
  BY <1>3 DEF BatchFailed, BatchFails, BatchComplete, BatchType, Failed
<1>4. CASE batches' = batches
  BY <1>4 DEF BatchType
<1>5. CASE WindowStep
  BY <1>2, <1>3, <1>4, <1>5 DEF WindowStep, Subscribe, Changed, QuitDeletes, Closed, Read, Loaded,
     CompletedLoaded, CompleteNow, Dismiss, OfferEnds, Serve, Reply, sent
<1>6. CASE UserStep
  BY <1>3, <1>4, <1>6 DEF UserStep, LookAtDone, LookAway, Refresh, Hide, Present, Quit, Check,
     Uncheck, Reopen, Delete, BatchDelete, Hides, Undo, sent
<1>7. CASE OtherStep \/ UNCHANGED vars
  BY <1>3, <1>4, <1>7 DEF OtherStep, OtherChanges, LoadFails, CallFails, vars, sent
<1> QED BY <1>5, <1>6, <1>7 DEF Next

LEMMA HeldInit == Init => HeldInvariant /\ BatchType
<1> SUFFICES ASSUME Init PROVE HeldInvariant /\ BatchType
  OBVIOUS
<1>1. HeldType /\ BatchType
  BY DEF Init, HeldType, BatchType, CallType
<1>2. HiddenDoomed /\ ToastsHold /\ GoingHeld /\ DoomedHeld
  BY DEF Init, HiddenDoomed, ToastsHold, GoingHeld, DoomedHeld
<1> QED BY <1>1, <1>2 DEF HeldInvariant

LEMMA HeldStep == HeldInvariant /\ BatchType /\ [Next]_vars => HeldInvariant' /\ BatchType'
<1> SUFFICES ASSUME HeldInvariant, BatchType, [Next]_vars
             PROVE  HeldInvariant' /\ BatchType'
  OBVIOUS
<1>1. BatchType'
  BY BatchStep
<1>2. HeldInvariant'
  <2>1. CASE UNCHANGED vars
    <3>1. UNCHANGED Core
      BY <2>1 DEF vars, Core, held, sent, ghosts
    <3> QED BY <3>1, NothingHeld
  <2>2. CASE Next
    BY <2>2, WindowStepHolds, UserStepHolds, OtherStepHolds DEF Next
  <2> QED BY <2>1, <2>2
<1> QED BY <1>1, <1>2

\* What the window holds for Undo, at every step: what is hidden was deleted and not taken
\* back, two toasts share only what was deleted twice, what is being deleted is no toast's
\* but for that, and what was deleted is held, forgotten in settle, or every Quit's to send.
THEOREM HeldInvariance == Spec => [](HeldInvariant /\ BatchType)
BY HeldInit, HeldStep, PTL DEF Spec

-----------------------------------------------------------------------------
(* What is sent. *)

\* DeletesOnlyDoomed, of a step.
Lawful ==
  /\ \A c \in calls' \ calls : c.op = "delete" /\ c.said = "none" => c.task \in doomed'
  /\ \A S \in leaving' \ leaving : S \subseteq doomed' \/ \E R \in leaving : S \subseteq R
  /\ \A t \in doomed \ doomed' : Call("delete", t) \notin calls' \/ t \in again

\* A step that sends no delete and takes nothing back.
LEMMA SendsNone ==
  ASSUME \A c \in calls' : Going(c) => c \in calls, leaving' = leaving, doomed \subseteq doomed'
  PROVE  Lawful
BY DEF Lawful, Going

\* A toast that ends sends what is hidden, and all that is hidden was deleted.
LEMMA SendsHidden ==
  ASSUME HeldInvariant, NEW S, SendsDelete(Goes(S, hidden)), leaving' = leaving, doomed' = doomed
  PROVE  Lawful
<1>1. \A c \in calls' \ calls : c.task \in hidden
  BY DEF SendsDelete, Goes, Call
<1> QED BY <1>1 DEF Lawful, HeldInvariant, HiddenDoomed

\* What Undo takes back is on its way only if another toast had it, and ended.
LEMMA TakesBack ==
  ASSUME HeldInvariant, NEW i \in DOMAIN toasts, Undo(i)
  PROVE  Lawful
<1>1. calls' = calls /\ doomed' = doomed \ toasts[i] /\ leaving' = leaving
  BY UndoSends DEF Undo
<1>2. ASSUME NEW t \in toasts[i], Call("delete", t) \in calls
      PROVE  t \in again
  BY <1>2 DEF HeldInvariant, GoingHeld, Going, Call
<1> QED BY <1>1, <1>2 DEF Lawful

LEMMA QuitSends ==
  ASSUME HeldInvariant, Quit \/ Closed \/ \E S \in leaving : QuitDeletes(S)
  PROVE  Lawful
<1>1. calls' = calls /\ doomed' = doomed
  BY DEF Quit, Closed, QuitDeletes, sent, ghosts
<1>2. \A S \in leaving' \ leaving : S = hidden \/ \E R \in leaving : S \subseteq R
  BY DEF Quit, Held, Closed, QuitDeletes
<1> QED BY <1>1, <1>2 DEF Lawful, HeldInvariant, HiddenDoomed

LEMMA LawfulStep == HeldInvariant /\ [Next]_vars => Lawful
<1> SUFFICES ASSUME HeldInvariant, [Next]_vars PROVE Lawful
  OBVIOUS
<1>1. ASSUME NEW c \in calls, Serve(c) \/ CallFails(c) \/ Reply(c)
      PROVE  Lawful
  <2>1. \A d \in calls' : Going(d) => d \in calls
    <3>1. /\ HeldType
          /\ Answered(c, "ok") \/ Answered(c, "error") \/ calls' = calls \ {c}
      BY <1>1 DEF Serve, CallFails, Reply, HeldInvariant
    <3> QED BY <3>1, AnsweredCalls
  <2>2. leaving' = leaving /\ doomed' = doomed
    BY <1>1 DEF Serve, CallFails, Reply, ghosts
  <2> QED BY <2>1, <2>2, SendsNone
<1>2. ASSUME NEW i \in DOMAIN toasts, Dismiss(i) \/ Undo(i)
      PROVE  Lawful
  BY <1>2, SendsHidden, TakesBack DEF Dismiss, ghosts
<1>3. CASE Hide
  BY <1>3, SendsHidden DEF Hide, ghosts
<1>4. CASE Quit \/ Closed \/ \E S \in leaving : QuitDeletes(S)
  BY <1>4, QuitSends
<1>5. CASE \/ \E x \in timers : CompleteNow(x)
           \/ \E t \in Tasks : Check(t) \/ Reopen(t)
  <2>1. leaving' = leaving /\ doomed' = doomed
    BY <1>5 DEF CompleteNow, Check, Reopen, ghosts
  <2>2. \A c \in calls' : Going(c) => c \in calls
    <3>1. \A t : ~Going(Call("complete", t)) /\ ~Going(Call("reopen", t))
      BY DEF Going, Call
    <3>2. ASSUME NEW x \in timers, CompleteNow(x)
          PROVE  \A c \in calls' : c \in calls \/ c = Call("complete", x.task)
      BY <3>2 DEF CompleteNow, SendsComplete
    <3>3. ASSUME NEW t \in Tasks, Check(t) \/ Reopen(t)
          PROVE  \A c \in calls' : c \in calls \/ c = Call("complete", t) \/ c = Call("reopen", t)
      BY <3>3 DEF Check, Reopen, SendsComplete
    <3> QED BY <1>5, <3>1, <3>2, <3>3
  <2> QED BY <2>1, <2>2, SendsNone
<1>6. ASSUME calls' = calls, leaving' = leaving, doomed \subseteq doomed'
      PROVE  Lawful
  BY <1>6, SendsNone
<1>7. CASE WindowStep
  BY <1>1, <1>2, <1>4, <1>5, <1>6, <1>7 DEF WindowStep, Subscribe, Changed, Read, Loaded, CompletedLoaded,
     OfferEnds, ServeBatch, BatchFailed, sent, ghosts
<1>8. CASE UserStep
  BY <1>2, <1>3, <1>4, <1>5, <1>6, <1>8 DEF UserStep, LookAtDone, LookAway, Refresh, Present, Uncheck,
     Delete, BatchDelete, Hides, BatchComplete, sent, ghosts
<1>9. CASE OtherStep \/ UNCHANGED vars
  BY <1>1, <1>6, <1>9 DEF OtherStep, OtherChanges, LoadFails, BatchFails, vars, sent, ghosts
<1> QED BY <1>7, <1>8, <1>9 DEF Next

\* Nothing is sent to be deleted but what was deleted here and not taken back, however many
\* toasts hold it and whenever they end: and what is taken back is not on its way, but for a
\* task that was deleted twice, one of whose toasts ended before, and for what Quit sends.
THEOREM OnlyTheDoomedGo == Spec => DeletesOnlyDoomed
<1>1. HeldInvariant /\ [Next]_vars => [Lawful]_vars
  BY LawfulStep
<1>2. Spec => [][Lawful]_vars
  BY <1>1, HeldInvariance, PTL DEF Spec
<1> QED BY <1>2 DEF DeletesOnlyDoomed, Lawful

\* A window that is gone has left nothing it held for Undo undeleted, however often it was
\* quit and whatever was taken back or changed while it was quitting.
THEOREM NothingHeldBack == Spec => []ClosesClean
<1>1. HeldInvariant => ClosesClean
  BY DEF HeldInvariant, DoomedHeld, Over, ClosesClean
<1> QED BY <1>1, HeldInvariance, PTL

-----------------------------------------------------------------------------
(* Checking.  CheckHolds says how what is being completed, shown, loaded and *)
(* kept by asstd go together; what it needs of all tasks is said first.     *)

LoadType == [kind : {"open", "done"}, latest : BOOLEAN, read : BOOLEAN,
             open : [Tasks -> Dates], done : SUBSET Tasks]

ViewType ==
  /\ open \in [Tasks -> Dates] /\ seen \in [Tasks -> Dates]
  /\ completing \in [Tasks -> [at : {"no", "waiting", "sent"}, due : Dates]]
  /\ loads \subseteq LoadType

\* One load is the latest of its kind.
OneLoad ==
  \A l, k \in loads : l.kind = "open" /\ k.kind = "open" /\ l.latest /\ k.latest => l = k

\* What is being completed was shown open, and is until it is settled.
SentShown ==
  \A t \in Tasks :
    /\ completing[t].at = "sent" => open[t] = completing[t].due
    /\ completing[t].at = "waiting" => open[t] # Absent

LoadsHold == loads \subseteq LoadType /\ OneLoad

\* What is being completed with the selection was touched.
BatchesTouched == \A S \in batches : S \subseteq touched

CheckInvariant ==
  /\ HeldInvariant /\ BatchType /\ BatchesTouched
  /\ ViewType /\ OneLoad /\ SentShown /\ ChecksHold

-----------------------------------------------------------------------------
(* Loads. *)

LEMMA OpenNowType ==
  ASSUME HeldType
  PROVE  OpenNow \in [Tasks -> Dates] /\ NoAnswer \in [Tasks -> Dates] /\ Absent \in Dates
BY DEF HeldType, OpenNow, NoAnswer, Absent, Dates

LEMMA AskedType ==
  ASSUME HeldType, NEW kind \in {"open", "done"}
  PROVE  Asked(kind) \in LoadType /\ ~Asked(kind).read /\ Asked(kind).kind = kind
BY OpenNowType DEF Asked, LoadType

LEMMA StaleLoad ==
  ASSUME NEW l \in LoadType
  PROVE  [l EXCEPT !.latest = FALSE] \in LoadType /\ ~[l EXCEPT !.latest = FALSE].latest
BY DEF LoadType

LEMMA StaleType ==
  ASSUME loads \subseteq LoadType, NEW kind \in {"open", "done"}
  PROVE  /\ Stale(kind) \subseteq LoadType
         /\ \A l \in Stale(kind) : l \in loads \/ ~l.latest
         /\ kind = "open" => \A l \in Stale(kind) : l.kind = "open" => ~l.latest
BY StaleLoad DEF Stale

\* After reload no load that is on its way was read.
LEMMA ReloadsHold ==
  ASSUME HeldType, loads \subseteq LoadType, Reloads
  PROVE  LoadsHold' /\ \A t \in Tasks : Told(t)' = {}
<1>1. Asked("open") \in LoadType /\ Asked("done") \in LoadType /\ ~Asked("open").read
      /\ Asked("open").kind = "open" /\ Asked("done").kind = "done"
  BY AskedType
<1>2. \A l \in loads' : l \in LoadType /\ (l = Asked("open") \/ l.kind = "done" \/ ~l.latest)
  <2>1. CASE hasDone \/ looking
    <3>1. loads' = {[l EXCEPT !.latest = FALSE] : l \in loads} \cup {Asked("open"), Asked("done")}
      BY <2>1 DEF Reloads
    <3>2. ASSUME NEW l \in loads
          PROVE  [l EXCEPT !.latest = FALSE] \in LoadType /\ ~[l EXCEPT !.latest = FALSE].latest
      BY StaleLoad
    <3> QED BY <1>1, <3>1, <3>2
  <2>2. CASE ~(hasDone \/ looking)
    <3>1. loads' = Stale("open") \cup {Asked("open")}
      BY <2>2 DEF Reloads
    <3>2. Stale("open") \subseteq LoadType /\ \A l \in Stale("open") : l.kind = "open" => ~l.latest
      BY StaleType
    <3>3. \A l \in Stale("open") : l.kind = "open" \/ l.kind = "done"
      BY <3>2 DEF LoadType
    <3> QED BY <1>1, <3>1, <3>2, <3>3
  <2> QED BY <2>1, <2>2
<1>3. \A l \in loads' : l.kind = "open" /\ l.latest => l = Asked("open")
  BY <1>2
<1>4. LoadsHold'
  BY <1>2, <1>3 DEF LoadsHold, OneLoad
<1> QED BY <1>1, <1>3, <1>4 DEF Told

\* Fewer loads bring nothing else.
LEMMA FewerLoads ==
  ASSUME LoadsHold, loads' \subseteq loads
  PROVE  LoadsHold' /\ \A t \in Tasks : Told(t)' \subseteq Told(t)
BY DEF LoadsHold, OneLoad, Told

LEMMA LookAtDoneHolds ==
  ASSUME HeldType, LoadsHold, LookAtDone
  PROVE  LoadsHold' /\ \A t \in Tasks : Told(t)' \subseteq Told(t)
<1>1. CASE loads' = loads
  BY <1>1, FewerLoads
<1>2. CASE loads' = Stale("done") \cup {Asked("done")}
  <2>1. Asked("done") \in LoadType /\ Asked("done").kind = "done"
    BY AskedType
  <2>2. /\ loads' \subseteq LoadType
        /\ \A l \in loads' : l.kind = "open" /\ l.latest => l \in loads
    BY <1>2, <2>1, StaleType DEF LoadsHold
  <2> QED BY <2>2 DEF LoadsHold, OneLoad, Told
<1> QED BY <1>1, <1>2 DEF LookAtDone

\* A load that is read brings what asstd has now.
LEMMA ReadHolds ==
  ASSUME HeldType, LoadsHold, NEW l \in loads, Read(l)
  PROVE  LoadsHold' /\ \A t \in Tasks : Told(t)' \subseteq Told(t) \cup {DueNow(t)}
<1> DEFINE r == [l EXCEPT !.read = TRUE, !.open = IF l.kind = "open" THEN OpenNow ELSE NoAnswer,
                          !.done = IF l.kind = "done" THEN DoneNow ELSE {}]
<1>1. loads' = (loads \ {l}) \cup {r}
  BY DEF Read
<1>2. l \in LoadType
  BY DEF LoadsHold
<1>3. /\ r \in LoadType /\ r.kind = l.kind /\ r.latest = l.latest
      /\ l.kind = "open" => r.open = OpenNow
  BY <1>2, OpenNowType DEF LoadType, DoneNow
<1> HIDE DEF r
<1>4. LoadsHold'
  BY <1>1, <1>3 DEF LoadsHold, OneLoad
<1>5. ASSUME NEW t \in Tasks, NEW v \in Told(t)'
      PROVE  v \in Told(t) \cup {DueNow(t)}
  BY <1>1, <1>3, <1>5 DEF Told, DueNow
<1> QED BY <1>4, <1>5

-----------------------------------------------------------------------------
(* Steps that change nothing of a check. *)

Relevant(c, t) == c.op = "complete" /\ c.task = t /\ c.said \in {"none", "error"}

SameCalls(t) == \A c : Relevant(c, t) => (c \in calls' <=> c \in calls)

LEMMA PendingSame ==
  ASSUME NEW t \in Tasks, SameCalls(t)
  PROVE  Pending(t)' = Pending(t) /\ OnePending(t)' = OnePending(t)
<1>1. Pending(t)' <=> Pending(t)
  BY DEF SameCalls, Relevant, Pending
<1>2. OnePending(t)' <=> OnePending(t)
  <2>1. \A c : c.op = "complete" /\ c.task = t /\ c.said \in {"none", "error"} =>
               (c \in calls' <=> c \in calls)
    BY DEF SameCalls, Relevant
  <2>2. ASSUME OnePending(t) PROVE OnePending(t)'
    BY <2>1, <2>2 DEF OnePending
  <2>3. ASSUME OnePending(t)' PROVE OnePending(t)
    BY <2>1, <2>3 DEF OnePending
  <2> QED BY <2>2, <2>3
<1>3. Pending(t)' \in BOOLEAN /\ Pending(t) \in BOOLEAN
      /\ OnePending(t)' \in BOOLEAN /\ OnePending(t) \in BOOLEAN
  BY DEF Pending, OnePending
<1> QED BY <1>1, <1>2, <1>3

LEMMA SentPending ==
  ASSUME NEW t \in Tasks, ~Pending(t), calls' = calls \cup {Call("complete", t)}
  PROVE  Pending(t)' /\ OnePending(t)'
<1>1. Call("complete", t) \in calls' /\ Call("complete", t).op = "complete"
      /\ Call("complete", t).task = t /\ Call("complete", t).said = "none"
  BY DEF Call
<1>2. \A c \in calls' : c.op = "complete" /\ c.task = t => c.said # "error"
  BY <1>1 DEF Pending
<1>3. Pending(t)'
  BY <1>1 DEF Pending
<1>4. OnePending(t)'
  BY <1>2 DEF OnePending
<1> QED BY <1>3, <1>4

LEMMA NothingToIt ==
  ASSUME NEW t \in Tasks, CheckHolds(t), SameCalls(t),
         daemon'[t] = daemon[t], open'[t] = open[t], completing'[t] = completing[t],
         seen'[t] = seen[t], Told(t)' \subseteq Told(t) \cup {DueNow(t)},
         up' # "gone" => up # "gone"
  PROVE  CheckHolds(t)'
<1>1. Pending(t)' = Pending(t) /\ OnePending(t)' = OnePending(t)
  BY PendingSame
<1>2. DueNow(t)' = DueNow(t)
  BY DEF DueNow, OpenNow
<1>3. ASSUME NEW due, Agreed(t, due)
      PROVE  daemon'[t] = [state |-> "open", due |-> due] /\ open'[t] = due /\ Told(t)' \subseteq {due}
  <2>1. DueNow(t) = due
    BY <1>3 DEF Agreed, DueNow, OpenNow
  <2> QED BY <1>3, <2>1 DEF Agreed
<1>4. (Pending(t) => daemon[t] = [state |-> "open", due |-> seen[t]] /\ OnePending(t))'
  BY <1>1 DEF CheckHolds
<1>5. Agreed(t, seen[t]) => Agreed(t, seen[t])'
  BY <1>3 DEF Agreed
<1>6. Agreed(t, open[t]) => Agreed(t, open[t])'
  BY <1>3 DEF Agreed
<1> QED BY <1>1, <1>2, <1>4, <1>5, <1>6 DEF CheckHolds

ViewHolds == ViewType /\ OneLoad /\ SentShown /\ ChecksHold

LEMMA Parts ==
  ASSUME CheckInvariant
  PROVE  /\ HeldType /\ ViewType /\ OneLoad /\ SentShown /\ ChecksHold /\ LoadsHold
         /\ \A t \in Tasks : /\ daemon[t] \in [state : {"open", "done", "gone"}, due : Nat]
                             /\ open[t] \in Int /\ seen[t] \in Int
                             /\ completing[t] \in [at : {"no", "waiting", "sent"}, due : Dates]
         /\ calls \subseteq CallType /\ \A c \in calls : c.task \in Tasks
BY DEF CheckInvariant, HeldInvariant, HeldType, CallType, ViewType, LoadsHold, Dates

\* A step about one task: the others are as they were.
Same(u) ==
  /\ daemon'[u] = daemon[u] /\ open'[u] = open[u] /\ completing'[u] = completing[u]
  /\ seen'[u] = seen[u] /\ Told(u)' \subseteq Told(u) \cup {DueNow(u)} /\ SameCalls(u)
  /\ u \in touched => u \in touched'

LEMMA SameHolds ==
  ASSUME CheckInvariant, NEW u \in Tasks, Same(u), up' # "gone" => up # "gone"
  PROVE  u \in touched' \/ daemon'[u].state = "gone" \/ CheckHolds(u)'
<1>1. u \in touched \/ daemon[u].state = "gone" \/ CheckHolds(u)
  BY Parts DEF ChecksHold
<1>2. CheckHolds(u) => CheckHolds(u)'
  BY NothingToIt DEF Same
<1> QED BY <1>1, <1>2 DEF Same

LEMMA AllBut ==
  ASSUME CheckInvariant, NEW t \in Tasks, \A u \in Tasks \ {t} : Same(u),
         up' # "gone" => up # "gone",
         t \in touched' \/ daemon'[t].state = "gone" \/ CheckHolds(t)'
  PROVE  ChecksHold'
<1>1. \A u \in Tasks \ {t} : u \in touched' \/ daemon'[u].state = "gone" \/ CheckHolds(u)'
  BY SameHolds
<1>2. \A u \in Tasks : u = t \/ u \in Tasks \ {t}
  OBVIOUS
<1>3. \A u \in Tasks : u \in touched' \/ daemon'[u].state = "gone" \/ CheckHolds(u)'
  BY <1>1, <1>2
<1> QED BY <1>3 DEF ChecksHold

LEMMA QuietHolds ==
  ASSUME CheckInvariant, UNCHANGED <<daemon, open, completing, seen>>, touched \subseteq touched', LoadsHold',
         \A t \in Tasks : Told(t)' \subseteq Told(t) \cup {DueNow(t)},
         \A t \in Tasks : SameCalls(t), up' # "gone" => up # "gone"
  PROVE  ViewHolds'
<1>1. \A u \in Tasks : Same(u)
  BY DEF Same
<1>2. \A u \in Tasks : u \in touched' \/ daemon'[u].state = "gone" \/ CheckHolds(u)'
  BY <1>1, SameHolds
<1>3. ChecksHold'
  BY <1>2 DEF ChecksHold
<1>4. ViewType' /\ OneLoad' /\ SentShown'
  BY Parts DEF ViewType, LoadsHold, SentShown
<1> QED BY <1>3, <1>4 DEF ViewHolds

LEMMA SameLoads ==
  ASSUME CheckInvariant, loads' = loads
  PROVE  LoadsHold' /\ \A t \in Tasks : Told(t)' = Told(t)
BY Parts DEF LoadsHold, OneLoad, Told

\* Calls to delete or reopen are none to complete.
LEMMA OtherCallsSame ==
  ASSUME NEW more, calls' = calls \cup more, \A c \in more : c.op # "complete", NEW t \in Tasks
  PROVE  SameCalls(t)
BY DEF SameCalls, Relevant

-----------------------------------------------------------------------------
(* Steps of checking. *)

LEMMA CheckStepHolds ==
  ASSUME CheckInvariant, NEW t \in Tasks, Check(t)
  PROVE  ViewHolds'
<1> USE Parts
<1>1. /\ UNCHANGED <<daemon, open, loads, up>> /\ completing[t].at = "no" /\ open[t] # Absent
      /\ up # "gone" /\ seen' = [seen EXCEPT ![t] = open[t]]
      /\ touched' = touched \/ (touched' = touched \ {t} /\ Agreed(t, open[t]) /\ ~Pending(t))
  BY DEF Check, view, IsOpen, Shown
<1>2. \/ /\ completing' = [completing EXCEPT ![t] = [at |-> "waiting", due |-> Absent]]
         /\ calls' = calls
      \/ SendsComplete(t)
  BY DEF Check
<1>3. /\ seen' \in [Tasks -> Dates] /\ seen'[t] = open[t]
      /\ \A u \in Tasks \ {t} : seen'[u] = seen[u]
      /\ completing' \in [Tasks -> [at : {"no", "waiting", "sent"}, due : Dates]]
      /\ \A u \in Tasks \ {t} : completing'[u] = completing[u]
      /\ completing'[t].at = "waiting" \/ completing'[t] = [at |-> "sent", due |-> open[t]]
  BY <1>1, <1>2 DEF SendsComplete, ViewType, Absent, Dates
<1>4. LoadsHold' /\ \A u \in Tasks : Told(u)' = Told(u)
  BY <1>1, SameLoads
<1>5. \A u \in Tasks \ {t} : SameCalls(u)
  BY <1>2 DEF SendsComplete, SameCalls, Relevant, Call
<1>6. \A u \in Tasks \ {t} : Same(u)
  BY <1>1, <1>3, <1>4, <1>5 DEF Same
<1>7. ASSUME t \notin touched', daemon'[t].state # "gone"
      PROVE  CheckHolds(t)'
  <2>1. Agreed(t, open[t]) /\ ~Pending(t)
    BY <1>1, <1>7 DEF ChecksHold, CheckHolds
  <2>2. Agreed(t, open[t])'
    BY <1>1, <1>4, <2>1 DEF Agreed
  <2>3. seen'[t] = open'[t]
    BY <1>1, <1>3
  <2>4. Agreed(t, seen[t])' /\ daemon'[t] = [state |-> "open", due |-> seen'[t]]
    BY <2>2, <2>3 DEF Agreed
  <2>5. CASE calls' = calls /\ completing'[t].at = "waiting"
    <3>1. ~Pending(t)'
      BY <2>1, <2>5 DEF Pending
    <3> QED BY <2>4, <2>5, <3>1 DEF CheckHolds
  <2>6. CASE SendsComplete(t)
    <3>1. calls' = calls \cup {Call("complete", t)} /\ completing'[t] = [at |-> "sent", due |-> open[t]]
      BY <2>6 DEF SendsComplete, ViewType
    <3>2. Pending(t)' /\ OnePending(t)'
      BY <2>1, <3>1, SentPending
    <3> QED BY <1>1, <1>3, <2>4, <3>1, <3>2 DEF CheckHolds
  <2>7. calls' = calls => completing'[t].at = "waiting" \/ SendsComplete(t)
    BY <1>2 DEF ViewType
  <2> QED BY <1>2, <2>5, <2>6, <2>7
<1>8. ChecksHold'
  BY <1>1, <1>6, <1>7, AllBut
<1>9. ViewType' /\ OneLoad' /\ SentShown'
  <2>1. \A u \in Tasks : u = t \/ u \in Tasks \ {t}
    OBVIOUS
  <2> QED BY <1>1, <1>3, <1>4, <2>1 DEF ViewType, LoadsHold, SentShown
<1> QED BY <1>8, <1>9 DEF ViewHolds

LEMMA UncheckHolds ==
  ASSUME CheckInvariant, NEW t \in Tasks, Uncheck(t)
  PROVE  ViewHolds'
<1> USE Parts
<1>1. /\ UNCHANGED <<daemon, open, loads, calls, up, touched>> /\ completing[t].at = "waiting"
      /\ up # "gone" /\ seen' = [seen EXCEPT ![t] = Absent]
      /\ completing' = [completing EXCEPT ![t] = [at |-> "no", due |-> Absent]]
  BY DEF Uncheck, view, sent, Shown
<1>2. /\ seen' \in [Tasks -> Dates] /\ \A u \in Tasks \ {t} : seen'[u] = seen[u]
      /\ completing' \in [Tasks -> [at : {"no", "waiting", "sent"}, due : Dates]]
      /\ \A u \in Tasks \ {t} : completing'[u] = completing[u]
      /\ completing'[t].at = "no"
  BY <1>1 DEF ViewType, Absent, Dates
<1>3. LoadsHold' /\ \A u \in Tasks : Told(u)' = Told(u)
  BY <1>1, SameLoads
<1>4. \A u \in Tasks : SameCalls(u)
  BY <1>1 DEF SameCalls
<1>5. \A u \in Tasks \ {t} : Same(u)
  BY <1>1, <1>2, <1>3, <1>4 DEF Same
<1>6. ASSUME t \notin touched', daemon'[t].state # "gone"
      PROVE  CheckHolds(t)'
  <2>1. Agreed(t, seen[t]) /\ ~Pending(t)
    BY <1>1, <1>6 DEF ChecksHold, CheckHolds
  <2>2. Agreed(t, open[t])' /\ ~Pending(t)' /\ open'[t] # Absent
    BY <1>1, <1>3, <2>1 DEF Agreed, Pending, SentShown
  <2> QED BY <1>2, <2>2 DEF CheckHolds
<1>7. ChecksHold'
  BY <1>1, <1>5, <1>6, AllBut
<1>8. ViewType' /\ OneLoad' /\ SentShown'
  <2>1. \A u \in Tasks : u = t \/ u \in Tasks \ {t}
    OBVIOUS
  <2> QED BY <1>1, <1>2, <1>3, <2>1 DEF ViewType, LoadsHold, SentShown
<1> QED BY <1>7, <1>8 DEF ViewHolds

LEMMA CompleteNowHolds ==
  ASSUME CheckInvariant, NEW x \in timers, CompleteNow(x)
  PROVE  ViewHolds'
<1> USE Parts
<1> DEFINE t == x.task
<1>1. UNCHANGED <<daemon, open, loads, up, touched, seen>> /\ up # "gone" /\ t \in Tasks
  BY DEF CompleteNow, view, ghosts, Alive, HeldType
<1>2. LoadsHold' /\ \A u \in Tasks : Told(u)' = Told(u)
  BY <1>1, SameLoads
<1>3. CASE UNCHANGED <<completing, calls>>
  <2>1. \A u \in Tasks : SameCalls(u)
    BY <1>3 DEF SameCalls
  <2> QED BY <1>1, <1>2, <1>3, <2>1, QuietHolds
<1>4. CASE completing[t].at = "waiting" /\ SendsComplete(t)
  <2>1. /\ completing' \in [Tasks -> [at : {"no", "waiting", "sent"}, due : Dates]]
        /\ \A u \in Tasks \ {t} : completing'[u] = completing[u]
        /\ completing'[t] = [at |-> "sent", due |-> open[t]]
        /\ calls' = calls \cup {Call("complete", t)}
    BY <1>1, <1>4 DEF SendsComplete, ViewType, Dates
  <2>2. \A u \in Tasks \ {t} : SameCalls(u)
    BY <2>1 DEF SameCalls, Relevant, Call
  <2>3. \A u \in Tasks \ {t} : Same(u)
    BY <1>1, <1>2, <2>1, <2>2 DEF Same
  <2>4. ASSUME t \notin touched', daemon'[t].state # "gone"
        PROVE  CheckHolds(t)'
    <3>1. Agreed(t, seen[t]) /\ ~Pending(t)
      BY <1>1, <1>4, <2>4 DEF ChecksHold, CheckHolds
    <3>2. Agreed(t, seen[t])' /\ daemon'[t] = [state |-> "open", due |-> seen'[t]] /\ open[t] = seen'[t]
      BY <1>1, <1>2, <3>1 DEF Agreed
    <3>3. Pending(t)' /\ OnePending(t)'
      BY <1>1, <2>1, <3>1, SentPending
    <3> QED BY <2>1, <3>2, <3>3 DEF CheckHolds
  <2>5. ChecksHold'
    BY <1>1, <2>3, <2>4, AllBut
  <2>6. ViewType' /\ OneLoad' /\ SentShown'
    <3>1. \A u \in Tasks : u = t \/ u \in Tasks \ {t}
      OBVIOUS
    <3> QED BY <1>1, <1>2, <2>1, <3>1 DEF ViewType, LoadsHold, SentShown
  <2> QED BY <2>5, <2>6 DEF ViewHolds
<1> QED BY <1>3, <1>4 DEF CompleteNow

LEMMA BatchCompleteHolds ==
  ASSUME CheckInvariant, NEW S \in SUBSET Tasks, BatchComplete(S)
  PROVE  ViewHolds'
<1>1. /\ UNCHANGED <<daemon, open, loads, completing, calls, up, seen>> /\ touched \subseteq touched'
  BY DEF BatchComplete, view
<1>2. LoadsHold' /\ \A u \in Tasks : Told(u)' = Told(u)
  BY <1>1, SameLoads
<1>3. \A u \in Tasks : SameCalls(u)
  BY <1>1 DEF SameCalls
<1> QED BY <1>1, <1>2, <1>3, QuietHolds

\* Two calls that say the same are one.
LEMMA SameRecord ==
  ASSUME HeldType, NEW c \in calls, NEW d \in calls, c.op = d.op, c.task = d.task, c.said = d.said
  PROVE  c = d
BY DEF HeldType, CallType

\* A call that is answered.
LEMMA AnsweredOnly ==
  ASSUME HeldType, NEW c \in calls, c.said = "none", NEW said \in {"ok", "error"},
         Answered(c, said)
  PROVE  /\ \A u \in Tasks \ {c.task} : SameCalls(u)
         /\ c.op # "complete" => SameCalls(c.task)
         /\ c.op = "complete" /\ OnePending(c.task) /\ said # "error" => ~Pending(c.task)'
         /\ c.op = "complete" /\ OnePending(c.task) /\ said = "error" =>
              Pending(c.task)' /\ OnePending(c.task)'
<1> DEFINE d == [c EXCEPT !.said = said]
<1>1. /\ c \in CallType
      /\ d.op = c.op /\ d.task = c.task /\ d.said = said /\ calls' = (calls \ {c}) \cup {d}
  BY DEF HeldType, CallType, Answered
<1> HIDE DEF d
<1>2. \A e : e \in calls' <=> ((e \in calls /\ e # c) \/ e = d)
  BY <1>1
<1>3. \A u \in Tasks \ {c.task} : SameCalls(u)
  BY <1>1, <1>2 DEF SameCalls, Relevant
<1>4. c.op # "complete" => SameCalls(c.task)
  BY <1>1, <1>2 DEF SameCalls, Relevant
<1>5. ASSUME c.op = "complete", NEW e \in calls', e # d, e.op = "complete", e.task = c.task
      PROVE  e \in calls /\ e.said # "none"
  BY <1>2, <1>5, SameRecord
<1>6. ASSUME c.op = "complete", OnePending(c.task), NEW e \in calls', e # d, e.op = "complete",
             e.task = c.task
      PROVE  e.said \notin {"none", "error"}
  BY <1>5, <1>6 DEF OnePending
<1>7. ASSUME c.op = "complete", OnePending(c.task), said # "error"
      PROVE  ~Pending(c.task)'
  BY <1>1, <1>6, <1>7 DEF Pending
<1>8. ASSUME c.op = "complete", OnePending(c.task), said = "error"
      PROVE  Pending(c.task)' /\ OnePending(c.task)'
  <2>1. Pending(c.task)'
    BY <1>1, <1>8 DEF Pending
  <2>2. \A e \in calls' : e.op = "complete" /\ e.task = c.task => e.said # "none"
    BY <1>1, <1>6, <1>8
  <2>3. OnePending(c.task)'
    BY <2>2 DEF OnePending
  <2> QED BY <2>1, <2>3
<1> QED BY <1>3, <1>4, <1>7, <1>8

\* A call that is left out once it was served.
LEMMA LeftOut ==
  ASSUME HeldType, NEW c \in calls, c.said = "none", calls' = calls \ {c}
  PROVE  /\ \A u \in Tasks \ {c.task} : SameCalls(u)
         /\ c.op # "complete" => SameCalls(c.task)
         /\ c.op = "complete" /\ OnePending(c.task) => ~Pending(c.task)'
<1>1. (\A u \in Tasks \ {c.task} : SameCalls(u)) /\ (c.op # "complete" => SameCalls(c.task))
  BY DEF SameCalls, Relevant
<1>2. ASSUME c.op = "complete", OnePending(c.task), NEW e \in calls', e.op = "complete", e.task = c.task
      PROVE  e.said \notin {"none", "error"}
  <2>1. e \in calls /\ e # c
    BY <1>2
  <2>2. e.said # "none"
    BY <1>2, <2>1, SameRecord
  <2>3. e.said # "error"
    BY <1>2, <2>1 DEF OnePending
  <2> QED BY <2>2, <2>3
<1>3. c.op = "complete" /\ OnePending(c.task) => ~Pending(c.task)'
  BY <1>2 DEF Pending
<1> QED BY <1>1, <1>3

\* asstd serves a call on a task that is not gone.
LEMMA ServedHolds ==
  ASSUME CheckInvariant, NEW c \in calls, Serve(c), daemon[c.task].state # "gone",
         c.task \notin touched, daemon'[c.task].state # "gone"
  PROVE  CheckHolds(c.task)'
<1> USE Parts
<1> DEFINE t == c.task
<1>1. t \in Tasks /\ c.op \in {"complete", "delete", "reopen"} /\ CheckHolds(t) /\ c.said = "none"
  BY DEF ChecksHold, Serve, CallType
<1>2. /\ UNCHANGED <<open, completing, seen, loads, up>>
      /\ daemon' = [daemon EXCEPT ![t] = Does(c.op, t)]
      /\ Answered(c, "ok") \/ calls' = calls \ {c}
  BY DEF Serve, view, held
<1>3. daemon'[t] = Does(c.op, t)
  BY <1>1, <1>2 DEF HeldType
<1>4. Told(t)' = Told(t)
  BY <1>2 DEF Told
<1>5. /\ c.op # "complete" => SameCalls(t)
      /\ c.op = "complete" /\ OnePending(t) => ~Pending(t)'
  BY <1>1, <1>2, AnsweredOnly, LeftOut
<1>6. CASE c.op = "complete"
  <2>1. Pending(t)
    BY <1>1, <1>6 DEF Pending
  <2>2. OnePending(t) /\ ~Pending(t)'
    BY <1>1, <1>5, <1>6, <2>1 DEF CheckHolds
  <2>3. up # "gone" => completing[t].at = "sent" /\ Told(t) \subseteq {completing[t].due}
    BY <1>1, <2>1 DEF CheckHolds, Agreed
  <2> QED BY <1>2, <1>4, <2>2, <2>3 DEF CheckHolds
<1>7. CASE c.op = "reopen"
  <2>1. daemon'[t] = [daemon[t] EXCEPT !.state = "open"]
    BY <1>3, <1>7 DEF Does
  <2>2. \A due : daemon[t] = [state |-> "open", due |-> due] => daemon'[t] = daemon[t]
    BY <2>1
  <2>3. SameCalls(t)
    BY <1>5, <1>7
  <2>4. Pending(t)' = Pending(t) /\ OnePending(t)' = OnePending(t)
    BY <1>1, <2>3, PendingSame
  <2>5. DueNow(t) \in {DueNow(t)', Absent}
    <3>1. daemon[t].state = "open" => daemon'[t].state = "open" /\ daemon'[t].due = daemon[t].due
      BY <1>1, <2>1
    <3> QED BY <1>1, <3>1 DEF DueNow, OpenNow
  <2>6. Agreed(t, seen[t]) => Agreed(t, seen[t])'
    BY <1>2, <1>4, <2>2 DEF Agreed
  <2>7. Agreed(t, open[t]) => Agreed(t, open[t])'
    BY <1>2, <1>4, <2>2 DEF Agreed
  <2> QED BY <1>1, <1>2, <1>4, <2>2, <2>4, <2>5, <2>6, <2>7 DEF CheckHolds
<1>8. CASE c.op = "delete"
  <2>1. daemon'[t].state = "gone"
    BY <1>1, <1>3, <1>8 DEF Does
  <2> QED BY <2>1
<1> QED BY <1>1, <1>6, <1>7, <1>8

LEMMA ServeChecks ==
  ASSUME CheckInvariant, NEW c \in calls, Serve(c)
  PROVE  ViewHolds'
<1> USE Parts
<1> DEFINE t == c.task
<1>1. /\ t \in Tasks /\ c.said = "none"
      /\ UNCHANGED <<open, completing, seen, touched, loads, up>>
  BY DEF Serve, view, held
<1>2. LoadsHold' /\ \A u \in Tasks : Told(u)' = Told(u)
  BY <1>1, SameLoads
<1>3. \A u \in Tasks \ {t} : daemon'[u] = daemon[u]
  BY <1>1 DEF Serve, HeldType
<1>4. Answered(c, "ok") \/ Answered(c, "error") \/ calls' = calls \ {c}
  BY DEF Serve
<1>5. \A u \in Tasks \ {t} : SameCalls(u)
  BY <1>1, <1>4, AnsweredOnly, LeftOut
<1>6. \A u \in Tasks \ {t} : Same(u)
  BY <1>1, <1>2, <1>3, <1>5 DEF Same
<1>7. t \in touched' \/ daemon'[t].state = "gone" \/ CheckHolds(t)'
  <2>1. CASE daemon[t].state = "gone"
    BY <2>1 DEF Serve
  <2>2. CASE daemon[t].state # "gone"
    BY <1>1, <2>2, ServedHolds
  <2> QED BY <2>1, <2>2
<1>8. ChecksHold'
  BY <1>1, <1>6, <1>7, AllBut
<1>9. ViewType' /\ OneLoad' /\ SentShown'
  BY <1>1, <1>2 DEF ViewType, LoadsHold, SentShown
<1> QED BY <1>8, <1>9 DEF ViewHolds

LEMMA CallFailsChecks ==
  ASSUME CheckInvariant, NEW c \in calls, CallFails(c)
  PROVE  ViewHolds'
<1> USE Parts
<1> DEFINE t == c.task
<1>1. /\ t \in Tasks /\ c.said = "none" /\ Answered(c, "error")
      /\ UNCHANGED <<daemon, open, completing, seen, touched, loads, up>>
  BY DEF CallFails, view, held
<1>2. LoadsHold' /\ \A u \in Tasks : Told(u)' = Told(u)
  BY <1>1, SameLoads
<1>3. \A u \in Tasks \ {t} : SameCalls(u)
  BY <1>1, AnsweredOnly
<1>4. \A u \in Tasks \ {t} : Same(u)
  BY <1>1, <1>2, <1>3 DEF Same
<1>5. ASSUME t \notin touched', daemon'[t].state # "gone"
      PROVE  CheckHolds(t)'
  <2>1. CheckHolds(t)
    BY <1>1, <1>5 DEF ChecksHold
  <2>2. CASE c.op = "complete"
    <3>1. Pending(t)
      BY <1>1, <2>2 DEF Pending
    <3>2. OnePending(t) /\ Pending(t)' /\ OnePending(t)'
      BY <1>1, <2>1, <2>2, <3>1, AnsweredOnly DEF CheckHolds
    <3>3. Agreed(t, seen[t]) => Agreed(t, seen[t])'
      BY <1>1, <1>2 DEF Agreed
    <3> QED BY <1>1, <2>1, <3>1, <3>2, <3>3 DEF CheckHolds
  <2>3. CASE c.op # "complete"
    <3>1. SameCalls(t)
      BY <1>1, <2>3, AnsweredOnly
    <3> QED BY <1>1, <1>2, <2>1, <3>1, NothingToIt
  <2> QED BY <2>2, <2>3
<1>6. ChecksHold'
  BY <1>1, <1>4, <1>5, AllBut
<1>7. ViewType' /\ OneLoad' /\ SentShown'
  BY <1>1, <1>2 DEF ViewType, LoadsHold, SentShown
<1> QED BY <1>6, <1>7 DEF ViewHolds

LEMMA ReplyChecks ==
  ASSUME CheckInvariant, NEW c \in calls, Reply(c)
  PROVE  ViewHolds'
<1> USE Parts
<1> DEFINE t == c.task
<1>1. /\ t \in Tasks /\ c.said # "none" /\ calls' = calls \ {c} /\ up # "gone"
      /\ UNCHANGED <<daemon, open, seen, touched, up>>
  BY DEF Reply, Alive, view, ghosts
<1>2. \A u \in Tasks \ {t} : SameCalls(u)
  BY <1>1 DEF SameCalls, Relevant
<1>3. CASE c.op = "complete" /\ c.said = "error"
  <2>1. completing' = [completing EXCEPT ![t] = [at |-> "no", due |-> Absent]] /\ loads' = loads
    BY <1>3 DEF Reply
  <2>2. /\ completing' \in [Tasks -> [at : {"no", "waiting", "sent"}, due : Dates]]
        /\ \A u \in Tasks \ {t} : completing'[u] = completing[u]
        /\ completing'[t].at = "no"
    BY <1>1, <2>1 DEF ViewType, Absent, Dates
  <2>3. LoadsHold' /\ \A u \in Tasks : Told(u)' = Told(u)
    BY <2>1, SameLoads
  <2>4. \A u \in Tasks \ {t} : Same(u)
    BY <1>1, <1>2, <2>2, <2>3 DEF Same
  <2>5. ASSUME t \notin touched', daemon'[t].state # "gone"
        PROVE  CheckHolds(t)'
    <3>1. CheckHolds(t) /\ Pending(t)
      BY <1>1, <1>3, <2>5 DEF ChecksHold, Pending
    <3>2. OnePending(t) /\ Agreed(t, seen[t])
      BY <1>1, <3>1 DEF CheckHolds
    <3>3. ASSUME NEW e \in calls', e.op = "complete", e.task = t
          PROVE  e.said \notin {"none", "error"}
      <4>1. e \in calls /\ e # c
        BY <1>1, <3>3
      <4>2. e.said # "none"
        BY <1>3, <3>2, <3>3, <4>1 DEF OnePending
      <4>3. e.said # "error"
        BY <1>3, <3>3, <4>1, SameRecord
      <4> QED BY <4>2, <4>3
    <3>4. ~Pending(t)'
      BY <3>3 DEF Pending
    <3>5. open[t] # Absent
      <4>1. daemon[t].due = seen[t] /\ open[t] = seen[t]
        BY <3>2 DEF Agreed
      <4> QED BY <1>1, <4>1 DEF Absent
    <3>6. Agreed(t, open[t])'
      BY <1>1, <2>3, <3>2 DEF Agreed
    <3> QED BY <1>1, <2>2, <3>4, <3>5, <3>6 DEF CheckHolds
  <2>6. ChecksHold'
    BY <1>1, <2>4, <2>5, AllBut
  <2>7. ViewType' /\ OneLoad' /\ SentShown'
    <3>1. \A u \in Tasks : u = t \/ u \in Tasks \ {t}
      OBVIOUS
    <3> QED BY <1>1, <2>2, <2>3, <3>1 DEF ViewType, LoadsHold, SentShown
  <2> QED BY <2>6, <2>7 DEF ViewHolds
<1>4. CASE ~(c.op = "complete" /\ c.said = "error")
  <2>1. completing' = completing /\ (Reloads \/ loads' = loads)
    BY <1>4 DEF Reply
  <2>2. LoadsHold' /\ \A u \in Tasks : Told(u)' \subseteq Told(u) \cup {DueNow(u)}
    BY <2>1, SameLoads, ReloadsHold DEF LoadsHold
  <2>3. \A u \in Tasks : SameCalls(u)
    BY <1>1, <1>4 DEF SameCalls, Relevant
  <2> QED BY <1>1, <2>1, <2>2, <2>3, QuietHolds
<1> QED BY <1>3, <1>4

LEMMA QuitDeletesChecks ==
  ASSUME CheckInvariant, NEW S \in leaving, QuitDeletes(S)
  PROVE  ViewHolds'
<1> USE Parts
<1>1. PICK t \in S : daemon' = [daemon EXCEPT ![t].state = "gone"] \/ daemon' = daemon
  BY DEF QuitDeletes
<1>2. t \in Tasks /\ UNCHANGED <<open, completing, seen, touched, loads, calls, up>>
  BY DEF QuitDeletes, view, held, sent, HeldType
<1>3. LoadsHold' /\ \A u \in Tasks : Told(u)' = Told(u)
  BY <1>2, SameLoads
<1>4. \A u \in Tasks : SameCalls(u)
  BY <1>2 DEF SameCalls
<1>5. CASE daemon' = daemon
  BY <1>2, <1>3, <1>4, <1>5, QuietHolds
<1>6. CASE daemon' = [daemon EXCEPT ![t].state = "gone"]
  <2>1. daemon'[t].state = "gone" /\ \A u \in Tasks \ {t} : daemon'[u] = daemon[u]
    BY <1>2, <1>6 DEF HeldType
  <2>2. \A u \in Tasks \ {t} : Same(u)
    BY <1>2, <1>3, <1>4, <2>1 DEF Same
  <2>3. ChecksHold'
    BY <1>2, <2>1, <2>2, AllBut
  <2>4. ViewType' /\ OneLoad' /\ SentShown'
    BY <1>2, <1>3 DEF ViewType, LoadsHold, SentShown
  <2> QED BY <2>3, <2>4 DEF ViewHolds
<1> QED BY <1>1, <1>5, <1>6

LEMMA OtherChangesChecks ==
  ASSUME CheckInvariant, NEW t \in Tasks, NEW op \in {"complete", "reopen", "delete"},
         OtherChanges(t, op)
  PROVE  ViewHolds'
<1> USE Parts
<1>1. /\ daemon' = [daemon EXCEPT ![t] = Does(op, t)] /\ touched' = touched \cup {t}
      /\ UNCHANGED <<open, completing, seen, loads, calls, up>>
  BY DEF OtherChanges, view, held, sent
<1>2. LoadsHold' /\ \A u \in Tasks : Told(u)' = Told(u)
  BY <1>1, SameLoads
<1>3. \A u \in Tasks : SameCalls(u)
  BY <1>1 DEF SameCalls
<1>4. \A u \in Tasks \ {t} : daemon'[u] = daemon[u]
  BY <1>1 DEF HeldType
<1>5. \A u \in Tasks \ {t} : Same(u)
  BY <1>1, <1>2, <1>3, <1>4 DEF Same
<1>6. ChecksHold'
  BY <1>1, <1>5, AllBut
<1>7. ViewType' /\ OneLoad' /\ SentShown'
  BY <1>1, <1>2 DEF ViewType, LoadsHold, SentShown
<1> QED BY <1>6, <1>7 DEF ViewHolds

\* The next of a selection is completed, which was touched.
LEMMA ServeBatchChecks ==
  ASSUME CheckInvariant, NEW S \in batches, ServeBatch(S)
  PROVE  ViewHolds'
<1> USE Parts
<1>1. S \subseteq touched /\ S \subseteq Tasks
  BY DEF CheckInvariant, BatchesTouched, BatchType
<1>2. UNCHANGED <<open, completing, seen, touched, loads, calls, up>>
  BY DEF ServeBatch, view, held
<1>3. PICK t \in S : daemon' = daemon \/ daemon' = [daemon EXCEPT ![t] = AfterComplete(t)]
  BY DEF ServeBatch
<1>4. LoadsHold' /\ \A u \in Tasks : Told(u)' = Told(u)
  BY <1>2, SameLoads
<1>5. \A u \in Tasks : SameCalls(u)
  BY <1>2 DEF SameCalls
<1>6. \A u \in Tasks \ {t} : daemon'[u] = daemon[u]
  BY <1>3 DEF HeldType
<1>7. \A u \in Tasks \ {t} : Same(u)
  BY <1>2, <1>4, <1>5, <1>6 DEF Same
<1>8. ChecksHold'
  BY <1>1, <1>2, <1>7, AllBut
<1>9. ViewType' /\ OneLoad' /\ SentShown'
  BY <1>2, <1>4 DEF ViewType, LoadsHold, SentShown
<1> QED BY <1>8, <1>9 DEF ViewHolds

LEMMA ClosedChecks ==
  ASSUME CheckInvariant, Closed
  PROVE  ViewHolds'
<1> USE Parts
<1>1. /\ up' = "gone" /\ loads' = {} /\ UNCHANGED <<daemon, open, calls, seen, touched>>
      /\ completing' = [t \in Tasks |-> [at |-> "no", due |-> Absent]]
  BY DEF Closed, view, sent, ghosts
<1>2. ViewType' /\ OneLoad' /\ SentShown'
  BY <1>1, OpenNowType DEF ViewType, OneLoad, SentShown
<1>3. ASSUME NEW t \in Tasks, CheckHolds(t)
      PROVE  CheckHolds(t)'
  <2>1. SameCalls(t)
    BY <1>1 DEF SameCalls
  <2>2. Pending(t)' = Pending(t) /\ OnePending(t)' = OnePending(t)
    BY <2>1, PendingSame
  <2> QED BY <1>1, <1>3, <2>2 DEF CheckHolds
<1>4. ChecksHold'
  BY <1>1, <1>3 DEF ChecksHold
<1> QED BY <1>2, <1>4 DEF ViewHolds

-----------------------------------------------------------------------------
(* Loads that come. *)

\* What is settled: unchanged, or over.
LEMMA SettledType ==
  ASSUME ViewType, NEW t \in Tasks, NEW o \in [Tasks -> Dates]
  PROVE  /\ Settled(t, o) \in [at : {"no", "waiting", "sent"}, due : Dates]
         /\ Settled(t, o) = completing[t] \/ Settled(t, o).at = "no"
         /\ Settled(t, o).at = "sent" => o[t] = Settled(t, o).due
         /\ Settled(t, o).at = "waiting" => o[t] # Absent
<1>1. completing[t] \in [at : {"no", "waiting", "sent"}, due : Dates] /\ Absent \in Dates
  BY DEF ViewType, Absent, Dates
<1>2. CASE completing[t].at = "waiting" /\ o[t] = Absent
  BY <1>1, <1>2 DEF Settled
<1>3. CASE completing[t].at = "sent" /\ o[t] # completing[t].due
  BY <1>1, <1>3 DEF Settled
<1>4. CASE /\ ~(completing[t].at = "waiting" /\ o[t] = Absent)
           /\ ~(completing[t].at = "sent" /\ o[t] # completing[t].due)
  <2>1. Settled(t, o) = completing[t]
    BY <1>4 DEF Settled
  <2> QED BY <1>1, <1>4, <2>1
<1> QED BY <1>2, <1>3, <1>4

\* The open tasks come, for one task.
LEMMA LoadedHolds ==
  ASSUME CheckInvariant, NEW l \in loads, Loaded(l), l.latest, NEW t \in Tasks, CheckHolds(t)
  PROVE  CheckHolds(t)'
<1> USE Parts
<1>1. /\ UNCHANGED <<daemon, seen, calls, up>> /\ up # "gone" /\ loads' = loads \ {l}
      /\ open' = l.open /\ completing' = [u \in Tasks |-> Settled(u, l.open)]
      /\ l.kind = "open" /\ l.read /\ l \in LoadType
  BY DEF Loaded, Current, Settle, Alive, ViewType, sent
<1> DEFINE v == l.open[t]
<1>2. /\ l.open \in [Tasks -> Dates] /\ open'[t] = v /\ completing'[t] = Settled(t, l.open)
      /\ v \in Told(t) /\ Told(t)' = {}
  BY <1>1 DEF LoadType, Told, OneLoad
<1>3. SameCalls(t) /\ DueNow(t)' = DueNow(t)
  BY <1>1 DEF SameCalls, DueNow, OpenNow
<1>4. Pending(t)' = Pending(t) /\ OnePending(t)' = OnePending(t)
  BY <1>3, PendingSame
<1>5. \A due : daemon[t] = [state |-> "open", due |-> due] /\ v = due => Agreed(t, due)'
  BY <1>1, <1>2 DEF Agreed
<1>6. v = DueNow(t) /\ v # Absent => Agreed(t, open[t])'
  <2>1. v = DueNow(t) /\ v # Absent => daemon[t] = [state |-> "open", due |-> v]
    BY DEF DueNow, OpenNow
  <2> QED BY <1>1, <1>2, <2>1 DEF Agreed
<1>7. CASE Pending(t)
  <2>1. /\ completing[t].at = "sent" /\ completing[t].due = seen[t] /\ v = seen[t]
        /\ daemon[t] = [state |-> "open", due |-> seen[t]] /\ OnePending(t)
    BY <1>1, <1>2, <1>7 DEF CheckHolds, Agreed
  <2>2. completing'[t] = completing[t]
    BY <1>2, <2>1 DEF Settled
  <2>3. Agreed(t, seen[t])'
    BY <1>1, <1>5, <2>1 DEF Agreed
  <2> QED BY <1>1, <1>4, <1>7, <2>1, <2>2, <2>3 DEF CheckHolds
<1>8. CASE ~Pending(t) /\ completing[t].at = "waiting"
  <2>1. daemon[t] = [state |-> "open", due |-> seen[t]] /\ v = seen[t]
    BY <1>1, <1>2, <1>8 DEF CheckHolds, Agreed
  <2>2. v # Absent
    <3>1. daemon[t].due = v /\ daemon[t].due \in Nat
      BY <2>1
    <3> QED BY <3>1 DEF Absent
  <2>3. completing'[t] = completing[t]
    BY <1>2, <1>8, <2>2 DEF Settled
  <2>4. Agreed(t, seen[t])'
    BY <1>1, <1>5, <2>1 DEF Agreed
  <2> QED BY <1>1, <1>4, <1>8, <2>3, <2>4 DEF CheckHolds
<1>9. CASE ~Pending(t) /\ completing[t].at = "sent" /\ v = completing[t].due
  <2>1. completing'[t] = completing[t]
    BY <1>2, <1>9 DEF Settled
  <2> QED BY <1>2, <1>4, <1>9, <2>1 DEF CheckHolds
<1>10. CASE ~Pending(t) /\ completing[t].at = "sent" /\ v # completing[t].due
  <2>1. completing'[t].at = "no"
    BY <1>2, <1>10 DEF Settled
  <2>2. v = DueNow(t) \/ v = Absent
    BY <1>1, <1>2, <1>10 DEF CheckHolds
  <2> QED BY <1>2, <1>4, <1>6, <1>10, <2>1, <2>2 DEF CheckHolds
<1>11. CASE ~Pending(t) /\ completing[t].at = "no"
  <2>1. completing'[t].at = "no"
    BY <1>2, <1>11 DEF Settled
  <2>2. CASE open[t] # Absent
    <3>1. v = open[t] /\ daemon[t] = [state |-> "open", due |-> v]
      BY <1>1, <1>2, <1>11, <2>2 DEF CheckHolds, Agreed
    <3>2. Agreed(t, open[t])'
      BY <1>1, <1>2, <3>1 DEF Agreed
    <3> QED BY <1>2, <1>4, <1>11, <2>1, <2>2, <3>1, <3>2 DEF CheckHolds
  <2>3. CASE open[t] = Absent
    <3>1. v = DueNow(t) \/ v = Absent
      BY <1>1, <1>2, <1>11, <2>3 DEF CheckHolds
    <3> QED BY <1>2, <1>4, <1>6, <1>11, <2>1, <3>1 DEF CheckHolds
  <2> QED BY <2>2, <2>3
<1> QED BY <1>7, <1>8, <1>9, <1>10, <1>11

LEMMA LoadedChecks ==
  ASSUME CheckInvariant, NEW l \in loads, Loaded(l)
  PROVE  ViewHolds'
<1> USE Parts
<1>1. /\ UNCHANGED <<daemon, seen, touched, calls, up>> /\ loads' = loads \ {l} /\ l \in LoadType
  BY DEF Loaded, ViewType, sent
<1>2. LoadsHold' /\ \A t \in Tasks : Told(t)' \subseteq Told(t)
  BY <1>1, FewerLoads
<1>3. \A t \in Tasks : SameCalls(t)
  BY <1>1 DEF SameCalls
<1>4. CASE ~l.latest
  <2>1. UNCHANGED <<open, completing>>
    BY <1>4 DEF Loaded, Current
  <2> QED BY <1>1, <1>2, <1>3, <2>1, QuietHolds
<1>5. CASE l.latest
  <2>1. open' = l.open /\ completing' = [u \in Tasks |-> Settled(u, l.open)]
    BY <1>5 DEF Loaded, Current, Settle
  <2>2. l.open \in [Tasks -> Dates]
    BY <1>1 DEF LoadType
  <2>3. ViewType' /\ OneLoad' /\ SentShown'
    BY <1>1, <1>2, <2>1, <2>2, SettledType DEF ViewType, LoadsHold, SentShown
  <2>4. \A t \in Tasks : CheckHolds(t) => CheckHolds(t)'
    BY <1>5, LoadedHolds
  <2>5. ChecksHold'
    BY <1>1, <2>4 DEF ChecksHold
  <2> QED BY <2>3, <2>5 DEF ViewHolds
<1> QED BY <1>4, <1>5

\* The completed ones come: nothing that is being completed is over by that.
LEMMA CompletedLoadedChecks ==
  ASSUME CheckInvariant, NEW l \in loads, CompletedLoaded(l)
  PROVE  ViewHolds'
<1> USE Parts
<1>1. /\ UNCHANGED <<daemon, open, seen, touched, calls, up>> /\ loads' = loads \ {l}
  BY DEF CompletedLoaded, sent
<1>2. completing' = completing \/ completing' = [t \in Tasks |-> Settled(t, open)]
  BY DEF CompletedLoaded, Settle
<1>3. \A t \in Tasks : Settled(t, open) = completing[t]
  BY DEF SentShown, Settled
<1>4. completing' = completing
  BY <1>2, <1>3 DEF ViewType
<1>5. LoadsHold' /\ \A t \in Tasks : Told(t)' \subseteq Told(t)
  BY <1>1, FewerLoads
<1>6. \A t \in Tasks : SameCalls(t)
  BY <1>1 DEF SameCalls
<1> QED BY <1>1, <1>4, <1>5, <1>6, QuietHolds

-----------------------------------------------------------------------------
(* All steps, for what is checked. *)

\* Steps that ask nothing of asstd but loads, and change no task.
LEMMA LoadStepsCheck ==
  ASSUME CheckInvariant,
         \/ Subscribe \/ Changed \/ LookAtDone \/ LookAway \/ Refresh \/ Present \/ Quit
         \/ \E l \in loads : Read(l) \/ LoadFails(l)
         \/ \E t \in offers : OfferEnds(t)
         \/ BatchFailed \/ \E S \in batches : BatchFails(S)
         \/ UNCHANGED vars
  PROVE  ViewHolds'
<1> USE Parts
<1>1. UNCHANGED <<daemon, open, completing, seen, touched, calls>> /\ (up' # "gone" => up # "gone")
  BY DEF Subscribe, Changed, LookAtDone, LookAway, Refresh, Present, Quit, Read, LoadFails, OfferEnds,
         BatchFailed, BatchFails, vars, view, held, sent, ghosts
<1>2. \A t \in Tasks : SameCalls(t)
  BY <1>1 DEF SameCalls
<1>3. LoadsHold' /\ \A t \in Tasks : Told(t)' \subseteq Told(t) \cup {DueNow(t)}
  <2>1. CASE Changed \/ Refresh \/ BatchFailed
    <3>1. Reloads /\ HeldType /\ loads \subseteq LoadType
      BY <2>1 DEF Changed, Refresh, BatchFailed, LoadsHold
    <3>2. LoadsHold' /\ \A t \in Tasks : Told(t)' = {}
      BY <3>1, ReloadsHold
    <3> QED BY <3>2
  <2>2. CASE LookAtDone
    BY <2>2, LookAtDoneHolds
  <2>3. CASE \E l \in loads : Read(l)
    BY <2>3, ReadHolds
  <2>4. CASE \E l \in loads : LoadFails(l)
    <3>1. loads' \subseteq loads
      BY <2>4 DEF LoadFails
    <3> QED BY <3>1, FewerLoads
  <2>5. CASE \/ Subscribe \/ LookAway \/ Present \/ Quit \/ (\E t \in offers : OfferEnds(t))
             \/ (\E S \in batches : BatchFails(S)) \/ UNCHANGED vars
    <3>1. loads' = loads
      BY <2>5 DEF Subscribe, LookAway, Present, Quit, OfferEnds, BatchFails, vars
    <3> QED BY <3>1, SameLoads
  <2> QED BY <2>1, <2>2, <2>3, <2>4, <2>5
<1> QED BY <1>1, <1>2, <1>3, QuietHolds

\* Steps that send deletes and reopens, or hold a delete.
LEMMA DeleteStepsCheck ==
  ASSUME CheckInvariant,
         \/ Hide \/ (\E t \in Tasks : Reopen(t) \/ Delete(t)) \/ (\E S \in SUBSET Tasks : BatchDelete(S))
         \/ \E i \in DOMAIN toasts : Undo(i) \/ Dismiss(i)
  PROVE  ViewHolds'
<1> USE Parts
<1>1. /\ UNCHANGED <<daemon, open, completing, seen, touched, loads>> /\ (up' # "gone" => up # "gone")
  BY DEF Hide, Reopen, Delete, BatchDelete, Hides, Undo, Dismiss, view, held, ghosts
<1>2. LoadsHold' /\ \A t \in Tasks : Told(t)' = Told(t)
  BY <1>1, SameLoads
<1>3. ASSUME NEW t \in Tasks
      PROVE  SameCalls(t)
  <2>1. CASE (\E u \in Tasks : Delete(u)) \/ \E S \in SUBSET Tasks : BatchDelete(S)
    BY <2>1 DEF Delete, BatchDelete, Hides, sent, SameCalls
  <2>2. CASE \E u \in Tasks : Reopen(u)
    <3>1. PICK u \in Tasks : calls' = calls \cup {Call("reopen", u)}
      BY <2>2 DEF Reopen
    <3> QED BY <3>1 DEF SameCalls, Relevant, Call
  <2>3. CASE Hide \/ \E i \in DOMAIN toasts : Undo(i) \/ Dismiss(i)
    <3>1. PICK S : SendsDelete(S)
      BY <2>3 DEF Hide, Undo, Dismiss
    <3> DEFINE more == {Call("delete", u) : u \in S}
    <3>2. calls' = calls \cup more /\ \A c \in more : c.op # "complete"
      BY <3>1 DEF SendsDelete, Call
    <3> HIDE DEF more
    <3> QED BY <3>2, OtherCallsSame
  <2> QED BY <2>1, <2>2, <2>3
<1> QED BY <1>1, <1>2, <1>3, QuietHolds

\* A task in a batch is not agreed on before it left it.
LEMMA BatchesStayTouched ==
  ASSUME CheckInvariant, [Next]_vars
  PROVE  BatchesTouched'
<1>1. BatchesTouched
  BY DEF CheckInvariant
<1>2. ASSUME NEW t \in Tasks, Check(t)
      PROVE  BatchesTouched'
  BY <1>1, <1>2 DEF Check, BatchesTouched, InBatch
<1>3. ASSUME NEW S \in batches, ServeBatch(S)
      PROVE  BatchesTouched'
  <2>1. /\ batches' \subseteq (batches \ {S}) \cup {Failed} \cup {S \ {t} : t \in S}
        /\ touched' = touched
    BY <1>3 DEF ServeBatch
  <2> QED BY <1>1, <2>1 DEF BatchesTouched, Failed
<1>4. CASE BatchFailed \/ (\E S \in batches : BatchFails(S)) \/ (\E S \in SUBSET Tasks : BatchComplete(S))
  BY <1>1, <1>4 DEF BatchFailed, BatchFails, BatchComplete, BatchesTouched, Failed, ghosts
<1>5. ASSUME batches' = batches, touched \subseteq touched'
      PROVE  BatchesTouched'
  BY <1>1, <1>5 DEF BatchesTouched
<1>6. CASE WindowStep
  BY <1>3, <1>4, <1>5, <1>6 DEF WindowStep, Subscribe, Changed, QuitDeletes, Closed, Read, Loaded,
     CompletedLoaded, CompleteNow, Dismiss, OfferEnds, Serve, Reply, sent, ghosts
<1>7. CASE UserStep
  BY <1>2, <1>4, <1>5, <1>7 DEF UserStep, LookAtDone, LookAway, Refresh, Hide, Present, Quit, Uncheck,
     Reopen, Delete, BatchDelete, Hides, Undo, sent, ghosts
<1>8. CASE OtherStep \/ UNCHANGED vars
  BY <1>4, <1>5, <1>8 DEF OtherStep, OtherChanges, LoadFails, CallFails, vars, sent, ghosts
<1> QED BY <1>6, <1>7, <1>8 DEF Next

LEMMA CheckStep ==
  ASSUME CheckInvariant, [Next]_vars
  PROVE  CheckInvariant'
<1>1. HeldInvariant' /\ BatchType' /\ BatchesTouched'
  BY HeldStep, BatchesStayTouched DEF CheckInvariant
<1>2. ViewHolds'
  <2>1. CASE UNCHANGED vars
    BY <2>1, LoadStepsCheck
  <2>2. CASE WindowStep
    BY <2>2, LoadStepsCheck, DeleteStepsCheck, QuitDeletesChecks, ClosedChecks, LoadedChecks,
       CompletedLoadedChecks, CompleteNowHolds, ServeChecks, ReplyChecks, ServeBatchChecks DEF WindowStep
  <2>3. CASE UserStep
    BY <2>3, LoadStepsCheck, DeleteStepsCheck, CheckStepHolds, UncheckHolds, BatchCompleteHolds
       DEF UserStep
  <2>4. CASE OtherStep
    BY <2>4, LoadStepsCheck, OtherChangesChecks, CallFailsChecks DEF OtherStep
  <2> QED BY <2>1, <2>2, <2>3, <2>4 DEF Next
<1> QED BY <1>1, <1>2 DEF CheckInvariant, ViewHolds

LEMMA CheckInit ==
  ASSUME Init
  PROVE  CheckInvariant
<1>1. HeldInvariant /\ BatchType /\ BatchesTouched
  BY HeldInit DEF Init, BatchesTouched
<1>2. /\ open = NoAnswer /\ seen = NoAnswer /\ loads = {Asked("open")} /\ calls = {}
      /\ completing = [t \in Tasks |-> [at |-> "no", due |-> Absent]]
  BY DEF Init
<1>3. HeldType
  BY <1>1 DEF HeldInvariant
<1>4. ViewType /\ OneLoad /\ SentShown
  BY <1>2, <1>3, OpenNowType, AskedType DEF ViewType, OneLoad, SentShown
<1>5. \A t \in Tasks : Told(t) = {} /\ ~Pending(t)
  BY <1>2, <1>3, AskedType DEF Told, Pending
<1>6. ChecksHold
  BY <1>2, <1>5 DEF ChecksHold, CheckHolds, NoAnswer
<1> QED BY <1>1, <1>4, <1>6 DEF CheckInvariant

\* What is checked, shown, loaded and kept by asstd go together: inductive.
THEOREM CheckInvariance == Spec => []CheckInvariant
BY CheckInit, CheckStep, PTL DEF Spec

\* A call to complete leaves the calls that wait, with a change at asstd, when it is served only.
LEMMA ServedOnly ==
  ASSUME CheckInvariant, [Next]_vars, NEW t \in Tasks, Call("complete", t) \in calls,
         Call("complete", t) \notin calls', daemon' # daemon
  PROVE  Serve(Call("complete", t)) /\ daemon[t].state # "gone"
<1> DEFINE c == Call("complete", t)
<1>1. c.op = "complete" /\ c.task = t /\ c.said = "none"
  BY DEF Call
<1>2. \A d \in calls : Serve(d) => d = c /\ daemon[t].state # "gone"
  BY <1>1 DEF Serve, Answered
<1>3. ~(UNCHANGED vars)
  BY DEF vars
<1>4. CASE WindowStep
  <2>1. /\ ~Subscribe /\ ~Changed /\ ~Closed /\ ~BatchFailed
        /\ \A S \in leaving : ~QuitDeletes(S)
        /\ \A S \in batches : ~ServeBatch(S)
    BY DEF Subscribe, Changed, Closed, BatchFailed, QuitDeletes, ServeBatch, sent
  <2>2. \A l \in loads : ~Read(l) /\ ~Loaded(l) /\ ~CompletedLoaded(l)
    BY DEF Read, Loaded, CompletedLoaded, sent
  <2>3. /\ \A x \in timers : ~CompleteNow(x)
        /\ \A i \in DOMAIN toasts : ~Dismiss(i)
        /\ \A u \in offers : ~OfferEnds(u)
        /\ \A d \in calls : ~Reply(d)
    BY DEF CompleteNow, Dismiss, OfferEnds, Reply
  <2> QED BY <1>2, <1>4, <2>1, <2>2, <2>3 DEF WindowStep
<1>5. ~UserStep
  BY DEF UserStep, LookAtDone, LookAway, Refresh, Hide, Present, Quit, Check, Uncheck, BatchComplete,
         Reopen, Delete, BatchDelete, Hides, Undo
<1>6. ~OtherStep
  BY DEF OtherStep, OtherChanges, LoadFails, CallFails, BatchFails, sent
<1> QED BY <1>3, <1>4, <1>5, <1>6 DEF Next

\* A check completes the date that was shown, and no later one, but where others changed
\* the task, or it was completed with the selection too.
THEOREM ChecksCompleteWhatWasShown == Spec => CompletesWhatWasChecked
<1>1. ASSUME CheckInvariant, [Next]_vars, NEW t \in Tasks, Call("complete", t) \in calls,
             Call("complete", t) \notin calls', daemon' # daemon
      PROVE  t \in touched \/ daemon[t].due = seen[t]
  <2>1. daemon[t].state # "gone"
    BY <1>1, ServedOnly
  <2>2. Pending(t)
    BY <1>1 DEF Pending, Call
  <2>3. t \in touched \/ CheckHolds(t)
    BY <1>1, <2>1, Parts DEF ChecksHold
  <2>4. CheckHolds(t) => daemon[t] = [state |-> "open", due |-> seen[t]]
    BY <2>2 DEF CheckHolds
  <2> QED BY <2>3, <2>4
<1>2. CheckInvariant /\ [Next]_vars =>
        [\A t \in Tasks :
           Call("complete", t) \in calls /\ Call("complete", t) \notin calls' /\ daemon' # daemon
             => t \in touched \/ daemon[t].due = seen[t]]_vars
  BY <1>1
<1> QED BY <1>2, CheckInvariance, PTL DEF Spec, CompletesWhatWasChecked

-----------------------------------------------------------------------------
(***************************************************************************)
(* The plan of the day.                                                    *)
(***************************************************************************)

(* Minutes. *)

\* Of a family of finite sets one holds no other.
LEMMA SmallestSet ==
  ASSUME NEW F, F # {}, \A T \in F : IsFiniteSet(T)
  PROVE  \E T \in F : \A U \in F : U \subseteq T => U = T
<1> DEFINE S == UNION F
<1>1. IsWellFoundedOn(StrictSubsetOrdering(S), FiniteSubsetsOf(S))
  BY FS_StrictSubsetOrderingWellFounded
<1>2. F \subseteq FiniteSubsetsOf(S)
  BY DEF FiniteSubsetsOf
<1>3. PICK T \in F : \A U \in F : ~(<<U, T>> \in StrictSubsetOrdering(S))
  BY <1>1, <1>2, WFMin
<1>4. ASSUME NEW U \in F, U \subseteq T PROVE U = T
  <2>1. <<U, T>> \in (SUBSET S) \X (SUBSET S)
    BY <1>3
  <2> QED BY <1>3, <1>4, <2>1 DEF StrictSubsetOrdering
<1> QED BY <1>3, <1>4

LEMMA LeastNumber ==
  ASSUME NEW S \in SUBSET Nat, S # {}
  PROVE  Least(S) \in S /\ \A x \in S : Least(S) <= x
<1> DEFINE F == {0 .. n : n \in S}
<1>1. F # {} /\ \A T \in F : IsFiniteSet(T)
  <2>1. ASSUME NEW n \in S PROVE IsFiniteSet(0 .. n)
    <3>1. 0 \in Int /\ n \in Int
      OBVIOUS
    <3> QED BY <3>1, FS_Interval
  <2> QED BY <2>1
<1>2. PICK T \in F : \A U \in F : U \subseteq T => U = T
  <2> HIDE DEF F
  <2> QED BY <1>1, SmallestSet
<1>3. PICK m \in S : T = 0 .. m
  BY <1>2
<1>4. ASSUME NEW x \in S, x < m PROVE FALSE
  <2>1. 0 .. x \in F
    OBVIOUS
  <2>2. m \in Nat /\ x \in Nat
    OBVIOUS
  <2>3. 0 .. x \subseteq 0 .. m /\ m \in 0 .. m /\ ~(m \in 0 .. x)
    BY <1>4, <2>2
  <2>4. 0 .. x = 0 .. m
    <3> HIDE DEF F
    <3> QED BY <1>2, <1>3, <2>1, <2>3
  <2> QED BY <2>3, <2>4
<1>5. m \in S /\ \A x \in S : m <= x
  BY <1>3, <1>4
<1> QED BY <1>5 DEF Least

LEMMA MostNumber ==
  ASSUME NEW S \in SUBSET Nat, S # {}, IsFiniteSet(S)
  PROVE  Most(S) \in S /\ \A x \in S : x <= Most(S)
<1> DEFINE From(n) == {x \in S : n <= x}
           F == {From(n) : n \in S}
<1>1. F # {} /\ \A T \in F : IsFiniteSet(T)
  <2>1. ASSUME NEW n \in S PROVE IsFiniteSet(From(n))
    <3>1. From(n) \in SUBSET S
      OBVIOUS
    <3> HIDE DEF From
    <3> QED BY <3>1, FS_Subset
  <2> QED BY <2>1
<1>2. PICK T \in F : \A U \in F : U \subseteq T => U = T
  <2> HIDE DEF F
  <2> QED BY <1>1, SmallestSet
<1>3. PICK m \in S : T = From(m)
  BY <1>2
<1>4. ASSUME NEW x \in S, m < x PROVE FALSE
  <2>1. From(x) \in F
    OBVIOUS
  <2>2. x \in Nat /\ m \in Nat /\ \A y \in S : y \in Nat
    OBVIOUS
  <2>3. From(x) \subseteq From(m) /\ m \in From(m) /\ ~(m \in From(x))
    <3>1. \A y \in S : x <= y => m <= y
      BY <1>4, <2>2
    <3>2. m <= m /\ ~(x <= m)
      BY <1>4, <2>2
    <3> QED BY <3>1, <3>2
  <2>4. From(x) = From(m)
    <3> HIDE DEF F, From
    <3> QED BY <1>2, <1>3, <2>1, <2>3
  <2> QED BY <2>3, <2>4
<1>5. m \in S /\ \A x \in S : x <= m
  BY <1>3, <1>4
<1> QED BY <1>5 DEF Most

LEMMA LeastOfTwo ==
  ASSUME NEW a \in Int, NEW b \in Int
  PROVE  Least({a, b}) = IF a <= b THEN a ELSE b
BY DEF Least

LEMMA MostOfTwo ==
  ASSUME NEW a \in Int, NEW b \in Int
  PROVE  Most({a, b}) = IF a <= b THEN b ELSE a
BY DEF Most

LEMMA ClampIs ==
  ASSUME NEW x \in Int, NEW lo \in Int, NEW hi \in Int, lo <= hi
  PROVE  Clamp(x, lo, hi) = IF x < lo THEN lo ELSE IF x > hi THEN hi ELSE x
<1>1. Least({x, hi}) = IF x <= hi THEN x ELSE hi
  BY LeastOfTwo
<1>2. Least({x, hi}) \in Int
  BY <1>1
<1>3. Clamp(x, lo, hi) = IF lo <= Least({x, hi}) THEN Least({x, hi}) ELSE lo
  BY <1>2, MostOfTwo DEF Clamp
<1> QED BY <1>1, <1>3

LEMMA Minutes ==
  /\ DayMinutes \in Nat /\ DayMinutes > 0 /\ Snap \in Nat /\ Snap > 0 /\ Snap <= DayMinutes
  /\ MinDuration \in Nat /\ MinDuration > 0 /\ Default \in Nat
  /\ PlaceFrom \in Nat /\ PlaceFrom <= DayMinutes /\ LastDay \in Nat
  /\ DropFrom \in Nat /\ DropFloor \in Nat /\ DropTo \in Nat
BY MinutesAssumption

\* A slot's duration has room in the day, and is not shortened again.
LEMMA DurationIs ==
  ASSUME NEW start \in Nat, start < DayMinutes, NEW duration \in Nat
  PROVE  /\ SlotDuration(start, duration) \in Nat
         /\ SlotDuration(start, duration) > 0
         /\ start + SlotDuration(start, duration) <= DayMinutes
         /\ SlotDuration(start, SlotDuration(start, duration)) = SlotDuration(start, duration)
<1> USE Minutes
<1> DEFINE room == DayMinutes - start
           low == IF MinDuration <= room THEN MinDuration ELSE room
<1>1. Least({start, DayMinutes - 1}) = start
  BY LeastOfTwo
<1>2. Most({DayMinutes - start, 1}) = room
  BY MostOfTwo
<1>3. Least({MinDuration, room}) = low
  BY LeastOfTwo
<1>4. room \in Int /\ low \in Int /\ 0 < low /\ low <= room
  OBVIOUS
<1>5. ASSUME NEW d \in Nat
      PROVE  SlotDuration(start, d) = IF d < low THEN low ELSE IF d > room THEN room ELSE d
  <2>1. SlotDuration(start, d) = Clamp(d, low, room)
    BY <1>1, <1>2, <1>3 DEF SlotDuration
  <2> HIDE DEF room, low
  <2> QED BY <1>4, <2>1, ClampIs
<1>6. SlotDuration(start, duration) \in low .. room
  <2> HIDE DEF room, low
  <2> QED BY <1>4, <1>5
<1>7. SlotDuration(start, duration) \in Nat /\ SlotDuration(start, duration) > 0
  <2> HIDE DEF room, low
  <2> QED BY <1>4, <1>6
<1>8. start + SlotDuration(start, duration) <= DayMinutes
  BY <1>6
<1>9. SlotDuration(start, SlotDuration(start, duration)) = SlotDuration(start, duration)
  <2> HIDE DEF room, low
  <2> QED BY <1>4, <1>5, <1>6, <1>7
<1> QED BY <1>7, <1>8, <1>9

LEMMA SnapType ==
  ASSUME NEW min \in Int
  PROVE  SnapTo(min) \in Nat /\ SnapTo(min) < DayMinutes
<1> USE Minutes
<1>1. ((min + Snap \div 2) \div Snap) * Snap \in Int
  OBVIOUS
<1>2. SnapTo(min) \in 0 .. DayMinutes - 1
  BY <1>1, ClampIs DEF SnapTo
<1> QED BY <1>2

-----------------------------------------------------------------------------
(* The walk over a day's slots. *)

Ahead == 0 .. 2 * DayMinutes

WalkStep(walk, S, duration) ==
  [at \in Ahead |->
     IF S = {} THEN at
     ELSE IF End(First(S)) <= at THEN walk[S \ {First(S)}][at]
     ELSE IF First(S).start >= at + duration THEN at
     ELSE walk[S \ {First(S)}][Ceil(End(First(S)))]]

LEMMA WalkIs ==
  ASSUME NEW busy, NEW duration
  PROVE  Walk(busy, duration) = CHOOSE walk : walk = [S \in SUBSET busy |-> WalkStep(walk, S, duration)]
BY DEF Walk, WalkStep, Ahead

\* What has been computed for every smaller set can be computed for the next one.
Walked(F, walk, duration) ==
  /\ walk \in [F -> [Ahead -> Ahead]]
  /\ \A S \in F : walk[S] = WalkStep(walk, S, duration)

BusyDay(busy) ==
  /\ busy \subseteq [start : Nat, duration : Nat] /\ IsFiniteSet(busy)
  /\ \A s \in busy : s.start < DayMinutes /\ s.duration > 0 /\ End(s) <= DayMinutes

LEMMA FirstIs ==
  ASSUME NEW S, S # {}, S \subseteq [start : Nat, duration : Nat]
  PROVE  /\ First(S) \in S
         /\ \A o \in S : First(S).start < o.start \/ (First(S).start = o.start /\ First(S).duration <= o.duration)
<1> DEFINE starts == {s.start : s \in S}
<1>1. starts \in SUBSET Nat /\ starts # {}
  OBVIOUS
<1>2. PICK a \in starts : \A x \in starts : a <= x
  <2> HIDE DEF starts
  <2> QED BY <1>1, LeastNumber
<1> DEFINE lengths == {s.duration : s \in {s \in S : s.start = a}}
<1>3. lengths \in SUBSET Nat /\ lengths # {}
  OBVIOUS
<1>4. PICK l \in lengths : \A x \in lengths : l <= x
  <2> HIDE DEF lengths
  <2> QED BY <1>3, LeastNumber
<1>5. PICK s \in S : s.start = a /\ s.duration = l
  BY <1>4
<1>6. ASSUME NEW o \in S PROVE s.start < o.start \/ (s.start = o.start /\ s.duration <= o.duration)
  <2>1. a <= o.start /\ a \in Nat /\ o.start \in Nat
    BY <1>1, <1>2
  <2>2. CASE a = o.start
    BY <1>4, <1>5, <2>2
  <2>3. CASE a < o.start
    BY <1>5, <2>3
  <2> QED BY <2>1, <2>2, <2>3
<1> QED BY <1>5, <1>6 DEF First

\* The next minute of the grid.
LEMMA CeilIs ==
  ASSUME NEW x \in Nat
  PROVE  /\ Ceil(x) \in Nat /\ x <= Ceil(x) /\ Ceil(x) < x + Snap /\ Ceil(x) % Snap = 0
         /\ \A m \in Nat : m % Snap = 0 /\ m < Ceil(x) => m < x
<1> USE Minutes
<1> DEFINE q == (x + Snap - 1) \div Snap
<1>1. q \in Nat /\ q * Snap <= x + Snap - 1 /\ x + Snap - 1 < q * Snap + Snap
  OBVIOUS
<1>2. Ceil(x) = q * Snap
  BY DEF Ceil
<1>3. q * Snap \in Nat
  BY <1>1
<1>4. (q * Snap) % Snap = 0
  BY <1>1
<1>5. ASSUME NEW m \in Nat, m % Snap = 0, m < q * Snap PROVE m < x
  <2> DEFINE k == m \div Snap
  <2>1. k \in Nat /\ m = k * Snap
    BY <1>5
  <2>2. k < q
    BY <1>1, <1>5, <2>1
  <2>3. (k + 1) * Snap <= q * Snap
    BY <1>1, <2>1, <2>2
  <2>4. (k + 1) * Snap = k * Snap + Snap
    BY <2>1
  <2> QED BY <1>1, <1>3, <2>1, <2>3, <2>4
<1> QED BY <1>1, <1>2, <1>3, <1>4, <1>5

\* One step of the walk stays within the day, or the grid after it.
LEMMA WalkStepType ==
  ASSUME NEW busy, BusyDay(busy), NEW duration \in Nat, NEW S \in SUBSET busy, NEW walk,
         S # {} => walk[S \ {First(S)}] \in [Ahead -> Ahead]
  PROVE  WalkStep(walk, S, duration) \in [Ahead -> Ahead]
<1>1. ASSUME NEW at \in Ahead, S # {}
      PROVE  /\ walk[S \ {First(S)}][at] \in Ahead
             /\ Ceil(End(First(S))) \in Ahead
             /\ walk[S \ {First(S)}][Ceil(End(First(S)))] \in Ahead
  <2>1. First(S) \in S
    BY <1>1, FirstIs DEF BusyDay
  <2>2. End(First(S)) \in Nat /\ End(First(S)) <= DayMinutes
    BY <2>1 DEF BusyDay, End
  <2>3. /\ Ceil(End(First(S))) \in Nat
        /\ Ceil(End(First(S))) < End(First(S)) + Snap
    BY <2>2, CeilIs
  <2>4. Ceil(End(First(S))) \in Ahead
    BY <2>2, <2>3, Minutes DEF Ahead
  <2> QED BY <1>1, <2>4
<1> QED BY <1>1 DEF WalkStep

LEMMA WalkStepSame ==
  ASSUME NEW duration, NEW S, NEW walk, NEW other,
         S # {} => walk[S \ {First(S)}] = other[S \ {First(S)}]
  PROVE  WalkStep(walk, S, duration) = WalkStep(other, S, duration)
BY DEF WalkStep

\* The walk is defined: a largest family of sets for which it is has every set of slots.
LEMMA WalkExists ==
  ASSUME NEW busy, BusyDay(busy), NEW duration \in Nat
  PROVE  \E walk : walk = [S \in SUBSET busy |-> WalkStep(walk, S, duration)]
<1> DEFINE Good(F) == /\ \A S \in F : \A T \in SUBSET S : T \in F
                      /\ \E walk : Walked(F, walk, duration)
           rest == {(SUBSET busy) \ F : F \in {F \in SUBSET SUBSET busy : Good(F)}}
<1>1. Good({})
  <2>1. Walked({}, [S \in {} |-> {}], duration)
    BY DEF Walked
  <2> QED BY <2>1
<1>2. rest # {}
  BY <1>1
<1>3. IsFiniteSet(SUBSET busy)
  BY FS_SUBSET DEF BusyDay
<1>4. \A R \in rest : IsFiniteSet(R)
  <2>1. \A R \in rest : R \subseteq SUBSET busy
    OBVIOUS
  <2> HIDE DEF rest
  <2> QED BY <1>3, <2>1, FS_Subset
<1>5. PICK R \in rest : \A Q \in rest : Q \subseteq R => Q = R
  <2> HIDE DEF rest
  <2> QED BY <1>2, <1>4, SmallestSet
<1>6. PICK F \in SUBSET SUBSET busy : Good(F) /\ R = (SUBSET busy) \ F
  BY <1>5
<1>7. PICK walk : Walked(F, walk, duration)
  BY <1>6
<1>8. ASSUME R # {} PROVE FALSE
  <2>1. \A S \in R : IsFiniteSet(S)
    BY <1>6, FS_Subset DEF BusyDay
  <2>2. PICK S \in R : \A T \in R : T \subseteq S => T = S
    <3> HIDE DEF rest
    <3> QED BY <1>8, <2>1, SmallestSet
  <2>3. S \in SUBSET busy /\ S \notin F
    BY <1>6, <2>2
  <2>4. \A T \in SUBSET S : T # S => T \in F
    BY <1>6, <2>2, <2>3
  <2> DEFINE G == F \cup {S}
             wider == [T \in G |-> IF T = S THEN WalkStep(walk, S, duration) ELSE walk[T]]
  <2>5. \A T \in G : \A U \in SUBSET T : U \in G
    BY <1>6, <2>4
  <2>6. \A T \in G : T # {} => First(T) \in T /\ T \ {First(T)} \in F
    <3> SUFFICES ASSUME NEW T \in G, T # {} PROVE First(T) \in T /\ T \ {First(T)} \in F
      OBVIOUS
    <3>1. T \subseteq [start : Nat, duration : Nat]
      BY <2>3 DEF BusyDay
    <3>2. First(T) \in T
      BY <3>1, FirstIs
    <3>3. CASE T = S
      BY <2>4, <3>2, <3>3
    <3>4. CASE T \in F
      BY <1>6, <3>2, <3>4
    <3> QED BY <3>2, <3>3, <3>4
  <2>7. WalkStep(walk, S, duration) \in [Ahead -> Ahead]
    <3>1. S # {} => walk[S \ {First(S)}] \in [Ahead -> Ahead]
      BY <1>7, <2>6 DEF Walked
    <3> QED BY <2>3, <3>1, WalkStepType
  <2>8. wider \in [G -> [Ahead -> Ahead]]
    <3>1. \A T \in F : walk[T] \in [Ahead -> Ahead]
      BY <1>7 DEF Walked
    <3> QED BY <2>7, <3>1
  <2>9. \A T \in F : wider[T] = walk[T]
    BY <2>3
  <2>10. \A T \in G : wider[T] = WalkStep(wider, T, duration)
    <3> SUFFICES ASSUME NEW T \in G PROVE wider[T] = WalkStep(wider, T, duration)
      OBVIOUS
    <3>1. T # {} => walk[T \ {First(T)}] = wider[T \ {First(T)}]
      BY <2>6, <2>9
    <3>2. WalkStep(walk, T, duration) = WalkStep(wider, T, duration)
      <4> HIDE DEF wider, G
      <4> QED BY <3>1, WalkStepSame
    <3>3. wider[T] = WalkStep(walk, T, duration)
      BY <1>7, <2>9 DEF Walked
    <3> QED BY <3>2, <3>3
  <2>11. Walked(G, wider, duration)
    <3> HIDE DEF wider, G
    <3> QED BY <2>8, <2>10 DEF Walked
  <2>12. G \in SUBSET SUBSET busy /\ Good(G)
    <3>1. G \in SUBSET SUBSET busy
      BY <2>3
    <3> HIDE DEF wider, G
    <3> QED BY <2>5, <2>11, <3>1
  <2>13. (SUBSET busy) \ G \in rest
    BY <2>12
  <2>14. (SUBSET busy) \ G \subseteq R /\ S \in R /\ S \notin (SUBSET busy) \ G
    BY <1>6, <2>2
  <2> HIDE DEF rest, G
  <2> QED BY <1>5, <2>13, <2>14
<1>9. F = SUBSET busy
  BY <1>6, <1>8
<1>10. walk = [S \in SUBSET busy |-> WalkStep(walk, S, duration)]
  BY <1>7, <1>9 DEF Walked
<1> QED BY <1>10

\* The walk is the one its definition says, and ends on the day or the grid after it.
LEMMA WalkEquation ==
  ASSUME NEW busy, BusyDay(busy), NEW duration \in Nat
  PROVE  \A S \in SUBSET busy :
           /\ Walk(busy, duration)[S] = WalkStep(Walk(busy, duration), S, duration)
           /\ Walk(busy, duration)[S] \in [Ahead -> Ahead]
<1> DEFINE W == Walk(busy, duration)
<1>1. W = [S \in SUBSET busy |-> WalkStep(W, S, duration)]
  BY WalkExists, WalkIs
<1>2. \A S \in SUBSET busy : W[S] = WalkStep(W, S, duration)
  <2> HIDE DEF W
  <2> QED BY <1>1
<1> DEFINE bad == {S \in SUBSET busy : W[S] \notin [Ahead -> Ahead]}
<1>3. ASSUME bad # {} PROVE FALSE
  <2>1. \A S \in bad : IsFiniteSet(S)
    BY FS_Subset DEF BusyDay
  <2>2. PICK S \in bad : \A T \in bad : T \subseteq S => T = S
    <3> HIDE DEF bad
    <3> QED BY <1>3, <2>1, SmallestSet
  <2>3. S # {} => First(S) \in S
    BY FirstIs DEF BusyDay
  <2>4. ASSUME S # {} PROVE W[S \ {First(S)}] \in [Ahead -> Ahead]
    <3>1. S \ {First(S)} \in SUBSET busy /\ S \ {First(S)} # S
      BY <2>3, <2>4
    <3>2. S \ {First(S)} \notin bad
      <4> HIDE DEF bad
      <4> QED BY <2>2, <3>1
    <3> HIDE DEF W
    <3> QED BY <3>1, <3>2
  <2>5. WalkStep(W, S, duration) \in [Ahead -> Ahead]
    <3> HIDE DEF W
    <3> QED BY <2>4, WalkStepType
  <2> QED BY <1>2, <2>2, <2>5
<1> HIDE DEF W
<1>4. \A S \in SUBSET busy : W[S] \in [Ahead -> Ahead]
  BY <1>3
<1>5. \A S \in SUBSET busy : W[S] = WalkStep(W, S, duration) /\ W[S] \in [Ahead -> Ahead]
  BY <1>2, <1>4
<1> QED BY <1>5 DEF W

\* What the walk finds: from a minute of the grid, the first minute of the grid at which
\* a slot of this duration overlaps none.
Clear(S, m, duration) == \A s \in S : ~Overlap(s, [start |-> m, duration |-> duration])

FirstClear(S, at, r, duration) ==
  /\ r % Snap = 0 /\ at <= r /\ Clear(S, r, duration)
  /\ \A m \in Nat : m % Snap = 0 /\ at <= m /\ m < r => ~Clear(S, m, duration)

LEMMA WalkFinds ==
  ASSUME NEW busy, BusyDay(busy), NEW duration \in Nat, NEW at \in Ahead, at % Snap = 0
  PROVE  /\ Walk(busy, duration)[busy][at] \in Nat
         /\ FirstClear(busy, at, Walk(busy, duration)[busy][at], duration)
<1> DEFINE W == Walk(busy, duration)
           Right(S) == \A x \in Ahead : x % Snap = 0 => FirstClear(S, x, W[S][x], duration)
           bad == {S \in SUBSET busy : ~Right(S)}
<1>1. \A S \in SUBSET busy : W[S] = WalkStep(W, S, duration) /\ W[S] \in [Ahead -> Ahead]
  BY WalkEquation
<1> HIDE DEF W
<1>2. ASSUME NEW S \in SUBSET busy, \A T \in SUBSET S : T # S => Right(T) PROVE Right(S)
  <2> SUFFICES ASSUME NEW x \in Ahead, x % Snap = 0 PROVE FirstClear(S, x, W[S][x], duration)
    OBVIOUS
  <2> DEFINE r == W[S][x]
  <2>1. x \in Nat /\ r \in Nat
    <3>1. W[S] \in [Ahead -> Ahead]
      BY <1>1
    <3>2. r \in Ahead
      BY <3>1
    <3> HIDE DEF r
    <3> QED BY <3>2 DEF Ahead
  <2>2. r = WalkStep(W, S, duration)[x]
    BY <1>1
  <2>3. CASE S = {}
    <3>1. r = x
      BY <2>2, <2>3 DEF WalkStep
    <3> QED BY <2>1, <2>3, <3>1 DEF FirstClear, Clear
  <2>4. CASE S # {}
    <3> DEFINE f == First(S)
               rest == S \ {f}
    <3>1. f \in S /\ f.start \in Nat /\ f.duration \in Nat /\ End(f) \in Nat /\ End(f) <= DayMinutes
      BY <2>4, FirstIs DEF BusyDay, End
    <3>2. \A s \in S : s.start \in Nat /\ f.start <= s.start
      BY <2>4, FirstIs DEF BusyDay
    <3>3. Right(rest)
      <4>1. rest \in SUBSET S /\ rest # S
        BY <3>1
      <4> HIDE DEF rest, Right
      <4> QED BY <1>2, <4>1
    <3>4. rest \in SUBSET busy /\ S = rest \cup {f}
      BY <3>1
    <3>5. r = IF End(f) <= x THEN W[rest][x]
              ELSE IF f.start >= x + duration THEN x
              ELSE W[rest][Ceil(End(f))]
      BY <2>2, <2>4 DEF WalkStep
    <3> HIDE DEF f, rest
    <3>6. \A m \in Nat : Overlap(f, [start |-> m, duration |-> duration])
                           <=> f.start < m + duration /\ m < End(f)
      BY DEF Overlap, End
    <3>7. \A m \in Nat : Clear(S, m, duration)
                           <=> Clear(rest, m, duration) /\ ~(f.start < m + duration /\ m < End(f))
      BY <3>4, <3>6 DEF Clear
    <3>8. CASE End(f) <= x
      <4>1. r = W[rest][x]
        BY <3>5, <3>8
      <4>2. FirstClear(rest, x, r, duration)
        BY <3>3, <4>1
      <4>3. x <= r /\ ~(r < End(f)) /\ \A m \in Nat : x <= m => ~(m < End(f))
        BY <2>1, <3>1, <3>8, <4>2 DEF FirstClear
      <4> HIDE DEF r
      <4> QED BY <2>1, <3>7, <4>2, <4>3 DEF FirstClear, r
    <3>9. CASE ~(End(f) <= x) /\ f.start >= x + duration
      <4>1. r = x
        BY <3>5, <3>9
      <4>2. \A s \in S : ~Overlap(s, [start |-> x, duration |-> duration])
        <5> SUFFICES ASSUME NEW s \in S PROVE ~(s.start < x + duration)
          BY DEF Overlap, End
        <5> QED BY <2>1, <3>1, <3>2, <3>9
      <4> HIDE DEF r
      <4> QED BY <2>1, <4>1, <4>2 DEF FirstClear, Clear, r
    <3>10. CASE ~(End(f) <= x) /\ ~(f.start >= x + duration)
      <4> DEFINE c == Ceil(End(f))
      <4>1. r = W[rest][c]
        BY <3>5, <3>10
      <4>2. c \in Nat /\ End(f) <= c /\ c < End(f) + Snap /\ c % Snap = 0
            /\ \A m \in Nat : m % Snap = 0 /\ m < c => m < End(f)
        BY <3>1, CeilIs
      <4> HIDE DEF c
      <4>3. c \in Ahead
        BY <3>1, <4>2, Minutes DEF Ahead
      <4>4. FirstClear(rest, c, r, duration)
        BY <3>3, <4>1, <4>2, <4>3
      <4>5. x <= c /\ c <= r
        BY <2>1, <3>1, <3>10, <4>2, <4>4 DEF FirstClear
      <4>6. ~(r < End(f)) /\ x <= r
        BY <2>1, <3>1, <4>2, <4>5
      <4>7. ASSUME NEW m \in Nat, m % Snap = 0, x <= m, m < c
            PROVE  f.start < m + duration /\ m < End(f)
        BY <2>1, <3>1, <3>10, <4>2, <4>7
      <4>8. ASSUME NEW m \in Nat, m % Snap = 0, x <= m, m < r PROVE ~Clear(S, m, duration)
        <5>1. CASE m < c
          BY <3>7, <4>7, <4>8, <5>1
        <5>2. CASE c <= m
          BY <3>7, <4>4, <4>8, <5>2 DEF FirstClear
        <5> QED BY <4>2, <5>1, <5>2
      <4>9. r % Snap = 0 /\ Clear(S, r, duration)
        BY <2>1, <3>7, <4>4, <4>6 DEF FirstClear
      <4> HIDE DEF r
      <4> QED BY <4>6, <4>8, <4>9 DEF FirstClear, r
    <3> QED BY <3>8, <3>9, <3>10
  <2> QED BY <2>3, <2>4
<1> HIDE DEF Right
<1>3. ASSUME bad # {} PROVE FALSE
  <2>1. \A S \in bad : IsFiniteSet(S)
    BY FS_Subset DEF BusyDay
  <2>2. PICK S \in bad : \A T \in bad : T \subseteq S => T = S
    <3> HIDE DEF bad
    <3> QED BY <1>3, <2>1, SmallestSet
  <2>3. \A T \in SUBSET S : T # S => Right(T)
    BY <2>2
  <2> QED BY <1>2, <2>2, <2>3
<1>4. Right(busy)
  BY <1>3
<1>5. FirstClear(busy, at, W[busy][at], duration)
  BY <1>4 DEF Right
<1>6. W[busy][at] \in Nat
  <2>1. W[busy] \in [Ahead -> Ahead]
    BY <1>1
  <2>2. W[busy][at] \in Ahead
    BY <2>1
  <2> DEFINE r == W[busy][at]
  <2>3. r \in Ahead
    BY <2>2
  <2> HIDE DEF r
  <2>4. r \in Nat
    BY <2>3 DEF Ahead
  <2> QED BY <2>4 DEF r
<1> QED BY <1>5, <1>6 DEF W

-----------------------------------------------------------------------------
(* Plans: what each change leaves of one. *)

SoundPlan(plan) == plan \subseteq PlanSlot /\ OnePerDay(plan)

LEMMA SlotType ==
  ASSUME NEW s \in PlanSlot
  PROVE  /\ s = [uid |-> s.uid, date |-> s.date, start |-> s.start, duration |-> s.duration]
         /\ s.uid \in Uids /\ s.date \in PlanDays /\ s.start \in Nat /\ s.duration \in Nat
         /\ s.start < DayMinutes /\ s.duration = SlotDuration(s.start, s.duration)
         /\ s.duration > 0 /\ End(s) \in Nat /\ End(s) <= DayMinutes
<1>1. /\ s \in [uid : Uids, date : PlanDays, start : Nat, duration : Nat]
      /\ s.start < DayMinutes /\ s.duration = SlotDuration(s.start, s.duration)
  BY DEF PlanSlot, Placed
<1>2. s.duration > 0 /\ s.start + s.duration <= DayMinutes
  BY <1>1, DurationIs
<1> QED BY <1>1, <1>2 DEF End

LEMMA SlotOfIs ==
  ASSUME NEW plan, SoundPlan(plan), NEW u, NEW d
  PROVE  /\ \A s \in plan : s.uid = u /\ s.date = d => SlotOf(plan, u, d) = s
         /\ SlotOf(plan, u, d) # Nothing =>
              SlotOf(plan, u, d) \in plan /\ SlotOf(plan, u, d).uid = u /\ SlotOf(plan, u, d).date = d
         /\ SlotOf(plan, u, d) = Nothing <=> ~\E s \in plan : s.uid = u /\ s.date = d
<1> DEFINE own == {s \in plan : s.uid = u /\ s.date = d}
<1>1. CASE own = {}
  <2>1. SlotOf(plan, u, d) = Nothing
    BY <1>1 DEF SlotOf
  <2> QED BY <1>1, <2>1
<1>2. CASE own # {}
  <2>1. SlotOf(plan, u, d) = CHOOSE s \in own : TRUE
    BY <1>2 DEF SlotOf
  <2>2. SlotOf(plan, u, d) \in own
    <3> HIDE DEF own
    <3> QED BY <1>2, <2>1
  <2>3. SlotOf(plan, u, d) \in plan /\ SlotOf(plan, u, d).uid = u /\ SlotOf(plan, u, d).date = d
    BY <2>2
  <2>4. SlotOf(plan, u, d) # Nothing
    BY <2>3, NothingAssumption DEF SoundPlan
  <2>5. \A s \in plan : s.uid = u /\ s.date = d => SlotOf(plan, u, d) = s
    BY <2>3 DEF SoundPlan, OnePerDay
  <2> QED BY <2>3, <2>4, <2>5
<1> QED BY <1>1, <1>2

\* What two plans hold for a task and day is the same when they hold the same slots for it.
LEMMA SlotOfSame ==
  ASSUME NEW plan, NEW other, NEW u, NEW d,
         \A s : s.uid = u /\ s.date = d => (s \in plan <=> s \in other)
  PROVE  SlotOf(plan, u, d) = SlotOf(other, u, d)
<1> DEFINE own == {s \in plan : s.uid = u /\ s.date = d}
           its == {s \in other : s.uid = u /\ s.date = d}
<1>1. own = its
  OBVIOUS
<1>2. /\ SlotOf(plan, u, d) = IF own = {} THEN Nothing ELSE CHOOSE s \in own : TRUE
      /\ SlotOf(other, u, d) = IF its = {} THEN Nothing ELSE CHOOSE s \in its : TRUE
  BY DEF SlotOf
<1> HIDE DEF own, its
<1> QED BY <1>1, <1>2

LEMMA SubPlan ==
  ASSUME NEW plan, SoundPlan(plan), NEW part, part \subseteq plan
  PROVE  SoundPlan(part)
BY DEF SoundPlan, OnePerDay

\* A slot that is on a plan is put there again as it was.
LEMMA PlaceIs ==
  ASSUME NEW plan, SoundPlan(plan), NEW u \in Uids, NEW d \in PlanDays, NEW start \in Nat, NEW duration \in Nat
  PROVE  /\ SoundPlan(Place(plan, u, d, start, duration))
         /\ \E s \in Place(plan, u, d, start, duration) :
              /\ s.uid = u /\ s.date = d
              /\ \A t : t \in Place(plan, u, d, start, duration)
                          <=> (t \in plan /\ ~(t.uid = u /\ t.date = d)) \/ t = s
              /\ \A t \in PlanSlot :
                   t.uid = u /\ t.date = d /\ t.start = start /\ t.duration = duration => s = t
<1> DEFINE at == Least({start, DayMinutes - 1})
           s == [uid |-> u, date |-> d, start |-> at, duration |-> SlotDuration(at, duration)]
<1>1. at \in Nat /\ at < DayMinutes /\ (start < DayMinutes => at = start)
  BY Minutes, LeastOfTwo
<1> HIDE DEF at
<1>2. /\ SlotDuration(at, duration) \in Nat
      /\ SlotDuration(at, SlotDuration(at, duration)) = SlotDuration(at, duration)
  BY <1>1, DurationIs
<1>3. s \in PlanSlot
  BY <1>1, <1>2 DEF PlanSlot, Placed
<1>4. s.uid = u /\ s.date = d
  OBVIOUS
<1>5. Place(plan, u, d, start, duration) = {t \in plan : ~(t.uid = u /\ t.date = d)} \cup {s}
  BY DEF Place, Unplace, at
<1>6. \A t \in PlanSlot : t.uid = u /\ t.date = d /\ t.start = start /\ t.duration = duration => s = t
  <2> SUFFICES ASSUME NEW t \in PlanSlot, t.uid = u, t.date = d, t.start = start, t.duration = duration
               PROVE  s = t
    OBVIOUS
  <2>1. at = start /\ duration = SlotDuration(start, duration)
    BY <1>1, SlotType
  <2>2. t = [uid |-> u, date |-> d, start |-> start, duration |-> duration]
    BY SlotType
  <2> QED BY <2>1, <2>2
<1> HIDE DEF s
<1>7. SoundPlan(Place(plan, u, d, start, duration))
  BY <1>3, <1>4, <1>5 DEF SoundPlan, OnePerDay
<1>8. s \in Place(plan, u, d, start, duration)
  BY <1>5
<1>9. \A t : t \in Place(plan, u, d, start, duration) <=> (t \in plan /\ ~(t.uid = u /\ t.date = d)) \/ t = s
  BY <1>5
<1> QED BY <1>4, <1>6, <1>7, <1>8, <1>9

LEMMA MovedOn ==
  ASSUME NEW s \in PlanSlot, NEW to \in PlanDays
  PROVE  /\ [s EXCEPT !.date = to] \in PlanSlot
         /\ [s EXCEPT !.date = to].uid = s.uid /\ [s EXCEPT !.date = to].date = to
<1>1. s \in [uid : Uids, date : PlanDays, start : Nat, duration : Nat] /\ Placed(s)
  BY DEF PlanSlot
<1> DEFINE t == [s EXCEPT !.date = to]
<1>2. t \in [uid : Uids, date : PlanDays, start : Nat, duration : Nat]
  BY <1>1
<1>3. t.uid = s.uid /\ t.date = to /\ t.start = s.start /\ t.duration = s.duration
  BY <1>1
<1> HIDE DEF t
<1>4. t \in PlanSlot
  BY <1>1, <1>2, <1>3 DEF PlanSlot, Placed
<1> QED BY <1>3, <1>4 DEF t

LEMMA CarrySound ==
  ASSUME NEW plan, SoundPlan(plan), NEW from \in PlanDays, NEW to \in PlanDays, from # to
  PROVE  /\ SoundPlan(CarryForward(plan, from, to))
         /\ \A s \in plan : \E t \in CarryForward(plan, from, to) : t.uid = s.uid
<1>1. ASSUME NEW s \in Created(plan, from, to)
      PROVE  /\ s \in plan /\ s.date = from
             /\ [s EXCEPT !.date = to] \in PlanSlot
             /\ [s EXCEPT !.date = to].uid = s.uid /\ [s EXCEPT !.date = to].date = to
             /\ \A t \in plan : ~(t.uid = s.uid /\ t.date = to)
  <2>1. s \in plan /\ s.date = from /\ SlotOf(plan, s.uid, to) = Nothing
    BY DEF Created, Moving
  <2>2. \A t \in plan : ~(t.uid = s.uid /\ t.date = to)
    BY <2>1, SlotOfIs
  <2>3. s \in PlanSlot
    BY <2>1 DEF SoundPlan
  <2> QED BY <2>1, <2>2, <2>3, MovedOn
<1> DEFINE new == {[s EXCEPT !.date = to] : s \in Created(plan, from, to)}
<1>2. ASSUME NEW t \in new
      PROVE  /\ t \in PlanSlot /\ t.date = to /\ \A x \in plan : ~(x.uid = t.uid /\ x.date = to)
             /\ \E s \in Created(plan, from, to) : t = [s EXCEPT !.date = to] /\ s.uid = t.uid
  BY <1>1
<1>3. ASSUME NEW t \in new, NEW x \in new, t.uid = x.uid PROVE t = x
  <2>1. PICK s \in Created(plan, from, to) : t = [s EXCEPT !.date = to] /\ s.uid = t.uid
    BY <1>2
  <2>2. PICK r \in Created(plan, from, to) : x = [r EXCEPT !.date = to] /\ r.uid = x.uid
    BY <1>2
  <2>3. s = r
    BY <1>1, <1>3, <2>1, <2>2 DEF SoundPlan, OnePerDay
  <2> QED BY <2>1, <2>2, <2>3
<1>4. CarryForward(plan, from, to) = (plan \ Moving(plan, from)) \cup new
  BY DEF CarryForward
<1>5. ASSUME NEW s \in plan PROVE \E t \in CarryForward(plan, from, to) : t.uid = s.uid
  <2>1. CASE s \notin Moving(plan, from)
    BY <1>4, <2>1
  <2>2. CASE s \in Created(plan, from, to)
    BY <1>1, <1>4, <2>2
  <2>3. CASE s \in Moving(plan, from) /\ s \notin Created(plan, from, to)
    <3>1. SlotOf(plan, s.uid, to) # Nothing
      BY <2>3 DEF Created
    <3>2. PICK t \in plan : t.uid = s.uid /\ t.date = to
      BY <3>1, SlotOfIs
    <3>3. t \notin Moving(plan, from)
      BY <3>2 DEF Moving
    <3> QED BY <1>4, <3>2, <3>3
  <2> QED BY <2>1, <2>2, <2>3
<1> HIDE DEF new
<1>6. SoundPlan(CarryForward(plan, from, to))
  BY <1>2, <1>3, <1>4 DEF SoundPlan, OnePerDay
<1> QED BY <1>5, <1>6

\* What a carry moved, and what it put on the later day.
CarryOf(c, before) ==
  /\ c.from \in PlanDays /\ c.to \in PlanDays /\ c.from # c.to
  /\ c.moved \subseteq before /\ \A m \in c.moved : m.date = c.from
  /\ \A u : u \in c.created <=> \E m \in c.moved : m.uid = u /\ SlotOf(before, u, c.to) = Nothing

LEMMA UncarrySound ==
  ASSUME NEW plan, SoundPlan(plan), NEW before, SoundPlan(before), NEW c, CarryOf(c, before)
  PROVE  /\ SoundPlan(Uncarry(plan, c))
         /\ \A s \in plan : \E t \in Uncarry(plan, c) : t.uid = s.uid
         /\ \A s : s \in Uncarry(plan, c) <=>
              \/ s \in c.moved
              \/ /\ s \in plan
                 /\ ~(s.date = c.to /\ s.uid \in c.created)
                 /\ ~(s.date = c.from /\ \E m \in c.moved : m.uid = s.uid)
<1>1. \A s : s \in Uncarry(plan, c) <=>
         \/ s \in c.moved
         \/ /\ s \in plan
            /\ ~(s.date = c.to /\ s.uid \in c.created)
            /\ ~(s.date = c.from /\ \E m \in c.moved : m.uid = s.uid)
  BY DEF Uncarry
<1>2. \A s \in plan : \E t \in Uncarry(plan, c) : t.uid = s.uid
  BY <1>1 DEF CarryOf
<1>3. Uncarry(plan, c) \subseteq PlanSlot
  BY <1>1 DEF CarryOf, SoundPlan
<1>4. ASSUME NEW s \in Uncarry(plan, c), NEW t \in Uncarry(plan, c), s.uid = t.uid, s.date = t.date
      PROVE  s = t
  <2>1. CASE s \in c.moved /\ t \in c.moved
    BY <1>4, <2>1 DEF CarryOf, SoundPlan, OnePerDay
  <2>2. CASE s \in c.moved /\ t \notin c.moved
    BY <1>1, <1>4, <2>2 DEF CarryOf
  <2>3. CASE s \notin c.moved /\ t \in c.moved
    BY <1>1, <1>4, <2>3 DEF CarryOf
  <2>4. CASE s \notin c.moved /\ t \notin c.moved
    BY <1>1, <1>4, <2>4 DEF SoundPlan, OnePerDay
  <2> QED BY <2>1, <2>2, <2>3, <2>4
<1> QED BY <1>1, <1>2, <1>3, <1>4 DEF SoundPlan, OnePerDay

-----------------------------------------------------------------------------
(* The invariant of the plan. *)

\* What a day holds is finitely many spans within the day.
LEMMA BusyIs ==
  ASSUME NEW plan, SoundPlan(plan), NEW d
  PROVE  BusyDay(Busy(plan, d))
<1> DEFINE own == {s \in plan : s.date = d}
           name == [s \in own |-> s.uid]
           span == [s \in own |-> [start |-> s.start, duration |-> s.duration]]
<1>1. IsFiniteSet(own)
  <2>1. name \in [own -> Uids]
    BY SlotType DEF SoundPlan
  <2>2. \A s, t \in own : name[s] = name[t] => s = t
    BY DEF SoundPlan, OnePerDay
  <2>3. name \in Injection(own, Uids)
    <3> HIDE DEF own, name
    <3> QED BY <2>1, <2>2 DEF Injection, IsInjective
  <2>4. IsFiniteSet(Uids)
    BY TasksAssumption
  <2> HIDE DEF own, name
  <2> QED BY <2>3, <2>4, FS_Injection
<1>2. Busy(plan, d) = {[start |-> s.start, duration |-> s.duration] : s \in own}
  BY DEF Busy
<1>3. span \in [own -> Busy(plan, d)] /\ \A b \in Busy(plan, d) : \E s \in own : span[s] = b
  <2> HIDE DEF own
  <2> QED BY <1>2
<1>4. IsFiniteSet(Busy(plan, d))
  <2>1. span \in Surjection(own, Busy(plan, d))
    <3> HIDE DEF own, span
    <3> QED BY <1>3 DEF Surjection
  <2> HIDE DEF own, span
  <2> QED BY <1>1, <2>1, FS_Surjection
<1>5. ASSUME NEW b \in Busy(plan, d)
      PROVE  /\ b \in [start : Nat, duration : Nat]
             /\ b.start < DayMinutes /\ b.duration > 0 /\ End(b) <= DayMinutes
  <2>1. PICK s \in own : b = [start |-> s.start, duration |-> s.duration]
    BY <1>2
  <2>2. /\ s.start \in Nat /\ s.duration \in Nat /\ s.start < DayMinutes /\ s.duration > 0
        /\ s.start + s.duration <= DayMinutes
    BY SlotType DEF SoundPlan, End
  <2> QED BY <2>1, <2>2 DEF End
<1> QED BY <1>4, <1>5 DEF BusyDay

LEMMA FirstFreeType ==
  ASSUME NEW plan, SoundPlan(plan), NEW d, NEW from \in Ahead, NEW duration \in Nat
  PROVE  FirstFree(plan, d, from, duration) \in Nat
<1> DEFINE W == Walk(Busy(plan, d), duration)[Busy(plan, d)]
<1>1. W \in [Ahead -> Ahead]
  BY BusyIs, WalkEquation
<1>2. W[from] \in Ahead
  <2> HIDE DEF W
  <2> QED BY <1>1
<1>3. FirstFree(plan, d, from, duration) \in {W[from], from}
  BY DEF FirstFree
<1> HIDE DEF W
<1> QED BY <1>2, <1>3, Minutes DEF Ahead

\* The toast's offer is of a plan that was, and of what the change took from it.
OfferSound(o) ==
  /\ SoundPlan(o.before)
  /\ o.kind \in {"slot", "carry"}
  /\ o.kind = "slot" => /\ o.uid \in Uids /\ o.date \in PlanDays
                        /\ o.prior = SlotOf(o.before, o.uid, o.date)
  /\ o.kind = "carry" => CarryOf(o, o.before)

PlanInvariant == PlanTypeOK /\ (offer # Nothing => OfferSound(offer))

LEMMA PlanInit_Invariant == PlanInit => PlanInvariant
<1> SUFFICES ASSUME PlanInit PROVE PlanInvariant
  OBVIOUS
<1>1. slots \subseteq PlanSlot /\ OnePerDay(slots) /\ known \subseteq Uids /\ offer = Nothing
  BY SavedAssumption DEF PlanInit
<1>2. day \in PlanDays /\ today \in PlanDays
  BY Minutes DEF PlanInit, PlanDays
<1> QED BY <1>1, <1>2 DEF PlanInvariant, PlanTypeOK

\* What the next rendering leaves of a plan keeps every task the window knows.
LEMMA RenderedIs ==
  ASSUME NEW plan, NEW live
  PROVE  /\ SoundPlan(plan) => SoundPlan(Rendered(plan, live)) /\ SoundPlan(PruneSlots(plan, live))
         /\ \A s : s.uid \in live => /\ s \in Rendered(plan, live) <=> s \in plan
                                     /\ s \in PruneSlots(plan, live) <=> s \in plan
<1>1. Rendered(plan, live) \subseteq plan /\ PruneSlots(plan, live) \subseteq plan
  BY DEF Rendered, PruneSlots
<1>2. \A s : s.uid \in live => /\ s \in Rendered(plan, live) <=> s \in plan
                               /\ s \in PruneSlots(plan, live) <=> s \in plan
  BY DEF Rendered, PruneSlots
<1> QED BY <1>1, <1>2, SubPlan

LEMMA PlanDayType == PlanTypeOK => PlanDay \in PlanDays
BY DEF PlanTypeOK, PlanDay

\* A change that puts a task on the day: the plan it makes, and the offer to take it back.
LEMMA PlanSetIs ==
  ASSUME PlanInvariant, NEW u \in Uids, NEW start \in Nat, NEW duration \in Nat,
         PlanSet(u, start, duration)
  PROVE  /\ \/ slots' = Place(slots, u, PlanDay, start, duration)
            \/ slots' = Rendered(Place(slots, u, PlanDay, start, duration), known)
         /\ SoundPlan(Place(slots, u, PlanDay, start, duration))
         /\ offer' \in {offer, Undoable(u, PlanDay)}
         /\ OfferSound(Undoable(u, PlanDay))
         /\ UNCHANGED <<known, loaded, popover, viewing, day, today>>
<1>1. /\ offer' \in {offer, Undoable(u, PlanDay)}
      /\ UNCHANGED <<known, loaded, popover, viewing, day, today>>
      /\ \/ slots' = Place(slots, u, PlanDay, start, duration)
         \/ slots' = Rendered(Place(slots, u, PlanDay, start, duration), known)
  BY DEF PlanSet
<1>2. PlanDay \in PlanDays /\ SoundPlan(slots)
  BY PlanDayType DEF PlanInvariant, PlanTypeOK, SoundPlan
<1>3. SoundPlan(Place(slots, u, PlanDay, start, duration))
  BY <1>2, PlaceIs
<1>4. OfferSound(Undoable(u, PlanDay))
  BY <1>2 DEF OfferSound, Undoable
<1> QED BY <1>1, <1>3, <1>4

\* The minute at which a key plans a task is a minute.
LEMMA KeyStart ==
  ASSUME PlanInvariant, NEW u \in Uids, NEW now \in Clocks, KeyPlace(u, now)
  PROVE  \/ offer' = Nothing /\ UNCHANGED <<slots, known, loaded, popover, viewing, day, today>>
         \/ \E start \in Nat : PlanSet(u, start, Default)
<1> DEFINE from == IF PlanDay = today THEN Most({PlaceFrom, SnapTo(now)}) ELSE PlaceFrom
           start == IF u \in DOMAIN Timed THEN Timed[u] ELSE FirstFree(slots, PlanDay, from, Default)
<1>1. from \in Ahead
  <2>1. SnapTo(now) \in Nat /\ SnapTo(now) < DayMinutes
    BY SnapType, MinutesAssumption
  <2>2. Most({PlaceFrom, SnapTo(now)}) \in {PlaceFrom, SnapTo(now)}
    BY <2>1, Minutes, MostOfTwo
  <2>3. from \in {PlaceFrom, SnapTo(now)}
    BY <2>2
  <2> HIDE DEF from
  <2> QED BY <2>1, <2>3, Minutes DEF Ahead
<1> HIDE DEF from
<1>2. start \in Nat
  <2>1. FirstFree(slots, PlanDay, from, Default) \in Nat
    BY <1>1, FirstFreeType, Minutes DEF PlanInvariant, PlanTypeOK, SoundPlan
  <2>2. u \in DOMAIN Timed => Timed[u] \in Nat
    BY TasksAssumption
  <2> QED BY <2>1, <2>2
<1>3. \/ PlanSet(u, start, Default)
      \/ offer' = Nothing /\ UNCHANGED <<slots, known, loaded, popover, viewing, day, today>>
  BY DEF KeyPlace, from
<1> HIDE DEF start
<1> QED BY <1>2, <1>3

LEMMA DropStart ==
  ASSUME PlanInvariant, NEW u \in Uids, DropOnDay(u)
  PROVE  \E start \in Nat : PlanSet(u, start, Default)
<1> DEFINE own == {s \in slots : s.date = PlanDay}
           ends == {End(s) : s \in own}
           start == IF ends = {} THEN DropFrom ELSE Most({DropFloor} \cup ends)
<1>1. ends \in SUBSET (0 .. DayMinutes)
  <2>1. \A s \in slots : End(s) \in Nat /\ End(s) <= DayMinutes
    BY SlotType DEF PlanInvariant, PlanTypeOK
  <2> QED BY <2>1, Minutes
<1> HIDE DEF ends
<1>2. {DropFloor} \cup ends \in SUBSET Nat /\ IsFiniteSet({DropFloor} \cup ends)
  <2>1. 0 \in Int /\ DayMinutes \in Int
    BY Minutes
  <2>2. IsFiniteSet(0 .. DayMinutes)
    BY <2>1, FS_Interval
  <2>3. IsFiniteSet(ends)
    BY <1>1, <2>2, FS_Subset
  <2>4. IsFiniteSet({DropFloor} \cup ends)
    BY <2>3, FS_AddElement, FS_Union, FS_Singleton
  <2>5. {DropFloor} \cup ends \in SUBSET Nat
    BY <1>1, Minutes
  <2> QED BY <2>4, <2>5
<1>3. start \in Nat
  <2>1. Most({DropFloor} \cup ends) \in {DropFloor} \cup ends
    BY <1>2, MostNumber
  <2>2. Most({DropFloor} \cup ends) \in Nat
    BY <1>2, <2>1
  <2> QED BY <2>2, Minutes
<1>4. PlanSet(u, Least({start, DropTo}), Default)
  BY DEF DropOnDay, ends, start
<1> HIDE DEF start
<1>5. Least({start, DropTo}) \in Nat
  BY <1>3, Minutes, LeastOfTwo
<1> QED BY <1>4, <1>5

\* What a step leaves: a plan, the tasks the window knows, and an offer.
Leaves(plan, live, o) ==
  /\ slots' = plan /\ SoundPlan(plan)
  /\ known' = live /\ live \subseteq Uids
  /\ day' \in PlanDays /\ today' \in PlanDays
  /\ offer' = o /\ (o = Nothing \/ OfferSound(o))

LEMMA PlanSetLeaves ==
  ASSUME PlanInvariant, NEW u \in Uids, NEW start \in Nat, NEW duration \in Nat,
         PlanSet(u, start, duration)
  PROVE  /\ \E plan, live, o : Leaves(plan, live, o)
         /\ \A s \in slots : s.uid \in known => \E t \in slots' : t.uid = s.uid
<1> DEFINE next == Place(slots, u, PlanDay, start, duration)
<1>1. /\ slots' \in {next, Rendered(next, known)} /\ SoundPlan(next)
      /\ offer' \in {offer, Undoable(u, PlanDay)} /\ OfferSound(Undoable(u, PlanDay))
      /\ known' = known /\ day' = day /\ today' = today
  BY PlanSetIs
<1>2. PICK plan : slots' = plan /\ plan \in {next, Rendered(next, known)}
  BY <1>1
<1>3. PICK o : offer' = o /\ o \in {offer, Undoable(u, PlanDay)}
  BY <1>1
<1>4. \A s : s.uid \in known => (s \in plan <=> s \in next)
  BY <1>2, RenderedIs
<1>5. SoundPlan(plan)
  BY <1>1, <1>2, RenderedIs
<1>6. o = Nothing \/ OfferSound(o)
  BY <1>1, <1>3 DEF PlanInvariant
<1>7. Leaves(plan, known, o)
  BY <1>1, <1>2, <1>3, <1>5, <1>6 DEF Leaves, PlanInvariant, PlanTypeOK
<1>8. ASSUME NEW s \in slots, s.uid \in known PROVE \E t \in plan : t.uid = s.uid
  <2>1. SoundPlan(slots) /\ PlanDay \in PlanDays
    BY PlanDayType DEF PlanInvariant, PlanTypeOK, SoundPlan
  <2>2. PICK x \in next : /\ x.uid = u
                          /\ \A t : t \in next <=> (t \in slots /\ ~(t.uid = u /\ t.date = PlanDay)) \/ t = x
    BY <2>1, PlaceIs
  <2>3. \E t \in next : t.uid = s.uid
    BY <2>2
  <2> QED BY <1>4, <1>8, <2>3
<1> QED BY <1>2, <1>7, <1>8

LEMMA CarryTargetIs ==
  ASSUME PlanTypeOK
  PROVE  CarryTarget \in Nat /\ CarryTarget # day
<1>1. day \in Nat /\ today \in Nat
  BY DEF PlanTypeOK, PlanDays
<1>2. CarryTarget = IF day + 1 <= today THEN today ELSE day + 1
  BY <1>1, MostOfTwo DEF CarryTarget
<1> QED BY <1>1, <1>2

LEMMA PlanCarryLeaves ==
  ASSUME PlanInvariant, PlanCarry
  PROVE  /\ \E plan, live, o : Leaves(plan, live, o)
         /\ \A s \in slots : s.uid \in known => \E t \in slots' : t.uid = s.uid
<1> DEFINE to == CarryTarget
           next == CarryForward(slots, day, to)
           o == [kind |-> "carry", from |-> day, to |-> to, moved |-> Moving(slots, day),
                 created |-> {s.uid : s \in Created(slots, day, to)}, before |-> slots]
<1>1. /\ slots' = Rendered(next, known) /\ offer' = o /\ to \in PlanDays
      /\ known' = known /\ day' = day /\ today' = today
  BY DEF PlanCarry
<1>2. SoundPlan(slots) /\ day \in PlanDays /\ to # day /\ PlanTypeOK
  BY CarryTargetIs DEF PlanInvariant, PlanTypeOK, SoundPlan
<1>3. SoundPlan(next) /\ \A s \in slots : \E t \in next : t.uid = s.uid
  <2> HIDE DEF to
  <2> QED BY <1>1, <1>2, CarrySound
<1>4. SoundPlan(Rendered(next, known)) /\ \A s : s.uid \in known => (s \in Rendered(next, known) <=> s \in next)
  BY <1>3, RenderedIs
<1>5. OfferSound(o)
  <2>1. CarryOf(o, slots)
    <3>1. \A u : u \in o.created <=> \E m \in o.moved : m.uid = u /\ SlotOf(slots, u, o.to) = Nothing
      BY DEF Created
    <3> QED BY <1>1, <1>2, <3>1 DEF CarryOf, Moving
  <2> QED BY <1>2, <2>1 DEF OfferSound
<1> HIDE DEF next, o, to
<1>6. Leaves(Rendered(next, known), known, o)
  BY <1>1, <1>2, <1>4, <1>5 DEF Leaves, PlanTypeOK
<1>7. \A s \in slots : s.uid \in known => \E t \in Rendered(next, known) : t.uid = s.uid
  BY <1>3, <1>4
<1> QED BY <1>1, <1>6, <1>7

\* What the toast's button makes of the plan.
UndonePuts ==
  /\ SoundPlan(Undone)
  /\ \A u \in known, d \in PlanDays :
       SlotOf(Undone, u, d) = SlotOf(IF <<u, d>> \in Touched THEN offer.before ELSE slots, u, d)
  /\ \A s \in slots : (\E t \in Undone : t.uid = s.uid) \/ (offer.kind = "slot" /\ offer.uid = s.uid)

LEMMA UndoneCarry ==
  ASSUME PlanInvariant, offer # Nothing, offer.kind = "carry"
  PROVE  UndonePuts
<1> DEFINE before == offer.before
<1>1. SoundPlan(slots) /\ SoundPlan(before) /\ CarryOf(offer, before) /\ known \subseteq Uids
  BY DEF PlanInvariant, PlanTypeOK, SoundPlan, OfferSound
<1> HIDE DEF before
<1>2. Undone = Uncarry(slots, offer)
  BY DEF Undone
<1>3. /\ SoundPlan(Undone) /\ \A s \in slots : \E t \in Undone : t.uid = s.uid
      /\ \A s : s \in Undone <=>
           \/ s \in offer.moved
           \/ /\ s \in slots
              /\ ~(s.date = offer.to /\ s.uid \in offer.created)
              /\ ~(s.date = offer.from /\ \E m \in offer.moved : m.uid = s.uid)
  BY <1>1, <1>2, UncarrySound
<1>4. ASSUME NEW u \in known, NEW d \in PlanDays
      PROVE  SlotOf(Undone, u, d) = SlotOf(IF <<u, d>> \in Touched THEN offer.before ELSE slots, u, d)
  <2>1. <<u, d>> \in Touched <=>
          \E m \in offer.moved : /\ m.uid = u
                                 /\ d = offer.from \/ (d = offer.to /\ SlotOf(before, u, d) = Nothing)
    <3>1. <<u, d>> \in Uids \X PlanDays /\ <<u, d>>[1] = u /\ <<u, d>>[2] = d
      BY <1>1
    <3> QED BY <3>1 DEF Touched, before
  <2>2. CASE \E m \in offer.moved : m.uid = u /\ d = offer.from
    <3>1. PICK m \in offer.moved : m.uid = u /\ d = offer.from
      BY <2>2
    <3>2. m \in before /\ m.date = d
      BY <1>1, <3>1 DEF CarryOf
    <3>3. SlotOf(before, u, d) = m
      BY <1>1, <3>1, <3>2, SlotOfIs
    <3>4. m \in Undone
      BY <1>3
    <3>5. SlotOf(Undone, u, d) = m
      BY <1>3, <3>1, <3>2, <3>4, SlotOfIs
    <3> QED BY <2>1, <3>1, <3>3, <3>5 DEF before
  <2>3. CASE d # offer.from /\ <<u, d>> \in Touched
    <3>1. PICK m \in offer.moved : m.uid = u /\ d = offer.to /\ SlotOf(before, u, d) = Nothing
      BY <2>1, <2>3
    <3>2. u \in offer.created
      BY <1>1, <3>1 DEF CarryOf
    <3>3. ~\E s \in Undone : s.uid = u /\ s.date = d
      BY <1>1, <1>3, <3>1, <3>2 DEF CarryOf
    <3>4. SlotOf(Undone, u, d) = Nothing
      BY <1>3, <3>3, SlotOfIs
    <3> QED BY <2>3, <3>1, <3>4 DEF before
  <2>4. CASE <<u, d>> \notin Touched
    <3>1. \A s : s.uid = u /\ s.date = d => (s \in Undone <=> s \in slots)
      <4> SUFFICES ASSUME NEW s, s.uid = u, s.date = d PROVE s \in Undone <=> s \in slots
        OBVIOUS
      <4>1. ~(d = offer.from /\ \E m \in offer.moved : m.uid = u)
        BY <2>1, <2>4
      <4>2. s \notin offer.moved
        BY <1>1, <4>1 DEF CarryOf
      <4>3. ~(d = offer.to /\ u \in offer.created)
        <5>1. ASSUME d = offer.to, u \in offer.created PROVE FALSE
          <6>1. PICK m \in offer.moved : m.uid = u /\ SlotOf(before, u, offer.to) = Nothing
            BY <1>1, <5>1 DEF CarryOf
          <6> QED BY <2>1, <2>4, <5>1, <6>1
        <5> QED BY <5>1
      <4> QED BY <1>3, <4>1, <4>2, <4>3
    <3> HIDE DEF Undone
    <3>2. SlotOf(Undone, u, d) = SlotOf(slots, u, d)
      BY <3>1, SlotOfSame
    <3> QED BY <2>4, <3>2
  <2>5. CASE <<u, d>> \in Touched /\ d = offer.from
    <3>1. \E m \in offer.moved : m.uid = u /\ d = offer.from
      BY <2>1, <2>5
    <3> QED BY <2>2, <3>1
  <2> QED BY <2>3, <2>4, <2>5
<1> QED BY <1>3, <1>4 DEF UndonePuts

LEMMA UndoneSlot ==
  ASSUME PlanInvariant, offer # Nothing, offer.kind = "slot"
  PROVE  UndonePuts
<1> DEFINE before == offer.before
           v == offer.uid
           e == offer.date
<1>1. /\ SoundPlan(slots) /\ SoundPlan(before) /\ known \subseteq Uids
      /\ v \in Uids /\ e \in PlanDays /\ offer.prior = SlotOf(before, v, e)
  BY DEF PlanInvariant, PlanTypeOK, SoundPlan, OfferSound
<1>2. ASSUME NEW u \in known, NEW d \in PlanDays PROVE <<u, d>> \in Touched <=> u = v /\ d = e
  BY <1>1 DEF Touched
<1>3. CASE v \notin known
  <2>1. Undone = slots
    BY <1>3 DEF Undone
  <2> QED BY <1>1, <1>2, <1>3, <2>1 DEF UndonePuts
<1>4. CASE v \in known /\ offer.prior = Nothing
  <2>1. Undone = Unplace(slots, v, e)
    BY <1>4 DEF Undone
  <2> HIDE DEF before, v, e
  <2>2. \A s : s \in Undone <=> s \in slots /\ ~(s.uid = v /\ s.date = e)
    BY <2>1 DEF Unplace
  <2>3. SoundPlan(Undone)
    BY <1>1, <2>2, SubPlan
  <2>4. ASSUME NEW u \in known, NEW d \in PlanDays
        PROVE  SlotOf(Undone, u, d) = SlotOf(IF <<u, d>> \in Touched THEN offer.before ELSE slots, u, d)
    <3>1. CASE u = v /\ d = e
      <4>1. SlotOf(Undone, u, d) = Nothing
        BY <2>2, <2>3, <3>1, SlotOfIs
      <4>2. SlotOf(before, u, d) = Nothing
        BY <1>1, <1>4, <3>1
      <4> QED BY <1>2, <3>1, <4>1, <4>2 DEF before
    <3>2. CASE ~(u = v /\ d = e)
      <4>1. \A s : s.uid = u /\ s.date = d => (s \in Undone <=> s \in slots)
        BY <2>2, <3>2
      <4>2. SlotOf(Undone, u, d) = SlotOf(slots, u, d)
        BY <4>1, SlotOfSame
      <4> QED BY <1>2, <3>2, <4>2
    <3> QED BY <3>1, <3>2
  <2>5. \A s \in slots : (\E t \in Undone : t.uid = s.uid) \/ v = s.uid
    BY <2>2
  <2> QED BY <2>3, <2>4, <2>5 DEF UndonePuts, v
<1>5. CASE v \in known /\ offer.prior # Nothing
  <2> DEFINE p == offer.prior
  <2>1. Undone = Place(slots, v, e, p.start, p.duration)
    BY <1>5 DEF Undone
  <2>2. p \in before /\ p.uid = v /\ p.date = e
    <3> HIDE DEF before, v, e
    <3> QED BY <1>1, <1>5, SlotOfIs
  <2>3. p \in PlanSlot
    BY <1>1, <2>2 DEF SoundPlan
  <2> HIDE DEF before, v, e, p
  <2>4. p.start \in Nat /\ p.duration \in Nat
    BY <2>3, SlotType
  <2>5. PICK s \in Undone : /\ s.uid = v /\ s.date = e
                            /\ \A t : t \in Undone <=> (t \in slots /\ ~(t.uid = v /\ t.date = e)) \/ t = s
                            /\ \A t \in PlanSlot : t.uid = v /\ t.date = e /\ t.start = p.start
                                                     /\ t.duration = p.duration => s = t
    BY <1>1, <2>1, <2>4, PlaceIs
  <2>6. SoundPlan(Undone)
    BY <1>1, <2>1, <2>4, PlaceIs
  <2>7. s = p
    BY <2>2, <2>3, <2>5
  <2>8. ASSUME NEW u \in known, NEW d \in PlanDays
        PROVE  SlotOf(Undone, u, d) = SlotOf(IF <<u, d>> \in Touched THEN offer.before ELSE slots, u, d)
    <3>1. CASE u = v /\ d = e
      <4>1. SlotOf(Undone, u, d) = p
        BY <2>5, <2>6, <2>7, <3>1, SlotOfIs
      <4>2. SlotOf(before, u, d) = p
        BY <1>1, <3>1 DEF p
      <4> QED BY <1>2, <3>1, <4>1, <4>2 DEF before
    <3>2. CASE ~(u = v /\ d = e)
      <4>1. \A t : t.uid = u /\ t.date = d => (t \in Undone <=> t \in slots)
        BY <2>5, <3>2
      <4>2. SlotOf(Undone, u, d) = SlotOf(slots, u, d)
        BY <4>1, SlotOfSame
      <4> QED BY <1>2, <3>2, <4>2
    <3> QED BY <3>1, <3>2
  <2>9. \A t \in slots : (\E x \in Undone : x.uid = t.uid) \/ v = t.uid
    BY <2>5
  <2> QED BY <2>6, <2>8, <2>9 DEF UndonePuts, v
<1> QED BY <1>3, <1>4, <1>5

LEMMA UndonePutsBack ==
  ASSUME PlanInvariant, offer # Nothing
  PROVE  UndonePuts
<1>1. offer.kind \in {"slot", "carry"}
  BY DEF PlanInvariant, OfferSound
<1> QED BY <1>1, UndoneCarry, UndoneSlot

\* One step of the plan, whichever it is.
LEMMA PlanNextLeaves ==
  ASSUME PlanInvariant, PlanNext
  PROVE  /\ \E plan, live, o : Leaves(plan, live, o)
         /\ \A u \in known \cap known' :
              (\E s \in slots : s.uid = u) /\ ~(\E s \in slots' : s.uid = u)
                => PlanUnplace(u) \/ (PlanUndo /\ offer.kind = "slot" /\ offer.uid = u)
<1>0. /\ SoundPlan(slots) /\ known \subseteq Uids /\ day \in PlanDays /\ today \in PlanDays
      /\ offer = Nothing \/ OfferSound(offer)
  BY DEF PlanInvariant, PlanTypeOK, SoundPlan
<1>1. ASSUME NEW u \in Uids, NEW at \in Drags, DragTo(u, at)
      PROVE  \E start \in Nat, duration \in Nat : PlanSet(u, start, duration)
  BY <1>1, MinutesAssumption DEF DragTo
<1>2. ASSUME NEW u \in Uids, NEW now \in Clocks, KeyPlace(u, now)
      PROVE  \/ offer' = Nothing /\ UNCHANGED <<slots, known, loaded, popover, viewing, day, today>>
             \/ \E start \in Nat, duration \in Nat : PlanSet(u, start, duration)
  BY <1>2, KeyStart, Minutes
<1>3. ASSUME NEW u \in Uids, DropOnDay(u)
      PROVE  \E start \in Nat, duration \in Nat : PlanSet(u, start, duration)
  BY <1>3, DropStart, Minutes
<1>4. ASSUME NEW u \in Uids, NEW start \in Nat, NEW duration \in Nat, PlanSet(u, start, duration)
      PROVE  /\ \E plan, live, o : Leaves(plan, live, o)
             /\ \A s \in slots : s.uid \in known => \E t \in slots' : t.uid = s.uid
  BY <1>4, PlanSetLeaves
<1>5. ASSUME NEW u \in Uids, NEW delta \in {-Snap, Snap}, PlanNudge(u, delta)
      PROVE  /\ \E plan, live, o : Leaves(plan, live, o)
             /\ \A s \in slots : s.uid \in known => \E t \in slots' : t.uid = s.uid
  <2> DEFINE s == SlotOf(slots, u, day)
             start == SnapTo(s.start + delta)
             next == Place(slots, u, day, start, s.duration)
  <2>1. /\ s # Nothing /\ slots' = Rendered(next, known)
        /\ known' = known /\ day' = day /\ today' = today /\ offer' = offer
    BY <1>5 DEF PlanNudge
  <2>2. s \in PlanSlot
    <3>1. s \in slots
      BY <1>0, <2>1, SlotOfIs
    <3> QED BY <1>0, <3>1 DEF SoundPlan
  <2> HIDE DEF s
  <2>3. start \in Nat /\ s.duration \in Nat
    <3>1. s.start + delta \in Int
      BY <2>2, SlotType, Minutes
    <3> QED BY <2>2, <3>1, SlotType, SnapType
  <2> HIDE DEF start
  <2>4. /\ SoundPlan(next)
        /\ \E x \in next : /\ x.uid = u
                           /\ \A t : t \in next <=> (t \in slots /\ ~(t.uid = u /\ t.date = day)) \/ t = x
    BY <1>0, <2>3, PlaceIs
  <2> HIDE DEF next
  <2>5. /\ SoundPlan(Rendered(next, known))
        /\ \A x : x.uid \in known => (x \in Rendered(next, known) <=> x \in next)
    BY <2>4, RenderedIs
  <2>6. Leaves(Rendered(next, known), known, offer)
    BY <1>0, <2>1, <2>5 DEF Leaves
  <2>7. \A x \in slots : \E t \in next : t.uid = x.uid
    BY <2>4
  <2>8. \A x \in slots : x.uid \in known => \E t \in slots' : t.uid = x.uid
    BY <2>1, <2>5, <2>7
  <2> QED BY <2>6, <2>8
<1>6. ASSUME NEW u \in Uids, PlanUnplace(u)
      PROVE  /\ \E plan, live, o : Leaves(plan, live, o)
             /\ \A s \in slots : s.uid \in known => s.uid = u \/ \E t \in slots' : t.uid = s.uid
  <2> DEFINE next == Unplace(slots, u, day)
  <2>1. /\ slots' = Rendered(next, known) /\ offer' = Undoable(u, day)
        /\ known' = known /\ day' = day /\ today' = today
    BY <1>6 DEF PlanUnplace
  <2>2. \A s : s \in next <=> s \in slots /\ ~(s.uid = u /\ s.date = day)
    BY DEF Unplace
  <2>3. SoundPlan(next)
    <3>1. next \subseteq slots
      BY <2>2
    <3> QED BY <1>0, <3>1, SubPlan
  <2> HIDE DEF next
  <2>4. /\ SoundPlan(Rendered(next, known))
        /\ \A x : x.uid \in known => (x \in Rendered(next, known) <=> x \in next)
    BY <2>3, RenderedIs
  <2>5. OfferSound(Undoable(u, day))
    BY <1>0 DEF OfferSound, Undoable
  <2>6. Leaves(Rendered(next, known), known, Undoable(u, day))
    BY <1>0, <2>1, <2>4, <2>5 DEF Leaves
  <2>7. \A x \in slots : x.uid \in known => x.uid = u \/ \E t \in slots' : t.uid = x.uid
    BY <2>1, <2>2, <2>4
  <2> QED BY <2>6, <2>7
<1>7. ASSUME PlanUndo
      PROVE  /\ \E plan, live, o : Leaves(plan, live, o)
             /\ \A s \in slots : s.uid \in known =>
                  (offer.kind = "slot" /\ offer.uid = s.uid) \/ \E t \in slots' : t.uid = s.uid
  <2>1. /\ offer # Nothing /\ slots' = Rendered(Undone, known) /\ offer' = Nothing
        /\ known' = known /\ day' = day /\ today' = today
    BY <1>7 DEF PlanUndo
  <2>2. UndonePuts
    BY <2>1, UndonePutsBack
  <2>3. SoundPlan(Undone)
    BY <2>2 DEF UndonePuts
  <2>4. /\ SoundPlan(Rendered(Undone, known))
        /\ \A x : x.uid \in known => (x \in Rendered(Undone, known) <=> x \in Undone)
    BY <2>3, RenderedIs
  <2>5. Leaves(Rendered(Undone, known), known, Nothing)
    BY <1>0, <2>1, <2>4 DEF Leaves
  <2>6. \A s \in slots : (\E t \in Undone : t.uid = s.uid) \/ (offer.kind = "slot" /\ offer.uid = s.uid)
    BY <2>2 DEF UndonePuts
  <2>7. \A s \in slots : s.uid \in known =>
          (offer.kind = "slot" /\ offer.uid = s.uid) \/ \E t \in slots' : t.uid = s.uid
    BY <2>1, <2>4, <2>6
  <2> QED BY <2>5, <2>7
<1>8. ASSUME NEW tasks \in OpenSets, PlanLoaded(tasks)
      PROVE  /\ \E plan, live, o : Leaves(plan, live, o)
             /\ \A s \in slots : s.uid \in known' => \E t \in slots' : t.uid = s.uid
  <2>1. /\ known' = tasks /\ offer' = offer /\ day' = day /\ today' = today
        /\ slots' \in {slots, PruneSlots(slots, tasks)}
    BY <1>8 DEF PlanLoaded
  <2>2. PICK plan : slots' = plan /\ plan \in {slots, PruneSlots(slots, tasks)}
    BY <2>1
  <2>3. SoundPlan(plan) /\ \A s : s.uid \in tasks => (s \in plan <=> s \in slots)
    BY <1>0, <2>2, RenderedIs
  <2>4. Leaves(plan, tasks, offer)
    BY <1>0, <2>1, <2>2, <2>3, TasksAssumption DEF Leaves
  <2> QED BY <2>1, <2>2, <2>3, <2>4
<1>9. ASSUME NEW d \in PlanDays, Popover \/ Navigates \/ Midnight \/ Step(d) \/ ToastGoes
      PROVE  /\ \E plan, live, o : Leaves(plan, live, o)
             /\ \A s \in slots : s.uid \in known => \E t \in slots' : t.uid = s.uid
  <2>1. known' = known
    BY <1>9 DEF Popover, Navigates, Midnight, Step, ToastGoes
  <2>2. slots' \in {slots, PruneSlots(slots, known), Rendered(slots, known)}
    BY <1>9 DEF Popover, Navigates, Midnight, Step, ToastGoes
  <2>3. offer' \in {offer, Nothing}
    BY <1>9 DEF Popover, Navigates, Midnight, Step, ToastGoes
  <2>4. day' \in PlanDays
    BY <1>0, <1>9 DEF Popover, Navigates, Midnight, Step, ToastGoes
  <2>5. today' \in PlanDays
    <3>1. CASE Midnight
      BY <1>0, <3>1, Minutes DEF Midnight, PlanDays
    <3>2. CASE ~Midnight
      BY <1>0, <1>9, <3>2 DEF Popover, Navigates, Step, ToastGoes
    <3> QED BY <3>1, <3>2
  <2>6. PICK plan : slots' = plan /\ plan \in {slots, PruneSlots(slots, known), Rendered(slots, known)}
    BY <2>2
  <2>7. PICK o : offer' = o /\ o \in {offer, Nothing}
    BY <2>3
  <2>8. SoundPlan(plan) /\ \A s : s.uid \in known => (s \in plan <=> s \in slots)
    BY <1>0, <2>6, RenderedIs
  <2>9. Leaves(plan, known, o)
    BY <1>0, <2>1, <2>4, <2>5, <2>6, <2>7, <2>8 DEF Leaves
  <2> QED BY <2>6, <2>8, <2>9
<1>10. CASE \E u \in Uids, start \in Nat, duration \in Nat : PlanSet(u, start, duration)
  BY <1>4, <1>10
<1>11. CASE offer' = Nothing /\ UNCHANGED <<slots, known, loaded, popover, viewing, day, today>>
  <2>1. Leaves(slots, known, Nothing)
    BY <1>0, <1>11 DEF Leaves
  <2> QED BY <1>11, <2>1
<1>12. CASE \E u \in Uids, delta \in {-Snap, Snap} : PlanNudge(u, delta)
  BY <1>5, <1>12
<1>13. CASE \E u \in Uids : PlanUnplace(u)
  BY <1>6, <1>13
<1>14. CASE PlanCarry
  BY <1>14, PlanCarryLeaves
<1>15. CASE PlanUndo
  BY <1>7, <1>15
<1>16. CASE \E tasks \in OpenSets : PlanLoaded(tasks)
  BY <1>8, <1>16
<1>17. CASE ToastGoes \/ Popover \/ Navigates \/ Midnight \/ \E d \in PlanDays : Step(d)
  <2>1. PICK d \in PlanDays : Popover \/ Navigates \/ Midnight \/ Step(d) \/ ToastGoes
    BY <1>0, <1>17
  <2> QED BY <1>9, <2>1
<1>18. CASE \E u \in Uids : \E at \in Drags : DragTo(u, at)
  BY <1>1, <1>10, <1>18
<1>19. CASE \E u \in Uids : \E now \in Clocks : KeyPlace(u, now)
  BY <1>2, <1>10, <1>11, <1>19
<1>20. CASE \E u \in Uids : DropOnDay(u)
  BY <1>3, <1>10, <1>20
<1> QED BY <1>12, <1>13, <1>14, <1>15, <1>16, <1>17, <1>18, <1>19, <1>20 DEF PlanNext

\* Plan: the plan keeps its shape, one slot for a task and day, within the day; and the
\* toast on screen offers back what the plan once held.
THEOREM PlanInvariance == PlanSpec => []PlanInvariant
<1>1. PlanInvariant /\ [PlanNext]_planVars => PlanInvariant'
  <2> SUFFICES ASSUME PlanInvariant, [PlanNext]_planVars PROVE PlanInvariant'
    OBVIOUS
  <2>1. CASE PlanNext
    <3>1. PICK plan, live, o : Leaves(plan, live, o)
      BY <2>1, PlanNextLeaves
    <3> QED BY <3>1 DEF Leaves, SoundPlan, PlanInvariant, PlanTypeOK
  <2>2. CASE UNCHANGED planVars
    BY <2>2 DEF planVars, PlanInvariant, PlanTypeOK
  <2> QED BY <2>1, <2>2
<1> QED BY <1>1, PlanInit_Invariant, PTL DEF PlanSpec

THEOREM PlanTypes == PlanSpec => []PlanTypeOK
<1>1. PlanInvariant => PlanTypeOK
  BY DEF PlanInvariant
<1> QED BY <1>1, PlanInvariance, PTL

\* StaysPlanned: a task that stays open leaves the plan only when the user takes it off.
THEOREM PlannedStays == PlanSpec => StaysPlanned
<1> DEFINE A == \A u \in known \cap known' :
       (\E s \in slots : s.uid = u) /\ ~(\E s \in slots' : s.uid = u)
         => PlanUnplace(u) \/ (PlanUndo /\ offer.kind = "slot" /\ offer.uid = u)
<1>1. PlanInvariant /\ [PlanNext]_planVars => [A]_planVars
  BY PlanNextLeaves
<1>2. StaysPlanned <=> [][A]_planVars
  BY DEF StaysPlanned
<1> HIDE DEF A
<1> QED BY <1>1, <1>2, PlanInvariance, PTL DEF PlanSpec

\* UndoPutsBack: the toast's button puts back what its change found, and nothing else.
THEOREM UndoRestores == PlanSpec => UndoPutsBack
<1> DEFINE A == PlanUndo => \A u \in known, d \in PlanDays :
       SlotOf(slots', u, d) = SlotOf(IF <<u, d>> \in Touched THEN offer.before ELSE slots, u, d)
<1>1. PlanInvariant /\ [PlanNext]_planVars => [A]_planVars
  <2> SUFFICES ASSUME PlanInvariant, PlanUndo, NEW u \in known, NEW d \in PlanDays
               PROVE  SlotOf(slots', u, d)
                        = SlotOf(IF <<u, d>> \in Touched THEN offer.before ELSE slots, u, d)
    OBVIOUS
  <2>1. offer # Nothing /\ slots' = Rendered(Undone, known)
    BY DEF PlanUndo
  <2>2. UndonePuts
    BY <2>1, UndonePutsBack
  <2>3. \A s : s.uid = u /\ s.date = d => (s \in Rendered(Undone, known) <=> s \in Undone)
    BY RenderedIs
  <2>4. SlotOf(Rendered(Undone, known), u, d) = SlotOf(Undone, u, d)
    BY <2>3, SlotOfSame
  <2>5. SlotOf(slots', u, d) = SlotOf(Undone, u, d)
    BY <2>1, <2>4
  <2> QED BY <2>2, <2>5 DEF UndonePuts
<1>2. UndoPutsBack <=> [][A]_planVars
  BY DEF UndoPutsBack
<1> HIDE DEF A
<1> QED BY <1>1, <1>2, PlanInvariance, PTL DEF PlanSpec

-----------------------------------------------------------------------------
(* LaidOut: the start a key gives a task. *)

LEMMA FirstRoom ==
  ASSUME SoundPlan(slots), NEW d, NEW from \in 0 .. DayMinutes - 1, from % Snap = 0
  PROVE  LET roomy == {m \in 0 .. DayMinutes : m % Snap = 0 /\ Room(d, m, Default)}
         IN FirstFree(slots, d, from, Default) =
              IF \E m \in roomy : m >= from THEN Least({m \in roomy : m >= from}) ELSE from
<1> DEFINE busy == Busy(slots, d)
           r == Walk(busy, Default)[busy][from]
           roomy == {m \in 0 .. DayMinutes : m % Snap = 0 /\ Room(d, m, Default)}
           onward == {m \in roomy : m >= from}
<1>1. from \in Nat /\ from <= DayMinutes /\ from \in Ahead
  BY Minutes DEF Ahead
<1>2. r \in Nat /\ FirstClear(busy, from, r, Default)
  <2>1. BusyDay(busy)
    BY BusyIs
  <2> HIDE DEF busy
  <2> QED BY <1>1, <2>1, WalkFinds, Minutes
<1>3. FirstFree(slots, d, from, Default) = IF r + Default <= DayMinutes THEN r ELSE from
  BY DEF FirstFree
<1> HIDE DEF r
<1>4. ASSUME NEW m \in Nat
      PROVE  Room(d, m, Default) <=> m + Default <= DayMinutes /\ Clear(busy, m, Default)
  <2>1. \A s \in slots : s.date = d =>
          (Overlap(s, [start |-> m, duration |-> Default])
             <=> Overlap([start |-> s.start, duration |-> s.duration], [start |-> m, duration |-> Default]))
    BY DEF Overlap, End
  <2>2. Clear(busy, m, Default)
          <=> \A s \in slots : s.date = d => ~Overlap(s, [start |-> m, duration |-> Default])
    BY <2>1 DEF Clear, Busy
  <2> QED BY <2>2 DEF Room
<1> HIDE DEF busy
<1>5. \A m \in roomy : m >= from => r <= m
  <2> SUFFICES ASSUME NEW m \in roomy, m >= from, ~(r <= m) PROVE FALSE
    OBVIOUS
  <2>1. m \in Nat /\ m % Snap = 0 /\ Clear(busy, m, Default)
    BY <1>4
  <2>2. from <= m /\ m < r
    BY <1>1, <1>2, <2>1
  <2> HIDE DEF roomy
  <2> QED BY <1>2, <2>1, <2>2 DEF FirstClear
<1> DEFINE first == IF \E m \in roomy : m >= from THEN Least(onward) ELSE from
<1>6. ASSUME r + Default <= DayMinutes PROVE FirstFree(slots, d, from, Default) = first
  <2>1. r \in 0 .. DayMinutes /\ r % Snap = 0 /\ from <= r
    BY <1>2, <1>6, Minutes DEF FirstClear
  <2>2. Room(d, r, Default)
    BY <1>2, <1>4, <1>6 DEF FirstClear
  <2>3. r \in onward
    BY <1>1, <1>2, <2>1, <2>2
  <2>4. onward \in SUBSET Nat
    OBVIOUS
  <2>5. Least(onward) \in onward /\ \A x \in onward : Least(onward) <= x
    <3> HIDE DEF onward, roomy
    <3> QED BY <2>3, <2>4, LeastNumber
  <2>6. r <= Least(onward)
    BY <1>5, <2>5
  <2>7. Least(onward) <= r /\ Least(onward) \in Nat
    <3> HIDE DEF onward, roomy
    <3> QED BY <2>3, <2>4, <2>5
  <2>8. Least(onward) = r
    <3> HIDE DEF onward, roomy
    <3> QED BY <1>2, <2>6, <2>7
  <2>9. \E m \in roomy : m >= from
    BY <2>3
  <2> HIDE DEF roomy, onward
  <2> QED BY <1>3, <1>6, <2>8, <2>9
<1>7. ASSUME ~(r + Default <= DayMinutes) PROVE FirstFree(slots, d, from, Default) = first
  <2>1. ~\E m \in roomy : m >= from
    <3> SUFFICES ASSUME NEW m \in roomy, m >= from PROVE FALSE
      OBVIOUS
    <3>1. m \in Nat /\ m + Default <= DayMinutes
      BY <1>4
    <3>2. r <= m
      BY <1>5
    <3> HIDE DEF roomy
    <3> QED BY <1>2, <1>7, <3>1, <3>2, Minutes
  <2> HIDE DEF roomy, onward
  <2> QED BY <1>3, <1>7, <2>1
<1>8. FirstFree(slots, d, from, Default) = first
  <2> HIDE DEF first
  <2> QED BY <1>6, <1>7
<1> QED BY <1>8

-----------------------------------------------------------------------------
(* LaidOut: the columns of the blocks of a day. *)

\* The blocks of a day are finitely many, each of a task of its own, and take time.
DayBlocks(blocks) ==
  /\ IsFiniteSet(blocks) /\ \A x, y \in blocks : x.uid = y.uid => x = y
  /\ \A b \in blocks : b.start \in Nat /\ b.duration \in Nat /\ b.uid \in Nat /\ b.duration > 0

\* The order of blocks is total, and every set of them has a first.
LEMMA BeforeTotal ==
  ASSUME NEW blocks, DayBlocks(blocks), NEW a \in blocks, NEW b \in blocks, a # b
  PROVE  Before(a, b) \/ Before(b, a)
<1>1. /\ a.start \in Nat /\ a.duration \in Nat /\ a.uid \in Nat
      /\ b.start \in Nat /\ b.duration \in Nat /\ b.uid \in Nat /\ a.uid # b.uid
  BY DEF DayBlocks
<1> QED BY <1>1 DEF Before

LEMMA FirstBlock ==
  ASSUME NEW blocks, DayBlocks(blocks), NEW S \in SUBSET blocks, S # {}
  PROVE  \E b \in S : \A o \in S : ~Before(o, b)
<1>0. \A b \in S : b.start \in Nat /\ b.duration \in Nat /\ b.uid \in Nat
  BY DEF DayBlocks
<1> DEFINE starts == {s.start : s \in S}
<1>1. starts \in SUBSET Nat /\ starts # {}
  BY <1>0
<1>2. PICK a \in starts : \A x \in starts : a <= x
  <2> HIDE DEF starts
  <2> QED BY <1>1, LeastNumber
<1> DEFINE lengths == {s.duration : s \in {s \in S : s.start = a}}
<1>3. lengths \in SUBSET Nat /\ lengths # {}
  BY <1>0
<1>4. PICK l \in lengths : \A x \in lengths : l <= x
  <2> HIDE DEF lengths
  <2> QED BY <1>3, LeastNumber
<1> DEFINE names == {s.uid : s \in {s \in S : s.start = a /\ s.duration = l}}
<1>5. names \in SUBSET Nat /\ names # {}
  BY <1>0, <1>4
<1>6. PICK n \in names : \A x \in names : n <= x
  <2> HIDE DEF names
  <2> QED BY <1>5, LeastNumber
<1>7. PICK b \in S : b.start = a /\ b.duration = l /\ b.uid = n
  BY <1>6
<1>8. a \in Nat /\ l \in Nat /\ n \in Nat
  BY <1>0, <1>7
<1>9. ASSUME NEW o \in S, Before(o, b) PROVE FALSE
  <2>1. a <= o.start /\ o.start \in Nat /\ o.duration \in Nat /\ o.uid \in Nat
    BY <1>0, <1>2
  <2>2. CASE o.start = a /\ o.duration = l
    <3>1. n <= o.uid
      BY <1>6, <2>2
    <3> QED BY <1>7, <1>8, <1>9, <2>1, <2>2, <3>1 DEF Before
  <2>3. CASE o.start = a /\ o.duration # l
    <3>1. l <= o.duration
      BY <1>4, <2>3
    <3> QED BY <1>7, <1>8, <1>9, <2>1, <2>3, <3>1 DEF Before
  <2>4. CASE o.start # a
    BY <1>7, <1>8, <1>9, <2>1, <2>4 DEF Before
  <2> QED BY <2>2, <2>3, <2>4
<1> QED BY <1>9

\* The columns that earlier blocks beside b hold.
Beside(blocks, col, b) == {col[o] : o \in {o \in blocks : Before(o, b) /\ Overlap(o, b)}}

Width(blocks) == 0 .. Cardinality(blocks)

\* Fewer blocks than columns: one is left.
LEMMA ColumnLeft ==
  ASSUME NEW blocks, DayBlocks(blocks), NEW col, NEW b
  PROVE  LET free == Width(blocks) \ Beside(blocks, col, b)
         IN free # {} /\ free \in SUBSET Nat
<1> DEFINE n == Cardinality(blocks)
<1>1. n \in Nat
  BY FS_CardinalityType DEF DayBlocks
<1>2. Width(blocks) \in SUBSET Nat
  BY <1>1 DEF Width
<1>3. ASSUME Width(blocks) \subseteq Beside(blocks, col, b) PROVE FALSE
  <2>1. \A c \in Width(blocks) : \E o \in blocks : col[o] = c
    BY <1>3 DEF Beside
  <2> DEFINE pick == [c \in Width(blocks) |-> CHOOSE o \in blocks : col[o] = c]
  <2>2. \A c \in Width(blocks) : pick[c] \in blocks /\ col[pick[c]] = c
    BY <2>1
  <2>3. pick \in [Width(blocks) -> blocks]
    BY <2>2
  <2>4. pick \in Injection(Width(blocks), blocks)
    <3>1. \A c, e \in Width(blocks) : pick[c] = pick[e] => c = e
      <4> HIDE DEF pick
      <4> QED BY <2>2
    <3>2. DOMAIN pick = Width(blocks)
      OBVIOUS
    <3> HIDE DEF pick
    <3> QED BY <2>3, <3>1, <3>2 DEF Injection, IsInjective
  <2>5. Cardinality(Width(blocks)) <= n
    <3> HIDE DEF pick
    <3> QED BY <2>4, FS_Injection DEF DayBlocks
  <2>6. Cardinality(Width(blocks)) = n + 1
    <3> HIDE DEF n
    <3>1. 0 \in Int /\ n \in Int /\ ~(0 > n)
      BY <1>1
    <3>2. Cardinality(0 .. n) = n - 0 + 1
      BY <3>1, FS_Interval
    <3> QED BY <1>1, <3>2 DEF Width, n
  <2> HIDE DEF n
  <2> QED BY <1>1, <2>5, <2>6
<1> QED BY <1>2, <1>3

ColumnStep(blocks, col, b) == Least(Width(blocks) \ Beside(blocks, col, b))

LEMMA ColumnOfIs ==
  ASSUME NEW blocks
  PROVE  ColumnOf(blocks) = CHOOSE col : col = [b \in blocks |-> ColumnStep(blocks, col, b)]
BY DEF ColumnOf, ColumnStep, Beside, Width

LEMMA BesideSame ==
  ASSUME NEW blocks, NEW col, NEW other, NEW b,
         \A o \in blocks : Before(o, b) => col[o] = other[o]
  PROVE  ColumnStep(blocks, col, b) = ColumnStep(blocks, other, b)
<1>1. Beside(blocks, col, b) = Beside(blocks, other, b)
  BY DEF Beside
<1> QED BY <1>1 DEF ColumnStep

\* The columns are defined: a largest set of blocks, with all before each, for which they
\* are has every block.
LEMMA ColumnsExist ==
  ASSUME NEW blocks, DayBlocks(blocks)
  PROVE  \E col : col = [b \in blocks |-> ColumnStep(blocks, col, b)]
<1> DEFINE Good(F) == /\ \A b \in F, o \in blocks : Before(o, b) => o \in F
                      /\ \E col : \A b \in F : col[b] = ColumnStep(blocks, col, b)
           rest == {blocks \ F : F \in {F \in SUBSET blocks : Good(F)}}
<1>1. rest # {}
  <2>1. Good({})
    OBVIOUS
  <2> QED BY <2>1
<1>2. \A R \in rest : IsFiniteSet(R)
  <2>1. \A R \in rest : R \subseteq blocks
    OBVIOUS
  <2> HIDE DEF rest
  <2> QED BY <2>1, FS_Subset DEF DayBlocks
<1>3. PICK R \in rest : \A Q \in rest : Q \subseteq R => Q = R
  <2> HIDE DEF rest
  <2> QED BY <1>1, <1>2, SmallestSet
<1>4. PICK F \in SUBSET blocks : Good(F) /\ R = blocks \ F
  BY <1>3
<1>5. PICK col : \A b \in F : col[b] = ColumnStep(blocks, col, b)
  BY <1>4
<1>6. ASSUME R # {} PROVE FALSE
  <2>1. PICK b \in R : \A o \in R : ~Before(o, b)
    <3>1. R \in SUBSET blocks
      BY <1>4
    <3> QED BY <1>6, <3>1, FirstBlock
  <2>2. b \in blocks /\ b \notin F
    BY <1>4, <2>1
  <2> DEFINE G == F \cup {b}
             wider == [x \in blocks |-> IF x = b THEN ColumnStep(blocks, col, b) ELSE col[x]]
  <2>3. \A x \in G, o \in blocks : Before(o, x) => o \in F
    BY <1>4, <2>1
  <2>4. \A o \in F : wider[o] = col[o]
    BY <2>2
  <2>5. wider[b] = ColumnStep(blocks, col, b)
    BY <2>2
  <2> HIDE DEF wider
  <2>6. ASSUME NEW x \in G PROVE wider[x] = ColumnStep(blocks, wider, x)
    <3>1. \A o \in blocks : Before(o, x) => col[o] = wider[o]
      BY <2>3, <2>4
    <3>2. ColumnStep(blocks, col, x) = ColumnStep(blocks, wider, x)
      BY <3>1, BesideSame
    <3>3. wider[x] = ColumnStep(blocks, col, x)
      BY <1>5, <2>4, <2>5
    <3> QED BY <3>2, <3>3
  <2>7. G \in SUBSET blocks /\ Good(G)
    <3>1. G \in SUBSET blocks
      BY <2>2
    <3> HIDE DEF G
    <3>2. \A x \in G, o \in blocks : Before(o, x) => o \in G
      BY <2>3 DEF G
    <3> QED BY <2>6, <3>1, <3>2
  <2>8. blocks \ G \in rest
    BY <2>7
  <2>9. blocks \ G \subseteq R /\ b \in R /\ b \notin blocks \ G
    BY <1>4, <2>1
  <2> HIDE DEF rest, G
  <2> QED BY <1>3, <2>8, <2>9
<1>7. F = blocks
  BY <1>4, <1>6
<1> DEFINE all == [b \in blocks |-> col[b]]
<1>8. \A b \in blocks : all[b] = ColumnStep(blocks, all, b)
  <2> SUFFICES ASSUME NEW b \in blocks PROVE all[b] = ColumnStep(blocks, all, b)
    OBVIOUS
  <2>1. \A o \in blocks : Before(o, b) => col[o] = all[o]
    OBVIOUS
  <2>2. ColumnStep(blocks, col, b) = ColumnStep(blocks, all, b)
    <3> HIDE DEF all
    <3> QED BY <2>1, BesideSame
  <2> QED BY <1>5, <1>7, <2>2
<1>9. all = [b \in blocks |-> ColumnStep(blocks, all, b)]
  <2>1. all = [b \in blocks |-> all[b]]
    OBVIOUS
  <2> HIDE DEF all
  <2> QED BY <1>8, <2>1
<1> HIDE DEF all
<1> QED BY <1>9

\* Each block has a column, which is the leftmost that no earlier block beside it holds.
LEMMA ColumnEquation ==
  ASSUME NEW blocks, DayBlocks(blocks), NEW b \in blocks
  PROVE  LET col == ColumnOf(blocks)
         IN /\ col[b] \in Width(blocks) /\ col[b] \in Nat
            /\ \A o \in blocks : Before(o, b) /\ Overlap(o, b) => col[o] # col[b]
            /\ \A c \in Nat : c < col[b] => \E o \in blocks : Before(o, b) /\ Overlap(o, b) /\ col[o] = c
<1> DEFINE col == ColumnOf(blocks)
           free == Width(blocks) \ Beside(blocks, col, b)
<1>1. col = [x \in blocks |-> ColumnStep(blocks, col, x)]
  BY ColumnsExist, ColumnOfIs
<1> HIDE DEF col
<1>2. col[b] = Least(free)
  <2>1. col[b] = ColumnStep(blocks, col, b)
    BY <1>1
  <2> QED BY <2>1 DEF ColumnStep
<1>3. free # {} /\ free \in SUBSET Nat
  BY ColumnLeft
<1>4. col[b] \in free /\ \A c \in free : col[b] <= c
  <2> HIDE DEF free
  <2> QED BY <1>2, <1>3, LeastNumber
<1>5. col[b] \in Nat /\ col[b] \in Width(blocks)
  BY <1>3, <1>4
<1>6. \A o \in blocks : Before(o, b) /\ Overlap(o, b) => col[o] # col[b]
  BY <1>4 DEF Beside
<1>7. ASSUME NEW c \in Nat, c < col[b]
      PROVE  \E o \in blocks : Before(o, b) /\ Overlap(o, b) /\ col[o] = c
  <2>1. c \in Width(blocks)
    <3>1. Cardinality(blocks) \in Nat
      BY FS_CardinalityType DEF DayBlocks
    <3>2. col[b] <= Cardinality(blocks)
      BY <1>5, <3>1 DEF Width
    <3> QED BY <1>5, <1>7, <3>1, <3>2 DEF Width
  <2>2. c \notin free
    BY <1>4, <1>5, <1>7
  <2>3. c \in Beside(blocks, col, b)
    BY <2>1, <2>2
  <2> QED BY <2>3 DEF Beside
<1> QED BY <1>5, <1>6, <1>7 DEF col

LEMMA OverlapIs ==
  ASSUME NEW blocks, DayBlocks(blocks), NEW a \in blocks, NEW b \in blocks
  PROVE  /\ Overlap(a, b) <=> Overlap(b, a)
         /\ Overlap(a, a)
         /\ Overlap(a, b) <=> a.start < b.start + b.duration /\ b.start < a.start + a.duration
<1>1. a.start \in Nat /\ a.duration \in Nat /\ a.duration > 0
  BY DEF DayBlocks
<1> QED BY <1>1 DEF Overlap, End

\* Blocks that overlap are of one group.
LEMMA GroupIs ==
  ASSUME NEW blocks, DayBlocks(blocks), NEW b \in blocks
  PROVE  /\ Group(blocks, b) \subseteq blocks /\ b \in Group(blocks, b)
         /\ \A o \in Group(blocks, b), x \in blocks : Overlap(o, x) => x \in Group(blocks, b)
         /\ \A o \in blocks : Overlap(o, b) => Group(blocks, o) = Group(blocks, b)
<1>1. Group(blocks, b) \subseteq blocks /\ b \in Group(blocks, b)
  BY DEF Group
<1>2. \A o \in Group(blocks, b), x \in blocks : Overlap(o, x) => x \in Group(blocks, b)
  BY DEF Group
<1>3. ASSUME NEW o \in blocks, Overlap(o, b) PROVE Group(blocks, o) = Group(blocks, b)
  <2> DEFINE Whole(S) == \A x \in S, y \in blocks : Overlap(x, y) => y \in S
  <2>1. Overlap(b, o)
    BY <1>3, OverlapIs
  <2>2. \A S \in SUBSET blocks : Whole(S) => (o \in S <=> b \in S)
    BY <1>3, <2>1
  <2>3. Group(blocks, o) = {x \in blocks : \A S \in SUBSET blocks : (o \in S /\ Whole(S)) => x \in S}
    BY DEF Group
  <2>4. Group(blocks, b) = {x \in blocks : \A S \in SUBSET blocks : (b \in S /\ Whole(S)) => x \in S}
    BY DEF Group
  <2> HIDE DEF Whole
  <2> QED BY <2>2, <2>3, <2>4
<1> QED BY <1>1, <1>2, <1>3

\* Blocks that overlap have columns of their own.
LEMMA ColumnsApart ==
  ASSUME NEW blocks, DayBlocks(blocks), NEW a \in blocks, NEW b \in blocks, a # b, Overlap(a, b)
  PROVE  ColumnOf(blocks)[a] # ColumnOf(blocks)[b]
<1>1. Overlap(b, a)
  BY OverlapIs
<1>2. CASE Before(a, b)
  <2>1. \A o \in blocks : Before(o, b) /\ Overlap(o, b) => ColumnOf(blocks)[o] # ColumnOf(blocks)[b]
    BY ColumnEquation
  <2> QED BY <1>2, <2>1
<1>3. CASE Before(b, a)
  <2>1. \A o \in blocks : Before(o, a) /\ Overlap(o, a) => ColumnOf(blocks)[o] # ColumnOf(blocks)[a]
    BY ColumnEquation
  <2> QED BY <1>1, <1>3, <2>1
<1> QED BY <1>2, <1>3, BeforeTotal

\* The rightmost column of a group: as many blocks share a minute as there are columns.
LEMMA GroupDeep ==
  ASSUME NEW blocks, DayBlocks(blocks), NEW b \in blocks
  PROVE  LET col == ColumnOf(blocks)
             most == Most({col[o] : o \in Group(blocks, b)})
         IN /\ most \in Nat /\ \A o \in Group(blocks, b) : col[o] <= most
            /\ \E o \in Group(blocks, b) :
                 Cardinality({x \in blocks : x.start <= o.start /\ o.start < End(x)}) = 1 + most
<1> DEFINE col == ColumnOf(blocks)
           group == Group(blocks, b)
           columns == {col[o] : o \in group}
           most == Most(columns)
<1>1. /\ group \subseteq blocks /\ b \in group
      /\ \A o \in group, x \in blocks : Overlap(o, x) => x \in group
  BY GroupIs
<1>2. /\ \A x \in blocks : col[x] \in Nat /\ col[x] \in Width(blocks)
      /\ \A x \in blocks : \A c \in Nat : c < col[x] => \E o \in blocks : Before(o, x) /\ Overlap(o, x) /\ col[o] = c
  BY ColumnEquation
<1>3. \A x, y \in blocks : x # y /\ Overlap(x, y) => col[x] # col[y]
  BY ColumnsApart
<1> HIDE DEF col, group
<1>4. columns \in SUBSET Nat /\ columns # {} /\ columns \in SUBSET Width(blocks)
  BY <1>1, <1>2
<1>5. IsFiniteSet(columns)
  <2>1. Cardinality(blocks) \in Nat
    BY FS_CardinalityType DEF DayBlocks
  <2>2. 0 \in Int /\ Cardinality(blocks) \in Int
    BY <2>1
  <2>3. IsFiniteSet(Width(blocks))
    BY <2>2, FS_Interval DEF Width
  <2> HIDE DEF columns
  <2> QED BY <1>4, <2>3, FS_Subset
<1>6. most \in columns /\ \A c \in columns : c <= most
  <2> HIDE DEF columns
  <2> QED BY <1>4, <1>5, MostNumber
<1>7. PICK o \in group : col[o] = most
  BY <1>6
<1>8. most \in Nat /\ \A x \in group : col[x] <= most
  BY <1>4, <1>6
<1> HIDE DEF most, columns
<1> DEFINE deep == {x \in blocks : x.start <= o.start /\ o.start < End(x)}
           at == [x \in deep |-> col[x]]
<1>9. o \in blocks /\ \A x \in blocks : x.start \in Nat /\ x.duration \in Nat /\ x.duration > 0
  BY <1>1, <1>7 DEF DayBlocks
<1>10. \A x \in deep : x \in blocks /\ x.start <= o.start /\ o.start < x.start + x.duration
  BY DEF End
<1>11. \A x, y \in deep : Overlap(x, y)
  <2> SUFFICES ASSUME NEW x \in deep, NEW y \in deep PROVE Overlap(x, y)
    OBVIOUS
  <2>1. x.start < y.start + y.duration /\ y.start < x.start + x.duration
    BY <1>9, <1>10
  <2> QED BY <2>1 DEF Overlap, End
<1>12. o \in deep
  BY <1>9 DEF End
<1>13. \A x \in deep : col[x] \in 0 .. most
  <2> SUFFICES ASSUME NEW x \in deep PROVE col[x] \in 0 .. most
    OBVIOUS
  <2>1. x \in group
    BY <1>1, <1>7, <1>10, <1>11, <1>12
  <2> QED BY <1>1, <1>2, <1>8, <2>1
<1>14. \A c \in 0 .. most : \E x \in deep : col[x] = c
  <2> SUFFICES ASSUME NEW c \in 0 .. most PROVE \E x \in deep : col[x] = c
    OBVIOUS
  <2>1. CASE c = most
    BY <1>7, <1>12, <2>1
  <2>2. CASE c < most
    <3>1. PICK x \in blocks : Before(x, o) /\ Overlap(x, o) /\ col[x] = c
      BY <1>2, <1>7, <1>9, <2>2
    <3>2. x.start <= o.start
      BY <1>9, <3>1 DEF Before
    <3>3. o.start < End(x)
      BY <3>1 DEF Overlap
    <3> QED BY <3>1, <3>2, <3>3
  <2> QED BY <1>8, <2>1, <2>2
<1>15. Cardinality(deep) = Cardinality(0 .. most)
  <2>1. at \in [deep -> 0 .. most]
    BY <1>13
  <2>2. \A x, y \in deep : at[x] = at[y] => x = y
    BY <1>3, <1>10, <1>11
  <2>3. \A c \in 0 .. most : \E x \in deep : at[x] = c
    BY <1>14
  <2>4. DOMAIN at = deep
    OBVIOUS
  <2> HIDE DEF at, deep
  <2>5. at \in Injection(deep, 0 .. most) /\ at \in Surjection(deep, 0 .. most)
    BY <2>1, <2>2, <2>3, <2>4 DEF Injection, Surjection, IsInjective
  <2>6. IsFiniteSet(0 .. most)
    <3>1. 0 \in Int /\ most \in Int
      BY <1>8
    <3> QED BY <3>1, FS_Interval
  <2> QED BY <2>5, <2>6, FS_Injection
<1>16. Cardinality(0 .. most) = 1 + most
  <2>1. 0 \in Int /\ most \in Int /\ ~(0 > most)
    BY <1>8
  <2>2. Cardinality(0 .. most) = most - 0 + 1
    BY <2>1, FS_Interval
  <2> QED BY <1>8, <2>2
<1>17. Cardinality(deep) = 1 + most
  BY <1>15, <1>16
<1>18. \E x \in group : Cardinality({y \in blocks : y.start <= x.start /\ x.start < End(y)}) = 1 + most
  BY <1>7, <1>17
<1> QED BY <1>8, <1>18 DEF most, columns, col, group

LEMMA BlocksAre ==
  ASSUME SoundPlan(slots), NEW d
  PROVE  DayBlocks(Blocks(d))
<1>1. \A b \in Blocks(d) : b \in slots /\ b.date = d
  BY DEF Blocks
<1>2. \A b \in Blocks(d) : b.start \in Nat /\ b.duration \in Nat /\ b.uid \in Uids /\ b.duration > 0
  BY <1>1, SlotType DEF SoundPlan
<1>3. \A x, y \in Blocks(d) : x.uid = y.uid => x = y
  BY <1>1 DEF SoundPlan, OnePerDay
<1> DEFINE name == [b \in Blocks(d) |-> b.uid]
<1>4. name \in [Blocks(d) -> Uids] /\ DOMAIN name = Blocks(d) /\ \A x, y \in Blocks(d) : name[x] = name[y] => x = y
  BY <1>2, <1>3
<1>5. IsFiniteSet(Blocks(d))
  <2> HIDE DEF name
  <2>1. name \in Injection(Blocks(d), Uids)
    BY <1>4 DEF Injection, IsInjective
  <2> QED BY <2>1, FS_Injection, TasksAssumption
<1> QED BY <1>2, <1>3, <1>5, TasksAssumption DEF DayBlocks

\* LaidOut: blocks that overlap stand beside each other in a width they share and none of
\* it is wasted; and a key plans a task at the first minute of the grid with room for it.
THEOREM DayIsLaidOut == PlanSpec => []LaidOut
<1>1. ASSUME PlanInvariant PROVE LaidOut
  <2> DEFINE blocks == Blocks(day)
             at == Layout(blocks)
             col == ColumnOf(blocks)
             Deep(m) == Cardinality({b \in blocks : b.start <= m /\ m < End(b)})
             roomy == {m \in 0 .. DayMinutes : m % Snap = 0 /\ Room(day, m, Default)}
  <2>1. SoundPlan(slots)
    BY <1>1 DEF PlanInvariant, PlanTypeOK, SoundPlan
  <2>2. \A from \in {m \in 0 .. DayMinutes - 1 : m % Snap = 0} :
          FirstFree(slots, day, from, Default) =
            IF \E m \in roomy : m >= from THEN Least({m \in roomy : m >= from}) ELSE from
    BY <2>1, FirstRoom
  <2>3. DayBlocks(blocks)
    BY <2>1, BlocksAre
  <2> HIDE DEF blocks
  <2>4. \A b \in blocks : /\ at[b].col = col[b]
                          /\ at[b].cols = 1 + Most({col[o] : o \in Group(blocks, b)})
    BY DEF Layout
  <2>5. ASSUME NEW b \in blocks
        PROVE  /\ at[b].col < at[b].cols
               /\ \A o \in blocks \ {b} : Overlap(o, b) => at[o].col # at[b].col /\ at[o].cols = at[b].cols
               /\ \E o \in Group(blocks, b) : Deep(o.start) = at[b].cols
    <3> DEFINE most == Most({col[o] : o \in Group(blocks, b)})
    <3>1. most \in Nat /\ \A o \in Group(blocks, b) : col[o] <= most
      BY <2>3, GroupDeep
    <3>2. \E o \in Group(blocks, b) : Deep(o.start) = 1 + most
      BY <2>3, GroupDeep
    <3>3. b \in Group(blocks, b) /\ \A o \in blocks : Overlap(o, b) => Group(blocks, o) = Group(blocks, b)
      BY <2>3, GroupIs
    <3>4. col[b] \in Nat
      BY <2>3, ColumnEquation
    <3>5. at[b].col = col[b] /\ at[b].cols = 1 + most
      BY <2>4
    <3>6. \A o \in blocks \ {b} : Overlap(o, b) => col[o] # col[b]
      BY <2>3, ColumnsApart
    <3>7. \A o \in blocks : Overlap(o, b) => at[o].cols = at[b].cols
      BY <2>4, <3>3
    <3>8. \A o \in blocks : at[o].col = col[o]
      BY <2>4
    <3> HIDE DEF most, at, col, Deep
    <3>9. at[b].col < at[b].cols
      BY <3>1, <3>3, <3>4, <3>5
    <3> QED BY <3>2, <3>5, <3>6, <3>7, <3>8, <3>9
  <2> QED BY <2>2, <2>5 DEF LaidOut, blocks
<1> QED BY <1>1, PlanInvariance, PTL

=============================================================================
