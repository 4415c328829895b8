------------------------------- MODULE Window -------------------------------
(***************************************************************************)
(* The window's copy of the tasks, and what it holds back for Undo         *)
(* (asst-gtk/src/window.rs: reload to settle, check to batch, the messages *)
(* about tasks, and closing).                                              *)
(*                                                                         *)
(* The window is one thread.  It asks asstd over D-Bus and gets answers    *)
(* later, in any order: the open tasks, the completed ones once somebody   *)
(* looked at them, and how its calls went.  A checked task waits a moment, *)
(* a deleted one is hidden while its toast is up; other clients and the    *)
(* sync round change tasks meanwhile, and asstd says so with a signal.     *)
(*                                                                         *)
(* Generations and serials are only compared with the latest, so a load or *)
(* a timer says whether it still is that.  What is shown can be selected   *)
(* at any time.  Views and the editor are left out, and so is a task that  *)
(* moves to another list.                                                  *)
(***************************************************************************)
EXTENDS Integers, Sequences, FiniteSets

CONSTANTS
  Tasks,      \* tasks there are at the start, open
  Repeating,  \* those that repeat
  Later,      \* complete_later: a checked task waits a moment
  Background, \* closing hides the window in the tray
  MaxOthers,  \* bound: changes by others
  MaxUser,    \* bound: things done in the window
  MaxFaults,  \* bound: calls that fail
  MaxEvents   \* bound: all of these together

ASSUME RepeatingAssumption == Repeating \subseteq Tasks
ASSUME OptionsAssumption == Later \in BOOLEAN /\ Background \in BOOLEAN
ASSUME BoundsAssumption == {MaxOthers, MaxUser, MaxFaults, MaxEvents} \subseteq Nat

VARIABLES
  daemon,     \* asstd: task -> its state and its date
  signals,    \* Changed is on its way to the window
  listening,  \* the window gets signals
  open,       \* Window::open: task -> its date, or Absent
  completed,  \* Window::completed: tasks, empty before the first load
  hasDone,    \* Window::completed is Some
  error,      \* the last load failed
  looking,    \* needs_completed: the view shows completed tasks
  loads,      \* Cmd::Loaded and Cmd::CompletedLoaded on their way
  hidden,     \* Window::hidden: deleted, Undo still possible
  selected,   \* Window::selected, of what is hidden: deleted by itself while selected
  completing, \* Window::completing
  timers,     \* the moments of checked tasks
  toasts,     \* Undo toasts of deletes: what each deleted
  calls,      \* complete, delete and reopen on their way, and their answers
  batches,    \* Batch::Complete on their way: what is left of each, nothing if it failed
  offers,     \* toasts that offer to reopen
  up,         \* whether the window is shown, in the tray or gone
  leaving,    \* Msg::Quit, none or some: the deletes each has still to send
  used,       \* how much of each bound is used
  seen,       \* history: task -> the date it was checked at, or Absent
  touched,    \* history: tasks others changed, or that were completed as a batch, and that
              \* were not checked since the window agreed with asstd on them
  doomed,     \* history: deleted in the window and not taken back
  refused,    \* history: tasks whose delete failed
  missed,     \* history: a change before the window listened, or that a view that was left
              \* did not read
  dropped,    \* history: tasks whose held delete settle forgot
  again,      \* history: tasks deleted while they were, and had not been taken back
  late        \* history: tasks deleted while the window was quitting

view   == <<open, completed, hasDone, error, looking>>
held   == <<hidden, selected, completing, timers, toasts>>
sent   == <<calls, batches>>
past   == <<dropped, again, late>>
ghosts == <<seen, touched, doomed, refused, missed, past>>
vars   == <<daemon, signals, listening, view, loads, held, sent, offers, up, leaving, used, ghosts>>

Absent == -1

OpenNow == [t \in Tasks |-> IF daemon[t].state = "open" THEN daemon[t].due ELSE Absent]
DoneNow == {t \in Tasks : daemon[t].state = "done"}
IsOpen(t) == open[t] # Absent

\* What the window knows of: open, or in the completed ones it has.
Known(o, c) == {t \in Tasks : o[t] # Absent} \cup c

Within == used.other + used.user + used.fault < MaxEvents

Other == Within /\ used.other < MaxOthers /\ used' = [used EXCEPT !.other = @ + 1]
User  == Within /\ used.user < MaxUser /\ used' = [used EXCEPT !.user = @ + 1]
Fault == Within /\ used.fault < MaxFaults /\ used' = [used EXCEPT !.fault = @ + 1]

Alive == up # "gone"

\* Signals reach who listens.
Signals == /\ signals' = (signals \/ listening)
           /\ missed' = (missed \/ ~listening)

-----------------------------------------------------------------------------
(***************************************************************************)
(* Loads.                                                                  *)
(***************************************************************************)

NoAnswer == [t \in Tasks |-> Absent]

Stale(kind) == {IF l.kind = kind THEN [l EXCEPT !.latest = FALSE] ELSE l : l \in loads}

Asked(kind) == [kind |-> kind, latest |-> TRUE, read |-> FALSE, open |-> NoAnswer, done |-> {}]

\* reload: the open tasks, and the completed ones when they are shown or were loaded.
Reloads ==
  loads' = IF hasDone \/ looking
           THEN {[l EXCEPT !.latest = FALSE] : l \in loads} \cup {Asked("open"), Asked("done")}
           ELSE Stale("open") \cup {Asked("open")}

Subscribe ==
  /\ Alive /\ ~listening
  /\ listening' = TRUE
  /\ UNCHANGED <<daemon, signals, view, loads, held, sent, offers, up, leaving, used, ghosts>>

Changed ==
  /\ Alive /\ signals
  /\ signals' = FALSE /\ Reloads
  /\ UNCHANGED <<daemon, listening, view, held, sent, offers, up, leaving, used, ghosts>>

\* asstd answers with what it has.
Read(l) ==
  /\ l \in loads /\ ~l.read
  /\ loads' = (loads \ {l}) \cup
       {[l EXCEPT !.read = TRUE, !.open = IF l.kind = "open" THEN OpenNow ELSE NoAnswer,
                  !.done = IF l.kind = "done" THEN DoneNow ELSE {}]}
  /\ UNCHANGED <<daemon, signals, listening, view, held, sent, offers, up, leaving, used, ghosts>>

\* Mutant: a generation is not compared.
Current_Any(l) == TRUE

Current(l) == l.latest

\* Mutant: what was sent is over with the next answer.
Settled_Any(t, o) ==
  IF completing[t].at = "sent" \/ o[t] = Absent THEN [at |-> "no", due |-> Absent] ELSE completing[t]

\* A completed task waits to be done while it is open; one that was sent, while its
\* date is as it was.
Settled(t, o) ==
  CASE completing[t].at = "waiting" /\ o[t] = Absent             -> [at |-> "no", due |-> Absent]
    [] completing[t].at = "sent" /\ o[t] # completing[t].due     -> [at |-> "no", due |-> Absent]
    [] OTHER                                                     -> completing[t]

\* settle: what the new data made moot is dropped.
Settle(o, c) ==
  /\ completing' = [t \in Tasks |-> Settled(t, o)]
  /\ hidden' = hidden \cap Known(o, c) /\ selected' = selected \cap Known(o, c)
  /\ dropped' = dropped \cup (hidden \ Known(o, c))

Loaded(l) ==
  /\ Alive /\ l \in loads /\ l.read /\ l.kind = "open"
  /\ loads' = loads \ {l}
  /\ IF Current(l)
     THEN open' = l.open /\ error' = FALSE /\ Settle(l.open, completed)
     ELSE UNCHANGED <<open, error, completing, hidden, selected, dropped>>
  /\ UNCHANGED <<daemon, signals, listening, completed, hasDone, looking, timers, toasts, sent, offers,
                 up, leaving, used, seen, touched, doomed, refused, missed, again, late>>

CompletedLoaded(l) ==
  /\ Alive /\ l \in loads /\ l.read /\ l.kind = "done"
  /\ loads' = loads \ {l}
  /\ IF Current(l)
     THEN completed' = l.done /\ hasDone' = TRUE /\ Settle(open, l.done)
     ELSE UNCHANGED <<completed, hasDone, completing, hidden, selected, dropped>>
  /\ UNCHANGED <<daemon, signals, listening, open, error, looking, timers, toasts, sent, offers, up,
                 leaving, used, seen, touched, doomed, refused, missed, again, late>>

\* asstd could not be asked: an error page, or a toast.
LoadFails(l) ==
  /\ Alive /\ l \in loads /\ Fault
  /\ loads' = loads \ {l}
  /\ error' = (error \/ (Current(l) /\ l.kind = "open"))
  /\ UNCHANGED <<daemon, signals, listening, open, completed, hasDone, looking, held, sent, offers, up,
                 leaving, ghosts>>

\* A view of completed tasks: they are loaded if they never were.
LookAtDone ==
  /\ up = "shown" /\ ~looking /\ User
  /\ looking' = TRUE
  /\ loads' = IF hasDone THEN loads ELSE Stale("done") \cup {Asked("done")}
  /\ UNCHANGED <<daemon, signals, listening, open, completed, hasDone, error, held, sent, offers, up,
                 leaving, ghosts>>

\* Another view.
LookAway ==
  /\ up = "shown" /\ looking /\ User
  /\ looking' = FALSE /\ missed' = (missed \/ ~hasDone)
  /\ UNCHANGED <<daemon, signals, listening, open, completed, hasDone, error, loads, held, sent,
                 offers, up, leaving, seen, touched, doomed, refused, past>>

\* Coming back to the window after a while, and the refresh key.
Refresh ==
  /\ up = "shown" /\ User /\ Reloads
  /\ UNCHANGED <<daemon, signals, listening, view, held, sent, offers, up, leaving, ghosts>>

-----------------------------------------------------------------------------
(***************************************************************************)
(* Checking.                                                               *)
(***************************************************************************)

Call(op, t) == [op |-> op, task |-> t, said |-> "none"]

\* send_complete: shown checked, with the date it has.
SendsComplete(t) ==
  /\ completing' = [completing EXCEPT ![t] = [at |-> "sent", due |-> open[t]]]
  /\ calls' = calls \cup {Call("complete", t)}

\* What of the selection was not completed yet.
InBatch(t) == \E S \in batches : t \in S

\* History: a complete that was not served, or that failed and whose answer is to come.
Pending(t) ==
  \E c \in calls : c.op = "complete" /\ c.task = t /\ c.said \in {"none", "error"}

\* What the load on its way brings.
Told(t) == {l.open[t] : l \in {k \in loads : k.kind = "open" /\ k.latest /\ k.read}}

\* asstd, the window and the load on its way say that the task is open, with this date.
Agreed(t, due) ==
  daemon[t] = [state |-> "open", due |-> due] /\ open[t] = due /\ Told(t) \subseteq {due}

Shown(t) == up = "shown" /\ ~error /\ t \notin hidden

\* check: a moment to take it back, unless that is switched off.
Check(t) ==
  /\ Shown(t) /\ IsOpen(t) /\ completing[t].at = "no" /\ User
  /\ IF Later
     THEN /\ completing' = [completing EXCEPT ![t] = [at |-> "waiting", due |-> Absent]]
          /\ timers' = {[x EXCEPT !.latest = @ /\ x.task # t] : x \in timers}
                         \cup {[task |-> t, latest |-> TRUE]}
          /\ UNCHANGED calls
     ELSE SendsComplete(t) /\ UNCHANGED timers
  /\ seen' = [seen EXCEPT ![t] = open[t]]
  /\ touched' = IF Agreed(t, open[t]) /\ ~Pending(t) /\ ~InBatch(t)
              THEN touched \ {t} ELSE touched
  /\ UNCHANGED <<daemon, signals, listening, view, loads, hidden, selected, toasts, batches,
                 offers, up, leaving, doomed, refused, missed, past>>

Uncheck(t) ==
  /\ Shown(t) /\ completing[t].at = "waiting" /\ User
  /\ completing' = [completing EXCEPT ![t] = [at |-> "no", due |-> Absent]]
  /\ seen' = [seen EXCEPT ![t] = Absent]
  /\ UNCHANGED <<daemon, signals, listening, view, loads, hidden, selected, timers, toasts, sent,
                 offers, up, leaving, touched, doomed, refused, missed, past>>

\* CompleteNow: the moment is over.
CompleteNow(timer) ==
  /\ Alive /\ timer \in timers
  /\ timers' = timers \ {timer}
  /\ IF completing[timer.task].at = "waiting" /\ timer.latest
     THEN SendsComplete(timer.task)
     ELSE UNCHANGED <<completing, calls>>
  /\ UNCHANGED <<daemon, signals, listening, view, loads, hidden, selected, toasts, batches,
                 offers, up, leaving, used, ghosts>>

\* What the selection may hold: what is shown, and what it held when it was deleted
\* by itself.
Selectable == (Known(open, completed) \ hidden) \cup selected

\* Batch::Complete: the selection, completed one after another, whether open or being
\* completed already.
BatchComplete(S) ==
  /\ up = "shown" /\ S # {} /\ S \subseteq Selectable /\ User
  /\ batches' = batches \cup {S}
  /\ selected' = {}
  /\ touched' = touched \cup S
  /\ UNCHANGED <<daemon, signals, listening, view, loads, hidden, completing, timers, toasts, calls,
                 offers, up, leaving, seen, doomed, refused, missed, past>>

\* Undo after a complete, or unchecking a completed task.
Reopen(t) ==
  /\ up = "shown" /\ User
  /\ t \in offers \/ (Shown(t) /\ t \in completed /\ ~IsOpen(t))
  /\ offers' = offers \ {t} /\ calls' = calls \cup {Call("reopen", t)}
  /\ UNCHANGED <<daemon, signals, listening, view, loads, held, batches, up, leaving, ghosts>>

OfferEnds(t) ==
  /\ t \in offers /\ offers' = offers \ {t}
  /\ UNCHANGED <<daemon, signals, listening, view, loads, held, sent, up, leaving, used, ghosts>>

-----------------------------------------------------------------------------
(***************************************************************************)
(* Deleting.                                                               *)
(***************************************************************************)

Closing == leaving # {}

\* Hidden at once, for as long as a toast; whatever is hidden or going already.
Hides(S) ==
  /\ Len(toasts) < 2
  /\ hidden' = hidden \cup S /\ toasts' = Append(toasts, S)
  /\ doomed' = doomed \cup S /\ again' = again \cup (S \cap doomed)
  /\ late' = IF Closing THEN late \cup S ELSE late
  /\ UNCHANGED <<daemon, signals, listening, view, loads, completing, timers, sent, offers, up,
                 leaving, seen, touched, refused, missed, dropped>>

\* Delete: a task the window knows, which stays in the selection if it is there.
Delete(t) ==
  /\ up = "shown" /\ t \in Known(open, completed) /\ User
  /\ Hides({t})
  /\ selected' = selected \cup {t}

\* Batch::Delete: the selection.
BatchDelete(S) ==
  /\ up = "shown" /\ S # {} /\ S \subseteq Selectable /\ User
  /\ Hides(S)
  /\ selected' = {}

Without(i) == [j \in 1..(Len(toasts) - 1) |-> IF j < i THEN toasts[j] ELSE toasts[j + 1]]

\* Mutant: what a toast deleted goes, whatever was taken back.
Goes_Anyhow(S, hid) == S

\* DeleteNow: what is hidden still, and known.
Goes(S, hid) == S \cap hid \cap Known(open, completed)

SendsDelete(S) == calls' = calls \cup {Call("delete", t) : t \in S}

\* Undelete of what the toast deleted; the toast goes too, which is DeleteNow.
Undo(i) ==
  /\ up = "shown" /\ i \in DOMAIN toasts /\ User
  /\ hidden' = hidden \ toasts[i] /\ doomed' = doomed \ toasts[i]
  /\ selected' = selected \ toasts[i]
  /\ SendsDelete(Goes(toasts[i], hidden'))
  /\ toasts' = Without(i)
  /\ UNCHANGED <<daemon, signals, listening, view, loads, completing, timers, batches, offers, up,
                 leaving, seen, touched, refused, missed, past>>

\* The toast goes: its time is over, or the window is hidden.
Dismiss(i) ==
  /\ Alive /\ i \in DOMAIN toasts
  /\ SendsDelete(Goes(toasts[i], hidden))
  /\ toasts' = Without(i)
  /\ UNCHANGED <<daemon, signals, listening, view, loads, hidden, selected, completing, timers,
                 batches, offers, up, leaving, used, ghosts>>

-----------------------------------------------------------------------------
(***************************************************************************)
(* The calls, at asstd and their answers.                                  *)
(***************************************************************************)

\* complete: a repeating task goes on to its next date.
AfterComplete(t) ==
  IF t \in Repeating THEN [daemon[t] EXCEPT !.due = @ + 1] ELSE [daemon[t] EXCEPT !.state = "done"]

Does(op, t) ==
  CASE op = "complete" -> AfterComplete(t)
    [] op = "reopen"   -> [daemon[t] EXCEPT !.state = "open"]
    [] op = "delete"   -> [daemon[t] EXCEPT !.state = "gone"]

Answered(c, said) == calls' = (calls \ {c}) \cup {[c EXCEPT !.said = said]}

\* What is gone is an error; completing what is done changes nothing.  An answer that
\* the window only says, or not even that, is left out.
Serve(c) ==
  /\ c \in calls /\ c.said = "none"
  /\ IF daemon[c.task].state = "gone"
     THEN Answered(c, "error") /\ UNCHANGED <<daemon, signals, missed>>
     ELSE /\ daemon' = [daemon EXCEPT ![c.task] = Does(c.op, c.task)]
          /\ Signals
          /\ IF c.op = "complete" /\ daemon'[c.task].state # "open"
             THEN Answered(c, "ok") ELSE calls' = calls \ {c}
  /\ UNCHANGED <<listening, view, loads, held, batches, offers, up, leaving, used, seen, touched,
                 doomed, refused, past>>

\* A read-only list, or asstd is away.
CallFails(c) ==
  /\ c \in calls /\ c.said = "none" /\ Fault
  /\ Answered(c, "error")
  /\ refused' = IF c.op = "delete" THEN refused \cup {c.task} ELSE refused
  /\ UNCHANGED <<daemon, signals, listening, view, loads, held, batches, offers, up, leaving, seen,
                 touched, doomed, missed, past>>

\* Cmd::Completed, or Cmd::Toast: a complete offers Undo, a call that failed and is
\* not a complete reads the tasks again.
Reply(c) ==
  /\ Alive /\ c \in calls /\ c.said # "none"
  /\ calls' = calls \ {c}
  /\ IF c.op = "complete" /\ c.said = "ok" THEN offers' = offers \cup {c.task} ELSE UNCHANGED offers
  /\ IF c.op = "complete" /\ c.said = "error"
     THEN completing' = [completing EXCEPT ![c.task] = [at |-> "no", due |-> Absent]]
     ELSE UNCHANGED completing
  /\ IF c.op # "complete" /\ c.said = "error" THEN Reloads ELSE UNCHANGED loads
  /\ UNCHANGED <<daemon, signals, listening, view, hidden, selected, timers, toasts, batches, up,
                 leaving, used, ghosts>>

Failed == {}

\* The next of the selection.  What is gone is an error, which ends it; so does the
\* window's end, but for the call under way.  That all are done is only said.
ServeBatch(S) ==
  /\ S \in batches
  /\ \E t \in S :
       IF daemon[t].state = "gone"
       THEN batches' = (batches \ {S}) \cup {Failed} /\ UNCHANGED <<daemon, signals, missed>>
       ELSE /\ daemon' = [daemon EXCEPT ![t] = AfterComplete(t)] /\ Signals
            /\ batches' = (batches \ {S}) \cup (IF Alive /\ S # {t} THEN {S \ {t}} ELSE {})
  /\ UNCHANGED <<listening, view, loads, held, calls, offers, up, leaving, used, seen, touched, doomed,
                 refused, past>>

BatchFails(S) ==
  /\ S \in batches \ {Failed} /\ Fault
  /\ batches' = (batches \ {S}) \cup {Failed}
  /\ UNCHANGED <<daemon, signals, listening, view, loads, held, calls, offers, up, leaving, ghosts>>

\* Cmd::Toast: the tasks are read again, and what is being completed stays.
BatchFailed ==
  /\ Alive /\ Failed \in batches
  /\ batches' = batches \ {Failed} /\ Reloads
  /\ UNCHANGED <<daemon, signals, listening, view, held, calls, offers, up, leaving, used, ghosts>>

-----------------------------------------------------------------------------
(***************************************************************************)
(* The window goes and comes; others.                                      *)
(***************************************************************************)

\* hide: the toasts go with the window.
Hide ==
  /\ up = "shown" /\ Background /\ User
  /\ up' = "tray" /\ toasts' = <<>>
  /\ SendsDelete(Goes(UNION {toasts[i] : i \in DOMAIN toasts}, hidden))
  /\ UNCHANGED <<daemon, signals, listening, view, loads, hidden, selected, completing, timers, batches,
                 offers, leaving, ghosts>>

Present ==
  /\ up = "tray" /\ User /\ up' = "shown"
  /\ UNCHANGED <<daemon, signals, listening, view, loads, held, sent, offers, leaving, ghosts>>

\* Mutant: the window goes at once.
Held_None == {}

\* What Quit deletes.
Held == hidden

\* Until Cmd::Closed the window goes on as before: it may be used, and quit once more.
Quit ==
  /\ Alive /\ User
  /\ leaving' = leaving \cup {Held}
  /\ UNCHANGED <<daemon, signals, listening, view, loads, held, sent, offers, up, ghosts>>

\* One after another, whatever was taken back since; a delete that fails is left.
QuitDeletes(deletes) ==
  /\ Alive /\ deletes \in leaving
  /\ \E t \in deletes :
       /\ leaving' = (leaving \ {deletes}) \cup {deletes \ {t}}
       /\ \/ /\ daemon[t].state # "gone" /\ daemon' = [daemon EXCEPT ![t].state = "gone"]
             /\ Signals /\ UNCHANGED <<used, refused>>
          \/ daemon[t].state = "gone" /\ UNCHANGED <<daemon, signals, missed, used, refused>>
          \/ Fault /\ refused' = refused \cup {t} /\ UNCHANGED <<daemon, signals, missed>>
  /\ UNCHANGED <<listening, view, loads, held, sent, offers, up, seen, touched, doomed, past>>

\* Cmd::Closed, when one Quit has sent its deletes.  What was asked over D-Bus stays asked.
Closed ==
  /\ Alive /\ {} \in leaving
  /\ up' = "gone" /\ leaving' = {} /\ hidden' = {} /\ selected' = {}
  /\ signals' = FALSE /\ listening' = FALSE /\ loads' = {} /\ timers' = {} /\ toasts' = <<>>
  /\ offers' = {}
  /\ completing' = [t \in Tasks |-> [at |-> "no", due |-> Absent]]
  /\ UNCHANGED <<daemon, view, sent, used, ghosts>>

\* A sync round, the CLI, a reminder's button.
OtherChanges(t, op) ==
  /\ Alive /\ daemon[t].state # "gone" /\ Other
  /\ Does(op, t) # daemon[t]
  /\ daemon' = [daemon EXCEPT ![t] = Does(op, t)]
  /\ touched' = touched \cup {t} /\ Signals
  /\ UNCHANGED <<listening, view, loads, held, sent, offers, up, leaving, seen, doomed, refused,
                 past>>

Init ==
  /\ daemon = [t \in Tasks |-> [state |-> "open", due |-> 0]]
  /\ signals = FALSE /\ listening = FALSE
  /\ open = NoAnswer /\ completed = {} /\ hasDone = FALSE /\ error = FALSE /\ looking = FALSE
  /\ loads = {Asked("open")}
  /\ hidden = {} /\ selected = {} /\ completing = [t \in Tasks |-> [at |-> "no", due |-> Absent]]
  /\ timers = {} /\ toasts = <<>> /\ calls = {} /\ batches = {} /\ offers = {}
  /\ up = "shown" /\ leaving = {}
  /\ used = [other |-> 0, user |-> 0, fault |-> 0]
  /\ seen = NoAnswer /\ touched = {} /\ doomed = {} /\ refused = {}
  /\ missed = FALSE /\ dropped = {} /\ again = {} /\ late = {}

WindowStep ==
  \/ Subscribe \/ Changed \/ Closed
  \/ \E deletes \in leaving : QuitDeletes(deletes)
  \/ \E l \in loads : Read(l) \/ Loaded(l) \/ CompletedLoaded(l)
  \/ \E x \in timers : CompleteNow(x)
  \/ \E i \in DOMAIN toasts : Dismiss(i)
  \/ \E t \in offers : OfferEnds(t)
  \/ \E c \in calls : Serve(c) \/ Reply(c)
  \/ (\E S \in batches : ServeBatch(S)) \/ BatchFailed

UserStep ==
  \/ LookAtDone \/ LookAway \/ Refresh \/ Hide \/ Present \/ Quit
  \/ \E t \in Tasks : Check(t) \/ Uncheck(t) \/ Reopen(t) \/ Delete(t)
  \/ \E S \in SUBSET Tasks : BatchComplete(S) \/ BatchDelete(S)
  \/ \E i \in DOMAIN toasts : Undo(i)

OtherStep ==
  \/ \E t \in Tasks, op \in {"complete", "reopen", "delete"} : OtherChanges(t, op)
  \/ \E l \in loads : LoadFails(l)
  \/ \E c \in calls : CallFails(c)
  \/ \E S \in batches : BatchFails(S)

Next == WindowStep \/ UserStep \/ OtherStep

Spec == Init /\ [][Next]_vars

\* asstd answers, messages are handled, moments and toasts end.
FairSpec == Spec /\ WF_vars(WindowStep)

-----------------------------------------------------------------------------
(***************************************************************************)
(* Properties.                                                             *)
(***************************************************************************)

Dates == Int

\* Every variable has its type.
TypeOK ==
  /\ daemon \in [Tasks -> [state : {"open", "done", "gone"}, due : Nat]]
  /\ {signals, listening, hasDone, error, looking, missed} \subseteq BOOLEAN
  /\ open \in [Tasks -> Dates] /\ completed \subseteq Tasks
  /\ hidden \subseteq Tasks /\ selected \subseteq hidden
  /\ \A l \in loads : l \in [kind : {"open", "done"}, latest : BOOLEAN, read : BOOLEAN,
                              open : [Tasks -> Dates], done : SUBSET Tasks]
  /\ completing \in [Tasks -> [at : {"no", "waiting", "sent"}, due : Dates]]
  /\ timers \subseteq [task : Tasks, latest : BOOLEAN]
  /\ toasts \in Seq(SUBSET Tasks)
  /\ calls \subseteq [op : {"complete", "delete", "reopen"}, task : Tasks,
                      said : {"none", "ok", "error"}]
  /\ batches \subseteq SUBSET Tasks
  /\ offers \subseteq Tasks /\ up \in {"shown", "tray", "gone"} /\ leaving \subseteq SUBSET Tasks
  /\ seen \in [Tasks -> Dates] /\ touched \subseteq Tasks
  /\ doomed \subseteq Tasks /\ refused \subseteq Tasks /\ dropped \subseteq Tasks
  /\ again \subseteq Tasks /\ late \subseteq Tasks

\* What is sent to be deleted was deleted here and not taken back, whichever toasts hold
\* it: when a toast ends, when the window is hidden, and what it holds when it quits.  And
\* what is taken back is not on its way; but for a task that was deleted twice, one of
\* whose toasts ended before, and but for what Quit sends.
DeletesOnlyDoomed ==
  [][/\ \A c \in calls' \ calls : c.op = "delete" /\ c.said = "none" => c.task \in doomed'
     /\ \A S \in leaving' \ leaving : S \subseteq doomed' \/ \E R \in leaving : S \subseteq R
     /\ \A t \in doomed \ doomed' : Call("delete", t) \notin calls' \/ t \in again]_vars

\* A check completes the date that was shown, once, and not a later one: however
\* often it is taken back and done again, and whichever loads come in between.  But
\* where others changed the task, or it was completed with the selection too, since the
\* window last agreed with asstd on it.
CompletesWhatWasChecked ==
  [][\A t \in Tasks :
       Call("complete", t) \in calls /\ Call("complete", t) \notin calls' /\ daemon' # daemon
         => t \in touched \/ daemon[t].due = seen[t]]_vars

\* A window that is gone has left nothing it held for Undo undeleted, however often it was
\* quit and whatever was taken back meanwhile: it is gone, or asstd refused, or the window
\* had forgotten it in settle.  But for what was deleted while it was quitting already.
ClosesClean ==
  up = "gone" => \A t \in doomed : daemon[t].state = "gone" \/ t \in refused \cup dropped \cup late

\* Once all is quiet the window shows what asstd has, or that it could not be read:
\* whatever answers overtake each other.  But for what changed before it listened, or
\* while completed tasks were loaded first for a view that was left; and that they
\* could not be read is a toast, soon gone.
EventuallyCurrent ==
  <>[](\/ up = "gone" \/ missed
       \/ error
       \/ OpenNow = open /\ (hasDone /\ used.fault = 0 => completed = DoneNow))

\* DESIGN.md: a deleted task hides at once and goes when its Undo toast does, or
\* before the window closes.  (But for what was deleted while it was quitting already.)
DeletedGoes ==
  \A t \in Tasks :
    t \in doomed ~> (daemon[t].state = "gone" \/ t \notin doomed \/ t \in refused \cup late)

-----------------------------------------------------------------------------

DueNow(t) == OpenNow[t]

\* A call to complete is one of these, not both.
OnePending(t) ==
  \A c, e \in calls :
    c.op = "complete" /\ e.op = "complete" /\ c.task = t /\ e.task = t /\ c.said = "none" => e.said # "error"

\* How what is being completed, what is shown, what is loaded and what asstd has go
\* together, for a task nobody else touched: the inductive core of CompletesWhatWasChecked.
CheckHolds(t) ==
  /\ Pending(t) => daemon[t] = [state |-> "open", due |-> seen[t]] /\ OnePending(t)
  /\ up # "gone" =>
       /\ completing[t].at \in {"no", "waiting"} => ~Pending(t)
       /\ completing[t].at = "waiting" => Agreed(t, seen[t])
       /\ Pending(t) => completing[t].due = seen[t] /\ Agreed(t, seen[t])
       /\ completing[t].at = "sent" /\ ~Pending(t) =>
            Told(t) \subseteq {completing[t].due, DueNow(t), Absent}
       /\ completing[t].at = "no" /\ open[t] # Absent => Agreed(t, open[t])
       /\ completing[t].at = "no" /\ open[t] = Absent => Told(t) \subseteq {DueNow(t), Absent}

ChecksHold == \A t \in Tasks : t \in touched \/ daemon[t].state = "gone" \/ CheckHolds(t)

=============================================================================
