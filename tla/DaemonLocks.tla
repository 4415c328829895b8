----------------------------- MODULE DaemonLocks -----------------------------
(***************************************************************************)
(* Which locks the calls of asstd take, and in which order                 *)
(* (asstd/src/daemon.rs, asstd/src/github.rs).                             *)
(*                                                                         *)
(* Each call of D-Bus runs on a thread of its own, beside the loops.  A    *)
(* call goes through sections: in one it takes locks, one after another,   *)
(* does its work and lets all of them go.  Between two sections others     *)
(* run, so that what a call read in one may be stale in the next: add      *)
(* looks for its source in one and makes the task in another.              *)
(*                                                                         *)
(* The config's lock lets readers share it; here they take turns, which    *)
(* makes waits only longer.                                                *)
(***************************************************************************)
EXTENDS Integers, Sequences, FiniteSets

CONSTANTS
  Threads,  \* calls there may be at once
  Sources,  \* what tools file tasks under (asst add --source)
  MaxCalls  \* bound: calls made

ASSUME ThreadsAssumption == IsFiniteSet(Threads) /\ "none" \notin Threads
ASSUME BoundsAssumption == MaxCalls \in Nat

VARIABLES
  calls,  \* thread -> the call it is in
  holder, \* lock -> the thread that holds it, or "none"
  tasks,  \* source -> tasks that were made for it
  made,   \* how many calls were made
  alone   \* history: adds that run without another of their source

vars == <<calls, holder, tasks, made, alone>>

None == "none"

Locks == {"remote", "store", "config", "gh_state", "status"}

\* changed_locally, once the store is let go: refresh_pending.
Refresh == << <<"store">>, <<"status">> >>

\* add: the source; the names of lists; the default reminder; the task, in the inbox
\* the config names.
Add == << <<"store">>, <<"store">>, <<"config">>, <<"store", "config">> >> \o Refresh

\* edit: the default reminder is read with the store held.
EditTask == << <<"store", "config">> >> \o Refresh

\* complete, reopen, delete, duplicate, delete_completed.
Change == << <<"store">> >> \o Refresh

\* lists and is_inbox: the inbox is the config's.
ReadLists == << <<"store", "config">> >>

Links == << <<"store", "gh_state">> >>

\* gh_pass_done, gh_hold, gh_release.
PassDone == << <<"gh_state">> >>

\* set_status.
SetStatus == << <<"store">>, <<"config">>, <<"status">> >>

\* Mutant: the inbox is looked up where the config is changed.
SetSettings_Inside == << <<"config">>, <<"config", "store">> >>

\* set_settings: the inbox's list, the config, and the config again to change it.
SetSettings == << <<"store">>, <<"config">>, <<"config">> >>

\* remote: the config is read with the client's lock held.
Remote == << <<"remote", "config">> >>

\* create_list, update_list, delete_list: the list, the client, then what the server
\* lists.
ListCall == << <<"store">> >> \o Remote \o << <<"store">>, <<"store">>, <<"status">> >>

\* adopt_account, logout.
Sign == << <<"config">>, <<"remote">>, <<"store">> >> \o SetStatus

Ops == {"add", "edit", "change", "lists", "links", "pass", "say", "settings", "list", "sign"}

Sections(op) ==
  CASE op = "add"      -> Add
    [] op = "edit"     -> EditTask
    [] op = "change"   -> Change
    [] op = "lists"    -> ReadLists
    [] op = "links"    -> Links
    [] op = "pass"     -> PassDone
    [] op = "say"      -> SetStatus
    [] op = "settings" -> SetSettings
    [] op = "list"     -> ListCall
    [] op = "sign"     -> Sign
    [] OTHER           -> <<>>

NoCall == [op |-> None, source |-> None, at |-> 0, held |-> 0]

Running(t) == calls[t].op # None

Section(t) == Sections(calls[t].op)[calls[t].at]

\* The lock a thread is about to take: none when it has those of its section.
Wants(t) ==
  IF Running(t) /\ calls[t].held < Len(Section(t)) THEN Section(t)[calls[t].held + 1] ELSE None

Adding(t) == calls[t].op = "add"

-----------------------------------------------------------------------------

Begun(op, source) ==
  [op |-> op, source |-> IF op = "add" THEN source ELSE None, at |-> 1, held |-> 0]

\* Adds of the source that are under way.
Same(op, source) == {u \in Threads : Adding(u) /\ op = "add" /\ calls[u].source = source}

\* The add of a source is alone, unless another of the same source is under way.
Begin(t, op, source) ==
  /\ ~Running(t) /\ made < MaxCalls
  /\ made' = made + 1
  /\ calls' = [calls EXCEPT ![t] = Begun(op, source)]
  /\ alone' = (alone \ (Same(op, source) \cup {t})) \cup (IF Same(op, source) = {} THEN {t} ELSE {})
  /\ UNCHANGED <<holder, tasks>>

Take(t) ==
  /\ Wants(t) # None /\ holder[Wants(t)] = None
  /\ holder' = [holder EXCEPT ![Wants(t)] = t]
  /\ calls' = [calls EXCEPT ![t].held = @ + 1]
  /\ UNCHANGED <<tasks, made, alone>>

\* Mutant: the task is made without a look.
Existed_Never(t) == FALSE

\* by_source: there is such a task.
Existed(t) == Adding(t) /\ calls[t].at = 1 /\ tasks[calls[t].source] > 0

Makes(t) == Adding(t) /\ calls[t].at = 4

\* What is left of a call: its next section, or none.
Onward(t) ==
  IF Existed(t) \/ calls[t].at = Len(Sections(calls[t].op)) THEN NoCall
  ELSE [op |-> calls[t].op, source |-> calls[t].source, at |-> calls[t].at + 1, held |-> 0]

\* The section's work, and all its locks are let go.
Work(t) ==
  /\ Running(t) /\ Wants(t) = None
  /\ holder' = [k \in Locks |-> IF holder[k] = t THEN None ELSE holder[k]]
  /\ tasks' = IF Makes(t) THEN [tasks EXCEPT ![calls[t].source] = @ + 1] ELSE tasks
  /\ calls' = [calls EXCEPT ![t] = Onward(t)]
  /\ alone' = IF Onward(t) = NoCall THEN alone \ {t} ELSE alone
  /\ UNCHANGED made

Init ==
  /\ calls = [t \in Threads |-> NoCall] /\ holder = [k \in Locks |-> None]
  /\ tasks = [s \in Sources |-> 0] /\ made = 0 /\ alone = {}

Next ==
  \E t \in Threads :
    Take(t) \/ Work(t) \/ \E op \in Ops, s \in Sources : Begin(t, op, s)

Spec == Init /\ [][Next]_vars

-----------------------------------------------------------------------------
(***************************************************************************)
(* Properties.                                                             *)
(***************************************************************************)

TypeOK ==
  /\ calls \in [Threads -> [op : Ops \cup {None}, source : Sources \cup {None}, at : Nat,
                            held : Nat]]
  /\ holder \in [Locks -> Threads \cup {None}]
  /\ tasks \in [Sources -> Nat] /\ made \in Nat /\ alone \subseteq Threads

Waits(t) == Wants(t) # None /\ holder[Wants(t)] # None

\* Calls never all wait for each other, whichever run at once: a call that holds the
\* config or what GitHub said waits for nothing, one that holds the store waits for
\* those only.
NeverStuck ==
  (\E t \in Threads : Running(t)) => \E t \in Threads : Running(t) /\ ~Waits(t)

\* What is filed under a source a second time is not made again, but where two adds
\* of it run at once.
AddedOnceAlone ==
  \A t \in Threads :
    Adding(t) /\ t \in alone /\ calls[t].at \in 2..4 => tasks[calls[t].source] = 0

=============================================================================
