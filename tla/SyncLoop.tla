------------------------------ MODULE SyncLoop ------------------------------
(***************************************************************************)
(* When rounds are run, for whom, with which account, and who is told      *)
(* (asstd/src/daemon.rs: changed_locally to sync_once, set_settings to     *)
(* logout; service.rs: pump).                                              *)
(*                                                                         *)
(* One task runs rounds: at start, each interval, and when it is woken.    *)
(* Calls of D-Bus run beside it on other threads: people ask for a round   *)
(* and wait, edit tasks, change the interval, sign in and out.  What they  *)
(* share is changed by single steps: counters, permits (tokio's Notify     *)
(* keeps one), the config and the store under locks, and the client of     *)
(* the server under a lock held while its password is read.                *)
(*                                                                         *)
(* What a round does is TaskSync's and ListSync's; here it sends, reads    *)
(* the lists one after another, and may fail in between.                   *)
(***************************************************************************)
EXTENDS Integers, FiniteSets

CONSTANTS
  Askers,     \* calls of sync_and_wait
  Setters,    \* calls of set_settings
  Signers,    \* calls of login_password and logout, and the browser login
  Accounts,   \* accounts there are
  Parts,      \* what a round reads one after another
  Intervals,  \* settings of the sync interval
  First,      \* the account and the interval at start
  MaxAsks,    \* bound: times a round is asked for
  MaxFaults,  \* bound: rounds and keyring calls that fail
  MaxEvents   \* bound: edits, changes on the server, settings, sign-ins and asks

ASSUME FirstAssumption == First \in [account : Accounts \cup {"none"}, interval : Intervals]
ASSUME AccountsAssumption == "none" \notin Accounts \cup Intervals
ASSUME WhoAssumption == "loop" \notin Signers /\ "none" \notin Signers
ASSUME BoundsAssumption == {MaxAsks, MaxFaults, MaxEvents} \subseteq Nat

VARIABLES
  config,    \* Daemon::config: account and interval
  cached,    \* Daemon::remote: the account of the client there is, or "none"
  mutex,     \* who holds its lock: "none", or the loop while it reads the password
  pc,        \* where the loop is
  gen,       \* the generation its round was begun for
  using,     \* remote(): the account as it was read
  left,      \* what its round has still to read
  changed,   \* Report::changed, so far
  armed,     \* the interval it sleeps for, "none" while awake
  went,      \* whether its last round succeeded
  requested, \* Daemon::requested
  completed, \* Daemon::completed: the generation
  permit,    \* wake_sync and settings_changed
  asks,      \* sync_and_wait: where each is, and the generation it wants
  sets,      \* set_settings, each
  signs,     \* adopt_account and logout, each
  edit,      \* whether an edit is made and not yet told
  unsent,    \* store: rows wait to be sent
  news,      \* the server has changes that were not read
  untold,    \* the store changed since clients last heard Changed
  status,    \* StatusView::state
  mail,      \* events the pump has not taken: Changed, and the last Status
  heard,     \* the Status clients heard last
  used,      \* how much of the bounds is used
  begun,     \* history: who had asked when the round began
  served,    \* history: who had asked when the round that was completed last began
  overlaps,  \* history: two calls of set_settings overlapped
  dropped    \* history: a round that failed had changed the store

account == <<config, cached, mutex>>
round   == <<gen, using, left, changed, armed, went>>
counts  == <<requested, completed>>
store   == <<unsent, news, untold>>
told    == <<status, mail, heard>>
ghosts  == <<begun, served, overlaps, dropped>>
vars    == <<account, pc, round, counts, permit, asks, sets, signs, edit, store, told, used, ghosts>>

None == "none"
NoAsk  == [pc |-> "idle", want |-> 0]
NoSet  == [pc |-> "idle", before |-> None, to |-> None]
NoSign == [pc |-> "idle", account |-> None, reset |-> FALSE]

Event == used.events < MaxEvents /\ used' = [used EXCEPT !.events = @ + 1]
Fault == used.faults < MaxFaults /\ used' = [used EXCEPT !.faults = @ + 1]

\* set_status: clients are sent what changed.
Says(state) ==
  /\ status' = state
  /\ mail' = IF status # state THEN [mail EXCEPT !.status = state] ELSE mail
  /\ UNCHANGED heard

SaysChanged == mail' = [mail EXCEPT !.changed = TRUE] /\ UNCHANGED <<status, heard>>

SaysBoth(state) ==
  /\ status' = state
  /\ mail' = [changed |-> TRUE, status |-> IF status # state THEN state ELSE mail.status]
  /\ UNCHANGED heard

\* Mutant: notify_waiters, which is heard by who waits.
Wake_Waiters == permit' = [permit EXCEPT !.sync = @ \/ pc = "sleep"]

\* notify_one: kept, as one, until it is waited for.
Wake == permit' = [permit EXCEPT !.sync = TRUE]

-----------------------------------------------------------------------------
(***************************************************************************)
(* The loop (sync_loop, sync_once, remote).                                *)
(***************************************************************************)

LoopAt(place) ==
  pc = place /\ UNCHANGED <<config, requested, asks, sets, signs, edit, overlaps>>

Begin ==
  /\ LoopAt("start")
  /\ gen' = requested
  /\ begun' = {a \in Askers : asks[a].pc # "idle"}
  /\ went' = FALSE /\ pc' = "client"
  /\ UNCHANGED <<cached, mutex, using, left, changed, armed, completed, permit, store, told, used,
                 served, dropped>>

\* The round has its client, and begins.
Start ==
  /\ using' = None /\ left' = Parts
  /\ pc' = "push" /\ Says("Syncing")
  /\ UNCHANGED <<gen, changed, armed, went>>

\* The round is over and failed: offline, or another error.
Fails(state) ==
  /\ using' = None /\ left' = {} /\ changed' = FALSE
  /\ pc' = "answer" /\ Says(state)
  /\ UNCHANGED <<gen, armed, went>>

\* Mutant: the round ends without a word.
NotSignedIn_Silent ==
  /\ pc' = "answer" /\ UNCHANGED <<gen, using, left, changed, armed, went, told>>

NotSignedIn == Fails("NoAccount")

\* remote: the client there is, none without an account, or one is made: the config
\* is read and the password asked for with the lock held.
Client ==
  /\ LoopAt("client") /\ mutex = None
  /\ \/ cached # None /\ Start /\ UNCHANGED mutex
     \/ cached = None /\ config.account = None /\ NotSignedIn /\ UNCHANGED mutex
     \/ /\ cached = None /\ config.account # None
        /\ mutex' = "loop" /\ using' = config.account /\ pc' = "password"
        /\ UNCHANGED <<gen, left, changed, armed, went, told>>
  /\ UNCHANGED <<cached, completed, permit, store, used, begun, served, dropped>>

Password ==
  /\ LoopAt("password")
  /\ mutex' = None
  /\ \/ cached' = using /\ Start /\ UNCHANGED used
     \/ Fault /\ Fails("Failed") /\ UNCHANGED cached
  /\ UNCHANGED <<completed, permit, store, begun, served, dropped>>

\* What waits is sent; the rest of push_one is TaskSync's.
Push ==
  /\ LoopAt("push")
  /\ unsent' = FALSE /\ changed' = unsent
  /\ pc' = "pull"
  /\ UNCHANGED <<cached, mutex, gen, using, left, armed, went, completed, permit, news, untold,
                 told, used, begun, served, dropped>>

\* Mutant: Report::changed forgets what changed of the lists.
Counts_Tasks(part) == part \in news /\ part # "lists"

Counts(part) == part \in news

\* The store takes what is new of one part, at once.
Pull(part) ==
  /\ LoopAt("pull") /\ part \in left
  /\ left' = left \ {part}
  /\ news' = news \ {part}
  /\ changed' = (changed \/ Counts(part)) /\ untold' = (untold \/ part \in news)
  /\ UNCHANGED <<cached, mutex, pc, gen, using, armed, went, completed, permit, unsent, told,
                 used, begun, served, dropped>>

RoundDone ==
  /\ LoopAt("pull") /\ left = {}
  /\ IF changed THEN SaysBoth("Idle") ELSE Says("Idle")
  /\ went' = TRUE /\ changed' = FALSE /\ pc' = "answer"
  /\ UNCHANGED <<cached, mutex, gen, using, left, armed, completed, permit, store, used,
                 begun, served, dropped>>

\* The network, or the server: what the round did until then is not reported.
RoundFails ==
  /\ LoopAt(pc) /\ pc \in {"push", "pull"} /\ left # {} /\ Fault
  /\ \/ Fails("Failed")
     \/ pc' = "drop" /\ UNCHANGED <<round, told>>    \* Unauthorized
  /\ dropped' = (dropped \/ changed)
  /\ UNCHANGED <<cached, mutex, completed, permit, store, begun, served>>

\* The password was rejected: the client goes.
DropClient ==
  /\ LoopAt("drop") /\ mutex = None
  /\ cached' = None /\ Fails("Failed")
  /\ UNCHANGED <<mutex, completed, permit, store, used, begun, served, dropped>>

\* Mutant: the answer is for all who asked by now.
Answered_Now == requested

\* The generation the round was begun for.
Answered == gen

Answer ==
  /\ LoopAt("answer")
  /\ completed' = Answered /\ served' = begun
  /\ armed' = config.interval /\ pc' = "sleep"
  /\ UNCHANGED <<cached, mutex, gen, using, left, changed, went, permit, store, told, used, begun,
                 dropped>>

Sleeping == LoopAt("sleep") /\ UNCHANGED <<cached, mutex, gen, using, left, changed, went,
                                           completed, store, told, used, begun, served, dropped>>

Elapses == Sleeping /\ pc' = "start" /\ armed' = None /\ UNCHANGED permit

\* A burst of edits lands in one round: it waits a moment.
Woken ==
  /\ Sleeping /\ permit.sync
  /\ permit' = [permit EXCEPT !.sync = FALSE] /\ pc' = "debounce" /\ armed' = None

\* A new interval counts from the last round.
Rearm ==
  /\ Sleeping /\ permit.settings
  /\ permit' = [permit EXCEPT !.settings = FALSE] /\ armed' = config.interval
  /\ UNCHANGED pc

Debounced ==
  /\ LoopAt("debounce") /\ pc' = "start"
  /\ UNCHANGED <<cached, mutex, round, completed, permit, store, told, used, begun, served, dropped>>

LoopStep ==
  \/ Begin \/ Client \/ Password \/ Push \/ (\E part \in Parts : Pull(part)) \/ RoundDone
  \/ RoundFails \/ DropClient \/ Answer \/ Elapses \/ Woken \/ Rearm \/ Debounced

-----------------------------------------------------------------------------
(***************************************************************************)
(* The calls of D-Bus, each on a thread of its own.                        *)
(***************************************************************************)

CallOf == UNCHANGED <<pc, round, completed, dropped>>

\* sync_and_wait: the counter, then the permit, then the wait.
Ask(a) ==
  /\ asks[a].pc = "idle" /\ requested < MaxAsks /\ Event
  /\ requested' = requested + 1
  /\ asks' = [asks EXCEPT ![a] = [pc |-> "asked", want |-> requested']]
  /\ begun' = begun \ {a} /\ served' = served \ {a}
  /\ UNCHANGED <<account, permit, sets, signs, edit, store, told, overlaps>> /\ CallOf

AskWakes(a) ==
  /\ asks[a].pc = "asked"
  /\ Wake /\ asks' = [asks EXCEPT ![a].pc = "waiting"]
  /\ UNCHANGED <<account, requested, sets, signs, edit, store, told, used, begun, served, overlaps>>
  /\ CallOf

AskAnswered(a) ==
  /\ asks[a].pc = "waiting" /\ completed >= asks[a].want
  /\ asks' = [asks EXCEPT ![a] = NoAsk]
  /\ UNCHANGED <<account, requested, permit, sets, signs, edit, store, told, used, begun, served,
                 overlaps>>
  /\ CallOf

\* add, edit, complete and the rest: the store first, then changed_locally.
EditMade ==
  /\ ~edit /\ Event
  /\ edit' = TRUE /\ unsent' = TRUE /\ untold' = TRUE
  /\ UNCHANGED <<account, requested, permit, asks, sets, signs, news, told, begun, served, overlaps>>
  /\ CallOf

EditTold ==
  /\ edit /\ edit' = FALSE
  /\ SaysChanged /\ Wake
  /\ UNCHANGED <<account, requested, asks, sets, signs, store, used, begun, served, overlaps>>
  /\ CallOf

\* set_settings: the interval there is, ...
SetReads(s, interval) ==
  /\ sets[s].pc = "idle" /\ Event
  /\ sets' = [sets EXCEPT ![s] = [pc |-> "read", before |-> config.interval, to |-> interval]]
  /\ overlaps' = (overlaps \/ \E t \in Setters \ {s} : sets[t].pc = "read")
  /\ UNCHANGED <<account, requested, permit, asks, signs, edit, store, told, begun, served>> /\ CallOf

\* Mutant: a new interval is for the round after the next.
Differs_Never(old, new) == FALSE

Differs(old, new) == old # new

\* ... the new one under the config's lock, ...
SetSaves(s) ==
  /\ sets[s].pc = "read"
  /\ config' = [config EXCEPT !.interval = sets[s].to]
  /\ sets' = [sets EXCEPT ![s] = IF Differs(sets[s].before, sets[s].to)
                                 THEN [NoSet EXCEPT !.pc = "saved"] ELSE NoSet]
  /\ UNCHANGED <<cached, mutex, requested, permit, asks, signs, edit, store, told, used, begun,
                 served, overlaps>>
  /\ CallOf

\* ... and the loop is told if they differ.
SetWakes(s) ==
  /\ sets[s].pc = "saved"
  /\ sets' = [sets EXCEPT ![s] = NoSet] /\ permit' = [permit EXCEPT !.settings = TRUE]
  /\ UNCHANGED <<account, requested, asks, signs, edit, store, told, used, begun, served, overlaps>>
  /\ CallOf

\* adopt_account with its account, logout with none; the keyring's part is done.
SignBegins(s, who) ==
  /\ signs[s].pc = "idle" /\ Event
  /\ signs' = [signs EXCEPT ![s] = [pc |-> "config", account |-> who, reset |-> FALSE]]
  /\ UNCHANGED <<account, requested, permit, asks, sets, edit, store, told, begun, served, overlaps>>
  /\ CallOf

\* The old account's data go, but signing in again with the same keeps them.
Replaces(who) == who = None \/ config.account \notin {None, who}

SignSaves(s) ==
  LET who == signs[s].account IN
  /\ signs[s].pc = "config"
  /\ config' = [config EXCEPT !.account = who]
  /\ signs' = [signs EXCEPT ![s] = [pc |-> "client", account |-> who, reset |-> Replaces(who)]]
  /\ UNCHANGED <<cached, mutex, requested, permit, asks, sets, edit, store, told, used, begun,
                 served, overlaps>>
  /\ CallOf

\* Mutant: the lock is not waited for.
ClientFree_Always == TRUE

ClientFree == mutex = None

SignDrops(s) ==
  /\ signs[s].pc = "client" /\ ClientFree
  /\ cached' = None
  /\ signs' = [signs EXCEPT ![s].pc = IF signs[s].reset THEN "store" ELSE "status"]
  /\ UNCHANGED <<config, mutex, requested, permit, asks, sets, edit, store, told, used, begun,
                 served, overlaps>>
  /\ CallOf

\* reset_store: no lists, no tasks, and clients hear of it.
SignResets(s) ==
  /\ signs[s].pc = "store"
  /\ unsent' = FALSE /\ news' = Parts /\ untold' = TRUE /\ SaysChanged
  /\ signs' = [signs EXCEPT ![s].pc = "status"]
  /\ UNCHANGED <<account, requested, permit, asks, sets, edit, used, begun, served, overlaps>>
  /\ CallOf

SignSays(s) ==
  /\ signs[s].pc = "status"
  /\ IF signs[s].account = None THEN Says("NoAccount") /\ UNCHANGED permit ELSE Says("Idle") /\ Wake
  /\ signs' = [signs EXCEPT ![s] = NoSign]
  /\ UNCHANGED <<account, requested, asks, sets, edit, store, used, begun, served, overlaps>>
  /\ CallOf

CallStep ==
  \/ \E a \in Askers : AskWakes(a) \/ AskAnswered(a)
  \/ EditTold
  \/ \E s \in Setters : SetSaves(s) \/ SetWakes(s)
  \/ \E s \in Signers : SignSaves(s) \/ SignDrops(s) \/ SignResets(s) \/ SignSays(s)

\* What people begin.
PeopleStep ==
  \/ \E a \in Askers : Ask(a)
  \/ EditMade
  \/ \E s \in Setters, i \in Intervals : SetReads(s, i)
  \/ \E s \in Signers, who \in Accounts \cup {None} : SignBegins(s, who)

-----------------------------------------------------------------------------

\* pump: what there is goes to clients, one Changed last.
Pump ==
  /\ mail # [changed |-> FALSE, status |-> None]
  /\ heard' = IF mail.status # None THEN mail.status ELSE heard
  /\ untold' = (untold /\ ~mail.changed)
  /\ mail' = [changed |-> FALSE, status |-> None]
  /\ UNCHANGED <<account, pc, round, counts, permit, asks, sets, signs, edit, unsent, news, status,
                 used, ghosts>>

Around == UNCHANGED <<account, pc, round, counts, asks, sets, signs, edit, unsent, untold, told, ghosts>>

\* The phone, or another machine.
ServerChanges(part) ==
  /\ part \notin news /\ Event
  /\ news' = news \cup {part} /\ UNCHANGED permit /\ Around

\* The machine wakes up or is back online (system.rs).
MachineWakes == ~permit.sync /\ Event /\ Wake /\ UNCHANGED news /\ Around

Init ==
  /\ config = First /\ cached = None /\ mutex = None
  /\ pc = "start" /\ gen = 0 /\ using = None /\ left = {} /\ changed = FALSE
  /\ armed = None /\ went = FALSE
  /\ requested = 0 /\ completed = 0
  /\ permit = [sync |-> FALSE, settings |-> FALSE]
  /\ asks = [a \in Askers |-> NoAsk]
  /\ sets = [s \in Setters |-> NoSet]
  /\ signs = [s \in Signers |-> NoSign]
  /\ edit = FALSE /\ unsent = FALSE /\ news = {} /\ untold = FALSE
  /\ status = (IF First.account = None THEN "NoAccount" ELSE "Idle")
  /\ mail = [changed |-> FALSE, status |-> None] /\ heard = status
  /\ used = [events |-> 0, faults |-> 0]
  /\ begun = {} /\ served = {} /\ overlaps = FALSE /\ dropped = FALSE

Next ==
  \/ LoopStep \/ CallStep \/ PeopleStep \/ Pump \/ MachineWakes
  \/ \E part \in Parts : ServerChanges(part)

Spec == Init /\ [][Next]_vars

\* The loop is a task of its own, whose calls have timeouts and whose timer fires; so
\* are the pump and each call.
Fairness == WF_vars(LoopStep) /\ WF_vars(Pump) /\ WF_vars(CallStep)

FairSpec == Spec /\ Fairness

-----------------------------------------------------------------------------
(***************************************************************************)
(* Properties.                                                             *)
(***************************************************************************)

States == {"Idle", "Syncing", "Failed", "NoAccount"}
Places == {"start", "client", "password", "push", "pull", "drop", "answer", "sleep",
           "debounce"}

\* Every variable has its type, and the client's lock is held for the password only.
TypeOK ==
  /\ config \in [account : Accounts \cup {None}, interval : Intervals]
  /\ cached \in Accounts \cup {None} /\ mutex \in {None, "loop"}
  /\ pc \in Places /\ (mutex = "loop" <=> pc = "password")
  /\ gen \in Nat /\ using \in Accounts \cup {None} /\ left \subseteq Parts
  /\ changed \in BOOLEAN /\ armed \in Intervals \cup {None} /\ went \in BOOLEAN
  /\ requested \in Nat /\ completed \in Nat
  /\ permit \in [sync : BOOLEAN, settings : BOOLEAN]
  /\ asks \in [Askers -> [pc : {"idle", "asked", "waiting"}, want : Nat]]
  /\ sets \in [Setters -> [pc : {"idle", "read", "saved"}, before : Intervals \cup {None},
                           to : Intervals \cup {None}]]
  /\ signs \in [Signers -> [pc : {"idle", "config", "client", "store", "status"},
                            account : Accounts \cup {None}, reset : BOOLEAN]]
  /\ edit \in BOOLEAN /\ unsent \in BOOLEAN /\ news \subseteq Parts /\ untold \in BOOLEAN
  /\ status \in States /\ heard \in States
  /\ mail \in [changed : BOOLEAN, status : States \cup {None}]
  /\ used \in [events : Nat, faults : Nat]
  /\ begun \subseteq Askers /\ served \subseteq Askers /\ overlaps \in BOOLEAN /\ dropped \in BOOLEAN

\* Who asked for a round is answered by one that began after they asked, though asks
\* share a counter, permits coalesce and a round may be under way.
AnsweredByALaterRound ==
  \A a \in Askers : asks[a].pc # "idle" /\ completed >= asks[a].want => a \in served

\* The loop does not sleep on work: who waits for a round, and an edit that was made
\* while a round was under way, have left it a permit.
NeverSleepsOnWork ==
  pc = "sleep" =>
    /\ \A a \in Askers : asks[a].pc = "waiting" /\ completed < asks[a].want => permit.sync
    /\ unsent /\ went /\ ~edit => permit.sync

\* A client of an account that is no longer the one signed in is about to be dropped,
\* also when it was being made while people signed in or out.
ClientIsTheAccounts ==
  cached \notin {None, config.account} => \E s \in Signers : signs[s].pc = "client"

\* The loop sleeps for the interval that is set, or is about to be told of it; but
\* where two calls set it at once.
SleepsAsSet ==
  pc = "sleep" /\ armed # config.interval =>
    permit.settings \/ overlaps \/ \E s \in Setters : sets[s].pc = "saved"

\* What changed in the store is told, or about to be; but what a round changed that
\* then failed.
ChangesAreTold ==
  untold => mail.changed \/ edit \/ (pc = "pull" /\ changed) \/ dropped

\* Clients come to know whether an account is signed in, also when it went or came
\* during a round of another.
SignInIsHeard ==
  \A signedIn \in BOOLEAN :
    <>[]((config.account # None) = signedIn) => <>[]((heard # "NoAccount") = signedIn)

Asking == {a \in Askers : asks[a].pc # "idle"}
InRound == pc \notin {"start", "sleep", "debounce"}

\* Rounds, as who asks sees them: the loop and the counters implement it, whatever
\* fails, is signed in or out, or is set meanwhile.
Promise ==
  INSTANCE Rounds WITH
    asking   <- Asking,
    running  <- InRound,
    counted  <- begun,
    answered <- served

\* Every call of sync_and_wait is answered, after a round that began after it.
RoundsArePromised == Promise!FairSpec

=============================================================================
