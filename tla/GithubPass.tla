----------------------------- MODULE GithubPass -----------------------------
(***************************************************************************)
(* A list linked to a GitHub repo (asst-core/src/github.rs plans,          *)
(* asstd/src/github.rs carries out): a pass reads every issue, compares    *)
(* issues, tasks and the pairs under the store's lock, and then carries    *)
(* out what it planned, one operation after the other, with requests to    *)
(* GitHub in between and nothing locked.  Meanwhile the user changes tasks *)
(* and the link, others change issues, calls are refused or lost, asstd    *)
(* dies, and GitHub's listing may lag.                                     *)
(*                                                                         *)
(* A pass begins only where the look at the repo found the linked one; how *)
(* that is told is not the subject here.  An issue or a task is its title, *)
(* its notes and whether it is open (priority is merged as the notes are). *)
(* The order of a pass's operations is left open: no two of them are about *)
(* the same issue or the same task.                                        *)
(***************************************************************************)
EXTENDS Naturals, FiniteSets

CONSTANTS
  Lists,      \* lists
  Uids,       \* tasks, by UID, in the order they are given out
  Repeating,  \* the tasks among them that repeat: completed, they stay open
  Numbers,    \* issue numbers
  Titles,     \* titles
  Notes,      \* notes, or an issue's body
  MaxUser,    \* bound: the user's changes to tasks
  MaxGithub,  \* bound: changes on GitHub
  MaxLinks,   \* bound: links made and dropped
  MaxFaults,  \* bound: lost and refused calls, crashes, listings that lag
  MaxEvents   \* bound: all of these together

ASSUME NumbersAssumption == Numbers \subseteq Nat \ {0}
ASSUME UidsAssumption == Uids \subseteq Nat \ {0} /\ Repeating \subseteq Uids
ASSUME ItemsAssumption == Titles # {} /\ Notes # {}
ASSUME NowhereAssumption == "nowhere" \notin Lists
ASSUME BoundsAssumption == {MaxUser, MaxGithub, MaxLinks, MaxFaults, MaxEvents} \subseteq Nat

VARIABLES
  tasks,    \* uid -> the list its row is in, and what it says
  born,     \* the uids given out
  issues,   \* GitHub: number -> "none", "here" or "gone", and what it says
  older,    \* the issues before the last change to them
  link,     \* table gh_links: the list the repo is tied to
  pairs,    \* table gh_pairs: number -> uid, and what the two last agreed on
  pc,       \* where the pass is
  list,     \* the list it is for, as it read the link
  listing,  \* every issue, as GitHub listed them
  ops,      \* what it has still to do
  op,       \* what it is doing
  answer,   \* GitHub's answer to the call
  used,     \* how much of each bound is used
  over,     \* history: issues that were ever closed, deleted or transferred
  touched,  \* history: what people changed of tasks and issues
  made,     \* history: how many tasks and issues people made, moved or reopened
  crossed   \* history: the link was made or dropped during a pass

store  == <<tasks, born>>
github == <<issues, older>>
ties   == <<link, pairs>>
work   == <<list, listing, ops, op, answer>>
ghosts == <<over, touched, made, crossed>>
vars   == <<store, github, ties, pc, work, used, ghosts>>

Nowhere == "nowhere"
Nobody == 0

Fields == {"title", "notes", "open"}

Item == [title : Titles, notes : Notes, open : BOOLEAN]

Blank == [title |-> CHOOSE t \in Titles : TRUE, notes |-> CHOOSE n \in Notes : TRUE, open |-> FALSE]

NoIssue == [state |-> "none", item |-> Blank]
NoTask  == [list |-> Nowhere, item |-> Blank]
NoPair  == [uid |-> Nobody, item |-> Blank]

Op(kind, n, u, item) ==
  [kind |-> kind, number |-> n, uid |-> u, task |-> {}, issue |-> {}, item |-> item]

NoOp == Op("none", 0, Nobody, Blank)

NoAnswer == [ok |-> FALSE, number |-> 0]

NoPairs == [n \in Numbers |-> NoPair]
NoListing == [n \in Numbers |-> NoIssue]

Within == used.user + used.github + used.link + used.fault < MaxEvents

User == Within /\ used.user < MaxUser /\ used' = [used EXCEPT !.user = @ + 1]
Github == Within /\ used.github < MaxGithub /\ used' = [used EXCEPT !.github = @ + 1]
Links == Within /\ used.link < MaxLinks /\ used' = [used EXCEPT !.link = @ + 1]
Fault == Within /\ used.fault < MaxFaults /\ used' = [used EXCEPT !.fault = @ + 1]

\* What comes next, of what is numbered.
Least(S) == {x \in S : \A y \in S : x <= y}

Unborn(S) == Least(S \ born)

-----------------------------------------------------------------------------
(***************************************************************************)
(* The plan: what issues, tasks and pairs ask for (github.rs plan, merge). *)
(***************************************************************************)

InList(u) == tasks[u].list = list

Listed(n) == listing[n].state = "here"

Paired == {n \in Numbers : pairs[n].uid # Nobody}

\* merge: a side that moved from the base wins, the issue when both did.
Agreed(base, issue, task) ==
  [title |-> IF issue.title # base.title THEN issue.title ELSE task.title,
   notes |-> IF issue.notes # base.notes THEN issue.notes ELSE task.notes,
   open  |-> IF issue.open # base.open THEN issue.open ELSE task.open]

\* The fields a side has to take over.
Differing(item, agreed) == {f \in Fields : item[f] # agreed[f]}

MergeOp(n) ==
  LET u == pairs[n].uid
      agreed == Agreed(pairs[n].item, listing[n].item, tasks[u].item)
  IN  [kind |-> "merge", number |-> n, uid |-> u, item |-> agreed,
       task |-> Differing(tasks[u].item, agreed),
       issue |-> Differing(listing[n].item, agreed)]

\* Mutant: only the issue is compared with the base.
Moved_IssueOnly(n) == listing[n].item # pairs[n].item

\* A pair of which a side moved.
Moved(n) == ~(listing[n].item = pairs[n].item /\ tasks[pairs[n].uid].item = pairs[n].item)

\* Mutant: the task that left the list has its issue closed whatever the listing
\* says, and the other way round.
PairOps_Swapped ==
  {MergeOp(n) : n \in {k \in Paired : Listed(k) /\ InList(pairs[k].uid) /\ Moved(k)}}
  \cup {Op("complete", n, pairs[n].uid, Blank) :
          n \in {k \in Paired : Listed(k) /\ ~InList(pairs[k].uid) /\ listing[k].item.open}}
  \cup {Op("close", n, pairs[n].uid, Blank) :
          n \in {k \in Paired : ~Listed(k) /\ InList(pairs[k].uid) /\ tasks[pairs[k].uid].item.open}}

\* What each pair needs.
PairOps ==
  {MergeOp(n) : n \in {k \in Paired : Listed(k) /\ InList(pairs[k].uid) /\ Moved(k)}}
  \cup {Op("close", n, pairs[n].uid, Blank) :
          n \in {k \in Paired : Listed(k) /\ ~InList(pairs[k].uid) /\ listing[k].item.open}}
  \cup {Op("complete", n, pairs[n].uid, Blank) :
          n \in {k \in Paired : ~Listed(k) /\ InList(pairs[k].uid) /\ tasks[pairs[k].uid].item.open}}
  \cup {Op("unpair", n, pairs[n].uid, Blank) :
          n \in {k \in Paired : IF Listed(k)
                                THEN ~InList(pairs[k].uid) /\ ~listing[k].item.open
                                ELSE ~InList(pairs[k].uid) \/ ~tasks[pairs[k].uid].item.open}}

\* Mutant: paired tasks too.
FreeTasks_Paired == {u \in Uids : InList(u) /\ tasks[u].item.open}

FreeTasks == {u \in Uids : InList(u) /\ tasks[u].item.open /\ \A n \in Numbers : pairs[n].uid # u}

FreeIssues == {n \in Numbers \ Paired : Listed(n) /\ listing[n].item.open}

Alike == {m \in FreeIssues \X FreeTasks : listing[m[1]].item.title = tasks[m[2]].item.title}

Taken(ms, i, x) == \E m \in ms : m[i] = x

\* An open issue and an open task with the same title, each at most once, and as
\* many as there are.
Matchings ==
  {ms \in SUBSET Alike :
     /\ \A a, b \in ms : a[1] = b[1] \/ a[2] = b[2] => a = b
     /\ \A m \in Alike : Taken(ms, 1, m[1]) \/ Taken(ms, 2, m[2])}

\* Mutant: nothing is paired by its title.
FreeOps_NoAdoption(ms) ==
  {Op("newtask", n, Nobody, listing[n].item) : n \in FreeIssues}
  \cup {Op("newissue", 0, u, tasks[u].item) : u \in FreeTasks}

\* What has no pair: paired by title, or made on the other side.
FreeOps(ms) ==
  {Op("adopt", m[1], m[2], listing[m[1]].item) : m \in ms}
  \cup {Op("newtask", n, Nobody, listing[n].item) : n \in {k \in FreeIssues : ~Taken(ms, 1, k)}}
  \cup {Op("newissue", 0, u, tasks[u].item) : u \in {v \in FreeTasks : ~Taken(ms, 2, v)}}

-----------------------------------------------------------------------------
(***************************************************************************)
(* The pass.                                                               *)
(***************************************************************************)

EndPass ==
  /\ pc' = "idle" /\ list' = Nowhere /\ listing' = NoListing
  /\ ops' = {} /\ op' = NoOp /\ answer' = NoAnswer

\* No repo is linked: the round has nothing to do.
NotLinked == pc = "idle" /\ link = Nowhere /\ UNCHANGED vars

\* The links are read, then the repo's issues, which may come from before the last
\* change.
ReadIssues ==
  /\ pc = "idle" /\ link # Nowhere
  /\ list' = link
  /\ \/ listing' = issues /\ UNCHANGED used
     \/ listing' = older /\ older # issues /\ Fault
  /\ pc' = "read"
  /\ UNCHANGED <<store, github, ties, ops, op, answer, ghosts>>

Plan ==
  /\ pc = "read"
  /\ \E ms \in Matchings : ops' = PairOps \cup FreeOps(ms)
  /\ pc' = "apply"
  /\ UNCHANGED <<store, github, ties, list, listing, op, answer, used, ghosts>>

\* A row of the list as it was read: one that moved has another href.
Here(u) == u \in Uids /\ InList(u)

\* edit_task: a repeating task that is completed goes on.
Edited(u, fields, item) ==
  [tasks EXCEPT ![u].item =
     [title |-> IF "title" \in fields THEN item.title ELSE @.title,
      notes |-> IF "notes" \in fields THEN item.notes ELSE @.notes,
      open  |-> IF "open" \in fields
                THEN item.open \/ (u \in Repeating /\ @.open) ELSE @.open]]

Doing(o) == op' = o /\ ops' = ops \ {o}

Dropped(o) == op' = NoOp /\ ops' = ops \ {o} /\ pc' = "apply"

\* A pair where a side moved: the task first.
Merge ==
  /\ pc = "apply"
  /\ \E o \in {x \in ops : x.kind = "merge"} :
       IF o.task # {} /\ ~Here(o.uid)
       THEN Dropped(o) /\ UNCHANGED <<tasks, answer>>
       ELSE /\ tasks' = IF o.task = {} THEN tasks ELSE Edited(o.uid, o.task, o.item)
            /\ Doing(o)
            /\ IF o.issue = {}
               THEN pc' = "answered" /\ answer' = [ok |-> TRUE, number |-> o.number]
               ELSE pc' = "call" /\ UNCHANGED answer
  /\ UNCHANGED <<born, github, ties, list, listing, used, ghosts>>

\* CloseIssue, CompleteTask and NewIssue ask GitHub first.
Ask ==
  /\ pc = "apply"
  /\ \E o \in {x \in ops : x.kind \in {"close", "complete", "newissue"}} : Doing(o)
  /\ pc' = "call"
  /\ UNCHANGED <<store, github, ties, list, listing, answer, used, ghosts>>

\* gh_pair: refused where the repo is no longer linked (the foreign key).
StorePair(n, u, item) ==
  pairs' = IF link = Nowhere THEN pairs ELSE [pairs EXCEPT ![n] = [uid |-> u, item |-> item]]

Opened(item) == [item EXCEPT !.open = TRUE]

Adopt ==
  /\ pc = "apply"
  /\ \E o \in {x \in ops : x.kind = "adopt"} :
       StorePair(o.number, o.uid, Opened(o.item)) /\ Dropped(o)
  /\ UNCHANGED <<store, github, link, list, listing, answer, used, ghosts>>

Unpair ==
  /\ pc = "apply"
  /\ \E o \in {x \in ops : x.kind = "unpair"} :
       pairs' = [pairs EXCEPT ![o.number] = NoPair] /\ Dropped(o)
  /\ UNCHANGED <<store, github, link, list, listing, answer, used, ghosts>>

Insert(u, item) ==
  /\ born' = born \cup {u}
  /\ tasks' = [tasks EXCEPT ![u] = [list |-> list, item |-> item]]

\* The task is made and paired under one lock.
NewTask ==
  /\ pc = "apply"
  /\ \E o \in {x \in ops : x.kind = "newtask"}, u \in Unborn(Uids \ Repeating) :
       Insert(u, Opened(o.item)) /\ StorePair(o.number, u, Opened(o.item)) /\ Dropped(o)
  /\ UNCHANGED <<github, link, list, listing, answer, used, ghosts>>

-----------------------------------------------------------------------------
(***************************************************************************)
(* GitHub takes a call, and its answer is carried out.                     *)
(***************************************************************************)

SetIssue(n, state, item) ==
  /\ issues' = [issues EXCEPT ![n] = [state |-> state, item |-> item]]
  /\ older' = issues
  /\ over' = IF state = "gone" \/ ~item.open THEN over \cup {n} ELSE over

Exists(n) == n \in Numbers /\ issues[n].state = "here"

\* PATCH: the fields that changed, or closed as not planned.
Patched(o) ==
  LET was == issues[o.number].item IN
  [title |-> IF "title" \in o.issue THEN o.item.title ELSE was.title,
   notes |-> IF "notes" \in o.issue THEN o.item.notes ELSE was.notes,
   open  |-> IF o.kind = "close" THEN FALSE
             ELSE IF "open" \in o.issue THEN o.item.open ELSE was.open]

Update ==
  /\ pc = "call" /\ op.kind \in {"merge", "close"}
  /\ answer' = [ok |-> Exists(op.number), number |-> op.number]
  /\ IF Exists(op.number)
     THEN SetIssue(op.number, "here", Patched(op))
     ELSE UNCHANGED <<github, over>>
  /\ pc' = "answered"
  /\ UNCHANGED <<store, ties, list, listing, ops, op, used, touched, made, crossed>>

\* Is the issue there?
Look ==
  /\ pc = "call" /\ op.kind = "complete"
  /\ answer' = [ok |-> Exists(op.number), number |-> op.number]
  /\ pc' = "answered"
  /\ UNCHANGED <<store, github, ties, list, listing, ops, op, used, ghosts>>

NextNumber == Least({n \in Numbers : issues[n].state = "none"})

Create ==
  /\ pc = "call" /\ op.kind = "newissue"
  /\ \E n \in NextNumber :
       /\ SetIssue(n, "here", Opened(op.item))
       /\ answer' = [ok |-> TRUE, number |-> n]
  /\ pc' = "answered"
  /\ UNCHANGED <<store, ties, list, listing, ops, op, used, touched, made, crossed>>

Answered(kinds) ==
  /\ pc = "answered" /\ op.kind \in kinds
  /\ pc' = "apply" /\ op' = NoOp /\ answer' = NoAnswer
  /\ UNCHANGED <<born, github, link, list, listing, ops, used, ghosts>>

\* A merge GitHub took, or the issue it made, is remembered; one that failed is
\* found again.
Remember ==
  /\ Answered({"merge", "newissue"})
  /\ IF answer.ok
     THEN StorePair(answer.number, op.uid,
                    IF op.kind = "merge" THEN op.item ELSE Opened(op.item))
     ELSE UNCHANGED pairs
  /\ UNCHANGED tasks

\* Closed, or deleted already.  One that was transferred answers with a redirect,
\* which is an error: the next pass finds it.
Closed ==
  /\ Answered({"close"})
  /\ \/ pairs' = [pairs EXCEPT ![op.number] = NoPair]
     \/ ~answer.ok /\ UNCHANGED pairs
  /\ UNCHANGED tasks

\* Mutant: the listing is believed.
IssueGone_Believed(a) == TRUE

IssueGone(a) == ~a.ok

\* The issue really is gone: the task is completed.
CompleteTask ==
  /\ Answered({"complete"})
  /\ IF IssueGone(answer) /\ Here(op.uid)
     THEN /\ tasks' = Edited(op.uid, {"open"}, Blank)
          /\ pairs' = [pairs EXCEPT ![op.number] = NoPair]
     ELSE UNCHANGED <<tasks, pairs>>

PassDone ==
  /\ pc = "apply" /\ ops = {}
  /\ EndPass
  /\ UNCHANGED <<store, github, ties, used, ghosts>>

-----------------------------------------------------------------------------
(***************************************************************************)
(* The user: tasks, here or on other devices, and the link.                *)
(***************************************************************************)

Calm == UNCHANGED <<github, pc, work>>

SetTask(u, task) == tasks' = [tasks EXCEPT ![u] = task]

Touched(kind, x, what) == touched' = touched \cup {<<kind, x, what>>}

Made(one) == made' = IF one THEN made + 1 ELSE made

AddTask(u, l) ==
  /\ User
  /\ \E item \in Item : item.open /\ SetTask(u, [list |-> l, item |-> item])
  /\ born' = born \cup {u} /\ Made(TRUE)
  /\ UNCHANGED <<ties, over, touched, crossed>> /\ Calm

EditTask(u, f) ==
  /\ tasks[u].list # Nowhere /\ User
  /\ \E item \in Item :
       /\ \A g \in Fields : item[g] # tasks[u].item[g] <=> g = f
       /\ f = "open" /\ u \in Repeating => item.open
       /\ SetTask(u, [list |-> tasks[u].list, item |-> item])
       /\ Made(f = "open" /\ item.open)
  /\ Touched("task", u, f)
  /\ UNCHANGED <<born, ties, over, crossed>> /\ Calm

\* Deleted, or moved to another list: its row in this one is gone.
TakeTask(u, l) ==
  /\ tasks[u].list \notin {Nowhere, l} /\ User
  /\ SetTask(u, [list |-> l, item |-> IF l = Nowhere THEN Blank ELSE tasks[u].item])
  /\ Touched("task", u, "list") /\ Made(l # Nowhere)
  /\ UNCHANGED <<born, ties, over, crossed>> /\ Calm

Cross == crossed' = (crossed \/ pc # "idle")

\* One list per repo; a link is not moved, it is dropped first.
Link(l) ==
  /\ link = Nowhere /\ Links
  /\ link' = l /\ Cross
  /\ UNCHANGED <<store, pairs, over, touched, made>> /\ Calm

\* The pairs go with it.
Unlink ==
  /\ link # Nowhere /\ Links
  /\ link' = Nowhere /\ pairs' = NoPairs /\ Cross
  /\ UNCHANGED <<store, over, touched, made>> /\ Calm

-----------------------------------------------------------------------------
(***************************************************************************)
(* GitHub's users, and what goes wrong.                                    *)
(***************************************************************************)

Away == UNCHANGED <<store, ties, pc, work, crossed>>

GithubOpens ==
  /\ Github
  /\ \E n \in NextNumber, item \in Item : item.open /\ SetIssue(n, "here", item)
  /\ Made(TRUE) /\ UNCHANGED touched /\ Away

GithubEdits(n, f) ==
  /\ Exists(n) /\ Github
  /\ \E item \in Item :
       /\ \A g \in Fields : item[g] # issues[n].item[g] <=> g = f
       /\ SetIssue(n, "here", item)
       /\ Made(f = "open" /\ item.open)
  /\ Touched("issue", n, f) /\ Away

\* Deleted, or transferred to another repo.
GithubDeletes(n) ==
  /\ Exists(n) /\ Github
  /\ SetIssue(n, "gone", Blank)
  /\ Touched("issue", n, "list") /\ UNCHANGED made /\ Away

\* A call or its answer is lost, or asstd dies: whether GitHub took the call depends
\* on where.
PassFails ==
  /\ pc # "idle" /\ Fault
  /\ EndPass
  /\ UNCHANGED <<store, github, ties, ghosts>>

\* GitHub refuses the call: it is left for the next pass.
Refused ==
  /\ pc = "call" /\ Fault
  /\ pc' = "apply" /\ op' = NoOp
  /\ UNCHANGED <<store, github, ties, list, listing, ops, answer, ghosts>>

\* asstd dies after a task was made for an issue and before the pair.
DiesUnpaired ==
  /\ pc = "apply" /\ Fault
  /\ \E o \in {x \in ops : x.kind = "newtask"}, u \in Unborn(Uids \ Repeating) :
       Insert(u, Opened(o.item))
  /\ EndPass
  /\ UNCHANGED <<github, ties, ghosts>>

-----------------------------------------------------------------------------

Init ==
  /\ tasks = [u \in Uids |-> NoTask] /\ born = {}
  /\ issues = NoListing /\ older = NoListing
  /\ link = Nowhere /\ pairs = NoPairs
  /\ pc = "idle" /\ list = Nowhere /\ listing = NoListing
  /\ ops = {} /\ op = NoOp /\ answer = NoAnswer
  /\ used = [user |-> 0, github |-> 0, link |-> 0, fault |-> 0]
  /\ over = {} /\ touched = {} /\ made = 0 /\ crossed = FALSE

PassStep ==
  \/ NotLinked \/ ReadIssues \/ Plan \/ Merge \/ Ask \/ Adopt \/ Unpair \/ NewTask
  \/ Update \/ Look \/ Create \/ Remember \/ Closed \/ CompleteTask \/ PassDone

UserStep ==
  \/ \E u \in Unborn(Repeating) \cup Unborn(Uids \ Repeating), l \in Lists : AddTask(u, l)
  \/ \E u \in Uids, f \in Fields : EditTask(u, f)
  \/ \E u \in Uids, l \in Lists \cup {Nowhere} : TakeTask(u, l)
  \/ \E l \in Lists : Link(l)
  \/ Unlink

GithubStep ==
  \/ GithubOpens
  \/ \E n \in Numbers : GithubDeletes(n) \/ \E f \in Fields : GithubEdits(n, f)

FaultStep == PassFails \/ Refused \/ DiesUnpaired

Next == PassStep \/ UserStep \/ GithubStep \/ FaultStep

Spec == Init /\ [][Next]_vars

\* The pass is a task of its own, every call has a timeout, and a round comes at
\* the latest when the interval is over.
Fairness == WF_vars(PassStep)

FairSpec == Spec /\ Fairness

-----------------------------------------------------------------------------
(***************************************************************************)
(* Properties.                                                             *)
(***************************************************************************)

States == {"none", "here", "gone"}
Listing == [Numbers -> [state : States, item : Item]]
Kinds == {"none", "merge", "close", "complete", "unpair", "adopt", "newtask", "newissue"}
Operation == [kind : Kinds, number : Numbers \cup {0}, uid : Uids \cup {Nobody},
              task : SUBSET Fields, issue : SUBSET Fields, item : Item]

\* Every variable has its type, and there are pairs only while a list is linked (the
\* foreign key of gh_pairs).
TypeOK ==
  /\ tasks \in [Uids -> [list : Lists \cup {Nowhere}, item : Item]]
  /\ born \subseteq Uids
  /\ issues \in Listing /\ older \in Listing /\ listing \in Listing
  /\ link \in Lists \cup {Nowhere} /\ list \in Lists \cup {Nowhere}
  /\ pairs \in [Numbers -> [uid : Uids \cup {Nobody}, item : Item]]
  /\ link = Nowhere => pairs = NoPairs
  /\ pc \in {"idle", "read", "apply", "call", "answered"}
  /\ pc = "idle" <=> list = Nowhere
  /\ ops \subseteq Operation /\ op \in Operation
  /\ answer \in [ok : BOOLEAN, number : Numbers \cup {0}]
  /\ used \in [user : Nat, github : Nat, link : Nat, fault : Nat]
  /\ over \subseteq Numbers /\ made \in Nat /\ crossed \in BOOLEAN
  /\ touched \subseteq ({"task"} \X Uids \X (Fields \cup {"list"}))
                \cup ({"issue"} \X Numbers \X (Fields \cup {"list"}))

\* No two issues are paired with the same task: gh_pairs is keyed by the issue, and
\* only the plan keeps a task from getting a second one, whatever the passes that
\* failed, the links made and dropped, and the listings that lagged.
PairsOneToOne ==
  \A m, n \in Paired : pairs[m].uid = pairs[n].uid => m = n

\* A step of the pass, not of the user or of GitHub's.
PeopleRest == used'.user = used.user /\ used'.github = used.github

\* The operations in hand that are about a task.
InHand(u) == {o \in {op, op'} : o.uid = u}

\* A pass completes a task only where its issue was closed, deleted or transferred,
\* not where a listing merely lacks it (CompleteTask asks for the issue first).
CompletedOnlyWhenOver ==
  [][\A u \in Uids :
       PeopleRest /\ tasks[u].item.open /\ ~tasks'[u].item.open
         => \E o \in InHand(u) : o.number \in over]_vars

\* The task was completed, deleted or moved by its user.
Left(u) == \E what \in {"open", "list"} : <<"task", u, what>> \in touched

\* A pass closes an issue only where its task was completed, deleted or moved, or the
\* issue had been closed before (and its task with it); but for a pass during which
\* the link was dropped.
ClosedOnlyWhenLeft ==
  [][\A n \in Numbers :
       PeopleRest /\ Exists(n) /\ issues[n].item.open /\ ~issues'[n].item.open
         => n \in over \/ Left(op.uid) \/ crossed]_vars

OpenIssues == {n \in Numbers : Exists(n) /\ issues[n].item.open}

OpenTasks == {u \in Uids : link # Nowhere /\ tasks[u].list = link /\ tasks[u].item.open}

Retitled == \E t \in touched : t[3] = "title"

\* Nothing is made twice: there are never more open issues, and never more open
\* tasks in the linked list, than people made, moved in or reopened, also where a
\* pass died between making one and pairing it (the next pass pairs them by title).
\* But for titles that changed, a link dropped, or a listing that lags on top.
NothingTwice ==
  ~Retitled /\ used.link <= 1 /\ used.fault <= 1
    => Cardinality(OpenIssues) <= made /\ Cardinality(OpenTasks) <= made

InStep ==
  /\ OpenTasks \subseteq {pairs[n].uid : n \in OpenIssues}
  /\ \A n \in OpenIssues :
       \E u \in OpenTasks : pairs[n].uid = u /\ tasks[u].item = issues[n].item

\* Once people rest and calls are answered, every open issue has its open task and
\* every open task its issue, and they say the same, for good.
EventuallyInStep == <>[](link # Nowhere => InStep)

=============================================================================
