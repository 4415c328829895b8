-------------------------- MODULE GithubPassProofs --------------------------
(***************************************************************************)
(* That a task is paired with one issue at most, that a pass completes a   *)
(* task only where its issue is over, and closes an issue only where its   *)
(* task was left, for every choice of the constants.  All three follow     *)
(* from an invariant on the operations a pass has planned: two are never   *)
(* about the same task, none is about a task paired with another issue     *)
(* meanwhile, whatever says that an issue is over is right, and a task     *)
(* tied to an issue is open and in the linked list but for what its user   *)
(* did to it or what befell its issue.                                     *)
(*                                                                         *)
(* That nothing is made twice follows from an invariant that counts what   *)
(* is due: the open issues and tasks and those still to be made, those     *)
(* that belong together counted once, are never more than people made.     *)
(***************************************************************************)
EXTENDS GithubPass, TLAPS, FiniteSetTheorems

InWork == ops \cup {op}

\* Two operations are never about the same task.
WorkApart == \A a, b \in InWork : a.uid = b.uid /\ a.uid # Nobody => a = b

\* A task that is about to be paired has no other issue.
PairsApart ==
  \A o \in InWork, n \in Numbers : o.uid # Nobody /\ pairs[n].uid = o.uid => n = o.number

\* A new issue has no number yet, a new task no UID; what is under way was made.
WorkNew ==
  \A o \in InWork : /\ o.kind = "newissue" => o.number = 0
                    /\ o.kind = "newtask" => o.uid = Nobody
                    /\ o.uid # Nobody => o.uid \in born

PairsBorn == \A n \in Numbers : pairs[n].uid # Nobody => pairs[n].uid \in born

TasksBorn == \A u \in Uids : tasks[u].list # Nowhere => u \in born

\* What is being done is no longer to do.
OpTaken ==
  /\ op \notin ops /\ \A o \in ops : o.kind # "none"
  /\ pc \in {"idle", "read", "apply"} => op = NoOp

\* A merge is answered about its own issue.
AnsweredFor == pc = "answered" /\ op.kind = "merge" => answer.number = op.number

Apart == PairsOneToOne /\ WorkApart /\ PairsApart /\ WorkNew /\ PairsBorn

PairInvariant == Apart /\ TasksBorn /\ OpTaken /\ AnsweredFor

\* What the issues, the listing and what came before them say is over, is.
IsOver(is) ==
  \A n \in Numbers : is[n].state = "gone" \/ (is[n].state = "here" /\ ~is[n].item.open) => n \in over

\* What was ever told of was made.
MadeHere(is) == \A n \in Numbers : is[n].state # "none" => issues[n].state # "none"

ToldRight == IsOver(issues) /\ IsOver(older) /\ IsOver(listing) /\ MadeHere(older) /\ MadeHere(listing)

PairsMade == \A n \in Numbers : pairs[n].uid # Nobody => issues[n].state # "none"

WorkMade ==
  \A o \in InWork : o.kind # "none" /\ o.kind # "newissue"
                      => o.number \in Numbers /\ issues[o.number].state # "none"

AnswerMade == pc = "answered" /\ answer.ok /\ answer.number \in Numbers => issues[answer.number].state # "none"

\* A merge that completes its task is of an issue that is over.
MergeTold == \A o \in InWork : o.kind = "merge" /\ "open" \in o.task /\ ~o.item.open => o.number \in over

\* An issue that was asked for and not there is over.
GoneTold == pc = "answered" /\ op.kind = "complete" /\ ~answer.ok => op.number \in over

OverInvariant == ToldRight /\ PairsMade /\ WorkMade /\ AnswerMade /\ MergeTold /\ GoneTold

-----------------------------------------------------------------------------
(* Types. *)

Task == [list : Lists \cup {Nowhere}, item : Item]
Pair == [uid : Uids \cup {Nobody}, item : Item]
Issue == [state : States, item : Item]
Bounds == [user : Nat, github : Nat, link : Nat, fault : Nat]
Answer == [ok : BOOLEAN, number : Numbers \cup {0}]
Touchable == ({"task"} \X Uids \X (Fields \cup {"list"})) \cup ({"issue"} \X Numbers \X (Fields \cup {"list"}))

StoreType == tasks \in [Uids -> Task] /\ born \subseteq Uids
GithubType == issues \in [Numbers -> Issue] /\ older \in [Numbers -> Issue]
TieType ==
  /\ link \in Lists \cup {Nowhere} /\ pairs \in [Numbers -> Pair]
  /\ link = Nowhere => pairs = NoPairs
PassType ==
  /\ pc \in {"idle", "read", "apply", "call", "answered"}
  /\ list \in Lists \cup {Nowhere} /\ (pc = "idle" <=> list = Nowhere)
  /\ listing \in [Numbers -> Issue]
  /\ ops \subseteq Operation /\ op \in Operation /\ answer \in Answer
BoundType == used \in Bounds
GhostType == over \subseteq Numbers /\ made \in Nat /\ crossed \in BOOLEAN /\ touched \subseteq Touchable

LEMMA TypeParts ==
  /\ TypeOK <=> StoreType /\ GithubType /\ TieType /\ PassType /\ BoundType /\ GhostType
  /\ TypeOK' <=> StoreType' /\ GithubType' /\ TieType' /\ PassType' /\ BoundType' /\ GhostType'
BY DEF TypeOK, StoreType, GithubType, TieType, PassType, BoundType, GhostType, Task, Pair, Issue,
   Bounds, Answer, Touchable, Listing

LEMMA BlankType == Blank \in Item
<1>1. (CHOOSE t \in Titles : TRUE) \in Titles /\ (CHOOSE n \in Notes : TRUE) \in Notes
  BY ItemsAssumption
<1> QED BY <1>1 DEF Blank, Item

LEMMA Nothing ==
  /\ NoIssue \in Issue /\ NoTask \in Task /\ NoPair \in Pair /\ NoOp \in Operation
  /\ NoAnswer \in Answer /\ NoPairs \in [Numbers -> Pair] /\ NoListing \in [Numbers -> Issue]
BY BlankType DEF NoIssue, NoTask, NoPair, NoOp, NoAnswer, NoPairs, NoListing, Issue, Task, Pair, Op,
   Operation, Answer, States, Kinds

LEMMA NumbersApart == 0 \notin Uids /\ 0 \notin Numbers /\ Nowhere \notin Lists
BY UidsAssumption, NumbersAssumption, NowhereAssumption DEF Nowhere

LEMMA BoundTypes ==
  ASSUME BoundType
  PROVE  /\ User => used' \in Bounds /\ used'.user = used.user + 1
         /\ Github => used' \in Bounds /\ used'.github = used.github + 1
         /\ Links => used' \in Bounds
         /\ Fault => used' \in Bounds
BY DEF BoundType, Bounds, User, Github, Links, Fault

LEMMA OpenedType ==
  ASSUME NEW item \in Item
  PROVE  Opened(item) \in Item /\ Opened(item).open = TRUE
BY DEF Opened, Item

LEMMA OpType ==
  ASSUME NEW kind \in Kinds, NEW n \in Numbers \cup {0}, NEW u \in Uids \cup {Nobody}, NEW item \in Item
  PROVE  Op(kind, n, u, item) \in Operation
BY DEF Op, Operation

\* A matching pairs free issues with free tasks.
LEMMA MatchingType ==
  ASSUME NEW ms \in Matchings, NEW m \in ms
  PROVE  m[1] \in FreeIssues /\ m[2] \in FreeTasks
BY DEF Matchings, Alike

\* The operations of a plan, kind by kind.
LEMMA FreeOpsKinds ==
  ASSUME NEW ms \in Matchings, NEW o \in FreeOps(ms)
  PROVE  \/ \E m \in ms : o = Op("adopt", m[1], m[2], listing[m[1]].item)
         \/ \E n \in FreeIssues : o = Op("newtask", n, Nobody, listing[n].item)
         \/ \E u \in FreeTasks : ~Taken(ms, 2, u) /\ o = Op("newissue", 0, u, tasks[u].item)
BY DEF FreeOps

LEMMA PairOpsKinds ==
  ASSUME NEW o \in PairOps
  PROVE  \E n \in Paired :
           \/ Listed(n) /\ InList(pairs[n].uid) /\ o = MergeOp(n)
           \/ Listed(n) /\ ~InList(pairs[n].uid) /\ listing[n].item.open
                /\ o = Op("close", n, pairs[n].uid, Blank)
           \/ ~Listed(n) /\ InList(pairs[n].uid) /\ tasks[pairs[n].uid].item.open
                /\ o = Op("complete", n, pairs[n].uid, Blank)
           \/ /\ IF Listed(n) THEN ~InList(pairs[n].uid) /\ ~listing[n].item.open
                 ELSE ~InList(pairs[n].uid) \/ ~tasks[pairs[n].uid].item.open
              /\ o = Op("unpair", n, pairs[n].uid, Blank)
BY DEF PairOps

LEMMA MergeOpType ==
  ASSUME TypeOK, NEW n \in Paired
  PROVE  /\ MergeOp(n) \in Operation
         /\ MergeOp(n).kind = "merge" /\ MergeOp(n).number = n /\ MergeOp(n).uid = pairs[n].uid
<1>1. n \in Numbers /\ pairs[n].uid \in Uids /\ pairs[n].item \in Item
  BY TypeParts DEF Paired, TieType, Pair
<1>2. listing[n].item \in Item /\ tasks[pairs[n].uid].item \in Item
  BY <1>1, TypeParts DEF PassType, StoreType, Issue, Task
<1>3. Agreed(pairs[n].item, listing[n].item, tasks[pairs[n].uid].item) \in Item
  BY <1>1, <1>2 DEF Agreed, Item
<1> QED BY <1>1, <1>3 DEF MergeOp, Operation, Kinds, Differing

LEMMA FreeTypes ==
  ASSUME TypeOK
  PROVE  /\ \A n \in FreeIssues : n \in Numbers /\ listing[n].item \in Item
         /\ \A u \in FreeTasks : u \in Uids /\ tasks[u].item \in Item
BY TypeParts DEF FreeIssues, FreeTasks, PassType, StoreType, Issue, Task

LEMMA PlanType ==
  ASSUME TypeOK, NEW ms \in Matchings
  PROVE  PairOps \cup FreeOps(ms) \subseteq Operation
<1>1. ASSUME NEW o \in PairOps PROVE o \in Operation
  <2>1. \A n \in Paired : n \in Numbers /\ pairs[n].uid \in Uids
    BY TypeParts DEF Paired, TieType, Pair
  <2> QED BY <2>1, PairOpsKinds, MergeOpType, OpType, BlankType DEF Kinds
<1>2. ASSUME NEW o \in FreeOps(ms) PROVE o \in Operation
  <2>1. CASE \E m \in ms : o = Op("adopt", m[1], m[2], listing[m[1]].item)
    BY <2>1, MatchingType, FreeTypes, OpType DEF Kinds
  <2>2. CASE \E n \in FreeIssues : o = Op("newtask", n, Nobody, listing[n].item)
    BY <2>2, FreeTypes, OpType DEF Kinds
  <2>3. CASE \E u \in FreeTasks : o = Op("newissue", 0, u, tasks[u].item)
    BY <2>3, FreeTypes, OpType DEF Kinds
  <2> QED BY <2>1, <2>2, <2>3, FreeOpsKinds
<1> QED BY <1>1, <1>2

-----------------------------------------------------------------------------
(* TypeOK, step by step. *)

LEMMA InsertType ==
  ASSUME TypeOK, NEW u \in Uids, NEW item \in Item, Insert(u, item)
  PROVE  StoreType'
BY TypeParts DEF StoreType, PassType, Insert, Task

LEMMA EditedType ==
  ASSUME TypeOK, NEW u, NEW fields, NEW item \in Item
  PROVE  Edited(u, fields, item) \in [Uids -> Task]
<1>1. ASSUME u \in Uids
      PROVE  [title |-> IF "title" \in fields THEN item.title ELSE tasks[u].item.title,
              notes |-> IF "notes" \in fields THEN item.notes ELSE tasks[u].item.notes,
              open  |-> IF "open" \in fields
                        THEN item.open \/ (u \in Repeating /\ tasks[u].item.open)
                        ELSE tasks[u].item.open] \in Item
  BY <1>1, TypeParts DEF StoreType, Task, Item
<1>2. CASE u \in Uids
  BY <1>1, <1>2, TypeParts DEF Edited, StoreType, Task
<1>3. CASE u \notin Uids
  BY <1>3, TypeParts DEF Edited, StoreType
<1> QED BY <1>2, <1>3

LEMMA StorePairType ==
  ASSUME TieType, NEW n, NEW u \in Uids \cup {Nobody}, NEW item \in Item, StorePair(n, u, item), link' = link
  PROVE  TieType'
BY DEF TieType, StorePair, Pair

LEMMA DropPairType ==
  ASSUME TieType, NEW n, pairs' = [pairs EXCEPT ![n] = NoPair], link' = link
  PROVE  TieType'
<1>1. pairs' \in [Numbers -> Pair]
  BY Nothing DEF TieType
<1>2. link = Nowhere => pairs' = NoPairs
  BY DEF TieType, NoPairs
<1> QED BY <1>1, <1>2 DEF TieType

LEMMA SetIssueType ==
  ASSUME TypeOK, NEW n \in Numbers, NEW state \in States, NEW item \in Item, SetIssue(n, state, item)
  PROVE  GithubType' /\ over' \subseteq Numbers
BY TypeParts DEF GithubType, GhostType, SetIssue, Issue

LEMMA UnbornType == ASSUME NEW S, NEW u \in Unborn(S) PROVE u \in S /\ u \notin born
BY DEF Unborn, Least

LEMMA EndPassType ==
  ASSUME EndPass
  PROVE  PassType'
BY Nothing DEF EndPass, PassType

LEMMA CallAnswerType ==
  ASSUME NEW o \in Operation
  PROVE  [ok |-> Exists(o.number), number |-> o.number] \in Answer
<1>1. Exists(o.number) \in BOOLEAN
  BY DEF Exists
<1>2. o.number \in Numbers \cup {0}
  BY DEF Operation
<1> QED BY <1>1, <1>2 DEF Answer

LEMMA PassTypes ==
  ASSUME TypeOK, PassStep
  PROVE  TypeOK'
<1> USE TypeParts, Nothing
<1> USE DEF store, github, ties, work, ghosts
<1>1. CASE NotLinked
  BY <1>1 DEF NotLinked, vars, StoreType, GithubType, TieType, PassType, BoundType, GhostType
<1>2. CASE ReadIssues
  <2>1. used' \in Bounds
    BY <1>2, BoundTypes DEF ReadIssues, BoundType
  <2>2. listing' \in [Numbers -> Issue]
    BY <1>2 DEF ReadIssues, GithubType
  <2> QED BY <1>2, <2>1, <2>2 DEF ReadIssues, StoreType, GithubType, TieType, PassType, BoundType, GhostType
<1>3. CASE Plan
  <2>1. ops' \subseteq Operation
    BY <1>3, PlanType DEF Plan
  <2> QED BY <1>3, <2>1 DEF Plan, StoreType, GithubType, TieType, PassType, BoundType, GhostType
<1>4. CASE Merge
  <2>1. PICK o \in ops :
          /\ o.kind = "merge"
          /\ IF o.task # {} /\ ~Here(o.uid)
             THEN Dropped(o) /\ UNCHANGED <<tasks, answer>>
             ELSE /\ tasks' = IF o.task = {} THEN tasks ELSE Edited(o.uid, o.task, o.item)
                  /\ Doing(o)
                  /\ IF o.issue = {}
                     THEN pc' = "answered" /\ answer' = [ok |-> TRUE, number |-> o.number]
                     ELSE pc' = "call" /\ UNCHANGED answer
    BY <1>4 DEF Merge
  <2>2. o \in Operation /\ o.item \in Item /\ o.number \in Numbers \cup {0}
    BY <2>1 DEF PassType, Operation
  <2>3. StoreType'
    BY <1>4, <2>1, <2>2, EditedType DEF Merge, StoreType
  <2>4. answer' \in Answer /\ ops' \subseteq Operation /\ op' \in Operation
    <3>1. [ok |-> TRUE, number |-> o.number] \in Answer /\ answer \in Answer
      BY <2>2 DEF Answer, PassType
    <3>2. answer' = answer \/ answer' = [ok |-> TRUE, number |-> o.number]
      BY <2>1 DEF Dropped
    <3>3. ops' = ops \ {o} /\ op' \in {o, NoOp}
      BY <2>1 DEF Dropped, Doing
    <3> QED BY <2>2, <3>1, <3>2, <3>3 DEF PassType
  <2>5. pc' \in {"apply", "answered", "call"}
    BY <2>1 DEF Dropped
  <2>6. PassType'
    BY <1>4, <2>4, <2>5 DEF Merge, PassType
  <2> QED BY <1>4, <2>3, <2>6 DEF Merge, GithubType, TieType, BoundType, GhostType
<1>5. CASE Ask
  BY <1>5 DEF Ask, Doing, StoreType, GithubType, TieType, PassType, BoundType, GhostType
<1>6. CASE Adopt
  <2>1. PICK o \in ops : StorePair(o.number, o.uid, Opened(o.item)) /\ Dropped(o)
    BY <1>6 DEF Adopt
  <2>2. o.uid \in Uids \cup {Nobody} /\ Opened(o.item) \in Item
    BY <2>1, OpenedType DEF PassType, Operation
  <2>3. TieType'
    BY <1>6, <2>1, <2>2, StorePairType DEF Adopt
  <2> QED BY <1>6, <2>1, <2>3 DEF Adopt, Dropped, StoreType, GithubType, PassType, BoundType, GhostType
<1>7. CASE Unpair
  <2>1. TieType'
    BY <1>7, DropPairType DEF Unpair
  <2> QED BY <1>7, <2>1 DEF Unpair, Dropped, StoreType, GithubType, PassType, BoundType, GhostType
<1>8. CASE NewTask
  <2>1. PICK o \in ops, u \in Unborn(Uids \ Repeating) :
          Insert(u, Opened(o.item)) /\ StorePair(o.number, u, Opened(o.item)) /\ Dropped(o)
    BY <1>8 DEF NewTask
  <2>2. u \in Uids /\ Opened(o.item) \in Item
    BY <2>1, OpenedType DEF PassType, Operation, Unborn, Least
  <2>3. StoreType' /\ TieType'
    BY <1>8, <2>1, <2>2, InsertType, StorePairType DEF NewTask
  <2> QED BY <1>8, <2>1, <2>3 DEF NewTask, Dropped, GithubType, PassType, BoundType, GhostType
<1>9. CASE Update
  <2>1. answer' \in Answer
    BY <1>9, CallAnswerType DEF Update, PassType
  <2>2. ASSUME Exists(op.number) PROVE Patched(op) \in Item
    BY <2>2 DEF Exists, Patched, PassType, Operation, GithubType, Issue, Item
  <2>3. GithubType' /\ over' \subseteq Numbers
    BY <1>9, <2>2, SetIssueType DEF Update, Exists, GithubType, GhostType, States
  <2> QED BY <1>9, <2>1, <2>3 DEF Update, StoreType, TieType, PassType, BoundType, GhostType
<1>10. CASE Look
  <2>1. answer' \in Answer
    BY <1>10, CallAnswerType DEF Look, PassType
  <2> QED BY <1>10, <2>1 DEF Look, StoreType, GithubType, TieType, PassType, BoundType, GhostType
<1>11. CASE Create
  <2>1. PICK n \in NextNumber : SetIssue(n, "here", Opened(op.item)) /\ answer' = [ok |-> TRUE, number |-> n]
    BY <1>11 DEF Create
  <2>2. n \in Numbers /\ answer' \in Answer
    BY <2>1 DEF NextNumber, Least, Answer
  <2>3. Opened(op.item) \in Item
    BY OpenedType DEF PassType, Operation
  <2>4. GithubType' /\ over' \subseteq Numbers
    BY <2>1, <2>2, <2>3, SetIssueType DEF States
  <2> QED BY <1>11, <2>2, <2>4 DEF Create, StoreType, TieType, PassType, BoundType, GhostType
<1>12. ASSUME NEW kinds, Answered(kinds), StoreType', TieType'
       PROVE  TypeOK'
  BY <1>12 DEF Answered, GithubType, PassType, BoundType, GhostType
<1>13. CASE Remember
  <2>1. op.uid \in Uids \cup {Nobody} /\ op.item \in Item /\ Opened(op.item) \in Item
    BY OpenedType DEF PassType, Operation
  <2>2. TieType'
    BY <1>13, <2>1, StorePairType DEF Remember, Answered, TieType
  <2>3. StoreType'
    BY <1>13 DEF Remember, Answered, StoreType
  <2> QED BY <1>12, <1>13, <2>2, <2>3 DEF Remember
<1>14. CASE Closed
  <2>1. TieType'
    BY <1>14, DropPairType DEF Closed, Answered, TieType
  <2>2. StoreType'
    BY <1>14 DEF Closed, Answered, StoreType
  <2> QED BY <1>12, <1>14, <2>1, <2>2 DEF Closed
<1>15. CASE CompleteTask
  <2>1. TieType'
    BY <1>15, DropPairType DEF CompleteTask, Answered, TieType
  <2>2. StoreType'
    BY <1>15, EditedType, BlankType DEF CompleteTask, Answered, StoreType
  <2> QED BY <1>12, <1>15, <2>1, <2>2 DEF CompleteTask
<1>16. CASE PassDone
  BY <1>16, EndPassType DEF PassDone, StoreType, GithubType, TieType, BoundType, GhostType
<1> QED BY <1>1, <1>2, <1>3, <1>4, <1>5, <1>6, <1>7, <1>8, <1>9, <1>10, <1>11, <1>13, <1>14, <1>15,
        <1>16 DEF PassStep

LEMMA TouchedType ==
  ASSUME GhostType
  PROVE  /\ \A u \in Uids, f \in Fields \cup {"list"} : Touched("task", u, f) => touched' \subseteq Touchable
         /\ \A n \in Numbers, f \in Fields \cup {"list"} : Touched("issue", n, f) => touched' \subseteq Touchable
BY DEF GhostType, Touched, Touchable

LEMMA MadeType == ASSUME GhostType, NEW one, Made(one) PROVE made' \in Nat
BY DEF GhostType, Made

LEMMA SetTaskType ==
  ASSUME StoreType, NEW u, NEW task \in Task, SetTask(u, task), born' \subseteq Uids
  PROVE  StoreType'
BY DEF StoreType, SetTask

LEMMA CalmTypes ==
  ASSUME TypeOK, Calm
  PROVE  GithubType' /\ PassType'
BY TypeParts DEF Calm, github, work, GithubType, PassType

LEMMA UserTypes ==
  ASSUME TypeOK, UserStep
  PROVE  TypeOK'
<1> USE TypeParts, Nothing
<1> USE DEF store, ties
<1>1. ASSUME NEW u \in Uids, NEW l \in Lists, AddTask(u, l)
      PROVE  TypeOK'
  <2>1. StoreType'
    BY <1>1, SetTaskType DEF AddTask, Task, StoreType
  <2> QED BY <1>1, <2>1, CalmTypes, MadeType, BoundTypes DEF AddTask, TieType, BoundType, GhostType
<1>2. ASSUME NEW u \in Uids, NEW f \in Fields, EditTask(u, f)
      PROVE  TypeOK'
  <2>1. StoreType'
    BY <1>2, SetTaskType DEF EditTask, Task, StoreType
  <2> QED BY <1>2, <2>1, CalmTypes, MadeType, TouchedType, BoundTypes DEF EditTask, TieType, BoundType, GhostType
<1>3. ASSUME NEW u \in Uids, NEW l \in Lists \cup {Nowhere}, TakeTask(u, l)
      PROVE  TypeOK'
  <2>1. [list |-> l, item |-> IF l = Nowhere THEN Blank ELSE tasks[u].item] \in Task
    BY <1>3, BlankType DEF Task, StoreType
  <2>2. StoreType'
    BY <1>3, <2>1, SetTaskType DEF TakeTask, StoreType
  <2> QED BY <1>3, <2>2, CalmTypes, MadeType, TouchedType, BoundTypes DEF TakeTask, TieType, BoundType, GhostType
<1>4. ASSUME NEW l \in Lists, Link(l)
      PROVE  TypeOK'
  <2>1. TieType'
    BY <1>4, NumbersApart DEF Link, TieType
  <2> QED BY <1>4, <2>1, CalmTypes, BoundTypes DEF Link, Cross, StoreType, BoundType, GhostType
<1>5. CASE Unlink
  <2>1. TieType'
    BY <1>5 DEF Unlink, TieType
  <2> QED BY <1>5, <2>1, CalmTypes, BoundTypes DEF Unlink, Cross, StoreType, BoundType, GhostType
<1>6. \A S : Unborn(S) \subseteq S
  BY UnbornType
<1> QED BY <1>1, <1>2, <1>3, <1>4, <1>5, <1>6, UidsAssumption DEF UserStep

LEMMA AwayTypes ==
  ASSUME TypeOK, Away
  PROVE  StoreType' /\ TieType' /\ PassType' /\ crossed' \in BOOLEAN
BY TypeParts DEF Away, store, ties, work, StoreType, TieType, PassType, GhostType

LEMMA GithubTypes ==
  ASSUME TypeOK, GithubStep
  PROVE  TypeOK'
<1> USE TypeParts
<1>1. CASE GithubOpens
  <2>1. \A n \in NextNumber : n \in Numbers
    BY DEF NextNumber, Least
  <2>2. GithubType' /\ over' \subseteq Numbers
    BY <1>1, <2>1, SetIssueType DEF GithubOpens, States
  <2> QED BY <1>1, <2>2, AwayTypes, MadeType, BoundTypes DEF GithubOpens, BoundType, GhostType
<1>2. ASSUME NEW n \in Numbers, NEW f \in Fields, GithubEdits(n, f)
      PROVE  TypeOK'
  <2>1. GithubType' /\ over' \subseteq Numbers
    BY <1>2, SetIssueType DEF GithubEdits, States
  <2> QED BY <1>2, <2>1, AwayTypes, MadeType, TouchedType, BoundTypes DEF GithubEdits, BoundType, GhostType
<1>3. ASSUME NEW n \in Numbers, GithubDeletes(n)
      PROVE  TypeOK'
  <2>1. GithubType' /\ over' \subseteq Numbers
    BY <1>3, SetIssueType, BlankType DEF GithubDeletes, States
  <2> QED BY <1>3, <2>1, AwayTypes, TouchedType, BoundTypes DEF GithubDeletes, BoundType, GhostType
<1> QED BY <1>1, <1>2, <1>3 DEF GithubStep

LEMMA FaultTypes ==
  ASSUME TypeOK, FaultStep
  PROVE  TypeOK'
<1> USE TypeParts, Nothing
<1> USE DEF store, github, ties, ghosts
<1>1. CASE PassFails
  BY <1>1, EndPassType, BoundTypes DEF PassFails, StoreType, GithubType, TieType, BoundType, GhostType
<1>2. CASE Refused
  BY <1>2, BoundTypes DEF Refused, StoreType, GithubType, TieType, PassType, BoundType, GhostType
<1>3. CASE DiesUnpaired
  <2>1. PICK o \in ops, u \in Unborn(Uids \ Repeating) : Insert(u, Opened(o.item))
    BY <1>3 DEF DiesUnpaired
  <2>2. u \in Uids /\ Opened(o.item) \in Item
    BY <2>1, OpenedType DEF PassType, Operation, Unborn, Least
  <2>3. StoreType'
    BY <2>1, <2>2, InsertType
  <2> QED BY <1>3, <2>3, EndPassType, BoundTypes DEF DiesUnpaired, GithubType, TieType, BoundType, GhostType
<1> QED BY <1>1, <1>2, <1>3 DEF FaultStep

LEMMA TypesKept == TypeOK /\ [Next]_vars => TypeOK'
<1> SUFFICES ASSUME TypeOK, [Next]_vars PROVE TypeOK'
  OBVIOUS
<1>1. CASE UNCHANGED vars
  BY <1>1, TypeParts DEF vars, store, github, ties, work, ghosts, StoreType, GithubType, TieType, PassType,
     BoundType, GhostType
<1> QED BY <1>1, PassTypes, UserTypes, GithubTypes, FaultTypes DEF Next

LEMMA TypesBegin == Init => TypeOK
<1> SUFFICES ASSUME Init PROVE TypeOK
  OBVIOUS
<1> USE Nothing DEF Init
<1>1. StoreType /\ GithubType /\ TieType
  BY DEF StoreType, GithubType, TieType
<1>2. PassType
  BY DEF PassType
<1>3. BoundType /\ GhostType
  BY DEF BoundType, GhostType, Bounds
<1> QED BY <1>1, <1>2, <1>3, TypeParts

\* Every variable of GithubPass keeps its type, and pairs go with their link.
THEOREM GithubPassTypes == Spec => []TypeOK
BY TypesBegin, TypesKept, PTL DEF Spec

-----------------------------------------------------------------------------
(* One task, one issue. *)

LEMMA OpFields ==
  ASSUME NEW kind, NEW n, NEW u, NEW item
  PROVE  /\ Op(kind, n, u, item).kind = kind /\ Op(kind, n, u, item).number = n
         /\ Op(kind, n, u, item).uid = u /\ Op(kind, n, u, item).task = {}
BY DEF Op

LEMMA NoOpFields == NoOp.kind = "none" /\ NoOp.number = 0 /\ NoOp.uid = Nobody
BY DEF NoOp, Op

LEMMA PairOpAbout ==
  ASSUME TypeOK, NEW o \in PairOps
  PROVE  /\ \E n \in Paired : o.number = n /\ o.uid = pairs[n].uid
         /\ o.kind \in {"merge", "close", "complete", "unpair"}
BY PairOpsKinds, MergeOpType, OpFields

\* Each pair needs one operation at most.
LEMMA PairOpOne ==
  ASSUME TypeOK, NEW a \in PairOps, NEW b \in PairOps, a.number = b.number
  PROVE  a = b
<1> DEFINE Is(o, n) ==
           \/ Listed(n) /\ InList(pairs[n].uid) /\ o = MergeOp(n)
           \/ Listed(n) /\ ~InList(pairs[n].uid) /\ listing[n].item.open
                /\ o = Op("close", n, pairs[n].uid, Blank)
           \/ ~Listed(n) /\ InList(pairs[n].uid) /\ tasks[pairs[n].uid].item.open
                /\ o = Op("complete", n, pairs[n].uid, Blank)
           \/ /\ IF Listed(n) THEN ~InList(pairs[n].uid) /\ ~listing[n].item.open
                 ELSE ~InList(pairs[n].uid) \/ ~tasks[pairs[n].uid].item.open
              /\ o = Op("unpair", n, pairs[n].uid, Blank)
<1>1. PICK n \in Paired : Is(a, n)
  BY PairOpsKinds
<1>2. PICK m \in Paired : Is(b, m)
  BY PairOpsKinds
<1>3. a.number = n /\ b.number = m
  BY <1>1, <1>2, MergeOpType, OpFields
<1>4. m = n
  BY <1>3
<1> QED BY <1>1, <1>2, <1>4

LEMMA FreeOpAbout ==
  ASSUME NEW ms \in Matchings, NEW o \in FreeOps(ms)
  PROVE  /\ o.uid = Nobody \/ o.uid \in FreeTasks
         /\ o.kind \in {"adopt", "newtask", "newissue"}
         /\ o.kind = "newissue" => o.number = 0
         /\ o.kind = "newtask" => o.uid = Nobody
BY FreeOpsKinds, MatchingType, OpFields

LEMMA FreeOpOne ==
  ASSUME NEW ms \in Matchings, NEW a \in FreeOps(ms), NEW b \in FreeOps(ms), a.uid = b.uid, a.uid # Nobody
  PROVE  a = b
<1> DEFINE Adopts(o, m) == o = Op("adopt", m[1], m[2], listing[m[1]].item)
           Opens(o, u) == ~Taken(ms, 2, u) /\ o = Op("newissue", 0, u, tasks[u].item)
<1>1. ASSUME NEW o \in FreeOps(ms), o.uid # Nobody
      PROVE  (\E m \in ms : Adopts(o, m)) \/ (\E u \in FreeTasks : Opens(o, u))
  BY <1>1, FreeOpsKinds, OpFields
<1>2. CASE (\E m \in ms : Adopts(a, m)) /\ (\E m \in ms : Adopts(b, m))
  <2>1. PICK m \in ms, k \in ms : Adopts(a, m) /\ Adopts(b, k)
    BY <1>2
  <2>2. a.uid = m[2] /\ b.uid = k[2]
    BY <2>1, OpFields
  <2>3. m = k
    BY <2>2 DEF Matchings
  <2> QED BY <2>1, <2>3
<1>3. ASSUME NEW o \in FreeOps(ms), NEW p \in FreeOps(ms), o.uid = p.uid,
             NEW m \in ms, Adopts(o, m), NEW u \in FreeTasks, Opens(p, u)
      PROVE  FALSE
  <2>1. o.uid = m[2] /\ p.uid = u
    BY <1>3, OpFields
  <2> QED BY <1>3, <2>1 DEF Taken
<1>4. CASE (\E u \in FreeTasks : Opens(a, u)) /\ (\E u \in FreeTasks : Opens(b, u))
  BY <1>4, OpFields
<1> QED BY <1>1, <1>2, <1>3, <1>4

LEMMA PlanApart ==
  ASSUME TypeOK, PairInvariant, Plan
  PROVE  Apart' /\ OpTaken'
<1>1. PICK ms \in Matchings : ops' = PairOps \cup FreeOps(ms)
  BY DEF Plan
<1>2. op' = NoOp /\ op = NoOp /\ pairs' = pairs /\ born' = born /\ list # Nowhere
  BY TypeParts DEF Plan, PairInvariant, OpTaken, ties, store, PassType
<1>3. ASSUME NEW u \in FreeTasks PROVE u \in born /\ \A n \in Numbers : pairs[n].uid # u
  BY <1>2, <1>3 DEF FreeTasks, InList, PairInvariant, TasksBorn
<1>4. WorkApart'
  <2> SUFFICES ASSUME NEW a \in InWork', NEW b \in InWork', a.uid = b.uid, a.uid # Nobody PROVE a = b
    BY DEF WorkApart
  <2>1. a \in PairOps \cup FreeOps(ms) /\ b \in PairOps \cup FreeOps(ms)
    BY <1>1, <1>2, NoOpFields DEF InWork
  <2>2. CASE a \in PairOps /\ b \in PairOps
    <3>1. PICK m \in Paired, n \in Paired :
            a.number = m /\ a.uid = pairs[m].uid /\ b.number = n /\ b.uid = pairs[n].uid
      BY <2>2, PairOpAbout
    <3>2. m = n
      BY <3>1 DEF PairInvariant, Apart, PairsOneToOne
    <3> QED BY <2>2, <3>1, <3>2, PairOpOne
  <2>3. CASE a \in FreeOps(ms) /\ b \in FreeOps(ms)
    BY <2>3, FreeOpOne
  <2>4. ASSUME NEW o \in PairOps, NEW p \in FreeOps(ms), o.uid = p.uid, o.uid # Nobody PROVE FALSE
    <3>1. PICK n \in Paired : o.uid = pairs[n].uid
      BY PairOpAbout
    <3>2. p.uid \in FreeTasks
      BY <2>4, FreeOpAbout
    <3> QED BY <1>3, <2>4, <3>1, <3>2 DEF Paired
  <2> QED BY <2>1, <2>2, <2>3, <2>4
<1>5. ASSUME NEW o \in InWork', NEW n \in Numbers, o.uid # Nobody, pairs[n].uid = o.uid PROVE n = o.number
  <2>1. o \in PairOps \cup FreeOps(ms)
    BY <1>1, <1>2, <1>5, NoOpFields DEF InWork
  <2>2. CASE o \in PairOps
    <3>1. PICK m \in Paired : o.number = m /\ o.uid = pairs[m].uid
      BY <2>2, PairOpAbout
    <3>2. n \in Paired
      BY <1>5 DEF Paired
    <3> QED BY <1>5, <3>1, <3>2 DEF PairInvariant, Apart, PairsOneToOne
  <2>3. CASE o \in FreeOps(ms)
    BY <1>3, <1>5, <2>3, FreeOpAbout
  <2> QED BY <2>1, <2>2, <2>3
<1>6. ASSUME NEW o \in InWork'
      PROVE  /\ o.kind = "newissue" => o.number = 0
             /\ o.kind = "newtask" => o.uid = Nobody
             /\ o.uid # Nobody => o.uid \in born
             /\ o \in ops' => o.kind # "none"
  <2>1. CASE o \in PairOps
    <3>1. PICK n \in Paired : o.uid = pairs[n].uid
      BY <2>1, PairOpAbout
    <3> QED BY <2>1, <3>1, PairOpAbout DEF PairInvariant, Apart, PairsBorn, Paired
  <2>2. CASE o \in FreeOps(ms)
    BY <1>3, <2>2, FreeOpAbout
  <2>3. CASE o \notin PairOps \cup FreeOps(ms)
    BY <1>1, <1>2, <2>3, NoOpFields DEF InWork
  <2> QED BY <2>1, <2>2, <2>3
<1>7. PairsOneToOne' /\ PairsBorn'
  BY <1>2 DEF PairInvariant, Apart, PairsOneToOne, PairsBorn, Paired
<1>8. PairsApart' /\ WorkNew'
  BY <1>2, <1>5, <1>6 DEF PairsApart, WorkNew
<1>9. OpTaken'
  BY <1>2, <1>6, NoOpFields DEF OpTaken, InWork
<1> QED BY <1>4, <1>7, <1>8, <1>9 DEF Apart

\* Work that is done, pairs that go and tasks that are made disturb nothing.
LEMMA ApartShrinks ==
  ASSUME Apart, InWork' \subseteq InWork \cup {NoOp}, born \subseteq born',
         \A n \in Numbers : pairs'[n].uid \in {pairs[n].uid, Nobody}
  PROVE  Apart'
<1>1. PairsOneToOne' /\ PairsBorn'
  BY DEF Apart, PairsOneToOne, PairsBorn, Paired
<1>2. WorkApart' /\ PairsApart' /\ WorkNew'
  BY NoOpFields DEF Apart, WorkApart, PairsApart, WorkNew
<1> QED BY <1>1, <1>2 DEF Apart

LEMMA StoredUids ==
  ASSUME TieType, NEW n, NEW u, NEW item, StorePair(n, u, item)
  PROVE  \A m \in Numbers : pairs'[m].uid \in {pairs[m].uid, IF m = n THEN u ELSE pairs[m].uid}
BY DEF TieType, StorePair

\* A pair is stored for work that is done with.
LEMMA ApartStores ==
  ASSUME TieType, Apart, NEW o \in InWork, InWork' \subseteq (InWork \ {o}) \cup {NoOp}, born' = born,
         NEW n, n = o.number \/ o.number = 0, NEW item, StorePair(n, o.uid, item)
  PROVE  Apart'
<1>1. \A m \in Numbers : pairs'[m].uid = pairs[m].uid \/ (m = n /\ pairs'[m].uid = o.uid)
  BY StoredUids
<1>2. ASSUME NEW m \in Numbers, o.uid # Nobody, pairs[m].uid = o.uid PROVE m = n
  BY <1>2, NumbersApart DEF Apart, PairsApart
<1>3. PairsOneToOne'
  BY <1>1, <1>2 DEF Apart, PairsOneToOne, Paired
<1>4. ASSUME NEW p \in InWork', p.uid # Nobody PROVE p \in InWork /\ p.uid # o.uid
  BY <1>4, NoOpFields DEF Apart, WorkApart
<1>5. PairsApart'
  BY <1>1, <1>4 DEF Apart, PairsApart
<1>6. WorkApart' /\ WorkNew'
  BY NoOpFields DEF Apart, WorkApart, WorkNew
<1>7. PairsBorn'
  BY <1>1 DEF Apart, PairsBorn, WorkNew
<1> QED BY <1>3, <1>5, <1>6, <1>7 DEF Apart

\* A pair is stored for a task that was just made.
LEMMA ApartMakes ==
  ASSUME TieType, Apart, InWork' \subseteq InWork \cup {NoOp},
         NEW u, u \notin born, born' = born \cup {u}, NEW n, NEW item, StorePair(n, u, item)
  PROVE  Apart'
<1>1. \A m \in Numbers : pairs'[m].uid = pairs[m].uid \/ (m = n /\ pairs'[m].uid = u)
  BY StoredUids
<1>2. \A m \in Numbers : pairs[m].uid # Nobody => pairs[m].uid # u
  BY DEF Apart, PairsBorn
<1>3. PairsOneToOne' /\ PairsBorn'
  BY <1>1, <1>2 DEF Apart, PairsOneToOne, PairsBorn, Paired
<1>4. \A o \in InWork' : o.uid # Nobody => o.uid # u /\ o \in InWork
  BY NoOpFields DEF Apart, WorkNew
<1>5. PairsApart'
  BY <1>1, <1>4 DEF Apart, PairsApart
<1>6. WorkApart' /\ WorkNew'
  BY NoOpFields DEF Apart, WorkApart, WorkNew
<1> QED BY <1>3, <1>5, <1>6 DEF Apart

\* A step that leaves work, pairs, tasks and UIDs alone.
LEMMA PairsIdle ==
  ASSUME PairInvariant, UNCHANGED <<pairs, born, tasks, pc, op, ops, answer>>
  PROVE  PairInvariant'
BY DEF PairInvariant, Apart, PairsOneToOne, WorkApart, PairsApart, WorkNew, PairsBorn, TasksBorn, OpTaken,
   AnsweredFor, Paired, InWork

\* Rows that change keep their list, or had one.
LEMMA TasksStayBorn ==
  ASSUME TasksBorn, born \subseteq born',
         \A u \in Uids : tasks'[u].list # Nowhere => tasks[u].list # Nowhere \/ u \in born'
  PROVE  TasksBorn'
BY DEF TasksBorn

LEMMA EditedStays ==
  ASSUME TypeOK, NEW u, NEW fields, NEW item
  PROVE  \A v \in Uids : Edited(u, fields, item)[v].list = tasks[v].list
BY TypeParts DEF StoreType, Task, Edited

LEMMA TakenAway ==
  ASSUME OpTaken, NEW o \in ops, ops' = ops \ {o}, op' \in {o, NoOp}
  PROVE  /\ op' \notin ops' /\ \A p \in ops' : p.kind # "none"
         /\ InWork' \subseteq InWork \cup {NoOp}
         /\ op' = NoOp => InWork' \subseteq (InWork \ {o}) \cup {NoOp}
BY NoOpFields DEF OpTaken, InWork

LEMMA PassKeepsPairs ==
  ASSUME TypeOK, PairInvariant, PassStep
  PROVE  PairInvariant'
<1> USE TypeParts
<1> USE DEF store, github, ties, work, ghosts
<1>0. Apart /\ TasksBorn /\ OpTaken /\ AnsweredFor
  BY DEF PairInvariant
<1>1. CASE NotLinked
  BY <1>1, PairsIdle DEF NotLinked, vars
<1>2. CASE ReadIssues
  <2>1. Apart'
    BY <1>0, <1>2, ApartShrinks DEF ReadIssues, InWork
  <2> QED BY <1>0, <1>2, <2>1 DEF ReadIssues, PairInvariant, TasksBorn, OpTaken, AnsweredFor
<1>3. CASE Plan
  <2>1. Apart' /\ OpTaken'
    BY <1>3, PlanApart
  <2> QED BY <1>0, <1>3, <2>1 DEF Plan, PairInvariant, TasksBorn, AnsweredFor
<1>4. CASE Merge
  <2>1. PICK o \in ops :
          /\ o.kind = "merge"
          /\ IF o.task # {} /\ ~Here(o.uid)
             THEN Dropped(o) /\ UNCHANGED <<tasks, answer>>
             ELSE /\ tasks' = IF o.task = {} THEN tasks ELSE Edited(o.uid, o.task, o.item)
                  /\ Doing(o)
                  /\ IF o.issue = {}
                     THEN pc' = "answered" /\ answer' = [ok |-> TRUE, number |-> o.number]
                     ELSE pc' = "call" /\ UNCHANGED answer
    BY <1>4 DEF Merge
  <2>2. ops' = ops \ {o} /\ op' \in {o, NoOp}
    BY <2>1 DEF Dropped, Doing
  <2>3. Apart'
    BY <1>0, <1>4, <2>2, TakenAway, ApartShrinks DEF Merge
  <2>4. OpTaken'
    BY <1>0, <2>1, <2>2, TakenAway DEF OpTaken, Dropped
  <2>5. TasksBorn'
    <3>1. \A u \in Uids : tasks'[u].list = tasks[u].list
      BY <2>1, EditedStays
    <3> QED BY <1>0, <1>4, <3>1 DEF Merge, TasksBorn
  <2>6. AnsweredFor'
    BY <2>1 DEF Dropped, Doing, AnsweredFor
  <2> QED BY <2>3, <2>4, <2>5, <2>6 DEF PairInvariant
<1>5. CASE Ask
  <2>1. PICK o \in ops : Doing(o)
    BY <1>5 DEF Ask
  <2>2. Apart'
    BY <1>0, <1>5, <2>1, TakenAway, ApartShrinks DEF Ask, Doing
  <2>3. OpTaken'
    BY <1>0, <1>5, <2>1, TakenAway DEF Ask, Doing, OpTaken
  <2> QED BY <1>0, <1>5, <2>2, <2>3 DEF Ask, PairInvariant, TasksBorn, AnsweredFor
<1>6. CASE Adopt
  <2>1. PICK o \in ops : o.kind = "adopt" /\ StorePair(o.number, o.uid, Opened(o.item)) /\ Dropped(o)
    BY <1>6 DEF Adopt
  <2>2. InWork' \subseteq (InWork \ {o}) \cup {NoOp} /\ o \in InWork
    BY <1>0, <2>1, TakenAway DEF Dropped, InWork
  <2>3. Apart'
    BY <1>0, <1>6, <2>1, <2>2, ApartStores DEF Adopt
  <2>4. OpTaken'
    BY <1>0, <2>1, TakenAway DEF Dropped, OpTaken
  <2> QED BY <1>0, <1>6, <2>1, <2>3, <2>4 DEF Adopt, Dropped, PairInvariant, TasksBorn, AnsweredFor
<1>7. CASE Unpair
  <2>1. PICK o \in ops : pairs' = [pairs EXCEPT ![o.number] = NoPair] /\ Dropped(o)
    BY <1>7 DEF Unpair
  <2>2. \A n \in Numbers : pairs'[n].uid \in {pairs[n].uid, Nobody}
    BY <2>1 DEF TieType, NoPair
  <2>3. Apart'
    BY <1>0, <1>7, <2>1, <2>2, TakenAway, ApartShrinks DEF Unpair, Dropped
  <2>4. OpTaken'
    BY <1>0, <2>1, TakenAway DEF Dropped, OpTaken
  <2> QED BY <1>0, <1>7, <2>1, <2>3, <2>4 DEF Unpair, Dropped, PairInvariant, TasksBorn, AnsweredFor
<1>8. CASE NewTask
  <2>1. PICK o \in ops, u \in Unborn(Uids \ Repeating) :
          Insert(u, Opened(o.item)) /\ StorePair(o.number, u, Opened(o.item)) /\ Dropped(o)
    BY <1>8 DEF NewTask
  <2>2. u \notin born /\ u \in Uids
    BY <2>1 DEF Unborn, Least
  <2>3. Apart'
    <3>1. InWork' \subseteq InWork \cup {NoOp} /\ born' = born \cup {u}
      BY <1>0, <2>1, TakenAway DEF Dropped, Insert
    <3> QED BY <1>0, <2>1, <2>2, <3>1, ApartMakes
  <2>4. OpTaken'
    BY <1>0, <2>1, TakenAway DEF Dropped, OpTaken
  <2>5. TasksBorn'
    BY <1>0, <2>1, TasksStayBorn DEF Insert, StoreType
  <2> QED BY <2>1, <2>3, <2>4, <2>5 DEF Dropped, PairInvariant, AnsweredFor
<1>9. CASE Update \/ Look \/ Create
  <2>1. UNCHANGED <<pairs, born, tasks, op, ops>> /\ pc' = "answered" /\ pc = "call"
    BY <1>9 DEF Update, Look, Create
  <2>2. Apart'
    BY <1>0, <2>1, ApartShrinks DEF InWork
  <2>3. op.kind = "merge" => answer'.number = op.number
    BY <1>9 DEF Update, Look, Create
  <2> QED BY <1>0, <2>1, <2>2, <2>3 DEF PairInvariant, TasksBorn, OpTaken, AnsweredFor
<1>10. ASSUME NEW kinds, Answered(kinds)
       PROVE  /\ OpTaken' /\ AnsweredFor' /\ born' = born /\ link' = link
              /\ InWork' \subseteq (InWork \ {op}) \cup {NoOp} /\ op \in InWork
  BY <1>0, <1>10, NoOpFields DEF Answered, OpTaken, AnsweredFor, InWork
<1>11. CASE Remember
  <2>1. Apart'
    <3>1. CASE answer.ok
      <4>1. PICK item : StorePair(answer.number, op.uid, item)
        BY <1>11, <3>1 DEF Remember
      <4>2. answer.number = op.number \/ op.number = 0
        BY <1>0, <1>11 DEF Remember, Answered, AnsweredFor, Apart, WorkNew, InWork
      <4> QED BY <1>0, <1>10, <1>11, <4>1, <4>2, ApartStores DEF Remember
    <3>2. CASE ~answer.ok
      BY <1>0, <1>10, <1>11, <3>2, ApartShrinks DEF Remember
    <3> QED BY <3>1, <3>2
  <2> QED BY <1>0, <1>10, <1>11, <2>1 DEF Remember, PairInvariant, TasksBorn
<1>12. CASE Closed
  <2>1. \A n \in Numbers : pairs'[n].uid \in {pairs[n].uid, Nobody}
    BY <1>12 DEF Closed, TieType, NoPair
  <2>2. Apart'
    BY <1>0, <1>10, <1>12, <2>1, ApartShrinks DEF Closed
  <2> QED BY <1>0, <1>10, <1>12, <2>2 DEF Closed, PairInvariant, TasksBorn
<1>13. CASE CompleteTask
  <2>1. \A n \in Numbers : pairs'[n].uid \in {pairs[n].uid, Nobody}
    BY <1>13 DEF CompleteTask, TieType, NoPair
  <2>2. Apart'
    BY <1>0, <1>10, <1>13, <2>1, ApartShrinks DEF CompleteTask
  <2>3. \A u \in Uids : tasks'[u].list = tasks[u].list
    BY <1>13, EditedStays DEF CompleteTask
  <2> QED BY <1>0, <1>10, <1>13, <2>2, <2>3 DEF CompleteTask, PairInvariant, TasksBorn
<1>14. CASE PassDone
  <2>1. Apart'
    BY <1>0, <1>14, ApartShrinks DEF PassDone, EndPass, InWork
  <2> QED BY <1>0, <1>14, <2>1 DEF PassDone, EndPass, PairInvariant, TasksBorn, OpTaken, AnsweredFor
<1> QED BY <1>1, <1>2, <1>3, <1>4, <1>5, <1>6, <1>7, <1>8, <1>9, <1>11, <1>12, <1>13, <1>14 DEF PassStep

LEMMA OthersKeepPairs ==
  ASSUME TypeOK, PairInvariant, UserStep \/ GithubStep \/ FaultStep
  PROVE  PairInvariant'
<1> USE TypeParts
<1> USE DEF store, github, ties, work, ghosts
<1>0. Apart /\ TasksBorn /\ OpTaken /\ AnsweredFor
  BY DEF PairInvariant
<1>1. ASSUME Calm, born \subseteq born', TasksBorn', pairs' = pairs \/ pairs' = NoPairs
      PROVE  PairInvariant'
  <2>1. \A n \in Numbers : pairs'[n].uid \in {pairs[n].uid, Nobody}
    BY <1>1 DEF NoPairs, NoPair
  <2>2. Apart'
    BY <1>0, <1>1, <2>1, ApartShrinks DEF Calm, InWork
  <2> QED BY <1>0, <1>1, <2>2 DEF Calm, PairInvariant, OpTaken, AnsweredFor
<1>2. ASSUME NEW u \in Uids, NEW l \in Lists, AddTask(u, l)
      PROVE  PairInvariant'
  <2>1. TasksBorn'
    BY <1>0, <1>2, TasksStayBorn DEF AddTask, SetTask, StoreType
  <2> QED BY <1>1, <1>2, <2>1 DEF AddTask
<1>3. ASSUME NEW u \in Uids, NEW f \in Fields, EditTask(u, f)
      PROVE  PairInvariant'
  <2>1. TasksBorn'
    BY <1>0, <1>3, TasksStayBorn DEF EditTask, SetTask, StoreType
  <2> QED BY <1>1, <1>3, <2>1 DEF EditTask
<1>4. ASSUME NEW u \in Uids, NEW l \in Lists \cup {Nowhere}, TakeTask(u, l)
      PROVE  PairInvariant'
  <2>1. TasksBorn'
    BY <1>0, <1>4, TasksStayBorn DEF TakeTask, SetTask, StoreType
  <2> QED BY <1>1, <1>4, <2>1 DEF TakeTask
<1>5. ASSUME NEW l \in Lists, Link(l)
      PROVE  PairInvariant'
  BY <1>0, <1>1, <1>5 DEF Link, TasksBorn
<1>6. CASE Unlink
  BY <1>0, <1>1, <1>6 DEF Unlink, TasksBorn
<1>7. CASE UserStep
  <2>1. \A S : Unborn(S) \subseteq S
    BY UnbornType
  <2> QED BY <1>2, <1>3, <1>4, <1>5, <1>6, <1>7, <2>1, UidsAssumption DEF UserStep
<1>8. CASE GithubStep
  <2>1. Away
    BY <1>8 DEF GithubStep, GithubOpens, GithubEdits, GithubDeletes
  <2> QED BY <2>1, PairsIdle DEF Away
<1>9. CASE PassFails \/ Refused
  <2>1. InWork' \subseteq InWork \cup {NoOp} /\ born' = born /\ pairs' = pairs /\ tasks' = tasks
    BY <1>9 DEF PassFails, Refused, EndPass, InWork
  <2>2. Apart'
    BY <1>0, <2>1, ApartShrinks
  <2>3. OpTaken' /\ AnsweredFor'
    BY <1>0, <1>9, NoOpFields DEF PassFails, Refused, EndPass, OpTaken, AnsweredFor
  <2> QED BY <1>0, <2>1, <2>2, <2>3 DEF PairInvariant, TasksBorn
<1>10. CASE DiesUnpaired
  <2>1. PICK o \in ops, u \in Unborn(Uids \ Repeating) : Insert(u, Opened(o.item))
    BY <1>10 DEF DiesUnpaired
  <2>2. Apart'
    BY <1>0, <1>10, <2>1, ApartShrinks DEF DiesUnpaired, EndPass, Insert, InWork
  <2>3. TasksBorn'
    BY <1>0, <2>1, TasksStayBorn DEF Insert, StoreType
  <2>4. OpTaken' /\ AnsweredFor'
    BY <1>10 DEF DiesUnpaired, EndPass, OpTaken, AnsweredFor
  <2> QED BY <2>2, <2>3, <2>4 DEF PairInvariant
<1> QED BY <1>7, <1>8, <1>9, <1>10 DEF FaultStep

LEMMA PairsKept == TypeOK /\ PairInvariant /\ [Next]_vars => PairInvariant'
<1> SUFFICES ASSUME TypeOK, PairInvariant, [Next]_vars PROVE PairInvariant'
  OBVIOUS
<1>1. CASE UNCHANGED vars
  BY <1>1, PairsIdle DEF vars, store, ties, work
<1> QED BY <1>1, PassKeepsPairs, OthersKeepPairs DEF Next

LEMMA PairsBegin == Init => PairInvariant
<1> SUFFICES ASSUME Init PROVE PairInvariant
  OBVIOUS
<1>1. InWork = {NoOp} /\ \A n \in Numbers : pairs[n].uid = Nobody
  BY DEF Init, InWork, NoPairs, NoPair
<1>2. Apart
  BY <1>1, NoOpFields DEF Apart, PairsOneToOne, WorkApart, PairsApart, WorkNew, PairsBorn, Paired
<1>3. TasksBorn /\ OpTaken /\ AnsweredFor
  BY DEF Init, TasksBorn, OpTaken, AnsweredFor, NoTask
<1> QED BY <1>2, <1>3 DEF PairInvariant

\* No two issues are ever paired with one task.
THEOREM PairsStayOneToOne == Spec => []PairsOneToOne
<1>1. Init => TypeOK /\ PairInvariant
  BY TypesBegin, PairsBegin
<1>2. TypeOK /\ PairInvariant /\ [Next]_vars => (TypeOK /\ PairInvariant)'
  BY TypesKept, PairsKept
<1>3. PairInvariant => PairsOneToOne
  BY DEF PairInvariant, Apart
<1> QED BY <1>1, <1>2, <1>3, PTL DEF Spec

-----------------------------------------------------------------------------
(* A task is completed only where its issue is over. *)

\* What was over stays over, and what was made stays made.
Onward == over \subseteq over' /\ \A n \in Numbers : issues[n].state # "none" => issues'[n].state # "none"

LEMMA SameIssues == ASSUME UNCHANGED <<issues, over>> PROVE Onward
BY DEF Onward

LEMMA SetIssueTold ==
  ASSUME TypeOK, ToldRight, NEW n \in Numbers, NEW state \in {"here", "gone"}, NEW item \in Item,
         SetIssue(n, state, item), listing' = listing
  PROVE  Onward /\ ToldRight'
<1>1. over \subseteq over' /\ older' = issues /\ n \in Numbers
  BY DEF SetIssue
<1>2. issues'[n].state = state /\ issues'[n].item = item /\ \A m \in Numbers \ {n} : issues'[m] = issues[m]
  BY TypeParts DEF SetIssue, GithubType
<1>3. Onward
  BY <1>1, <1>2 DEF Onward
<1>4. state = "gone" \/ ~item.open => n \in over'
  BY DEF SetIssue
<1>5. IsOver(issues)' /\ IsOver(older)' /\ IsOver(listing)'
  BY <1>1, <1>2, <1>4 DEF ToldRight, IsOver
<1>6. MadeHere(older)' /\ MadeHere(listing)'
  BY <1>1, <1>3 DEF ToldRight, MadeHere, Onward
<1> QED BY <1>3, <1>5, <1>6 DEF ToldRight

LEMMA SameTold ==
  ASSUME ToldRight, UNCHANGED <<issues, older, over>>, listing' \in {listing, issues, older, NoListing}
  PROVE  ToldRight'
<1>1. IsOver(NoListing) /\ MadeHere(NoListing)
  BY DEF IsOver, MadeHere, NoListing, NoIssue
<1> QED BY <1>1 DEF ToldRight, IsOver, MadeHere

LEMMA WorkShrinks ==
  ASSUME WorkMade, MergeTold, Onward, InWork' \subseteq InWork \cup {NoOp}
  PROVE  WorkMade' /\ MergeTold'
BY NoOpFields DEF WorkMade, MergeTold, Onward

LEMMA PairsShrink ==
  ASSUME PairsMade, Onward, \A n \in Numbers : pairs'[n].uid \in {pairs[n].uid, Nobody}
  PROVE  PairsMade'
BY DEF PairsMade, Onward

LEMMA PairsStore ==
  ASSUME TieType, PairsMade, Onward, NEW n, NEW u, NEW item, StorePair(n, u, item),
         n \in Numbers => issues[n].state # "none"
  PROVE  PairsMade'
<1>1. \A m \in Numbers : pairs'[m].uid = pairs[m].uid \/ m = n
  BY StoredUids
<1> QED BY <1>1 DEF PairsMade, Onward

\* What is planned is of issues that were made; a merge completes the task of one
\* that is over.
LEMMA PlanTold ==
  ASSUME TypeOK, PairInvariant, OverInvariant, Plan
  PROVE  WorkMade' /\ MergeTold'
<1>1. PICK ms \in Matchings : ops' = PairOps \cup FreeOps(ms)
  BY DEF Plan
<1>2. op' = NoOp /\ UNCHANGED <<issues, over>>
  BY DEF Plan, PairInvariant, OpTaken, github, ghosts
<1>3. ASSUME NEW o \in PairOps
      PROVE  /\ o.number \in Numbers /\ issues[o.number].state # "none"
             /\ o.kind = "merge" /\ "open" \in o.task /\ ~o.item.open => o.number \in over
  <2>1. PICK n \in Paired :
          \/ Listed(n) /\ o = MergeOp(n)
          \/ \E k \in {"close", "complete", "unpair"} : o = Op(k, n, pairs[n].uid, Blank)
    BY PairOpsKinds
  <2>2. o.number = n /\ n \in Numbers /\ pairs[n].uid \in Uids
    BY <2>1, OpFields, MergeOpType, TypeParts DEF Paired, TieType, Pair
  <2>3. issues[n].state # "none"
    BY <2>2 DEF OverInvariant, PairsMade, Paired
  <2>4. ASSUME Listed(n), o = MergeOp(n), "open" \in o.task, ~o.item.open
        PROVE  n \in over
    <3>1. /\ tasks[pairs[n].uid].item \in Item /\ listing[n].item \in Item /\ pairs[n].item \in Item
      BY <2>2, TypeParts DEF StoreType, Task, PassType, Issue, TieType, Pair
    <3>2. /\ o.item = Agreed(pairs[n].item, listing[n].item, tasks[pairs[n].uid].item)
          /\ o.task = Differing(tasks[pairs[n].uid].item, o.item)
      BY <2>4 DEF MergeOp
    <3>3. tasks[pairs[n].uid].item.open # o.item.open
      BY <2>4, <3>2 DEF Differing
    <3>4. o.item.open = IF listing[n].item.open # pairs[n].item.open
                        THEN listing[n].item.open ELSE tasks[pairs[n].uid].item.open
      BY <3>2 DEF Agreed
    <3>5. ~listing[n].item.open
      BY <2>4, <3>3, <3>4
    <3> QED BY <2>2, <2>4, <3>5 DEF Listed, OverInvariant, ToldRight, IsOver
  <2>5. o.kind = "merge" => Listed(n) /\ o = MergeOp(n)
    BY <2>1, OpFields
  <2> QED BY <2>2, <2>3, <2>4, <2>5
<1>4. ASSUME NEW o \in FreeOps(ms)
      PROVE  /\ o.kind # "newissue" => o.number \in Numbers /\ issues[o.number].state # "none"
             /\ o.kind # "merge"
  <2>1. ASSUME NEW n \in FreeIssues PROVE n \in Numbers /\ issues[n].state # "none"
    BY <2>1 DEF FreeIssues, Listed, OverInvariant, ToldRight, MadeHere
  <2> QED BY <2>1, FreeOpsKinds, MatchingType, OpFields
<1>5. \A o \in InWork' : o \in PairOps \/ o \in FreeOps(ms) \/ o = NoOp
  BY <1>1, <1>2 DEF InWork
<1> QED BY <1>2, <1>3, <1>4, <1>5, NoOpFields DEF WorkMade, MergeTold

LEMMA OverIdle ==
  ASSUME OverInvariant, UNCHANGED <<issues, older, over, pairs, listing, pc, op, ops, answer>>
  PROVE  OverInvariant'
BY DEF OverInvariant, ToldRight, IsOver, MadeHere, PairsMade, WorkMade, AnswerMade, MergeTold, GoneTold, InWork

\* A step of the pass that leaves GitHub alone.
LEMMA OverWorks ==
  ASSUME OverInvariant, UNCHANGED <<issues, older, over>>, listing' \in {listing, issues, older, NoListing},
         PairsMade', WorkMade', MergeTold', AnswerMade', GoneTold'
  PROVE  OverInvariant'
BY SameTold DEF OverInvariant

LEMMA PassKeepsOver ==
  ASSUME TypeOK, PairInvariant, OverInvariant, PassStep
  PROVE  OverInvariant'
<1> USE TypeParts
<1> USE DEF store, github, ties, work, ghosts
<1>0. /\ ToldRight /\ PairsMade /\ WorkMade /\ AnswerMade /\ MergeTold /\ GoneTold
      /\ OpTaken /\ AnsweredFor /\ WorkNew
  BY DEF OverInvariant, PairInvariant, Apart
<1>1. CASE NotLinked
  BY <1>1, OverIdle DEF NotLinked, vars
<1>2. CASE ReadIssues
  <2>1. UNCHANGED <<issues, older, over, pairs, op, ops>> /\ listing' \in {issues, older} /\ pc' = "read"
    BY <1>2 DEF ReadIssues
  <2>2. WorkMade' /\ MergeTold' /\ PairsMade'
    BY <1>0, <2>1 DEF WorkMade, MergeTold, PairsMade, InWork
  <2> QED BY <2>1, <2>2, OverWorks DEF AnswerMade, GoneTold
<1>3. CASE Plan
  <2>1. UNCHANGED <<issues, older, over, pairs, listing>> /\ pc' = "apply"
    BY <1>3 DEF Plan
  <2>2. PairsMade'
    BY <1>0, <2>1 DEF PairsMade
  <2> QED BY <1>3, <2>1, <2>2, PlanTold, OverWorks DEF AnswerMade, GoneTold
<1>4. CASE Merge
  <2>1. PICK o \in ops :
          /\ o.kind = "merge"
          /\ \/ Dropped(o)
             \/ Doing(o) /\ (pc' = "call" \/ (pc' = "answered" /\ answer' = [ok |-> TRUE, number |-> o.number]))
    BY <1>4 DEF Merge
  <2>2. UNCHANGED <<issues, older, over, pairs, listing>>
    BY <1>4 DEF Merge
  <2>3. WorkMade' /\ MergeTold'
    BY <1>0, <2>1, <2>2, SameIssues, TakenAway, WorkShrinks DEF Dropped, Doing
  <2>4. AnswerMade' /\ GoneTold'
    BY <1>0, <2>1, <2>2 DEF AnswerMade, GoneTold, Dropped, Doing, WorkMade, InWork
  <2>5. PairsMade'
    BY <1>0, <2>2 DEF PairsMade
  <2> QED BY <2>2, <2>3, <2>4, <2>5, OverWorks
<1>5. CASE Ask
  <2>1. UNCHANGED <<issues, older, over, pairs, listing>> /\ pc' = "call"
    BY <1>5 DEF Ask
  <2>2. WorkMade' /\ MergeTold'
    BY <1>0, <1>5, <2>1, SameIssues, TakenAway, WorkShrinks DEF Ask, Doing
  <2>3. PairsMade'
    BY <1>0, <2>1 DEF PairsMade
  <2> QED BY <2>1, <2>2, <2>3, OverWorks DEF AnswerMade, GoneTold
<1>6. CASE Adopt \/ Unpair \/ NewTask
  <2>1. PICK o \in ops :
          /\ Dropped(o)
          /\ \/ \E u, item : StorePair(o.number, u, item)
             \/ pairs' = [pairs EXCEPT ![o.number] = NoPair]
          /\ o.kind \in {"adopt", "unpair", "newtask"}
    BY <1>6 DEF Adopt, Unpair, NewTask
  <2>2. UNCHANGED <<issues, older, over, listing>> /\ pc' = "apply"
    BY <1>6, <2>1 DEF Adopt, Unpair, NewTask, Dropped
  <2>3. WorkMade' /\ MergeTold'
    BY <1>0, <2>1, <2>2, SameIssues, TakenAway, WorkShrinks DEF Dropped
  <2>4. PairsMade'
    <3>1. CASE \E u, item : StorePair(o.number, u, item)
      BY <1>0, <2>1, <2>2, <3>1, SameIssues, PairsStore DEF WorkMade, InWork
    <3>2. CASE pairs' = [pairs EXCEPT ![o.number] = NoPair]
      <4>1. \A n \in Numbers : pairs'[n].uid \in {pairs[n].uid, Nobody}
        BY <3>2 DEF TieType, NoPair
      <4> QED BY <1>0, <2>2, <4>1, SameIssues, PairsShrink
    <3> QED BY <2>1, <3>1, <3>2
  <2> QED BY <2>2, <2>3, <2>4, OverWorks DEF AnswerMade, GoneTold
<1>7. ASSUME Onward, ToldRight', UNCHANGED <<pairs, op, ops>>,
             answer'.ok /\ answer'.number \in Numbers => issues'[answer'.number].state # "none",
             op.kind = "complete" /\ ~answer'.ok => op.number \in over'
      PROVE  OverInvariant'
  <2>1. WorkMade' /\ MergeTold'
    BY <1>0, <1>7, WorkShrinks DEF InWork
  <2>2. PairsMade'
    BY <1>0, <1>7, PairsShrink
  <2> QED BY <1>7, <2>1, <2>2 DEF OverInvariant, AnswerMade, GoneTold
<1>8. CASE Update
  <2>0. /\ pairs' = pairs /\ op' = op /\ ops' = ops /\ op.kind \in {"merge", "close"} /\ listing' = listing
        /\ answer' = [ok |-> Exists(op.number), number |-> op.number]
    BY <1>8 DEF Update
  <2>1. CASE Exists(op.number)
    <3>1. Patched(op) \in Item
      BY <2>1 DEF Exists, Patched, PassType, Operation, GithubType, Issue, Item
    <3>2. op.number \in Numbers /\ SetIssue(op.number, "here", Patched(op))
      BY <1>8, <2>1 DEF Update, Exists
    <3>3. Onward /\ ToldRight'
      BY <1>0, <2>0, <3>1, <3>2, SetIssueTold
    <3>4. issues'[op.number].state # "none"
      BY <2>1, <3>2, <3>3 DEF Exists, Onward
    <3> QED BY <1>7, <2>0, <3>3, <3>4
  <2>2. CASE ~Exists(op.number)
    <3>1. UNCHANGED <<issues, older, over>>
      BY <1>8, <2>2 DEF Update
    <3>2. ToldRight' /\ Onward
      BY <1>0, <2>0, <3>1, SameTold, SameIssues
    <3> QED BY <1>7, <2>0, <2>2, <3>2
  <2> QED BY <2>1, <2>2
<1>9. CASE Look
  <2>1. UNCHANGED <<issues, older, over, listing, pairs, op, ops>> /\ op.kind = "complete"
    BY <1>9 DEF Look
  <2>2. answer'.ok = Exists(op.number) /\ answer'.number = op.number
    BY <1>9 DEF Look
  <2>3. op.number \in Numbers /\ issues[op.number].state \in {"here", "gone"}
    BY <1>0, <2>1 DEF WorkMade, InWork, GithubType, Issue, States
  <2>4. ~Exists(op.number) => op.number \in over
    BY <1>0, <2>3 DEF Exists, ToldRight, IsOver
  <2>5. ToldRight' /\ Onward
    BY <1>0, <2>1, SameTold, SameIssues
  <2> QED BY <1>7, <2>1, <2>2, <2>3, <2>4, <2>5
<1>10. CASE Create
  <2>1. PICK n \in NextNumber : SetIssue(n, "here", Opened(op.item)) /\ answer' = [ok |-> TRUE, number |-> n]
    BY <1>10 DEF Create
  <2>2. n \in Numbers /\ Opened(op.item) \in Item
    BY OpenedType DEF NextNumber, Least, PassType, Operation
  <2>3. UNCHANGED <<listing, pairs, op, ops>> /\ op.kind = "newissue"
    BY <1>10 DEF Create
  <2>4. Onward /\ ToldRight'
    BY <1>0, <2>1, <2>2, <2>3, SetIssueTold
  <2>5. issues'[n].state = "here"
    BY <2>1, <2>2 DEF SetIssue, GithubType
  <2> QED BY <1>7, <2>1, <2>3, <2>4, <2>5
<1>11. ASSUME NEW kinds, Answered(kinds), PairsMade'
       PROVE  OverInvariant'
  <2>1. UNCHANGED <<issues, older, over, listing, ops>> /\ op' = NoOp /\ pc' = "apply"
    BY <1>11 DEF Answered
  <2>2. WorkMade' /\ MergeTold'
    BY <1>0, <2>1, SameIssues, WorkShrinks DEF InWork
  <2> QED BY <1>11, <2>1, <2>2, OverWorks DEF AnswerMade, GoneTold
<1>12. CASE Remember
  <2>1. CASE answer.ok
    <3>1. PICK item : StorePair(answer.number, op.uid, item)
      BY <1>12, <2>1 DEF Remember
    <3>2. UNCHANGED <<issues, over>> /\ pc = "answered"
      BY <1>12 DEF Remember, Answered
    <3>3. PairsMade'
      BY <1>0, <2>1, <3>1, <3>2, SameIssues, PairsStore DEF AnswerMade
    <3> QED BY <1>11, <1>12, <3>3 DEF Remember
  <2>2. CASE ~answer.ok
    BY <1>0, <1>11, <1>12, <2>2 DEF Remember, Answered, PairsMade
  <2> QED BY <2>1, <2>2
<1>13. CASE Closed \/ CompleteTask
  <2>1. \A n \in Numbers : pairs'[n].uid \in {pairs[n].uid, Nobody}
    BY <1>13 DEF Closed, CompleteTask, TieType, NoPair
  <2>2. UNCHANGED <<issues, over>>
    BY <1>13 DEF Closed, CompleteTask, Answered
  <2>3. PairsMade'
    BY <1>0, <2>1, <2>2, SameIssues, PairsShrink
  <2> QED BY <1>11, <1>13, <2>3 DEF Closed, CompleteTask
<1>14. CASE PassDone
  <2>1. UNCHANGED <<issues, older, over, pairs>> /\ listing' = NoListing /\ pc' = "idle" /\ InWork' = {NoOp}
    BY <1>14 DEF PassDone, EndPass, InWork
  <2>2. WorkMade' /\ MergeTold' /\ PairsMade'
    BY <1>0, <2>1, SameIssues, WorkShrinks DEF PairsMade
  <2> QED BY <2>1, <2>2, OverWorks DEF AnswerMade, GoneTold
<1> QED BY <1>1, <1>2, <1>3, <1>4, <1>5, <1>6, <1>8, <1>9, <1>10, <1>12, <1>13, <1>14 DEF PassStep

LEMMA OthersKeepOver ==
  ASSUME TypeOK, PairInvariant, OverInvariant, UserStep \/ GithubStep \/ FaultStep
  PROVE  OverInvariant'
<1> USE TypeParts
<1> USE DEF store, github, ties, work, ghosts
<1>0. ToldRight /\ PairsMade /\ WorkMade /\ AnswerMade /\ MergeTold /\ GoneTold
  BY DEF OverInvariant
<1>1. CASE UserStep
  <2>1. Calm /\ over' = over /\ (pairs' = pairs \/ pairs' = NoPairs)
    BY <1>1 DEF UserStep, AddTask, EditTask, TakeTask, Link, Unlink
  <2>2. PairsMade'
    BY <1>0, <2>1 DEF Calm, PairsMade, NoPairs, NoPair
  <2>3. WorkMade' /\ MergeTold' /\ AnswerMade' /\ GoneTold'
    BY <1>0, <2>1 DEF Calm, WorkMade, MergeTold, AnswerMade, GoneTold, InWork
  <2> QED BY <2>1, <2>2, <2>3, OverWorks DEF Calm
<1>2. CASE GithubStep
  <2>1. Away /\ \E n \in Numbers, state \in {"here", "gone"}, item \in Item : SetIssue(n, state, item)
    <3>1. \A n \in NextNumber : n \in Numbers
      BY DEF NextNumber, Least
    <3> QED BY <1>2, <3>1, BlankType DEF GithubStep, GithubOpens, GithubEdits, GithubDeletes
  <2>2. UNCHANGED <<pairs, listing, pc, op, ops, answer>>
    BY <2>1 DEF Away
  <2>3. Onward /\ ToldRight'
    BY <1>0, <2>1, <2>2, SetIssueTold
  <2>4. WorkMade' /\ MergeTold' /\ PairsMade'
    BY <1>0, <2>2, <2>3, WorkShrinks, PairsShrink DEF InWork
  <2>5. AnswerMade' /\ GoneTold'
    BY <1>0, <2>2, <2>3 DEF AnswerMade, GoneTold, Onward
  <2> QED BY <2>3, <2>4, <2>5 DEF OverInvariant
<1>3. CASE FaultStep
  <2>1. /\ UNCHANGED <<issues, older, over, pairs>> /\ listing' \in {listing, NoListing}
        /\ pc' \in {"idle", "apply"} /\ InWork' \subseteq InWork \cup {NoOp}
    BY <1>3 DEF FaultStep, PassFails, Refused, DiesUnpaired, EndPass, InWork
  <2>2. WorkMade' /\ MergeTold' /\ PairsMade'
    BY <1>0, <2>1, SameIssues, WorkShrinks DEF PairsMade
  <2> QED BY <2>1, <2>2, OverWorks DEF AnswerMade, GoneTold
<1> QED BY <1>1, <1>2, <1>3

LEMMA OverKept == TypeOK /\ PairInvariant /\ OverInvariant /\ [Next]_vars => OverInvariant'
<1> SUFFICES ASSUME TypeOK, PairInvariant, OverInvariant, [Next]_vars PROVE OverInvariant'
  OBVIOUS
<1>1. CASE UNCHANGED vars
  BY <1>1, OverIdle DEF vars, github, ties, work, ghosts
<1> QED BY <1>1, PassKeepsOver, OthersKeepOver DEF Next

LEMMA OverBegins == Init => OverInvariant
<1> SUFFICES ASSUME Init PROVE OverInvariant
  OBVIOUS
<1>1. InWork = {NoOp} /\ \A n \in Numbers : pairs[n].uid = Nobody
  BY DEF Init, InWork, NoPairs, NoPair
<1>2. ToldRight
  BY DEF Init, ToldRight, IsOver, MadeHere, NoListing, NoIssue
<1>3. PairsMade /\ WorkMade /\ MergeTold
  BY <1>1, NoOpFields DEF PairsMade, WorkMade, MergeTold
<1> QED BY <1>2, <1>3 DEF Init, OverInvariant, AnswerMade, GoneTold

Completion(u) == PeopleRest /\ tasks[u].item.open /\ ~tasks'[u].item.open

\* Only a merge and CompleteTask complete a task that was open.
LEMMA EditedCloses ==
  ASSUME TypeOK, NEW u \in Uids, NEW v, NEW fields, NEW item \in Item,
         tasks' = Edited(v, fields, item), tasks[u].item.open, ~tasks'[u].item.open
  PROVE  u = v /\ "open" \in fields /\ ~item.open
<1>1. CASE u # v
  BY <1>1, TypeParts DEF Edited, StoreType
<1>2. CASE u = v
  BY <1>2, TypeParts DEF Edited, StoreType, Task, Item
<1> QED BY <1>1, <1>2

LEMMA InsertOpens ==
  ASSUME TypeOK, NEW u \in Uids, NEW v, NEW item \in Item, item.open = TRUE, Insert(v, item),
         tasks[u].item.open
  PROVE  tasks'[u].item.open
BY TypeParts DEF Insert, StoreType

LEMMA CompletionTold ==
  ASSUME TypeOK, PairInvariant, OverInvariant, [Next]_vars, NEW u \in Uids, Completion(u)
  PROVE  \E o \in InHand(u) : o.number \in over
<1> USE TypeParts
<1>1. CASE UNCHANGED tasks
  BY <1>1 DEF Completion
<1>2. CASE Merge
  <2>1. PICK o \in ops :
          /\ o.kind = "merge"
          /\ UNCHANGED tasks \/ (tasks' = Edited(o.uid, o.task, o.item) /\ op' = o)
    BY <1>2 DEF Merge, Doing
  <2>2. tasks' = Edited(o.uid, o.task, o.item) /\ op' = o /\ o.item \in Item
    BY <1>1, <2>1 DEF Completion, PassType, Operation
  <2>3. u = o.uid /\ "open" \in o.task /\ ~o.item.open
    BY <2>2, EditedCloses DEF Completion
  <2>4. o.number \in over
    BY <2>1, <2>3 DEF OverInvariant, MergeTold, InWork
  <2> QED BY <2>2, <2>3, <2>4 DEF InHand
<1>3. CASE CompleteTask
  <2>1. tasks' = Edited(op.uid, {"open"}, Blank) /\ ~answer.ok /\ pc = "answered" /\ op.kind = "complete"
    BY <1>1, <1>3 DEF CompleteTask, Answered, IssueGone, Completion
  <2>2. u = op.uid
    BY <2>1, EditedCloses, BlankType DEF Completion
  <2>3. op.number \in over
    BY <2>1 DEF OverInvariant, GoneTold
  <2> QED BY <2>2, <2>3 DEF InHand
<1>4. CASE NewTask \/ DiesUnpaired
  <2>1. PICK o \in ops, v \in Uids : Insert(v, Opened(o.item))
    BY <1>4 DEF NewTask, DiesUnpaired, Unborn, Least
  <2>2. Opened(o.item) \in Item /\ Opened(o.item).open = TRUE
    BY OpenedType DEF PassType, Operation
  <2> QED BY <2>1, <2>2, InsertOpens DEF Completion
<1>5. CASE UserStep
  <2>1. User \/ (Links /\ UNCHANGED tasks)
    BY <1>5 DEF UserStep, AddTask, EditTask, TakeTask, Link, Unlink, store
  <2>2. used.user \in Nat
    BY DEF BoundType, Bounds
  <2> QED BY <1>1, <2>1, <2>2, BoundTypes DEF Completion, PeopleRest
<1>6. CASE GithubStep
  BY <1>1, <1>6 DEF GithubStep, GithubOpens, GithubEdits, GithubDeletes, Away, store
<1>7. CASE PassFails \/ Refused
  BY <1>1, <1>7 DEF PassFails, Refused, store
<1>8. CASE NotLinked \/ ReadIssues \/ Plan \/ Ask \/ Adopt \/ Unpair \/ UNCHANGED vars
  BY <1>1, <1>8 DEF NotLinked, ReadIssues, Plan, Ask, Adopt, Unpair, vars, store
<1>9. CASE Update \/ Look \/ Create \/ Remember \/ Closed \/ PassDone
  BY <1>1, <1>9 DEF Update, Look, Create, Remember, Closed, PassDone, store
<1> QED BY <1>2, <1>3, <1>4, <1>5, <1>6, <1>7, <1>8, <1>9 DEF Next, PassStep, FaultStep

\* A pass completes a task only where its issue was closed, deleted or transferred,
\* however the listing lagged and whatever happened since.
THEOREM CompletionsEarned == Spec => CompletedOnlyWhenOver
<1>1. Init => TypeOK /\ PairInvariant /\ OverInvariant
  BY TypesBegin, PairsBegin, OverBegins
<1>2. TypeOK /\ PairInvariant /\ OverInvariant /\ [Next]_vars => (TypeOK /\ PairInvariant /\ OverInvariant)'
  BY TypesKept, PairsKept, OverKept
<1>3. TypeOK /\ PairInvariant /\ OverInvariant /\ [Next]_vars
        => [\A u \in Uids : PeopleRest /\ tasks[u].item.open /\ ~tasks'[u].item.open
                              => \E o \in InHand(u) : o.number \in over]_vars
  BY CompletionTold DEF Completion
<1> QED BY <1>1, <1>2, <1>3, PTL DEF Spec, CompletedOnlyWhenOver

-----------------------------------------------------------------------------
(* An issue is closed only where its task was left. *)

\* A pair, or an operation in hand, ties the task to the issue.
About(n, u) ==
  \/ n \in Numbers /\ pairs[n].uid = u
  \/ \E o \in InWork : o.number = n /\ o.uid = u

\* The task is open unless its issue was over or its user completed it, and in the linked
\* list unless its user took it away.
Known(n, u) ==
  /\ tasks[u].item.open \/ n \in over \/ Left(u)
  /\ crossed \/ Left(u) \/ tasks[u].list = link

AllKnown == \A n \in Numbers \cup {0}, u \in Uids : About(n, u) => Known(n, u)

\* The operations that close an issue.
Closes(o) == o.kind = "close" \/ (o.kind = "merge" /\ "open" \in o.issue /\ ~o.item.open)

ClosesKnown == \A o \in InWork : Closes(o) => o.number \in over \/ Left(o.uid) \/ crossed

\* The pass is for the list that is linked, and between passes nothing is to be done.
SameLink == (pc # "idle" /\ ~crossed => list = link) /\ (pc = "idle" => ops = {})

LeftInvariant == AllKnown /\ ClosesKnown /\ SameLink

\* What people did, and what is over, is not forgotten.
Recorded == over \subseteq over' /\ touched \subseteq touched' /\ (crossed => crossed')

\* What a step does to the tasks that issues are tied to is known.
TasksTold ==
  \A n \in Numbers \cup {0}, u \in Uids : About(n, u) =>
    /\ tasks[u].item.open /\ ~tasks'[u].item.open => n \in over' \/ Left(u)'
    /\ tasks'[u].list = tasks[u].list \/ Left(u)'

LEMMA SameTasks == ASSUME tasks' = tasks PROVE TasksTold
BY DEF TasksTold

LEMMA LeftStays == ASSUME Recorded, NEW u, Left(u) PROVE Left(u)'
BY DEF Recorded, Left

LEMMA KnownStays ==
  ASSUME Recorded, TasksTold, link' = link \/ crossed',
         NEW n \in Numbers \cup {0}, NEW u \in Uids, About(n, u), Known(n, u)
  PROVE  Known(n, u)'
<1>1. /\ tasks[u].item.open /\ ~tasks'[u].item.open => n \in over' \/ Left(u)'
      /\ tasks'[u].list = tasks[u].list \/ Left(u)'
  BY DEF TasksTold
<1>2. Left(u) => Left(u)'
  BY LeftStays
<1> QED BY <1>1, <1>2 DEF Known, Recorded

LEMMA AllKnownStays ==
  ASSUME TypeOK', AllKnown, Recorded, TasksTold, link' = link \/ crossed',
         \A n \in Numbers \cup {0}, u \in Uids : About(n, u)' => About(n, u) \/ About(0, u)
  PROVE  AllKnown'
<1> SUFFICES ASSUME NEW n \in Numbers \cup {0}, NEW u \in Uids, About(n, u)' PROVE Known(n, u)'
  BY DEF AllKnown
<1>1. CASE About(n, u)
  BY <1>1, KnownStays DEF AllKnown
<1>2. CASE About(0, u)
  <2>1. Known(0, u)'
    BY <1>2, KnownStays DEF AllKnown
  <2> QED BY <2>1, NumbersApart, TypeParts DEF Known, GhostType
<1> QED BY <1>1, <1>2

LEMMA AboutShrinks ==
  ASSUME InWork' \subseteq InWork \cup {NoOp}, \A n \in Numbers : pairs'[n].uid \in {pairs[n].uid, Nobody}
  PROVE  \A n \in Numbers \cup {0}, u \in Uids : About(n, u)' => About(n, u) \/ About(0, u)
BY NumbersApart, NoOpFields DEF About, Nobody

LEMMA ClosesStay ==
  ASSUME ClosesKnown, Recorded, InWork' \subseteq InWork \cup {NoOp}
  PROVE  ClosesKnown'
<1> SUFFICES ASSUME NEW o \in InWork', Closes(o) PROVE o.number \in over' \/ Left(o.uid)' \/ crossed'
  BY DEF ClosesKnown, Closes
<1>1. o \in InWork
  BY NoOpFields DEF Closes
<1> QED BY <1>1, LeftStays DEF ClosesKnown, Recorded

\* Of one task there is one issue and one operation.
LEMMA OneIssue ==
  ASSUME Apart, NEW o \in InWork, NEW n, NEW u, o.uid = u, u # Nobody, About(n, u)
  PROVE  n = o.number
BY DEF Apart, About, PairsApart, WorkApart

\* A plan closes an issue only where the task is known to have been left.
LEMMA PlanKnown ==
  ASSUME TypeOK, TypeOK', PairInvariant, LeftInvariant, Plan
  PROVE  AllKnown' /\ ClosesKnown'
<1>1. PICK ms \in Matchings : ops' = PairOps \cup FreeOps(ms)
  BY DEF Plan
<1>2. /\ op' = NoOp /\ UNCHANGED <<tasks, pairs, link, over, touched, crossed>> /\ pc # "idle"
  BY DEF Plan, PairInvariant, OpTaken, store, ties, ghosts
<1>3. Recorded
  BY <1>2 DEF Recorded
<1>4. ASSUME NEW n \in Paired
      PROVE  n \in Numbers /\ pairs[n].uid \in Uids /\ Known(n, pairs[n].uid)
  BY TypeParts DEF Paired, TieType, Pair, LeftInvariant, AllKnown, About
<1>5. ASSUME NEW u \in FreeTasks, NEW n
      PROVE  u \in Uids /\ Known(n, u)
  BY <1>2 DEF FreeTasks, InList, Known, LeftInvariant, SameLink
<1>6. ASSUME NEW o \in InWork'
      PROVE  o \in PairOps \/ o \in FreeOps(ms) \/ o = NoOp
  BY <1>1, <1>2 DEF InWork
<1>7. ASSUME NEW o \in InWork', o.uid # Nobody PROVE Known(o.number, o.uid)
  <2>1. CASE o \in PairOps
    BY <1>4, <2>1, PairOpAbout
  <2>2. CASE o \in FreeOps(ms)
    BY <1>5, <1>7, <2>2, FreeOpAbout
  <2> QED BY <1>6, <1>7, <2>1, <2>2, NoOpFields
<1>8. AllKnown'
  <2> SUFFICES ASSUME NEW n \in Numbers \cup {0}, NEW u \in Uids, About(n, u)' PROVE Known(n, u)'
    BY DEF AllKnown
  <2>1. Known(n, u)
    <3>1. CASE n \in Numbers /\ pairs[n].uid = u
      BY <3>1, NumbersApart DEF LeftInvariant, AllKnown, About
    <3>2. CASE \E o \in InWork' : o.number = n /\ o.uid = u
      BY <1>7, <3>2, NumbersApart DEF Nobody
    <3> QED BY <1>2, <3>1, <3>2 DEF About
  <2> QED BY <1>2, <2>1 DEF Known, Left
<1>9. ClosesKnown'
  <2> SUFFICES ASSUME NEW o \in InWork', Closes(o) PROVE o.number \in over \/ Left(o.uid) \/ crossed
    BY <1>2 DEF ClosesKnown, Closes, Left
  <2>1. CASE o \in FreeOps(ms)
    BY <2>1, FreeOpAbout DEF Closes
  <2>2. CASE o = NoOp
    BY <2>2, NoOpFields DEF Closes
  <2>3. CASE o \in PairOps
    <3>1. PICK n \in Paired :
            \/ Listed(n) /\ InList(pairs[n].uid) /\ o = MergeOp(n)
            \/ Listed(n) /\ ~InList(pairs[n].uid) /\ o = Op("close", n, pairs[n].uid, Blank)
            \/ \E k \in {"complete", "unpair"} : o = Op(k, n, pairs[n].uid, Blank)
      BY <2>3, PairOpsKinds
    <3>2. o.number = n /\ o.uid = pairs[n].uid
      BY <3>1, MergeOpType, OpFields
    <3>3. CASE ~InList(pairs[n].uid)
      BY <1>2, <1>4, <3>2, <3>3 DEF InList, Known, LeftInvariant, SameLink
    <3>4. CASE o = MergeOp(n)
      <4>1. o.kind # "close"
        BY <3>4, MergeOpType
      <4>2. "open" \in o.issue /\ ~o.item.open
        BY <4>1 DEF Closes
      <4>3. /\ tasks[pairs[n].uid].item \in Item /\ listing[n].item \in Item /\ pairs[n].item \in Item
        BY <1>4, TypeParts DEF StoreType, Task, PassType, Issue, TieType, Pair
      <4>4. /\ o.item = Agreed(pairs[n].item, listing[n].item, tasks[pairs[n].uid].item)
            /\ o.issue = Differing(listing[n].item, o.item)
        BY <3>4 DEF MergeOp
      <4>5. listing[n].item.open # o.item.open
        BY <4>2, <4>4 DEF Differing
      <4>6. o.item.open = IF listing[n].item.open # pairs[n].item.open
                          THEN listing[n].item.open ELSE tasks[pairs[n].uid].item.open
        BY <4>4 DEF Agreed
      <4>7. ~tasks[pairs[n].uid].item.open
        BY <4>2, <4>5, <4>6
      <4> QED BY <1>4, <3>2, <4>7 DEF Known
    <3>5. CASE \E k \in {"complete", "unpair"} : o = Op(k, n, pairs[n].uid, Blank)
      BY <3>5, OpFields DEF Closes
    <3> QED BY <3>1, <3>3, <3>4, <3>5
  <2> QED BY <1>6, <2>1, <2>2, <2>3
<1> QED BY <1>8, <1>9

\* A step that ends or does work, pairs nothing new and leaves the link alone.
LEMMA LeftWorks ==
  ASSUME TypeOK', LeftInvariant, Recorded, TasksTold, link' = link,
         InWork' \subseteq InWork \cup {NoOp}, \A n \in Numbers : pairs'[n].uid \in {pairs[n].uid, Nobody},
         SameLink'
  PROVE  LeftInvariant'
<1>1. AllKnown'
  BY AboutShrinks, AllKnownStays DEF LeftInvariant
<1>2. ClosesKnown'
  BY ClosesStay DEF LeftInvariant
<1> QED BY <1>1, <1>2 DEF LeftInvariant

\* A pair is stored for work that is done with.
LEMMA LeftStores ==
  ASSUME TypeOK, TypeOK', LeftInvariant, Recorded, tasks' = tasks, link' = link,
         NEW o \in InWork, InWork' \subseteq InWork \cup {NoOp},
         NEW n, n = o.number \/ o.number = 0, NEW item, StorePair(n, o.uid, item), SameLink'
  PROVE  LeftInvariant'
<1>1. \A m \in Numbers : pairs'[m].uid = pairs[m].uid \/ (m = n /\ pairs'[m].uid = o.uid)
  BY StoredUids, TypeParts
<1>2. \A m \in Numbers \cup {0}, u \in Uids : About(m, u)' => About(m, u) \/ About(0, u)
  BY <1>1, NumbersApart, NoOpFields DEF About, Nobody
<1>3. AllKnown'
  BY <1>2, SameTasks, AllKnownStays DEF LeftInvariant
<1>4. ClosesKnown'
  BY ClosesStay DEF LeftInvariant
<1> QED BY <1>3, <1>4 DEF LeftInvariant

\* A task made for an issue is open and in the list of the pass.
LEMMA LeftMakes ==
  ASSUME TypeOK, TypeOK', PairInvariant, LeftInvariant, Recorded, link' = link, pc # "idle",
         InWork' \subseteq InWork \cup {NoOp},
         NEW u \in Uids, u \notin born, NEW item \in Item, item.open = TRUE, Insert(u, item),
         NEW k, StorePair(k, u, item) \/ pairs' = pairs, SameLink'
  PROVE  LeftInvariant'
<1>1. /\ tasks'[u] = [list |-> list, item |-> item]
      /\ \A v \in Uids \ {u} : tasks'[v] = tasks[v]
  BY TypeParts DEF Insert, StoreType
<1>2. ASSUME NEW n \in Numbers \cup {0} PROVE ~About(n, u)
  BY NumbersApart DEF About, Nobody, PairInvariant, Apart, PairsBorn, WorkNew
<1>3. TasksTold
  BY <1>1, <1>2 DEF TasksTold
<1>4. \A m \in Numbers : pairs'[m].uid = pairs[m].uid \/ pairs'[m].uid = u
  BY StoredUids, TypeParts
<1>5. ASSUME NEW n \in Numbers \cup {0}, NEW v \in Uids, About(n, v)' PROVE Known(n, v)'
  <2>1. CASE v = u
    <3>1. tasks'[v].item.open /\ (crossed' \/ tasks'[v].list = link')
      BY <1>1, <2>1 DEF LeftInvariant, SameLink, Recorded
    <3> QED BY <3>1 DEF Known
  <2>2. CASE v # u
    <3>1. About(n, v)
      BY <1>4, <1>5, <2>2, NumbersApart, NoOpFields DEF About, Nobody
    <3> QED BY <1>3, <3>1, KnownStays DEF LeftInvariant, AllKnown
  <2> QED BY <2>1, <2>2
<1>6. ClosesKnown'
  BY ClosesStay DEF LeftInvariant
<1> QED BY <1>5, <1>6 DEF LeftInvariant, AllKnown

\* A task is completed by the pass only for an issue that is over.
LEMMA EditedTold ==
  ASSUME TypeOK, Apart, Recorded, NEW o \in InWork, NEW fields, NEW item \in Item,
         tasks' = Edited(o.uid, fields, item), "open" \in fields /\ ~item.open => o.number \in over
  PROVE  TasksTold
<1> SUFFICES ASSUME NEW n \in Numbers \cup {0}, NEW u \in Uids, About(n, u)
             PROVE  /\ tasks[u].item.open /\ ~tasks'[u].item.open => n \in over'
                    /\ tasks'[u].list = tasks[u].list
  BY DEF TasksTold
<1>1. tasks'[u].list = tasks[u].list
  BY EditedStays
<1>2. ASSUME tasks[u].item.open, ~tasks'[u].item.open PROVE n \in over'
  <2>1. u = o.uid /\ "open" \in fields /\ ~item.open
    BY <1>2, EditedCloses
  <2>2. n = o.number
    BY <2>1, OneIssue, NumbersApart DEF Nobody
  <2> QED BY <2>1, <2>2 DEF Recorded
<1> QED BY <1>1, <1>2

LEMMA PassKeepsLeft ==
  ASSUME TypeOK, TypeOK', PairInvariant, OverInvariant, LeftInvariant, PassStep
  PROVE  LeftInvariant'
<1> USE TypeParts
<1> USE DEF store, github, ties, work, ghosts
<1>0. Apart /\ OpTaken /\ AnsweredFor /\ SameLink /\ MergeTold /\ GoneTold
  BY DEF OverInvariant, PairInvariant, LeftInvariant
<1>a. ASSUME UNCHANGED <<over, touched, crossed>> PROVE Recorded
  BY <1>a DEF Recorded
<1>b. ASSUME UNCHANGED pairs PROVE \A n \in Numbers : pairs'[n].uid \in {pairs[n].uid, Nobody}
  BY <1>b
<1>c. ASSUME NEW k, pairs' = [pairs EXCEPT ![k] = NoPair]
      PROVE  \A n \in Numbers : pairs'[n].uid \in {pairs[n].uid, Nobody}
  BY <1>c DEF TieType, NoPair
<1>1. CASE NotLinked \/ ReadIssues
  <2>1. /\ UNCHANGED <<over, touched, crossed, tasks, pairs, link, op, ops>>
        /\ UNCHANGED <<pc, list>> \/ (pc' # "idle" /\ list' = link)
    BY <1>1 DEF NotLinked, ReadIssues, vars
  <2>2. SameLink'
    BY <1>0, <2>1 DEF SameLink
  <2>3. InWork' \subseteq InWork \cup {NoOp}
    BY <2>1 DEF InWork
  <2> QED BY <1>a, <1>b, <2>1, <2>2, <2>3, SameTasks, LeftWorks
<1>2. CASE Plan
  <2>1. SameLink'
    BY <1>0, <1>2 DEF Plan, SameLink
  <2> QED BY <1>2, <2>1, PlanKnown DEF LeftInvariant
<1>3. CASE Merge
  <2>1. PICK o \in ops :
          /\ o.kind = "merge"
          /\ UNCHANGED tasks \/ tasks' = Edited(o.uid, o.task, o.item)
          /\ Dropped(o) \/ Doing(o)
          /\ pc' # "idle"
    BY <1>3 DEF Merge, Dropped
  <2>2. UNCHANGED <<over, touched, crossed, pairs, link, list>> /\ pc = "apply"
    BY <1>3 DEF Merge
  <2>3. InWork' \subseteq InWork \cup {NoOp} /\ o \in InWork /\ o.item \in Item
    BY <1>0, <2>1, TakenAway DEF Dropped, Doing, InWork, PassType, Operation
  <2>4. TasksTold
    <3>1. "open" \in o.task /\ ~o.item.open => o.number \in over
      BY <1>0, <2>1, <2>3 DEF MergeTold
    <3> QED BY <1>0, <1>a, <2>1, <2>2, <2>3, <3>1, SameTasks, EditedTold
  <2>5. SameLink'
    BY <1>0, <2>1, <2>2 DEF SameLink
  <2> QED BY <1>a, <1>b, <2>2, <2>3, <2>4, <2>5, LeftWorks
<1>4. CASE Ask \/ Unpair
  <2>1. PICK o \in ops : (Doing(o) /\ UNCHANGED pairs) \/ (Dropped(o) /\ pairs' = [pairs EXCEPT ![o.number] = NoPair])
    BY <1>4 DEF Ask, Unpair
  <2>2. UNCHANGED <<over, touched, crossed, tasks, link, list>> /\ pc = "apply" /\ pc' # "idle"
    BY <1>4 DEF Ask, Unpair, Dropped
  <2>3. InWork' \subseteq InWork \cup {NoOp}
    BY <1>0, <2>1, TakenAway DEF Dropped, Doing
  <2>4. SameLink'
    BY <1>0, <2>2 DEF SameLink
  <2> QED BY <1>a, <1>b, <1>c, <2>1, <2>2, <2>3, <2>4, SameTasks, LeftWorks
<1>5. CASE Adopt
  <2>1. PICK o \in ops : StorePair(o.number, o.uid, Opened(o.item)) /\ Dropped(o)
    BY <1>5 DEF Adopt
  <2>2. UNCHANGED <<over, touched, crossed, tasks, link, list>> /\ pc = "apply" /\ pc' # "idle"
    BY <1>5, <2>1 DEF Adopt, Dropped
  <2>3. InWork' \subseteq InWork \cup {NoOp} /\ o \in InWork
    BY <1>0, <2>1, TakenAway DEF Dropped, InWork
  <2>4. SameLink'
    BY <1>0, <2>2 DEF SameLink
  <2> QED BY <1>a, <2>1, <2>2, <2>3, <2>4, LeftStores
<1>6. CASE NewTask
  <2>1. PICK o \in ops, u \in Unborn(Uids \ Repeating) :
          Insert(u, Opened(o.item)) /\ StorePair(o.number, u, Opened(o.item)) /\ Dropped(o)
    BY <1>6 DEF NewTask
  <2>2. UNCHANGED <<over, touched, crossed, link, list>> /\ pc = "apply" /\ pc' # "idle"
    BY <1>6, <2>1 DEF NewTask, Dropped
  <2>3. InWork' \subseteq InWork \cup {NoOp} /\ o.item \in Item
    BY <1>0, <2>1, TakenAway DEF Dropped, PassType, Operation
  <2>4. SameLink'
    BY <1>0, <2>2 DEF SameLink
  <2>5. u \in Uids /\ u \notin born /\ Opened(o.item) \in Item /\ Opened(o.item).open = TRUE
    BY <2>1, <2>3, UnbornType, OpenedType
  <2> QED BY <1>a, <2>1, <2>2, <2>3, <2>4, <2>5, LeftMakes
<1>7. CASE Update \/ Look \/ Create
  <2>1. /\ UNCHANGED <<touched, crossed, tasks, pairs, link, list, op, ops>>
        /\ over \subseteq over' /\ pc # "idle" /\ pc' # "idle"
    BY <1>7 DEF Update, Look, Create, SetIssue
  <2>2. Recorded /\ SameLink'
    BY <1>0, <2>1 DEF Recorded, SameLink
  <2>3. InWork' \subseteq InWork \cup {NoOp}
    BY <2>1 DEF InWork
  <2> QED BY <1>b, <2>1, <2>2, <2>3, SameTasks, LeftWorks
<1>8. ASSUME NEW kinds, Answered(kinds)
      PROVE  /\ Recorded /\ SameLink' /\ link' = link /\ InWork' \subseteq InWork \cup {NoOp}
             /\ op \in InWork /\ op.item \in Item
  <2>1. Recorded /\ link' = link
    BY <1>8, <1>a DEF Answered
  <2>2. SameLink'
    BY <1>0, <1>8 DEF Answered, SameLink
  <2> QED BY <1>8, <2>1, <2>2 DEF Answered, InWork, PassType, Operation
<1>9. CASE Remember
  <2>0. Answered({"merge", "newissue"}) /\ tasks' = tasks
    BY <1>9 DEF Remember
  <2>1. CASE answer.ok
    <3>1. PICK item : StorePair(answer.number, op.uid, item)
      BY <1>9, <2>1 DEF Remember
    <3>2. answer.number = op.number \/ op.number = 0
      BY <1>0, <2>0 DEF Answered, AnsweredFor, Apart, WorkNew, InWork
    <3> QED BY <1>8, <2>0, <3>1, <3>2, LeftStores
  <2>2. CASE ~answer.ok
    BY <1>8, <1>9, <1>b, <2>0, <2>2, SameTasks, LeftWorks DEF Remember
  <2> QED BY <2>1, <2>2
<1>10. CASE Closed
  <2>1. Answered({"close"}) /\ tasks' = tasks
    BY <1>10 DEF Closed
  <2>2. \A n \in Numbers : pairs'[n].uid \in {pairs[n].uid, Nobody}
    BY <1>10, <1>b, <1>c DEF Closed
  <2> QED BY <1>8, <2>1, <2>2, SameTasks, LeftWorks
<1>11. CASE CompleteTask
  <2>1. Answered({"complete"})
    BY <1>11 DEF CompleteTask
  <2>2. \A n \in Numbers : pairs'[n].uid \in {pairs[n].uid, Nobody}
    BY <1>11, <1>b, <1>c DEF CompleteTask
  <2>3. TasksTold
    <3>1. CASE UNCHANGED tasks
      BY <3>1, SameTasks
    <3>2. CASE tasks' # tasks
      <4>1. tasks' = Edited(op.uid, {"open"}, Blank) /\ ~answer.ok
        BY <1>11, <3>2 DEF CompleteTask, IssueGone
      <4>2. op.number \in over
        BY <1>0, <2>1, <4>1 DEF Answered, GoneTold
      <4> QED BY <1>0, <1>8, <2>1, <4>1, <4>2, BlankType, EditedTold
    <3> QED BY <3>1, <3>2
  <2> QED BY <1>8, <2>1, <2>2, <2>3, LeftWorks
<1>12. CASE PassDone
  <2>1. UNCHANGED <<over, touched, crossed, tasks, pairs, link>> /\ EndPass
    BY <1>12 DEF PassDone
  <2>2. SameLink' /\ InWork' \subseteq InWork \cup {NoOp}
    BY <2>1 DEF EndPass, SameLink, InWork
  <2> QED BY <1>a, <1>b, <2>1, <2>2, SameTasks, LeftWorks
<1> QED BY <1>1, <1>2, <1>3, <1>4, <1>5, <1>6, <1>7, <1>9, <1>10, <1>11, <1>12 DEF PassStep

LEMMA UserKeepsLeft ==
  ASSUME TypeOK, TypeOK', PairInvariant, LeftInvariant, UserStep
  PROVE  LeftInvariant'
<1> USE TypeParts
<1> USE DEF store, ties, work
<1>0. SameLink
  BY DEF LeftInvariant
<1>1. ASSUME Calm PROVE InWork' \subseteq InWork \cup {NoOp} /\ (Recorded => SameLink' \/ link' # link)
  BY <1>0, <1>1 DEF Calm, InWork, Recorded, SameLink
<1>2. ASSUME Calm, Recorded, TasksTold, UNCHANGED <<link, pairs>> PROVE LeftInvariant'
  BY <1>1, <1>2, LeftWorks
<1>3. ASSUME NEW u \in Uids, u \notin born, NEW l \in Lists, AddTask(u, l)
      PROVE  LeftInvariant'
  <2>1. \A n \in Numbers \cup {0} : ~About(n, u)
    BY <1>3, NumbersApart DEF About, Nobody, PairInvariant, Apart, PairsBorn, WorkNew
  <2>2. \A v \in Uids \ {u} : tasks'[v] = tasks[v]
    BY <1>3 DEF AddTask, SetTask, StoreType
  <2>3. TasksTold
    BY <2>1, <2>2 DEF TasksTold
  <2>4. Recorded
    BY <1>3 DEF AddTask, Recorded
  <2> QED BY <1>2, <1>3, <2>3, <2>4 DEF AddTask
<1>4. ASSUME NEW u \in Uids, NEW f \in Fields, EditTask(u, f)
      PROVE  LeftInvariant'
  <2>1. PICK item \in Item :
          /\ \A g \in Fields : item[g] # tasks[u].item[g] <=> g = f
          /\ SetTask(u, [list |-> tasks[u].list, item |-> item])
    BY <1>4 DEF EditTask
  <2>2. /\ \A v \in Uids \ {u} : tasks'[v] = tasks[v]
        /\ tasks'[u].list = tasks[u].list /\ tasks'[u].item = item
    BY <2>1 DEF SetTask, StoreType
  <2>3. touched' = touched \cup {<<"task", u, f>>}
    BY <1>4 DEF EditTask, Touched
  <2>4. ASSUME tasks[u].item.open, ~tasks'[u].item.open PROVE Left(u)'
    <3>1. f = "open"
      BY <2>1, <2>2, <2>4 DEF Fields
    <3> QED BY <2>3, <3>1 DEF Left
  <2>5. TasksTold
    BY <2>2, <2>4 DEF TasksTold
  <2>6. Recorded
    BY <1>4, <2>3 DEF EditTask, Recorded
  <2> QED BY <1>2, <1>4, <2>5, <2>6 DEF EditTask
<1>5. ASSUME NEW u \in Uids, NEW l \in Lists \cup {Nowhere}, TakeTask(u, l)
      PROVE  LeftInvariant'
  <2>1. \A v \in Uids \ {u} : tasks'[v] = tasks[v]
    BY <1>5 DEF TakeTask, SetTask, StoreType
  <2>2. touched' = touched \cup {<<"task", u, "list">>}
    BY <1>5 DEF TakeTask, Touched
  <2>3. Left(u)'
    BY <2>2 DEF Left
  <2>4. TasksTold
    BY <2>1, <2>3 DEF TasksTold
  <2>5. Recorded
    BY <1>5, <2>2 DEF TakeTask, Recorded
  <2> QED BY <1>2, <1>5, <2>4, <2>5 DEF TakeTask
<1>6. CASE Unlink \/ \E l \in Lists : Link(l)
  <2>1. /\ Calm /\ UNCHANGED <<tasks, over, touched>> /\ Cross
        /\ pairs' = NoPairs
    BY <1>6 DEF Link, Unlink, TieType
  <2>2. Recorded
    BY <2>1 DEF Cross, Recorded
  <2>3. ClosesKnown'
    BY <1>1, <2>1, <2>2, ClosesStay DEF LeftInvariant
  <2>4. SameLink'
    BY <1>0, <2>1 DEF Calm, Cross, SameLink
  <2>5. \A n \in Numbers : pairs'[n].uid = Nobody
    BY <2>1 DEF NoPairs, NoPair
  <2>6. AllKnown'
    <3>1. CASE pc = "idle"
      <4>1. InWork' = {NoOp}
        BY <1>0, <2>1, <3>1 DEF Calm, SameLink, PairInvariant, OpTaken, InWork
      <4> QED BY <2>5, <4>1, NoOpFields, NumbersApart DEF AllKnown, About, Nobody
    <3>2. CASE pc # "idle"
      <4>1. crossed'
        BY <2>1, <3>2 DEF Cross
      <4>2. \A n \in Numbers \cup {0}, u \in Uids : About(n, u)' => About(n, u) \/ About(0, u)
        BY <1>1, <2>1, <2>5, AboutShrinks
      <4> QED BY <2>1, <2>2, <4>1, <4>2, SameTasks, AllKnownStays DEF LeftInvariant
    <3> QED BY <3>1, <3>2
  <2> QED BY <2>3, <2>4, <2>6 DEF LeftInvariant
<1>7. \A S : Unborn(S) \subseteq S \ born
  BY UnbornType
<1> QED BY <1>3, <1>4, <1>5, <1>6, <1>7, UidsAssumption DEF UserStep

LEMMA OthersKeepLeft ==
  ASSUME TypeOK, TypeOK', PairInvariant, LeftInvariant, GithubStep \/ FaultStep
  PROVE  LeftInvariant'
<1> USE TypeParts
<1> USE DEF store, github, ties, work, ghosts
<1>0. SameLink
  BY DEF LeftInvariant
<1>1. CASE GithubStep
  <2>1. Away /\ over \subseteq over' /\ touched \subseteq touched'
    BY <1>1 DEF GithubStep, GithubOpens, GithubEdits, GithubDeletes, SetIssue, Touched
  <2>2. Recorded /\ SameLink' /\ TasksTold /\ InWork' \subseteq InWork \cup {NoOp}
    BY <1>0, <2>1, SameTasks DEF Away, Recorded, SameLink, InWork
  <2> QED BY <2>1, <2>2, LeftWorks DEF Away
<1>2. CASE PassFails \/ Refused
  <2>1. UNCHANGED <<over, touched, crossed, tasks, pairs, link>> /\ (EndPass \/ Refused)
    BY <1>2 DEF PassFails, Refused
  <2>2. SameLink' /\ InWork' \subseteq InWork \cup {NoOp}
    BY <1>0, <2>1 DEF EndPass, Refused, SameLink, InWork
  <2>3. Recorded
    BY <2>1 DEF Recorded
  <2> QED BY <2>1, <2>2, <2>3, SameTasks, LeftWorks
<1>3. CASE DiesUnpaired
  <2>1. PICK o \in ops, u \in Unborn(Uids \ Repeating) : Insert(u, Opened(o.item))
    BY <1>3 DEF DiesUnpaired
  <2>2. u \in Uids /\ u \notin born /\ Opened(o.item) \in Item /\ Opened(o.item).open = TRUE
    <3>1. o.item \in Item
      BY <2>1 DEF PassType, Operation
    <3> QED BY <2>1, <3>1, UnbornType, OpenedType
  <2>3. UNCHANGED <<over, touched, crossed, pairs, link>> /\ EndPass /\ pc = "apply"
    BY <1>3 DEF DiesUnpaired
  <2>4. SameLink' /\ InWork' \subseteq InWork \cup {NoOp} /\ Recorded
    BY <2>3 DEF EndPass, SameLink, InWork, Recorded
  <2> QED BY <2>1, <2>2, <2>3, <2>4, LeftMakes
<1> QED BY <1>1, <1>2, <1>3 DEF FaultStep

LEMMA LeftKept == TypeOK /\ PairInvariant /\ OverInvariant /\ LeftInvariant /\ [Next]_vars => LeftInvariant'
<1> SUFFICES ASSUME TypeOK, PairInvariant, OverInvariant, LeftInvariant, [Next]_vars PROVE LeftInvariant'
  OBVIOUS
<1>1. TypeOK'
  BY TypesKept
<1>2. CASE UNCHANGED vars
  <2>1. UNCHANGED <<tasks, link, pairs, pc, list, op, ops, over, touched, crossed>>
    BY <1>2 DEF vars, store, ties, work, ghosts
  <2> QED BY <2>1 DEF LeftInvariant, AllKnown, About, Known, Left, ClosesKnown, Closes, SameLink, InWork
<1> QED BY <1>1, <1>2, PassKeepsLeft, UserKeepsLeft, OthersKeepLeft DEF Next

LEMMA LeftBegins == Init => LeftInvariant
<1> SUFFICES ASSUME Init PROVE LeftInvariant
  OBVIOUS
<1>1. InWork = {NoOp} /\ \A n \in Numbers : pairs[n].uid = Nobody
  BY DEF Init, InWork, NoPairs, NoPair
<1>2. AllKnown
  BY <1>1, NoOpFields, NumbersApart DEF AllKnown, About, Nobody
<1>3. ClosesKnown
  BY <1>1, NoOpFields DEF ClosesKnown, Closes
<1> QED BY <1>2, <1>3 DEF Init, LeftInvariant, SameLink

Closing(n) == PeopleRest /\ Exists(n) /\ issues[n].item.open /\ ~issues'[n].item.open

\* Only Update closes an issue that was there, and people's steps are told by the bounds.
LEMMA ClosingTold ==
  ASSUME TypeOK, LeftInvariant, [Next]_vars, NEW n \in Numbers, Closing(n)
  PROVE  n \in over \/ Left(op.uid) \/ crossed
<1> USE TypeParts
<1>1. CASE UNCHANGED issues
  BY <1>1 DEF Closing
<1>2. CASE Update
  <2>1. Exists(op.number) /\ SetIssue(op.number, "here", Patched(op)) /\ op.kind \in {"merge", "close"}
    BY <1>2 DEF Update, Closing, github
  <2>2. n = op.number
    BY <2>1 DEF SetIssue, GithubType, Closing
  <2>3. issues'[n].item = Patched(op)
    BY <2>1, <2>2 DEF SetIssue, GithubType, Exists
  <2>4. ~Patched(op).open /\ issues[op.number].item.open
    BY <2>2, <2>3 DEF Closing
  <2>5. Closes(op)
    BY <2>1, <2>4 DEF Patched, Closes
  <2> QED BY <2>2, <2>5 DEF LeftInvariant, ClosesKnown, InWork
<1>3. CASE Create
  <2>1. PICK m \in NextNumber : SetIssue(m, "here", Opened(op.item))
    BY <1>3 DEF Create
  <2>2. m # n
    BY <2>1 DEF NextNumber, Least, Closing, Exists
  <2> QED BY <2>1, <2>2 DEF SetIssue, GithubType, Closing
<1>4. CASE GithubStep
  <2>1. Github
    BY <1>4 DEF GithubStep, GithubOpens, GithubEdits, GithubDeletes
  <2>2. used.github \in Nat
    BY DEF BoundType, Bounds
  <2> QED BY <2>1, <2>2, BoundTypes DEF Closing, PeopleRest
<1>5. CASE UserStep \/ FaultStep
  BY <1>1, <1>5 DEF UserStep, AddTask, EditTask, TakeTask, Link, Unlink, Calm, FaultStep, PassFails, Refused,
     DiesUnpaired, github
<1>6. CASE NotLinked \/ ReadIssues \/ Plan \/ Merge \/ Ask \/ Adopt \/ Unpair \/ NewTask \/ UNCHANGED vars
  BY <1>1, <1>6 DEF NotLinked, ReadIssues, Plan, Merge, Ask, Adopt, Unpair, NewTask, vars, github
<1>7. CASE Look \/ Remember \/ Closed \/ CompleteTask \/ PassDone
  BY <1>1, <1>7 DEF Look, Remember, Closed, CompleteTask, Answered, PassDone, github
<1> QED BY <1>2, <1>3, <1>4, <1>5, <1>6, <1>7 DEF Next, PassStep

\* A pass closes an issue only where its task was completed, deleted or moved, or where
\* the issue had been closed before, but for a pass during which the link changed.
THEOREM ClosingsEarned == Spec => ClosedOnlyWhenLeft
<1>1. Init => TypeOK /\ PairInvariant /\ OverInvariant /\ LeftInvariant
  BY TypesBegin, PairsBegin, OverBegins, LeftBegins
<1>2. TypeOK /\ PairInvariant /\ OverInvariant /\ LeftInvariant /\ [Next]_vars
        => (TypeOK /\ PairInvariant /\ OverInvariant /\ LeftInvariant)'
  BY TypesKept, PairsKept, OverKept, LeftKept
<1>3. TypeOK /\ PairInvariant /\ OverInvariant /\ LeftInvariant /\ [Next]_vars
        => [\A n \in Numbers : PeopleRest /\ Exists(n) /\ issues[n].item.open /\ ~issues'[n].item.open
                                 => n \in over \/ Left(op.uid) \/ crossed]_vars
  BY ClosingTold DEF Closing
<1> QED BY <1>1, <1>2, <1>3, PTL DEF Spec, ClosedOnlyWhenLeft

-----------------------------------------------------------------------------
(* Nothing is made twice. *)

\* No two operations are about one issue; only while a pass is carried out is there any.
NumbersOnce == \A a, b \in InWork : a.number = b.number /\ a.number # 0 => a = b

\* Nothing is planned before the pass has read the issues.
NoWorkYet == pc \in {"idle", "read"} => ops = {}

\* What asks for a task or an issue has none.
FreeWork == \A o \in InWork : o.kind \in {"adopt", "newtask"} => pairs[o.number].uid = Nobody

\* What an operation is about, there is; only a merge changes fields of the issue.
WorkAbout ==
  \A o \in InWork : /\ o.kind # "merge" => o.issue = {}
                    /\ o.kind \in {"adopt", "newissue", "merge"} => o.uid \in Uids
                    /\ o.kind \in {"adopt", "newtask", "merge"} => o.number \in Numbers

\* The issue that was just made is paired with nothing, and nothing is planned for it.
AnswerNew ==
  pc = "answered" /\ op.kind = "newissue" =>
    /\ answer.ok /\ answer.number \in Numbers /\ pairs[answer.number].uid = Nobody
    /\ \A o \in InWork : o.number # answer.number

\* An issue that was asked for and not there is gone.
GoneSeen == pc = "answered" /\ op.kind = "complete" /\ ~answer.ok => issues[op.number].state = "gone"

\* What was last changed is one issue.
OneOlder == \A n, m \in Numbers : older[n] # issues[n] /\ older[m] # issues[m] => n = m

\* What is known of the operations of a pass, and of what they are about.
WorkInvariant == NumbersOnce /\ NoWorkYet /\ FreeWork /\ WorkAbout /\ AnswerNew /\ GoneSeen /\ OneOlder

\* Where the link was made once and never dropped, a pass is for the list that is linked,
\* and what is planned for a pair is of a pair that is there.
LinkedOnce ==
  /\ pc # "idle" => list = link
  /\ link = Nowhere <=> used.link = 0
  /\ \A o \in InWork : o.kind \in {"merge", "close", "complete", "unpair"} => pairs[o.number].uid = o.uid

LinkInvariant == used.link <= 1 => LinkedOnce

\* What is said of an issue that is there.
Versions(n) == {v \in {issues[n], older[n], listing[n]} : v.state = "here"}

\* Two that are tied have the same title.
TitledIssue(n, title) == \A v \in Versions(n) : v.item.title = title
TitledTask(u, title) == tasks[u].list # Nowhere => tasks[u].item.title = title

PairTitled(n) == TitledIssue(n, pairs[n].item.title) /\ TitledTask(pairs[n].uid, pairs[n].item.title)

OpTitled(o) ==
  /\ o.kind \in {"merge", "adopt", "newtask"} => TitledIssue(o.number, o.item.title)
  /\ o.kind \in {"merge", "adopt", "newissue"} => TitledTask(o.uid, o.item.title)

AnswerTitled == pc = "answered" /\ op.kind = "newissue" => TitledIssue(answer.number, op.item.title)

OneTitle(n) == \A v, w \in Versions(n) : v.item.title = w.item.title

SameTitles ==
  /\ \A n \in Numbers : OneTitle(n)
  /\ \A n \in Paired : PairTitled(n)
  /\ \A o \in InWork : OpTitled(o)
  /\ AnswerTitled

\* But for titles that people changed.
TitleInvariant == ~Retitled => SameTitles

\* Only an issue that is there, or not yet, is changed, and that one alone.
LEMMA IssuesStep ==
  ASSUME TypeOK, [Next]_vars
  PROVE  \/ UNCHANGED <<issues, older>>
         \/ \E n \in Numbers, state \in States, item \in Item : SetIssue(n, state, item) /\ issues[n].state # "gone"
<1> USE DEF store, github, ties, work, ghosts
<1>1. CASE UNCHANGED vars
  BY <1>1 DEF vars
<1>2. \A n \in NextNumber : n \in Numbers /\ issues[n].state = "none"
  BY DEF NextNumber, Least
<1>3. "here" \in States /\ "gone" \in States /\ Blank \in Item
  BY BlankType DEF States
<1>4. CASE UserStep
  BY <1>4 DEF UserStep, AddTask, EditTask, TakeTask, Link, Unlink, Calm
<1>5. CASE FaultStep
  BY <1>5 DEF FaultStep, PassFails, Refused, DiesUnpaired
<1>6. CASE GithubStep
  BY <1>2, <1>3, <1>6 DEF GithubStep, GithubOpens, GithubEdits, GithubDeletes, Exists
<1>7. CASE Update
  <2>1. CASE Exists(op.number)
    <3>1. Patched(op) \in Item
      BY <2>1, TypeParts DEF Exists, Patched, PassType, Operation, GithubType, Issue, Item
    <3> QED BY <1>3, <1>7, <2>1, <3>1 DEF Update, Exists
  <2> QED BY <1>7, <2>1 DEF Update
<1>8. CASE Create
  <2>1. Opened(op.item) \in Item
    BY OpenedType, TypeParts DEF PassType, Operation
  <2> QED BY <1>2, <1>3, <1>8, <2>1 DEF Create
<1>9. CASE PassStep /\ ~Update /\ ~Create
  BY <1>9 DEF PassStep, NotLinked, vars, ReadIssues, Plan, Merge, Ask, Adopt, Unpair, NewTask, Look, Remember,
     Closed, CompleteTask, Answered, PassDone
<1> QED BY <1>1, <1>4, <1>5, <1>6, <1>7, <1>8, <1>9 DEF Next

\* A change of one issue leaves the others, and is what a listing may lag behind.
LEMMA IssueSet ==
  ASSUME TypeOK, NEW n \in Numbers, NEW state, NEW item, SetIssue(n, state, item)
  PROVE  /\ issues'[n].state = state /\ issues'[n].item = item
         /\ \A m \in Numbers \ {n} : issues'[m] = issues[m]
         /\ older' = issues
BY TypeParts DEF SetIssue, GithubType

LEMMA OlderKept ==
  ASSUME TypeOK, OneOlder, [Next]_vars
  PROVE  /\ OneOlder'
         /\ \A n \in Numbers : issues[n].state = "gone" => issues'[n].state = "gone"
<1>1. CASE UNCHANGED <<issues, older>>
  BY <1>1 DEF OneOlder
<1>2. ASSUME NEW n \in Numbers, NEW state \in States, NEW item \in Item, SetIssue(n, state, item),
             issues[n].state # "gone"
      PROVE  OneOlder' /\ \A m \in Numbers : issues[m].state = "gone" => issues'[m].state = "gone"
  BY <1>2, IssueSet DEF OneOlder
<1> QED BY <1>1, <1>2, IssuesStep

LEMMA OpIssue == NoOp.issue = {} /\ \A kind, n, u, item : Op(kind, n, u, item).issue = {}
BY DEF NoOp, Op

\* Work that is done and pairs that go leave the rest as it was.
LEMMA WorkStays ==
  ASSUME NumbersOnce, FreeWork, WorkAbout, InWork' \subseteq InWork \cup {NoOp},
         \A n \in Numbers : pairs'[n].uid \in {pairs[n].uid, Nobody}
  PROVE  NumbersOnce' /\ FreeWork' /\ WorkAbout'
<1>1. NumbersOnce' /\ WorkAbout'
  BY NoOpFields, OpIssue DEF NumbersOnce, WorkAbout
<1>2. FreeWork'
  BY NoOpFields DEF FreeWork, WorkAbout
<1> QED BY <1>1, <1>2

\* A pair is stored for an issue that no other operation is about.
LEMMA WorkStores ==
  ASSUME TieType, NumbersOnce, FreeWork, WorkAbout, InWork' \subseteq InWork \cup {NoOp},
         NEW n, NEW u, NEW item, StorePair(n, u, item), \A o \in InWork' : o.number # 0 => o.number # n
  PROVE  NumbersOnce' /\ FreeWork' /\ WorkAbout'
<1>1. NumbersOnce' /\ WorkAbout'
  BY NoOpFields, OpIssue DEF NumbersOnce, WorkAbout
<1>2. \A m \in Numbers : pairs'[m].uid = pairs[m].uid \/ m = n
  BY StoredUids
<1>3. FreeWork'
  BY <1>2, NoOpFields, NumbersApart DEF FreeWork, WorkAbout
<1> QED BY <1>1, <1>3

\* A plan has one operation for an issue, and pairs what is unpaired.
LEMMA PlanOnce ==
  ASSUME TypeOK, PairInvariant, Plan
  PROVE  NumbersOnce' /\ FreeWork' /\ WorkAbout'
<1>1. PICK ms \in Matchings : ops' = PairOps \cup FreeOps(ms)
  BY DEF Plan
<1>2. op' = NoOp /\ pairs' = pairs
  BY DEF Plan, PairInvariant, OpTaken, ties
<1>3. ASSUME NEW o \in InWork' PROVE o \in PairOps \/ o \in FreeOps(ms) \/ o = NoOp
  BY <1>1, <1>2 DEF InWork
<1>4. ASSUME NEW o \in PairOps
      PROVE  /\ o.kind \in {"merge", "close", "complete", "unpair"}
             /\ o.number \in Paired /\ o.number \in Numbers /\ o.uid \in Uids
             /\ o.kind # "merge" => o.issue = {}
  <2>1. o.kind # "merge" => o.issue = {}
    BY PairOpsKinds, MergeOpType, OpIssue
  <2> QED BY <2>1, PairOpAbout, TypeParts DEF Paired, TieType, Pair
<1>5. ASSUME NEW o \in FreeOps(ms)
      PROVE  /\ o.kind \in {"adopt", "newtask", "newissue"}
             /\ o.kind = "newissue" => o.number = 0
             /\ o.kind # "newissue" => o.number \in FreeIssues
             /\ o.kind # "newtask" => o.uid \in Uids
             /\ o.issue = {}
  BY FreeOpsKinds, MatchingType, FreeTypes, OpFields, OpIssue
<1>6. FreeIssues \subseteq Numbers \ Paired
  BY DEF FreeIssues
<1>7. ASSUME NEW a \in FreeOps(ms), NEW b \in FreeOps(ms), a.number = b.number, a.number # 0
      PROVE  a = b
  <2> DEFINE Adopts(o, m) == o = Op("adopt", m[1], m[2], listing[m[1]].item)
             Makes(o, n) == ~Taken(ms, 1, n) /\ o = Op("newtask", n, Nobody, listing[n].item)
  <2>1. ASSUME NEW o \in FreeOps(ms), o.number # 0
        PROVE  (\E m \in ms : Adopts(o, m)) \/ (\E n \in FreeIssues : Makes(o, n))
    BY <2>1, OpFields DEF FreeOps
  <2>2. ASSUME NEW m \in ms, NEW k \in ms, Adopts(a, m), Adopts(b, k) PROVE a = b
    <3>1. m[1] = k[1]
      BY <1>7, <2>2, OpFields
    <3> QED BY <2>2, <3>1 DEF Matchings
  <2>3. ASSUME NEW o \in FreeOps(ms), NEW p \in FreeOps(ms), o.number = p.number,
               NEW m \in ms, Adopts(o, m), NEW n \in FreeIssues, Makes(p, n)
        PROVE  FALSE
    <3>1. m[1] = n
      BY <2>3, OpFields
    <3> QED BY <2>3, <3>1 DEF Taken
  <2>4. ASSUME NEW m \in FreeIssues, NEW n \in FreeIssues, Makes(a, m), Makes(b, n) PROVE a = b
    <3>1. m = n
      BY <1>7, <2>4, OpFields
    <3> QED BY <2>4, <3>1
  <2>5. (\E m \in ms : Adopts(a, m)) \/ (\E n \in FreeIssues : Makes(a, n))
    BY <1>7, <2>1
  <2>6. (\E m \in ms : Adopts(b, m)) \/ (\E n \in FreeIssues : Makes(b, n))
    BY <1>7, <2>1
  <2> HIDE DEF Adopts, Makes
  <2> QED BY <1>7, <2>2, <2>3, <2>4, <2>5, <2>6
<1>8. NumbersOnce'
  <2> SUFFICES ASSUME NEW a \in InWork', NEW b \in InWork', a.number = b.number, a.number # 0 PROVE a = b
    BY DEF NumbersOnce
  <2>1. (a \in PairOps \/ a \in FreeOps(ms)) /\ (b \in PairOps \/ b \in FreeOps(ms))
    BY <1>3, NoOpFields
  <2>2. a \in PairOps /\ b \in PairOps => a = b
    BY PairOpOne
  <2>3. a \in FreeOps(ms) /\ b \in FreeOps(ms) => a = b
    BY <1>7
  <2> QED BY <1>4, <1>5, <1>6, <2>1, <2>2, <2>3
<1>9. FreeWork'
  BY <1>2, <1>3, <1>4, <1>5, <1>6, NoOpFields DEF FreeWork, Paired
<1>10. WorkAbout'
  BY <1>3, <1>4, <1>5, <1>6, NoOpFields, OpIssue DEF WorkAbout
<1> QED BY <1>8, <1>9, <1>10

LEMMA PassKeepsWork ==
  ASSUME TypeOK, PairInvariant, OverInvariant, WorkInvariant, PassStep
  PROVE  NumbersOnce' /\ FreeWork' /\ WorkAbout' /\ NoWorkYet' /\ AnswerNew'
<1> USE TypeParts
<1> USE DEF store, github, ties, work, ghosts
<1>0. /\ OpTaken /\ AnsweredFor /\ WorkNew /\ WorkMade /\ PairsMade
      /\ NumbersOnce /\ FreeWork /\ WorkAbout /\ NoWorkYet /\ AnswerNew
  BY DEF PairInvariant, Apart, OverInvariant, WorkInvariant
<1>a. ASSUME UNCHANGED pairs PROVE \A n \in Numbers : pairs'[n].uid \in {pairs[n].uid, Nobody}
  BY <1>a
<1>b. ASSUME NEW k, pairs' = [pairs EXCEPT ![k] = NoPair]
      PROVE  \A n \in Numbers : pairs'[n].uid \in {pairs[n].uid, Nobody}
  BY <1>b DEF TieType, NoPair
<1>1. CASE NotLinked
  BY <1>0, <1>1 DEF NotLinked, vars, NumbersOnce, FreeWork, WorkAbout, NoWorkYet, AnswerNew, InWork
<1>2. CASE ReadIssues
  <2>1. pairs' = pairs /\ InWork' = InWork /\ pc' = "read" /\ pc = "idle" /\ ops' = ops
    BY <1>2 DEF ReadIssues, InWork
  <2> QED BY <1>0, <2>1, WorkStays DEF NoWorkYet, AnswerNew
<1>3. CASE Plan
  BY <1>3, PlanOnce DEF Plan, NoWorkYet, AnswerNew
<1>4. CASE Merge
  <2>1. PICK o \in ops : o.kind = "merge" /\ (Dropped(o) \/ (Doing(o) /\ pc' \in {"call", "answered"}))
    BY <1>4 DEF Merge
  <2>2. pairs' = pairs /\ InWork' \subseteq InWork \cup {NoOp} /\ op' \in {o, NoOp}
    BY <1>0, <1>4, <2>1, TakenAway DEF Merge, Dropped, Doing
  <2>3. op'.kind # "newissue"
    BY <2>1, <2>2, NoOpFields
  <2> QED BY <1>0, <1>a, <2>1, <2>2, <2>3, WorkStays DEF NoWorkYet, AnswerNew, Dropped
<1>5. CASE Ask
  <2>1. PICK o \in ops : Doing(o)
    BY <1>5 DEF Ask
  <2>2. pairs' = pairs /\ InWork' \subseteq InWork \cup {NoOp} /\ pc' = "call"
    BY <1>0, <1>5, <2>1, TakenAway DEF Ask, Doing
  <2> QED BY <1>0, <1>a, <2>2, WorkStays DEF NoWorkYet, AnswerNew
<1>6. CASE Adopt \/ NewTask
  <2>1. PICK o, u, item : o \in ops /\ Dropped(o) /\ StorePair(o.number, u, item) /\ o.kind \in {"adopt", "newtask"}
    BY <1>6 DEF Adopt, NewTask
  <2>2. InWork' \subseteq (InWork \ {o}) \cup {NoOp} /\ InWork' \subseteq InWork \cup {NoOp} /\ o \in InWork
    BY <1>0, <2>1, TakenAway DEF Dropped, InWork
  <2>3. \A p \in InWork' : p.number # 0 => p.number # o.number
    BY <1>0, <2>2, NoOpFields DEF NumbersOnce
  <2> QED BY <1>0, <2>1, <2>2, <2>3, WorkStores DEF NoWorkYet, AnswerNew, Dropped
<1>7. CASE Unpair
  <2>1. PICK o \in ops : pairs' = [pairs EXCEPT ![o.number] = NoPair] /\ Dropped(o)
    BY <1>7 DEF Unpair
  <2>2. InWork' \subseteq InWork \cup {NoOp} /\ pc' = "apply"
    BY <1>0, <2>1, TakenAway DEF Dropped
  <2> QED BY <1>0, <1>b, <2>1, <2>2, WorkStays DEF NoWorkYet, AnswerNew
<1>8. CASE Update \/ Look
  <2>1. UNCHANGED <<pairs, op, ops>> /\ pc' = "answered" /\ op.kind # "newissue"
    BY <1>8 DEF Update, Look
  <2> QED BY <1>0, <1>a, <2>1, WorkStays DEF NoWorkYet, AnswerNew, InWork
<1>9. CASE Create
  <2>1. PICK n \in NextNumber : answer' = [ok |-> TRUE, number |-> n]
    BY <1>9 DEF Create
  <2>2. n \in Numbers /\ issues[n].state = "none"
    BY DEF NextNumber, Least
  <2>3. UNCHANGED <<pairs, op, ops>> /\ pc' = "answered" /\ op.kind = "newissue"
    BY <1>9 DEF Create
  <2>4. pairs[n].uid = Nobody
    BY <1>0, <2>2 DEF PairsMade
  <2>5. ASSUME NEW o \in InWork PROVE o.number # n
    <3>1. o.kind # "none"
      BY <1>0, <2>3 DEF OpTaken, InWork
    <3>2. o.kind # "newissue" => o.number \in Numbers /\ issues[o.number].state # "none"
      BY <1>0, <3>1 DEF WorkMade
    <3>3. o.kind = "newissue" => o.number = 0
      BY <1>0 DEF WorkNew
    <3> QED BY <2>2, <3>2, <3>3, NumbersApart
  <2>6. InWork' = InWork
    BY <2>3 DEF InWork
  <2> QED BY <1>0, <1>a, <2>1, <2>2, <2>3, <2>4, <2>5, <2>6, WorkStays DEF NoWorkYet, AnswerNew
<1>10. ASSUME NEW kinds, Answered(kinds)
       PROVE  /\ pc' = "apply" /\ op \in InWork
              /\ InWork' \subseteq (InWork \ {op}) \cup {NoOp} /\ InWork' \subseteq InWork \cup {NoOp}
  BY <1>0, <1>10, NoOpFields DEF Answered, OpTaken, InWork
<1>11. CASE Remember
  <2>1. Answered({"merge", "newissue"})
    BY <1>11 DEF Remember
  <2>2. \A o \in InWork' : o.number # 0 => o.number # answer.number
    <3>1. CASE op.kind = "merge"
      BY <1>0, <1>10, <2>1, <3>1, NoOpFields DEF AnsweredFor, Answered, NumbersOnce
    <3>2. CASE op.kind = "newissue"
      BY <1>0, <1>10, <2>1, <3>2, NoOpFields DEF AnswerNew, Answered
    <3> QED BY <2>1, <3>1, <3>2 DEF Answered
  <2>3. CASE answer.ok
    <3>1. PICK item : StorePair(answer.number, op.uid, item)
      BY <1>11, <2>3 DEF Remember
    <3> QED BY <1>0, <1>10, <2>1, <2>2, <3>1, WorkStores DEF NoWorkYet, AnswerNew
  <2>4. CASE ~answer.ok
    BY <1>0, <1>10, <1>11, <1>a, <2>1, <2>4, WorkStays DEF Remember, NoWorkYet, AnswerNew
  <2> QED BY <2>3, <2>4
<1>12. CASE Closed \/ CompleteTask
  <2>1. PICK kinds : Answered(kinds)
    BY <1>12 DEF Closed, CompleteTask
  <2>2. \A n \in Numbers : pairs'[n].uid \in {pairs[n].uid, Nobody}
    BY <1>12, <1>a, <1>b DEF Closed, CompleteTask
  <2> QED BY <1>0, <1>10, <2>1, <2>2, WorkStays DEF NoWorkYet, AnswerNew
<1>13. CASE PassDone
  <2>1. pairs' = pairs /\ pc' = "idle" /\ ops' = {} /\ InWork' = {NoOp}
    BY <1>13 DEF PassDone, EndPass, InWork
  <2> QED BY <1>0, <1>a, <2>1, WorkStays DEF NoWorkYet, AnswerNew
<1> QED BY <1>1, <1>2, <1>3, <1>4, <1>5, <1>6, <1>7, <1>8, <1>9, <1>11, <1>12, <1>13 DEF PassStep

LEMMA OthersKeepWork ==
  ASSUME TypeOK, PairInvariant, WorkInvariant, UserStep \/ GithubStep \/ FaultStep
  PROVE  NumbersOnce' /\ FreeWork' /\ WorkAbout' /\ NoWorkYet' /\ AnswerNew'
<1> USE TypeParts
<1> USE DEF store, github, ties, work, ghosts
<1>0. OpTaken /\ NumbersOnce /\ FreeWork /\ WorkAbout /\ NoWorkYet /\ AnswerNew
  BY DEF PairInvariant, WorkInvariant
<1>1. CASE UserStep \/ GithubStep
  <2>1. UNCHANGED <<pc, op, ops, answer>> /\ (pairs' = pairs \/ pairs' = NoPairs)
    BY <1>1 DEF UserStep, AddTask, EditTask, TakeTask, Link, Unlink, Calm, GithubStep, GithubOpens, GithubEdits,
       GithubDeletes, Away
  <2>2. \A n \in Numbers : pairs'[n].uid \in {pairs[n].uid, Nobody}
    BY <2>1 DEF NoPairs, NoPair
  <2>3. NumbersOnce' /\ FreeWork' /\ WorkAbout'
    BY <1>0, <2>1, <2>2, WorkStays DEF InWork
  <2> QED BY <1>0, <2>1, <2>2, <2>3 DEF NoWorkYet, AnswerNew, InWork
<1>2. CASE FaultStep
  <2>1. /\ pairs' = pairs /\ pc' \in {"idle", "apply"} /\ InWork' \subseteq InWork \cup {NoOp}
        /\ pc' = "idle" => ops' = {}
    BY <1>2 DEF FaultStep, PassFails, Refused, DiesUnpaired, EndPass, InWork
  <2>2. NumbersOnce' /\ FreeWork' /\ WorkAbout'
    BY <1>0, <2>1, WorkStays
  <2> QED BY <2>1, <2>2 DEF NoWorkYet, AnswerNew
<1> QED BY <1>1, <1>2

\* Every step keeps what is known of the operations.
LEMMA WorkKept == TypeOK /\ PairInvariant /\ OverInvariant /\ WorkInvariant /\ [Next]_vars => WorkInvariant'
<1> SUFFICES ASSUME TypeOK, PairInvariant, OverInvariant, WorkInvariant, [Next]_vars PROVE WorkInvariant'
  OBVIOUS
<1>1. OneOlder' /\ \A n \in Numbers : issues[n].state = "gone" => issues'[n].state = "gone"
  BY OlderKept DEF WorkInvariant
<1>2. NumbersOnce' /\ FreeWork' /\ WorkAbout' /\ NoWorkYet' /\ AnswerNew'
  <2>1. CASE UNCHANGED vars
    BY <2>1 DEF vars, ties, work, WorkInvariant, NumbersOnce, FreeWork, WorkAbout, NoWorkYet, AnswerNew, InWork
  <2> QED BY <2>1, PassKeepsWork, OthersKeepWork DEF Next
<1>3. GoneSeen'
  <2> SUFFICES ASSUME pc' = "answered", op'.kind = "complete", ~answer'.ok PROVE issues'[op'.number].state = "gone"
    BY DEF GoneSeen
  <2>1. CASE UNCHANGED <<pc, op, answer>>
    <3>1. op \in InWork /\ pc = "answered" /\ op.kind = "complete" /\ ~answer.ok
      BY <2>1 DEF InWork
    <3>2. op.number \in Numbers /\ issues[op.number].state = "gone"
      BY <3>1 DEF OverInvariant, WorkMade, WorkInvariant, GoneSeen
    <3> QED BY <1>1, <2>1, <3>2
  <2>2. CASE Look
    <3>1. op \in InWork /\ op' = op /\ op.kind = "complete" /\ issues' = issues /\ ~Exists(op.number)
      BY <2>2 DEF Look, InWork, github
    <3>2. op.number \in Numbers /\ issues[op.number].state # "none"
      BY <3>1 DEF OverInvariant, WorkMade
    <3> QED BY <3>1, <3>2, TypeParts DEF Exists, GithubType, Issue, States
  <2>3. CASE UNCHANGED vars \/ UserStep \/ GithubStep
    BY <2>1, <2>3 DEF vars, work, UserStep, AddTask, EditTask, TakeTask, Link, Unlink, Calm, GithubStep,
       GithubOpens, GithubEdits, GithubDeletes, Away
  <2>4. CASE (PassStep /\ ~Look) \/ FaultStep
    <3>1. pc' # "answered" \/ op'.kind # "complete" \/ UNCHANGED vars
      <4>1. CASE Merge
        BY <4>1, NoOpFields DEF Merge, Dropped, Doing
      <4>2. CASE Update \/ Create
        BY <4>2 DEF Update, Create
      <4> QED BY <2>4, <4>1, <4>2 DEF PassStep, NotLinked, ReadIssues, Plan, Ask, Adopt, Unpair, NewTask,
                 Dropped, Remember, Closed, CompleteTask, Answered, PassDone, EndPass,
                 FaultStep, PassFails, Refused, DiesUnpaired
    <3> QED BY <2>1, <3>1 DEF vars, work
  <2> QED BY <2>2, <2>3, <2>4 DEF Next
<1> QED BY <1>1, <1>2, <1>3 DEF WorkInvariant

LEMMA WorkBegins == Init => WorkInvariant
<1> SUFFICES ASSUME Init PROVE WorkInvariant
  OBVIOUS
<1>1. InWork = {NoOp} /\ issues = older /\ pc = "idle" /\ ops = {}
  BY DEF Init, InWork
<1> QED BY <1>1, NoOpFields, OpIssue DEF WorkInvariant, NumbersOnce, NoWorkYet, FreeWork, WorkAbout, AnswerNew, GoneSeen, OneOlder

LEMMA UsedGrows ==
  ASSUME TypeOK, [Next]_vars
  PROVE  /\ used'.link \in {used.link, used.link + 1} /\ used'.fault \in {used.fault, used.fault + 1}
         /\ used'.link # used.link => UserStep /\ used.fault = used'.fault
         /\ UNCHANGED link \/ used'.link = used.link + 1
<1> USE TypeParts
<1> USE DEF store, github, ties, work, ghosts, BoundType, Bounds
<1>1. CASE UNCHANGED vars
  BY <1>1 DEF vars
<1>2. CASE PassStep
  <2>1. used' = used \/ Fault
    BY <1>2 DEF PassStep, NotLinked, vars, ReadIssues, Plan, Merge, Ask, Adopt, Unpair, NewTask, Update, Look, Create,
       Remember, Closed, CompleteTask, Answered, PassDone
  <2>2. link' = link
    BY <1>2 DEF PassStep, NotLinked, vars, ReadIssues, Plan, Merge, Ask, Adopt, Unpair, NewTask, Update, Look, Create,
       Remember, Closed, CompleteTask, Answered, PassDone
  <2> QED BY <2>1, <2>2 DEF Fault
<1>3. CASE UserStep
  <2>1. (User /\ UNCHANGED link) \/ Links
    BY <1>3 DEF UserStep, AddTask, EditTask, TakeTask, Link, Unlink
  <2> QED BY <1>3, <2>1 DEF User, Links
<1>4. CASE GithubStep
  <2>1. Github /\ UNCHANGED link
    BY <1>4 DEF GithubStep, GithubOpens, GithubEdits, GithubDeletes, Away
  <2> QED BY <2>1 DEF Github
<1>5. CASE FaultStep
  <2>1. Fault /\ UNCHANGED link
    BY <1>5 DEF FaultStep, PassFails, Refused, DiesUnpaired
  <2> QED BY <2>1 DEF Fault
<1> QED BY <1>1, <1>2, <1>3, <1>4, <1>5 DEF Next

\* Work that is done, and pairs stored or dropped for it.
LEMMA LinkedWorks ==
  ASSUME LinkedOnce, WorkMade, link' = link, used'.link = used.link, pc' # "idle" => list' = link',
         InWork' \subseteq InWork \cup {NoOp},
         \A n \in Numbers : pairs'[n].uid = pairs[n].uid \/ \A o \in InWork' : o.number # n
  PROVE  LinkedOnce'
<1>1. ASSUME NEW o \in InWork', o.kind \in {"merge", "close", "complete", "unpair"}
      PROVE  pairs'[o.number].uid = o.uid
  <2>1. o \in InWork
    BY <1>1, NoOpFields
  <2>2. o.number \in Numbers
    BY <1>1, <2>1 DEF WorkMade
  <2> QED BY <1>1, <2>1, <2>2 DEF LinkedOnce
<1> QED BY <1>1 DEF LinkedOnce

\* What is planned for a pair is so while the pair is there.
LEMMA PlanLinked ==
  ASSUME TypeOK, PairInvariant, Plan
  PROVE  \A o \in InWork' : o.kind \in {"merge", "close", "complete", "unpair"} => pairs'[o.number].uid = o.uid
<1>1. PICK ms \in Matchings : ops' = PairOps \cup FreeOps(ms)
  BY DEF Plan
<1>2. op' = NoOp /\ pairs' = pairs
  BY DEF Plan, PairInvariant, OpTaken, ties
<1> SUFFICES ASSUME NEW o \in InWork', o.kind \in {"merge", "close", "complete", "unpair"}
             PROVE  pairs[o.number].uid = o.uid
  BY <1>2
<1>3. o \in PairOps
  BY <1>1, <1>2, NoOpFields, FreeOpAbout DEF InWork
<1> QED BY <1>3, PairOpAbout

LEMMA PassKeepsLinked ==
  ASSUME TypeOK, PairInvariant, OverInvariant, WorkInvariant, LinkedOnce, PassStep
  PROVE  LinkedOnce'
<1> USE TypeParts
<1> USE DEF store, github, ties, work, ghosts
<1>0. OpTaken /\ AnsweredFor /\ WorkNew /\ WorkMade /\ NumbersOnce /\ NoWorkYet /\ AnswerNew
  BY DEF PairInvariant, Apart, OverInvariant, WorkInvariant
<1>1. link' = link /\ used'.link = used.link
  <2>1. used'.link = used.link
    BY DEF PassStep, NotLinked, vars, ReadIssues, Fault, Plan, Merge, Ask, Adopt, Unpair, NewTask, Update, Look, Create,
       Remember, Closed, CompleteTask, Answered, PassDone, BoundType, Bounds
  <2>2. link' = link
    BY DEF PassStep, NotLinked, vars, ReadIssues, Plan, Merge, Ask, Adopt, Unpair, NewTask, Update, Look, Create,
       Remember, Closed, CompleteTask, Answered, PassDone
  <2> QED BY <2>1, <2>2
<1>2. CASE NotLinked
  BY <1>2 DEF NotLinked, vars, LinkedOnce, InWork
<1>3. CASE ReadIssues
  <2>1. list' = link /\ pairs' = pairs /\ InWork' = InWork
    BY <1>3 DEF ReadIssues, InWork
  <2> QED BY <1>0, <1>1, <2>1, LinkedWorks
<1>4. CASE Plan
  <2>1. list' = list /\ pc = "read"
    BY <1>4 DEF Plan
  <2> QED BY <1>1, <1>4, <2>1, PlanLinked DEF LinkedOnce
<1>5. ASSUME pc # "idle", list' = list, InWork' \subseteq InWork \cup {NoOp},
             \A n \in Numbers : pairs'[n].uid = pairs[n].uid \/ \A o \in InWork' : o.number # n
      PROVE  LinkedOnce'
  <2>1. list = link
    BY <1>5 DEF LinkedOnce
  <2> QED BY <1>0, <1>1, <1>5, <2>1, LinkedWorks
<1>6. CASE Merge \/ Ask
  <2>1. PICK o \in ops : Dropped(o) \/ Doing(o)
    BY <1>6 DEF Merge, Ask
  <2>2. InWork' \subseteq InWork \cup {NoOp}
    BY <1>0, <2>1, TakenAway DEF Dropped, Doing
  <2> QED BY <1>5, <1>6, <2>2 DEF Merge, Ask
<1>7. CASE Adopt \/ NewTask \/ Unpair
  <2>1. PICK o \in ops :
          /\ Dropped(o) /\ o.kind \in {"adopt", "newtask", "unpair"}
          /\ (\E u, item : StorePair(o.number, u, item)) \/ pairs' = [pairs EXCEPT ![o.number] = NoPair]
    BY <1>7 DEF Adopt, NewTask, Unpair
  <2>2. InWork' \subseteq (InWork \ {o}) \cup {NoOp} /\ InWork' \subseteq InWork \cup {NoOp} /\ o \in InWork
    BY <1>0, <2>1, TakenAway DEF Dropped, InWork
  <2>3. \A n \in Numbers : pairs'[n].uid = pairs[n].uid \/ n = o.number
    BY <2>1, StoredUids DEF TieType
  <2>4. o.number \in Numbers
    BY <1>0, <2>1, <2>2 DEF WorkMade
  <2>5. \A p \in InWork' : p.number # o.number
    BY <1>0, <2>2, <2>4, NoOpFields, NumbersApart DEF NumbersOnce
  <2> QED BY <1>5, <1>7, <2>2, <2>3, <2>5 DEF Adopt, NewTask, Unpair
<1>8. CASE Update \/ Look \/ Create
  BY <1>5, <1>8 DEF Update, Look, Create, InWork
<1>9. ASSUME NEW kinds, Answered(kinds), NEW k, \A n \in Numbers : pairs'[n].uid = pairs[n].uid \/ n = k,
             \A o \in InWork' : o.number = k => k = 0
      PROVE  LinkedOnce'
  <2>1. pc # "idle" /\ list' = list /\ InWork' \subseteq InWork \cup {NoOp}
    BY <1>9 DEF Answered, InWork
  <2> QED BY <1>5, <1>9, <2>1, NumbersApart
<1>10. ASSUME NEW kinds, Answered(kinds)
       PROVE  InWork' \subseteq (InWork \ {op}) \cup {NoOp} /\ op \in InWork
  BY <1>0, <1>10, NoOpFields DEF Answered, OpTaken, InWork
<1>11. CASE Remember
  <2>1. Answered({"merge", "newissue"})
    BY <1>11 DEF Remember
  <2>2. \A n \in Numbers : pairs'[n].uid = pairs[n].uid \/ n = answer.number
    BY <1>11, StoredUids DEF Remember
  <2>3. \A o \in InWork' : o.number = answer.number => answer.number = 0
    <3>1. CASE op.kind = "merge"
      BY <1>0, <1>10, <2>1, <3>1, NoOpFields DEF AnsweredFor, Answered, NumbersOnce
    <3>2. CASE op.kind = "newissue"
      BY <1>0, <1>10, <2>1, <3>2, NoOpFields DEF AnswerNew, Answered
    <3> QED BY <2>1, <3>1, <3>2 DEF Answered
  <2> QED BY <1>9, <2>1, <2>2, <2>3
<1>12. CASE Closed \/ CompleteTask
  <2>1. PICK kinds : Answered(kinds)
    BY <1>12 DEF Closed, CompleteTask
  <2>2. \A n \in Numbers : pairs'[n].uid = pairs[n].uid \/ n = op.number
    BY <1>12 DEF Closed, CompleteTask, TieType
  <2>3. \A o \in InWork' : o.number = op.number => op.number = 0
    BY <1>0, <1>10, <2>1, NoOpFields DEF NumbersOnce
  <2> QED BY <1>9, <2>1, <2>2, <2>3
<1>13. CASE PassDone
  <2>1. pc' = "idle" /\ InWork' = {NoOp} /\ pairs' = pairs
    BY <1>13 DEF PassDone, EndPass, InWork
  <2> QED BY <1>0, <1>1, <2>1, LinkedWorks
<1> QED BY <1>2, <1>3, <1>4, <1>6, <1>7, <1>8, <1>11, <1>12, <1>13 DEF PassStep

\* A link that is made once and not dropped stays the one that passes are for.
LEMMA LinkKept ==
  TypeOK /\ PairInvariant /\ OverInvariant /\ WorkInvariant /\ LinkInvariant /\ [Next]_vars => LinkInvariant'
<1> SUFFICES ASSUME TypeOK, PairInvariant, OverInvariant, WorkInvariant, LinkInvariant, [Next]_vars, used'.link <= 1
             PROVE  LinkedOnce'
  BY DEF LinkInvariant
<1> USE TypeParts
<1>1. used.link \in Nat /\ used.link <= 1 /\ used'.link \in {used.link, used.link + 1}
  BY UsedGrows DEF BoundType, Bounds
<1>2. LinkedOnce /\ WorkMade
  BY <1>1 DEF LinkInvariant, OverInvariant
<1>3. CASE UNCHANGED vars
  BY <1>2, <1>3 DEF vars, ties, work, LinkedOnce, InWork
<1>4. CASE PassStep
  BY <1>2, <1>4, PassKeepsLinked
<1>5. CASE used'.link # used.link
  <2>1. used.link = 0 /\ link = Nowhere /\ pc = "idle"
    BY <1>1, <1>2, <1>5 DEF LinkedOnce, PassType
  <2>2. PICK l \in Lists : Link(l)
    <3>1. UserStep
      BY <1>5, UsedGrows
    <3>2. ~User
      BY <1>5 DEF User, BoundType, Bounds
    <3>3. ~Unlink
      BY <2>1 DEF Unlink
    <3> QED BY <3>1, <3>2, <3>3 DEF UserStep, AddTask, EditTask, TakeTask
  <2>3. /\ link' = l /\ used'.link = 1 /\ pc' = "idle" /\ pairs' = pairs /\ InWork' = InWork
    BY <1>1, <1>5, <2>1, <2>2 DEF Link, Calm, work, InWork
  <2> QED BY <1>2, <2>3, NumbersApart DEF LinkedOnce
<1>6. CASE used'.link = used.link /\ (UserStep \/ GithubStep \/ FaultStep)
  <2>1. ~\E l \in Lists : Link(l)
    BY <1>6 DEF Link, Links, BoundType, Bounds
  <2>2. ~Unlink
    BY <1>6 DEF Unlink, Links, BoundType, Bounds
  <2>3. link' = link /\ pairs' = pairs
    BY <1>6, <2>1, <2>2 DEF UserStep, AddTask, EditTask, TakeTask, ties, GithubStep, GithubOpens, GithubEdits,
       GithubDeletes, Away, FaultStep, PassFails, Refused, DiesUnpaired
  <2>4. InWork' \subseteq InWork \cup {NoOp} /\ (pc' # "idle" => pc # "idle" /\ list' = list)
    BY <1>6 DEF UserStep, AddTask, EditTask, TakeTask, Link, Unlink, Calm, work, GithubStep, GithubOpens, GithubEdits,
       GithubDeletes, Away, FaultStep, PassFails, Refused, DiesUnpaired, EndPass, InWork
  <2> QED BY <1>2, <1>6, <2>3, <2>4, LinkedWorks DEF LinkedOnce
<1> QED BY <1>3, <1>4, <1>5, <1>6 DEF Next

LEMMA LinkBegins == Init => LinkInvariant
<1> SUFFICES ASSUME Init PROVE LinkInvariant
  OBVIOUS
<1>1. InWork = {NoOp} /\ pc = "idle" /\ link = Nowhere /\ used.link = 0
  BY DEF Init, InWork
<1> QED BY <1>1, NoOpFields DEF LinkInvariant, LinkedOnce

\* A task or an issue that stays keeps its title, and one that comes is new.
TitlesStay ==
  /\ \A u \in Uids : tasks'[u].list # Nowhere =>
       IF tasks[u].list = Nowhere THEN u \notin born ELSE tasks'[u].item.title = tasks[u].item.title
  /\ \A n \in Numbers : issues'[n].state = "here" =>
       IF issues[n].state = "here" THEN issues'[n].item.title = issues[n].item.title ELSE issues[n].state = "none"
  /\ older' \in {older, issues}
  /\ listing' \in {listing, issues, older, NoListing}

\* What is said of an issue after the step was said before, but for one that is new.
LEMMA VersionsStay ==
  ASSUME TypeOK, OverInvariant, TitlesStay, NEW n \in Numbers, NEW v \in Versions(n)'
  PROVE  \/ \E w \in Versions(n) : w.item.title = v.item.title
         \/ issues[n].state = "none" /\ Versions(n) = {} /\ v = issues'[n]
<1>1. v.state = "here" /\ v \in {issues'[n], older'[n], listing'[n]}
  BY DEF Versions
<1>2. \A w \in {issues[n], older[n], listing[n]} : w.state = "here" => w \in Versions(n)
  BY DEF Versions
<1>3. NoListing[n].state = "none"
  BY DEF NoListing, NoIssue
<1>4. CASE v = older'[n] \/ v = listing'[n]
  BY <1>1, <1>2, <1>3, <1>4 DEF TitlesStay
<1>5. CASE v = issues'[n]
  <2>1. issues[n].state = "here" \/ issues[n].state = "none"
    BY <1>1, <1>5 DEF TitlesStay
  <2>2. CASE issues[n].state = "here"
    BY <1>1, <1>2, <1>5, <2>2 DEF TitlesStay
  <2>3. CASE issues[n].state = "none"
    <3>1. older[n].state = "none" /\ listing[n].state = "none"
      BY <2>3 DEF OverInvariant, ToldRight, MadeHere
    <3> QED BY <1>5, <2>3, <3>1 DEF Versions
  <2> QED BY <2>1, <2>2, <2>3
<1> QED BY <1>1, <1>4, <1>5

LEMMA TitledIssueStays ==
  ASSUME TypeOK, OverInvariant, TitlesStay, NEW n \in Numbers, NEW t, TitledIssue(n, t), issues[n].state # "none"
  PROVE  TitledIssue(n, t)'
BY VersionsStay DEF TitledIssue

LEMMA OneTitleStays ==
  ASSUME TypeOK, OverInvariant, TitlesStay, NEW n \in Numbers, OneTitle(n)
  PROVE  OneTitle(n)'
<1> SUFFICES ASSUME NEW v \in Versions(n)', NEW w \in Versions(n)' PROVE v.item.title = w.item.title
  BY DEF OneTitle
<1> QED BY VersionsStay DEF OneTitle

LEMMA TitledTaskStays ==
  ASSUME TypeOK, TitlesStay, NEW u \in Uids, u \in born, NEW t, TitledTask(u, t)
  PROVE  TitledTask(u, t)'
BY DEF TitlesStay, TitledTask

\* What was tied and is still has the same title.
LEMMA SameTitlesStay ==
  ASSUME TypeOK, PairInvariant, OverInvariant, WorkInvariant, SameTitles, TitlesStay,
         \A n \in Numbers : pairs'[n].uid # Nobody => pairs'[n] = pairs[n] \/ PairTitled(n)',
         \A o \in InWork' : o \in InWork \cup {NoOp} \/ OpTitled(o)',
         UNCHANGED <<pc, op, answer>> \/ AnswerTitled'
  PROVE  SameTitles'
<1>1. \A n \in Numbers : OneTitle(n)'
  BY OneTitleStays DEF SameTitles
<1>2. ASSUME NEW n \in Numbers, n \in Paired' PROVE PairTitled(n)'
  <2>1. CASE pairs'[n] = pairs[n]
    <3>1. n \in Paired /\ pairs[n].uid \in Uids /\ pairs[n].uid \in born /\ issues[n].state # "none"
      BY <1>2, <2>1, TypeParts DEF Paired, TieType, Pair, PairInvariant, Apart, PairsBorn, OverInvariant, PairsMade
    <3>2. TitledIssue(n, pairs[n].item.title) /\ TitledTask(pairs[n].uid, pairs[n].item.title)
      BY <3>1 DEF SameTitles, PairTitled
    <3>3. \A v \in Versions(n)' : v.item.title = pairs[n].item.title
      BY <3>1, <3>2, TitledIssueStays DEF TitledIssue
    <3>4. tasks'[pairs[n].uid].list # Nowhere => tasks'[pairs[n].uid].item.title = pairs[n].item.title
      BY <3>1, <3>2, TitledTaskStays DEF TitledTask
    <3> QED BY <2>1, <3>3, <3>4 DEF PairTitled, TitledIssue, TitledTask
  <2> QED BY <1>2, <2>1 DEF Paired
<1>3. ASSUME NEW o \in InWork' PROVE OpTitled(o)'
  <2>1. CASE o \in InWork
    <3>1. /\ o.kind \in {"adopt", "newtask", "merge"} => o.number \in Numbers /\ issues[o.number].state # "none"
          /\ o.kind \in {"adopt", "newissue", "merge"} => o.uid \in Uids /\ o.uid \in born
      BY <2>1, NumbersApart DEF WorkInvariant, WorkAbout, OverInvariant, WorkMade, PairInvariant, Apart, WorkNew, Nobody
    <3>2. OpTitled(o)
      BY <2>1 DEF SameTitles
    <3>3. o.kind \in {"merge", "adopt", "newtask"} => TitledIssue(o.number, o.item.title)'
      BY <3>1, <3>2, TitledIssueStays DEF OpTitled
    <3>4. o.kind \in {"merge", "adopt", "newissue"} => TitledTask(o.uid, o.item.title)'
      BY <3>1, <3>2, TitledTaskStays DEF OpTitled
    <3> QED BY <3>3, <3>4 DEF OpTitled
  <2>2. CASE o = NoOp
    BY <2>2, NoOpFields DEF OpTitled
  <2> QED BY <1>3, <2>1, <2>2
<1>4. AnswerTitled'
  <2> SUFFICES ASSUME UNCHANGED <<pc, op, answer>>, pc = "answered", op.kind = "newissue"
               PROVE  \A v \in Versions(answer.number)' : v.item.title = op.item.title
    BY DEF AnswerTitled, TitledIssue
  <2>1. answer.number \in Numbers /\ issues[answer.number].state # "none"
    BY DEF WorkInvariant, AnswerNew, OverInvariant, AnswerMade
  <2>2. TitledIssue(answer.number, op.item.title)
    BY DEF SameTitles, AnswerTitled
  <2> QED BY <2>1, <2>2, TitledIssueStays DEF TitledIssue
<1>5. Paired' \subseteq Numbers
  BY DEF Paired
<1> QED BY <1>1, <1>2, <1>3, <1>4, <1>5 DEF SameTitles

\* What is planned carries the title of its issue and of its task.
LEMMA PlanTitled ==
  ASSUME TypeOK, PairInvariant, SameTitles, Plan
  PROVE  \A o \in InWork' : OpTitled(o)'
<1>1. PICK ms \in Matchings : ops' = PairOps \cup FreeOps(ms)
  BY DEF Plan
<1>2. op' = NoOp /\ UNCHANGED <<tasks, pairs, issues, older, listing, list>> /\ list # Nowhere
  BY TypeParts DEF Plan, PairInvariant, OpTaken, ties, store, github, PassType
<1>3. \A n, t : TitledIssue(n, t)' = TitledIssue(n, t)
  BY <1>2 DEF TitledIssue, Versions
<1>4. \A u, t : TitledTask(u, t)' = TitledTask(u, t)
  BY <1>2 DEF TitledTask
<1>5. \A n : Listed(n) => listing[n] \in Versions(n)
  BY DEF Listed, Versions
<1>6. ASSUME NEW n \in FreeIssues PROVE n \in Numbers /\ TitledIssue(n, listing[n].item.title)
  BY <1>5 DEF FreeIssues, SameTitles, OneTitle, TitledIssue
<1>7. ASSUME NEW o \in FreeOps(ms) PROVE OpTitled(o)'
  <2>1. CASE \E m \in ms : o = Op("adopt", m[1], m[2], listing[m[1]].item)
    <3>1. PICK m \in ms : o = Op("adopt", m[1], m[2], listing[m[1]].item)
      BY <2>1
    <3>2. m[1] \in FreeIssues /\ listing[m[1]].item.title = tasks[m[2]].item.title
      BY DEF Matchings, Alike
    <3>3. o.number = m[1] /\ o.uid = m[2] /\ o.item = listing[m[1]].item
      BY <3>1 DEF Op
    <3>4. TitledIssue(o.number, o.item.title) /\ TitledTask(o.uid, o.item.title)
      BY <1>6, <3>2, <3>3 DEF TitledTask
    <3> QED BY <1>3, <1>4, <3>4 DEF OpTitled
  <2>2. CASE \E n \in FreeIssues : o = Op("newtask", n, Nobody, listing[n].item)
    <3>1. PICK n \in FreeIssues : o = Op("newtask", n, Nobody, listing[n].item)
      BY <2>2
    <3>2. o.kind = "newtask" /\ o.number = n /\ o.item = listing[n].item
      BY <3>1 DEF Op
    <3> QED BY <1>3, <1>6, <3>2 DEF OpTitled
  <2>3. CASE \E u \in FreeTasks : o = Op("newissue", 0, u, tasks[u].item)
    <3>1. PICK u \in FreeTasks : o = Op("newissue", 0, u, tasks[u].item)
      BY <2>3
    <3>2. o.kind = "newissue" /\ o.uid = u /\ o.item = tasks[u].item
      BY <3>1 DEF Op
    <3> QED BY <1>4, <3>2 DEF OpTitled, TitledTask
  <2> QED BY <2>1, <2>2, <2>3, FreeOpsKinds
<1>8. ASSUME NEW o \in PairOps PROVE OpTitled(o)'
  <2>1. PICK n \in Paired :
          \/ Listed(n) /\ InList(pairs[n].uid) /\ o = MergeOp(n)
          \/ \E k \in {"close", "complete", "unpair"} : o = Op(k, n, pairs[n].uid, Blank)
    BY PairOpsKinds
  <2>2. CASE \E k \in {"close", "complete", "unpair"} : o = Op(k, n, pairs[n].uid, Blank)
    BY <2>2, OpFields DEF OpTitled
  <2>3. CASE Listed(n) /\ InList(pairs[n].uid) /\ o = MergeOp(n)
    <3>1. /\ o.number = n /\ o.uid = pairs[n].uid
          /\ o.item = Agreed(pairs[n].item, listing[n].item, tasks[pairs[n].uid].item)
      BY <2>3 DEF MergeOp
    <3>2. PairTitled(n)
      BY DEF SameTitles
    <3>3. listing[n].item.title = pairs[n].item.title
      BY <1>5, <2>3, <3>2 DEF PairTitled, TitledIssue
    <3>4. tasks[pairs[n].uid].item.title = pairs[n].item.title
      BY <1>2, <2>3, <3>2 DEF PairTitled, TitledTask, InList
    <3>5. o.item.title = pairs[n].item.title
      BY <3>1, <3>3, <3>4 DEF Agreed
    <3> QED BY <1>3, <1>4, <3>1, <3>2, <3>5 DEF OpTitled, PairTitled
  <2> QED BY <2>1, <2>2, <2>3
<1>9. OpTitled(NoOp)'
  BY NoOpFields DEF OpTitled
<1> QED BY <1>1, <1>2, <1>7, <1>8, <1>9 DEF InWork

\* What a step of the pass does to titles.
LEMMA PassKeepsTitles ==
  ASSUME TypeOK, PairInvariant, OverInvariant, WorkInvariant, SameTitles, PassStep
  PROVE  TitlesStay
<1> USE TypeParts
<1> USE DEF store, github, ties, work, ghosts
<1>0. OpTaken /\ TasksBorn /\ WorkAbout
  BY DEF PairInvariant, WorkInvariant
<1>1. older' \in {older, issues} /\ listing' \in {listing, issues, older, NoListing}
  BY DEF PassStep, NotLinked, vars, ReadIssues, Plan, Merge, Ask, Adopt, Unpair, NewTask, Update, SetIssue, Look, Create,
     Remember, Closed, CompleteTask, Answered, PassDone, EndPass
<1>2. ASSUME NEW u \in Uids, tasks'[u].list # Nowhere
      PROVE  IF tasks[u].list = Nowhere THEN u \notin born ELSE tasks'[u].item.title = tasks[u].item.title
  <2>1. CASE Merge
    <3>1. PICK o \in ops : o.kind = "merge" /\ (tasks' = tasks \/ (tasks' = Edited(o.uid, o.task, o.item)))
      BY <2>1 DEF Merge
    <3>2. CASE tasks' = Edited(o.uid, o.task, o.item)
      <4>1. tasks'[u].list = tasks[u].list
        BY <3>2, EditedStays
      <4>2. tasks'[u].item.title = tasks[u].item.title \/ (u = o.uid /\ tasks'[u].item.title = o.item.title)
        BY <3>2 DEF Edited, StoreType, Task
      <4>3. OpTitled(o)
        BY DEF SameTitles, InWork
      <4> QED BY <1>2, <3>1, <4>1, <4>2, <4>3 DEF OpTitled, TitledTask
    <3> QED BY <1>2, <3>1, <3>2
  <2>2. CASE NewTask
    <3>1. PICK v, item : v \in Unborn(Uids \ Repeating) /\ Insert(v, item)
      BY <2>2 DEF NewTask
    <3>2. v \notin born /\ \A w \in Uids \ {v} : tasks'[w] = tasks[w]
      BY <3>1, UnbornType DEF Insert, StoreType
    <3>3. tasks[v].list = Nowhere \/ v \notin Uids
      BY <1>0, <3>2 DEF TasksBorn
    <3> QED BY <1>2, <3>2, <3>3
  <2>3. CASE CompleteTask
    <3>1. tasks' = tasks \/ tasks' = Edited(op.uid, {"open"}, Blank)
      BY <2>3 DEF CompleteTask
    <3>2. CASE tasks' = Edited(op.uid, {"open"}, Blank)
      BY <1>2, <3>2 DEF Edited, StoreType, Task
    <3> QED BY <1>2, <3>1, <3>2
  <2>4. CASE tasks' = tasks
    BY <1>2, <2>4
  <2> QED BY <2>1, <2>2, <2>3, <2>4 DEF PassStep, NotLinked, vars, ReadIssues, Plan, Ask, Adopt, Unpair, Update, Look,
             Create, Remember, Closed, PassDone
<1>3. ASSUME NEW n \in Numbers, issues'[n].state = "here"
      PROVE  IF issues[n].state = "here" THEN issues'[n].item.title = issues[n].item.title ELSE issues[n].state = "none"
  <2>1. CASE Update
    <3>1. CASE Exists(op.number)
      <4>1. op.number \in Numbers /\ issues[op.number].state = "here" /\ SetIssue(op.number, "here", Patched(op))
        BY <2>1, <3>1 DEF Update, Exists
      <4>2. /\ issues'[op.number].item = Patched(op) /\ \A m \in Numbers \ {op.number} : issues'[m] = issues[m]
        BY <4>1, IssueSet
      <4>3. Patched(op).title = issues[op.number].item.title
        <5>1. Patched(op).title \in {issues[op.number].item.title, op.item.title}
              /\ ("title" \notin op.issue => Patched(op).title = issues[op.number].item.title)
          BY DEF Patched
        <5>2. op.kind = "merge" => issues[op.number].item.title = op.item.title
          BY <4>1 DEF SameTitles, OpTitled, InWork, TitledIssue, Versions
        <5>3. op.kind # "merge" => op.issue = {}
          BY <1>0 DEF WorkAbout, InWork
        <5> QED BY <5>1, <5>2, <5>3
      <4> QED BY <1>3, <4>1, <4>2, <4>3
    <3> QED BY <1>3, <2>1, <3>1 DEF Update
  <2>2. CASE Create
    <3>1. PICK k, item : k \in NextNumber /\ SetIssue(k, "here", item)
      BY <2>2 DEF Create
    <3>2. k \in Numbers /\ issues[k].state = "none"
      BY <3>1 DEF NextNumber, Least
    <3> QED BY <1>3, <3>1, <3>2, IssueSet
  <2>3. CASE issues' = issues
    BY <1>3, <2>3
  <2> QED BY <2>1, <2>2, <2>3 DEF PassStep, NotLinked, vars, ReadIssues, Plan, Merge, Ask, Adopt, Unpair, NewTask, Look,
             Remember, Closed, CompleteTask, Answered, PassDone
<1> QED BY <1>1, <1>2, <1>3 DEF TitlesStay

\* What was retitled stays so; editing a title is retitling.
LEMMA RetitledStays ==
  ASSUME [Next]_vars, ~Retitled'
  PROVE  /\ ~Retitled
         /\ \A u \in Uids, f \in Fields : EditTask(u, f) => f # "title"
         /\ \A n \in Numbers, f \in Fields : GithubEdits(n, f) => f # "title"
<1> USE DEF store, github, ties, work, ghosts
<1>1. touched \subseteq touched'
  BY DEF Next, PassStep, NotLinked, vars, ReadIssues, Plan, Merge, Ask, Adopt, Unpair, NewTask, Update, Look, Create,
     Remember, Closed, CompleteTask, Answered, PassDone, UserStep, AddTask, EditTask, TakeTask, Link, Unlink,
     GithubStep, GithubOpens, GithubEdits, GithubDeletes, Touched, FaultStep, PassFails, Refused, DiesUnpaired
<1>2. ASSUME NEW kind, NEW x, Touched(kind, x, "title") PROVE Retitled'
  <2>1. <<kind, x, "title">> \in touched' /\ <<kind, x, "title">>[3] = "title"
    BY <1>2 DEF Touched
  <2> QED BY <2>1 DEF Retitled
<1> QED BY <1>1, <1>2 DEF Retitled, EditTask, GithubEdits

LEMMA OthersKeepTitles ==
  ASSUME TypeOK, PairInvariant, UserStep \/ GithubStep \/ FaultStep, ~Retitled'
  PROVE  TitlesStay
<1> USE TypeParts
<1> USE DEF store, github, ties, work, ghosts
<1>1. TasksBorn /\ [Next]_vars
  BY DEF PairInvariant, Next
<1>2. older' \in {older, issues} /\ listing' \in {listing, issues, older, NoListing}
  BY DEF UserStep, AddTask, EditTask, TakeTask, Link, Unlink, Calm, GithubStep, GithubOpens, GithubEdits, GithubDeletes,
     SetIssue, Away, FaultStep, PassFails, Refused, DiesUnpaired, EndPass
<1>3. \A S : Unborn(S) \subseteq S
  BY UnbornType
<1>4. ASSUME NEW u \in Uids, tasks'[u].list # Nowhere
      PROVE  IF tasks[u].list = Nowhere THEN u \notin born ELSE tasks'[u].item.title = tasks[u].item.title
  <2>1. ASSUME NEW v \in Uids, v \notin born, NEW task, tasks' = [tasks EXCEPT ![v] = task]
        PROVE  IF tasks[u].list = Nowhere THEN u \notin born ELSE tasks'[u].item.title = tasks[u].item.title
    BY <1>1, <1>4, <2>1 DEF TasksBorn, StoreType
  <2>2. ASSUME NEW v \in Unborn(Repeating) \cup Unborn(Uids \ Repeating), NEW l \in Lists, AddTask(v, l)
        PROVE  IF tasks[u].list = Nowhere THEN u \notin born ELSE tasks'[u].item.title = tasks[u].item.title
    <3>1. v \in Uids /\ v \notin born
      BY UnbornType, UidsAssumption
    <3> QED BY <2>1, <2>2, <3>1 DEF AddTask, SetTask
  <2>3. ASSUME NEW v \in Uids, NEW f \in Fields, EditTask(v, f)
        PROVE  IF tasks[u].list = Nowhere THEN u \notin born ELSE tasks'[u].item.title = tasks[u].item.title
    <3>1. f # "title"
      BY <1>1, <2>3, RetitledStays
    <3>2. PICK item \in Item : /\ \A g \in Fields : item[g] # tasks[v].item[g] <=> g = f
                               /\ SetTask(v, [list |-> tasks[v].list, item |-> item])
      BY <2>3 DEF EditTask
    <3>3. item.title = tasks[v].item.title
      BY <3>1, <3>2 DEF Fields
    <3> QED BY <1>4, <2>3, <3>2, <3>3 DEF SetTask, StoreType, EditTask
  <2>4. ASSUME NEW v \in Uids, NEW l \in Lists \cup {Nowhere}, TakeTask(v, l)
        PROVE  IF tasks[u].list = Nowhere THEN u \notin born ELSE tasks'[u].item.title = tasks[u].item.title
    BY <1>4, <2>4 DEF TakeTask, SetTask, StoreType
  <2>5. CASE DiesUnpaired
    <3>1. PICK v, item : v \in Unborn(Uids \ Repeating) /\ Insert(v, item)
      BY <2>5 DEF DiesUnpaired
    <3>2. v \in Uids /\ v \notin born
      BY <3>1, UnbornType
    <3> QED BY <2>1, <3>1, <3>2 DEF Insert
  <2>6. CASE tasks' = tasks
    BY <1>4, <2>6
  <2> QED BY <2>2, <2>3, <2>4, <2>5, <2>6 DEF UserStep, Link, Unlink, GithubStep, GithubOpens, GithubEdits, GithubDeletes,
             Away, FaultStep, PassFails, Refused
<1>5. ASSUME NEW n \in Numbers, issues'[n].state = "here"
      PROVE  IF issues[n].state = "here" THEN issues'[n].item.title = issues[n].item.title ELSE issues[n].state = "none"
  <2>1. CASE GithubOpens
    <3>1. PICK k, item : k \in NextNumber /\ SetIssue(k, "here", item)
      BY <2>1 DEF GithubOpens
    <3>2. k \in Numbers /\ issues[k].state = "none"
      BY <3>1 DEF NextNumber, Least
    <3> QED BY <1>5, <3>1, <3>2, IssueSet
  <2>2. ASSUME NEW k \in Numbers, NEW f \in Fields, GithubEdits(k, f)
        PROVE  IF issues[n].state = "here" THEN issues'[n].item.title = issues[n].item.title ELSE issues[n].state = "none"
    <3>1. f # "title"
      BY <1>1, <2>2, RetitledStays
    <3>2. PICK item \in Item : (\A g \in Fields : item[g] # issues[k].item[g] <=> g = f) /\ SetIssue(k, "here", item)
      BY <2>2 DEF GithubEdits
    <3>3. item.title = issues[k].item.title
      BY <3>1, <3>2 DEF Fields
    <3> QED BY <1>5, <2>2, <3>2, <3>3, IssueSet DEF GithubEdits, Exists
  <2>3. ASSUME NEW k \in Numbers, GithubDeletes(k)
        PROVE  IF issues[n].state = "here" THEN issues'[n].item.title = issues[n].item.title ELSE issues[n].state = "none"
    BY <1>5, <2>3, IssueSet DEF GithubDeletes
  <2>4. CASE issues' = issues
    BY <1>5, <2>4
  <2> QED BY <2>1, <2>2, <2>3, <2>4 DEF GithubStep, UserStep, AddTask, EditTask, TakeTask, Link, Unlink, Calm,
             FaultStep, PassFails, Refused, DiesUnpaired
<1> QED BY <1>2, <1>4, <1>5 DEF TitlesStay

\* While nobody changes a title, what is tied keeps one title.
LEMMA TitleKept ==
  TypeOK /\ PairInvariant /\ OverInvariant /\ WorkInvariant /\ TitleInvariant /\ [Next]_vars => TitleInvariant'
<1> SUFFICES ASSUME TypeOK, PairInvariant, OverInvariant, WorkInvariant, TitleInvariant, [Next]_vars, ~Retitled'
             PROVE  SameTitles'
  BY DEF TitleInvariant
<1> USE TypeParts
<1> USE DEF store, github, ties, work, ghosts
<1>0. OpTaken /\ WorkAbout /\ WorkMade /\ WorkNew /\ AnswerNew /\ AnswerMade /\ AnsweredFor
  BY DEF PairInvariant, Apart, WorkInvariant, OverInvariant
<1>1. SameTitles
  BY RetitledStays DEF TitleInvariant
<1>2. TitlesStay
  <2>1. CASE UNCHANGED vars
    BY <2>1 DEF vars, TitlesStay
  <2> QED BY <1>1, <2>1, PassKeepsTitles, OthersKeepTitles DEF Next
<1>3. ASSUME \A n \in Numbers : pairs'[n].uid # Nobody => pairs'[n] = pairs[n] \/ PairTitled(n)',
             \A o \in InWork' : o \in InWork \cup {NoOp} \/ OpTitled(o)',
             UNCHANGED <<pc, op, answer>> \/ AnswerTitled'
      PROVE  SameTitles'
  BY <1>1, <1>2, <1>3, SameTitlesStay
<1>4. ASSUME NEW o \in InWork, NEW n \in Numbers, NEW u \in Uids, NEW item, item.title = o.item.title,
             TitledIssue(n, o.item.title)', TitledTask(u, o.item.title)', StorePair(n, u, item)
      PROVE  \A m \in Numbers : pairs'[m].uid # Nobody => pairs'[m] = pairs[m] \/ PairTitled(m)'
  <2> SUFFICES ASSUME NEW m \in Numbers, pairs'[m] # pairs[m] PROVE PairTitled(m)'
    OBVIOUS
  <2>1. m = n /\ pairs'[m] = [uid |-> u, item |-> item]
    BY <1>4 DEF StorePair, TieType
  <2> QED BY <1>4, <2>1 DEF PairTitled, TitledIssue, TitledTask
<1>5. ASSUME NEW o \in InWork
      PROVE  /\ o.kind \in {"merge", "adopt", "newtask"} => o.number \in Numbers /\ TitledIssue(o.number, o.item.title)'
             /\ o.kind \in {"merge", "adopt", "newissue"} => o.uid \in Uids /\ TitledTask(o.uid, o.item.title)'
  <2>1. /\ o.kind \in {"adopt", "newtask", "merge"} => o.number \in Numbers /\ issues[o.number].state # "none"
        /\ o.kind \in {"adopt", "newissue", "merge"} => o.uid \in Uids /\ o.uid \in born
    BY <1>0, NumbersApart DEF WorkAbout, WorkMade, WorkNew, Nobody
  <2>2. OpTitled(o)
    BY <1>1 DEF SameTitles
  <2>3. o.kind \in {"merge", "adopt", "newtask"} => TitledIssue(o.number, o.item.title)'
    BY <1>2, <2>1, <2>2, TitledIssueStays DEF OpTitled
  <2>4. o.kind \in {"merge", "adopt", "newissue"} => TitledTask(o.uid, o.item.title)'
    BY <1>2, <2>1, <2>2, TitledTaskStays DEF OpTitled
  <2> QED BY <2>1, <2>3, <2>4
<1>6. \A item : Opened(item).title = item.title
  BY DEF Opened
<1>a. ASSUME UNCHANGED pairs \/ pairs' = NoPairs \/ (\E k : pairs' = [pairs EXCEPT ![k] = NoPair])
      PROVE  \A n \in Numbers : pairs'[n].uid # Nobody => pairs'[n] = pairs[n]
  BY <1>a DEF TieType, NoPair, NoPairs
<1>b. ASSUME pc' # "answered" \/ op'.kind # "newissue" PROVE AnswerTitled'
  BY <1>b DEF AnswerTitled
<1>7. CASE UNCHANGED vars \/ UserStep \/ GithubStep
  <2>1. UNCHANGED <<pc, op, ops, answer>> /\ (UNCHANGED pairs \/ pairs' = NoPairs)
    BY <1>7 DEF vars, UserStep, AddTask, EditTask, TakeTask, Link, Unlink, Calm, GithubStep, GithubOpens, GithubEdits,
       GithubDeletes, Away
  <2> QED BY <1>3, <1>a, <2>1 DEF InWork
<1>8. CASE FaultStep
  <2>1. pairs' = pairs /\ pc' \in {"idle", "apply"} /\ InWork' \subseteq InWork \cup {NoOp}
    BY <1>8 DEF FaultStep, PassFails, Refused, DiesUnpaired, EndPass, InWork
  <2> QED BY <1>3, <1>a, <1>b, <2>1
<1>9. CASE NotLinked \/ ReadIssues \/ PassDone
  <2>1. pairs' = pairs /\ (UNCHANGED <<pc, op, answer>> \/ pc' \in {"idle", "read"}) /\ InWork' \subseteq InWork \cup {NoOp}
    BY <1>9 DEF NotLinked, vars, ReadIssues, PassDone, EndPass, InWork
  <2> QED BY <1>3, <1>a, <1>b, <2>1
<1>10. CASE Plan
  <2>1. pairs' = pairs /\ pc' = "apply"
    BY <1>10 DEF Plan
  <2> QED BY <1>1, <1>3, <1>10, <1>a, <1>b, <2>1, PlanTitled
<1>11. CASE Merge \/ Ask
  <2>1. PICK o \in ops : (Dropped(o) \/ Doing(o)) /\ (pc' = "answered" => o.kind = "merge")
    BY <1>11 DEF Merge, Ask, Dropped
  <2>2. InWork' \subseteq InWork \cup {NoOp} /\ op' \in {o, NoOp}
    BY <1>0, <2>1, TakenAway DEF Dropped, Doing
  <2>3. pairs' = pairs
    BY <1>11 DEF Merge, Ask
  <2>4. pc' # "answered" \/ op'.kind # "newissue"
    BY <2>1, <2>2, NoOpFields
  <2> QED BY <1>3, <1>a, <1>b, <2>2, <2>3, <2>4
<1>12. CASE Adopt
  <2>1. PICK o \in ops : o.kind = "adopt" /\ StorePair(o.number, o.uid, Opened(o.item)) /\ Dropped(o)
    BY <1>12 DEF Adopt
  <2>2. InWork' \subseteq InWork \cup {NoOp} /\ o \in InWork /\ pc' = "apply"
    BY <1>0, <2>1, TakenAway DEF Dropped, InWork
  <2>3. o.number \in Numbers /\ TitledIssue(o.number, o.item.title)' /\ o.uid \in Uids /\ TitledTask(o.uid, o.item.title)'
    BY <1>5, <2>1, <2>2
  <2> QED BY <1>3, <1>4, <1>6, <1>b, <2>1, <2>2, <2>3
<1>13. CASE NewTask
  <2>1. PICK o \in ops, u \in Unborn(Uids \ Repeating) :
          o.kind = "newtask" /\ Insert(u, Opened(o.item)) /\ StorePair(o.number, u, Opened(o.item)) /\ Dropped(o)
    BY <1>13 DEF NewTask
  <2>2. InWork' \subseteq InWork \cup {NoOp} /\ o \in InWork /\ pc' = "apply"
    BY <1>0, <2>1, TakenAway DEF Dropped, InWork
  <2>3. o.number \in Numbers /\ TitledIssue(o.number, o.item.title)'
    BY <1>5, <2>1, <2>2
  <2>4. u \in Uids /\ TitledTask(u, o.item.title)'
    BY <1>6, <2>1, UnbornType DEF Insert, StoreType, TitledTask
  <2> QED BY <1>3, <1>4, <1>6, <1>b, <2>1, <2>2, <2>3, <2>4
<1>14. CASE Unpair
  <2>1. PICK o \in ops : pairs' = [pairs EXCEPT ![o.number] = NoPair] /\ Dropped(o)
    BY <1>14 DEF Unpair
  <2>2. InWork' \subseteq InWork \cup {NoOp} /\ pc' = "apply"
    BY <1>0, <2>1, TakenAway DEF Dropped
  <2> QED BY <1>3, <1>a, <1>b, <2>1, <2>2
<1>15. CASE Update \/ Look
  BY <1>3, <1>15, <1>a, <1>b DEF Update, Look, InWork
<1>16. CASE Create
  <2>1. PICK n \in NextNumber : SetIssue(n, "here", Opened(op.item)) /\ answer' = [ok |-> TRUE, number |-> n]
    BY <1>16 DEF Create
  <2>2. n \in Numbers /\ issues[n].state = "none"
    BY DEF NextNumber, Least
  <2>3. UNCHANGED <<pairs, op, ops, listing>>
    BY <1>16 DEF Create
  <2>4. listing'[n].state = "none" /\ older'[n].state = "none" /\ issues'[n].item.title = op.item.title
    BY <1>6, <2>1, <2>2, <2>3, IssueSet DEF OverInvariant, ToldRight, MadeHere
  <2>5. AnswerTitled'
    BY <2>1, <2>3, <2>4 DEF AnswerTitled, TitledIssue, Versions
  <2> QED BY <1>3, <1>a, <2>3, <2>5 DEF InWork
<1>17. CASE Remember
  <2>1. op \in InWork /\ InWork' \subseteq InWork \cup {NoOp} /\ pc' = "apply" /\ pc = "answered"
    BY <1>17 DEF Remember, Answered, InWork
  <2>2. \A n \in Numbers : pairs'[n].uid # Nobody => pairs'[n] = pairs[n] \/ PairTitled(n)'
    <3>1. CASE ~answer.ok
      BY <1>17, <3>1 DEF Remember
    <3>2. CASE answer.ok /\ op.kind = "merge"
      <4>1. StorePair(op.number, op.uid, op.item)
        BY <1>0, <1>17, <2>1, <3>2 DEF Remember, AnsweredFor
      <4> QED BY <1>4, <1>5, <2>1, <3>2, <4>1
    <3>3. CASE answer.ok /\ op.kind = "newissue"
      <4>1. StorePair(answer.number, op.uid, Opened(op.item)) /\ answer.number \in Numbers
        BY <1>0, <1>17, <2>1, <3>3 DEF Remember, AnswerNew
      <4>2. TitledIssue(answer.number, op.item.title) /\ issues[answer.number].state # "none"
        BY <1>0, <1>1, <2>1, <3>3, <4>1 DEF SameTitles, AnswerTitled, AnswerMade
      <4>3. PICK k \in Numbers : k = answer.number
        BY <4>1
      <4>4. TitledIssue(k, op.item.title) /\ StorePair(k, op.uid, Opened(op.item))
        BY <4>1, <4>2, <4>3
      <4>5. PICK o \in InWork : o = op
        BY <2>1
      <4>6. TitledIssue(k, o.item.title)'
        BY <1>2, <4>2, <4>3, <4>4, <4>5, TitledIssueStays
      <4>7. o.uid \in Uids /\ TitledTask(o.uid, o.item.title)' /\ StorePair(k, o.uid, Opened(o.item))
        BY <1>5, <3>3, <4>4, <4>5
      <4> QED BY <1>4, <1>6, <4>6, <4>7
    <3> QED BY <1>17, <3>1, <3>2, <3>3 DEF Remember, Answered
  <2> QED BY <1>3, <1>b, <2>1, <2>2
<1>18. CASE Closed \/ CompleteTask
  <2>1. /\ UNCHANGED pairs \/ (\E k : pairs' = [pairs EXCEPT ![k] = NoPair])
        /\ InWork' \subseteq InWork \cup {NoOp} /\ pc' = "apply"
    BY <1>18 DEF Closed, CompleteTask, Answered, InWork
  <2> QED BY <1>3, <1>a, <1>b, <2>1
<1> QED BY <1>7, <1>8, <1>9, <1>10, <1>11, <1>12, <1>13, <1>14, <1>15, <1>16, <1>17, <1>18 DEF Next, PassStep

LEMMA TitleBegins == Init => TitleInvariant
<1> SUFFICES ASSUME Init PROVE SameTitles
  BY DEF TitleInvariant
<1>1. InWork = {NoOp} /\ pc = "idle" /\ Paired = {} /\ \A n \in Numbers : Versions(n) = {}
  BY DEF Init, InWork, Paired, NoPairs, NoPair, Versions, NoListing, NoIssue
<1> QED BY <1>1, NoOpFields DEF SameTitles, OneTitle, OpTitled, AnswerTitled

-----------------------------------------------------------------------------
(* What is due: open issues and open tasks, those that are still to be made  *)
(* counted and those that belong together counted once.                     *)

\* An issue that the issues, their older state or a listing shows open.
OpenIn(is, n) == is[n].state = "here" /\ is[n].item.open

\* Issues that are still to be made.
Coming == {o \in InWork : o.kind = "newissue" /\ (pc = "answered" => o # op)}

\* An issue whose task is to be made or opened, or that is to be opened itself.
Opening(o) == o.kind = "newtask" \/ (o.kind = "merge" /\ o.item.open /\ "open" \in o.task \cup o.issue)

\* An issue that is open, is still shown open to the pass that plans, or will be opened.
IssueDue(n) ==
  \/ OpenIn(issues, n)
  \/ used.fault = 0 /\ Coming = {} /\ OpenIn(older, n)
  \/ pc = "read" /\ OpenIn(listing, n)
  \/ \E o \in InWork : Opening(o) /\ o.number = n

\* Open in the linked list, or in any as long as none was linked.
TaskOpen(u) == tasks[u].list # Nowhere /\ link \in {Nowhere, tasks[u].list} /\ tasks[u].item.open

\* A task that is open, or whose issue is still to be made.
TaskDue(u) == TaskOpen(u) \/ \E o \in Coming : o.uid = u

\* Paired, and to stay so; or the issue was just made for the task.
Tied(n, u) ==
  \/ pairs[n].uid = u /\ \A o \in InWork : o.number = n => o.kind \notin {"close", "unpair"}
  \/ pc = "answered" /\ op.kind = "newissue" /\ answer.number = n /\ op.uid = u

\* A repeating task whose issue is gone, which a listing that lags may still show.
Stale(n, u) ==
  /\ used.fault = 0 /\ issues[n].state = "gone" /\ OpenIn(older, n)
  /\ older[n].item.title = tasks[u].item.title
  /\ pc = "read" => listing = issues
  /\ \A o \in InWork : o.number # n /\ (o.uid = u => o.kind = "adopt" /\ OpenIn(issues, o.number))
  /\ pc = "answered" /\ op.kind = "newissue" => answer.number # n

\* A task and an issue one of which was made for the other, and not paired: the next pass
\* adopts the task by its title, or another with the same one.
Lost(n, u) ==
  /\ used.fault = 1
  /\ \/ pc = "idle" /\ OpenIn(issues, n) /\ issues[n].item.title = tasks[u].item.title
     \/ pc = "read" /\ OpenIn(listing, n) /\ listing[n].item.title = tasks[u].item.title
     \/ \E o \in InWork : o.kind = "adopt" /\ o.number = n /\ o.uid = u

\* A pair that the next plan makes: both are free, and the task is in the linked list.
Promised(n, u) ==
  /\ n \in Numbers /\ u \in Uids
  /\ pairs[n].uid = Nobody /\ \A m \in Numbers : pairs[m].uid # u
  /\ link # Nowhere /\ tasks[u].list = link
  /\ Stale(n, u) \/ Lost(n, u)

\* At most one such pair is promised; 0 says that none is.
Promise(a, b) == (a = 0 /\ b = 0) \/ Promised(a, b)

\* An issue and a task that belong together.
Together(a, b, n, u) == Tied(n, u) \/ (n = a /\ u = b)

\* A task that is counted with an issue that is due.
Covered(a, b, u) == \E n \in Numbers : IssueDue(n) /\ Together(a, b, n, u)

\* A task that is counted for itself.
Alone(a, b, u) == TaskDue(u) /\ ~Covered(a, b, u)

\* What is counted.
Due(a, b) ==
  {<<"issue", n>> : n \in {k \in Numbers : IssueDue(k)}} \cup {<<"task", u>> : u \in {v \in Uids : Alone(a, b, v)}}

\* But for titles that changed, a link dropped, or a second fault.
Ordinary == ~Retitled /\ used.link <= 1 /\ used.fault <= 1

\* No more is due than people made, moved in or reopened.
Fits(a, b) == IsFiniteSet(Due(a, b)) /\ Cardinality(Due(a, b)) <= made

\* So it is with no pair promised, or with one.
DueFits == \E a, b : Promise(a, b) /\ Fits(a, b)

\* The invariant that NothingTwice follows from.
DueInvariant == Ordinary => DueFits

-----------------------------------------------------------------------------
(* Counting. *)

\* Where each that comes is told by one that goes, there are no more than before.
LEMMA NoMore ==
  ASSUME NEW S, IsFiniteSet(S), NEW T, NEW M,
         \A y \in T \ S : \E x \in S \ T : <<x, y>> \in M,
         \A x, y, z : <<x, y>> \in M /\ <<x, z>> \in M => y = z
  PROVE  IsFiniteSet(T) /\ Cardinality(T) <= Cardinality(S)
<1> DEFINE f == [y \in T |-> IF y \in S THEN y ELSE CHOOSE x \in S \ T : <<x, y>> \in M]
<1>1. ASSUME NEW y \in T PROVE f[y] \in S /\ (y \notin S => f[y] \notin T /\ <<f[y], y>> \in M) /\ (y \in S => f[y] = y)
  BY <1>1
<1> HIDE DEF f
<1>2. f \in [T -> S]
  BY <1>1 DEF f
<1>3. ASSUME NEW y \in T, NEW z \in T, f[y] = f[z] PROVE y = z
  BY <1>1, <1>3
<1>4. f \in Injection(T, S)
  BY <1>2, <1>3 DEF Injection, IsInjective
<1> QED BY <1>4, FS_Injection

\* And with one more than that.
LEMMA OneMore ==
  ASSUME NEW S, IsFiniteSet(S), NEW T, NEW M, NEW z,
         \A y \in T \ (S \cup {z}) : \E x \in S \ T : <<x, y>> \in M,
         \A x, y, w : <<x, y>> \in M /\ <<x, w>> \in M => y = w
  PROVE  IsFiniteSet(T) /\ Cardinality(T) <= Cardinality(S) + 1
<1>1. IsFiniteSet(T \ {z}) /\ Cardinality(T \ {z}) <= Cardinality(S)
  BY NoMore
<1>2. T \subseteq (T \ {z}) \cup {z}
  OBVIOUS
<1>3. /\ IsFiniteSet((T \ {z}) \cup {z})
      /\ Cardinality((T \ {z}) \cup {z}) <= Cardinality(T \ {z}) + 1
  <2>1. Cardinality(T \ {z}) \in Nat
    BY <1>1, FS_CardinalityType
  <2> QED BY <1>1, <2>1, FS_AddElement
<1>4. IsFiniteSet(T) /\ Cardinality(T) <= Cardinality((T \ {z}) \cup {z})
  BY <1>2, <1>3, FS_Subset
<1>5. /\ Cardinality(T) \in Nat /\ Cardinality(S) \in Nat /\ Cardinality(T \ {z}) \in Nat
      /\ Cardinality((T \ {z}) \cup {z}) \in Nat
  BY <1>1, <1>3, <1>4, FS_CardinalityType
<1> QED BY <1>1, <1>3, <1>4, <1>5

-----------------------------------------------------------------------------
(* What is due counts what people made. *)

\* What is due, by its parts; and after a step.
LEMMA DueMembers ==
  ASSUME NEW a, NEW b
  PROVE  /\ \A n : <<"issue", n>> \in Due(a, b) <=> n \in Numbers /\ IssueDue(n)
         /\ \A u : <<"task", u>> \in Due(a, b) <=> u \in Uids /\ Alone(a, b, u)
         /\ \A y \in Due(a, b) : (\E n \in Numbers : y = <<"issue", n>> /\ IssueDue(n))
                                 \/ (\E u \in Uids : y = <<"task", u>> /\ Alone(a, b, u))
BY DEF Due

LEMMA DueMembersNext ==
  ASSUME NEW a, NEW b
  PROVE  /\ \A n : <<"issue", n>> \in Due(a, b)' <=> n \in Numbers /\ IssueDue(n)'
         /\ \A u : <<"task", u>> \in Due(a, b)' <=> u \in Uids /\ Alone(a, b, u)'
         /\ \A y \in Due(a, b)' : (\E n \in Numbers : y = <<"issue", n>> /\ IssueDue(n)')
                                  \/ (\E u \in Uids : y = <<"task", u>> /\ Alone(a, b, u)')
BY DEF Due

\* What the count rests on.
Steady ==
  TypeOK /\ PairInvariant /\ OverInvariant /\ WorkInvariant /\ LinkInvariant /\ TitleInvariant

\* A pair that is promised belongs to nothing else.
LEMMA PromisedAlone ==
  ASSUME Steady, NEW a, NEW b, Promise(a, b), NEW n \in Numbers, NEW u \in Uids, Tied(n, u)
  PROVE  n # a /\ u # b
<1>0. AnswerNew /\ WorkApart /\ WorkAbout /\ WorkNew
  BY DEF Steady, WorkInvariant, PairInvariant, Apart
<1>1. CASE a = 0 /\ b = 0
  BY <1>1, NumbersApart
<1>2. CASE Promised(a, b) /\ pairs[n].uid = u
  BY <1>2, NumbersApart DEF Promised, Nobody
<1>3. CASE Promised(a, b) /\ pc = "answered" /\ op.kind = "newissue" /\ answer.number = n /\ op.uid = u
  <2>1. CASE Stale(a, b)
    BY <1>3, <2>1 DEF Stale, InWork
  <2>2. CASE Lost(a, b)
    <3>1. PICK o \in InWork : o.kind = "adopt" /\ o.number = a /\ o.uid = b
      BY <1>3, <2>2 DEF Lost
    <3>2. op \in InWork /\ o # op
      BY <1>3, <3>1 DEF InWork
    <3>3. n # a
      BY <1>0, <1>3, <3>1 DEF AnswerNew
    <3>4. u # b
      BY <1>0, <1>3, <3>1, <3>2, NumbersApart DEF WorkApart, Promised, Nobody
    <3> QED BY <3>3, <3>4
  <2> QED BY <1>3, <2>1, <2>2 DEF Promised
<1> QED BY <1>1, <1>2, <1>3 DEF Promise, Tied

\* An issue belongs with one task.
LEMMA TogetherOnce ==
  ASSUME Steady, NEW a, NEW b, Promise(a, b), NEW n \in Numbers, NEW u \in Uids, NEW v \in Uids,
         Together(a, b, n, u), Together(a, b, n, v)
  PROVE  u = v
<1>1. AnswerNew
  BY DEF Steady, WorkInvariant
<1>2. CASE n = a
  BY <1>2, PromisedAlone DEF Together
<1>3. CASE Tied(n, u) /\ Tied(n, v)
  BY <1>1, <1>3, NumbersApart DEF Tied, AnswerNew, Nobody
<1> QED BY <1>2, <1>3 DEF Together

\* People made nothing, or the one thing of Z.
Counts(Z) == (Z = {} /\ made' = made) \/ (\E z : Z = {z} /\ made' = made + 1)

\* p and q are a pair that the promise and the ties leave room for.
Loose(a, b, p, q) == \A u \in Uids : p \in Numbers /\ Together(a, b, p, u) => u = q

\* An issue that goes leaves its task behind (p and q: or the task made for it), and what
\* else comes is new (Z) or came of a task that goes (R).
Turns(a, b, c, d, p, q, Z, R) ==
  /\ Loose(a, b, p, q) /\ Counts(Z)
  /\ \A x, y, z : <<x, y>> \in R /\ <<x, z>> \in R => y = z
  /\ \A x, y : <<x, y>> \in R => \E v \in Uids : x = <<"task", v>>
  /\ \A n \in Numbers : IssueDue(n)' =>
        \/ IssueDue(n) \/ <<"issue", n>> \in Z
        \/ \E v \in Uids : Alone(a, b, v) /\ ~Alone(c, d, v)' /\ << <<"task", v>>, <<"issue", n>> >> \in R
  /\ \A u \in Uids : Alone(c, d, u)' /\ ~Alone(a, b, u) =>
        \/ <<"task", u>> \in Z
        \/ p \in Numbers /\ u = q /\ IssueDue(p) /\ ~IssueDue(p)'
        \/ \E n \in Numbers : IssueDue(n) /\ ~IssueDue(n)' /\ Together(a, b, n, u)
        \/ \E v \in Uids : Alone(a, b, v) /\ ~Alone(c, d, v)' /\ << <<"task", v>>, <<"task", u>> >> \in R

\* The same, for a step in which an issue that comes is new.
Stays(a, b, c, d, p, q, Z) ==
  /\ Loose(a, b, p, q) /\ Counts(Z)
  /\ \A n \in Numbers : IssueDue(n)' => IssueDue(n) \/ <<"issue", n>> \in Z
  /\ \A u \in Uids : TaskDue(u)' =>
        \/ <<"task", u>> \in Z \/ Covered(c, d, u)'
        \/ p \in Numbers /\ u = q /\ IssueDue(p) /\ ~IssueDue(p)'
        \/ TaskDue(u) /\ \A n \in Numbers : Together(a, b, n, u) /\ IssueDue(n)' => Together(c, d, n, u)'

\* Such a step leaves no more due than people made.
LEMMA DueTurns ==
  ASSUME Steady, NEW a, NEW b, Promise(a, b), Fits(a, b), NEW c, NEW d, Promise(c, d)',
         NEW p, NEW q, NEW Z, NEW R, Turns(a, b, c, d, p, q, Z, R)
  PROVE  DueFits'
<1> DEFINE E == {<< <<"issue", e[1]>>, <<"task", e[2]>> >> : e \in {f \in Numbers \X Uids : Together(a, b, f[1], f[2])}}
           M == E \cup {<< <<"issue", p>>, <<"task", q>> >>} \cup R
<1>1. \A n \in Numbers, u \in Uids : Together(a, b, n, u) => << <<"issue", n>>, <<"task", u>> >> \in E
  <2> SUFFICES ASSUME NEW n \in Numbers, NEW u \in Uids, Together(a, b, n, u)
               PROVE  << <<"issue", n>>, <<"task", u>> >> \in E
    OBVIOUS
  <2>1. <<n, u>> \in {f \in Numbers \X Uids : Together(a, b, f[1], f[2])}
    OBVIOUS
  <2> QED BY <2>1
<1>2. \A x, y : <<x, y>> \in E => \E n \in Numbers, u \in Uids : x = <<"issue", n>> /\ y = <<"task", u>> /\ Together(a, b, n, u)
  OBVIOUS
<1> HIDE DEF E
<1>3. \A x, y, z : <<x, y>> \in M /\ <<x, z>> \in M => y = z
  <2> SUFFICES ASSUME NEW x, NEW y, NEW z, <<x, y>> \in M, <<x, z>> \in M PROVE y = z
    OBVIOUS
  <2>0. /\ <<x, y>> \in R /\ <<x, z>> \in R => y = z
        /\ <<x, y>> \in R \/ <<x, z>> \in R => \E v \in Uids : x = <<"task", v>>
        /\ \A u \in Uids : p \in Numbers /\ Together(a, b, p, u) => u = q
    BY DEF Turns, Loose
  <2>1. CASE <<x, y>> \in R
    BY <1>2, <2>0, <2>1
  <2>2. CASE <<x, z>> \in R
    BY <1>2, <2>0, <2>2
  <2>3. CASE <<x, y>> \in E /\ <<x, z>> \in E
    BY <1>2, <2>3, TogetherOnce
  <2>4. CASE <<x, y>> \notin E \cup R /\ <<x, z>> \notin R
    BY <1>2, <2>0, <2>4
  <2>5. CASE <<x, z>> \notin E \cup R /\ <<x, y>> \notin R
    BY <1>2, <2>0, <2>5
  <2> QED BY <2>1, <2>2, <2>3, <2>4, <2>5
<1> DEFINE S == Due(a, b)
           T == Due(c, d)'
<1>4. ASSUME NEW y \in T \ (S \cup Z) PROVE \E x \in S \ T : <<x, y>> \in M
  <2>1. CASE \E n \in Numbers : y = <<"issue", n>> /\ IssueDue(n)'
    <3>1. PICK n \in Numbers : y = <<"issue", n>> /\ IssueDue(n)'
      BY <2>1
    <3>2. ~IssueDue(n)
      BY <1>4, <3>1, DueMembers
    <3>3. PICK v \in Uids : Alone(a, b, v) /\ ~Alone(c, d, v)' /\ << <<"task", v>>, <<"issue", n>> >> \in R
      BY <1>4, <3>1, <3>2 DEF Turns
    <3>4. <<"task", v>> \in S \ T
      BY <3>3, DueMembers, DueMembersNext
    <3> QED BY <3>1, <3>3, <3>4
  <2>2. CASE \E u \in Uids : y = <<"task", u>> /\ Alone(c, d, u)'
    <3>1. PICK u \in Uids : y = <<"task", u>> /\ Alone(c, d, u)'
      BY <2>2
    <3>2. ~Alone(a, b, u)
      BY <1>4, <3>1, DueMembers
    <3>3. ASSUME NEW n \in Numbers, IssueDue(n), ~IssueDue(n)' PROVE <<"issue", n>> \in S \ T
      BY <3>3, DueMembers, DueMembersNext
    <3>4. CASE p \in Numbers /\ u = q /\ IssueDue(p) /\ ~IssueDue(p)'
      BY <3>1, <3>3, <3>4
    <3>5. CASE \E n \in Numbers : IssueDue(n) /\ ~IssueDue(n)' /\ Together(a, b, n, u)
      BY <1>1, <3>1, <3>3, <3>5
    <3>6. CASE \E v \in Uids : Alone(a, b, v) /\ ~Alone(c, d, v)' /\ << <<"task", v>>, <<"task", u>> >> \in R
      <4>1. PICK v \in Uids : Alone(a, b, v) /\ ~Alone(c, d, v)' /\ << <<"task", v>>, <<"task", u>> >> \in R
        BY <3>6
      <4>2. <<"task", v>> \in S \ T
        BY <4>1, DueMembers, DueMembersNext
      <4> QED BY <3>1, <4>1, <4>2
    <3> QED BY <1>4, <3>1, <3>2, <3>4, <3>5, <3>6 DEF Turns
  <2> QED BY <1>4, <2>1, <2>2, DueMembersNext
<1>5. IsFiniteSet(S) /\ Cardinality(S) <= made /\ Cardinality(S) \in Nat /\ made \in Nat
  BY FS_CardinalityType, TypeParts DEF Fits, Steady, GhostType
<1> HIDE DEF M, S, T
<1>6. IsFiniteSet(T) /\ Cardinality(T) <= made'
  <2>1. CASE Z = {} /\ made' = made
    <3>1. IsFiniteSet(T) /\ Cardinality(T) <= Cardinality(S)
      BY <1>3, <1>4, <1>5, <2>1, NoMore
    <3>2. Cardinality(T) \in Nat
      BY <3>1, FS_CardinalityType
    <3> QED BY <1>5, <2>1, <3>1, <3>2
  <2>2. CASE \E z : Z = {z} /\ made' = made + 1
    <3>0. PICK z : Z = {z} /\ made' = made + 1
      BY <2>2
    <3>1. IsFiniteSet(T) /\ Cardinality(T) <= Cardinality(S) + 1
      BY <1>3, <1>4, <1>5, <3>0, OneMore
    <3>2. Cardinality(T) \in Nat
      BY <3>1, FS_CardinalityType
    <3> QED BY <1>5, <3>0, <3>1, <3>2
  <2> QED BY <2>1, <2>2 DEF Turns, Counts
<1>7. Fits(c, d)'
  BY <1>6 DEF Fits, T
<1> QED BY <1>7 DEF DueFits

\* A step after which what belongs together still does, and no task opens unless it is new,
\* leaves no more due.
LEMMA DueStays ==
  ASSUME Steady, NEW a, NEW b, Promise(a, b), Fits(a, b), NEW c, NEW d, Promise(c, d)',
         NEW p, NEW q, NEW Z, Stays(a, b, c, d, p, q, Z)
  PROVE  DueFits'
<1>1. ASSUME NEW u \in Uids, Alone(c, d, u)', ~Alone(a, b, u)
      PROVE  \/ <<"task", u>> \in Z
             \/ p \in Numbers /\ u = q /\ IssueDue(p) /\ ~IssueDue(p)'
             \/ \E n \in Numbers : IssueDue(n) /\ ~IssueDue(n)' /\ Together(a, b, n, u)
  BY <1>1 DEF Alone, Covered, Stays
<1>2. Turns(a, b, c, d, p, q, Z, {})
  BY <1>1 DEF Stays, Turns
<1> QED BY <1>2, DueTurns

\* A step by which nothing new is due leaves no more due.
LEMMA DueShrinks ==
  ASSUME Steady, NEW a, NEW b, Promise(a, b), Fits(a, b), NEW c, NEW d, Promise(c, d)', made' = made,
         \A n \in Numbers : IssueDue(n)' => IssueDue(n),
         \A u \in Uids : TaskDue(u)' =>
           Covered(c, d, u)' \/ (TaskDue(u) /\ \A n \in Numbers : Together(a, b, n, u) /\ IssueDue(n)' => Together(c, d, n, u)')
  PROVE  DueFits'
<1>1. Stays(a, b, c, d, 0, 0, {})
  BY NumbersApart DEF Stays, Loose, Counts
<1> QED BY <1>1, DueStays

\* The parts of the invariants that the steps below use.
LEMMA SteadyParts ==
  ASSUME Steady
  PROVE  /\ TypeOK /\ PairsOneToOne /\ WorkApart /\ PairsApart /\ WorkNew /\ PairsBorn /\ TasksBorn /\ OpTaken
         /\ AnsweredFor /\ ToldRight /\ PairsMade /\ WorkMade /\ AnswerMade
         /\ NumbersOnce /\ NoWorkYet /\ FreeWork /\ WorkAbout /\ AnswerNew /\ GoneSeen /\ OneOlder
         /\ Ordinary => LinkedOnce /\ SameTitles
BY DEF Steady, PairInvariant, Apart, OverInvariant, WorkInvariant, LinkInvariant, TitleInvariant, Ordinary

\* What is ordinary after a step was so before.
LEMMA OrdinaryBefore ==
  ASSUME Steady, [Next]_vars, Ordinary'
  PROVE  /\ Ordinary /\ used.fault \in {0, 1}
         /\ used'.fault = used.fault \/ (used.fault = 0 /\ used'.fault = 1)
<1>1. /\ used'.link \in {used.link, used.link + 1} /\ used'.fault \in {used.fault, used.fault + 1}
      /\ used.link \in Nat /\ used.fault \in Nat
  BY UsedGrows, TypeParts DEF Steady, BoundType, Bounds
<1> QED BY <1>1, RetitledStays DEF Ordinary

\* A pass that has planned and is carried out.
AtWork == pc \in {"apply", "call", "answered"}

\* A pass that goes on, or ends, makes no issue due.
LEMMA IssuesDueStay ==
  ASSUME UNCHANGED <<issues, older>>, used'.fault = 0 => used.fault = 0 /\ (Coming' = {} => Coming = {}),
         pc' # "read" \/ (pc = "read" /\ listing' = listing), InWork' \subseteq InWork \cup {NoOp}
  PROVE  \A n \in Numbers : IssueDue(n)' => IssueDue(n)
<1>1. ~Opening(NoOp)
  BY NoOpFields DEF Opening
<1> QED BY <1>1 DEF IssueDue

\* A promise outlives a step of a pass that pairs neither of the two.
LEMMA PromiseStays ==
  ASSUME NEW a, NEW b, Promise(a, b), AtWork, AtWork', UNCHANGED <<issues, older, link>>, used'.fault = used.fault,
         \A m \in Numbers : pairs'[m].uid \in {pairs[m].uid, Nobody} \/ (m # a /\ pairs'[m].uid # b),
         b \in Uids => tasks'[b].list = tasks[b].list /\ tasks'[b].item.title = tasks[b].item.title,
         InWork' \subseteq InWork \cup {NoOp},
         pc' = "answered" /\ op'.kind = "newissue" => UNCHANGED <<pc, op, answer>>,
         \A o \in InWork : o.kind = "adopt" /\ o.number = a /\ o.uid = b => o \in InWork'
  PROVE  Promise(a, b)'
<1>1. CASE a = 0 /\ b = 0
  BY <1>1 DEF Promise
<1>2. CASE Promised(a, b)
  <2>1. pairs'[a].uid = Nobody /\ \A m \in Numbers : pairs'[m].uid # b
    BY <1>2, NumbersApart DEF Promised, Nobody
  <2>2. ASSUME Stale(a, b) PROVE Stale(a, b)'
    BY <1>2, <2>2, NoOpFields, NumbersApart DEF Stale, Promised, Nobody, AtWork
  <2>3. ASSUME Lost(a, b) PROVE Lost(a, b)'
    BY <1>2, <2>3 DEF Lost, AtWork
  <2>4. Stale(a, b)' \/ Lost(a, b)'
    BY <1>2, <2>2, <2>3 DEF Promised
  <2>5. Promised(a, b)'
    BY <1>2, <2>1, <2>4 DEF Promised
  <2> QED BY <2>5 DEF Promise
<1> QED BY <1>1, <1>2 DEF Promise

\* What belongs together does so as long as its pair stays and nothing is planned against it.
LEMMA TiesStay ==
  ASSUME NEW a, NEW b, NEW n \in Numbers, NEW u \in Uids, Together(a, b, n, u),
         InWork' \subseteq InWork \cup {NoOp}, pairs'[n].uid = pairs[n].uid,
         pc = "answered" /\ op.kind = "newissue" => UNCHANGED <<pc, op, answer>>
  PROVE  Together(a, b, n, u)'
BY NoOpFields DEF Together, Tied

\* A task that is promised is in no other work.
LEMMA PromisedApart ==
  ASSUME Steady, NEW a, NEW b, Promised(a, b)
  PROVE  /\ a \in Numbers /\ b \in Uids /\ b \in born
         /\ \A o \in InWork : o.number = a => o.kind = "adopt" /\ o.uid = b
         /\ \A o \in InWork : o.uid = b => o.kind = "adopt"
         /\ ~\E o \in Coming : o.uid = b
<1> USE SteadyParts
<1>1. a \in Numbers /\ b \in Uids /\ b \in born /\ a # 0 /\ b # 0
  BY NumbersApart DEF Promised, TasksBorn
<1>2. (\A o \in InWork : o.number = a => o.kind = "adopt" /\ o.uid = b) /\ (\A o \in InWork : o.uid = b => o.kind = "adopt")
  <2>1. CASE Stale(a, b)
    BY <2>1 DEF Stale
  <2>2. CASE Lost(a, b) /\ pc \in {"idle", "read"}
    <3>1. InWork = {NoOp}
      BY <2>2 DEF OpTaken, NoWorkYet, InWork
    <3> QED BY <1>1, <3>1, NoOpFields DEF Nobody
  <2>3. CASE Lost(a, b) /\ pc \notin {"idle", "read"}
    <3>1. PICK o \in InWork : o.kind = "adopt" /\ o.number = a /\ o.uid = b
      BY <2>3 DEF Lost
    <3>2. \A p \in InWork : p.number = a \/ p.uid = b => p = o
      BY <1>1, <3>1 DEF NumbersOnce, WorkApart, Nobody
    <3> QED BY <3>1, <3>2
  <2> QED BY <2>1, <2>2, <2>3 DEF Promised
<1> QED BY <1>1, <1>2 DEF Coming

\* The steps of a pass keep what is due: asking GitHub, and each operation as it is applied.
LEMMA AskKeepsDue ==
  ASSUME Steady, Ordinary, Ask, NEW a, NEW b, Promise(a, b), Fits(a, b)
  PROVE  DueFits'
<1> USE SteadyParts
<1> USE DEF store, github, ties, work, ghosts
<1>1. PICK o \in ops : o.kind \in {"close", "complete", "newissue"} /\ op' = o /\ ops' = ops \ {o}
  BY DEF Ask, Doing
<1>2. pc = "apply" /\ pc' = "call" /\ op = NoOp /\ UNCHANGED <<tasks, issues, older, link, pairs, used, made>>
  BY DEF Ask, OpTaken
<1>3. InWork' \subseteq InWork \cup {NoOp} /\ InWork \subseteq InWork' \cup {NoOp}
  BY <1>1, <1>2 DEF InWork
<1>4. Coming' = Coming
  BY <1>2, <1>3, NoOpFields DEF Coming
<1>5. Promise(a, b)'
  BY <1>2, <1>3, NoOpFields, PromiseStays DEF AtWork
<1>6. \A n \in Numbers : IssueDue(n)' => IssueDue(n)
  BY <1>2, <1>3, <1>4, IssuesDueStay
<1>7. \A u \in Uids : TaskDue(u)' => TaskDue(u)
  BY <1>2, <1>4 DEF TaskDue, TaskOpen
<1>8. \A n \in Numbers, u \in Uids : Together(a, b, n, u) => Together(a, b, n, u)'
  BY <1>2, <1>3, TiesStay
<1> QED BY <1>2, <1>5, <1>6, <1>7, <1>8, DueShrinks

LEMMA UnpairKeepsDue ==
  ASSUME Steady, Ordinary, Unpair, NEW a, NEW b, Promise(a, b), Fits(a, b)
  PROVE  DueFits'
<1> USE SteadyParts
<1> USE DEF store, github, ties, work, ghosts
<1>1. PICK o \in ops : o.kind = "unpair" /\ pairs' = [pairs EXCEPT ![o.number] = NoPair] /\ op' = NoOp /\ ops' = ops \ {o}
  BY DEF Unpair, Dropped
<1>2. pc = "apply" /\ pc' = "apply" /\ op = NoOp /\ UNCHANGED <<tasks, issues, older, link, used, made>>
  BY DEF Unpair, OpTaken, Dropped
<1>3. InWork' = (InWork \ {o}) \cup {NoOp} /\ o \in InWork
  BY <1>1, <1>2 DEF InWork
<1>4. Coming' = Coming
  BY <1>1, <1>2, <1>3, NoOpFields DEF Coming
<1>5. \A n \in Numbers : pairs'[n].uid = IF n = o.number THEN Nobody ELSE pairs[n].uid
  BY <1>1, TypeParts DEF TieType, NoPair
<1>6. Promise(a, b)'
  BY <1>1, <1>2, <1>3, <1>5, NoOpFields, PromiseStays DEF AtWork
<1>7. \A n \in Numbers : IssueDue(n)' => IssueDue(n)
  BY <1>2, <1>3, <1>4, IssuesDueStay
<1>8. \A u \in Uids : TaskDue(u)' => TaskDue(u)
  BY <1>2, <1>4 DEF TaskDue, TaskOpen
<1>9. \A n \in Numbers, u \in Uids : Together(a, b, n, u) => Together(a, b, n, u)'
  <2> SUFFICES ASSUME NEW n \in Numbers, NEW u \in Uids, Together(a, b, n, u) PROVE Together(a, b, n, u)'
    OBVIOUS
  <2>1. CASE n # o.number
    BY <1>2, <1>3, <1>5, <2>1, TiesStay
  <2>2. CASE n = o.number
    BY <1>1, <1>2, <1>3, <2>2 DEF Together, Tied
  <2> QED BY <2>1, <2>2
<1> QED BY <1>2, <1>6, <1>7, <1>8, <1>9, DueShrinks

LEMMA LookKeepsDue ==
  ASSUME Steady, Ordinary, Look, NEW a, NEW b, Promise(a, b), Fits(a, b)
  PROVE  DueFits'
<1> USE SteadyParts
<1> USE DEF store, github, ties, work, ghosts
<1>1. /\ pc = "call" /\ pc' = "answered" /\ op.kind = "complete"
      /\ UNCHANGED <<tasks, issues, older, link, pairs, used, made, ops, op>>
  BY DEF Look
<1>2. InWork' = InWork /\ Coming' = Coming
  BY <1>1 DEF InWork, Coming
<1>3. Promise(a, b)'
  BY <1>1, <1>2, PromiseStays DEF AtWork
<1>4. \A n \in Numbers : IssueDue(n)' => IssueDue(n)
  BY <1>1, <1>2, IssuesDueStay
<1>5. \A u \in Uids : TaskDue(u)' => TaskDue(u)
  BY <1>1, <1>2 DEF TaskDue, TaskOpen
<1>6. \A n \in Numbers, u \in Uids : Together(a, b, n, u) => Together(a, b, n, u)'
  BY <1>1, <1>2, TiesStay
<1> QED BY <1>1, <1>3, <1>4, <1>5, <1>6, DueShrinks

LEMMA PassDoneKeepsDue ==
  ASSUME Steady, Ordinary, PassDone, NEW a, NEW b, Promise(a, b), Fits(a, b)
  PROVE  DueFits'
<1> USE SteadyParts
<1> USE DEF store, github, ties, work, ghosts
<1>1. /\ pc = "apply" /\ pc' = "idle" /\ ops = {} /\ ops' = {} /\ op = NoOp /\ op' = NoOp
      /\ UNCHANGED <<tasks, issues, older, link, pairs, used, made>>
  BY DEF PassDone, EndPass, OpTaken
<1>2. InWork' = InWork /\ InWork = {NoOp} /\ Coming' = {} /\ Coming = {}
  BY <1>1, NoOpFields DEF InWork, Coming
<1>3. Promise(a, b)'
  <2>1. ~Lost(a, b)
    BY <1>1, <1>2, NoOpFields DEF Lost
  <2>2. ASSUME Promised(a, b) PROVE Promised(a, b)'
    <3>1. Stale(a, b)'
      BY <1>1, <1>2, <2>1, <2>2 DEF Promised, Stale
    <3> QED BY <1>1, <2>2, <3>1 DEF Promised
  <2> QED BY <2>2 DEF Promise
<1>4. \A n \in Numbers : IssueDue(n)' => IssueDue(n)
  BY <1>1, <1>2, IssuesDueStay
<1>5. \A u \in Uids : TaskDue(u)' => TaskDue(u)
  BY <1>1, <1>2 DEF TaskDue, TaskOpen
<1>6. \A n \in Numbers, u \in Uids : Together(a, b, n, u) => Together(a, b, n, u)'
  BY <1>1, <1>2, TiesStay
<1> QED BY <1>1, <1>3, <1>4, <1>5, <1>6, DueShrinks

LEMMA ClosedKeepsDue ==
  ASSUME Steady, Ordinary, Closed, NEW a, NEW b, Promise(a, b), Fits(a, b)
  PROVE  DueFits'
<1> USE SteadyParts
<1> USE DEF store, github, ties, work, ghosts
<1>1. /\ pc = "answered" /\ pc' = "apply" /\ op.kind = "close" /\ op' = NoOp
      /\ UNCHANGED <<tasks, issues, older, link, used, made, ops>>
      /\ pairs' = [pairs EXCEPT ![op.number] = NoPair] \/ pairs' = pairs
  BY DEF Closed, Answered
<1>2. InWork' = ops \cup {NoOp} /\ op \in InWork /\ Coming' = Coming
  BY <1>1, NoOpFields DEF InWork, Coming
<1>3. \A n \in Numbers : n # op.number => pairs'[n].uid = pairs[n].uid
  BY <1>1, TypeParts DEF TieType
<1>4. \A n \in Numbers : pairs'[n].uid \in {pairs[n].uid, Nobody}
  BY <1>1, TypeParts DEF TieType, NoPair
<1>5. Promise(a, b)'
  BY <1>1, <1>2, <1>4, NoOpFields, PromiseStays DEF AtWork, InWork
<1>6. \A n \in Numbers : IssueDue(n)' => IssueDue(n)
  BY <1>1, <1>2, IssuesDueStay DEF InWork
<1>7. \A u \in Uids : TaskDue(u)' => TaskDue(u)
  BY <1>1, <1>2 DEF TaskDue, TaskOpen
<1>8. \A n \in Numbers, u \in Uids : Together(a, b, n, u) => Together(a, b, n, u)'
  <2> SUFFICES ASSUME NEW n \in Numbers, NEW u \in Uids, Together(a, b, n, u) PROVE Together(a, b, n, u)'
    OBVIOUS
  <2>1. CASE n # op.number
    BY <1>1, <1>2, <1>3, <2>1, TiesStay DEF InWork
  <2>2. CASE n = op.number
    BY <1>1, <1>2, <2>2 DEF Together, Tied
  <2> QED BY <2>1, <2>2
<1> QED BY <1>1, <1>5, <1>6, <1>7, <1>8, DueShrinks

LEMMA RememberKeepsDue ==
  ASSUME Steady, Ordinary, Remember, NEW a, NEW b, Promise(a, b), Fits(a, b)
  PROVE  DueFits'
<1> USE SteadyParts
<1> USE DEF store, github, ties, work, ghosts
<1>1. /\ pc = "answered" /\ pc' = "apply" /\ op.kind \in {"merge", "newissue"} /\ op' = NoOp
      /\ UNCHANGED <<tasks, issues, older, link, used, made, ops>>
  BY DEF Remember, Answered
<1>2. InWork' = ops \cup {NoOp} /\ op \in InWork /\ InWork = ops \cup {op} /\ op \notin ops
  BY <1>1 DEF InWork, OpTaken
<1>3. Coming' = Coming
  BY <1>1, <1>2, NoOpFields DEF Coming
<1>4. link # Nowhere
  BY <1>1, TypeParts DEF LinkedOnce, PassType
<1>5. CASE op.kind = "merge"
  <2>1. op.number \in Numbers /\ pairs[op.number].uid = op.uid
    BY <1>2, <1>5 DEF WorkAbout, LinkedOnce
  <2>2. pairs' = pairs \/ pairs' = [pairs EXCEPT ![op.number] = [uid |-> op.uid, item |-> op.item]]
    BY <1>1, <1>5, <2>1 DEF Remember, StorePair, AnsweredFor
  <2>3. \A n \in Numbers : pairs'[n].uid = pairs[n].uid
    BY <2>1, <2>2, TypeParts DEF TieType
  <2>4. \A o \in InWork : o.kind = "adopt" => o \in InWork'
    BY <1>2, <1>5
  <2>5. Promise(a, b)'
    BY <1>1, <1>2, <2>3, <2>4, NoOpFields, PromiseStays DEF AtWork
  <2>6. \A n \in Numbers : IssueDue(n)' => IssueDue(n)
    BY <1>1, <1>2, <1>3, IssuesDueStay
  <2>7. \A u \in Uids : TaskDue(u)' => TaskDue(u)
    BY <1>1, <1>3 DEF TaskDue, TaskOpen
  <2>8. \A n \in Numbers, u \in Uids : Together(a, b, n, u) => Together(a, b, n, u)'
    BY <1>1, <1>2, <1>5, <2>3, TiesStay
  <2> QED BY <1>1, <2>5, <2>6, <2>7, <2>8, DueShrinks
<1>6. CASE op.kind = "newissue"
  <2>1. /\ answer.ok /\ answer.number \in Numbers /\ pairs[answer.number].uid = Nobody
        /\ op.uid \in Uids /\ \A o \in InWork : o.number # answer.number
    BY <1>1, <1>2, <1>6 DEF AnswerNew, WorkAbout
  <2>2. Tied(answer.number, op.uid)
    BY <1>1, <1>6 DEF Tied
  <2>3. answer.number # a /\ op.uid # b
    BY <2>1, <2>2, PromisedAlone
  <2>4. \A n \in Numbers : pairs'[n].uid = IF n = answer.number THEN op.uid ELSE pairs[n].uid
    BY <1>1, <1>4, <2>1, TypeParts DEF Remember, StorePair, TieType
  <2>5. \A o \in InWork : o.kind = "adopt" => o \in InWork'
    BY <1>2, <1>6
  <2>6. Promise(a, b)'
    BY <1>1, <1>2, <2>3, <2>4, <2>5, NoOpFields, PromiseStays DEF AtWork
  <2>7. \A n \in Numbers : IssueDue(n)' => IssueDue(n)
    BY <1>1, <1>2, <1>3, IssuesDueStay
  <2>8. \A u \in Uids : TaskDue(u)' => TaskDue(u)
    BY <1>1, <1>3 DEF TaskDue, TaskOpen
  <2>9. ASSUME NEW n \in Numbers, NEW u \in Uids, Together(a, b, n, u) PROVE Together(a, b, n, u)'
    <3>1. CASE n = answer.number
      <4>1. u = op.uid
        BY <2>1, <2>3, <2>9, <3>1, NumbersApart DEF Together, Tied, Nobody
      <4>2. \A o \in InWork' : o.number # n
        BY <1>2, <2>1, <3>1, NoOpFields, NumbersApart
      <4> QED BY <2>1, <2>4, <3>1, <4>1, <4>2 DEF Together, Tied
    <3>2. CASE n # answer.number
      <4>1. CASE n = a /\ u = b
        BY <4>1 DEF Together
      <4>2. CASE pairs[n].uid = u /\ \A o \in InWork : o.number = n => o.kind \notin {"close", "unpair"}
        <5>1. \A o \in InWork' : o.number = n => o.kind \notin {"close", "unpair"}
          BY <1>2, <4>2, NoOpFields
        <5> QED BY <2>4, <3>2, <4>2, <5>1 DEF Together, Tied
      <4> QED BY <2>9, <3>2, <4>1, <4>2 DEF Together, Tied
    <3> QED BY <3>1, <3>2
  <2> QED BY <1>1, <2>6, <2>7, <2>8, <2>9, DueShrinks
<1> QED BY <1>1, <1>5, <1>6

LEMMA AdoptKeepsDue ==
  ASSUME Steady, Ordinary, Adopt, NEW a, NEW b, Promise(a, b), Fits(a, b)
  PROVE  DueFits'
<1> USE SteadyParts
<1> USE DEF store, github, ties, work, ghosts
<1>1. PICK o \in ops : /\ o.kind = "adopt" /\ StorePair(o.number, o.uid, Opened(o.item))
                       /\ op' = NoOp /\ ops' = ops \ {o}
  BY DEF Adopt, Dropped
<1>2. pc = "apply" /\ pc' = "apply" /\ op = NoOp /\ UNCHANGED <<tasks, issues, older, link, used, made>>
  BY DEF Adopt, OpTaken, Dropped
<1>3. InWork' = (InWork \ {o}) \cup {NoOp} /\ o \in InWork
  BY <1>1, <1>2 DEF InWork
<1>4. Coming' = Coming
  BY <1>1, <1>2, <1>3, NoOpFields DEF Coming
<1>5. /\ o.number \in Numbers /\ o.uid \in Uids /\ pairs[o.number].uid = Nobody /\ link # Nowhere
      /\ \A p \in InWork' : p.number # o.number
  <2>1. o.number \in Numbers /\ o.uid \in Uids /\ pairs[o.number].uid = Nobody
    BY <1>1, <1>3 DEF FreeWork, WorkAbout
  <2>2. \A p \in InWork' : p.number # o.number
    BY <1>1, <1>3, <2>1, NoOpFields, NumbersApart DEF NumbersOnce
  <2>3. link # Nowhere
    BY <1>2, TypeParts DEF LinkedOnce, PassType
  <2> QED BY <2>1, <2>2, <2>3
<1>6. \A n \in Numbers : pairs'[n].uid = IF n = o.number THEN o.uid ELSE pairs[n].uid
  BY <1>1, <1>5, TypeParts DEF StorePair, TieType
<1>7. Tied(o.number, o.uid)'
  BY <1>2, <1>5, <1>6 DEF Tied
<1>8. \A n \in Numbers : IssueDue(n)' => IssueDue(n)
  BY <1>2, <1>3, <1>4, IssuesDueStay
<1>9. \A u \in Uids : TaskDue(u)' => TaskDue(u)
  BY <1>2, <1>4 DEF TaskDue, TaskOpen
<1>10. ASSUME NEW n \in Numbers, NEW u \in Uids, Tied(n, u) PROVE Tied(n, u)'
  <2>1. n # o.number
    BY <1>2, <1>5, <1>10, NumbersApart DEF Tied, Nobody
  <2> QED BY <1>2, <1>3, <1>6, <1>10, <2>1, NoOpFields DEF Tied
<1>11. CASE a # o.number /\ b # o.uid
  <2>1. Promise(a, b)'
    BY <1>1, <1>2, <1>3, <1>6, <1>11, NoOpFields, PromiseStays DEF AtWork
  <2>2. \A n \in Numbers, u \in Uids : Together(a, b, n, u) => Together(a, b, n, u)'
    BY <1>10 DEF Together
  <2> QED BY <1>2, <1>8, <1>9, <2>1, <2>2, DueShrinks
<1>12. CASE a = o.number \/ b = o.uid
  <2>1. Promised(a, b)
    BY <1>5, <1>12, NumbersApart DEF Promise
  <2>2. b = o.uid /\ b \in Uids
    BY <1>3, <1>12, <2>1, PromisedApart
  <2>3. Promise(0, 0)'
    BY DEF Promise
  <2>4. ASSUME NEW u \in Uids, TaskDue(u)'
        PROVE  Covered(0, 0, u)' \/ (TaskDue(u) /\ \A n \in Numbers : Together(a, b, n, u) /\ IssueDue(n)' => Together(0, 0, n, u)')
    <3>1. CASE u # b
      BY <1>9, <1>10, <2>4, <3>1 DEF Together
    <3>2. CASE u = b /\ IssueDue(o.number)'
      BY <1>5, <1>7, <2>2, <3>2 DEF Covered, Together
    <3>3. CASE u = b /\ ~IssueDue(o.number)'
      <4>1. Lost(a, b) => a = o.number
        <5>1. ASSUME Lost(a, b) PROVE a = o.number
          <6>1. PICK p \in InWork : p.kind = "adopt" /\ p.number = a /\ p.uid = b
            BY <1>2, <5>1 DEF Lost
          <6>2. p = o
            BY <1>3, <2>2, <6>1, NumbersApart DEF WorkApart, Nobody
          <6> QED BY <6>1, <6>2
        <5> QED BY <5>1
      <4>2. Stale(a, b) => OpenIn(issues, o.number)
        BY <1>3, <2>2 DEF Stale
      <4>3. ~OpenIn(issues, o.number)
        BY <1>2, <3>3 DEF IssueDue
      <4>4. a = o.number
        BY <2>1, <4>1, <4>2, <4>3 DEF Promised
      <4> QED BY <1>9, <1>10, <2>4, <3>3, <4>4 DEF Together
    <3> QED BY <3>1, <3>2, <3>3
  <2> QED BY <1>2, <1>8, <2>3, <2>4, DueShrinks
<1> QED BY <1>11, <1>12

LEMMA NewTaskKeepsDue ==
  ASSUME Steady, Ordinary, NewTask, NEW a, NEW b, Promise(a, b), Fits(a, b)
  PROVE  DueFits'
<1> USE SteadyParts
<1> USE DEF store, github, ties, work, ghosts
<1>1. PICK o \in ops, k \in Unborn(Uids \ Repeating) :
        /\ o.kind = "newtask" /\ Insert(k, Opened(o.item)) /\ StorePair(o.number, k, Opened(o.item))
        /\ op' = NoOp /\ ops' = ops \ {o}
  BY DEF NewTask, Dropped
<1>2. pc = "apply" /\ pc' = "apply" /\ op = NoOp /\ UNCHANGED <<issues, older, link, used, made>>
  BY DEF NewTask, OpTaken, Dropped
<1>3. InWork' = (InWork \ {o}) \cup {NoOp} /\ o \in InWork
  BY <1>1, <1>2 DEF InWork
<1>4. Coming' = Coming
  BY <1>1, <1>2, <1>3, NoOpFields DEF Coming
<1>5. /\ o.number \in Numbers /\ k \in Uids /\ k \notin born /\ pairs[o.number].uid = Nobody /\ link # Nowhere
      /\ \A p \in InWork' : p.number # o.number
  <2>1. o.number \in Numbers /\ pairs[o.number].uid = Nobody
    BY <1>1, <1>3 DEF FreeWork, WorkAbout
  <2>2. \A p \in InWork' : p.number # o.number
    BY <1>1, <1>3, <2>1, NoOpFields, NumbersApart DEF NumbersOnce
  <2>3. link # Nowhere
    BY <1>2, TypeParts DEF LinkedOnce, PassType
  <2>4. k \in Uids /\ k \notin born
    BY UnbornType
  <2> QED BY <2>1, <2>2, <2>3, <2>4
<1>6. \A n \in Numbers : pairs'[n].uid = IF n = o.number THEN k ELSE pairs[n].uid
  BY <1>1, <1>5, TypeParts DEF StorePair, TieType
<1>7. Tied(o.number, k)'
  BY <1>2, <1>5, <1>6 DEF Tied
<1>8. \A n \in Numbers : IssueDue(n)' => IssueDue(n)
  BY <1>2, <1>3, <1>4, IssuesDueStay
<1>9. IssueDue(o.number)
  BY <1>1, <1>3, <1>5 DEF IssueDue, Opening
<1>10. a # o.number /\ b # k
  <2>1. CASE Promised(a, b)
    BY <1>1, <1>3, <1>5, <2>1, PromisedApart
  <2>2. CASE a = 0 /\ b = 0
    BY <1>5, <2>2, NumbersApart
  <2> QED BY <2>1, <2>2 DEF Promise
<1>11. \A u \in Uids \ {k} : tasks'[u] = tasks[u]
  BY <1>1, TypeParts DEF Insert, StoreType
<1>12. Promise(a, b)'
  BY <1>1, <1>2, <1>3, <1>6, <1>10, <1>11, NoOpFields, PromiseStays DEF AtWork
<1>13. \A u \in Uids \ {k} : TaskDue(u)' => TaskDue(u)
  BY <1>2, <1>4, <1>11 DEF TaskDue, TaskOpen
<1>14. ASSUME NEW n \in Numbers, NEW u \in Uids, Together(a, b, n, u) PROVE n # o.number /\ Together(a, b, n, u)'
  <2>1. n # o.number
    BY <1>2, <1>5, <1>10, <1>14, NumbersApart DEF Together, Tied, Nobody
  <2> QED BY <1>2, <1>3, <1>6, <1>14, <2>1, NoOpFields, TiesStay
<1>15. Loose(a, b, o.number, k)
  BY <1>14 DEF Loose
<1>16. ASSUME NEW u \in Uids, TaskDue(u)'
       PROVE  \/ Covered(a, b, u)' \/ (u = k /\ IssueDue(o.number) /\ ~IssueDue(o.number)')
              \/ (TaskDue(u) /\ \A n \in Numbers : Together(a, b, n, u) /\ IssueDue(n)' => Together(a, b, n, u)')
  <2>1. CASE u # k
    BY <1>13, <1>14, <1>16, <2>1
  <2>2. CASE u = k /\ IssueDue(o.number)'
    BY <1>5, <1>7, <2>2 DEF Covered, Together
  <2> QED BY <1>9, <2>1, <2>2
<1>17. Stays(a, b, a, b, o.number, k, {})
  BY <1>2, <1>5, <1>8, <1>15, <1>16 DEF Stays, Counts
<1>18. PICK p, q : p = o.number /\ q = k
  OBVIOUS
<1>19. Stays(a, b, a, b, p, q, {})
  BY <1>17, <1>18
<1> QED BY <1>12, <1>19, DueStays

LEMMA MergeKeepsDue ==
  ASSUME Steady, Ordinary, Merge, NEW a, NEW b, Promise(a, b), Fits(a, b)
  PROVE  DueFits'
<1> USE SteadyParts
<1> USE DEF store, github, ties, work, ghosts
<1>1. PICK o \in ops :
        /\ o.kind = "merge" /\ ops' = ops \ {o}
        /\ \/ op' = NoOp /\ tasks' = tasks /\ pc' = "apply"
           \/ /\ op' = o /\ pc' \in {"call", "answered"}
              /\ tasks' = tasks \/ (Here(o.uid) /\ tasks' = Edited(o.uid, o.task, o.item))
  BY DEF Merge, Dropped, Doing
<1>2. pc = "apply" /\ op = NoOp /\ UNCHANGED <<issues, older, link, pairs, used, made>>
  BY DEF Merge, OpTaken
<1>3. /\ o \in InWork /\ InWork' \subseteq InWork \cup {NoOp} /\ InWork \ {o} \subseteq InWork' \cup {NoOp}
      /\ op' = o => o \in InWork'
  BY <1>1, <1>2 DEF InWork
<1>4. Coming' = Coming
  BY <1>1, <1>2, <1>3, NoOpFields DEF Coming
<1>5. o.number \in Numbers /\ o.uid \in Uids /\ pairs[o.number].uid = o.uid
  BY <1>1, <1>3 DEF LinkedOnce, WorkAbout
<1>6. \A u \in Uids : tasks'[u].list = tasks[u].list /\ (u # o.uid => tasks'[u] = tasks[u])
  <2>1. ASSUME tasks' = Edited(o.uid, o.task, o.item)
        PROVE  \A u \in Uids : tasks'[u].list = tasks[u].list /\ (u # o.uid => tasks'[u] = tasks[u])
    <3>1. \A u \in Uids \ {o.uid} : tasks'[u] = tasks[u]
      BY <2>1, TypeParts DEF StoreType, Edited
    <3>2. \A u \in Uids : tasks'[u].list = tasks[u].list
      BY <2>1, EditedStays
    <3> QED BY <3>1, <3>2
  <2> QED BY <1>1, <2>1
<1>7. b # o.uid
  <2>1. CASE b = 0
    BY <1>5, <2>1, NumbersApart
  <2>2. CASE Promised(a, b)
    BY <1>5, <2>2 DEF Promised
  <2> QED BY <2>1, <2>2 DEF Promise
<1>8. \A p \in InWork : p.kind = "adopt" => p \in InWork'
  BY <1>1, <1>3, NoOpFields
<1>9. Promise(a, b)'
  BY <1>1, <1>2, <1>3, <1>6, <1>7, <1>8, NoOpFields, PromiseStays DEF AtWork
<1>10. \A n \in Numbers : IssueDue(n)' => IssueDue(n)
  BY <1>1, <1>2, <1>3, <1>4, IssuesDueStay
<1>11. \A n \in Numbers, u \in Uids : Together(a, b, n, u) => Together(a, b, n, u)'
  BY <1>2, <1>3, TiesStay
<1>12. ASSUME NEW u \in Uids, TaskDue(u)', ~TaskDue(u) PROVE Covered(a, b, u)'
  <2>1. TaskOpen(u)' /\ ~TaskOpen(u)
    BY <1>4, <1>12 DEF TaskDue
  <2>2. u = o.uid /\ tasks' = Edited(o.uid, o.task, o.item) /\ op' = o
    BY <1>1, <1>2, <1>6, <2>1 DEF TaskOpen
  <2>3. ~tasks[u].item.open /\ tasks'[u].item.open
    BY <1>2, <1>6, <2>1 DEF TaskOpen
  <2>4. "open" \in o.task /\ o.item.open
    BY <1>5, <2>2, <2>3, TypeParts DEF Edited, StoreType, Task, Item
  <2>5. Opening(o) /\ o \in InWork'
    BY <1>1, <1>3, <2>2, <2>4 DEF Opening
  <2>6. IssueDue(o.number)'
    BY <2>5 DEF IssueDue
  <2>7. \A p \in InWork' : p.number = o.number => p = o
    BY <1>3, <1>5, NoOpFields, NumbersApart DEF NumbersOnce
  <2>8. Tied(o.number, u)'
    BY <1>1, <1>2, <1>5, <2>2, <2>7 DEF Tied
  <2> QED BY <1>5, <2>6, <2>8 DEF Covered, Together
<1> QED BY <1>2, <1>9, <1>10, <1>11, <1>12, DueShrinks

LEMMA UpdateKeepsDue ==
  ASSUME Steady, Ordinary, Update, NEW a, NEW b, Promise(a, b), Fits(a, b)
  PROVE  DueFits'
<1> USE SteadyParts
<1> USE DEF store, github, ties, work, ghosts
<1>1. /\ pc = "call" /\ pc' = "answered" /\ op.kind \in {"merge", "close"}
      /\ UNCHANGED <<tasks, link, pairs, used, made, ops, op>>
  BY DEF Update
<1>2. InWork' = InWork /\ Coming' = Coming /\ op \in InWork
  BY <1>1 DEF InWork, Coming
<1>3. \A u \in Uids : TaskDue(u)' => TaskDue(u)
  BY <1>1, <1>2 DEF TaskDue, TaskOpen
<1>4. \A n \in Numbers, u \in Uids : Together(a, b, n, u) => Together(a, b, n, u)'
  BY <1>1, <1>2, TiesStay
<1>5. CASE ~Exists(op.number)
  <2>1. UNCHANGED <<issues, older>>
    BY <1>5 DEF Update
  <2>2. Promise(a, b)'
    BY <1>1, <1>2, <2>1, PromiseStays DEF AtWork
  <2>3. \A n \in Numbers : IssueDue(n)' => IssueDue(n)
    BY <1>1, <1>2, <2>1, IssuesDueStay
  <2> QED BY <1>1, <1>3, <1>4, <2>2, <2>3, DueShrinks
<1>6. CASE Exists(op.number)
  <2>0. PICK k \in Numbers : k = op.number
    BY <1>6 DEF Exists
  <2>1. /\ issues[k].state = "here" /\ issues'[k] = [state |-> "here", item |-> Patched(op)]
        /\ \A m \in Numbers \ {k} : issues'[m] = issues[m]
        /\ older' = issues
    BY <1>6, <2>0, TypeParts DEF Update, Exists, SetIssue, GithubType
  <2>2. OpenIn(issues', k) => OpenIn(issues, k) \/ Opening(op)
    <3>1. Patched(op).open = IF op.kind = "close" THEN FALSE
                             ELSE IF "open" \in op.issue THEN op.item.open ELSE issues[k].item.open
      BY <2>0 DEF Patched
    <3> SUFFICES ASSUME Patched(op).open PROVE OpenIn(issues, k) \/ Opening(op)
      BY <2>1 DEF OpenIn
    <3>2. op.kind = "merge"
      BY <1>1, <3>1
    <3>3. CASE "open" \in op.issue
      BY <3>1, <3>2, <3>3 DEF Opening
    <3>4. CASE "open" \notin op.issue
      BY <2>1, <3>1, <3>2, <3>4 DEF OpenIn
    <3> QED BY <3>3, <3>4
  <2>3. ASSUME NEW n \in Numbers, IssueDue(n)' PROVE IssueDue(n)
    <3>1. CASE OpenIn(issues', n)
      <4>1. CASE n = k
        BY <1>2, <2>0, <2>2, <3>1, <4>1 DEF IssueDue
      <4>2. CASE n # k
        BY <2>1, <3>1, <4>2 DEF OpenIn, IssueDue
      <4> QED BY <4>1, <4>2
    <3>2. CASE OpenIn(older', n)
      BY <2>1, <3>2 DEF OpenIn, IssueDue
    <3>3. CASE \E o \in InWork' : Opening(o) /\ o.number = n
      BY <1>2, <3>3 DEF IssueDue
    <3> QED BY <1>1, <2>3, <3>1, <3>2, <3>3 DEF IssueDue
  <2>4. CASE Promised(a, b) /\ Stale(a, b)
    <3>1. a \in Numbers /\ a # k /\ ~OpenIn(issues, a) /\ \A o \in InWork : o.number # a
      BY <1>2, <2>0, <2>4 DEF Promised, Stale, OpenIn
    <3>2. ~IssueDue(a)'
      BY <1>1, <1>2, <2>1, <3>1 DEF IssueDue, OpenIn
    <3>3. Promise(0, 0)'
      BY DEF Promise
    <3>4. \A n \in Numbers, u \in Uids : Together(a, b, n, u) /\ IssueDue(n)' => Together(0, 0, n, u)'
      BY <1>4, <3>2 DEF Together
    <3> QED BY <1>1, <1>3, <2>3, <3>3, <3>4, DueShrinks
  <2>5. CASE ~(Promised(a, b) /\ Stale(a, b))
    <3>1. ASSUME Promised(a, b) PROVE Promised(a, b)'
      <4>1. Lost(a, b)'
        BY <1>1, <1>2, <2>5, <3>1 DEF Promised, Lost
      <4> QED BY <1>1, <3>1, <4>1 DEF Promised
    <3>2. Promise(a, b)'
      BY <3>1 DEF Promise
    <3> QED BY <1>1, <1>3, <1>4, <2>3, <3>2, DueShrinks
  <2> QED BY <2>4, <2>5
<1> QED BY <1>5, <1>6

\* A task that repeats opens again when it is completed, and may find its issue gone, which
\* the next listing still shows.
LEMMA CompleteTaskKeepsDue ==
  ASSUME Steady, Ordinary, CompleteTask, NEW a, NEW b, Promise(a, b), Fits(a, b)
  PROVE  DueFits'
<1> USE SteadyParts
<1> USE DEF store, github, ties, work, ghosts
<1>1. /\ pc = "answered" /\ pc' = "apply" /\ op.kind = "complete" /\ op' = NoOp
      /\ UNCHANGED <<issues, older, link, used, made, ops>>
      /\ \/ UNCHANGED <<tasks, pairs>>
         \/ /\ ~answer.ok /\ Here(op.uid) /\ tasks' = Edited(op.uid, {"open"}, Blank)
            /\ pairs' = [pairs EXCEPT ![op.number] = NoPair]
  BY DEF CompleteTask, Answered, IssueGone
<1>2. InWork' = (InWork \ {op}) \cup {NoOp} /\ op \in InWork /\ Coming' = Coming
  <2>1. op \notin ops
    BY DEF OpTaken
  <2>2. InWork' = (InWork \ {op}) \cup {NoOp} /\ op \in InWork
    BY <1>1, <2>1 DEF InWork
  <2>3. Coming' = Coming
    BY <1>1, <2>2, NoOpFields DEF Coming
  <2> QED BY <2>2, <2>3
<1>3. \A p \in InWork : p.kind = "adopt" => p \in InWork'
  BY <1>1, <1>2
<1>4. \A n \in Numbers : IssueDue(n)' => IssueDue(n)
  BY <1>1, <1>2, IssuesDueStay
<1>5. CASE UNCHANGED <<tasks, pairs>>
  <2>1. Promise(a, b)'
    BY <1>1, <1>2, <1>3, <1>5, NoOpFields, PromiseStays DEF AtWork
  <2>2. \A u \in Uids : TaskDue(u)' => TaskDue(u)
    BY <1>1, <1>2, <1>5 DEF TaskDue, TaskOpen
  <2>3. \A n \in Numbers, u \in Uids : Together(a, b, n, u) => Together(a, b, n, u)'
    BY <1>1, <1>2, <1>5, TiesStay
  <2> QED BY <1>1, <1>4, <2>1, <2>2, <2>3, DueShrinks
<1>6. CASE /\ ~answer.ok /\ Here(op.uid) /\ tasks' = Edited(op.uid, {"open"}, Blank)
           /\ pairs' = [pairs EXCEPT ![op.number] = NoPair]
  <2>1. op.number \in Numbers /\ op.uid \in Uids /\ pairs[op.number].uid = op.uid /\ tasks[op.uid].list = link /\ link # Nowhere
    <3>1. op.uid \in Uids /\ tasks[op.uid].list = list
      BY <1>6 DEF Here, InList
    <3>2. list = link /\ list # Nowhere
      BY <1>1, TypeParts DEF LinkedOnce, PassType
    <3>3. op.number \in Numbers /\ pairs[op.number].uid = op.uid
      BY <1>1, <1>2 DEF LinkedOnce, WorkMade
    <3> QED BY <3>1, <3>2, <3>3
  <2>0. PICK n, u : n = op.number /\ u = op.uid
    OBVIOUS
  <2>2. n \in Numbers /\ u \in Uids /\ pairs[n].uid = u /\ tasks[u].list = link /\ link # Nowhere
    BY <2>0, <2>1
  <2>3. issues[n].state = "gone"
    BY <1>1, <1>6, <2>0 DEF GoneSeen
  <2>4. \A p \in InWork' : p.number # n /\ p.uid # u
    BY <1>2, <2>0, <2>2, NoOpFields, NumbersApart DEF NumbersOnce, WorkApart, Nobody
  <2>5. /\ \A v \in Uids : tasks'[v].list = tasks[v].list /\ (v # u => tasks'[v] = tasks[v])
        /\ tasks'[u].item.title = tasks[u].item.title /\ (tasks'[u].item.open => tasks[u].item.open)
    <3>1. tasks' = [tasks EXCEPT ![u].item = [title |-> @.title, notes |-> @.notes,
                                              open |-> Blank.open \/ (u \in Repeating /\ @.open)]]
      BY <1>6, <2>0 DEF Edited
    <3>2. ~Blank.open
      BY DEF Blank
    <3> QED BY <2>2, <3>1, <3>2, TypeParts DEF StoreType, Task
  <2>6. \A m \in Numbers : pairs'[m].uid = IF m = n THEN Nobody ELSE pairs[m].uid
    BY <1>6, <2>0, TypeParts DEF TieType, NoPair
  <2>7. \A v \in Uids : TaskDue(v)' => TaskDue(v)
    BY <1>1, <1>2, <2>2, <2>5 DEF TaskDue, TaskOpen
  <2>8. \A m \in Numbers \ {n}, v \in Uids : Together(a, b, m, v) => Together(a, b, m, v)'
    BY <1>1, <1>2, <2>6, TiesStay
  <2>9. \A v \in Uids : Tied(n, v) => v = u
    BY <1>1, <2>2 DEF Tied
  <2>10. n # a /\ u # b
    BY <2>2, NumbersApart DEF Promise, Promised, Nobody
  <2>11. CASE ~IssueDue(n)'
    <3>1. Promise(a, b)'
      BY <1>1, <1>2, <1>3, <2>5, <2>6, <2>10, NoOpFields, PromiseStays DEF AtWork
    <3>2. \A m \in Numbers, v \in Uids : Together(a, b, m, v) /\ IssueDue(m)' => Together(a, b, m, v)'
      BY <2>8, <2>11
    <3> QED BY <1>1, <1>4, <2>7, <3>1, <3>2, DueShrinks
  <2>12. CASE IssueDue(n)'
    <3>1. ~OpenIn(issues, n) /\ ~(\E o \in InWork' : Opening(o) /\ o.number = n)
      BY <2>3, <2>4 DEF OpenIn
    <3>2. used.fault = 0 /\ OpenIn(older, n)
      BY <1>1, <2>12, <3>1 DEF IssueDue, OpenIn
    <3>3. older[n].item.title = tasks[u].item.title
      <4>1. PairTitled(n)
        BY <2>2, NumbersApart DEF SameTitles, Paired, Nobody
      <4>2. older[n] \in Versions(n)
        BY <3>2 DEF OpenIn, Versions
      <4> QED BY <2>2, <4>1, <4>2 DEF PairTitled, TitledIssue, TitledTask
    <3>4. Stale(n, u)'
      BY <1>1, <2>3, <2>4, <2>5, <3>2, <3>3 DEF Stale, OpenIn
    <3>5. \A m \in Numbers : pairs'[m].uid # u
      BY <2>2, <2>6, NumbersApart DEF PairsOneToOne, Paired, Nobody
    <3>6. Promised(n, u)'
      BY <1>1, <2>2, <2>5, <2>6, <3>4, <3>5 DEF Promised
    <3>7. a = 0 /\ b = 0
      <4>1. ~Promised(a, b)
        <5>1. ASSUME Promised(a, b) PROVE FALSE
          <6>1. a \in Numbers /\ Stale(a, b)
            BY <3>2, <5>1 DEF Promised, Lost
          <6>2. issues[a] # older[a]
            BY <6>1 DEF Stale, OpenIn
          <6>3. issues[n] # older[n]
            BY <2>3, <3>2 DEF OpenIn
          <6> QED BY <2>2, <2>10, <6>1, <6>2, <6>3 DEF OneOlder
        <5> QED BY <5>1
      <4> QED BY <4>1 DEF Promise
    <3>8. Promise(n, u)'
      BY <3>6 DEF Promise
    <3>9. \A m \in Numbers, v \in Uids : Together(a, b, m, v) => Together(n, u, m, v)'
      BY <2>8, <2>9, <3>7, NumbersApart DEF Together
    <3> QED BY <1>1, <1>4, <2>7, <3>8, <3>9, DueShrinks
  <2> QED BY <2>11, <2>12
<1> QED BY <1>1, <1>5, <1>6

\* The issue that GitHub makes is due in place of the task that asked for it.
LEMMA CreateKeepsDue ==
  ASSUME Steady, Ordinary, Create, NEW a, NEW b, Promise(a, b), Fits(a, b)
  PROVE  DueFits'
<1> USE SteadyParts
<1> USE DEF store, github, ties, work, ghosts
<1>1. PICK k \in NextNumber : SetIssue(k, "here", Opened(op.item)) /\ answer' = [ok |-> TRUE, number |-> k]
  BY DEF Create
<1>2. /\ pc = "call" /\ pc' = "answered" /\ op.kind = "newissue"
      /\ UNCHANGED <<tasks, link, pairs, used, made, ops, op>>
  BY DEF Create
<1>3. k \in Numbers /\ issues[k].state = "none"
  BY DEF NextNumber, Least
<1>4. InWork' = InWork /\ Coming' = Coming \ {op} /\ op \in Coming /\ op \in InWork
  BY <1>2 DEF InWork, Coming
<1>5. PICK w : w = op.uid
  OBVIOUS
<1>6. w \in Uids /\ w # Nobody
  BY <1>2, <1>4, <1>5, NumbersApart DEF WorkAbout, Nobody
<1>7. /\ OpenIn(issues', k) /\ older' = issues /\ \A m \in Numbers \ {k} : issues'[m] = issues[m]
  <2>1. Opened(op.item).open
    BY TypeParts DEF PassType, Operation, Item, Opened
  <2>2. /\ issues'[k].state = "here" /\ issues'[k].item = Opened(op.item) /\ older' = issues
        /\ \A m \in Numbers \ {k} : issues'[m] = issues[m]
    BY <1>1, <1>3, IssueSet
  <2> QED BY <2>1, <2>2 DEF OpenIn
<1>8. Tied(k, w)' /\ IssueDue(k)'
  BY <1>1, <1>2, <1>5, <1>7 DEF Tied, IssueDue
<1>9. b # w
  <2>1. CASE Promised(a, b)
    BY <1>2, <1>4, <1>5, <2>1, PromisedApart
  <2> QED BY <1>6, <2>1, NumbersApart DEF Promise
<1>10. Alone(a, b, w)
  <2>1. TaskDue(w)
    BY <1>4, <1>5 DEF TaskDue
  <2>2. \A n \in Numbers : ~Tied(n, w)
    <3>1. \A n \in Numbers : pairs[n].uid # w
      <4>1. op.number = 0
        BY <1>2, <1>4 DEF WorkNew
      <4> QED BY <1>4, <1>5, <1>6, <4>1, NumbersApart DEF PairsApart
    <3> QED BY <1>2, <3>1 DEF Tied
  <2> QED BY <1>9, <2>1, <2>2 DEF Alone, Covered, Together
<1>11. ASSUME NEW n \in Numbers, IssueDue(n)', n # k PROVE IssueDue(n)
  <2>1. OpenIn(issues', n) => OpenIn(issues, n)
    BY <1>7, <1>11 DEF OpenIn
  <2>2. OpenIn(older', n) => OpenIn(issues, n)
    BY <1>7 DEF OpenIn
  <2> QED BY <1>2, <1>4, <1>11, <2>1, <2>2 DEF IssueDue
<1>12. \A u \in Uids : TaskDue(u)' => TaskDue(u)
  BY <1>2, <1>4 DEF TaskDue, TaskOpen
<1>13. \A n \in Numbers, u \in Uids : Together(a, b, n, u) => Together(a, b, n, u)'
  BY <1>2, <1>4, TiesStay
<1>14. PICK c, d : /\ Promise(c, d)' /\ (\A n \in Numbers, u \in Uids : Together(a, b, n, u) /\ IssueDue(n)' => Together(c, d, n, u)')
  <2>1. CASE Promised(a, b) /\ Stale(a, b)
    <3>1. a \in Numbers /\ a # k /\ ~OpenIn(issues, a) /\ \A o \in InWork : o.number # a
      BY <1>3, <2>1 DEF Promised, Stale, OpenIn
    <3>2. ~IssueDue(a)'
      BY <1>2, <1>4, <1>7, <3>1 DEF IssueDue, OpenIn
    <3>3. Promise(0, 0)'
      BY DEF Promise
    <3>4. \A n \in Numbers, u \in Uids : Together(a, b, n, u) /\ IssueDue(n)' => Together(0, 0, n, u)'
      BY <1>13, <3>2 DEF Together
    <3> QED BY <3>3, <3>4
  <2>2. CASE ~(Promised(a, b) /\ Stale(a, b))
    <3>1. ASSUME Promised(a, b) PROVE Promised(a, b)'
      <4>1. Lost(a, b)'
        BY <1>2, <1>4, <2>2, <3>1 DEF Promised, Lost
      <4> QED BY <1>2, <3>1, <4>1 DEF Promised
    <3>2. Promise(a, b)'
      BY <3>1 DEF Promise
    <3> QED BY <1>13, <3>2
  <2> QED BY <2>1, <2>2
<1>15. ~Alone(c, d, w)'
  BY <1>3, <1>8 DEF Alone, Covered, Together
<1>16. PICK R : R = {<< <<"task", w>>, <<"issue", k>> >>}
  OBVIOUS
<1>17. \A x, y : <<x, y>> \in R <=> x = <<"task", w>> /\ y = <<"issue", k>>
  BY <1>16
<1>18. ASSUME NEW u \in Uids, Alone(c, d, u)', ~Alone(a, b, u)
       PROVE  \E n \in Numbers : IssueDue(n) /\ ~IssueDue(n)' /\ Together(a, b, n, u)
  <2>1. Covered(a, b, u)
    BY <1>12, <1>18 DEF Alone
  <2>2. PICK n \in Numbers : IssueDue(n) /\ Together(a, b, n, u)
    BY <2>1 DEF Covered
  <2>3. ~IssueDue(n)'
    BY <1>14, <1>18, <2>2 DEF Alone, Covered
  <2> QED BY <2>2, <2>3
<1>19. Loose(a, b, 0, 0) /\ Counts({})
  BY <1>2, NumbersApart DEF Loose, Counts
<1>20. Turns(a, b, c, d, 0, 0, {}, R)
  BY <1>6, <1>10, <1>11, <1>15, <1>17, <1>18, <1>19 DEF Turns
<1> QED BY <1>14, <1>20, DueTurns

LEMMA IdleKeepsDue ==
  ASSUME Steady, UNCHANGED vars, NEW a, NEW b, Promise(a, b), Fits(a, b)
  PROVE  DueFits'
<1> USE DEF store, github, ties, work, ghosts
<1>1. UNCHANGED <<tasks, issues, older, link, pairs, pc, listing, ops, op, answer, used, made>>
  BY DEF vars
<1>2. InWork' = InWork /\ Coming' = Coming
  BY <1>1 DEF InWork, Coming
<1>3. Promise(a, b)'
  BY <1>1, <1>2 DEF Promise, Promised, Stale, Lost
<1>4. \A n \in Numbers : IssueDue(n)' => IssueDue(n)
  BY <1>1, <1>2 DEF IssueDue
<1>5. \A u \in Uids : TaskDue(u)' => TaskDue(u)
  BY <1>1, <1>2 DEF TaskDue, TaskOpen
<1>6. \A n \in Numbers, u \in Uids : Together(a, b, n, u) => Together(a, b, n, u)'
  BY <1>1, <1>2 DEF Together, Tied
<1> QED BY <1>1, <1>3, <1>4, <1>5, <1>6, DueShrinks

\* A listing that lags shows no more than was due before it.
LEMMA ReadIssuesKeepsDue ==
  ASSUME Steady, Ordinary, Ordinary', ReadIssues, NEW a, NEW b, Promise(a, b), Fits(a, b)
  PROVE  DueFits'
<1> USE SteadyParts
<1> USE DEF store, github, ties, work, ghosts
<1>1. /\ pc = "idle" /\ pc' = "read" /\ UNCHANGED <<tasks, issues, older, link, pairs, ops, op, answer, made>>
  BY DEF ReadIssues
<1>2. InWork' = InWork /\ Coming' = {} /\ Coming = {} /\ InWork = {NoOp}
  BY <1>1, NoOpFields DEF InWork, Coming, NoWorkYet, OpTaken
<1>3. (listing' = issues /\ used' = used) \/ (listing' = older /\ used.fault = 0 /\ used'.fault = 1)
  <2>1. ASSUME Fault PROVE used'.fault = used.fault + 1
    BY <2>1, TypeParts DEF Fault, BoundType, Bounds
  <2>2. used.fault \in Nat
    BY TypeParts DEF BoundType, Bounds
  <2> QED BY <2>1, <2>2 DEF ReadIssues, Ordinary
<1>4. Promise(a, b)'
  <2>1. ASSUME Promised(a, b) PROVE Promised(a, b)'
    <3>1. CASE Stale(a, b)
      BY <1>1, <1>2, <1>3, <2>1, <3>1 DEF Promised, Stale, Lost
    <3>2. CASE Lost(a, b)
      <4>1. OpenIn(issues, a) /\ issues[a].item.title = tasks[b].item.title /\ used.fault = 1
        BY <1>1, <1>2, <2>1, <3>2, NoOpFields DEF Promised, Lost
      <4>2. Lost(a, b)'
        BY <1>1, <1>3, <4>1 DEF Lost
      <4> QED BY <1>1, <2>1, <4>2 DEF Promised
    <3> QED BY <2>1, <3>1, <3>2 DEF Promised
  <2> QED BY <2>1 DEF Promise
<1>5. \A n \in Numbers : IssueDue(n)' => IssueDue(n)
  BY <1>1, <1>2, <1>3 DEF IssueDue
<1>6. \A u \in Uids : TaskDue(u)' => TaskDue(u)
  BY <1>1, <1>2 DEF TaskDue, TaskOpen
<1>7. \A n \in Numbers, u \in Uids : Together(a, b, n, u) => Together(a, b, n, u)'
  BY <1>1, <1>2 DEF Together, Tied
<1> QED BY <1>1, <1>4, <1>5, <1>6, <1>7, DueShrinks

\* A fault there was none before: the pass is over, or a call less.
LEMMA FaultFirst ==
  ASSUME Steady, Ordinary', Fault
  PROVE  used.fault = 0 /\ used'.fault = 1
<1>1. used'.fault = used.fault + 1 /\ used.fault \in Nat
  BY SteadyParts, TypeParts DEF Fault, BoundType, Bounds
<1> QED BY <1>1 DEF Ordinary

LEMMA RefusedKeepsDue ==
  ASSUME Steady, Ordinary, Ordinary', Refused, NEW a, NEW b, Promise(a, b), Fits(a, b)
  PROVE  DueFits'
<1> USE SteadyParts
<1> USE DEF store, github, ties, work, ghosts
<1>1. /\ pc = "call" /\ pc' = "apply" /\ op' = NoOp /\ UNCHANGED <<tasks, issues, older, link, pairs, ops, made>>
      /\ used.fault = 0 /\ used'.fault = 1
  BY FaultFirst DEF Refused
<1>2. InWork' = ops \cup {NoOp} /\ ops \subseteq InWork /\ Coming' \subseteq Coming
  BY <1>1, NoOpFields DEF InWork, Coming
<1>3. \A n \in Numbers : IssueDue(n)' => IssueDue(n)
  BY <1>1, <1>2, IssuesDueStay
<1>4. \A u \in Uids : TaskDue(u)' => TaskDue(u)
  BY <1>1, <1>2 DEF TaskDue, TaskOpen
<1>5. \A n \in Numbers, u \in Uids : Together(a, b, n, u) => Together(a, b, n, u)'
  BY <1>1, <1>2, TiesStay
<1>6. ASSUME Promised(a, b) PROVE ~IssueDue(a)'
  <2>1. Stale(a, b)
    BY <1>1, <1>6 DEF Promised, Lost
  <2>2. ~OpenIn(issues, a) /\ \A o \in InWork : o.number # a
    BY <2>1 DEF Stale, OpenIn
  <2> QED BY <1>1, <1>2, <2>2, NoOpFields, NumbersApart DEF IssueDue, Opening, OpenIn
<1>7. \A n \in Numbers, u \in Uids : Together(a, b, n, u) /\ IssueDue(n)' => Together(0, 0, n, u)'
  BY <1>5, <1>6, NumbersApart DEF Together, Promise
<1>8. Promise(0, 0)'
  BY DEF Promise
<1> QED BY <1>1, <1>3, <1>4, <1>7, <1>8, DueShrinks

\* A pass that fails leaves what it had planned undone; a call that was lost may have made
\* an issue that no pair knows, which the next pass finds by its title.
LEMMA PassFailsKeepsDue ==
  ASSUME Steady, Ordinary, Ordinary', PassFails, NEW a, NEW b, Promise(a, b), Fits(a, b)
  PROVE  DueFits'
<1> USE SteadyParts
<1> USE DEF store, github, ties, work, ghosts
<1>1. /\ pc # "idle" /\ pc' = "idle" /\ op' = NoOp /\ ops' = {} /\ UNCHANGED <<tasks, issues, older, link, pairs, made>>
      /\ used.fault = 0 /\ used'.fault = 1
  BY FaultFirst DEF PassFails, EndPass
<1>2. InWork' = {NoOp} /\ Coming' = {}
  BY <1>1, NoOpFields DEF InWork, Coming
<1>3. \A n \in Numbers : IssueDue(n)' => OpenIn(issues, n)
  BY <1>1, <1>2, NoOpFields DEF IssueDue, Opening
<1>4. \A n \in Numbers : IssueDue(n)' => IssueDue(n)
  BY <1>3 DEF IssueDue
<1>5. \A u \in Uids : TaskDue(u)' => TaskDue(u) /\ TaskOpen(u)
  BY <1>1, <1>2 DEF TaskDue, TaskOpen
<1>6. ASSUME Promised(a, b) PROVE ~IssueDue(a)'
  <2>1. a \in Numbers /\ Stale(a, b)
    BY <1>1, <1>6 DEF Promised, Lost
  <2>2. ~OpenIn(issues, a)
    BY <2>1 DEF Stale, OpenIn
  <2> QED BY <1>3, <2>1, <2>2
<1>7. \A n \in Numbers, u \in Uids : pairs[n].uid = u => Tied(n, u)'
  BY <1>1, <1>2, NoOpFields DEF Tied
<1>8. \A n \in Numbers, u \in Uids : Together(a, b, n, u) /\ IssueDue(n)' =>
        Tied(n, u)' \/ (pc = "answered" /\ op.kind = "newissue" /\ answer.number = n /\ op.uid = u)
  <2> SUFFICES ASSUME NEW n \in Numbers, NEW u \in Uids, Together(a, b, n, u), IssueDue(n)', ~Tied(n, u)'
               PROVE  pc = "answered" /\ op.kind = "newissue" /\ answer.number = n /\ op.uid = u
    OBVIOUS
  <2>1. n # a
    BY <1>6, NumbersApart DEF Promise
  <2> QED BY <1>7, <2>1 DEF Together, Tied
<1>0. PICK n, u : n = answer.number /\ u = op.uid
  OBVIOUS
<1>9. CASE pc = "answered" /\ op.kind = "newissue" /\ IssueDue(n)' /\ TaskOpen(u)
  <2>1. n = answer.number /\ u = op.uid
    BY <1>0
  <2>2. op \in InWork
    BY DEF InWork
  <2>3. /\ n \in Numbers /\ pairs[n].uid = Nobody /\ u \in Uids /\ u # Nobody
    BY <1>9, <2>1, <2>2, NumbersApart DEF AnswerNew, WorkAbout, Nobody
  <2>4. \A m \in Numbers : pairs[m].uid # u
    BY <1>9, <2>1, <2>2, <2>3, NumbersApart DEF WorkNew, PairsApart
  <2>5. link # Nowhere /\ tasks[u].list = link
    BY <1>9, <2>1, TypeParts DEF LinkedOnce, PassType, TaskOpen
  <2>6. OpenIn(issues, n)
    BY <1>3, <1>9, <2>1, <2>3
  <2>7. issues[n].item.title = tasks[u].item.title
    <3>1. issues[n] \in Versions(n)
      BY <2>6 DEF Versions, OpenIn
    <3>2. TitledIssue(n, op.item.title)
      BY <1>9, <2>1 DEF SameTitles, AnswerTitled
    <3>3. TitledTask(u, op.item.title)
      BY <1>9, <2>1, <2>2 DEF SameTitles, OpTitled
    <3> QED BY <2>5, <3>1, <3>2, <3>3 DEF TitledIssue, TitledTask
  <2>8. Lost(n, u)'
    BY <1>1, <2>6, <2>7 DEF Lost
  <2>9. Promised(n, u)'
    BY <1>1, <2>3, <2>4, <2>5, <2>8 DEF Promised
  <2>10. Promise(n, u)'
    BY <2>9 DEF Promise
  <2>11. \A m \in Numbers, v \in Uids : Together(a, b, m, v) /\ IssueDue(m)' => Together(n, u, m, v)'
    BY <1>8, <2>1 DEF Together
  <2> QED BY <1>1, <1>4, <1>5, <2>10, <2>11, DueShrinks
<1>10. CASE ~(pc = "answered" /\ op.kind = "newissue" /\ IssueDue(n)' /\ TaskOpen(u))
  <2>1. \A m \in Numbers, v \in Uids : TaskDue(v)' /\ Together(a, b, m, v) /\ IssueDue(m)' => Together(0, 0, m, v)'
    BY <1>0, <1>5, <1>8, <1>10 DEF Together
  <2>2. Promise(0, 0)'
    BY DEF Promise
  <2> QED BY <1>1, <1>4, <1>5, <2>1, <2>2, DueShrinks
<1> QED BY <1>9, <1>10

\* So does one that dies between making one of a pair and storing the pair.
LEMMA DiesUnpairedKeepsDue ==
  ASSUME Steady, Ordinary, Ordinary', DiesUnpaired, NEW a, NEW b, Promise(a, b), Fits(a, b)
  PROVE  DueFits'
<1> USE SteadyParts
<1> USE DEF store, github, ties, work, ghosts
<1>1. /\ pc = "apply" /\ pc' = "idle" /\ op' = NoOp /\ ops' = {} /\ UNCHANGED <<issues, older, link, pairs, made>>
      /\ used.fault = 0 /\ used'.fault = 1
  BY FaultFirst DEF DiesUnpaired, EndPass
<1>2. PICK o \in ops, u \in Unborn(Uids \ Repeating) : o.kind = "newtask" /\ Insert(u, Opened(o.item))
  BY DEF DiesUnpaired
<1>3. PICK n : n = o.number
  OBVIOUS
<1>4. InWork' = {NoOp} /\ Coming' = {} /\ o \in InWork
  BY <1>1, NoOpFields DEF InWork, Coming
<1>5. n \in Numbers /\ pairs[n].uid = Nobody /\ IssueDue(n)
  <2>1. n \in Numbers /\ pairs[n].uid = Nobody
    BY <1>2, <1>3, <1>4 DEF WorkAbout, FreeWork
  <2> QED BY <1>2, <1>3, <1>4, <2>1 DEF IssueDue, Opening
<1>6. /\ u \in Uids /\ u \notin born /\ link # Nowhere
      /\ tasks'[u] = [list |-> link, item |-> Opened(o.item)]
      /\ \A v \in Uids \ {u} : tasks'[v] = tasks[v]
  <2>1. u \in Uids /\ u \notin born
    BY UnbornType
  <2>2. link # Nowhere /\ list = link
    BY <1>1, TypeParts DEF LinkedOnce, PassType
  <2> QED BY <1>2, <2>1, <2>2, TypeParts DEF Insert, StoreType
<1>7. \A m \in Numbers : pairs[m].uid # u
  BY <1>6, NumbersApart DEF PairsBorn, Nobody
<1>8. \A m \in Numbers : IssueDue(m)' => OpenIn(issues, m)
  BY <1>1, <1>4, NoOpFields DEF IssueDue, Opening
<1>9. \A m \in Numbers : IssueDue(m)' => IssueDue(m)
  BY <1>8 DEF IssueDue
<1>10. \A v \in Uids \ {u} : TaskDue(v)' => TaskDue(v)
  BY <1>1, <1>4, <1>6 DEF TaskDue, TaskOpen
<1>11. ASSUME Promised(a, b) PROVE ~IssueDue(a)' /\ a # n
  <2>1. a \in Numbers /\ Stale(a, b)
    BY <1>1, <1>11 DEF Promised, Lost
  <2>2. ~OpenIn(issues, a) /\ a # n
    BY <1>3, <1>4, <2>1 DEF Stale, OpenIn
  <2> QED BY <1>8, <2>1, <2>2
<1>12. \A m \in Numbers, v \in Uids : Tied(m, v) => Tied(m, v)'
  BY <1>1, <1>4, NoOpFields DEF Tied
<1>13. a # n
  BY <1>5, <1>11, NumbersApart DEF Promise
<1>14. Loose(a, b, n, u)
  BY <1>1, <1>5, <1>13, NumbersApart DEF Loose, Together, Tied, Nobody
<1>15. \A m \in Numbers, v \in Uids : Together(a, b, m, v) /\ IssueDue(m)' => Tied(m, v)'
  <2> SUFFICES ASSUME NEW m \in Numbers, NEW v \in Uids, Together(a, b, m, v), IssueDue(m)' PROVE Tied(m, v)'
    OBVIOUS
  <2>1. m # a
    BY <1>11, NumbersApart DEF Promise
  <2> QED BY <1>12, <2>1 DEF Together
<1>16. CASE OpenIn(issues, n)
  <2>1. issues[n].item.title = tasks'[u].item.title
    <3>1. issues[n] \in Versions(n)
      BY <1>16 DEF Versions, OpenIn
    <3>2. TitledIssue(n, o.item.title)
      BY <1>2, <1>3, <1>4 DEF SameTitles, OpTitled
    <3>3. Opened(o.item).title = o.item.title
      BY DEF Opened
    <3> QED BY <1>6, <3>1, <3>2, <3>3 DEF TitledIssue
  <2>2. Lost(n, u)'
    BY <1>1, <1>16, <2>1 DEF Lost
  <2>3. Promised(n, u)'
    BY <1>1, <1>5, <1>6, <1>7, <2>2 DEF Promised
  <2>4. Promise(n, u)'
    BY <2>3 DEF Promise
  <2>5. IssueDue(n)'
    BY <1>1, <1>16 DEF IssueDue
  <2>6. Covered(n, u, u)'
    BY <1>5, <2>5 DEF Covered, Together
  <2>7. Stays(a, b, n, u, n, u, {})
    BY <1>1, <1>9, <1>10, <1>14, <1>15, <2>6 DEF Stays, Counts, Together
  <2> QED BY <2>4, <2>7, DueStays
<1>17. CASE ~OpenIn(issues, n)
  <2>1. ~IssueDue(n)'
    BY <1>5, <1>8, <1>17
  <2>2. Promise(0, 0)'
    BY DEF Promise
  <2>3. Stays(a, b, 0, 0, n, u, {})
    BY <1>1, <1>5, <1>9, <1>10, <1>14, <1>15, <2>1 DEF Stays, Counts, Together
  <2> QED BY <2>2, <2>3, DueStays
<1> QED BY <1>16, <1>17

\* A user changes one task, and nothing else.
LEMMA TaskKeepsDue ==
  ASSUME Steady, Ordinary, NEW a, NEW b, Promise(a, b), Fits(a, b), NEW Z, Counts(Z), NEW u \in Uids,
         Calm, UNCHANGED ties, used'.fault = used.fault, \A v \in Uids \ {u} : tasks'[v] = tasks[v],
         TaskOpen(u)' => TaskOpen(u) \/ <<"task", u>> \in Z,
         \/ tasks'[u].list = tasks[u].list /\ tasks'[u].item.title = tasks[u].item.title
         \/ link = Nowhere \/ tasks[u].list # link \/ tasks'[u].list # link
  PROVE  DueFits'
<1> USE SteadyParts
<1>1. UNCHANGED <<issues, older, link, pairs, pc, listing, ops, op, answer>> /\ used'.fault = used.fault
  BY DEF Calm, github, ties, work
<1>2. InWork' = InWork /\ Coming' = Coming
  BY <1>1 DEF InWork, Coming
<1>3. \A n \in Numbers : IssueDue(n)' => IssueDue(n)
  BY <1>1, <1>2 DEF IssueDue
<1>4. \A v \in Uids : TaskDue(v)' => TaskDue(v) \/ <<"task", v>> \in Z
  BY <1>1, <1>2 DEF TaskDue, TaskOpen
<1>5. \A n \in Numbers, v \in Uids : Together(a, b, n, v) => Together(a, b, n, v)'
  BY <1>1, <1>2 DEF Together, Tied
<1>6. Loose(a, b, 0, 0)
  BY NumbersApart DEF Loose
<1>7. CASE (tasks'[u].list = tasks[u].list /\ tasks'[u].item.title = tasks[u].item.title) \/ ~Promised(a, b) \/ b # u
  <2>1. ASSUME Promised(a, b) PROVE Promised(a, b)'
    <3>1. tasks'[b].list = tasks[b].list /\ tasks'[b].item.title = tasks[b].item.title
      BY <1>7, <2>1 DEF Promised
    <3>2. Stale(a, b) => Stale(a, b)'
      BY <1>1, <1>2, <3>1 DEF Stale
    <3>3. Lost(a, b) => Lost(a, b)'
      BY <1>1, <1>2, <3>1 DEF Lost
    <3> QED BY <1>1, <2>1, <3>1, <3>2, <3>3 DEF Promised
  <2>2. Promise(a, b)'
    BY <2>1 DEF Promise
  <2>3. Stays(a, b, a, b, 0, 0, Z)
    BY <1>3, <1>4, <1>5, <1>6 DEF Stays
  <2> QED BY <2>2, <2>3, DueStays
<1>8. CASE Promised(a, b) /\ b = u /\ tasks'[u].list # link
  <2>1. link # Nowhere
    BY <1>8 DEF Promised
  <2>2. ~TaskDue(u)'
    BY <1>1, <1>2, <1>8, <2>1, PromisedApart DEF TaskDue, TaskOpen
  <2>3. \A n \in Numbers, v \in Uids : TaskDue(v)' /\ Together(a, b, n, v) => Together(0, 0, n, v)'
    BY <1>5, <1>8, <2>2 DEF Together
  <2>4. Promise(0, 0)'
    BY DEF Promise
  <2>5. Stays(a, b, 0, 0, 0, 0, Z)
    BY <1>3, <1>4, <1>6, <2>3 DEF Stays
  <2> QED BY <2>4, <2>5, DueStays
<1>9. CASE Promised(a, b) /\ b = u /\ (link = Nowhere \/ tasks[u].list # link)
  BY <1>9 DEF Promised
<1> QED BY <1>7, <1>8, <1>9

LEMMA AddTaskKeepsDue ==
  ASSUME Steady, Ordinary, NEW u \in Unborn(Repeating) \cup Unborn(Uids \ Repeating), NEW l \in Lists, AddTask(u, l),
         NEW a, NEW b, Promise(a, b), Fits(a, b)
  PROVE  DueFits'
<1>1. u \in Uids /\ u \notin born
  BY UidsAssumption, UnbornType
<1>2. PICK item \in Item : SetTask(u, [list |-> l, item |-> item])
  BY DEF AddTask
<1>3. \A v \in Uids \ {u} : tasks'[v] = tasks[v]
  BY <1>1, <1>2, SteadyParts, TypeParts DEF SetTask, StoreType
<1>4. Calm /\ UNCHANGED ties /\ used'.fault = used.fault /\ Counts({<<"task", u>>})
  BY SteadyParts, TypeParts DEF AddTask, Made, Counts, User, BoundType, Bounds
<1>5. PICK Z : Z = {<<"task", u>>}
  OBVIOUS
<1>6. Counts(Z) /\ <<"task", u>> \in Z
  BY <1>4, <1>5
<1>7. link = Nowhere \/ tasks[u].list # link
  BY <1>1, SteadyParts DEF TasksBorn
<1> QED BY <1>1, <1>3, <1>4, <1>6, <1>7, TaskKeepsDue

LEMMA EditTaskKeepsDue ==
  ASSUME Steady, Ordinary, NEW u \in Uids, NEW f \in Fields, EditTask(u, f), f # "title",
         NEW a, NEW b, Promise(a, b), Fits(a, b)
  PROVE  DueFits'
<1>1. PICK item \in Item : /\ \A g \in Fields : item[g] # tasks[u].item[g] <=> g = f
                           /\ SetTask(u, [list |-> tasks[u].list, item |-> item])
                           /\ Made(f = "open" /\ item.open)
  BY DEF EditTask
<1>2. /\ \A v \in Uids \ {u} : tasks'[v] = tasks[v]
      /\ tasks'[u] = [list |-> tasks[u].list, item |-> item]
  BY <1>1, SteadyParts, TypeParts DEF SetTask, StoreType
<1>3. item.title = tasks[u].item.title
  BY <1>1 DEF Fields
<1>4. f # "open" => item.open = tasks[u].item.open
  BY <1>1 DEF Fields
<1>5. Calm /\ UNCHANGED ties /\ used'.fault = used.fault
  BY SteadyParts, TypeParts DEF EditTask, User, BoundType, Bounds
<1>6. tasks'[u].list = tasks[u].list /\ tasks'[u].item.title = tasks[u].item.title
  BY <1>2, <1>3
<1>7. CASE f = "open" /\ item.open
  <2>1. PICK Z : Z = {<<"task", u>>}
    OBVIOUS
  <2>2. Counts(Z) /\ <<"task", u>> \in Z
    BY <1>1, <1>7, <2>1 DEF Made, Counts
  <2> QED BY <1>2, <1>5, <1>6, <2>2, TaskKeepsDue
<1>8. CASE ~(f = "open" /\ item.open)
  <2>1. Counts({})
    BY <1>1, <1>8 DEF Made, Counts
  <2>2. link' = link
    BY <1>5 DEF ties
  <2>3. TaskOpen(u)' => TaskOpen(u)
    BY <1>2, <1>4, <1>8, <2>2 DEF TaskOpen
  <2> QED BY <1>2, <1>5, <1>6, <2>1, <2>3, TaskKeepsDue
<1> QED BY <1>7, <1>8

LEMMA TakeTaskKeepsDue ==
  ASSUME Steady, Ordinary, NEW u \in Uids, NEW l \in Lists \cup {Nowhere}, TakeTask(u, l),
         NEW a, NEW b, Promise(a, b), Fits(a, b)
  PROVE  DueFits'
<1>1. /\ \A v \in Uids \ {u} : tasks'[v] = tasks[v]
      /\ tasks'[u].list = l /\ tasks[u].list # l
  BY SteadyParts, TypeParts DEF TakeTask, SetTask, StoreType
<1>2. Calm /\ UNCHANGED ties /\ used'.fault = used.fault /\ Made(l # Nowhere) /\ link' = link
  BY SteadyParts, TypeParts DEF TakeTask, User, BoundType, Bounds, ties
<1>3. link = Nowhere \/ tasks[u].list # link \/ tasks'[u].list # link
  BY <1>1
<1>4. CASE l = Nowhere
  <2>1. Counts({})
    BY <1>2, <1>4 DEF Made, Counts
  <2>2. ~TaskOpen(u)'
    BY <1>1, <1>4 DEF TaskOpen
  <2> QED BY <1>1, <1>2, <1>3, <2>1, <2>2, TaskKeepsDue
<1>5. CASE l # Nowhere
  <2>1. PICK Z : Z = {<<"task", u>>}
    OBVIOUS
  <2>2. Counts(Z) /\ <<"task", u>> \in Z
    BY <1>2, <1>5, <2>1 DEF Made, Counts
  <2> QED BY <1>1, <1>2, <1>3, <2>2, TaskKeepsDue
<1> QED BY <1>4, <1>5

\* The list is linked once: while there is no link, nothing is promised and no pass goes on.
LEMMA LinksKeepDue ==
  ASSUME Steady, Ordinary, Ordinary', (\E l \in Lists : Link(l)) \/ Unlink,
         NEW a, NEW b, Promise(a, b), Fits(a, b)
  PROVE  DueFits'
<1> USE SteadyParts
<1>1. used'.link = used.link + 1 /\ used'.fault = used.fault /\ used.link \in Nat
  BY TypeParts DEF Link, Unlink, Links, BoundType, Bounds
<1>2. used.link = 0
  BY <1>1 DEF Ordinary
<1>3. link = Nowhere
  BY <1>2 DEF LinkedOnce
<1>4. PICK l \in Lists : Link(l)
  BY <1>3 DEF Unlink
<1>5. UNCHANGED <<tasks, issues, older, pairs, pc, listing, ops, op, answer, made>>
  BY <1>4 DEF Link, Calm, store, github, work
<1>6. InWork' = InWork /\ Coming' = Coming
  BY <1>5 DEF InWork, Coming
<1>7. Promise(a, b)'
  BY <1>3 DEF Promise, Promised
<1>8. \A n \in Numbers : IssueDue(n)' => IssueDue(n)
  BY <1>1, <1>5, <1>6 DEF IssueDue
<1>9. \A u \in Uids : TaskDue(u)' => TaskDue(u)
  <2>1. link' # Nowhere
    BY <1>4, NowhereAssumption DEF Link, Nowhere
  <2> QED BY <1>3, <1>5, <1>6, <2>1 DEF TaskDue, TaskOpen
<1>10. \A n \in Numbers, u \in Uids : Together(a, b, n, u) => Together(a, b, n, u)'
  BY <1>5, <1>6 DEF Together, Tied
<1> QED BY <1>5, <1>7, <1>8, <1>9, <1>10, DueShrinks

\* Somebody changes one issue.
LEMMA IssueKeepsDue ==
  ASSUME Steady, Ordinary, NEW a, NEW b, Promise(a, b), Fits(a, b), NEW Z, Counts(Z), NEW k \in Numbers,
         NEW state, NEW item, SetIssue(k, state, item), Away, used'.fault = used.fault, issues[k].state # "gone",
         OpenIn(issues', k) => OpenIn(issues, k) \/ <<"issue", k>> \in Z,
         OpenIn(issues, k) /\ OpenIn(issues', k) => issues'[k].item.title = issues[k].item.title
  PROVE  DueFits'
<1> USE SteadyParts
<1>1. UNCHANGED <<tasks, link, pairs, pc, listing, ops, op, answer>> /\ used'.fault = used.fault
  BY DEF Away, store, ties, work
<1>2. InWork' = InWork /\ Coming' = Coming
  BY <1>1 DEF InWork, Coming
<1>3. older' = issues /\ \A m \in Numbers \ {k} : issues'[m] = issues[m]
  BY IssueSet
<1>4. ASSUME NEW n \in Numbers, IssueDue(n)' PROVE IssueDue(n) \/ <<"issue", n>> \in Z
  <2>1. OpenIn(issues', n) => OpenIn(issues, n) \/ <<"issue", n>> \in Z
    BY <1>3 DEF OpenIn
  <2>2. OpenIn(older', n) => OpenIn(issues, n)
    BY <1>3 DEF OpenIn
  <2> QED BY <1>1, <1>2, <1>4, <2>1, <2>2 DEF IssueDue
<1>5. \A u \in Uids : TaskDue(u)' => TaskDue(u)
  BY <1>1, <1>2 DEF TaskDue, TaskOpen
<1>6. \A n \in Numbers, u \in Uids : Together(a, b, n, u) => Together(a, b, n, u)'
  BY <1>1, <1>2 DEF Together, Tied
<1>7. Loose(a, b, 0, 0)
  BY NumbersApart DEF Loose
<1>8. ASSUME Promised(a, b), ~Promised(a, b)' PROVE ~IssueDue(a)'
  <2>1. CASE Stale(a, b)
    <3>1. a \in Numbers /\ a # k /\ ~OpenIn(issues, a) /\ \A o \in InWork : o.number # a
      BY <1>8, <2>1 DEF Promised, Stale, OpenIn
    <3>2. pc = "read" => ~OpenIn(listing, a)
      BY <2>1 DEF Stale, OpenIn
    <3> QED BY <1>1, <1>2, <1>3, <3>1, <3>2 DEF IssueDue, OpenIn
  <2>2. CASE Lost(a, b)
    <3>1. ~Lost(a, b)' /\ used.fault = 1 /\ a \in Numbers /\ a # 0
      BY <1>1, <1>8, <2>2, NumbersApart DEF Promised, Lost
    <3>2. pc = "idle" /\ OpenIn(issues, a) /\ issues[a].item.title = tasks[b].item.title
      BY <1>1, <1>2, <2>2, <3>1 DEF Lost
    <3>3. ~OpenIn(issues', a)
      BY <1>1, <1>3, <3>1, <3>2 DEF Lost, OpenIn
    <3>4. InWork = {NoOp}
      BY <3>2 DEF OpTaken, NoWorkYet, InWork
    <3> QED BY <1>1, <1>2, <3>1, <3>2, <3>3, <3>4, NoOpFields DEF IssueDue
  <2> QED BY <1>8, <2>1, <2>2 DEF Promised
<1>9. CASE ~Promised(a, b) \/ Promised(a, b)'
  <2>1. Promise(a, b)'
    BY <1>9 DEF Promise
  <2>2. Stays(a, b, a, b, 0, 0, Z)
    BY <1>4, <1>5, <1>6, <1>7 DEF Stays
  <2> QED BY <2>1, <2>2, DueStays
<1>10. CASE Promised(a, b) /\ ~Promised(a, b)'
  <2>1. Promise(0, 0)'
    BY DEF Promise
  <2>2. \A n \in Numbers, u \in Uids : Together(a, b, n, u) /\ IssueDue(n)' => Together(0, 0, n, u)'
    BY <1>6, <1>8, <1>10 DEF Together
  <2>3. Stays(a, b, 0, 0, 0, 0, Z)
    BY <1>4, <1>5, <1>7, <2>2 DEF Stays
  <2> QED BY <2>1, <2>3, DueStays
<1> QED BY <1>9, <1>10

LEMMA GithubKeepsDue ==
  ASSUME Steady, Ordinary, GithubStep, \A n \in Numbers, f \in Fields : GithubEdits(n, f) => f # "title",
         NEW a, NEW b, Promise(a, b), Fits(a, b)
  PROVE  DueFits'
<1> USE SteadyParts
<1>1. used'.fault = used.fault
  BY TypeParts DEF GithubStep, GithubOpens, GithubEdits, GithubDeletes, Github, BoundType, Bounds
<1>2. CASE GithubOpens
  <2>1. PICK k \in NextNumber, item \in Item : item.open /\ SetIssue(k, "here", item)
    BY <1>2 DEF GithubOpens
  <2>2. k \in Numbers /\ issues[k].state = "none"
    BY DEF NextNumber, Least
  <2>3. PICK Z : Z = {<<"issue", k>>}
    OBVIOUS
  <2>4. Counts(Z) /\ <<"issue", k>> \in Z /\ Away /\ ~OpenIn(issues, k)
    BY <1>2, <2>2, <2>3 DEF GithubOpens, Made, Counts, OpenIn
  <2> QED BY <1>1, <2>1, <2>2, <2>4, IssueKeepsDue
<1>3. ASSUME NEW k \in Numbers, GithubDeletes(k) PROVE DueFits'
  <2>1. SetIssue(k, "gone", Blank) /\ Away /\ issues[k].state = "here" /\ Counts({})
    BY <1>3 DEF GithubDeletes, Counts, Exists
  <2>2. ~OpenIn(issues', k)
    BY <2>1, IssueSet DEF OpenIn
  <2> QED BY <1>1, <2>1, <2>2, IssueKeepsDue
<1>4. ASSUME NEW k \in Numbers, NEW f \in Fields, GithubEdits(k, f) PROVE DueFits'
  <2>1. PICK item \in Item : /\ \A g \in Fields : item[g] # issues[k].item[g] <=> g = f
                             /\ SetIssue(k, "here", item) /\ Made(f = "open" /\ item.open)
    BY <1>4 DEF GithubEdits
  <2>2. issues[k].state = "here" /\ Away /\ f # "title" /\ issues'[k].item = item
    BY <1>4, <2>1, IssueSet DEF GithubEdits, Exists
  <2>3. item.title = issues[k].item.title /\ (f # "open" => item.open = issues[k].item.open)
    BY <2>1, <2>2 DEF Fields
  <2>4. CASE f = "open" /\ item.open
    <3>1. PICK Z : Z = {<<"issue", k>>}
      OBVIOUS
    <3>2. Counts(Z) /\ <<"issue", k>> \in Z
      BY <2>1, <2>4, <3>1 DEF Made, Counts
    <3> QED BY <1>1, <2>1, <2>2, <2>3, <3>2, IssueKeepsDue
  <2>5. CASE ~(f = "open" /\ item.open)
    <3>1. Counts({})
      BY <2>1, <2>5 DEF Made, Counts
    <3>2. OpenIn(issues', k) => OpenIn(issues, k)
      BY <2>2, <2>3, <2>5 DEF OpenIn
    <3> QED BY <1>1, <2>1, <2>2, <2>3, <3>1, <3>2, IssueKeepsDue
  <2> QED BY <2>4, <2>5
<1> QED BY <1>2, <1>3, <1>4 DEF GithubStep

\* A plan, as one that is made of a matching.
Planned(ms) == Plan /\ ms \in Matchings /\ ops' = PairOps \cup FreeOps(ms)

\* The plan, by the matching of free tasks to free issues that it is for.
LEMMA PlanIs ==
  ASSUME Steady, Ordinary, NEW ms, Planned(ms)
  PROVE  /\ pc = "read" /\ pc' = "apply" /\ InWork = {NoOp} /\ Coming = {}
         /\ op' = NoOp /\ InWork' = PairOps \cup FreeOps(ms) \cup {NoOp}
         /\ UNCHANGED <<tasks, issues, older, link, pairs, used, made, listing>>
         /\ list = link /\ link # Nowhere
<1> USE SteadyParts
<1>1. /\ pc = "read" /\ pc' = "apply" /\ op = NoOp /\ op' = NoOp /\ ops = {} /\ ops' = PairOps \cup FreeOps(ms)
      /\ UNCHANGED <<tasks, issues, older, link, pairs, used, made, listing>>
  BY DEF Planned, Plan, OpTaken, NoWorkYet, store, github, ties, ghosts
<1>2. list = link /\ link # Nowhere
  BY <1>1, TypeParts DEF LinkedOnce, PassType
<1>3. InWork = {NoOp} /\ Coming = {} /\ InWork' = PairOps \cup FreeOps(ms) \cup {NoOp}
  BY <1>1, NoOpFields DEF InWork, Coming
<1> QED BY <1>1, <1>2, <1>3

\* What a plan opens was open on GitHub, or its task is.
LEMMA PlanOpens ==
  ASSUME Steady, Ordinary, NEW ms, Planned(ms), NEW o \in InWork', Opening(o), NEW n, o.number = n
  PROVE  OpenIn(listing, n) \/ (n \in Paired /\ tasks[pairs[n].uid].list = link /\ tasks[pairs[n].uid].item.open)
<1> USE SteadyParts
<1>1. o \in PairOps \/ o \in FreeOps(ms)
  BY PlanIs, NoOpFields DEF Opening
<1>2. CASE o \in FreeOps(ms)
  <2>1. ms \in Matchings
    BY DEF Planned
  <2>2. o.kind = "newtask"
    BY <1>2, <2>1, FreeOpAbout DEF Opening
  <2>3. PICK m \in FreeIssues : o = Op("newtask", m, Nobody, listing[m].item)
    BY <1>2, <2>1, <2>2, FreeOpsKinds, OpFields
  <2>4. m = n
    BY <2>3, OpFields
  <2> QED BY <2>4 DEF FreeIssues, Listed, OpenIn
<1>3. CASE o \in PairOps
  <2>1. o.kind = "merge" /\ o.item.open /\ "open" \in o.task \cup o.issue
    BY <1>3, PairOpAbout DEF Opening
  <2>2. PICK m \in Paired : Listed(m) /\ InList(pairs[m].uid) /\ o = MergeOp(m)
    BY <1>3, <2>1, PairOpsKinds, OpFields
  <2>3. m = n
    BY <2>2, MergeOpType
  <2>4. o.item.open = IF listing[n].item.open # pairs[n].item.open THEN listing[n].item.open ELSE tasks[pairs[n].uid].item.open
    BY <2>2, <2>3 DEF MergeOp, Agreed
  <2>5. listing[n].item.open \/ tasks[pairs[n].uid].item.open
    BY <2>1, <2>4
  <2>6. tasks[pairs[n].uid].list = link
    BY <2>2, <2>3, PlanIs DEF InList
  <2> QED BY <2>2, <2>3, <2>5, <2>6 DEF Listed, OpenIn
<1> QED BY <1>1, <1>2, <1>3

\* A plan makes issues only for tasks that are open.
LEMMA PlanTasks ==
  ASSUME Steady, Ordinary, NEW ms, Planned(ms), NEW u \in Uids
  PROVE  /\ TaskDue(u) <=> TaskOpen(u)
         /\ TaskDue(u)' <=> TaskOpen(u)
<1> USE SteadyParts
<1>1. TaskDue(u) <=> TaskOpen(u)
  BY PlanIs DEF TaskDue
<1>2. TaskOpen(u)' <=> TaskOpen(u)
  BY PlanIs DEF TaskOpen
<1>3. ASSUME NEW o \in Coming', o.uid = u PROVE TaskOpen(u)
  <2>1. ms \in Matchings /\ o \in InWork' /\ o.kind = "newissue"
    BY <1>3 DEF Planned, Coming
  <2>2. o \in FreeOps(ms)
    BY <2>1, PlanIs, PairOpAbout, NoOpFields
  <2>3. u \in FreeTasks
    BY <1>3, <2>1, <2>2, FreeOpAbout, NumbersApart DEF Nobody
  <2> QED BY <2>3, PlanIs DEF FreeTasks, InList, TaskOpen
<1> QED BY <1>1, <1>2, <1>3 DEF TaskDue

\* The plan drops no pair of an open task.
LEMMA PlanTies ==
  ASSUME Steady, Ordinary, NEW ms, Planned(ms), NEW n \in Numbers, NEW u \in Uids, pairs[n].uid = u, TaskOpen(u)
  PROVE  Tied(n, u)'
<1> USE SteadyParts
<1>1. n \in Paired /\ n # 0 /\ tasks[u].list = list /\ tasks[u].item.open
  BY NumbersApart, PlanIs DEF Paired, Nobody, TaskOpen
<1>2. ASSUME NEW o \in InWork', o.number = n PROVE o.kind \notin {"close", "unpair"}
  <2>0. ms \in Matchings
    BY DEF Planned
  <2>1. CASE o \in FreeOps(ms)
    BY <2>0, <2>1, FreeOpAbout
  <2>2. CASE o = NoOp
    BY <2>2, NoOpFields
  <2>3. CASE o \in PairOps
    <3>1. PICK m \in Paired :
             \/ Listed(m) /\ InList(pairs[m].uid) /\ o = MergeOp(m)
             \/ Listed(m) /\ ~InList(pairs[m].uid) /\ listing[m].item.open
                  /\ o = Op("close", m, pairs[m].uid, Blank)
             \/ ~Listed(m) /\ InList(pairs[m].uid) /\ tasks[pairs[m].uid].item.open
                  /\ o = Op("complete", m, pairs[m].uid, Blank)
             \/ /\ IF Listed(m) THEN ~InList(pairs[m].uid) /\ ~listing[m].item.open
                   ELSE ~InList(pairs[m].uid) \/ ~tasks[pairs[m].uid].item.open
                /\ o = Op("unpair", m, pairs[m].uid, Blank)
      BY <2>3, PairOpsKinds
    <3>2. m = n
      BY <1>2, <3>1, MergeOpType, OpFields
    <3>3. InList(pairs[m].uid) /\ tasks[pairs[m].uid].item.open
      BY <1>1, <3>2 DEF InList
    <3> QED BY <3>1, <3>3, MergeOpType, OpFields
  <2> QED BY <2>1, <2>2, <2>3, PlanIs
<1> QED BY <1>2, PlanIs DEF Tied

\* An issue a plan makes due is paired with a task that was due, and stood alone.
LEMMA PlanIssues ==
  ASSUME Steady, Ordinary, NEW ms, Planned(ms), NEW a, NEW b, Promise(a, b), NEW c, NEW d,
         NEW n \in Numbers, IssueDue(n)', ~IssueDue(n)
  PROVE  n \in Paired /\ pairs[n].uid \in Uids /\ \A v : v = pairs[n].uid => Alone(a, b, v) /\ ~Alone(c, d, v)'
<1> USE SteadyParts
<1>1. PICK o \in InWork' : Opening(o) /\ o.number = n
  BY PlanIs DEF IssueDue
<1>2. ~OpenIn(listing, n)
  BY PlanIs DEF IssueDue
<1>3. n \in Paired /\ tasks[pairs[n].uid].list = link /\ tasks[pairs[n].uid].item.open
  BY <1>1, <1>2, PlanOpens
<1>4. PICK w : w = pairs[n].uid
  OBVIOUS
<1>5. w \in Uids
  BY <1>3, <1>4, TypeParts DEF Paired, TieType, Pair
<1>6. TaskOpen(w)
  BY <1>3, <1>4, PlanIs DEF TaskOpen
<1>7. b # w
  BY <1>4, <1>5, NumbersApart DEF Promise, Promised
<1>8. \A m \in Numbers : Together(a, b, m, w) => m = n
  BY <1>3, <1>4, <1>5, <1>7, PlanIs, NumbersApart DEF Together, Tied, PairsOneToOne, Paired, Nobody
<1>9. Alone(a, b, w)
  BY <1>5, <1>6, <1>8, PlanTasks DEF Alone, Covered
<1>10. ~Alone(c, d, w)'
  <2>1. Tied(n, w)'
    BY <1>4, <1>5, <1>6, PlanTies
  <2> QED BY <2>1 DEF Alone, Covered, Together
<1> QED BY <1>3, <1>4, <1>5, <1>9, <1>10

\* A plan turns what is due over, but for the task that was promised.
LEMMA PlanTurns ==
  ASSUME Steady, Ordinary, NEW ms, Planned(ms), NEW a, NEW b, Promise(a, b), Fits(a, b), NEW c, NEW d, Promise(c, d)',
         NEW p, NEW q, Loose(a, b, p, q), NEW t, t \in Uids => \A n \in Numbers : pairs[n].uid # t,
         b \in Uids /\ TaskDue(b)' /\ IssueDue(a)' =>
           \/ Covered(c, d, b)'
           \/ p \in Numbers /\ b = q /\ IssueDue(p) /\ ~IssueDue(p)'
           \/ t \in Uids /\ Alone(a, b, t) /\ ~Alone(c, d, t)'
  PROVE  DueFits'
<1> USE SteadyParts
<1> DEFINE P == {<< <<"task", pairs[n].uid>>, <<"issue", n>> >> : n \in Paired}
           Q == {e \in {<< <<"task", t>>, <<"task", b>> >>} : t \in Uids}
           R == P \cup Q
<1>1. \A n \in Paired : n \in Numbers /\ pairs[n].uid \in Uids
  BY TypeParts DEF Paired, TieType, Pair
<1>2. \A x, y : <<x, y>> \in P <=> \E n \in Paired : x = <<"task", pairs[n].uid>> /\ y = <<"issue", n>>
  OBVIOUS
<1>3. \A x, y : <<x, y>> \in Q <=> t \in Uids /\ x = <<"task", t>> /\ y = <<"task", b>>
  OBVIOUS
<1> HIDE DEF P, Q
<1>4. \A x, y, z : <<x, y>> \in R /\ <<x, z>> \in R => y = z
  <2> SUFFICES ASSUME NEW x, NEW y, NEW z, <<x, y>> \in R, <<x, z>> \in R PROVE y = z
    OBVIOUS
  <2>1. CASE <<x, y>> \in P /\ <<x, z>> \in P
    BY <1>2, <2>1 DEF PairsOneToOne
  <2>2. CASE <<x, y>> \in Q /\ <<x, z>> \in Q
    BY <1>3, <2>2
  <2>3. ASSUME NEW v, <<x, v>> \in P PROVE \A w : <<x, w>> \notin Q
    BY <1>1, <1>2, <1>3, <2>3
  <2> QED BY <2>1, <2>2, <2>3
<1>5. \A x, y : <<x, y>> \in R => \E v \in Uids : x = <<"task", v>>
  BY <1>1, <1>2, <1>3
<1>6. ASSUME NEW n \in Numbers, IssueDue(n)', ~IssueDue(n)
      PROVE  \E v \in Uids : Alone(a, b, v) /\ ~Alone(c, d, v)' /\ << <<"task", v>>, <<"issue", n>> >> \in R
  <2>1. PICK v \in Uids : v = pairs[n].uid
    BY <1>6, PlanIssues
  <2>2. n \in Paired /\ Alone(a, b, v) /\ ~Alone(c, d, v)'
    BY <1>6, <2>1, PlanIssues
  <2> QED BY <1>2, <2>1, <2>2
<1>7. ASSUME NEW u \in Uids, Alone(c, d, u)', ~Alone(a, b, u)
      PROVE  \/ p \in Numbers /\ u = q /\ IssueDue(p) /\ ~IssueDue(p)'
             \/ \E n \in Numbers : IssueDue(n) /\ ~IssueDue(n)' /\ Together(a, b, n, u)
             \/ \E v \in Uids : Alone(a, b, v) /\ ~Alone(c, d, v)' /\ << <<"task", v>>, <<"task", u>> >> \in R
  <2>1. TaskDue(u)' /\ TaskOpen(u) /\ TaskDue(u) /\ ~Covered(c, d, u)'
    BY <1>7, PlanTasks DEF Alone
  <2>2. PICK n \in Numbers : IssueDue(n) /\ Together(a, b, n, u)
    BY <1>7, <2>1 DEF Alone, Covered
  <2>3. CASE ~IssueDue(n)'
    BY <2>2, <2>3
  <2>4. CASE IssueDue(n)' /\ Tied(n, u)
    <3>1. pairs[n].uid = u
      BY <2>4, PlanIs DEF Tied
    <3>2. Tied(n, u)'
      BY <2>1, <3>1, PlanTies
    <3> QED BY <2>1, <2>4, <3>2 DEF Covered, Together
  <2>5. CASE IssueDue(n)' /\ n = a /\ u = b
    <3>1. CASE t \in Uids /\ Alone(a, b, t) /\ ~Alone(c, d, t)'
      BY <1>3, <2>5, <3>1
    <3> QED BY <2>1, <2>5, <3>1
  <2> QED BY <2>2, <2>3, <2>4, <2>5 DEF Together
<1> HIDE DEF R
<1>8. Counts({})
  BY PlanIs DEF Counts
<1>9. Turns(a, b, c, d, p, q, {}, R)
  BY <1>4, <1>5, <1>6, <1>7, <1>8 DEF Turns
<1> QED BY <1>9, DueTurns

\* What a plan does about what has no pair.
LEMMA PlanFree ==
  ASSUME Steady, Ordinary, NEW ms, Planned(ms), NEW o \in InWork'
  PROVE  /\ o.number \in Numbers /\ pairs[o.number].uid = Nobody => o.number \in FreeIssues
         /\ o.uid \in Uids /\ (\A n \in Numbers : pairs[n].uid # o.uid) => o.kind \in {"adopt", "newissue"}
         /\ o.kind = "adopt" => o.number \in FreeIssues
<1> USE SteadyParts
<1>0. ms \in Matchings
  BY DEF Planned
<1>1. CASE o \in PairOps
  <2>1. PICK n \in Paired : o.number = n /\ o.uid = pairs[n].uid
    BY <1>1, PairOpAbout
  <2>2. o.kind # "adopt"
    BY <1>1, PairOpAbout
  <2>3. n \in Numbers /\ pairs[n].uid # Nobody
    BY DEF Paired
  <2> QED BY <2>1, <2>2, <2>3
<1>2. CASE o \in FreeOps(ms)
  BY <1>0, <1>2, FreeOpsKinds, MatchingType, OpFields, NumbersApart DEF Nobody
<1>3. CASE o = NoOp
  BY <1>3, NoOpFields, NumbersApart DEF Nobody
<1> QED BY <1>1, <1>2, <1>3, PlanIs

\* A plan makes nothing due: what it creates for the one side is open on the other, and a
\* promised pair is adopted, or its task with the title by another issue.
LEMMA PlanKeepsDue ==
  ASSUME Steady, Ordinary, Plan, NEW a, NEW b, Promise(a, b), Fits(a, b)
  PROVE  DueFits'
<1> USE SteadyParts
<1>1. PICK ms : Planned(ms)
  BY DEF Plan, Planned
<1>2. /\ pc = "read" /\ pc' = "apply" /\ InWork = {NoOp} /\ Coming = {}
      /\ op' = NoOp /\ InWork' = PairOps \cup FreeOps(ms) \cup {NoOp}
      /\ UNCHANGED <<tasks, issues, older, link, pairs, used, made, listing>>
      /\ list = link /\ link # Nowhere
  BY <1>1, PlanIs
<1>3. Loose(a, b, 0, 0) /\ 0 \notin Uids /\ Promise(0, 0)' /\ 0 \notin Numbers
  BY NumbersApart DEF Loose, Promise
<1>4. CASE a = 0 /\ b = 0
  BY <1>1, <1>3, <1>4, PlanTurns
<1>5. CASE Promised(a, b) /\ ~TaskOpen(b)
  <2>1. b \in Uids
    BY <1>5 DEF Promised
  <2>2. ~TaskDue(b)'
    BY <1>1, <1>5, <2>1, PlanTasks
  <2> QED BY <1>1, <1>3, <2>2, PlanTurns
<1>6. CASE Promised(a, b) /\ Stale(a, b)
  <2>1. /\ a \in Numbers /\ b \in Uids /\ pairs[a].uid = Nobody /\ \A m \in Numbers : pairs[m].uid # b
        /\ used.fault = 0 /\ issues[a].state = "gone" /\ OpenIn(older, a) /\ older[a].item.title = tasks[b].item.title
        /\ listing = issues /\ tasks[b].list = link
    BY <1>2, <1>6 DEF Promised, Stale
  <2>2. \A o \in InWork' : o.number # a
    BY <1>1, <2>1, PlanFree DEF FreeIssues, Listed
  <2>3. \A o \in InWork' : o.uid = b => o.kind \in {"adopt", "newissue"}
    BY <1>1, <2>1, PlanFree
  <2>4. \A o \in InWork' : o.kind = "adopt" => OpenIn(issues, o.number)
    BY <1>1, <2>1, PlanFree DEF FreeIssues, Listed, OpenIn
  <2>5. CASE \E o \in InWork' : o.uid = b /\ o.kind = "newissue"
    <3>1. Coming' # {}
      BY <1>2, <2>5 DEF Coming
    <3>2. ~IssueDue(a)'
      BY <1>2, <2>1, <2>2, <3>1 DEF IssueDue, OpenIn
    <3> QED BY <1>1, <1>3, <3>2, PlanTurns
  <2>6. CASE ~(\E o \in InWork' : o.uid = b /\ o.kind = "newissue")
    <3>1. Stale(a, b)'
      BY <1>2, <2>1, <2>2, <2>3, <2>4, <2>6 DEF Stale
    <3>2. Promised(a, b)'
      BY <1>2, <2>1, <3>1 DEF Promised
    <3>3. Promise(a, b)'
      BY <3>2 DEF Promise
    <3>4. IssueDue(a)' => Covered(a, b, b)'
      BY <2>1 DEF Covered, Together
    <3> QED BY <1>1, <1>3, <3>3, <3>4, PlanTurns
  <2> QED BY <2>5, <2>6
<1>7. CASE Promised(a, b) /\ Lost(a, b) /\ TaskOpen(b)
  <2>1. /\ a \in Numbers /\ b \in Uids /\ pairs[a].uid = Nobody /\ \A m \in Numbers : pairs[m].uid # b
        /\ used.fault = 1 /\ tasks[b].list = link
        /\ OpenIn(listing, a) /\ listing[a].item.title = tasks[b].item.title
    BY <1>2, <1>7, NoOpFields DEF Promised, Lost
  <2>2. ms \in Matchings /\ a \in FreeIssues /\ b \in FreeTasks
    BY <1>1, <1>2, <1>7, <2>1 DEF Planned, FreeIssues, FreeTasks, Listed, InList, OpenIn, Paired, TaskOpen
  <2>3. <<a, b>> \in Alike
    BY <2>1, <2>2 DEF Alike
  <2>4. ASSUME NEW m \in ms
        PROVE  /\ m[1] \in Numbers /\ pairs[m[1]].uid = Nobody /\ OpenIn(listing, m[1])
               /\ m[2] \in Uids /\ (\A n \in Numbers : pairs[n].uid # m[2]) /\ tasks[m[2]].list = link
               /\ tasks[m[2]].item.open
               /\ Lost(m[1], m[2])'
    <3>1. m[1] \in FreeIssues /\ m[2] \in FreeTasks
      BY <2>2, <2>4, MatchingType
    <3>2. Op("adopt", m[1], m[2], listing[m[1]].item) \in InWork'
      BY <1>2, <2>4 DEF FreeOps
    <3>3. Lost(m[1], m[2])'
      BY <1>2, <2>1, <3>2, OpFields DEF Lost
    <3> QED BY <1>2, <3>1, <3>3 DEF FreeIssues, FreeTasks, Listed, OpenIn, Paired, InList
  <2>5. CASE Taken(ms, 2, b)
    <3>1. PICK m \in ms : m[2] = b
      BY <2>5 DEF Taken
    <3>2. PICK n : n = m[1]
      OBVIOUS
    <3>3. n \in Numbers /\ pairs[n].uid = Nobody /\ OpenIn(listing, n) /\ Lost(n, b)'
      BY <2>4, <3>1, <3>2
    <3>4. Promised(n, b)'
      BY <1>2, <2>1, <3>3 DEF Promised
    <3>5. Promise(n, b)'
      BY <3>4 DEF Promise
    <3>6. Loose(a, b, n, b)
      BY <1>2, <3>3, NumbersApart DEF Loose, Together, Tied, Nobody
    <3>7. IssueDue(n)
      BY <1>2, <3>3 DEF IssueDue
    <3>8. IssueDue(n)' => Covered(n, b, b)'
      BY <3>3 DEF Covered, Together
    <3> QED BY <1>1, <1>3, <3>3, <3>5, <3>6, <3>7, <3>8, PlanTurns
  <2>6. CASE ~Taken(ms, 2, b)
    <3>1. PICK m \in ms : m[1] = a
      BY <2>2, <2>3, <2>6 DEF Matchings, Taken
    <3>2. PICK t : t = m[2]
      OBVIOUS
    <3>3. t \in Uids /\ (\A n \in Numbers : pairs[n].uid # t) /\ tasks[t].list = link /\ tasks[t].item.open /\ Lost(a, t)'
      BY <2>4, <3>1, <3>2
    <3>4. t # b
      BY <2>6, <3>2 DEF Taken
    <3>5. Promised(a, t)'
      BY <1>2, <2>1, <3>3 DEF Promised
    <3>6. Promise(a, t)'
      BY <3>5 DEF Promise
    <3>7. Alone(a, b, t)
      <4>1. TaskDue(t)
        BY <1>2, <3>3 DEF TaskDue, TaskOpen
      <4> QED BY <1>2, <3>3, <3>4, <4>1 DEF Alone, Covered, Together, Tied
    <3>8. IssueDue(a)' => ~Alone(a, t, t)'
      BY <2>1 DEF Alone, Covered, Together
    <3> QED BY <1>1, <1>3, <3>3, <3>6, <3>7, <3>8, PlanTurns
  <2> QED BY <2>5, <2>6
<1> QED BY <1>4, <1>5, <1>6, <1>7 DEF Promise, Promised

\* Every step leaves no more due than people made.
LEMMA DueKept ==
  ASSUME Steady, DueInvariant, [Next]_vars
  PROVE  DueInvariant'
<1> SUFFICES ASSUME Ordinary' PROVE DueFits'
  BY DEF DueInvariant
<1>1. Ordinary
  BY OrdinaryBefore
<1>2. PICK a, b : Promise(a, b) /\ Fits(a, b)
  BY <1>1 DEF DueInvariant, DueFits
<1>3. /\ \A u \in Uids, f \in Fields : EditTask(u, f) => f # "title"
      /\ \A n \in Numbers, f \in Fields : GithubEdits(n, f) => f # "title"
  BY RetitledStays DEF Ordinary
<1>4. CASE UNCHANGED vars \/ NotLinked
  BY <1>2, <1>4, IdleKeepsDue DEF NotLinked
<1>5. CASE PassStep /\ ~NotLinked
  <2>1. CASE ReadIssues
    BY <1>1, <1>2, <2>1, ReadIssuesKeepsDue
  <2>2. CASE Plan
    BY <1>1, <1>2, <2>2, PlanKeepsDue
  <2>3. CASE Merge
    BY <1>1, <1>2, <2>3, MergeKeepsDue
  <2>4. CASE Ask
    BY <1>1, <1>2, <2>4, AskKeepsDue
  <2>5. CASE Adopt
    BY <1>1, <1>2, <2>5, AdoptKeepsDue
  <2>6. CASE Unpair
    BY <1>1, <1>2, <2>6, UnpairKeepsDue
  <2>7. CASE NewTask
    BY <1>1, <1>2, <2>7, NewTaskKeepsDue
  <2>8. CASE Update
    BY <1>1, <1>2, <2>8, UpdateKeepsDue
  <2>9. CASE Look
    BY <1>1, <1>2, <2>9, LookKeepsDue
  <2>10. CASE Create
    BY <1>1, <1>2, <2>10, CreateKeepsDue
  <2>11. CASE Remember
    BY <1>1, <1>2, <2>11, RememberKeepsDue
  <2>12. CASE Closed
    BY <1>1, <1>2, <2>12, ClosedKeepsDue
  <2>13. CASE CompleteTask
    BY <1>1, <1>2, <2>13, CompleteTaskKeepsDue
  <2>14. CASE PassDone
    BY <1>1, <1>2, <2>14, PassDoneKeepsDue
  <2> QED BY <1>5, <2>1, <2>2, <2>3, <2>4, <2>5, <2>6, <2>7, <2>8, <2>9, <2>10, <2>11, <2>12, <2>13, <2>14 DEF PassStep
<1>6. CASE UserStep
  <2>1. ASSUME NEW u \in Unborn(Repeating) \cup Unborn(Uids \ Repeating), NEW l \in Lists, AddTask(u, l) PROVE DueFits'
    BY <1>1, <1>2, <2>1, AddTaskKeepsDue
  <2>2. ASSUME NEW u \in Uids, NEW f \in Fields, EditTask(u, f) PROVE DueFits'
    BY <1>1, <1>2, <1>3, <2>2, EditTaskKeepsDue
  <2>3. ASSUME NEW u \in Uids, NEW l \in Lists \cup {Nowhere}, TakeTask(u, l) PROVE DueFits'
    BY <1>1, <1>2, <2>3, TakeTaskKeepsDue
  <2>4. CASE (\E l \in Lists : Link(l)) \/ Unlink
    BY <1>1, <1>2, <2>4, LinksKeepDue
  <2> QED BY <1>6, <2>1, <2>2, <2>3, <2>4 DEF UserStep
<1>7. CASE GithubStep
  BY <1>1, <1>2, <1>3, <1>7, GithubKeepsDue
<1>8. CASE FaultStep
  <2>1. CASE PassFails
    BY <1>1, <1>2, <2>1, PassFailsKeepsDue
  <2>2. CASE Refused
    BY <1>1, <1>2, <2>2, RefusedKeepsDue
  <2>3. CASE DiesUnpaired
    BY <1>1, <1>2, <2>3, DiesUnpairedKeepsDue
  <2> QED BY <1>8, <2>1, <2>2, <2>3 DEF FaultStep
<1> QED BY <1>4, <1>5, <1>6, <1>7, <1>8 DEF Next

\* At first nothing is due.
LEMMA DueBegins == Init => DueInvariant
<1> SUFFICES ASSUME Init PROVE DueFits
  BY DEF DueInvariant
<1>1. /\ InWork = {NoOp} /\ pc = "idle" /\ issues = NoListing /\ older = NoListing /\ made = 0
      /\ \A u \in Uids : tasks[u].list = Nowhere
  BY DEF Init, InWork, NoTask
<1>2. Coming = {}
  BY <1>1, NoOpFields DEF Coming
<1>3. \A n \in Numbers : ~IssueDue(n)
  BY <1>1, NoOpFields DEF IssueDue, OpenIn, Opening, NoListing, NoIssue
<1>4. \A u \in Uids : ~TaskDue(u)
  BY <1>1, <1>2 DEF TaskDue, TaskOpen
<1>5. Due(0, 0) = {}
  BY <1>3, <1>4 DEF Due, Alone
<1>6. Promise(0, 0) /\ Fits(0, 0)
  BY <1>1, <1>5, FS_EmptySet DEF Promise, Fits
<1> QED BY <1>6 DEF DueFits

\* What is open is due, and counted once.
LEMMA DueCounts ==
  ASSUME Steady, DueInvariant
  PROVE  NothingTwice
<1> SUFFICES ASSUME Ordinary PROVE Cardinality(OpenIssues) <= made /\ Cardinality(OpenTasks) <= made
  BY DEF NothingTwice, Ordinary
<1>1. PICK a, b : Promise(a, b) /\ Fits(a, b)
  BY DEF DueInvariant, DueFits
<1>2. PICK D : D = Due(a, b)
  OBVIOUS
<1>3. IsFiniteSet(D) /\ Cardinality(D) <= made /\ Cardinality(D) \in Nat /\ made \in Nat
  BY <1>1, <1>2, FS_CardinalityType, SteadyParts, TypeParts DEF Fits, GhostType
<1>4. ASSUME NEW S, NEW f \in Injection(S, D) PROVE Cardinality(S) <= made
  <2>1. IsFiniteSet(S) /\ Cardinality(S) <= Cardinality(D)
    BY <1>3, FS_Injection
  <2>2. Cardinality(S) \in Nat
    BY <2>1, FS_CardinalityType
  <2> QED BY <1>3, <2>1, <2>2
<1>5. Cardinality(OpenIssues) <= made
  <2> DEFINE f == [n \in OpenIssues |-> <<"issue", n>>]
  <2>1. \A n \in OpenIssues : <<"issue", n>> \in D
    BY <1>2, DueMembers DEF OpenIssues, Exists, IssueDue, OpenIn
  <2>2. f \in Injection(OpenIssues, D)
    BY <2>1 DEF Injection, IsInjective
  <2> QED BY <1>4, <2>2
<1>6. Cardinality(OpenTasks) <= made
  <2> DEFINE Cover(u) == CHOOSE n \in Numbers : IssueDue(n) /\ Together(a, b, n, u)
             f == [u \in OpenTasks |-> IF Alone(a, b, u) THEN <<"task", u>> ELSE <<"issue", Cover(u)>>]
  <2>1. \A u \in OpenTasks : u \in Uids /\ TaskDue(u)
    BY DEF OpenTasks, TaskDue, TaskOpen, Nowhere
  <2>2. ASSUME NEW u \in OpenTasks, ~Alone(a, b, u)
        PROVE  Cover(u) \in Numbers /\ IssueDue(Cover(u)) /\ Together(a, b, Cover(u), u)
    BY <2>1, <2>2 DEF Alone, Covered
  <2> HIDE DEF Cover
  <2>3. ASSUME NEW u \in OpenTasks PROVE f[u] \in D
    BY <1>2, <2>1, <2>2, <2>3, DueMembers
  <2>4. ASSUME NEW u \in OpenTasks, NEW v \in OpenTasks, f[u] = f[v] PROVE u = v
    <3>1. CASE Alone(a, b, u) \/ Alone(a, b, v)
      BY <2>4, <3>1
    <3>2. CASE ~Alone(a, b, u) /\ ~Alone(a, b, v)
      <4>1. Cover(u) = Cover(v)
        BY <2>4, <3>2
      <4>2. PICK n \in Numbers : n = Cover(u)
        BY <2>2, <3>2
      <4>3. Together(a, b, n, u) /\ Together(a, b, n, v)
        BY <2>2, <3>2, <4>1, <4>2
      <4> QED BY <1>1, <2>1, <4>3, TogetherOnce
    <3> QED BY <3>1, <3>2
  <2>5. f \in [OpenTasks -> D]
    BY <2>3
  <2> HIDE DEF f
  <2>6. f \in Injection(OpenTasks, D)
    BY <2>4, <2>5 DEF Injection, IsInjective
  <2> QED BY <1>4, <2>6
<1> QED BY <1>5, <1>6

\* Nothing is made twice: there are never more open issues, and never more open tasks in the
\* linked list, than people made, moved in or reopened, whatever passes die or fail between
\* making one and pairing it; but for titles that changed, a link dropped, or a second fault.
THEOREM NothingMadeTwice == Spec => []NothingTwice
<1>1. Init => Steady /\ DueInvariant
  BY TypesBegin, PairsBegin, OverBegins, WorkBegins, LinkBegins, TitleBegins, DueBegins DEF Steady
<1>2. Steady /\ DueInvariant /\ [Next]_vars => (Steady /\ DueInvariant)'
  BY TypesKept, PairsKept, OverKept, WorkKept, LinkKept, TitleKept, DueKept DEF Steady
<1>3. Steady /\ DueInvariant => NothingTwice
  BY DueCounts
<1> QED BY <1>1, <1>2, <1>3, PTL DEF Spec

=============================================================================
