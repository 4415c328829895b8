-------------------------- MODULE DaemonLocksProofs --------------------------
(***************************************************************************)
(* Calls of asstd never all wait for each other, and what is filed under a *)
(* source is not made twice one after the other, however many calls run.   *)
(* The first rests on an order of the locks that every section keeps to.   *)
(***************************************************************************)
EXTENDS DaemonLocks, SequenceTheorems, TLAPS

-----------------------------------------------------------------------------
(* The sections that occur. *)

Occurring ==
  { <<"store">>, <<"config">>, <<"gh_state">>, <<"status">>, <<"remote">>,
    <<"store", "config">>, <<"store", "gh_state">>, <<"remote", "config">> }

\* The order in which locks are taken.
Rank(k) == IF k = "remote" THEN 1 ELSE IF k = "store" THEN 2 ELSE IF k = "status" THEN 3 ELSE 4

LEMMA SectionsOccur ==
  ASSUME NEW op \in Ops
  PROVE  Sections(op) \in Seq(Occurring)
<1>1. Refresh \in Seq(Occurring) /\ Remote \in Seq(Occurring) /\ SetStatus \in Seq(Occurring)
  BY DEF Refresh, Remote, SetStatus, Occurring
<1>2. <<<<"store">>, <<"store">>, <<"config">>, <<"store", "config">>>> \in Seq(Occurring)
  BY DEF Occurring
<1>3. Add \in Seq(Occurring)
  BY <1>1, <1>2 DEF Add
<1>4. EditTask \in Seq(Occurring) /\ Change \in Seq(Occurring)
  <2>1. <<<<"store", "config">>>> \in Seq(Occurring) /\ <<<<"store">>>> \in Seq(Occurring)
    BY DEF Occurring
  <2> QED BY <1>1, <2>1 DEF EditTask, Change
<1>5. ReadLists \in Seq(Occurring) /\ Links \in Seq(Occurring) /\ PassDone \in Seq(Occurring)
      /\ SetSettings \in Seq(Occurring)
  BY DEF ReadLists, Links, PassDone, SetSettings, Occurring
<1>6. ListCall \in Seq(Occurring)
  <2>1. <<<<"store">>>> \in Seq(Occurring)
        /\ <<<<"store">>, <<"store">>, <<"status">>>> \in Seq(Occurring)
    BY DEF Occurring
  <2>2. <<<<"store">>>> \o Remote \in Seq(Occurring)
    BY <1>1, <2>1
  <2> QED BY <2>1, <2>2 DEF ListCall
<1>7. Sign \in Seq(Occurring)
  <2>1. <<<<"config">>, <<"remote">>, <<"store">>>> \in Seq(Occurring)
    BY DEF Occurring
  <2> QED BY <1>1, <2>1 DEF Sign
<1> QED BY <1>1, <1>3, <1>4, <1>5, <1>6, <1>7 DEF Sections, Ops

\* add looks for its source in the first of six sections.
LEMMA AddSections == Sections("add") = Add /\ Len(Add) = 6
<1> DEFINE first == <<<<"store">>, <<"store">>, <<"config">>, <<"store", "config">>>>
<1>1. Len(first) = 4 /\ first \in Seq(Occurring)
  BY DEF Occurring
<1>2. Len(Refresh) = 2 /\ Refresh \in Seq(Occurring)
  BY DEF Refresh, Occurring
<1>3. Add = first \o Refresh
  BY DEF Add
<1> HIDE DEF first
<1>4. Len(first \o Refresh) = Len(first) + Len(Refresh)
  BY <1>1, <1>2, ConcatProperties
<1>5. Sections("add") = Add
  BY DEF Sections
<1> QED BY <1>1, <1>2, <1>3, <1>4, <1>5

LEMMA LenOfConcat ==
  ASSUME NEW a \in Seq(Occurring), NEW b \in Seq(Occurring)
  PROVE  Len(a \o b) = Len(a) + Len(b)
BY ConcatProperties

LEMMA SectionsNotEmpty ==
  ASSUME NEW op \in Ops
  PROVE  Len(Sections(op)) \in Nat \ {0}
<1>1. /\ Refresh \in Seq(Occurring) /\ Len(Refresh) = 2
      /\ Remote \in Seq(Occurring) /\ Len(Remote) = 1
      /\ SetStatus \in Seq(Occurring) /\ Len(SetStatus) = 3
  BY DEF Refresh, Remote, SetStatus, Occurring
<1>2. CASE op = "edit"
  <2>1. <<<<"store", "config">>>> \in Seq(Occurring) /\ Len(<<<<"store", "config">>>>) = 1
    BY DEF Occurring
  <2>2. Len(EditTask) = 3
    BY <1>1, <2>1, ConcatProperties DEF EditTask
  <2> QED BY <1>2, <2>2 DEF Sections
<1>3. CASE op = "change"
  <2>1. <<<<"store">>>> \in Seq(Occurring) /\ Len(<<<<"store">>>>) = 1
    BY DEF Occurring
  <2>2. Len(Change) = 3
    BY <1>1, <2>1, ConcatProperties DEF Change
  <2> QED BY <1>3, <2>2 DEF Sections
<1>4. CASE op = "list"
  <2> DEFINE rest == <<<<"store">>, <<"store">>, <<"status">>>>
  <2>1. /\ <<<<"store">>>> \in Seq(Occurring) /\ Len(<<<<"store">>>>) = 1
        /\ rest \in Seq(Occurring) /\ Len(rest) = 3
    BY DEF Occurring
  <2>2. <<<<"store">>>> \o Remote \in Seq(Occurring) /\ Len(<<<<"store">>>> \o Remote) = 2
    BY <1>1, <2>1, ConcatProperties
  <2>3. ListCall = (<<<<"store">>>> \o Remote) \o rest
    BY DEF ListCall
  <2> HIDE DEF rest
  <2>4. Len(ListCall) = 2 + 3
    BY <2>1, <2>2, <2>3, LenOfConcat
  <2> QED BY <1>4, <2>4 DEF Sections
<1>5. CASE op = "sign"
  <2> DEFINE first == <<<<"config">>, <<"remote">>, <<"store">>>>
  <2>1. first \in Seq(Occurring) /\ Len(first) = 3
    BY DEF Occurring
  <2>2. Sign = first \o SetStatus
    BY DEF Sign
  <2> HIDE DEF first
  <2>3. Len(Sign) = 3 + 3
    BY <1>1, <2>1, <2>2, LenOfConcat
  <2> QED BY <1>5, <2>3 DEF Sections
<1>6. CASE op = "add"
  BY <1>6, AddSections
<1>7. CASE op \in {"lists", "links", "pass"}
  BY <1>7 DEF Sections, ReadLists, Links, PassDone
<1>8. CASE op \in {"say", "settings"}
  BY <1>8 DEF Sections, SetStatus, SetSettings
<1> QED BY <1>2, <1>3, <1>4, <1>5, <1>6, <1>7, <1>8 DEF Ops

\* A section has one lock or two, and takes them in order.
LEMMA SectionsInOrder ==
  ASSUME NEW s \in Occurring
  PROVE  /\ Len(s) \in {1, 2} /\ s[1] \in Locks
         /\ Len(s) = 2 => s[2] \in Locks /\ Rank(s[1]) < Rank(s[2])
<1>1. CASE Len(s) = 1
  BY <1>1 DEF Occurring, Locks
<1>2. CASE Len(s) # 1
  <2>1. s \in {<<"store", "config">>, <<"store", "gh_state">>, <<"remote", "config">>}
    BY <1>2 DEF Occurring
  <2> QED BY <2>1 DEF Locks, Rank
<1> QED BY <1>1, <1>2

-----------------------------------------------------------------------------
(* Types, and who holds what. *)

\* A call that runs is in one of its sections and holds the first of its locks.
InSections ==
  \A t \in Threads : Running(t) =>
    /\ calls[t].at \in 1..Len(Sections(calls[t].op))
    /\ calls[t].held \in 0..Len(Section(t))

\* A lock has the holder that took it.
HoldersHold ==
  \A k \in Locks : holder[k] # None =>
    \E u \in Threads : /\ holder[k] = u /\ Running(u)
                       /\ \E i \in 1..calls[u].held : Section(u)[i] = k

\* An add that is alone has its source for itself.
Alone ==
  \A t, u \in Threads :
    t # u /\ Adding(t) /\ Adding(u) /\ t \in alone => calls[t].source # calls[u].source

Calls == [op : Ops \cup {None}, source : Sources \cup {None}, at : Nat, held : Nat]

Holding(c) == [c EXCEPT !.held = @ + 1]

AddsHaveSources == \A t \in Threads : Adding(t) => calls[t].source \in Sources

LocksInvariant ==
  TypeOK /\ InSections /\ HoldersHold /\ AddsHaveSources /\ Alone /\ AddedOnceAlone

LEMMA Sectioned ==
  ASSUME TypeOK, InSections, NEW t \in Threads, Running(t)
  PROVE  /\ Section(t) \in Occurring /\ Len(Section(t)) \in {1, 2}
         /\ Wants(t) # None => Wants(t) \in Locks /\ calls[t].held + 1 \in 1..Len(Section(t))
                               /\ Wants(t) = Section(t)[calls[t].held + 1]
<1>1. calls[t].op \in Ops
  BY DEF TypeOK, Running, None
<1>2. Section(t) \in Occurring
  BY <1>1, SectionsOccur DEF InSections, Section
<1>3. Len(Section(t)) \in {1, 2}
  BY <1>2, SectionsInOrder
<1>4. ASSUME Wants(t) # None
      PROVE  /\ Wants(t) = Section(t)[calls[t].held + 1]
             /\ calls[t].held + 1 \in 1..Len(Section(t))
  BY <1>3, <1>4 DEF Wants, InSections
<1>5. \A i \in 1..Len(Section(t)) : Section(t)[i] \in Locks
  BY <1>2, <1>3, SectionsInOrder
<1> QED BY <1>2, <1>3, <1>4, <1>5

-----------------------------------------------------------------------------
(* Each part is kept by every step. *)

LEMMA CallsTyped ==
  /\ TypeOK => /\ calls \in [Threads -> Calls] /\ holder \in [Locks -> Threads \cup {None}]
               /\ tasks \in [Sources -> Nat] /\ made \in Nat /\ alone \subseteq Threads
  /\ NoCall \in Calls
BY DEF TypeOK, Calls, NoCall

LEMMA BeginCalls ==
  ASSUME TypeOK, NEW t \in Threads, NEW op \in Ops, NEW s \in Sources, Begin(t, op, s)
  PROVE  /\ calls' = [calls EXCEPT ![t] = Begun(op, s)] /\ Begun(op, s) \in Calls
         /\ ~Running(t) /\ UNCHANGED <<holder, tasks>> /\ made' = made + 1
         /\ alone' = (alone \ (Same(op, s) \cup {t})) \cup (IF Same(op, s) = {} THEN {t} ELSE {})
         /\ calls'[t].op = op /\ calls'[t].at = 1 /\ calls'[t].held = 0
         /\ (op = "add" => calls'[t].source = s)
<1>1. /\ calls' = [calls EXCEPT ![t] = Begun(op, s)]
      /\ ~Running(t) /\ UNCHANGED <<holder, tasks>> /\ made' = made + 1
      /\ alone' = (alone \ (Same(op, s) \cup {t})) \cup (IF Same(op, s) = {} THEN {t} ELSE {})
  BY DEF Begin
<1>2. /\ Begun(op, s) \in Calls /\ Begun(op, s).op = op /\ Begun(op, s).at = 1 /\ Begun(op, s).held = 0
      /\ (op = "add" => Begun(op, s).source = s)
  BY DEF Begun, Calls
<1>3. calls'[t] = Begun(op, s)
  BY <1>1, CallsTyped
<1> QED BY <1>1, <1>2, <1>3

LEMMA WorkCalls ==
  ASSUME TypeOK, NEW t \in Threads, Work(t)
  PROVE  /\ Running(t) /\ Wants(t) = None /\ made' = made
         /\ \A u \in Threads \ {t} : calls'[u] = calls[u]
         /\ calls'[t] = Onward(t)
         /\ alone' = IF Onward(t) = NoCall THEN alone \ {t} ELSE alone
<1>1. calls' = [calls EXCEPT ![t] = Onward(t)] /\ Running(t) /\ Wants(t) = None /\ made' = made
      /\ alone' = IF Onward(t) = NoCall THEN alone \ {t} ELSE alone
  BY DEF Work
<1>2. calls \in [Threads -> Calls]
  BY DEF TypeOK, Calls
<1> QED BY <1>1, <1>2

\* The next section of the same call, or none.
LEMMA OnwardType ==
  ASSUME TypeOK, NEW t \in Threads
  PROVE  /\ Onward(t) \in Calls
         /\ Onward(t) # NoCall =>
              /\ ~Existed(t) /\ calls[t].at # Len(Sections(calls[t].op))
              /\ Onward(t).op = calls[t].op /\ Onward(t).source = calls[t].source
              /\ Onward(t).at = calls[t].at + 1 /\ Onward(t).held = 0
<1>1. calls[t] \in Calls /\ NoCall \in Calls
  BY DEF TypeOK, Calls, NoCall
<1>2. CASE Existed(t) \/ calls[t].at = Len(Sections(calls[t].op))
  BY <1>1, <1>2 DEF Onward
<1>3. CASE ~(Existed(t) \/ calls[t].at = Len(Sections(calls[t].op)))
  <2>1. Onward(t) = [op |-> calls[t].op, source |-> calls[t].source, at |-> calls[t].at + 1, held |-> 0]
    BY <1>3 DEF Onward
  <2> QED BY <1>1, <1>3, <2>1 DEF Calls
<1> QED BY <1>2, <1>3

LEMMA TakeCalls ==
  ASSUME TypeOK, NEW t \in Threads, Take(t)
  PROVE  /\ Wants(t) # None /\ holder[Wants(t)] = None /\ UNCHANGED <<tasks, made, alone>>
         /\ holder' = [holder EXCEPT ![Wants(t)] = t]
         /\ calls' = [calls EXCEPT ![t] = Holding(calls[t])]
BY DEF Take, Holding

LEMMA HoldingType ==
  ASSUME NEW c \in Calls
  PROVE  /\ Holding(c) \in Calls /\ Holding(c).op = c.op /\ Holding(c).source = c.source
         /\ Holding(c).at = c.at /\ Holding(c).held = c.held + 1
BY DEF Holding, Calls

LEMMA TypesKept ==
  ASSUME TypeOK, NEW t \in Threads,
         Take(t) \/ Work(t) \/ \E op \in Ops, s \in Sources : Begin(t, op, s)
  PROVE  TypeOK'
<1>1. SUFFICES /\ calls' \in [Threads -> Calls] /\ holder' \in [Locks -> Threads \cup {None}]
               /\ tasks' \in [Sources -> Nat] /\ made' \in Nat /\ alone' \subseteq Threads
  BY DEF TypeOK, Calls
<1>2. ASSUME NEW op \in Ops, NEW s \in Sources, Begin(t, op, s)
      PROVE  /\ calls' \in [Threads -> Calls] /\ holder' \in [Locks -> Threads \cup {None}]
             /\ tasks' \in [Sources -> Nat] /\ made' \in Nat /\ alone' \subseteq Threads
  BY <1>2, BeginCalls, CallsTyped
<1>3. CASE Take(t)
  <2>1. calls' \in [Threads -> Calls]
    BY <1>3, TakeCalls, HoldingType, CallsTyped
  <2> QED BY <1>3, <2>1, TakeCalls, CallsTyped
<1>4. CASE Work(t)
  <2>1. calls' \in [Threads -> Calls]
    <3>1. calls' = [calls EXCEPT ![t] = calls'[t]]
      BY <1>4, CallsTyped DEF Work
    <3>2. calls'[t] \in Calls
      BY <1>4, WorkCalls, OnwardType, CallsTyped
    <3> QED BY <3>1, <3>2, CallsTyped
  <2>2. tasks' \in [Sources -> Nat]
    <3>1. tasks' = tasks \/ tasks' = [tasks EXCEPT ![calls[t].source] = @ + 1]
      BY <1>4 DEF Work
    <3> QED BY <3>1, CallsTyped
  <2>3. holder' \in [Locks -> Threads \cup {None}] /\ made' = made
    <3>1. holder' = [k \in Locks |-> IF holder[k] = t THEN None ELSE holder[k]] /\ made' = made
      BY <1>4 DEF Work
    <3> QED BY <3>1, CallsTyped
  <2>4. alone' \subseteq Threads
    BY <1>4, WorkCalls, CallsTyped
  <2> QED BY <2>1, <2>2, <2>3, <2>4, CallsTyped
<1> QED BY <1>2, <1>3, <1>4

\* What a step of one thread leaves of the others.
LEMMA OthersKept ==
  ASSUME TypeOK, NEW t \in Threads, NEW u \in Threads, u # t,
         Take(t) \/ Work(t) \/ \E op \in Ops, s \in Sources : Begin(t, op, s)
  PROVE  /\ calls'[u] = calls[u] /\ Section(u)' = Section(u) /\ (Running(u)' <=> Running(u))
         /\ (Adding(u)' <=> Adding(u)) /\ (u \in alone' => u \in alone)
<1>1. CASE Take(t) \/ Work(t)
  <2>1. calls'[u] = calls[u] /\ (u \in alone' => u \in alone)
    BY <1>1, TakeCalls, WorkCalls, CallsTyped
  <2> QED BY <2>1 DEF Section, Running, Adding
<1>2. ASSUME NEW op \in Ops, NEW s \in Sources, Begin(t, op, s)
      PROVE  calls'[u] = calls[u] /\ (u \in alone' => u \in alone)
  BY <1>2, BeginCalls, CallsTyped
<1> QED BY <1>1, <1>2 DEF Section, Running, Adding

LEMMA SectionsKept ==
  ASSUME TypeOK, InSections, NEW t \in Threads,
         Take(t) \/ Work(t) \/ \E op \in Ops, s \in Sources : Begin(t, op, s)
  PROVE  InSections'
<1> DEFINE Goal(u) == /\ calls'[u].at \in 1..Len(Sections(calls'[u].op))
                    /\ calls'[u].held \in 0..Len(Section(u)')
<1>1. SUFFICES ASSUME NEW u \in Threads, Running(u)'
               PROVE  Goal(u)
  BY DEF InSections
<1>2. CASE u # t
  <2>1. Running(u) /\ calls[u].at \in 1..Len(Sections(calls[u].op)) /\ calls[u].held \in 0..Len(Section(u))
    BY <1>1, <1>2, OthersKept DEF InSections
  <2> QED BY <1>2, <2>1, OthersKept
<1>3. ASSUME u = t, NEW op \in Ops, NEW s \in Sources, Begin(t, op, s)
      PROVE  Goal(u)
  <2>1. calls'[t].op = op /\ calls'[t].at = 1 /\ calls'[t].held = 0
    BY <1>3, BeginCalls
  <2>2. Sections(op) \in Seq(Occurring) /\ Len(Sections(op)) \in Nat \ {0}
    BY SectionsOccur, SectionsNotEmpty
  <2>3. Section(t)' \in Occurring
    BY <2>1, <2>2 DEF Section
  <2> QED BY <1>3, <2>1, <2>2, <2>3, SectionsInOrder
<1>4. CASE u = t /\ Take(t)
  <2>1. Running(t) /\ Wants(t) # None
    BY <1>4, <1>1 DEF Take, Wants
  <2>2. calls'[t].op = calls[t].op /\ calls'[t].at = calls[t].at /\ calls'[t].held = calls[t].held + 1
    BY <1>4, TakeCalls, HoldingType, CallsTyped
  <2>3. Section(t)' = Section(t) /\ calls[t].held + 1 \in 1..Len(Section(t))
    BY <2>1, <2>2, Sectioned DEF Section
  <2> QED BY <1>4, <2>1, <2>2, <2>3 DEF InSections
<1>5. CASE u = t /\ Work(t)
  <2>1. Running(t) /\ calls[t].at \in 1..Len(Sections(calls[t].op)) /\ calls[t].op \in Ops
    BY <1>5 DEF Work, InSections, TypeOK, Running, None
  <2>2. /\ calls[t].at # Len(Sections(calls[t].op))
        /\ calls'[t].op = calls[t].op /\ calls'[t].at = calls[t].at + 1 /\ calls'[t].held = 0
    BY <1>1, <1>5, WorkCalls, OnwardType DEF Running, NoCall
  <2>3. Sections(calls[t].op) \in Seq(Occurring) /\ Len(Sections(calls[t].op)) \in Nat
    BY <2>1, SectionsOccur
  <2>4. Section(t)' \in Occurring
    BY <2>1, <2>2, <2>3 DEF Section
  <2> QED BY <1>5, <2>1, <2>2, <2>3, <2>4, SectionsInOrder
<1> QED BY <1>2, <1>3, <1>4, <1>5

LEMMA HoldersKept ==
  ASSUME TypeOK, InSections, HoldersHold, NEW t \in Threads,
         Take(t) \/ Work(t) \/ \E op \in Ops, s \in Sources : Begin(t, op, s)
  PROVE  HoldersHold'
<1> DEFINE Goal(k) == \E u \in Threads : /\ holder'[k] = u /\ Running(u)'
                                         /\ \E i \in 1..calls'[u].held : Section(u)'[i] = k
<1>1. SUFFICES ASSUME NEW k \in Locks, holder'[k] # None
               PROVE  Goal(k)
  BY DEF HoldersHold
<1>2. ASSUME holder'[k] = holder[k], holder[k] # t
      PROVE  Goal(k)
  BY <1>1, <1>2, OthersKept DEF HoldersHold
<1>3. ASSUME NEW op \in Ops, NEW s \in Sources, Begin(t, op, s)
      PROVE  Goal(k)
  <2>1. holder'[k] = holder[k] /\ ~Running(t)
    BY <1>3 DEF Begin
  <2>2. holder[k] # t
    BY <1>1, <2>1 DEF HoldersHold
  <2> QED BY <1>2, <2>1, <2>2
<1>4. CASE Take(t)
  <2>1. Running(t) /\ Wants(t) # None
    BY <1>4 DEF Take, Wants
  <2>2. /\ Wants(t) \in Locks /\ Wants(t) = Section(t)[calls[t].held + 1]
        /\ calls[t].held + 1 \in 1..Len(Section(t))
    BY <2>1, Sectioned
  <2>3. /\ calls'[t].op = calls[t].op /\ calls'[t].at = calls[t].at
        /\ calls'[t].held = calls[t].held + 1 /\ calls[t].held \in Nat
        /\ Section(t)' = Section(t) /\ Running(t)'
    BY <1>4, <2>1, TakeCalls, HoldingType, CallsTyped DEF Section, Running, Calls
  <2>4. CASE k = Wants(t)
    <3>1. holder'[k] = t
      BY <1>4, <2>4, <2>2, TakeCalls, CallsTyped
    <3>2. calls'[t].held \in 1..calls'[t].held /\ Section(t)'[calls'[t].held] = k
      BY <2>2, <2>3, <2>4
    <3> QED BY <2>3, <3>1, <3>2
  <2>5. CASE k # Wants(t)
    <3>1. holder'[k] = holder[k]
      BY <1>4, <2>5, TakeCalls, CallsTyped
    <3>2. CASE holder[k] = t
      <4>1. PICK i \in 1..calls[t].held : Section(t)[i] = k
        BY <1>1, <3>1, <3>2 DEF HoldersHold
      <4>2. i \in 1..calls'[t].held /\ Section(t)'[i] = k
        BY <2>3, <4>1
      <4> QED BY <2>3, <3>1, <3>2, <4>2
    <3> QED BY <1>2, <3>1, <3>2
  <2> QED BY <2>4, <2>5
<1>5. CASE Work(t)
  <2>1. holder'[k] = holder[k] /\ holder[k] # t
    BY <1>1, <1>5 DEF Work
  <2> QED BY <1>2, <2>1
<1> QED BY <1>3, <1>4, <1>5

LEMMA AloneKept ==
  ASSUME TypeOK, Alone, NEW t \in Threads,
         Take(t) \/ Work(t) \/ \E op \in Ops, s \in Sources : Begin(t, op, s)
  PROVE  Alone'
<1> DEFINE Goal(u, v) == calls'[u].source # calls'[v].source
<1>1. SUFFICES ASSUME NEW u \in Threads, NEW v \in Threads, u # v, Adding(u)', Adding(v)',
                      u \in alone'
               PROVE  Goal(u, v)
  BY DEF Alone
<1>2. CASE u # t /\ v # t
  BY <1>1, <1>2, OthersKept DEF Alone
<1>3. ASSUME NEW op \in Ops, NEW s \in Sources, Begin(t, op, s)
      PROVE  Goal(u, v)
  <2> DEFINE same == Same(op, s)
  <2>1. /\ calls'[t].op = op /\ (op = "add" => calls'[t].source = s)
        /\ (t \in alone' => same = {}) /\ alone' \cap same \subseteq {t}
    BY <1>3, BeginCalls
  <2>2. CASE u = t
    <3>1. op = "add" /\ calls'[v].source = calls[v].source /\ Adding(v)
      BY <1>1, <1>3, <2>1, <2>2, OthersKept DEF Adding
    <3>2. v \notin same
      BY <1>1, <2>1, <2>2
    <3>3. calls[v].source # s
      BY <3>1, <3>2 DEF Same
    <3> QED BY <2>1, <2>2, <3>1, <3>3
  <2>3. CASE v = t
    <3>1. op = "add" /\ calls'[u].source = calls[u].source /\ Adding(u)
      BY <1>1, <1>3, <2>1, <2>3, OthersKept DEF Adding
    <3>2. u \notin same
      BY <1>1, <2>1, <2>3
    <3>3. calls[u].source # s
      BY <3>1, <3>2 DEF Same
    <3> QED BY <2>1, <2>3, <3>1, <3>3
  <2> QED BY <1>2, <2>2, <2>3
<1>4. CASE Take(t) \/ Work(t)
  <2>1. /\ Adding(t)' => Adding(t) /\ calls'[t].source = calls[t].source
                         /\ (t \in alone' => t \in alone)
    BY <1>4, TakeCalls, WorkCalls, OnwardType, HoldingType, CallsTyped DEF Adding, NoCall, None
  <2> QED BY <1>1, <2>1, OthersKept DEF Alone
<1> QED BY <1>3, <1>4

LEMMA SourcesKept ==
  ASSUME TypeOK, AddsHaveSources, NEW t \in Threads,
         Take(t) \/ Work(t) \/ \E op \in Ops, s \in Sources : Begin(t, op, s)
  PROVE  AddsHaveSources'
<1>1. SUFFICES ASSUME NEW u \in Threads, Adding(u)'
               PROVE  calls'[u].source \in Sources
  BY DEF AddsHaveSources
<1>2. CASE u # t
  BY <1>1, <1>2, OthersKept DEF AddsHaveSources
<1>3. ASSUME u = t, NEW op \in Ops, NEW s \in Sources, Begin(t, op, s)
      PROVE  calls'[u].source \in Sources
  BY <1>1, <1>3, BeginCalls DEF Adding
<1>4. CASE u = t /\ (Take(t) \/ Work(t))
  <2>1. Adding(t) /\ calls'[t].source = calls[t].source
    BY <1>1, <1>4, TakeCalls, WorkCalls, OnwardType, HoldingType, CallsTyped DEF Adding, NoCall, None
  <2> QED BY <1>4, <2>1 DEF AddsHaveSources
<1> QED BY <1>2, <1>3, <1>4

LEMMA OnceKept ==
  ASSUME TypeOK, InSections, AddsHaveSources, Alone, AddedOnceAlone, NEW t \in Threads,
         Take(t) \/ Work(t) \/ \E op \in Ops, s \in Sources : Begin(t, op, s)
  PROVE  AddedOnceAlone'
<1> DEFINE Goal(u) == tasks'[calls'[u].source] = 0
<1>1. SUFFICES ASSUME NEW u \in Threads, Adding(u)', u \in alone', calls'[u].at \in 2..4
               PROVE  Goal(u)
  BY DEF AddedOnceAlone
<1>2. ASSUME NEW op \in Ops, NEW s \in Sources, Begin(t, op, s)
      PROVE  Goal(u)
  <2>1. u # t
    BY <1>1, <1>2, BeginCalls
  <2> QED BY <1>1, <1>2, <2>1, OthersKept DEF AddedOnceAlone, Begin
<1>3. CASE Take(t)
  <2>1. /\ Adding(u) /\ u \in alone /\ calls[u].at \in 2..4
        /\ calls'[u].source = calls[u].source /\ tasks' = tasks
    BY <1>1, <1>3, TakeCalls, HoldingType, OthersKept, CallsTyped DEF Adding
  <2> QED BY <2>1 DEF AddedOnceAlone
<1>4. CASE Work(t) /\ u # t
  <2>1. Adding(u) /\ u \in alone /\ calls[u].at \in 2..4 /\ calls'[u].source = calls[u].source
    BY <1>1, <1>4, OthersKept
  <2>2. tasks[calls[u].source] = 0
    BY <2>1 DEF AddedOnceAlone
  <2>3. Makes(t) => calls[t].source # calls[u].source
    BY <1>4, <2>1 DEF Makes, Alone
  <2> QED BY <1>4, <2>1, <2>2, <2>3 DEF Work, TypeOK
<1>5. CASE Work(t) /\ u = t
  <2>1. Running(t) /\ calls'[t] = Onward(t) /\ Onward(t) # NoCall /\ ~Existed(t)
    BY <1>1, <1>5, WorkCalls, OnwardType DEF Adding, NoCall, None
  <2>2. /\ Adding(t) /\ t \in alone /\ calls[t].at \in 1..3 /\ calls'[t].source = calls[t].source
    <3>1. calls'[t].op = calls[t].op /\ calls'[t].at = calls[t].at + 1 /\ calls'[t].source = calls[t].source
      BY <2>1, OnwardType
    <3>2. calls[t].at \in Nat /\ t \in alone
      BY <1>1, <1>5, <2>1, WorkCalls, CallsTyped DEF Calls
    <3> QED BY <1>1, <1>5, <3>1, <3>2 DEF Adding
  <2>3. tasks' = tasks
    BY <1>5, <2>2 DEF Work, Makes
  <2>4. calls[t].source \in Sources
    BY <2>2 DEF AddsHaveSources
  <2>5. CASE calls[t].at = 1
    BY <1>5, <2>1, <2>2, <2>3, <2>4, <2>5 DEF Existed, TypeOK
  <2>6. CASE calls[t].at # 1
    BY <1>5, <2>2, <2>3, <2>6 DEF AddedOnceAlone
  <2> QED BY <2>5, <2>6
<1> QED BY <1>2, <1>3, <1>4, <1>5

-----------------------------------------------------------------------------

LEMMA LocksInit == Init => LocksInvariant
<1>1. SUFFICES ASSUME Init PROVE LocksInvariant
  OBVIOUS
<1>2. \A t \in Threads : calls[t] = NoCall
  BY <1>1 DEF Init
<1>3. \A t \in Threads : ~Running(t) /\ ~Adding(t)
  BY <1>2 DEF NoCall, Running, Adding, None
<1>4. TypeOK
  BY <1>1, CallsTyped DEF Init, TypeOK, Calls
<1>5. HoldersHold
  BY <1>1 DEF Init, HoldersHold
<1> QED BY <1>3, <1>4, <1>5
        DEF LocksInvariant, InSections, AddsHaveSources, Alone, AddedOnceAlone

LEMMA LocksKept == LocksInvariant /\ [Next]_vars => LocksInvariant'
<1>1. ASSUME LocksInvariant, Next PROVE LocksInvariant'
  <2>1. PICK t \in Threads :
          Take(t) \/ Work(t) \/ \E op \in Ops, s \in Sources : Begin(t, op, s)
    BY <1>1 DEF Next
  <2>2. TypeOK' /\ InSections' /\ HoldersHold'
    BY <1>1, <2>1, TypesKept, SectionsKept, HoldersKept DEF LocksInvariant
  <2>3. AddsHaveSources' /\ Alone' /\ AddedOnceAlone'
    BY <1>1, <2>1, SourcesKept, AloneKept, OnceKept DEF LocksInvariant
  <2> QED BY <2>2, <2>3 DEF LocksInvariant
<1>2. ASSUME LocksInvariant, UNCHANGED vars PROVE LocksInvariant'
  BY <1>2 DEF vars, LocksInvariant, TypeOK, InSections, HoldersHold, AddsHaveSources, Alone,
     AddedOnceAlone, Running, Section, Adding
<1> QED BY <1>1, <1>2

\* The inductive invariant holds whichever calls run at once.
THEOREM LocksInvariance == Spec => []LocksInvariant
BY LocksInit, LocksKept, PTL DEF Spec

\* A thread that waits, waits for one that holds that lock and, if it waits too, waits
\* for a lock further on.
LEMMA WaitsFurtherOn ==
  ASSUME LocksInvariant, NEW t \in Threads, Running(t), Waits(t)
  PROVE  \E u \in Threads :
           Running(u) /\ (Waits(u) => Rank(Wants(t)) < Rank(Wants(u)))
<1>1. Wants(t) \in Locks /\ holder[Wants(t)] # None
  BY Sectioned DEF Waits, LocksInvariant
<1>2. PICK u \in Threads : /\ holder[Wants(t)] = u /\ Running(u)
                           /\ \E i \in 1..calls[u].held : Section(u)[i] = Wants(t)
  BY <1>1 DEF LocksInvariant, HoldersHold
<1>3. ASSUME Waits(u) PROVE Rank(Wants(t)) < Rank(Wants(u))
  <2>1. /\ Section(u) \in Occurring /\ Len(Section(u)) \in {1, 2}
        /\ calls[u].held + 1 \in 1..Len(Section(u))
        /\ Wants(u) = Section(u)[calls[u].held + 1]
    BY <1>2, <1>3, Sectioned DEF Waits, LocksInvariant
  <2>2. calls[u].held \in Nat
    BY CallsTyped DEF LocksInvariant, Calls
  <2>3. PICK i \in 1..calls[u].held : Section(u)[i] = Wants(t)
    BY <1>2
  <2>4. i = 1 /\ calls[u].held = 1 /\ Len(Section(u)) = 2
    BY <2>1, <2>2, <2>3
  <2> QED BY <2>1, <2>3, <2>4, SectionsInOrder
<1> QED BY <1>2, <1>3

\* complete, edit, set_settings, the sign-ins and the rest never all wait for each
\* other's locks.
THEOREM NeverAllWait == Spec => []NeverStuck
<1>1. ASSUME LocksInvariant, \A t \in Threads : Running(t) => Waits(t), NEW t \in Threads, Running(t)
      PROVE  FALSE
  <2>1. \A u \in Threads : Running(u) => \E v \in Threads : Running(v) /\ Rank(Wants(u)) < Rank(Wants(v))
    BY <1>1, WaitsFurtherOn
  <2>2. \A k : Rank(k) \in 1..4
    BY DEF Rank
  <2>3. PICK u \in Threads : Running(u) /\ Rank(Wants(t)) < Rank(Wants(u))
    BY <1>1, <2>1
  <2>4. PICK v \in Threads : Running(v) /\ Rank(Wants(u)) < Rank(Wants(v))
    BY <2>1, <2>3
  <2>5. PICK w \in Threads : Running(w) /\ Rank(Wants(v)) < Rank(Wants(w))
    BY <2>1, <2>4
  <2>6. PICK x \in Threads : Running(x) /\ Rank(Wants(w)) < Rank(Wants(x))
    BY <2>1, <2>5
  <2> QED BY <2>2, <2>3, <2>4, <2>5, <2>6
<1>2. LocksInvariant => NeverStuck
  BY <1>1 DEF NeverStuck
<1> QED BY <1>2, LocksInvariance, PTL

\* add makes no second task for a source, where no other add of it runs beside it.
THEOREM AddsOnceAlone == Spec => []AddedOnceAlone
<1>1. LocksInvariant => AddedOnceAlone
  BY DEF LocksInvariant
<1> QED BY <1>1, LocksInvariance, PTL

\* Calls, holders and tasks keep their types.
THEOREM LocksTypes == Spec => []TypeOK
<1>1. LocksInvariant => TypeOK
  BY DEF LocksInvariant
<1> QED BY <1>1, LocksInvariance, PTL

=============================================================================
