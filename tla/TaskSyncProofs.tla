--------------------------- MODULE TaskSyncProofs ---------------------------
(***************************************************************************)
(* The safety of task synchronisation, for any number of tasks, workers,   *)
(* changes and faults: every row and request keeps its type, a row whose   *)
(* ETag is current has the server's copy as its base, what is shown is     *)
(* that base with the queued edits on top, and no write replaces a copy it *)
(* was not made from.  And, where the sync loop is the only worker: a      *)
(* delete stands, a token claims no more than the cache has, no edit is    *)
(* lost, and no completion is done twice while nothing is lost.            *)
(***************************************************************************)
EXTENDS TaskSync, FiniteSetTheorems, SequenceTheorems, TLAPS

-----------------------------------------------------------------------------
(* One task and its queue of edits (TaskData). *)

\* A non-empty set of positions has a newest one.
LEMMA NewestIsMember ==
  ASSUME NEW n \in Nat, NEW S \in SUBSET (1 .. n), S # {}
  PROVE  Newest(S) \in S /\ \A j \in S : j <= Newest(S)
<1> DEFINE FromEnd == {n - i : i \in S}
<1>0. \A i \in S : i \in Nat /\ i <= n /\ n - i \in Nat
  OBVIOUS
<1>1. FromEnd \subseteq Nat /\ FromEnd # {}
  BY <1>0
<1>2. PICK m \in FromEnd : \A k \in FromEnd : ~ (<<k, m>> \in OpToRel(<, Nat))
  <2> HIDE DEF FromEnd
  <2> QED BY <1>1, WFMin, NatLessThanWellFounded
<1>3. \A k \in FromEnd : m <= k
  <2> SUFFICES ASSUME NEW k \in FromEnd, ~ (m <= k)
               PROVE  FALSE
    OBVIOUS
  <2>1. k \in Nat /\ m \in Nat /\ k < m
    BY <1>1
  <2>2. <<k, m>> \in OpToRel(<, Nat)
    BY <2>1 DEF OpToRel
  <2> QED BY <1>2, <2>2
<1>4. PICK i \in S : m = n - i
  BY <1>2
<1>5. \A j \in S : j <= i
  <2> SUFFICES ASSUME NEW j \in S
               PROVE  j <= i
    OBVIOUS
  <2>1. n - i <= n - j
    BY <1>3, <1>4
  <2>2. i \in Nat /\ j \in Nat
    BY <1>0
  <2> QED BY <2>1, <2>2
<1> QED BY <1>5 DEF Newest

\* The positions of one kind of edit are some of the queue's, and finitely many.
LEMMA PositionsAreFinite ==
  ASSUME NEW es \in Seq(Edit), NEW op
  PROVE  /\ Positions(es, op) \in SUBSET (1 .. Len(es))
         /\ IsFiniteSet(Positions(es, op))
         /\ Cardinality(Positions(es, op)) \in Nat
<1>1. Len(es) \in Nat /\ Positions(es, op) \in SUBSET (1 .. Len(es))
  BY DEF Positions
<1>2. IsFiniteSet(1 .. Len(es))
  BY <1>1, FS_Interval
<1>3. IsFiniteSet(Positions(es, op))
  BY <1>1, <1>2, FS_Subset
<1> QED BY <1>1, <1>3, FS_CardinalityType

\* Edits on top of a task make a task.
LEMMA CombinedType ==
  ASSUME NEW b \in Body, NEW es \in Seq(Edit)
  PROVE  Combined(b, es) \in Body
<1> DEFINE titles == Positions(es, "title")
<1>1. Len(es) \in Nat /\ \A i \in 1 .. Len(es) : es[i].id \in Nat
  <2>1. \A i \in 1 .. Len(es) : es[i] \in Edit
    BY ElementOfSeq
  <2>2. \A x \in Edit : x.id \in Nat
    BY DEF Edit
  <2> QED BY <2>1, <2>2
<1>2. Ids(es) \subseteq Nat
  BY <1>1 DEF Ids
<1>3. Cardinality(Positions(es, "complete")) \in Nat
  BY PositionsAreFinite
<1>4. titles # {} => es[Newest(titles)].id \in Nat
  <2> SUFFICES ASSUME titles # {}
               PROVE  es[Newest(titles)].id \in Nat
    OBVIOUS
  <2>1. titles \in SUBSET (1 .. Len(es))
    BY PositionsAreFinite
  <2>2. Newest(titles) \in titles
    <3> HIDE DEF titles
    <3> QED BY <1>1, <2>1, NewestIsMember
  <2> QED BY <1>1, <2>1, <2>2
<1> HIDE DEF titles
<1>5. Combined(b, es) =
        [kind |-> b.kind, title |-> IF titles = {} THEN b.title ELSE es[Newest(titles)].id,
         due |-> b.due + Cardinality(Positions(es, "complete")), seen |-> b.seen \cup Ids(es)]
  BY DEF Combined, titles
<1>6. b.kind \in Kinds /\ b.title \in Nat /\ b.due \in Nat /\ b.seen \subseteq Nat
  BY DEF Body
<1>7. b.due + Cardinality(Positions(es, "complete")) \in Nat
  BY <1>3, <1>6
<1> QED BY <1>2, <1>4, <1>5, <1>6, <1>7 DEF Body

\* A copy made with edits has seen what the copy below it has seen.
LEMMA CombinedSeesMore ==
  ASSUME NEW b, NEW es
  PROVE  Combined(b, es).seen = b.seen \cup Ids(es) /\ Combined(b, es).kind = b.kind
BY DEF Combined

\* A queue with one more edit at its end.
LEMMA PositionsAppend ==
  ASSUME NEW es \in Seq(Edit), NEW e \in Edit, NEW op
  PROVE  /\ e.op = op => Positions(Append(es, e), op) = Positions(es, op) \cup {Len(es) + 1}
         /\ e.op # op => Positions(Append(es, e), op) = Positions(es, op)
         /\ Ids(Append(es, e)) = Ids(es) \cup {e.id}
<1> DEFINE n == Len(es)
           fs == Append(es, e)
<1>1. n \in Nat /\ Len(fs) = n + 1 /\ fs[n + 1] = e /\ \A i \in 1 .. n : fs[i] = es[i]
  BY AppendProperties
<1>2. 1 .. (n + 1) = (1 .. n) \cup {n + 1}
  BY <1>1
<1>3. Positions(fs, op) = {i \in 1 .. (n + 1) : fs[i].op = op}
  BY <1>1 DEF Positions
<1>4. Positions(es, op) = {i \in 1 .. n : es[i].op = op}
  BY DEF Positions
<1>5. Ids(fs) = {fs[i].id : i \in 1 .. (n + 1)}
  BY <1>1 DEF Ids
<1>6. Ids(es) = {es[i].id : i \in 1 .. n}
  BY DEF Ids
<1> HIDE DEF fs, n
<1>7. e.op = op => Positions(fs, op) = Positions(es, op) \cup {n + 1}
  BY <1>1, <1>2, <1>3, <1>4
<1>8. e.op # op => Positions(fs, op) = Positions(es, op)
  BY <1>1, <1>2, <1>3, <1>4
<1>9. Ids(fs) = Ids(es) \cup {e.id}
  BY <1>1, <1>2, <1>5, <1>6
<1> QED BY <1>7, <1>8, <1>9 DEF fs, n

\* Applying one more edit to the text a queue made gives what the longer queue
\* makes: store.rs edit applies the new edits to ics alone, and put_server
\* re-applies the whole queue to the base.
LEMMA CombinedAppend ==
  ASSUME NEW b \in Body, NEW es \in Seq(Edit), NEW e \in Edit
  PROVE  Combined(Combined(b, es), <<e>>) = Combined(b, Append(es, e))
<1> DEFINE n == Len(es)
           fs == Append(es, e)
           c == Combined(b, es)
<1>1. n \in Nat /\ Len(fs) = n + 1 /\ fs[n + 1] = e /\ \A i \in 1 .. n : fs[i] = es[i]
  BY AppendProperties
<1>2. \A op : Positions(<<e>>, op) = IF e.op = op THEN {1} ELSE {}
  BY DEF Positions
<1>3. Ids(<<e>>) = {e.id} /\ <<e>>[1] = e
  BY DEF Ids
<1>4. c = [kind |-> b.kind,
           title |-> IF Positions(es, "title") = {} THEN b.title
                     ELSE es[Newest(Positions(es, "title"))].id,
           due |-> b.due + Cardinality(Positions(es, "complete")),
           seen |-> b.seen \cup Ids(es)]
  BY DEF Combined
<1>5. Combined(c, <<e>>).title = Combined(b, fs).title
  <2>1. CASE e.op = "title"
    <3>1. Newest({1}) = 1
      <4>1. {1} \in SUBSET (1 .. 1) /\ {1} # {} /\ 1 \in Nat
        OBVIOUS
      <4>2. Newest({1}) \in {1}
        BY <4>1, NewestIsMember
      <4> QED BY <4>2
    <3>2. Newest(Positions(fs, "title")) = n + 1
      <4>1. Positions(fs, "title") = Positions(es, "title") \cup {n + 1}
        BY <2>1, PositionsAppend
      <4>2. Positions(fs, "title") \in SUBSET (1 .. (n + 1)) /\ n + 1 \in Positions(fs, "title")
        BY <1>1, <4>1, PositionsAreFinite
      <4>3. /\ Newest(Positions(fs, "title")) \in 1 .. (n + 1)
            /\ n + 1 <= Newest(Positions(fs, "title"))
        <5> DEFINE P == Positions(fs, "title")
        <5>1. P \in SUBSET (1 .. (n + 1)) /\ n + 1 \in P /\ n + 1 \in Nat
          BY <1>1, <4>2
        <5> HIDE DEF P, n
        <5>2. Newest(P) \in P /\ \A j \in P : j <= Newest(P)
          BY <5>1, NewestIsMember
        <5>3. Newest(P) \in 1 .. (n + 1) /\ n + 1 <= Newest(P)
          BY <5>1, <5>2
        <5> QED BY <5>3 DEF P
      <4> QED BY <1>1, <4>3
    <3>3. Positions(fs, "title") # {}
      <4>1. Positions(fs, "title") = Positions(es, "title") \cup {n + 1}
        BY <2>1, PositionsAppend
      <4> QED BY <4>1
    <3>4. Combined(c, <<e>>).title = e.id
      BY <1>2, <1>3, <2>1, <3>1 DEF Combined
    <3>5. Combined(b, fs).title = e.id
      BY <1>1, <3>2, <3>3 DEF Combined
    <3> QED BY <3>4, <3>5
  <2>2. CASE e.op # "title"
    <3>1. Positions(fs, "title") = Positions(es, "title")
      BY <2>2, PositionsAppend
    <3>2. Combined(c, <<e>>).title = c.title
      BY <1>2, <2>2 DEF Combined
    <3>3. Positions(es, "title") # {} => Newest(Positions(es, "title")) \in 1 .. n
      <4> DEFINE P == Positions(es, "title")
      <4>1. P \in SUBSET (1 .. n)
        BY PositionsAreFinite
      <4> HIDE DEF P, n
      <4>2. P # {} => Newest(P) \in 1 .. n
        BY <1>1, <4>1, NewestIsMember
      <4> QED BY <4>2 DEF P
    <3>4. Combined(b, fs).title = c.title
      BY <1>1, <1>4, <3>1, <3>3 DEF Combined
    <3> QED BY <3>2, <3>4
  <2> QED BY <2>1, <2>2
<1>6. Combined(c, <<e>>).due = Combined(b, fs).due
  <2> DEFINE P == Positions(es, "complete")
  <2>1. P \in SUBSET (1 .. n) /\ IsFiniteSet(P) /\ Cardinality(P) \in Nat /\ b.due \in Nat
    BY PositionsAreFinite DEF Body
  <2>2. n + 1 \notin P
    BY <1>1, <2>1
  <2>3. Cardinality(Positions(<<e>>, "complete")) = IF e.op = "complete" THEN 1 ELSE 0
    BY <1>2, FS_Singleton, FS_EmptySet
  <2>4. Cardinality(Positions(fs, "complete")) =
          Cardinality(P) + (IF e.op = "complete" THEN 1 ELSE 0)
    <3>1. CASE e.op = "complete"
      <4>1. Positions(fs, "complete") = P \cup {n + 1}
        BY <3>1, PositionsAppend
      <4> HIDE DEF P, n
      <4>2. Cardinality(P \cup {n + 1}) = Cardinality(P) + 1
        BY <2>1, <2>2, FS_AddElement
      <4> QED BY <3>1, <4>1, <4>2
    <3>2. CASE e.op # "complete"
      <4>1. Positions(fs, "complete") = P
        BY <3>2, PositionsAppend
      <4> QED BY <2>1, <3>2, <4>1
    <3> QED BY <3>1, <3>2
  <2>5. Combined(c, <<e>>).due = b.due + Cardinality(P) + (IF e.op = "complete" THEN 1 ELSE 0)
    BY <1>4, <2>3 DEF Combined
  <2>6. Combined(b, fs).due = b.due + (Cardinality(P) + (IF e.op = "complete" THEN 1 ELSE 0))
    BY <2>4 DEF Combined
  <2> HIDE DEF P
  <2> QED BY <2>1, <2>5, <2>6
<1>7. Combined(c, <<e>>).seen = Combined(b, fs).seen
  BY <1>3, <1>4, PositionsAppend DEF Combined
<1>8. Combined(c, <<e>>).kind = Combined(b, fs).kind
  BY DEF Combined
<1> QED BY <1>5, <1>6, <1>7, <1>8 DEF Combined


-----------------------------------------------------------------------------
(* What the store's helpers return. *)

LEMMA NewBodyType == NewBody \in Body
BY DEF NewBody, Body, Kinds

LEMMA NoRowType == NoRow \in Row
<1>1. <<>> \in Seq(Edit)
  BY EmptySeq
<1> QED BY <1>1, NewBodyType DEF NoRow, Row

\* A row put on top of a server copy is a row.
LEMMA OnTopOfType ==
  ASSUME NEW r \in Row, NEW etag \in Nat, NEW base \in Body, NEW edits \in Seq(Edit)
  PROVE  OnTopOf(r, etag, base, edits) \in Row
BY CombinedType DEF OnTopOf, Row

LEMMA RebasedType ==
  ASSUME NEW r \in Row, NEW copy
  PROVE  Rebased(r, copy) \in Seq(Edit)
<1>1. <<>> \in Seq(Edit) /\ r.edits \in Seq(Edit)
  BY EmptySeq DEF Row
<1> QED BY <1>1 DEF Rebased

LEMMA ServerCopyType ==
  ASSUME NEW r \in Row, NEW etag \in Nat, NEW copy \in Body
  PROVE  ServerCopy(r, etag, copy) \in Row
BY OnTopOfType, RebasedType, NoRowType DEF ServerCopy

LEMMA UnsentType ==
  ASSUME NEW r \in Row, NEW p \in Pending
  PROVE  Unsent(r, p) \in Seq(Edit)
<1>1. r.edits \in Seq(Edit) /\ Len(r.edits) \in Nat /\ p.sent \in Nat
  BY DEF Row, Pending
<1>2. \A i \in (p.sent + 1) .. Len(r.edits) : r.edits[i] \in Edit
  <2> SUFFICES ASSUME NEW i \in (p.sent + 1) .. Len(r.edits)
               PROVE  r.edits[i] \in Edit
    OBVIOUS
  <2>1. i \in 1 .. Len(r.edits)
    BY <1>1
  <2> QED BY <1>1, <2>1, ElementOfSeq
<1> QED BY <1>1, <1>2, SubSeqProperties DEF Unsent

LEMMA PendingOfType ==
  ASSUME rows \in [Hrefs -> Row], NEW h \in Hrefs
  PROVE  PendingOf(h) \in Pending
<1>1. rows[h] \in Row
  OBVIOUS
<1>2. Len(rows[h].edits) \in Nat
  BY <1>1 DEF Row
<1> QED BY <1>1, <1>2 DEF PendingOf, Pending, Row

\* What pushed does to the rows: nothing, or one row is put on the copy given.
LEMMA PushedRows ==
  ASSUME rows \in [Hrefs -> Row], NEW p \in Pending, NEW etag \in Nat, NEW copy \in Body,
         Pushed(p, etag, copy)
  PROVE  /\ rows' \in [Hrefs -> Row]
         /\ \A h \in Hrefs :
              \/ rows'[h] = rows[h]
              \/ /\ h = p.href
                 /\ rows'[h] = OnTopOf(rows[h], etag, copy, Unsent(rows[h], p))
<1>1. p.href \in Hrefs /\ rows[p.href] \in Row
  BY DEF Pending
<1>2. Unsent(rows[p.href], p) \in Seq(Edit)
  BY <1>1, UnsentType
<1>3. OnTopOf(rows[p.href], etag, copy, Unsent(rows[p.href], p)) \in Row
  BY <1>1, <1>2, OnTopOfType
<1> QED BY <1>1, <1>3 DEF Pushed

-----------------------------------------------------------------------------
(* Type correctness. *)

LEMMA AnswerTypes ==
  /\ \A kind \in Answers : Says(kind) \in Answer
  /\ \A w \in {"none", "stored", "kept", "deleted", "conflict", "missing", "copy"} : w \in Answers
  /\ NoDelta \in Delta
<1>1. NoDelta \in Delta
  BY DEF NoDelta, Delta
<1> QED BY <1>1, NewBodyType DEF Says, Answer, Answers

LEMMA TypeInit == Init => TypeOK
<1> SUFFICES ASSUME Init
             PROVE  TypeOK
  OBVIOUS
<1>1. rows \in [Hrefs -> Row] /\ token \in Nat /\ fresh \in BOOLEAN
  BY NoRowType DEF Init
<1>2. srv \in [Hrefs -> Resource] /\ clock \in Nat /\ pruned \subseteq Hrefs
  BY NewBodyType DEF Init, Resource
<1>3. pc \in [Workers -> Steps] /\ todo \in [Workers -> SUBSET Pending]
  BY DEF Init, Steps
<1>4. cur \in [Workers -> Pending \cup {NoWrite}] /\ retry \in [Workers -> BOOLEAN]
  BY DEF Init
<1>5. ans \in [Workers -> Answer] /\ delta \in Delta
  BY AnswerTypes DEF Init
<1>6. known \in [Hrefs -> Nat] /\ fetched \subseteq Copy
  BY DEF Init
<1>7. used \in [local : Nat, phone : Nat, fault : Nat]
  BY DEF Init
<1>8. accepted \in [Hrefs -> SUBSET Edit] /\ phoneDone \in [Hrefs -> Nat]
  BY DEF Init
<1>9. deleted \in [Hrefs -> {"no", "marked", "forgotten"}]
  BY DEF Init
<1> QED BY <1>1, <1>2, <1>3, <1>4, <1>5, <1>6, <1>7, <1>8, <1>9 DEF TypeOK

\* The variables in groups, so that a step says which of them it touches.
StoreType == rows \in [Hrefs -> Row] /\ token \in Nat /\ fresh \in BOOLEAN

ServerType == srv \in [Hrefs -> Resource] /\ clock \in Nat /\ pruned \subseteq Hrefs

PushType ==
  /\ pc \in [Workers -> Steps]
  /\ todo \in [Workers -> SUBSET Pending]
  /\ cur \in [Workers -> Pending \cup {NoWrite}]
  /\ retry \in [Workers -> BOOLEAN]
  /\ ans \in [Workers -> Answer]

PullType == delta \in Delta /\ known \in [Hrefs -> Nat] /\ fetched \subseteq Copy

HistoryType ==
  /\ used \in [local : Nat, phone : Nat, fault : Nat]
  /\ accepted \in [Hrefs -> SUBSET Edit]
  /\ deleted \in [Hrefs -> {"no", "marked", "forgotten"}]
  /\ phoneDone \in [Hrefs -> Nat]

LEMMA TypeParts ==
  /\ TypeOK <=> StoreType /\ ServerType /\ PushType /\ PullType /\ HistoryType
  /\ TypeOK' <=> StoreType' /\ ServerType' /\ PushType' /\ PullType' /\ HistoryType'
BY DEF TypeOK, StoreType, ServerType, PushType, PullType, HistoryType

\* A group none of whose variables moves keeps its type.
LEMMA TypeKept ==
  /\ StoreType /\ UNCHANGED cache => StoreType'
  /\ ServerType /\ UNCHANGED server => ServerType'
  /\ PushType /\ UNCHANGED push => PushType'
  /\ PullType /\ UNCHANGED pull => PullType'
  /\ HistoryType /\ UNCHANGED <<used, ghosts>> => HistoryType'
BY DEF StoreType, ServerType, PushType, PullType, HistoryType,
       cache, server, push, pull, ghosts

\* What ends a row's push, and what ends a round.
LEMMA DoneType ==
  ASSUME NEW w \in Workers, PushType
  PROVE  (Done(w) => PushType') /\ (Leave(w) => PushType')
<1>1. Says("none") \in Answer /\ "push" \in Steps /\ "idle" \in Steps
  BY AnswerTypes DEF Steps
<1>2. Done(w) => PushType'
  BY <1>1 DEF Done, Goto, PushType
<1>3. Leave(w) => PushType'
  BY <1>1 DEF Leave, Goto, PushType
<1> QED BY <1>2, <1>3

LEMMA ForgetPullType == ForgetPull => PullType'
BY AnswerTypes DEF ForgetPull, PullType

\* Every worker's round is forgotten at once: a crash, or the end of flush.
LEMMA AllIdleType ==
  ASSUME pc' = [w \in Workers |-> "idle"], todo' = [w \in Workers |-> {}],
         cur' = [w \in Workers |-> NoWrite], ans' = [w \in Workers |-> Says("none")],
         retry' = [w \in Workers |-> TRUE]
  PROVE  PushType'
BY AnswerTypes DEF PushType, Steps

LEMMA ForgetType ==
  ASSUME StoreType, NEW h \in Hrefs, Forget(h), UNCHANGED <<token, fresh>>
  PROVE  StoreType'
BY NoRowType DEF StoreType, Forget

LEMMA PutType ==
  ASSUME ServerType, NEW h \in Hrefs, NEW body \in Body, ServerPut(h, body)
  PROVE  ServerType'
<1> DEFINE copy == [live |-> TRUE, at |-> clock + 1, body |-> body]
<1>1. clock + 1 \in Nat /\ copy \in Resource
  BY DEF Resource, ServerType
<1>2. srv' = [srv EXCEPT ![h] = copy] /\ clock' = clock + 1 /\ pruned' = pruned \ {h}
  BY DEF ServerPut
<1> HIDE DEF copy
<1> QED BY <1>1, <1>2 DEF ServerType

LEMMA RemoveType ==
  ASSUME ServerType, NEW h \in Hrefs, ServerRemove(h)
  PROVE  ServerType'
<1> DEFINE gone == [srv[h] EXCEPT !.live = FALSE, !.at = clock + 1]
<1>1. clock + 1 \in Nat /\ gone \in Resource
  <2>1. srv[h] \in Resource /\ clock + 1 \in Nat
    BY DEF ServerType
  <2> QED BY <2>1 DEF Resource
<1>2. srv' = [srv EXCEPT ![h] = gone] /\ clock' = clock + 1 /\ pruned' = pruned \ {h}
  BY DEF ServerRemove
<1> HIDE DEF gone
<1> QED BY <1>1, <1>2 DEF ServerType

LEMMA CopyOfType ==
  ASSUME ServerType, NEW h \in Hrefs
  PROVE  CopyOf(h) \in Answer
BY DEF ServerType, CopyOf, Answer, Answers, Resource

\* A write the server is asked to take.
LEMMA TakeType ==
  ASSUME ServerType, NEW w \in Workers, NEW p \in Pending, ans \in [Workers -> Answer]
  PROVE  /\ TakePut(w, p) => ServerType' /\ ans' \in [Workers -> Answer]
         /\ \A etag \in Nat : TakeDelete(w, p.href, etag) =>
              ServerType' /\ ans' \in [Workers -> Answer]
<1>1. p.href \in Hrefs /\ p.body \in Body
  BY DEF Pending
<1>2. \A kind \in {"stored", "kept"} : [kind |-> kind, etag |-> clock + 1, body |-> p.body] \in Answer
  BY <1>1 DEF ServerType, Answer, Answers
<1>3. UNCHANGED server => ServerType'
  BY TypeKept
<1>4. TakePut(w, p) => ServerType'
  BY <1>1, <1>3, PutType DEF TakePut
<1>5. TakePut(w, p) => ans' \in [Workers -> Answer]
  BY <1>2, AnswerTypes DEF TakePut
<1>6. ASSUME NEW etag \in Nat, TakeDelete(w, p.href, etag)
      PROVE  ServerType' /\ ans' \in [Workers -> Answer]
  BY <1>1, <1>3, <1>6, RemoveType, AnswerTypes DEF TakeDelete
<1> QED BY <1>4, <1>5, <1>6

\* A push's steps keep the type of what they touch.
LEMMA PushStepType ==
  ASSUME TypeOK, WriteInHand, NEW w \in Workers, PushStep(w)
  PROVE  TypeOK'
<1> USE DEF Goto, At
<1>0. StoreType /\ ServerType /\ PushType /\ PullType /\ HistoryType
  BY TypeParts
<1>1. CASE Begin(w)
  <2>1. AllPending \subseteq Pending
    BY <1>0, PendingOfType DEF AllPending, StoreType
  <2>2. PushType'
    BY <1>0, <1>1, <2>1 DEF Begin, PushType, Steps
  <2> QED BY <1>0, <1>1, <2>2, TypeKept, TypeParts DEF Begin, ghosts
<1>2. CASE Send(w)
  <2>1. PICK p \in todo[w] \cup {cur[w]} :
          /\ \/ At(w, "push") /\ p \in todo[w] /\ todo' = [todo EXCEPT ![w] = @ \ {p}]
             \/ At(w, "again") /\ p = cur[w] /\ UNCHANGED todo
          /\ cur' = [cur EXCEPT ![w] = p]
          /\ Goto(w, "sent")
          /\ IF p.op = "delete" THEN TakeDelete(w, p.href, p.etag) ELSE TakePut(w, p)
          /\ UNCHANGED <<cache, retry, pull, used, ghosts>>
    BY <1>2 DEF Send
  <2>2. p \in Pending
    BY <1>0, <2>1 DEF WriteInHand, PushType
  <2>3. p.etag \in Nat
    BY <2>2 DEF Pending
  <2>4. ServerType' /\ ans' \in [Workers -> Answer]
    BY <1>0, <2>1, <2>2, <2>3, TakeType DEF PushType
  <2>5. PushType'
    BY <1>0, <2>1, <2>2, <2>4 DEF PushType, Steps
  <2> QED BY <1>0, <2>1, <2>4, <2>5, TypeKept, TypeParts DEF ghosts
<1>3. CASE ApplyStored(w)
  <2>1. cur[w] \in Pending /\ ans[w] \in Answer
    BY <1>0, <1>3 DEF ApplyStored, WriteInHand, PushType
  <2>2. ans[w].etag \in Nat /\ cur[w].body \in Body
    BY <2>1 DEF Answer, Pending
  <2>3. StoreType'
    BY <1>0, <1>3, <2>1, <2>2, PushedRows DEF ApplyStored, StoreType
  <2>4. PushType'
    BY <1>0, <1>3, DoneType DEF ApplyStored
  <2> QED BY <1>0, <1>3, <2>3, <2>4, TypeKept, TypeParts DEF ApplyStored, ghosts
<1>4. CASE ApplyDeleted(w)
  <2>1. cur[w].href \in Hrefs
    BY <1>4 DEF ApplyDeleted, WriteInHand, Pending
  <2>2. StoreType' /\ PushType'
    BY <1>0, <1>4, <2>1, ForgetType, DoneType DEF ApplyDeleted
  <2> QED BY <1>0, <1>4, <2>2, TypeKept, TypeParts DEF ApplyDeleted, ghosts
<1>5. CASE ApplyMissing(w)
  <2>1. cur[w].href \in Hrefs
    BY <1>5 DEF ApplyMissing, WriteInHand, Pending
  <2>2. StoreType' /\ PushType'
    BY <1>0, <1>5, <2>1, ForgetType, TypeKept, DoneType DEF ApplyMissing, cache
  <2> QED BY <1>0, <1>5, <2>2, TypeKept, TypeParts DEF ApplyMissing, ghosts
<1>6. CASE NeedCopy(w)
  <2>1. PushType'
    BY <1>0, <1>6, AnswerTypes DEF NeedCopy, PushType, Steps
  <2> QED BY <1>0, <1>6, <2>1, TypeKept, TypeParts DEF NeedCopy, ghosts
<1>7. CASE FetchOne(w)
  <2>1. cur[w].href \in Hrefs
    BY <1>7 DEF FetchOne, WriteInHand, Pending
  <2>2. PushType'
    BY <1>0, <1>7, <2>1, AnswerTypes, CopyOfType DEF FetchOne, PushType, Steps
  <2> QED BY <1>0, <1>7, <2>2, TypeKept, TypeParts DEF FetchOne, ghosts
<1>8. CASE ApplyConfirmed(w)
  <2>1. cur[w] \in Pending /\ ans[w] \in Answer
    BY <1>0, <1>8 DEF ApplyConfirmed, WriteInHand, PushType
  <2>2. ans[w].etag \in Nat /\ ans[w].body \in Body
    BY <2>1 DEF Answer
  <2>3. StoreType'
    BY <1>0, <1>8, <2>1, <2>2, PushedRows DEF ApplyConfirmed, StoreType
  <2>4. PushType'
    BY <1>0, <1>8, DoneType DEF ApplyConfirmed
  <2> QED BY <1>0, <1>8, <2>3, <2>4, TypeKept, TypeParts DEF ApplyConfirmed, ghosts
<1>9. CASE ApplyGone(w)
  <2>1. cur[w].href \in Hrefs
    BY <1>9 DEF ApplyGone, WriteInHand, Pending
  <2>2. StoreType' /\ PushType'
    BY <1>0, <1>9, <2>1, ForgetType, TypeKept, DoneType DEF ApplyGone, cache
  <2> QED BY <1>0, <1>9, <2>2, TypeKept, TypeParts DEF ApplyGone, ghosts
<1>10. CASE DeleteCurrent(w)
  <2>1. PushType'
    BY <1>0, <1>10 DEF DeleteCurrent, PushType, Steps
  <2> QED BY <1>0, <1>10, <2>1, TypeKept, TypeParts DEF DeleteCurrent, ghosts
<1>11. CASE Redelete(w)
  <2>1. cur[w] \in Pending /\ ans[w].etag \in Nat
    BY <1>0, <1>11 DEF Redelete, WriteInHand, PushType, Answer
  <2>2. ServerType' /\ ans' \in [Workers -> Answer]
    BY <1>0, <1>11, <2>1, TakeType DEF Redelete, PushType
  <2>3. PushType'
    BY <1>0, <1>11, <2>2 DEF Redelete, PushType, Steps
  <2> QED BY <1>0, <1>11, <2>2, <2>3, TypeKept, TypeParts DEF Redelete, ghosts
<1>12. CASE DeleteRefused(w)
  BY <1>0, <1>12, DoneType, TypeKept, TypeParts DEF DeleteRefused, ghosts
<1>13. CASE Rebase(w)
  <2>1. cur[w].href \in Hrefs /\ ans[w].etag \in Nat /\ ans[w].body \in Body
    BY <1>0, <1>13 DEF Rebase, WriteInHand, Pending, PushType, Answer
  <2>2. ServerCopy(rows[cur[w].href], ans[w].etag, ans[w].body) \in Row
    BY <1>0, <2>1, ServerCopyType DEF StoreType
  <2>3. StoreType'
    BY <1>0, <1>13, <2>2 DEF Rebase, StoreType
  <2>4. PushType'
    BY <1>0, <1>13, AnswerTypes DEF Rebase, PushType, Steps
  <2> QED BY <1>0, <1>13, <2>3, <2>4, TypeKept, TypeParts DEF Rebase, ghosts
<1>14. CASE Reread(w)
  <2>1. PendingOf(cur[w].href) \in Pending
    BY <1>0, <1>14, PendingOfType DEF Reread, WriteInHand, Pending, StoreType
  <2>2. PushType'
    BY <1>0, <1>14, <2>1, DoneType DEF Reread, PushType, Steps
  <2> QED BY <1>0, <1>14, <2>2, TypeKept, TypeParts DEF Reread, ghosts
<1>15. CASE PushDone(w)
  <2>1. PushType' /\ PullType'
    <3>1. CASE w = Loop
      <4>1. PushType'
        BY <1>0, <1>15, <3>1 DEF PushDone, PushType, Steps
      <4> QED BY <1>0, <1>15, <3>1, <4>1, TypeKept DEF PushDone
    <3>2. CASE w # Loop
      BY <1>15, <3>2, AllIdleType, ForgetPullType DEF PushDone
    <3> QED BY <3>1, <3>2
  <2> QED BY <1>0, <1>15, <2>1, TypeKept, TypeParts DEF PushDone, ghosts
<1> QED
  BY <1>1, <1>2, <1>3, <1>4, <1>5, <1>6, <1>7, <1>8, <1>9, <1>10, <1>11, <1>12, <1>13,
     <1>14, <1>15 DEF PushStep

\* The list's history tells ETags of the list, and hrefs of the list.
LEMMA DeltaTypes ==
  ASSUME ServerType
  PROVE  Listing \in Delta /\ \A t : Since(t) \in Delta
<1>1. \A h \in Hrefs : srv[h].at \in Nat
  BY DEF ServerType, Resource
<1>2. clock \in Nat
  BY DEF ServerType
<1> QED BY <1>1, <1>2 DEF Listing, Since, Delta

\* A pull's steps keep the type of what they touch.
LEMMA PullStepType ==
  ASSUME TypeOK, PullStep
  PROVE  TypeOK'
<1> USE DEF Goto, At
<1>0. StoreType /\ ServerType /\ PushType /\ PullType /\ HistoryType /\ Loop \in Workers
  BY TypeParts, WorkersAssumption
<1>1. CASE ReadLists
  <2>1. PushType'
    <3>1. CASE Leave(Loop)
      BY <1>0, <3>1, DoneType
    <3>2. CASE Goto(Loop, "changes") /\ UNCHANGED <<todo, cur, retry, ans>>
      BY <1>0, <3>2 DEF PushType, Steps
    <3> QED BY <1>1, <3>1, <3>2 DEF ReadLists
  <2> QED BY <1>0, <1>1, <2>1, TypeKept, TypeParts DEF ReadLists, ghosts
<1>2. CASE ReadChanges
  <2>1. PushType'
    BY <1>0, <1>2 DEF ReadChanges, PushType, Steps
  <2>2. PullType'
    BY <1>0, <1>2, DeltaTypes DEF ReadChanges, PullType
  <2> QED BY <1>0, <1>2, <2>1, <2>2, TypeKept, TypeParts DEF ReadChanges, ghosts
<1>3. CASE ReadKnown
  <2>1. PushType'
    BY <1>0, <1>3 DEF ReadKnown, PushType, Steps
  <2>2. ETags \in [Hrefs -> Nat]
    BY <1>0 DEF ETags, StoreType, Row
  <2>3. PullType'
    BY <1>0, <1>3, <2>2 DEF ReadKnown, PullType
  <2> QED BY <1>0, <1>3, <2>1, <2>3, TypeKept, TypeParts DEF ReadKnown, ghosts
<1>4. CASE FetchWanted
  <2>1. PushType'
    BY <1>0, <1>4 DEF FetchWanted, PushType, Steps
  <2>2. \A h \in Hrefs : [href |-> h, etag |-> srv[h].at, body |-> srv[h].body] \in Copy
    <3>1. \A h \in Hrefs : srv[h].at \in Nat /\ srv[h].body \in Body
      BY <1>0 DEF ServerType, Resource
    <3> QED BY <3>1 DEF Copy
  <2>3. fetched' \subseteq Copy
    BY <1>4, <2>2 DEF FetchWanted, Wanted
  <2>4. PullType'
    BY <1>0, <1>4, <2>3 DEF FetchWanted, PullType
  <2> QED BY <1>0, <1>4, <2>1, <2>4, TypeKept, TypeParts DEF FetchWanted, ghosts
<1>5. CASE StoreFetched
  <2>1. PushType' /\ PullType'
    BY <1>0, <1>5 DEF StoreFetched, PushType, PullType, Steps
  <2>2. ASSUME NEW h \in Hrefs, \E f \in fetched : f.href = h
        PROVE  LET f == CHOOSE g \in fetched : g.href = h
               IN  ServerCopy(rows[h], f.etag, f.body) \in Row
    <3> DEFINE f == CHOOSE g \in fetched : g.href = h
    <3>1. f \in fetched
      BY <2>2
    <3> HIDE DEF f
    <3>2. f.etag \in Nat /\ f.body \in Body
      BY <1>0, <3>1 DEF PullType, Copy
    <3>3. ServerCopy(rows[h], f.etag, f.body) \in Row
      BY <1>0, <3>2, ServerCopyType DEF StoreType
    <3> QED BY <3>3 DEF f
  <2>3. StoreType'
    BY <1>0, <1>5, <2>2 DEF StoreFetched, StoreType
  <2> QED BY <1>0, <1>5, <2>1, <2>3, TypeKept, TypeParts DEF StoreFetched, ghosts
<1>6. CASE Finish
  <2>1. PushType' /\ PullType'
    BY <1>0, <1>6, DoneType, ForgetPullType DEF Finish
  <2>2. delta.token \in Nat /\ delta.complete \in BOOLEAN
    BY <1>0 DEF PullType, Delta
  <2>3. StoreType'
    BY <1>0, <1>6, <2>2, NoRowType DEF Finish, StoreType
  <2> QED BY <1>0, <1>6, <2>1, <2>3, TypeKept, TypeParts DEF Finish, ghosts
<1> QED BY <1>1, <1>2, <1>3, <1>4, <1>5, <1>6 DEF PullStep

\* The next edit's id is a number, and counting one more use of a bound keeps
\* the counters numbers.
LEMMA CountersType ==
  ASSUME HistoryType
  PROVE  /\ NextId \in Nat
         /\ Local => used' \in [local : Nat, phone : Nat, fault : Nat]
         /\ Phone => used' \in [local : Nat, phone : Nat, fault : Nat]
         /\ Fault => used' \in [local : Nat, phone : Nat, fault : Nat]
<1>1. used \in [local : Nat, phone : Nat, fault : Nat]
  BY DEF HistoryType
<1> QED BY <1>1 DEF NextId, Local, Phone, Fault

\* One edit, alone on a queue.
LEMMA OneEditType ==
  ASSUME HistoryType, NEW op \in {"title", "complete"}
  PROVE  /\ [id |-> NextId, op |-> op] \in Edit
         /\ <<[id |-> NextId, op |-> op]>> \in Seq(Edit)
<1>1. [id |-> NextId, op |-> op] \in Edit
  BY CountersType DEF Edit
<1> QED BY <1>1

\* The user's changes keep the type of what they touch.
LEMMA UserStepType ==
  ASSUME TypeOK, UserStep
  PROVE  TypeOK'
<1>0. StoreType /\ ServerType /\ PushType /\ PullType /\ HistoryType
  BY TypeParts
<1>1. ASSUME NEW h \in Hrefs, LocalCreate(h)
      PROVE  TypeOK'
  <2> DEFINE e == [id |-> NextId, op |-> "title"]
  <2>1. e \in Edit /\ <<e>> \in Seq(Edit) /\ <<>> \in Seq(Edit)
    BY <1>0, OneEditType, EmptySeq
  <2>2. Combined(NewBody, <<e>>) \in Body
    BY <2>1, NewBodyType, CombinedType
  <2>3. OnTopOf(NoRow, 0, NewBody, <<e>>) \in Row
    BY <2>1, NewBodyType, NoRowType, OnTopOfType
  <2>4. OnTopOf(NoRow, 0, Combined(NewBody, <<e>>), <<>>) \in Row
    BY <2>1, <2>2, NoRowType, OnTopOfType
  <2>5. StoreType'
    <3>1. \/ rows' = [rows EXCEPT ![h] = OnTopOf(NoRow, 0, NewBody, <<e>>)]
          \/ rows' = [rows EXCEPT ![h] = OnTopOf(NoRow, 0, Combined(NewBody, <<e>>), <<>>)]
      BY <1>1 DEF LocalCreate
    <3>2. UNCHANGED <<token, fresh>>
      BY <1>1 DEF LocalCreate
    <3> QED BY <1>0, <2>3, <2>4, <3>1, <3>2 DEF StoreType
  <2>6. HistoryType'
    <3>1. /\ Local
          /\ accepted' = [accepted EXCEPT ![h] = @ \cup {e}]
          /\ UNCHANGED <<deleted, phoneDone>>
      BY <1>1 DEF LocalCreate, Accept
    <3> HIDE DEF e
    <3> QED BY <1>0, <2>1, <3>1, CountersType DEF HistoryType
  <2> QED BY <1>0, <1>1, <2>5, <2>6, TypeKept, TypeParts DEF LocalCreate
<1>2. ASSUME NEW h \in Hrefs, NEW op \in {"title", "complete"}, LocalEdit(h, op)
      PROVE  TypeOK'
  <2> DEFINE e == [id |-> NextId, op |-> op]
             r == [rows[h] EXCEPT !.edits = Append(rows[h].edits, e),
                                  !.ics = Combined(rows[h].ics, <<e>>)]
  <2>1. e \in Edit /\ <<e>> \in Seq(Edit)
    BY <1>0, OneEditType
  <2>2. rows[h] \in Row
    BY <1>0 DEF StoreType
  <2>3. Append(rows[h].edits, e) \in Seq(Edit) /\ Combined(rows[h].ics, <<e>>) \in Body
    BY <2>1, <2>2, AppendProperties, CombinedType DEF Row
  <2>4. r \in Row
    BY <2>2, <2>3 DEF Row
  <2>5. /\ rows' = [rows EXCEPT ![h] = r]
        /\ Local
        /\ accepted' = [accepted EXCEPT ![h] = @ \cup {e}]
        /\ UNCHANGED <<token, fresh, server, push, pull, deleted, phoneDone>>
    BY <1>2 DEF LocalEdit, Accept
  <2> HIDE DEF e, r
  <2>6. StoreType' /\ HistoryType'
    BY <1>0, <2>1, <2>4, <2>5, CountersType DEF StoreType, HistoryType
  <2> QED BY <1>0, <2>5, <2>6, TypeKept, TypeParts
<1>3. ASSUME NEW h \in Hrefs, LocalDelete(h)
      PROVE  TypeOK'
  <2>1. rows[h] \in Row
    BY <1>0 DEF StoreType
  <2>2. [rows[h] EXCEPT !.deleted = TRUE] \in Row
    BY <2>1 DEF Row
  <2>3. StoreType'
    BY <1>0, <1>3, <2>2, NoRowType DEF LocalDelete, StoreType, Forget
  <2>4. HistoryType'
    BY <1>0, <1>3, CountersType DEF LocalDelete, HistoryType
  <2> QED BY <1>0, <1>3, <2>3, <2>4, TypeKept, TypeParts DEF LocalDelete
<1> QED BY <1>1, <1>2, <1>3 DEF UserStep

\* So do the phone's writes, the passing of time, and what goes wrong.
LEMMA OutsideStepType ==
  ASSUME TypeOK, PhoneStep \/ TimePasses \/ FaultStep
  PROVE  TypeOK'
<1>0. StoreType /\ ServerType /\ PushType /\ PullType /\ HistoryType
  BY TypeParts
<1>1. ASSUME NEW h \in Hrefs, PhoneCreate(h)
      PROVE  TypeOK'
  <2>1. Combined(NewBody, <<[id |-> NextId, op |-> "title"]>>) \in Body
    BY <1>0, OneEditType, NewBodyType, CombinedType
  <2>2. ServerType'
    BY <1>0, <1>1, <2>1, PutType DEF PhoneCreate
  <2>3. HistoryType'
    BY <1>0, <1>1, CountersType DEF PhoneCreate, HistoryType, ghosts
  <2> QED BY <1>0, <1>1, <2>2, <2>3, TypeKept, TypeParts DEF PhoneCreate
<1>2. ASSUME NEW h \in Hrefs, NEW op \in {"title", "complete"}, PhoneEdit(h, op)
      PROVE  TypeOK'
  <2>1. srv[h].body \in Body
    BY <1>0 DEF ServerType, Resource
  <2>2. Combined(srv[h].body, <<[id |-> NextId, op |-> op]>>) \in Body
    BY <1>0, <2>1, OneEditType, CombinedType
  <2>3. ServerType'
    BY <1>0, <1>2, <2>2, PutType DEF PhoneEdit
  <2>4. HistoryType'
    BY <1>0, <1>2, CountersType DEF PhoneEdit, HistoryType
  <2> QED BY <1>0, <1>2, <2>3, <2>4, TypeKept, TypeParts DEF PhoneEdit
<1>3. ASSUME NEW h \in Hrefs, NEW kind \in PhoneKinds, PhoneBreaks(h, kind)
      PROVE  TypeOK'
  <2>1. srv[h].body \in Body /\ kind \in Kinds
    BY <1>0, PhoneAssumption DEF ServerType, Resource, Kinds
  <2>2. [srv[h].body EXCEPT !.kind = kind] \in Body
    BY <2>1 DEF Body
  <2>3. ServerType'
    BY <1>0, <1>3, <2>2, PutType DEF PhoneBreaks
  <2>4. HistoryType'
    BY <1>0, <1>3, CountersType DEF PhoneBreaks, HistoryType, ghosts
  <2> QED BY <1>0, <1>3, <2>3, <2>4, TypeKept, TypeParts DEF PhoneBreaks
<1>4. ASSUME NEW h \in Hrefs, PhoneDelete(h)
      PROVE  TypeOK'
  <2>1. ServerType'
    BY <1>0, <1>4, RemoveType DEF PhoneDelete
  <2>2. HistoryType'
    BY <1>0, <1>4, CountersType DEF PhoneDelete, HistoryType, ghosts
  <2> QED BY <1>0, <1>4, <2>1, <2>2, TypeKept, TypeParts DEF PhoneDelete
<1>5. CASE TimePasses
  <2>1. StoreType' /\ ServerType'
    BY <1>0, <1>5 DEF TimePasses, StoreType, ServerType
  <2> QED BY <1>0, <1>5, <2>1, TypeKept, TypeParts DEF TimePasses
<1>6. ASSUME NEW w \in Workers, NetworkFails(w)
      PROVE  TypeOK'
  <2>1. PushType' /\ PullType'
    BY <1>0, <1>6, DoneType, ForgetPullType, TypeKept DEF NetworkFails
  <2>2. HistoryType'
    BY <1>0, <1>6, CountersType DEF NetworkFails, HistoryType, ghosts
  <2> QED BY <1>0, <1>6, <2>1, <2>2, TypeKept, TypeParts DEF NetworkFails
<1>7. ASSUME NEW w \in Workers, ServerError(w)
      PROVE  TypeOK'
  <2>1. todo' \in [Workers -> SUBSET Pending]
    BY <1>0, <1>7 DEF ServerError, PushType
  <2>2. PushType'
    BY <1>0, <1>7, <2>1, AnswerTypes DEF ServerError, PushType, Goto, Steps
  <2>3. HistoryType'
    BY <1>0, <1>7, CountersType DEF ServerError, HistoryType, ghosts
  <2> QED BY <1>0, <1>7, <2>2, <2>3, TypeKept, TypeParts DEF ServerError
<1>8. CASE Crash
  <2>1. PushType' /\ PullType'
    BY <1>8, AllIdleType, ForgetPullType DEF Crash
  <2>2. HistoryType'
    BY <1>0, <1>8, CountersType DEF Crash, HistoryType, ghosts
  <2> QED BY <1>0, <1>8, <2>1, <2>2, TypeKept, TypeParts DEF Crash
<1> QED
  BY <1>1, <1>2, <1>3, <1>4, <1>5, <1>6, <1>7, <1>8 DEF PhoneStep, FaultStep

\* Every step keeps every variable's type.
LEMMA TypeStep == TypeOK /\ WriteInHand /\ [Next]_vars => TypeOK'
<1> SUFFICES ASSUME TypeOK, WriteInHand, [Next]_vars
             PROVE  TypeOK'
  OBVIOUS
<1>1. CASE UNCHANGED vars
  BY <1>1, TypeKept, TypeParts DEF vars
<1> QED
  BY <1>1, PushStepType, PullStepType, UserStepType, OutsideStepType DEF Next

-----------------------------------------------------------------------------
(* The write in hand. *)

\* A worker at a step of push_one, or with an answer, has a row's write in hand.
InHand(w) == pc[w] \in Writing \/ ans[w].kind # "none" => cur[w] \in Pending

LEMMA InHandParts ==
  /\ WriteInHand <=> \A w \in Workers : InHand(w)
  /\ WriteInHand' <=> \A w \in Workers : InHand(w)'
BY DEF WriteInHand, InHand, Writing

LEMMA InHandAfterDone ==
  ASSUME TypeOK, NEW w \in Workers, Done(w) \/ Leave(w)
  PROVE  InHand(w)'
BY DEF TypeOK, Done, Leave, Goto, InHand, Writing, Says

LEMMA InHandKept ==
  ASSUME NEW w, InHand(w), UNCHANGED <<cur[w], ans[w]>>, pc'[w] \in Writing => pc[w] \in Writing
  PROVE  InHand(w)'
BY DEF InHand

\* The workers a step is not of keep what they have in hand.
LEMMA OthersKept ==
  ASSUME TypeOK, NEW w \in Workers, PushStep(w), w = Loop \/ ~PushDone(w)
  PROVE  \A v \in Workers \ {w} : UNCHANGED <<pc[v], todo[v], cur[v], ans[v]>>
<1> USE DEF TypeOK, Goto
<1>1. Done(w) => \A v \in Workers \ {w} : UNCHANGED <<pc[v], todo[v], cur[v], ans[v]>>
  BY DEF Done
<1>2. TakeDelete(w, cur[w].href, ans[w].etag) => \A v \in Workers \ {w} : UNCHANGED ans[v]
  BY DEF TakeDelete
<1>3. CASE Begin(w) \/ NeedCopy(w) \/ FetchOne(w) \/ DeleteCurrent(w) \/ Rebase(w)
  BY <1>3 DEF Begin, NeedCopy, FetchOne, DeleteCurrent, Rebase
<1>4. CASE Send(w)
  <2>1. PICK p \in todo[w] \cup {cur[w]} :
          /\ todo' = [todo EXCEPT ![w] = @ \ {p}] \/ UNCHANGED todo
          /\ cur' = [cur EXCEPT ![w] = p]
          /\ Goto(w, "sent")
          /\ TakeDelete(w, p.href, p.etag) \/ TakePut(w, p)
    BY <1>4 DEF Send
  <2>2. TakeDelete(w, p.href, p.etag) => \A v \in Workers \ {w} : UNCHANGED ans[v]
    BY DEF TakeDelete
  <2>3. TakePut(w, p) => \A v \in Workers \ {w} : UNCHANGED ans[v]
    BY DEF TakePut
  <2> QED BY <2>1, <2>2, <2>3
<1>5. CASE ApplyStored(w) \/ ApplyDeleted(w) \/ ApplyMissing(w) \/ ApplyConfirmed(w)
        \/ ApplyGone(w) \/ DeleteRefused(w)
  BY <1>1, <1>5
     DEF ApplyStored, ApplyDeleted, ApplyMissing, ApplyConfirmed, ApplyGone, DeleteRefused
<1>6. CASE Redelete(w)
  BY <1>2, <1>6 DEF Redelete
<1>7. CASE Reread(w)
  BY <1>1, <1>7 DEF Reread
<1>8. CASE PushDone(w) /\ w = Loop
  BY <1>8 DEF PushDone
<1> QED BY <1>3, <1>4, <1>5, <1>6, <1>7, <1>8 DEF PushStep

LEMMA WriteInHandStep == TypeOK /\ WriteInHand /\ [Next]_vars => WriteInHand'
<1> SUFFICES ASSUME TypeOK, WriteInHand, [Next]_vars
             PROVE  WriteInHand'
  OBVIOUS
<1>0. \A w \in Workers : InHand(w)
  BY InHandParts
<1>1. ASSUME NEW w \in Workers, PushStep(w)
      PROVE  WriteInHand'
  <2>1. CASE PushDone(w) /\ w # Loop
    <3>1. \A v \in Workers : pc'[v] = "idle" /\ ans'[v] = Says("none")
      BY <2>1 DEF PushDone
    <3>2. \A v \in Workers : InHand(v)'
      BY <3>1 DEF InHand, Writing, Says
    <3> QED BY <3>2, InHandParts
  <2>2. CASE w = Loop \/ ~PushDone(w)
    <3>1. \A v \in Workers \ {w} : InHand(v)'
      BY <1>0, <1>1, <2>2, OthersKept DEF InHand
    <3>2. InHand(w)'
      <4>1. CASE Begin(w) \/ DeleteCurrent(w) \/ PushDone(w)
        <5>1. /\ UNCHANGED <<cur[w], ans[w]>>
              /\ pc'[w] \in Writing => pc[w] \in Writing
          BY <1>1, <2>2, <4>1
             DEF Begin, DeleteCurrent, PushDone, Goto, At, Writing, TypeOK
        <5> QED BY <1>0, <5>1, InHandKept
      <4>2. CASE NeedCopy(w) \/ FetchOne(w) \/ Rebase(w) \/ Redelete(w)
        <5>1. cur[w] \in Pending /\ UNCHANGED cur
          BY <1>0, <4>2 DEF NeedCopy, FetchOne, Rebase, Redelete, At, InHand, Writing
        <5> QED BY <5>1 DEF InHand
      <4>3. CASE Send(w)
        <5>1. cur'[w] \in Pending
          BY <1>0, <4>3 DEF Send, At, InHand, Writing, TypeOK
        <5> QED BY <5>1 DEF InHand
      <4>4. CASE Reread(w)
        <5>1. CASE Done(w)
          BY <5>1, InHandAfterDone
        <5>2. CASE ~Done(w)
          <6>1. cur[w].href \in Hrefs
            BY <1>0, <4>4 DEF Reread, At, InHand, Writing, Pending
          <6>2. PendingOf(cur[w].href) \in Pending
            BY <6>1, PendingOfType DEF TypeOK
          <6>3. cur'[w] \in Pending
            BY <4>4, <5>2, <6>2 DEF Reread, TypeOK
          <6> QED BY <6>3 DEF InHand
        <5> QED BY <5>1, <5>2
      <4>5. CASE Done(w)
        BY <4>5, InHandAfterDone
      <4> QED BY <1>1, <4>1, <4>2, <4>3, <4>4, <4>5
            DEF PushStep, ApplyStored, ApplyDeleted, ApplyMissing, ApplyConfirmed, ApplyGone,
                DeleteRefused
    <3> QED BY <3>1, <3>2, InHandParts
  <2> QED BY <2>1, <2>2
<1>2. CASE PullStep
  <2>1. \/ Leave(Loop)
        \/ /\ UNCHANGED <<cur, ans>>
           /\ pc' \in {[pc EXCEPT ![Loop] = step] :
                         step \in {"changes", "known", "fetch", "store", "finish"}}
    BY <1>2 DEF PullStep, ReadLists, ReadChanges, ReadKnown, FetchWanted, StoreFetched, Finish, Goto
  <2>2. \A w \in Workers \ {Loop} : InHand(w)'
    BY <1>0, <2>1 DEF InHand, Leave, Goto, TypeOK
  <2>3. InHand(Loop)'
    <3>1. CASE Leave(Loop)
      BY <3>1, WorkersAssumption, InHandAfterDone
    <3>2. CASE ~Leave(Loop)
      <4>1. UNCHANGED <<cur[Loop], ans[Loop]>> /\ pc'[Loop] \notin Writing
        BY <2>1, <3>2, WorkersAssumption DEF Writing, TypeOK
      <4> QED BY <1>0, <4>1, InHandKept, WorkersAssumption
    <3> QED BY <3>1, <3>2
  <2> QED BY <2>2, <2>3, InHandParts
<1>3. CASE UNCHANGED vars \/ UserStep \/ PhoneStep \/ TimePasses
  <2>1. UNCHANGED push
    BY <1>3 DEF vars, UserStep, LocalCreate, LocalEdit, LocalDelete, PhoneStep, PhoneCreate,
                PhoneEdit, PhoneBreaks, PhoneDelete, TimePasses
  <2> QED BY <1>0, <2>1, InHandParts DEF push, InHand
<1>4. CASE FaultStep
  <2>1. CASE Crash
    BY <2>1, InHandParts DEF Crash, InHand, Writing, Says
  <2>2. ASSUME NEW w \in Workers, NetworkFails(w) \/ ServerError(w)
        PROVE  WriteInHand'
    <3>1. /\ pc'[w] \in {"idle", "push"} /\ ans'[w] = Says("none")
          /\ \A v \in Workers \ {w} : UNCHANGED <<pc[v], cur[v], ans[v]>>
      BY <2>2 DEF NetworkFails, ServerError, Leave, Goto, TypeOK
    <3>2. \A v \in Workers : InHand(v)'
      BY <1>0, <3>1 DEF InHand, Writing, Says
    <3> QED BY <3>2, InHandParts
  <2> QED BY <1>4, <2>1, <2>2 DEF FaultStep
<1> QED BY <1>1, <1>2, <1>3, <1>4 DEF Next

-----------------------------------------------------------------------------
(***************************************************************************)
(* What a step can do to the server, to the rows, and to what the workers  *)
(* hold.  Each invariant then follows from these shapes, whatever the      *)
(* action was.                                                             *)
(***************************************************************************)

\* The server takes one write: a new ETag, and a copy made from the one it
\* replaces.  The rows wait for the answer.
ServerWrites(h) ==
  /\ clock' = clock + 1
  /\ \A g \in Hrefs \ {h} : srv'[g] = srv[g]
  /\ srv'[h].at = clock + 1
  /\ srv[h].live /\ srv'[h].live => srv[h].body.seen \subseteq srv'[h].body.seen
  /\ UNCHANGED <<rows, fetched>>

Written == UNCHANGED <<srv, clock>> \/ \E h \in Hrefs : ServerWrites(h)

LEMMA PutWrites ==
  ASSUME TypeOK, NEW h \in Hrefs, NEW body, ServerPut(h, body), UNCHANGED <<rows, fetched>>,
         srv[h].live => srv[h].body.seen \subseteq body.seen
  PROVE  Written
<1>1. /\ clock' = clock + 1
      /\ srv' = [srv EXCEPT ![h] = [live |-> TRUE, at |-> clock + 1, body |-> body]]
  BY DEF ServerPut
<1>2. /\ srv'[h] = [live |-> TRUE, at |-> clock + 1, body |-> body]
      /\ \A g \in Hrefs \ {h} : srv'[g] = srv[g]
  BY <1>1 DEF TypeOK
<1>3. srv'[h].at = clock + 1 /\ srv'[h].body = body
  BY <1>2
<1> QED BY <1>1, <1>2, <1>3 DEF Written, ServerWrites

LEMMA RemoveWrites ==
  ASSUME TypeOK, NEW h \in Hrefs, ServerRemove(h), UNCHANGED <<rows, fetched>>
  PROVE  Written
<1>1. /\ clock' = clock + 1
      /\ srv' = [srv EXCEPT ![h] = [srv[h] EXCEPT !.live = FALSE, !.at = clock + 1]]
  BY DEF ServerRemove
<1>2. /\ srv'[h] = [srv[h] EXCEPT !.live = FALSE, !.at = clock + 1]
      /\ \A g \in Hrefs \ {h} : srv'[g] = srv[g]
  BY <1>1 DEF TypeOK
<1>3. srv[h] \in Resource
  BY DEF TypeOK
<1>4. srv'[h].at = clock + 1 /\ srv'[h].live = FALSE
  BY <1>2, <1>3 DEF Resource
<1> QED BY <1>1, <1>2, <1>4 DEF Written, ServerWrites

\* The server changes by a write made from its copy, or not at all.
LEMMA ServerStep ==
  ASSUME TypeOK, ETagsGiven, WriteInHand, UpdatesMadeFromCopy, [Next]_vars
  PROVE  Written
<1>1. CASE \E w \in Workers : Send(w)
  <2>1. PICK w \in Workers : Send(w)
    BY <1>1
  <2>2. PICK p \in todo[w] \cup {cur[w]} :
          /\ p \in todo[w] \/ (At(w, "again") /\ p = cur[w])
          /\ IF p.op = "delete" THEN TakeDelete(w, p.href, p.etag) ELSE TakePut(w, p)
          /\ UNCHANGED <<cache, pull>>
    BY <2>1 DEF Send
  <2>3. p \in Pending /\ p.href \in Hrefs
    <3>1. p \in Pending
      BY <2>2 DEF WriteInHand, TypeOK, At
    <3> QED BY <3>1 DEF Pending
  <2>4. UNCHANGED <<rows, fetched>>
    BY <2>2 DEF cache, pull
  <2>5. CASE UNCHANGED server
    BY <2>5 DEF server, Written
  <2>6. CASE ServerRemove(p.href)
    BY <2>3, <2>4, <2>6, RemoveWrites
  <2>7. CASE p.op = "update" /\ Holds(p.href, p.etag) /\ ServerPut(p.href, p.body)
    <3>1. srv[p.href].body.seen \subseteq p.body.seen
      BY <2>2, <2>7 DEF UpdatesMadeFromCopy
    <3> QED BY <2>3, <2>4, <2>7, <3>1, PutWrites
  <2>8. CASE ~srv[p.href].live /\ ServerPut(p.href, p.body)
    BY <2>3, <2>4, <2>8, PutWrites
  <2> QED BY <2>2, <2>5, <2>6, <2>7, <2>8 DEF TakePut, TakeDelete
<1>2. CASE \E w \in Workers : Redelete(w)
  <2>1. PICK w \in Workers : Redelete(w)
    BY <1>2
  <2>2. cur[w].href \in Hrefs
    BY <2>1 DEF Redelete, At, WriteInHand, Pending
  <2>3. UNCHANGED <<rows, fetched>>
    BY <2>1 DEF Redelete, cache, pull
  <2>4. UNCHANGED server \/ ServerRemove(cur[w].href)
    BY <2>1 DEF Redelete, TakeDelete
  <2> QED BY <2>2, <2>3, <2>4, RemoveWrites DEF server, Written
<1>3. CASE \E w \in Workers : PushStep(w) /\ ~Send(w) /\ ~Redelete(w)
  BY <1>3
     DEF PushStep, Begin, ApplyStored, ApplyDeleted, ApplyMissing, NeedCopy, FetchOne,
         ApplyConfirmed, ApplyGone, DeleteCurrent, DeleteRefused, Rebase, Reread, PushDone,
         server, Written
<1>4. CASE PullStep \/ UserStep \/ TimePasses \/ FaultStep \/ UNCHANGED vars
  BY <1>4
     DEF PullStep, ReadLists, ReadChanges, ReadKnown, FetchWanted, StoreFetched, Finish,
         UserStep, LocalCreate, LocalEdit, LocalDelete, TimePasses,
         FaultStep, Crash, NetworkFails, ServerError, vars, server, Written
<1>5. ASSUME NEW h \in Hrefs, PhoneCreate(h)
      PROVE  Written
  <2>1. ~srv[h].live
    BY <1>5 DEF PhoneCreate, Unused, ETagsGiven
  <2>2. UNCHANGED <<rows, fetched>>
    BY <1>5 DEF PhoneCreate, cache, pull
  <2> QED BY <1>5, <2>1, <2>2, PutWrites DEF PhoneCreate
<1>6. ASSUME NEW h \in Hrefs, NEW op \in {"title", "complete"}, PhoneEdit(h, op)
      PROVE  Written
  <2>1. UNCHANGED <<rows, fetched>>
    BY <1>6 DEF PhoneEdit, cache, pull
  <2>2. \A es : srv[h].body.seen \subseteq Combined(srv[h].body, es).seen
    BY CombinedSeesMore
  <2> QED BY <1>6, <2>1, <2>2, PutWrites DEF PhoneEdit
<1>7. ASSUME NEW h \in Hrefs, NEW kind \in PhoneKinds, PhoneBreaks(h, kind)
      PROVE  Written
  <2>1. UNCHANGED <<rows, fetched>>
    BY <1>7 DEF PhoneBreaks, cache, pull
  <2>2. srv[h].body \in Body
    BY DEF TypeOK, Resource
  <2>3. [srv[h].body EXCEPT !.kind = kind].seen = srv[h].body.seen
    BY <2>2 DEF Body
  <2> QED BY <1>7, <2>1, <2>3, PutWrites DEF PhoneBreaks
<1>8. ASSUME NEW h \in Hrefs, PhoneDelete(h)
      PROVE  Written
  <2>1. UNCHANGED <<rows, fetched>>
    BY <1>8 DEF PhoneDelete, cache, pull
  <2> QED BY <1>8, <2>1, RemoveWrites DEF PhoneDelete
<1> QED
  BY <1>1, <1>2, <1>3, <1>4, <1>5, <1>6, <1>7, <1>8 DEF Next, PhoneStep

\* A copy somebody holds of a resource, with its ETag.
GivenCopy(h, etag, body) ==
  \/ \E w \in Workers : /\ cur[w].href = h /\ ans[w].etag = etag /\ ans[w].body = body
                        /\ ans[w].kind \in {"stored", "kept", "copy"}
  \/ \E f \in fetched : f.href = h /\ f.etag = etag /\ f.body = body

Shown(r) == r.ics = Combined(r.base, r.edits)

\* A row goes; keeps its copy, with edits added; is created here; or is put on a
\* copy somebody holds.
RowMoves(h) ==
  \/ ~rows'[h].here /\ rows'[h].etag = 0
  \/ /\ rows'[h].here = rows[h].here
     /\ rows'[h].etag = rows[h].etag
     /\ rows'[h].base = rows[h].base
     /\ Shown(rows[h]) => Shown(rows'[h])
  \/ rows'[h].etag = 0 /\ Shown(rows'[h])
  \/ GivenCopy(h, rows'[h].etag, rows'[h].base) /\ Shown(rows'[h])

LEMMA OnTopOfFields ==
  ASSUME NEW r \in Row, NEW etag \in Nat, NEW base \in Body, NEW edits \in Seq(Edit)
  PROVE  /\ OnTopOf(r, etag, base, edits).etag = etag
         /\ OnTopOf(r, etag, base, edits).base = base
         /\ Shown(OnTopOf(r, etag, base, edits))
BY DEF OnTopOf, Row, Shown

LEMMA ServerCopyFields ==
  ASSUME NEW r \in Row, NEW etag \in Nat, NEW copy \in Body, NEW q,
         q = ServerCopy(r, etag, copy)
  PROVE  (~q.here /\ q.etag = 0) \/ (q.etag = etag /\ q.base = copy /\ Shown(q))
<1>1. CASE copy.kind = "other"
  BY <1>1 DEF ServerCopy, NoRow
<1>2. CASE copy.kind # "other"
  <2>1. q = OnTopOf(r, etag, copy, Rebased(r, copy))
    BY <1>2 DEF ServerCopy
  <2> QED BY <2>1, OnTopOfFields, RebasedType
<1> QED BY <1>1, <1>2

LEMMA ForgetMoves ==
  ASSUME TypeOK, NEW g \in Hrefs, Forget(g)
  PROVE  \A h \in Hrefs : RowMoves(h)
BY DEF Forget, TypeOK, RowMoves, NoRow

LEMMA PushedMoves ==
  ASSUME TypeOK, NEW w \in Workers, cur[w] \in Pending, NEW copy \in Body,
         ans[w].kind \in {"stored", "copy"}, ans[w].body = copy,
         Pushed(cur[w], ans[w].etag, copy)
  PROVE  \A h \in Hrefs : RowMoves(h)
<1> SUFFICES ASSUME NEW h \in Hrefs
             PROVE  RowMoves(h)
  OBVIOUS
<1>1. ans[w].etag \in Nat /\ rows \in [Hrefs -> Row] /\ rows[h] \in Row
  BY DEF TypeOK, Answer
<1>2. \/ rows'[h] = rows[h]
      \/ /\ h = cur[w].href
         /\ rows'[h] = OnTopOf(rows[h], ans[w].etag, copy, Unsent(rows[h], cur[w]))
  BY <1>1, PushedRows
<1>3. CASE rows'[h] = rows[h]
  BY <1>3 DEF RowMoves
<1>4. CASE h = cur[w].href
           /\ rows'[h] = OnTopOf(rows[h], ans[w].etag, copy, Unsent(rows[h], cur[w]))
  <2>1. rows'[h].etag = ans[w].etag /\ rows'[h].base = copy /\ Shown(rows'[h])
    BY <1>1, <1>4, OnTopOfFields, UnsentType
  <2> QED BY <1>4, <2>1 DEF RowMoves, GivenCopy
<1> QED BY <1>2, <1>3, <1>4

\* Rows change only while the server does not, each in one of those ways.
LEMMA RowsStep ==
  ASSUME TypeOK, WriteInHand, AnswersHold, [Next]_vars, ~ UNCHANGED rows
  PROVE  UNCHANGED <<srv, clock>> /\ \A h \in Hrefs : RowMoves(h)
<1>0. rows \in [Hrefs -> Row]
  BY DEF TypeOK
<1>1. ASSUME NEW w \in Workers, PushStep(w)
      PROVE  UNCHANGED <<srv, clock>> /\ \A h \in Hrefs : RowMoves(h)
  <2>1. CASE ApplyStored(w)
    <3>1. /\ cur[w] \in Pending /\ ans[w].kind = "stored" /\ ans[w].body = cur[w].body
          /\ Pushed(cur[w], ans[w].etag, cur[w].body)
      BY <2>1 DEF ApplyStored, At, WriteInHand, AnswersHold
    <3>2. cur[w].body \in Body
      BY <3>1 DEF Pending
    <3>3. \A h \in Hrefs : RowMoves(h)
      BY <3>1, <3>2, PushedMoves
    <3> QED BY <2>1, <3>3 DEF ApplyStored, server
  <2>2. CASE ApplyConfirmed(w)
    <3>1. /\ cur[w] \in Pending /\ ans[w].kind = "copy"
          /\ Pushed(cur[w], ans[w].etag, ans[w].body)
      BY <2>2 DEF ApplyConfirmed, At, WriteInHand
    <3>2. ans[w].body \in Body
      BY DEF TypeOK, Answer
    <3>3. \A h \in Hrefs : RowMoves(h)
      BY <3>1, <3>2, PushedMoves
    <3> QED BY <2>2, <3>3 DEF ApplyConfirmed, server
  <2>3. CASE ApplyDeleted(w) \/ ApplyMissing(w) \/ ApplyGone(w)
    <3>1. cur[w].href \in Hrefs /\ Forget(cur[w].href) /\ UNCHANGED server
      BY <2>3 DEF ApplyDeleted, ApplyMissing, ApplyGone, At, WriteInHand, Pending
    <3> QED BY <3>1, ForgetMoves DEF server
  <2>4. CASE Rebase(w)
    <3> DEFINE g == cur[w].href
               q == ServerCopy(rows[g], ans[w].etag, ans[w].body)
    <3>1. g \in Hrefs /\ ans[w].kind = "copy" /\ rows' = [rows EXCEPT ![g] = q]
      BY <2>4 DEF Rebase, At, WriteInHand, Pending
    <3>2. rows[g] \in Row
      BY <1>0, <3>1
    <3>3. (~q.here /\ q.etag = 0) \/ (q.etag = ans[w].etag /\ q.base = ans[w].body /\ Shown(q))
      <4>1. ans[w].etag \in Nat /\ ans[w].body \in Body
        BY DEF TypeOK, Answer
      <4> QED BY <3>2, <4>1, ServerCopyFields
    <3>4. GivenCopy(g, ans[w].etag, ans[w].body)
      BY <3>1 DEF GivenCopy
    <3>5. rows'[g] = q /\ \A h \in Hrefs \ {g} : rows'[h] = rows[h]
      BY <1>0, <3>1
    <3> HIDE DEF g, q
    <3>6. \A h \in Hrefs : RowMoves(h)
      BY <3>3, <3>4, <3>5 DEF RowMoves
    <3> QED BY <2>4, <3>6 DEF Rebase, server
  <2> QED
    BY <1>1, <2>1, <2>2, <2>3, <2>4
       DEF PushStep, Begin, Send, NeedCopy, FetchOne, DeleteCurrent, Redelete, DeleteRefused,
           Reread, PushDone, cache
<1>2. CASE StoreFetched
  <2>1. ASSUME NEW h \in Hrefs
        PROVE  RowMoves(h)
    <3>1. CASE \E f \in fetched : f.href = h
      <4> DEFINE f == CHOOSE g \in fetched : g.href = h
                 q == ServerCopy(rows[h], f.etag, f.body)
      <4>1. f \in fetched /\ f.href = h
        BY <3>1
      <4>2. rows'[h] = q
        BY <1>2, <3>1 DEF StoreFetched
      <4> HIDE DEF f
      <4>3. (~q.here /\ q.etag = 0) \/ (q.etag = f.etag /\ q.base = f.body /\ Shown(q))
        <5>1. f.etag \in Nat /\ f.body \in Body
          BY <4>1 DEF TypeOK, Copy
        <5> QED BY <1>0, <5>1, ServerCopyFields
      <4>4. GivenCopy(h, f.etag, f.body)
        BY <4>1 DEF GivenCopy
      <4> HIDE DEF q
      <4> QED BY <4>2, <4>3, <4>4 DEF RowMoves
    <3>2. CASE ~ \E f \in fetched : f.href = h
      BY <1>2, <3>2 DEF StoreFetched, RowMoves
    <3> QED BY <3>1, <3>2
  <2> QED BY <1>2, <2>1 DEF StoreFetched, server
<1>3. CASE Finish
  BY <1>3 DEF Finish, server, RowMoves, NoRow
<1>4. ASSUME NEW g \in Hrefs, LocalCreate(g)
      PROVE  UNCHANGED <<srv, clock>> /\ \A h \in Hrefs : RowMoves(h)
  <2>1. PICK base \in Body, edits \in Seq(Edit) :
          rows' = [rows EXCEPT ![g] = OnTopOf(NoRow, 0, base, edits)]
    <3> DEFINE e == [id |-> NextId, op |-> "title"]
    <3>1. <<e>> \in Seq(Edit) /\ <<>> \in Seq(Edit)
      BY TypeParts, OneEditType, EmptySeq
    <3>2. Combined(NewBody, <<e>>) \in Body
      BY <3>1, NewBodyType, CombinedType
    <3> QED BY <1>4, <3>1, <3>2, NewBodyType DEF LocalCreate
  <2>2. rows'[g] = OnTopOf(NoRow, 0, base, edits) /\ \A h \in Hrefs \ {g} : rows'[h] = rows[h]
    BY <1>0, <2>1
  <2>3. rows'[g].etag = 0 /\ Shown(rows'[g])
    <3>1. 0 \in Nat
      OBVIOUS
    <3>2. OnTopOf(NoRow, 0, base, edits).etag = 0
      BY <3>1, OnTopOfFields, NoRowType
    <3>3. Shown(OnTopOf(NoRow, 0, base, edits))
      BY <3>1, OnTopOfFields, NoRowType
    <3> QED BY <2>2, <3>2, <3>3
  <2>4. \A h \in Hrefs : RowMoves(h)
    BY <2>2, <2>3 DEF RowMoves
  <2> QED BY <1>4, <2>4 DEF LocalCreate, server
<1>5. ASSUME NEW g \in Hrefs, NEW op \in {"title", "complete"}, LocalEdit(g, op)
      PROVE  UNCHANGED <<srv, clock>> /\ \A h \in Hrefs : RowMoves(h)
  <2> DEFINE e == [id |-> NextId, op |-> op]
             r == rows[g]
             q == [r EXCEPT !.edits = Append(r.edits, e), !.ics = Combined(r.ics, <<e>>)]
  <2>1. rows' = [rows EXCEPT ![g] = q] /\ UNCHANGED <<srv, clock>>
    BY <1>5 DEF LocalEdit, server
  <2>2. r \in Row /\ r.base \in Body /\ r.edits \in Seq(Edit)
    BY <1>0 DEF Row
  <2>3. e \in Edit
    BY TypeParts, OneEditType
  <2>4. /\ q.here = r.here /\ q.etag = r.etag /\ q.base = r.base
        /\ q.edits = Append(r.edits, e) /\ q.ics = Combined(r.ics, <<e>>)
    BY <2>2 DEF Row
  <2>5. Shown(r) => Shown(q)
    <3>1. Combined(Combined(r.base, r.edits), <<e>>) = Combined(r.base, Append(r.edits, e))
      BY <2>2, <2>3, CombinedAppend
    <3> HIDE DEF q, r, e
    <3> QED BY <2>4, <3>1 DEF Shown
  <2>6. rows'[g] = q /\ \A h \in Hrefs \ {g} : rows'[h] = rows[h]
    BY <1>0, <2>1
  <2> HIDE DEF q, e
  <2>7. \A h \in Hrefs : RowMoves(h)
    BY <2>4, <2>5, <2>6 DEF RowMoves
  <2> QED BY <2>1, <2>7
<1>6. ASSUME NEW g \in Hrefs, LocalDelete(g)
      PROVE  UNCHANGED <<srv, clock>> /\ \A h \in Hrefs : RowMoves(h)
  <2>1. CASE Forget(g)
    BY <1>6, <2>1, ForgetMoves DEF LocalDelete, server
  <2>2. CASE rows' = [rows EXCEPT ![g] = [@ EXCEPT !.deleted = TRUE]]
    <3> DEFINE q == [rows[g] EXCEPT !.deleted = TRUE]
    <3>1. /\ q.here = rows[g].here /\ q.etag = rows[g].etag /\ q.base = rows[g].base
          /\ Shown(rows[g]) => Shown(q)
      BY <1>0 DEF Row, Shown
    <3>2. rows'[g] = q /\ \A h \in Hrefs \ {g} : rows'[h] = rows[h]
      BY <1>0, <2>2
    <3> HIDE DEF q
    <3>3. \A h \in Hrefs : RowMoves(h)
      BY <3>1, <3>2 DEF RowMoves
    <3> QED BY <1>6, <3>3 DEF LocalDelete, server
  <2> QED BY <1>6, <2>1, <2>2 DEF LocalDelete
<1> QED
  BY <1>1, <1>2, <1>3, <1>4, <1>5, <1>6
     DEF Next, PullStep, ReadLists, ReadChanges, ReadKnown, FetchWanted, UserStep, PhoneStep,
         PhoneCreate, PhoneEdit, PhoneBreaks, PhoneDelete, TimePasses, FaultStep, Crash,
         NetworkFails, ServerError, vars, cache

-----------------------------------------------------------------------------
(* What a step can do to what the workers hold. *)

\* An answer stays, is dropped or carries nothing; is the server's copy as it
\* is; or is that of the write the server takes now.
AnswerMoves(w) ==
  \/ cur'[w] = cur[w] /\ ans'[w] = ans[w]
  \/ ans'[w].kind \notin {"stored", "kept", "copy"} /\ ans'[w].etag \in {0, ans[w].etag}
  \/ /\ UNCHANGED <<srv, clock>> /\ cur'[w] = cur[w] /\ cur[w].href \in Hrefs
     /\ ans'[w] = CopyOf(cur[w].href)
  \/ /\ clock' = clock + 1 /\ ans'[w].etag = clock + 1
     /\ ans'[w].body = cur'[w].body /\ srv'[cur'[w].href].body = cur'[w].body

\* A write queued or under way was one before, or is read off its row now.
WriteMoves(w) ==
  \A p \in todo'[w] \cup {cur'[w]} :
    \/ p \in todo[w] \cup {cur[w]}
    \/ p = NoWrite
    \/ UNCHANGED <<srv, clock>> /\ \E h \in Hrefs : rows[h].here /\ p = PendingOf(h)

Moves(w) == AnswerMoves(w) /\ WriteMoves(w)

Keeps(w) == todo'[w] = todo[w] /\ cur'[w] = cur[w] /\ ans'[w] = ans[w]

Drops(w) == todo'[w] \subseteq todo[w] /\ cur'[w] = NoWrite /\ ans'[w] = Says("none")

LEMMA KeepsMoves ==
  ASSUME NEW w \in Workers, Keeps(w) \/ Drops(w)
  PROVE  Moves(w)
BY DEF Keeps, Drops, Moves, AnswerMoves, WriteMoves, Says

\* Done, Leave and a fault drop what one worker holds; the rest keep theirs.
LEMMA DoneMoves ==
  ASSUME TypeOK, NEW w \in Workers,
         Done(w) \/ Leave(w) \/ NetworkFails(w) \/ ServerError(w)
  PROVE  \A v \in Workers : Moves(v)
<1>1. Drops(w) /\ \A v \in Workers \ {w} : Keeps(v)
  BY DEF Done, Leave, NetworkFails, ServerError, Drops, Keeps, TypeOK
<1> QED BY <1>1, KeepsMoves

\* So does the end of asstd.
LEMMA AllIdleMoves ==
  ASSUME todo' = [w \in Workers |-> {}], cur' = [w \in Workers |-> NoWrite],
         ans' = [w \in Workers |-> Says("none")]
  PROVE  \A v \in Workers : Moves(v)
<1>1. \A v \in Workers : Drops(v)
  BY DEF Drops
<1> QED BY <1>1, KeepsMoves

\* An answer of the server to a write under way or sent now.
LEMMA TakeMoves ==
  ASSUME TypeOK, NEW w \in Workers, NEW p \in Pending, cur'[w] = p,
         TakePut(w, p) \/ \E etag \in Nat : TakeDelete(w, p.href, etag)
  PROVE  AnswerMoves(w) /\ \A v \in Workers \ {w} : ans'[v] = ans[v]
<1>1. p.href \in Hrefs /\ ans \in [Workers -> Answer]
  BY DEF Pending, TypeOK
<1>2. CASE \E kind \in Answers \ {"stored", "kept", "copy"} : ans' = [ans EXCEPT ![w] = Says(kind)]
  BY <1>1, <1>2 DEF AnswerMoves, Says
<1>3. CASE /\ ServerPut(p.href, p.body)
           /\ \E kind \in {"stored", "kept"} :
                ans' = [ans EXCEPT ![w] = [kind |-> kind, etag |-> clock + 1, body |-> p.body]]
  <2>1. clock' = clock + 1 /\ srv'[p.href].body = p.body
    BY <1>1, <1>3 DEF ServerPut, TypeOK
  <2>2. /\ ans'[w].etag = clock + 1 /\ ans'[w].body = p.body
        /\ \A v \in Workers \ {w} : ans'[v] = ans[v]
    BY <1>1, <1>3
  <2> QED BY <2>1, <2>2 DEF AnswerMoves
<1>4. TakePut(w, p) => \/ /\ ServerPut(p.href, p.body)
                          /\ \E kind \in {"stored", "kept"} :
                               ans' = [ans EXCEPT ![w] = [kind |-> kind, etag |-> clock + 1,
                                                          body |-> p.body]]
                       \/ \E kind \in Answers \ {"stored", "kept", "copy"} :
                            ans' = [ans EXCEPT ![w] = Says(kind)]
  BY DEF TakePut, Answers
<1>5. (\E etag \in Nat : TakeDelete(w, p.href, etag)) =>
        \E kind \in Answers \ {"stored", "kept", "copy"} : ans' = [ans EXCEPT ![w] = Says(kind)]
  BY DEF TakeDelete, Answers
<1> QED BY <1>2, <1>3, <1>4, <1>5

LEMMA PushMoves ==
  ASSUME TypeOK, WriteInHand, AnsweredBeforeReread, NEW w \in Workers, PushStep(w)
  PROVE  \A v \in Workers : Moves(v)
<1>0. /\ todo \in [Workers -> SUBSET Pending] /\ ans \in [Workers -> Answer]
      /\ cur \in [Workers -> Pending \cup {NoWrite}] /\ rows \in [Hrefs -> Row]
  BY DEF TypeOK
<1>1. CASE Begin(w)
  <2>1. \A v \in Workers \ {w} : Keeps(v)
    BY <1>0, <1>1 DEF Begin, Keeps
  <2>2. cur'[w] = cur[w] /\ ans'[w] = ans[w] /\ todo'[w] = AllPending /\ UNCHANGED <<srv, clock>>
    BY <1>0, <1>1 DEF Begin, server
  <2>3. \A p \in AllPending : \E h \in Hrefs : rows[h].here /\ p = PendingOf(h)
    BY DEF AllPending, IsPending
  <2>4. AnswerMoves(w)
    BY <2>2 DEF AnswerMoves
  <2>5. WriteMoves(w)
    BY <2>2, <2>3 DEF WriteMoves
  <2> QED BY <2>1, <2>4, <2>5, KeepsMoves DEF Moves
<1>2. CASE Send(w)
  <2>1. PICK p \in todo[w] \cup {cur[w]} :
          /\ \/ At(w, "push") /\ p \in todo[w] /\ todo' = [todo EXCEPT ![w] = @ \ {p}]
             \/ At(w, "again") /\ p = cur[w] /\ UNCHANGED todo
          /\ cur' = [cur EXCEPT ![w] = p]
          /\ IF p.op = "delete" THEN TakeDelete(w, p.href, p.etag) ELSE TakePut(w, p)
    BY <1>2 DEF Send
  <2>2. p \in Pending /\ cur'[w] = p /\ p.etag \in Nat
    <3>1. p \in Pending
      BY <1>0, <2>1 DEF WriteInHand, At
    <3> QED BY <1>0, <2>1, <3>1 DEF Pending
  <2>3. AnswerMoves(w) /\ \A v \in Workers \ {w} : ans'[v] = ans[v]
    BY <2>1, <2>2, TakeMoves
  <2>4. /\ \A v \in Workers \ {w} : todo'[v] = todo[v] /\ cur'[v] = cur[v]
        /\ todo'[w] \subseteq todo[w]
    BY <1>0, <2>1
  <2>5. WriteMoves(w)
    BY <2>1, <2>2, <2>4 DEF WriteMoves
  <2>6. \A v \in Workers \ {w} : Keeps(v)
    BY <2>3, <2>4 DEF Keeps
  <2> QED BY <2>3, <2>5, <2>6, KeepsMoves DEF Moves
<1>3. CASE Done(w)
  BY <1>3, DoneMoves
<1>4. CASE UNCHANGED <<todo, cur, ans>>
  <2>1. \A v \in Workers : Keeps(v)
    BY <1>4 DEF Keeps
  <2> QED BY <2>1, KeepsMoves
<1>5. CASE NeedCopy(w) \/ Rebase(w)
  <2>1. ans' = [ans EXCEPT ![w] = Says("none")] /\ UNCHANGED <<todo, cur>>
    BY <1>5 DEF NeedCopy, Rebase
  <2>2. ans'[w] = Says("none") /\ \A v \in Workers \ {w} : Keeps(v)
    BY <1>0, <2>1 DEF Keeps
  <2>3. AnswerMoves(w) /\ WriteMoves(w)
    BY <2>1, <2>2 DEF AnswerMoves, WriteMoves, Says
  <2> QED BY <2>2, <2>3, KeepsMoves DEF Moves
<1>6. CASE FetchOne(w)
  <2>1. /\ ans' = [ans EXCEPT ![w] = IF srv[cur[w].href].live THEN CopyOf(cur[w].href)
                                                              ELSE Says("missing")]
        /\ UNCHANGED <<todo, cur, srv, clock>>
    BY <1>6 DEF FetchOne, server
  <2>2. cur[w].href \in Hrefs
    BY <1>6 DEF FetchOne, WriteInHand, Pending
  <2>3. \A v \in Workers \ {w} : Keeps(v)
    BY <1>0, <2>1 DEF Keeps
  <2>4. ans'[w] = CopyOf(cur[w].href) \/ ans'[w] = Says("missing")
    BY <1>0, <2>1
  <2>5. AnswerMoves(w) /\ WriteMoves(w)
    BY <2>1, <2>2, <2>4 DEF AnswerMoves, WriteMoves, Says
  <2> QED BY <2>3, <2>5, KeepsMoves DEF Moves
<1>7. CASE Redelete(w)
  <2>1. cur[w] \in Pending /\ ans[w].etag \in Nat
    BY <1>0, <1>7 DEF Redelete, At, WriteInHand, Answer
  <2>2. TakeDelete(w, cur[w].href, ans[w].etag) /\ UNCHANGED <<todo, cur>>
    BY <1>7 DEF Redelete
  <2>3. AnswerMoves(w) /\ \A v \in Workers \ {w} : ans'[v] = ans[v]
    BY <2>1, <2>2, TakeMoves
  <2>4. WriteMoves(w) /\ \A v \in Workers \ {w} : Keeps(v)
    BY <2>2, <2>3 DEF WriteMoves, Keeps
  <2> QED BY <2>3, <2>4, KeepsMoves DEF Moves
<1>8. CASE Reread(w) /\ ~Done(w)
  <2>1. /\ cur' = [cur EXCEPT ![w] = PendingOf(cur[w].href)]
        /\ IsPending(rows[cur[w].href]) /\ UNCHANGED <<todo, ans, srv, clock>>
    BY <1>8 DEF Reread, server
  <2>2. cur[w].href \in Hrefs
    BY <1>8 DEF Reread, At, WriteInHand, Pending
  <2>3. /\ \A v \in Workers \ {w} : Keeps(v)
        /\ cur'[w] = PendingOf(cur[w].href) /\ todo'[w] = todo[w]
        /\ ans'[w].etag = ans[w].etag /\ ans'[w].kind = ans[w].kind
    BY <1>0, <2>1 DEF Keeps
  <2>4. ans[w].kind = "none"
    BY <1>8 DEF Reread, At, AnsweredBeforeReread
  <2>5. AnswerMoves(w)
    BY <2>1, <2>4 DEF AnswerMoves
  <2>6. WriteMoves(w)
    BY <2>1, <2>2, <2>3 DEF WriteMoves, IsPending
  <2> QED BY <2>3, <2>5, <2>6, KeepsMoves DEF Moves
<1>9. CASE PushDone(w)
  <2>1. UNCHANGED <<todo, cur, ans>> \/ \A v \in Workers : Moves(v)
    BY <1>9, AllIdleMoves DEF PushDone
  <2> QED BY <1>4, <2>1
<1> QED
  BY <1>1, <1>2, <1>3, <1>4, <1>5, <1>6, <1>7, <1>8, <1>9
     DEF PushStep, ApplyStored, ApplyDeleted, ApplyMissing, ApplyConfirmed, ApplyGone,
         DeleteCurrent, DeleteRefused

LEMMA WorkersStep ==
  ASSUME TypeOK, WriteInHand, AnsweredBeforeReread, [Next]_vars
  PROVE  \A v \in Workers : Moves(v)
<1>1. CASE \E w \in Workers : PushStep(w)
  BY <1>1, PushMoves
<1>2. CASE \E w \in Workers : Leave(w) \/ NetworkFails(w) \/ ServerError(w)
  BY <1>2, DoneMoves
<1>3. CASE Crash
  BY <1>3, AllIdleMoves DEF Crash
<1>4. CASE UNCHANGED <<todo, cur, ans>>
  <2>1. \A v \in Workers : Keeps(v)
    BY <1>4 DEF Keeps
  <2> QED BY <2>1, KeepsMoves
<1>5. CASE PullStep
  <2>1. Leave(Loop) \/ UNCHANGED <<todo, cur, ans>>
    BY <1>5 DEF PullStep, ReadLists, ReadChanges, ReadKnown, FetchWanted, StoreFetched, Finish
  <2> QED BY <1>2, <1>4, <2>1, WorkersAssumption
<1>6. CASE UserStep \/ PhoneStep \/ TimePasses \/ UNCHANGED vars
  <2>1. UNCHANGED <<todo, cur, ans>>
    BY <1>6 DEF UserStep, LocalCreate, LocalEdit, LocalDelete, PhoneStep, PhoneCreate, PhoneEdit,
                PhoneBreaks, PhoneDelete, TimePasses, vars, push
  <2> QED BY <1>4, <2>1
<1> QED BY <1>1, <1>2, <1>3, <1>5, <1>6 DEF Next, FaultStep

\* What the multiget answered stays until it is stored, and was the server's.
LEMMA FetchedStep ==
  ASSUME TypeOK, [Next]_vars
  PROVE  \A f \in fetched' :
           \/ f \in fetched
           \/ /\ UNCHANGED <<srv, clock>> /\ f.href \in Hrefs
              /\ f.etag = srv[f.href].at /\ f.body = srv[f.href].body
<1>1. CASE FetchWanted
  <2>1. \A h \in Hrefs :
          [href |-> h, etag |-> srv[h].at, body |-> srv[h].body].etag = srv[h].at
    OBVIOUS
  <2>2. fetched' = {[href |-> h, etag |-> srv[h].at, body |-> srv[h].body] :
                      h \in {g \in Wanted(known) : srv[g].live}}
    BY <1>1 DEF FetchWanted
  <2>3. Wanted(known) \subseteq Hrefs
    BY DEF Wanted
  <2>4. UNCHANGED <<srv, clock>>
    BY <1>1 DEF FetchWanted, server
  <2> QED BY <2>2, <2>3, <2>4
<1>2. CASE StoreFetched
  BY <1>2 DEF StoreFetched
<1>3. CASE ForgetPull
  BY <1>3 DEF ForgetPull
<1>4. CASE PullStep /\ ~FetchWanted /\ ~StoreFetched
  BY <1>3, <1>4 DEF PullStep, ReadLists, ReadChanges, ReadKnown, Finish, pull
<1>5. CASE \E w \in Workers : PushStep(w)
  BY <1>3, <1>5
     DEF PushStep, Begin, Send, ApplyStored, ApplyDeleted, ApplyMissing, NeedCopy, FetchOne,
         ApplyConfirmed, ApplyGone, DeleteCurrent, Redelete, DeleteRefused, Rebase, Reread,
         PushDone, pull
<1>6. CASE UserStep \/ PhoneStep \/ TimePasses \/ UNCHANGED vars
  BY <1>6 DEF UserStep, LocalCreate, LocalEdit, LocalDelete, PhoneStep, PhoneCreate, PhoneEdit,
              PhoneBreaks, PhoneDelete, TimePasses, vars, pull
<1>7. CASE FaultStep
  BY <1>3, <1>7 DEF FaultStep, Crash, NetworkFails, ServerError, pull
<1> QED BY <1>1, <1>2, <1>4, <1>5, <1>6, <1>7 DEF Next

LEMMA AnsweredStep ==
  ASSUME TypeOK, AnsweredBeforeReread, [Next]_vars
  PROVE  AnsweredBeforeReread'
<1> USE DEF AnsweredBeforeReread, TypeOK, Goto
<1>1. ASSUME NEW w \in Workers, PushStep(w)
      PROVE  AnsweredBeforeReread'
  <2>1. CASE Done(w)
    BY <2>1 DEF Done, Says
  <2>2. CASE Begin(w) \/ NeedCopy(w) \/ FetchOne(w) \/ DeleteCurrent(w) \/ Rebase(w)
    BY <2>2 DEF Begin, NeedCopy, FetchOne, DeleteCurrent, Rebase, At, Says
  <2>3. CASE Send(w) \/ Redelete(w) \/ Reread(w) \/ (PushDone(w) /\ w = Loop)
    <3>1. \A v \in Workers \ {w} : UNCHANGED <<pc[v], ans[v]>>
      BY <1>1, <2>3, OthersKept DEF PushDone, Send, Redelete, Reread, At
    <3>2. pc'[w] # "reread" \/ Done(w)
      BY <2>3 DEF Send, Redelete, Reread, PushDone
    <3> QED BY <2>1, <3>1, <3>2
  <2>4. CASE PushDone(w) /\ w # Loop
    BY <2>4 DEF PushDone
  <2> QED BY <1>1, <2>1, <2>2, <2>3, <2>4
          DEF PushStep, ApplyStored, ApplyDeleted, ApplyMissing, ApplyConfirmed, ApplyGone,
              DeleteRefused
<1>2. CASE PullStep
  BY <1>2 DEF PullStep, ReadLists, ReadChanges, ReadKnown, FetchWanted, StoreFetched, Finish,
              Leave, Says
<1>3. CASE UserStep \/ PhoneStep \/ TimePasses \/ UNCHANGED vars
  <2>1. UNCHANGED <<pc, ans>>
    BY <1>3 DEF UserStep, LocalCreate, LocalEdit, LocalDelete, PhoneStep, PhoneCreate, PhoneEdit,
                PhoneBreaks, PhoneDelete, TimePasses, vars, push
  <2> QED BY <2>1
<1>4. CASE FaultStep
  BY <1>4 DEF FaultStep, Crash, NetworkFails, ServerError, Leave, Says
<1> QED BY <1>1, <1>2, <1>3, <1>4 DEF Next

-----------------------------------------------------------------------------
(* The invariants. *)

LEMMA SyncInit == Init => SyncInvariant
<1> SUFFICES ASSUME Init
             PROVE  SyncInvariant
  OBVIOUS
<1>1. TypeOK
  BY TypeInit
<1>2. ETagsGiven
  BY DEF Init, ETagsGiven, NoRow, NoWrite, Says
<1>3. WriteInHand /\ AnsweredBeforeReread
  BY DEF Init, WriteInHand, AnsweredBeforeReread, Says
<1>4. BaseIsServersCopy /\ IcsIsCombined
  BY DEF Init, BaseIsServersCopy, IcsIsCombined, NoRow
<1>5. AnswersHold
  BY DEF Init, AnswersHold, Says
<1>6. UpdatesMadeFromCopy
  BY DEF Init, UpdatesMadeFromCopy, NoWrite
<1> QED BY <1>1, <1>2, <1>3, <1>4, <1>5, <1>6 DEF SyncInvariant

\* A copy somebody holds under the server's ETag is the server's.
LEMMA GivenIsServers ==
  ASSUME TypeOK, WriteInHand, AnswersHold, NEW h \in Hrefs, NEW etag, NEW body,
         GivenCopy(h, etag, body), Holds(h, etag)
  PROVE  srv[h].body = body
BY DEF GivenCopy, AnswersHold

LEMMA GivenIsGiven ==
  ASSUME ETagsGiven, NEW h \in Hrefs, NEW etag, NEW body, GivenCopy(h, etag, body)
  PROVE  etag <= clock
BY DEF GivenCopy, ETagsGiven

LEMMA ETagsStep ==
  ASSUME TypeOK, ETagsGiven, WriteInHand, AnsweredBeforeReread, AnswersHold,
         UpdatesMadeFromCopy, [Next]_vars
  PROVE  ETagsGiven'
<1>0. /\ Written /\ (\A w \in Workers : Moves(w)) /\ clock \in Nat
      /\ UNCHANGED rows \/ (UNCHANGED <<srv, clock>> /\ \A h \in Hrefs : RowMoves(h))
  BY ServerStep, WorkersStep, RowsStep DEF TypeOK
<1>1. clock \in Nat /\ clock' \in Nat /\ clock <= clock'
  BY <1>0 DEF Written, ServerWrites
<1>2. \A h \in Hrefs : srv'[h].at <= clock' /\ (srv'[h].live => srv'[h].at # 0)
  <2>1. CASE UNCHANGED <<srv, clock>>
    BY <2>1 DEF ETagsGiven
  <2>2. CASE \E h \in Hrefs : ServerWrites(h)
    <3>1. \A h \in Hrefs : srv[h].at \in Nat /\ srv[h].at <= clock
      BY DEF TypeOK, Resource, ETagsGiven
    <3> QED BY <1>1, <2>2, <3>1 DEF ServerWrites, ETagsGiven
  <2> QED BY <1>0, <2>1, <2>2 DEF Written
<1>3. \A h \in Hrefs : rows'[h].etag <= clock'
  <2>1. \A h \in Hrefs : rows[h].etag \in Nat /\ rows[h].etag <= clock
    BY DEF TypeOK, Row, ETagsGiven
  <2>2. CASE UNCHANGED rows
    BY <1>1, <2>1, <2>2
  <2>3. CASE UNCHANGED <<srv, clock>> /\ \A h \in Hrefs : RowMoves(h)
    BY <1>1, <2>1, <2>3, GivenIsGiven DEF RowMoves
  <2> QED BY <1>0, <2>2, <2>3
<1>4. ASSUME NEW w \in Workers
      PROVE  ans'[w].etag <= clock'
  <2>1. ans[w].etag \in Nat /\ ans[w].etag <= clock
    BY DEF TypeOK, Answer, ETagsGiven
  <2>2. CASE ans'[w].etag \in {0, ans[w].etag}
    BY <1>1, <2>1, <2>2
  <2>3. CASE ans'[w] = CopyOf(cur[w].href) /\ cur[w].href \in Hrefs /\ UNCHANGED clock
    BY <2>3 DEF CopyOf, ETagsGiven
  <2>4. CASE ans'[w].etag = clock + 1 /\ clock' = clock + 1
    BY <1>1, <2>4
  <2> QED BY <1>0, <2>2, <2>3, <2>4 DEF Moves, AnswerMoves
<1>5. ASSUME NEW w \in Workers, NEW p \in todo'[w] \cup {cur'[w]}
      PROVE  p.etag <= clock'
  <2>1. CASE p \in todo[w] \cup {cur[w]}
    <3>1. p.etag \in Nat
      BY <2>1 DEF TypeOK, Pending, NoWrite
    <3>2. p.etag <= clock
      BY <2>1 DEF ETagsGiven
    <3> QED BY <1>1, <3>1, <3>2
  <2>2. CASE p = NoWrite
    BY <1>1, <2>2 DEF NoWrite
  <2>3. CASE UNCHANGED <<srv, clock>> /\ \E h \in Hrefs : rows[h].here /\ p = PendingOf(h)
    BY <2>3 DEF PendingOf, ETagsGiven
  <2> QED BY <1>0, <2>1, <2>2, <2>3 DEF Moves, WriteMoves
<1>6. ASSUME NEW f \in fetched'
      PROVE  f.etag <= clock'
  <2>1. CASE f \in fetched
    <3>1. f.etag \in Nat /\ f.etag <= clock
      BY <2>1 DEF TypeOK, Copy, ETagsGiven
    <3> QED BY <1>1, <3>1
  <2>2. CASE UNCHANGED clock /\ f.href \in Hrefs /\ f.etag = srv[f.href].at
    BY <2>2 DEF ETagsGiven
  <2> QED BY <2>1, <2>2, FetchedStep
<1> QED BY <1>2, <1>3, <1>4, <1>5, <1>6 DEF ETagsGiven

\* A resource that keeps, or gets, an ETag given before was not written.
LEMMA UnwrittenStays ==
  ASSUME TypeOK, Written, NEW h \in Hrefs, NEW etag \in Nat, etag <= clock,
         srv'[h].live, srv'[h].at = etag
  PROVE  Holds(h, etag) /\ srv'[h] = srv[h]
<1>1. clock \in Nat
  BY DEF TypeOK
<1>2. CASE UNCHANGED <<srv, clock>>
  BY <1>2 DEF Holds
<1>3. ASSUME NEW g \in Hrefs, ServerWrites(g)
      PROVE  Holds(h, etag) /\ srv'[h] = srv[h]
  <2>1. srv'[h].at = etag /\ srv'[g].at = clock + 1
    BY <1>3 DEF Holds, ServerWrites
  <2>2. h # g
    BY <1>1, <2>1
  <2> QED BY <1>3, <2>2 DEF Holds, ServerWrites
<1> QED BY <1>2, <1>3 DEF Written

LEMMA BaseStep ==
  ASSUME SyncInvariant, [Next]_vars
  PROVE  BaseIsServersCopy' /\ IcsIsCombined'
<1> USE DEF SyncInvariant
<1>1. Written
  BY ServerStep
<1>2. CASE UNCHANGED rows
  <2>1. ASSUME NEW h \in Hrefs, rows'[h].here, srv'[h].live, rows'[h].etag = srv'[h].at
        PROVE  rows'[h].base = srv'[h].body
    <3>1. rows[h].etag \in Nat /\ rows[h].etag <= clock
      BY DEF TypeOK, Row, ETagsGiven
    <3>2. srv'[h].live /\ srv'[h].at = rows[h].etag
      BY <1>2, <2>1
    <3>3. Holds(h, rows[h].etag) /\ srv'[h] = srv[h]
      BY <1>1, <3>1, <3>2, UnwrittenStays
    <3> QED BY <1>2, <2>1, <3>3 DEF BaseIsServersCopy, Holds
  <2>2. IcsIsCombined'
    BY <1>2 DEF IcsIsCombined
  <2> QED BY <2>1, <2>2 DEF BaseIsServersCopy
<1>3. CASE ~ UNCHANGED rows
  <2>1. UNCHANGED <<srv, clock>> /\ \A h \in Hrefs : RowMoves(h)
    BY <1>3, RowsStep
  <2>2. ASSUME NEW h \in Hrefs, rows'[h].here, srv'[h].live, rows'[h].etag = srv'[h].at
        PROVE  rows'[h].base = srv'[h].body
    <3>1. srv[h].live /\ rows'[h].etag = srv[h].at /\ rows'[h].etag # 0
      BY <2>1, <2>2 DEF ETagsGiven
    <3>2. CASE rows'[h].here = rows[h].here /\ rows'[h].etag = rows[h].etag
               /\ rows'[h].base = rows[h].base
      BY <2>1, <2>2, <3>1, <3>2 DEF BaseIsServersCopy
    <3>3. CASE GivenCopy(h, rows'[h].etag, rows'[h].base)
      BY <2>1, <3>1, <3>3, GivenIsServers DEF Holds
    <3> QED BY <2>1, <2>2, <3>1, <3>2, <3>3 DEF RowMoves
  <2>3. ASSUME NEW h \in Hrefs, rows'[h].here
        PROVE  Shown(rows'[h])
    <3>1. rows[h].here => Shown(rows[h])
      BY DEF IcsIsCombined, Shown
    <3> QED BY <2>1, <2>3, <3>1 DEF RowMoves
  <2> QED BY <2>2, <2>3 DEF BaseIsServersCopy, IcsIsCombined, Shown
<1> QED BY <1>2, <1>3

LEMMA AnswersStep ==
  ASSUME SyncInvariant, [Next]_vars
  PROVE  AnswersHold'
<1> USE DEF SyncInvariant
<1>0. Written /\ (\A w \in Workers : Moves(w)) /\ WriteInHand'
  BY ServerStep, WorkersStep, WriteInHandStep
<1>1. ASSUME NEW w \in Workers
      PROVE  /\ ans'[w].kind = "stored" => ans'[w].body = cur'[w].body
             /\ /\ ans'[w].kind \in {"stored", "kept", "copy"}
                /\ srv'[cur'[w].href].live
                /\ srv'[cur'[w].href].at = ans'[w].etag
                => srv'[cur'[w].href].body = ans'[w].body
  <2>1. CASE cur'[w] = cur[w] /\ ans'[w] = ans[w]
    <3>1. ans[w].etag \in Nat /\ ans[w].etag <= clock
      BY DEF TypeOK, Answer, ETagsGiven
    <3>2. ASSUME ans[w].kind \in {"stored", "kept", "copy"}, srv'[cur[w].href].live,
                 srv'[cur[w].href].at = ans[w].etag
          PROVE  srv'[cur[w].href].body = ans[w].body
      <4>1. cur[w].href \in Hrefs
        BY <3>2 DEF WriteInHand, Pending
      <4>2. Holds(cur[w].href, ans[w].etag) /\ srv'[cur[w].href] = srv[cur[w].href]
        BY <1>0, <3>1, <3>2, <4>1, UnwrittenStays
      <4> QED BY <3>2, <4>2 DEF AnswersHold
    <3>3. ans[w].kind = "stored" => ans[w].body = cur[w].body
      BY DEF AnswersHold
    <3> QED BY <2>1, <3>2, <3>3
  <2>2. CASE ans'[w].kind \notin {"stored", "kept", "copy"}
    BY <2>2
  <2>3. CASE UNCHANGED <<srv, clock>> /\ cur'[w] = cur[w] /\ ans'[w] = CopyOf(cur[w].href)
    BY <2>3 DEF CopyOf
  <2>4. CASE ans'[w].body = cur'[w].body /\ srv'[cur'[w].href].body = cur'[w].body
    BY <2>4
  <2> QED BY <1>0, <2>1, <2>2, <2>3, <2>4 DEF Moves, AnswerMoves
<1>2. ASSUME NEW f \in fetched', srv'[f.href].live, srv'[f.href].at = f.etag
      PROVE  srv'[f.href].body = f.body
  <2>1. CASE f \in fetched
    <3>1. f.href \in Hrefs /\ f.etag \in Nat /\ f.etag <= clock
      BY <2>1 DEF TypeOK, Copy, ETagsGiven
    <3>2. Holds(f.href, f.etag) /\ srv'[f.href] = srv[f.href]
      BY <1>0, <1>2, <3>1, UnwrittenStays
    <3> QED BY <2>1, <3>2 DEF AnswersHold
  <2>2. CASE UNCHANGED srv /\ f.body = srv[f.href].body
    BY <2>2
  <2> QED BY <2>1, <2>2, FetchedStep
<1> QED BY <1>1, <1>2 DEF AnswersHold, Holds

LEMMA UpdatesStep ==
  ASSUME SyncInvariant, [Next]_vars
  PROVE  UpdatesMadeFromCopy'
<1> USE DEF SyncInvariant
<1>0. Written /\ \A w \in Workers : Moves(w)
  BY ServerStep, WorkersStep
<1>1. ASSUME NEW w \in Workers, NEW p \in todo'[w] \cup {cur'[w]},
             p.op = "update", srv'[p.href].live, srv'[p.href].at = p.etag
      PROVE  srv'[p.href].body.seen \subseteq p.body.seen
  <2>1. CASE p \in todo[w] \cup {cur[w]}
    <3>1. p \in Pending
      BY <1>1, <2>1 DEF TypeOK, NoWrite
    <3>2. p.href \in Hrefs /\ p.etag \in Nat /\ p.etag <= clock
      BY <2>1, <3>1 DEF Pending, ETagsGiven
    <3>3. Holds(p.href, p.etag) /\ srv'[p.href] = srv[p.href]
      BY <1>0, <1>1, <3>2, UnwrittenStays
    <3> QED BY <1>1, <2>1, <3>3 DEF UpdatesMadeFromCopy
  <2>2. CASE p = NoWrite
    BY <1>1, <2>2 DEF NoWrite
  <2>3. ASSUME UNCHANGED <<srv, clock>>, NEW h \in Hrefs, rows[h].here, p = PendingOf(h)
        PROVE  srv'[p.href].body.seen \subseteq p.body.seen
    <3>1. p.href = h /\ p.etag = rows[h].etag /\ p.body = rows[h].ics
      BY <2>3 DEF PendingOf
    <3>2. srv[h].body = rows[h].base
      BY <1>1, <2>3, <3>1 DEF BaseIsServersCopy
    <3>3. rows[h].ics = Combined(rows[h].base, rows[h].edits)
      BY <2>3 DEF IcsIsCombined
    <3>4. rows[h].base.seen \subseteq Combined(rows[h].base, rows[h].edits).seen
      BY CombinedSeesMore
    <3> QED BY <2>3, <3>1, <3>2, <3>3, <3>4
  <2> QED BY <1>0, <2>1, <2>2, <2>3 DEF Moves, WriteMoves
<1> QED BY <1>1 DEF UpdatesMadeFromCopy, Holds

LEMMA SyncStep == SyncInvariant /\ [Next]_vars => SyncInvariant'
<1> SUFFICES ASSUME SyncInvariant, [Next]_vars
             PROVE  SyncInvariant'
  OBVIOUS
<1>1. TypeOK' /\ WriteInHand'
  BY TypeStep, WriteInHandStep DEF SyncInvariant
<1>2. ETagsGiven' /\ AnsweredBeforeReread'
  BY ETagsStep, AnsweredStep DEF SyncInvariant
<1>3. BaseIsServersCopy' /\ IcsIsCombined'
  BY BaseStep
<1>4. AnswersHold' /\ UpdatesMadeFromCopy'
  BY AnswersStep, UpdatesStep
<1> QED BY <1>1, <1>2, <1>3, <1>4 DEF SyncInvariant

-----------------------------------------------------------------------------
(* The results. *)

\* The inductive invariant holds: every part of it, in every reachable state of
\* the cache, the server and the rounds, however many there are.
THEOREM Invariance == Spec => []SyncInvariant
<1>1. Init => SyncInvariant
  BY SyncInit
<1>2. SyncInvariant /\ [Next]_vars => SyncInvariant'
  BY SyncStep
<1> QED BY <1>1, <1>2, PTL DEF Spec

\* Every column, answer and local variable keeps its type.
THEOREM TypeCorrect == Spec => []TypeOK
<1>1. SyncInvariant => TypeOK
  BY DEF SyncInvariant
<1> QED BY <1>1, Invariance, PTL

\* store.rs: a row under the server's current ETag has the server's copy as its
\* base, so If-Match alone tells a write made from it from one that was not.
THEOREM BaseCorrect == Spec => []BaseIsServersCopy
<1>1. SyncInvariant => BaseIsServersCopy
  BY DEF SyncInvariant
<1> QED BY <1>1, Invariance, PTL

\* store.rs: what is shown and sent is always base and edits combined, though
\* put_server, pushed, create, edit and insert_new each compute it by themselves.
THEOREM CombinedCorrect == Spec => []IcsIsCombined
<1>1. SyncInvariant => IcsIsCombined
  BY DEF SyncInvariant
<1> QED BY <1>1, Invariance, PTL

\* sync.rs: no write, asst's (from the sync loop or from flush) or the phone's,
\* replaces a copy on the server by one that was not made from it.
THEOREM UpdatesKept == Spec => NoLostUpdate
<1>1. SyncInvariant /\ [Next]_vars =>
        [\A h \in Hrefs : srv[h].live /\ srv'[h].live =>
           srv[h].body.seen \subseteq srv'[h].body.seen]_vars
  <2> SUFFICES ASSUME SyncInvariant, [Next]_vars, NEW h \in Hrefs, srv[h].live, srv'[h].live
               PROVE  srv[h].body.seen \subseteq srv'[h].body.seen
    OBVIOUS
  <2>1. Written
    BY ServerStep DEF SyncInvariant
  <2> QED BY <2>1 DEF Written, ServerWrites
<1> QED BY <1>1, Invariance, PTL DEF Spec, NoLostUpdate

-----------------------------------------------------------------------------
(***************************************************************************)
(* A loop that is alone: no delete is undone, and no token claims more     *)
(* than the cache has.                                                     *)
(***************************************************************************)

\* What the store has to show, and what the round may do with what it holds.
StoreTold == RowsKnown /\ HistoryTold /\ DeleteStands /\ TokenCovers

RoundTold == HandSound /\ AnswersTold /\ PullTold

LEMMA AloneParts ==
  /\ AloneInvariant <=> SyncInvariant /\ StoreTold /\ RoundTold /\ KnownReached
  /\ AloneInvariant' <=> SyncInvariant' /\ StoreTold' /\ RoundTold' /\ KnownReached'
BY DEF AloneInvariant, StoreTold, RoundTold

LEMMA LoopTypes ==
  ASSUME TypeOK
  PROVE  /\ clock \in Nat /\ token \in Nat /\ delta.token \in Nat
         /\ \A h \in Hrefs : rows[h] \in Row /\ rows[h].etag \in Nat
                             /\ srv[h] \in Resource /\ srv[h].at \in Nat /\ srv[h].body \in Body
         /\ ans[Loop] \in Answer /\ ans[Loop].etag \in Nat /\ ans[Loop].body \in Body
         /\ todo[Loop] \subseteq Pending
         /\ \A f \in fetched : f.href \in Hrefs /\ f.etag \in Nat /\ f.body \in Body
         /\ pc[Loop] \in Steps
BY WorkersAssumption DEF TypeOK, Row, Resource, Answer, Delta, Copy

\* A write in hand is a row's.
LEMMA HandType ==
  ASSUME TypeOK, WriteInHand
  PROVE  /\ \A p \in Hand : p \in Pending /\ p.href \in Hrefs /\ p.op \in {"create", "update", "delete"}
         /\ pc[Loop] \in Writing => cur[Loop] \in Pending /\ cur[Loop].href \in Hrefs
<1>1. \A p \in todo[Loop] : p \in Pending
  BY LoopTypes
<1>2. pc[Loop] \in Writing => cur[Loop] \in Pending
  BY WorkersAssumption DEF WriteInHand, Writing
<1> QED BY <1>1, <1>2 DEF Hand, Pending

\* The rows, the server and the deletes made here are all the store has to show.
LEMMA StoreFrame ==
  ASSUME StoreTold, UNCHANGED <<rows, token, fresh, srv, clock, pruned, deleted>>
  PROVE  StoreTold'
<1>1. RowsKnown'
  BY DEF StoreTold, RowsKnown
<1>2. HistoryTold'
  BY DEF StoreTold, HistoryTold
<1>3. DeleteStands'
  BY DEF StoreTold, DeleteStands
<1>4. TokenCovers'
  BY DEF StoreTold, TokenCovers
<1> QED BY <1>1, <1>2, <1>3, <1>4 DEF StoreTold

\* A round that is over holds nothing.
LEMMA Emptied ==
  ASSUME pc'[Loop] = "idle", todo'[Loop] = {}, ans'[Loop].kind = "none", fetched' = {}
  PROVE  RoundTold'
<1>1. HandSound'
  BY DEF HandSound, Hand, Writing
<1>2. AnswersTold'
  BY DEF AnswersTold
<1>3. PullTold'
  BY DEF PullTold, Pulling
<1> QED BY <1>1, <1>2, <1>3 DEF RoundTold

\* Before the pull there is nothing to show for it.
LEMMA BeforePull ==
  ASSUME pc'[Loop] \notin Pulling, fetched' = {}
  PROVE  PullTold'
BY DEF PullTold

LEMMA NothingFetched ==
  ASSUME PullTold, pc[Loop] # "store"
  PROVE  fetched = {}
BY DEF PullTold

\* One write is done with, and the next may follow.
LEMMA NextWrite ==
  ASSUME RoundTold, pc'[Loop] = "push", todo'[Loop] \subseteq todo[Loop],
         ans'[Loop].kind = "none", fetched' = {}, UNCHANGED deleted,
         \A p \in todo'[Loop] : /\ rows'[p.href].here = rows[p.href].here
                                /\ rows'[p.href].etag = rows[p.href].etag
  PROVE  RoundTold'
<1>1. HandSound'
  <2>1. Hand' = todo'[Loop] /\ todo[Loop] \subseteq Hand
    BY DEF Hand, Writing
  <2>2. \A p, q \in todo'[Loop] : p.href = q.href => p = q
    BY DEF RoundTold, HandSound
  <2>3. \A p \in todo'[Loop] :
          LET r == rows'[p.href] IN
          IF p.op = "create" THEN r.etag = 0 /\ deleted'[p.href] # "marked"
                             ELSE r.here /\ r.etag # 0
    BY <2>1 DEF RoundTold, HandSound
  <2> QED BY <2>1, <2>2, <2>3 DEF HandSound, Writing
<1>2. AnswersTold'
  BY DEF AnswersTold
<1>3. PullTold'
  BY BeforePull DEF Pulling
<1> QED BY <1>1, <1>2, <1>3 DEF RoundTold

\* Done leaves the loop at the next write; what it was about is not sent again.
LEMMA DoneNext ==
  ASSUME TypeOK, RoundTold, pc[Loop] \in Writing, Done(Loop), UNCHANGED <<pull, deleted>>,
         \A h \in Hrefs \ {cur[Loop].href} : rows'[h] = rows[h]
  PROVE  RoundTold'
<1>1. pc'[Loop] = "push" /\ todo'[Loop] = todo[Loop] /\ ans'[Loop] = Says("none")
  BY WorkersAssumption DEF Done, Goto, TypeOK
<1>2. ans'[Loop].kind = "none"
  BY <1>1 DEF Says
<1>3. fetched' = {}
  BY NothingFetched DEF RoundTold, Writing, pull
<1>4. \A p \in todo'[Loop] : p.href \in Hrefs \ {cur[Loop].href}
  BY <1>1, LoopTypes DEF RoundTold, HandSound, Pending
<1> QED BY <1>1, <1>2, <1>3, <1>4, NextWrite

\* A write read off its row is sound.
LEMMA ReadSound ==
  ASSUME TypeOK, StoreTold, NEW h \in Hrefs, IsPending(rows[h])
  PROVE  LET p == PendingOf(h) IN
         /\ p.href = h
         /\ IF p.op = "create" THEN rows[h].etag = 0 /\ deleted[h] # "marked"
                               ELSE rows[h].here /\ rows[h].etag # 0
<1>1. /\ PendingOf(h).href = h
      /\ PendingOf(h).op = IF rows[h].deleted THEN "delete"
                           ELSE IF rows[h].etag = 0 THEN "create" ELSE "update"
  BY DEF PendingOf
<1>2. rows[h].here /\ (rows[h].deleted => rows[h].etag # 0)
  BY DEF IsPending, StoreTold, RowsKnown
<1>3. deleted[h] = "marked" => rows[h].deleted
  BY <1>2 DEF StoreTold, DeleteStands
<1> QED BY <1>1, <1>2, <1>3

\* The writes in hand become some of them, or one about a row no other is about.
LEMMA StillSound ==
  ASSUME RoundTold, UNCHANGED <<rows, deleted>>, Hand' \subseteq Hand,
         pc[Loop] \in Writing \cup {"push"}, pc'[Loop] \in Writing,
         pc'[Loop] \in {"redelete", "resent"} => cur'[Loop].op = "delete",
         todo'[Loop] \subseteq todo[Loop],
         \A p \in todo'[Loop] : p.href # cur'[Loop].href
  PROVE  HandSound'
<1>1. \A p, q \in todo'[Loop] : p.href = q.href => p = q
  BY DEF RoundTold, HandSound
<1>2. \A p \in Hand' :
        LET r == rows'[p.href] IN
        IF p.op = "create" THEN r.etag = 0 /\ deleted'[p.href] # "marked"
                           ELSE r.here /\ r.etag # 0
  BY DEF RoundTold, HandSound
<1> QED BY <1>1, <1>2 DEF HandSound

LEMMA BeginAlone ==
  ASSUME AloneInvariant, Begin(Loop)
  PROVE  RoundTold'
<1>0. TypeOK /\ StoreTold /\ RoundTold
  BY AloneParts DEF SyncInvariant
<1>1. pc[Loop] = "idle" /\ pc'[Loop] = "push" /\ todo'[Loop] = AllPending /\ UNCHANGED <<ans, fetched, rows, deleted>>
  BY <1>0, WorkersAssumption DEF Begin, At, Goto, TypeOK, pull, cache, ghosts
<1>2. ans'[Loop].kind = "none"
  BY <1>0, <1>1 DEF RoundTold, HandSound, Writing
<1>3. fetched' = {}
  BY <1>0, <1>1, NothingFetched DEF RoundTold
<1>4. Hand' = AllPending
  BY <1>1 DEF Hand, Writing
<1>5. \A p \in AllPending : \E h \in Hrefs : IsPending(rows[h]) /\ p = PendingOf(h)
  BY DEF AllPending
<1>6. \A h \in Hrefs : PendingOf(h).href = h
  BY DEF PendingOf
<1>7. HandSound'
  <2>1. \A p, q \in todo'[Loop] : p.href = q.href => p = q
    BY <1>1, <1>5, <1>6
  <2>2. \A p \in Hand' :
          LET r == rows'[p.href] IN
          IF p.op = "create" THEN r.etag = 0 /\ deleted'[p.href] # "marked"
                             ELSE r.here /\ r.etag # 0
    <3> SUFFICES ASSUME NEW p \in AllPending
                 PROVE  LET r == rows[p.href] IN
                        IF p.op = "create" THEN r.etag = 0 /\ deleted[p.href] # "marked"
                                           ELSE r.here /\ r.etag # 0
      BY <1>1, <1>4
    <3>1. PICK h \in Hrefs : IsPending(rows[h]) /\ p = PendingOf(h)
      BY <1>5
    <3> QED BY <1>0, <3>1, ReadSound
  <2> QED BY <1>1, <1>2, <2>1, <2>2 DEF HandSound, Writing
<1>8. AnswersTold'
  BY <1>1, <1>2 DEF AnswersTold
<1>9. PullTold'
  BY <1>1, <1>3, BeforePull DEF Pulling
<1> QED BY <1>7, <1>8, <1>9 DEF RoundTold

LEMMA RereadAlone ==
  ASSUME AloneInvariant, Reread(Loop)
  PROVE  RoundTold'
<1>0. TypeOK /\ WriteInHand /\ AnsweredBeforeReread /\ StoreTold /\ RoundTold
  BY AloneParts DEF SyncInvariant
<1>1. pc[Loop] = "reread" /\ UNCHANGED <<rows, deleted, pull>>
  BY DEF Reread, At, cache, ghosts
<1>2. CASE Done(Loop)
  BY <1>0, <1>1, <1>2, DoneNext DEF Writing
<1>3. CASE ~Done(Loop)
  <2> DEFINE h == cur[Loop].href
  <2>1. /\ IsPending(rows[h]) /\ pc'[Loop] = "again" /\ cur'[Loop] = PendingOf(h)
        /\ UNCHANGED <<todo, ans>>
    BY <1>0, <1>3, WorkersAssumption DEF Reread, Goto, TypeOK
  <2>2. h \in Hrefs /\ ans[Loop].kind = "none"
    BY <1>0, <1>1, HandType, WorkersAssumption DEF Writing, AnsweredBeforeReread
  <2> HIDE DEF h
  <2>3. Hand' = todo[Loop] \cup {PendingOf(h)} /\ todo[Loop] \subseteq Hand
    BY <2>1 DEF Hand, Writing
  <2>4. PendingOf(h).href = h
    BY <2>2, ReadSound, <1>0, <2>1
  <2>5. \A p \in todo[Loop] : p.href # h
    BY <1>0, <1>1 DEF RoundTold, HandSound, Writing, h
  <2>6. \A p \in Hand' :
          LET r == rows'[p.href] IN
          IF p.op = "create" THEN r.etag = 0 /\ deleted'[p.href] # "marked"
                             ELSE r.here /\ r.etag # 0
    <3>1. \A p \in todo[Loop] :
            LET r == rows[p.href] IN
            IF p.op = "create" THEN r.etag = 0 /\ deleted[p.href] # "marked"
                               ELSE r.here /\ r.etag # 0
      BY <1>0, <2>3 DEF RoundTold, HandSound
    <3>2. LET p == PendingOf(h)
              r == rows[p.href] IN
          IF p.op = "create" THEN r.etag = 0 /\ deleted[p.href] # "marked"
                             ELSE r.here /\ r.etag # 0
      BY <1>0, <2>1, <2>2, ReadSound
    <3> QED BY <1>1, <2>3, <3>1, <3>2
  <2>7. HandSound'
    <3>1. \A p, q \in todo'[Loop] : p.href = q.href => p = q
      BY <1>0, <2>1 DEF RoundTold, HandSound
    <3>2. \A p \in todo'[Loop] : p.href # cur'[Loop].href
      BY <2>1, <2>4, <2>5
    <3> QED BY <2>1, <2>6, <3>1, <3>2 DEF HandSound, Writing
  <2>8. AnswersTold'
    BY <2>1, <2>2 DEF AnswersTold
  <2>9. PullTold'
    <3>1. fetched' = {}
      BY <1>0, <1>1, NothingFetched DEF RoundTold, pull
    <3> QED BY <2>1, <3>1, BeforePull DEF Pulling
  <2> QED BY <2>7, <2>8, <2>9 DEF RoundTold
<1> QED BY <1>2, <1>3

\* The steps between an answer and the next request.
LEMMA AnswerOnTheWay ==
  ASSUME AloneInvariant, NeedCopy(Loop) \/ FetchOne(Loop) \/ DeleteCurrent(Loop)
  PROVE  RoundTold'
<1>0. TypeOK /\ WriteInHand /\ ETagsGiven /\ StoreTold /\ RoundTold
  BY AloneParts DEF SyncInvariant
<1> DEFINE h == cur[Loop].href
<1>1. /\ pc[Loop] \in {"sent", "confirm", "refetch", "refetched"}
      /\ pc'[Loop] \in {"confirm", "refetch", "confirmed", "refetched", "redelete"}
      /\ pc'[Loop] = "redelete" => cur[Loop].op = "delete"
      /\ UNCHANGED <<rows, token, srv, todo, cur, pull, deleted>>
  BY <1>0, WorkersAssumption
     DEF NeedCopy, FetchOne, DeleteCurrent, At, Goto, TypeOK, cache, server, ghosts
<1>2. h \in Hrefs
  BY <1>0, <1>1, HandType DEF Writing
<1>3. HandSound'
  <2>1. Hand' = Hand
    BY <1>1 DEF Hand, Writing
  <2>2. \A p \in todo'[Loop] : p.href # cur'[Loop].href
    BY <1>0, <1>1 DEF RoundTold, HandSound, Writing
  <2> QED BY <1>0, <1>1, <2>1, <2>2, StillSound DEF Writing
<1>4. PullTold'
  <2>1. fetched' = {}
    BY <1>0, <1>1, NothingFetched DEF RoundTold, pull
  <2> QED BY <1>1, <2>1, BeforePull DEF Pulling
<1>5. AnswersTold'
  <2>1. CASE NeedCopy(Loop)
    <3>1. /\ ans'[Loop] = Says("none") /\ ans[Loop].kind \in {"kept", "conflict"}
          /\ pc'[Loop] = IF ans[Loop].kind = "kept" THEN "confirm" ELSE "refetch"
      BY <1>0, <2>1, WorkersAssumption DEF NeedCopy, Goto, TypeOK
    <3>2. ans'[Loop].kind = "none"
      BY <3>1 DEF Says
    <3>3. ans[Loop].kind = "kept" => srv[h].at > token
      BY <1>0 DEF RoundTold, AnswersTold
    <3> QED BY <1>1, <3>1, <3>2, <3>3 DEF AnswersTold
  <2>2. CASE FetchOne(Loop)
    <3>1. /\ ans'[Loop] = IF srv[h].live THEN CopyOf(h) ELSE Says("missing")
          /\ pc'[Loop] = "confirmed" => pc[Loop] = "confirm"
          /\ pc'[Loop] \in {"confirmed", "refetched"}
      BY <1>0, <2>2, WorkersAssumption DEF FetchOne, At, Goto, TypeOK
    <3>2. pc'[Loop] = "confirmed" => srv[h].at > token
      BY <1>0, <3>1 DEF RoundTold, AnswersTold
    <3>3. CASE srv[h].live
      <4>1. ans'[Loop].kind = "copy" /\ ans'[Loop].etag = srv[h].at /\ ans'[Loop].body = srv[h].body
        BY <3>1, <3>3 DEF CopyOf
      <4>2. srv[h].at # 0
        BY <1>0, <1>2, <3>3 DEF ETagsGiven
      <4> HIDE DEF h
      <4>3. Current(h, srv[h].at, srv[h].body, token)'
        BY <1>1, <3>3, <4>2 DEF Current, Lost, h
      <4> QED BY <1>1, <3>1, <3>2, <4>1, <4>2, <4>3 DEF AnswersTold, Current, Lost, h
    <3>4. CASE ~srv[h].live
      <4>1. ans'[Loop].kind = "missing"
        BY <3>1, <3>4 DEF Says
      <4> QED BY <1>1, <3>1, <3>2, <3>4, <4>1 DEF AnswersTold
    <3> QED BY <3>3, <3>4
  <2>3. CASE DeleteCurrent(Loop)
    <3>1. ans' = ans /\ pc'[Loop] = "redelete" /\ ans[Loop].kind = "copy"
      BY <1>0, <2>3, WorkersAssumption DEF DeleteCurrent, Goto, TypeOK
    <3> QED BY <1>0, <1>1, <3>1 DEF RoundTold, AnswersTold, Current, Lost
  <2> QED BY <2>1, <2>2, <2>3
<1> QED BY <1>3, <1>4, <1>5 DEF RoundTold

LEMMA RefusedAlone ==
  ASSUME AloneInvariant, DeleteRefused(Loop)
  PROVE  RoundTold'
<1>0. TypeOK /\ RoundTold
  BY AloneParts DEF SyncInvariant
<1>1. pc[Loop] \in Writing /\ Done(Loop) /\ UNCHANGED <<rows, pull, deleted>>
  BY DEF DeleteRefused, At, Writing, cache, ghosts
<1> QED BY <1>0, <1>1, DoneNext

\* The push is over; the list may have nothing new.
LEMMA BetweenAlone ==
  ASSUME AloneInvariant, PushDone(Loop) \/ ReadLists
  PROVE  RoundTold'
<1>0. TypeOK /\ RoundTold
  BY AloneParts DEF SyncInvariant
<1>1. pc[Loop] \in {"push", "lists"} /\ pc'[Loop] \in {"lists", "changes", "idle"} /\ UNCHANGED pull
  BY <1>0, WorkersAssumption DEF PushDone, ReadLists, Leave, At, Goto, TypeOK, pull
<1>2. todo'[Loop] = {} /\ ans'[Loop].kind = "none"
  <2>1. pc[Loop] = "lists" => todo[Loop] = {}
    BY <1>0 DEF RoundTold, HandSound, Writing
  <2>2. ans[Loop].kind = "none"
    BY <1>0, <1>1 DEF RoundTold, HandSound, Writing
  <2> QED BY <1>0, <2>1, <2>2, WorkersAssumption DEF PushDone, ReadLists, Leave, At, TypeOK, Says
<1>3. HandSound'
  <2>1. Hand' = {}
    BY <1>1, <1>2 DEF Hand, Writing
  <2> QED BY <1>1, <1>2, <2>1 DEF HandSound, Writing
<1>4. AnswersTold'
  BY <1>1, <1>2 DEF AnswersTold
<1>5. PullTold'
  <2>1. fetched' = {}
    BY <1>0, <1>1, NothingFetched DEF RoundTold, pull
  <2> QED BY <1>1, <2>1, BeforePull DEF Pulling
<1> QED BY <1>3, <1>4, <1>5 DEF RoundTold

\* A row put on a copy stays here, or comes here; it is as deleted as it was.
LEMMA OnTopOfRow ==
  ASSUME NEW r \in Row, NEW etag \in Nat, NEW base \in Body, NEW edits \in Seq(Edit)
  PROVE  LET q == OnTopOf(r, etag, base, edits) IN
         q.here /\ q.etag = etag /\ q.base = base /\ q.deleted = r.deleted
BY DEF OnTopOf, Row

\* A write of this ETag, which the server gave after the token, is recorded.
LEMMA PushedAlone ==
  ASSUME TypeOK, WriteInHand, StoreTold, pc[Loop] \in Writing,
         NEW etag \in Nat, NEW copy \in Body, Pushed(cur[Loop], etag, copy),
         etag # 0, etag <= srv[cur[Loop].href].at, srv[cur[Loop].href].at > token,
         UNCHANGED <<token, fresh, srv, clock, pruned, deleted>>
  PROVE  StoreTold' /\ \A h \in Hrefs \ {cur[Loop].href} : rows'[h] = rows[h]
<1> DEFINE g == cur[Loop].href
           r == rows[g]
           q == OnTopOf(r, etag, copy, Unsent(r, cur[Loop]))
<1>1. cur[Loop] \in Pending /\ g \in Hrefs /\ r \in Row /\ rows \in [Hrefs -> Row]
  BY HandType, LoopTypes DEF TypeOK
<1>2. CASE UNCHANGED rows
  BY <1>2, StoreFrame
<1>3. CASE r.here /\ ~Refuses(copy, Unsent(r, cur[Loop])) /\ rows' = [rows EXCEPT ![g] = q]
  <2>1. /\ q.here /\ q.etag = etag /\ q.base = copy /\ q.deleted = r.deleted
    BY <1>1, UnsentType, OnTopOfRow
  <2>2. copy.kind # "other"
    BY <1>3 DEF Refuses
  <2>3. rows'[g] = q /\ \A h \in Hrefs \ {g} : rows'[h] = rows[h]
    BY <1>1, <1>3
  <2>4. r.here /\ etag <= srv[g].at /\ srv[g].at > token
    BY <1>3
  <2> HIDE DEF q, r
  <2>5. RowsKnown'
    <3> SUFFICES ASSUME NEW h \in Hrefs
                 PROVE  /\ ~rows'[h].here => rows'[h] = NoRow
                        /\ rows'[h].here =>
                             rows'[h].base.kind # "other" /\ (rows'[h].deleted => rows'[h].etag # 0)
                        /\ rows'[h].etag <= srv[h].at
                        /\ deleted[h] = "marked" => srv[h].at # 0
      BY DEF RowsKnown
    <3> QED BY <2>1, <2>2, <2>3, <2>4 DEF StoreTold, RowsKnown
  <2>6. HistoryTold'
    BY DEF StoreTold, HistoryTold
  <2>7. DeleteStands'
    BY <2>1, <2>3, <2>4 DEF StoreTold, DeleteStands, r
  <2>8. TokenCovers'
    <3> SUFFICES ASSUME NEW h \in Hrefs, token # 0, srv[h].at # 0, srv[h].at <= token
                 PROVE  IF srv[h].live /\ srv[h].body.kind # "other"
                        THEN rows'[h].here /\ rows'[h].etag = srv[h].at
                        ELSE rows'[h].here => rows'[h].etag = 0
      BY DEF TokenCovers
    <3>1. h # g
      BY <1>1, <2>4, LoopTypes
    <3> QED BY <2>3, <3>1 DEF StoreTold, TokenCovers
  <2> QED BY <2>3, <2>5, <2>6, <2>7, <2>8 DEF StoreTold
<1> QED BY <1>2, <1>3 DEF Pushed

LEMMA StoredAlone ==
  ASSUME AloneInvariant, ApplyStored(Loop) \/ ApplyConfirmed(Loop)
  PROVE  StoreTold' /\ RoundTold'
<1>0. TypeOK /\ WriteInHand /\ AnswersHold /\ StoreTold /\ RoundTold
  BY AloneParts DEF SyncInvariant
<1> DEFINE g == cur[Loop].href
<1>1. /\ pc[Loop] \in {"sent", "confirmed"} /\ pc[Loop] \in Writing /\ Done(Loop)
      /\ UNCHANGED <<token, fresh, srv, clock, pruned, pull, deleted>>
  BY DEF ApplyStored, ApplyConfirmed, At, Writing, server, ghosts
<1>2. cur[Loop] \in Pending /\ g \in Hrefs /\ cur[Loop].body \in Body
  BY <1>0, <1>1, HandType DEF Pending
<1>3. CASE UNCHANGED rows
  BY <1>0, <1>1, <1>3, StoreFrame, DoneNext
<1>4. CASE ~UNCHANGED rows
  <2>1. PICK copy \in Body :
          /\ Pushed(cur[Loop], ans[Loop].etag, copy)
          /\ \/ pc[Loop] = "sent" /\ ans[Loop].kind = "stored"
             \/ pc[Loop] = "confirmed" /\ ans[Loop].kind = "copy"
    BY <1>0, <1>2, <1>4, LoopTypes DEF ApplyStored, ApplyConfirmed, At
  <2>2. ans[Loop].etag \in Nat /\ ans[Loop].etag # 0 /\ ans[Loop].etag <= srv[g].at
        /\ srv[g].at > token
    <3>1. srv[g].at \in Nat /\ token \in Nat /\ ans[Loop].etag \in Nat
      BY <1>0, <1>2, LoopTypes
    <3>2. CASE ans[Loop].kind = "stored"
      BY <1>0, <3>1, <3>2 DEF RoundTold, AnswersTold
    <3>3. CASE ans[Loop].kind = "copy" /\ pc[Loop] = "confirmed"
      <4>1. Current(g, ans[Loop].etag, ans[Loop].body, token) /\ srv[g].at > token
        BY <1>0, <3>3 DEF RoundTold, AnswersTold
      <4> QED BY <3>1, <4>1 DEF Current
    <3> QED BY <2>1, <3>2, <3>3
  <2>3. StoreTold' /\ \A h \in Hrefs \ {g} : rows'[h] = rows[h]
    BY <1>0, <1>1, <2>1, <2>2, PushedAlone
  <2> QED BY <1>0, <1>1, <2>3, DoneNext
<1> QED BY <1>3, <1>4

\* A row goes when the server no longer has it.
LEMMA ForgetAlone ==
  ASSUME TypeOK, StoreTold, NEW g \in Hrefs, Lost(g), Forget(g),
         UNCHANGED <<token, fresh, srv, clock, pruned, deleted>>
  PROVE  StoreTold' /\ \A h \in Hrefs \ {g} : rows'[h] = rows[h]
<1>1. rows'[g] = NoRow /\ \A h \in Hrefs \ {g} : rows'[h] = rows[h]
  BY DEF Forget, TypeOK
<1>2. ~NoRow.here /\ NoRow.etag = 0
  BY DEF NoRow
<1>3. RowsKnown'
  <2> SUFFICES ASSUME NEW h \in Hrefs
               PROVE  /\ ~rows'[h].here => rows'[h] = NoRow
                      /\ rows'[h].here =>
                           rows'[h].base.kind # "other" /\ (rows'[h].deleted => rows'[h].etag # 0)
                      /\ rows'[h].etag <= srv[h].at
                      /\ deleted[h] = "marked" => srv[h].at # 0
    BY DEF RowsKnown
  <2> QED BY <1>1, <1>2, LoopTypes DEF StoreTold, RowsKnown
<1>4. HistoryTold'
  BY DEF StoreTold, HistoryTold
<1>5. DeleteStands'
  BY <1>1, <1>2 DEF StoreTold, DeleteStands, Lost
<1>6. TokenCovers'
  BY <1>1, <1>2 DEF StoreTold, TokenCovers, Lost
<1> QED BY <1>1, <1>3, <1>4, <1>5, <1>6 DEF StoreTold

LEMMA GoneAlone ==
  ASSUME AloneInvariant, ApplyDeleted(Loop) \/ ApplyMissing(Loop) \/ ApplyGone(Loop)
  PROVE  StoreTold' /\ RoundTold'
<1>0. TypeOK /\ WriteInHand /\ StoreTold /\ RoundTold
  BY AloneParts DEF SyncInvariant
<1> DEFINE g == cur[Loop].href
<1>1. /\ pc[Loop] \in Writing /\ Done(Loop)
      /\ UNCHANGED <<token, fresh, srv, clock, pruned, pull, deleted>>
  BY DEF ApplyDeleted, ApplyMissing, ApplyGone, At, Writing, server, ghosts
<1>2. g \in Hrefs
  BY <1>0, <1>1, HandType
<1>3. CASE UNCHANGED rows
  BY <1>0, <1>1, <1>3, StoreFrame, DoneNext
<1>4. CASE ~UNCHANGED rows
  <2>1. Forget(g) /\ cur[Loop].op # "create" /\ ans[Loop].kind \in {"deleted", "missing"}
    BY <1>0, <1>4
       DEF ApplyDeleted, ApplyMissing, ApplyGone, At, RoundTold, HandSound
  <2>2. Lost(g)
    BY <1>0, <2>1 DEF RoundTold, AnswersTold, Lost
  <2>3. StoreTold' /\ \A h \in Hrefs \ {g} : rows'[h] = rows[h]
    BY <1>0, <1>1, <1>2, <2>1, <2>2, ForgetAlone
  <2> QED BY <1>0, <1>1, <2>3, DoneNext
<1> QED BY <1>3, <1>4

\* A row gets a copy that is current: put_server.
LEMMA CopyAlone ==
  ASSUME TypeOK, StoreTold, NEW h \in Hrefs, NEW etag \in Nat, NEW body \in Body,
         NEW since \in Nat, token <= since, Current(h, etag, body, since),
         deleted[h] = "marked" /\ ~rows[h].here => body.kind = "other"
  PROVE  LET q == ServerCopy(rows[h], etag, body) IN
         /\ ~q.here => q = NoRow
         /\ q.here => q.base.kind # "other" /\ (q.deleted => q.etag # 0)
         /\ q.etag <= srv[h].at
         /\ deleted[h] = "marked" => IF q.here THEN q.deleted ELSE Lost(h)
         /\ srv[h].at <= since =>
              IF srv[h].live /\ srv[h].body.kind # "other"
              THEN q.here /\ q.etag = srv[h].at
              ELSE ~q.here
<1>1. /\ rows[h] \in Row /\ srv[h].at \in Nat /\ token \in Nat /\ srv[h].body \in Body
  BY LoopTypes
<1>2. CASE body.kind = "other"
  <2>1. ServerCopy(rows[h], etag, body) = NoRow
    BY <1>2 DEF ServerCopy
  <2>2. Lost(h) /\ ~NoRow.here /\ NoRow.etag = 0
    BY <1>2 DEF Current, NoRow
  <2> QED BY <1>1, <2>1, <2>2 DEF Lost
<1>3. CASE body.kind # "other"
  <2> DEFINE q == ServerCopy(rows[h], etag, body)
  <2>1. q = OnTopOf(rows[h], etag, body, Rebased(rows[h], body))
    BY <1>3 DEF ServerCopy
  <2>2. q.here /\ q.etag = etag /\ q.base = body /\ q.deleted = rows[h].deleted
    BY <1>1, <2>1, RebasedType, OnTopOfRow
  <2> HIDE DEF q
  <2>3. etag # 0 /\ etag <= srv[h].at
    BY <1>1 DEF Current
  <2>4. deleted[h] = "marked" => rows[h].deleted
    BY <1>3 DEF StoreTold, DeleteStands
  <2>5. srv[h].at <= since => srv[h].live /\ srv[h].at = etag /\ srv[h].body = body
    BY <1>1 DEF Current
  <2>6. /\ ~q.here => q = NoRow
        /\ q.here => q.base.kind # "other" /\ (q.deleted => q.etag # 0)
        /\ q.etag <= srv[h].at
        /\ deleted[h] = "marked" => IF q.here THEN q.deleted ELSE Lost(h)
        /\ srv[h].at <= since =>
             IF srv[h].live /\ srv[h].body.kind # "other"
             THEN q.here /\ q.etag = srv[h].at
             ELSE ~q.here
    BY <1>3, <2>2, <2>3, <2>4, <2>5
  <2> QED BY <2>6 DEF q
<1> QED BY <1>2, <1>3

LEMMA RebaseAlone ==
  ASSUME AloneInvariant, Rebase(Loop)
  PROVE  StoreTold' /\ RoundTold'
<1>0. TypeOK /\ WriteInHand /\ StoreTold /\ RoundTold
  BY AloneParts DEF SyncInvariant
<1> DEFINE g == cur[Loop].href
           q == ServerCopy(rows[g], ans[Loop].etag, ans[Loop].body)
<1>1. /\ pc[Loop] = "refetched" /\ ans[Loop].kind = "copy" /\ cur[Loop].op # "delete"
      /\ rows' = [rows EXCEPT ![g] = q]
      /\ UNCHANGED <<token, fresh, srv, clock, pruned, todo, cur, pull, deleted>>
  BY DEF Rebase, At, server, ghosts
<1>2. g \in Hrefs /\ cur[Loop] \in Hand
  BY <1>0, <1>1, HandType DEF Writing, Hand
<1>3. pc'[Loop] = "reread" /\ ans'[Loop].kind = "none"
  BY <1>0, WorkersAssumption DEF Rebase, Goto, TypeOK, Says
<1>4. rows'[g] = q /\ \A h \in Hrefs \ {g} : rows'[h] = rows[h]
  BY <1>0, <1>1, <1>2 DEF TypeOK
<1>5. deleted[g] = "marked" => rows[g].here
  BY <1>0, <1>2 DEF RoundTold, HandSound
<1>6. /\ ~q.here => q = NoRow
      /\ q.here => q.base.kind # "other" /\ (q.deleted => q.etag # 0)
      /\ q.etag <= srv[g].at
      /\ deleted[g] = "marked" => IF q.here THEN q.deleted ELSE Lost(g)
      /\ srv[g].at <= token =>
           IF srv[g].live /\ srv[g].body.kind # "other"
           THEN q.here /\ q.etag = srv[g].at
           ELSE ~q.here
  <2>1. Current(g, ans[Loop].etag, ans[Loop].body, token)
    BY <1>0, <1>1 DEF RoundTold, AnswersTold
  <2>2. ans[Loop].etag \in Nat /\ ans[Loop].body \in Body /\ token \in Nat /\ token <= token
    BY <1>0, LoopTypes
  <2> QED BY <1>0, <1>2, <1>5, <2>1, <2>2, CopyAlone
<1> HIDE DEF q, g
<1>7. StoreTold'
  <2>1. RowsKnown'
    <3> SUFFICES ASSUME NEW h \in Hrefs
                 PROVE  /\ ~rows'[h].here => rows'[h] = NoRow
                        /\ rows'[h].here =>
                             rows'[h].base.kind # "other" /\ (rows'[h].deleted => rows'[h].etag # 0)
                        /\ rows'[h].etag <= srv[h].at
                        /\ deleted[h] = "marked" => srv[h].at # 0
      BY <1>1 DEF RowsKnown
    <3> QED BY <1>0, <1>4, <1>6 DEF StoreTold, RowsKnown
  <2>2. HistoryTold'
    BY <1>0, <1>1 DEF StoreTold, HistoryTold
  <2>3. DeleteStands'
    BY <1>0, <1>1, <1>4, <1>6 DEF StoreTold, DeleteStands, Lost
  <2>4. TokenCovers'
    BY <1>0, <1>1, <1>4, <1>6 DEF StoreTold, TokenCovers
  <2> QED BY <2>1, <2>2, <2>3, <2>4 DEF StoreTold
<1>8. HandSound'
  <2>1. Hand' = todo[Loop] /\ todo[Loop] \subseteq Hand
    BY <1>1, <1>3 DEF Hand, Writing
  <2>2. \A p \in todo[Loop] : p.href \in Hrefs \ {g}
    BY <1>0, <1>1, LoopTypes DEF RoundTold, HandSound, Writing, Pending, g
  <2>3. \A p \in Hand' :
          LET r == rows'[p.href] IN
          IF p.op = "create" THEN r.etag = 0 /\ deleted'[p.href] # "marked"
                             ELSE r.here /\ r.etag # 0
    BY <1>0, <1>1, <1>4, <2>1, <2>2 DEF RoundTold, HandSound
  <2>4. \A p, r \in todo'[Loop] : p.href = r.href => p = r
    BY <1>0, <1>1 DEF RoundTold, HandSound
  <2>5. \A p \in todo'[Loop] : p.href # cur'[Loop].href
    BY <1>1, <2>2 DEF g
  <2> QED BY <1>1, <1>3, <2>3, <2>4, <2>5 DEF HandSound, Writing
<1>9. AnswersTold'
  BY <1>3 DEF AnswersTold
<1>10. PullTold'
  <2>1. fetched' = {}
    BY <1>0, <1>1, NothingFetched DEF RoundTold, pull
  <2> QED BY <1>3, <2>1, BeforePull DEF Pulling
<1> QED BY <1>7, <1>8, <1>9, <1>10 DEF RoundTold

\* A resource is written, or removed.
Touched(g) ==
  /\ clock' = clock + 1
  /\ srv'[g].at = clock + 1
  /\ \A h \in Hrefs \ {g} : srv'[h] = srv[h]
  /\ pruned' = pruned \ {g}

LEMMA PutTouches ==
  ASSUME TypeOK, NEW g \in Hrefs, NEW body, ServerPut(g, body)
  PROVE  Touched(g) /\ srv'[g].live /\ srv'[g].body = body
<1>1. /\ srv'[g] = [live |-> TRUE, at |-> clock + 1, body |-> body]
      /\ \A h \in Hrefs \ {g} : srv'[h] = srv[h]
      /\ clock' = clock + 1 /\ pruned' = pruned \ {g}
  BY DEF ServerPut, TypeOK
<1>2. srv'[g].live /\ srv'[g].at = clock + 1 /\ srv'[g].body = body
  BY <1>1
<1> QED BY <1>1, <1>2 DEF Touched

LEMMA RemoveTouches ==
  ASSUME TypeOK, NEW g \in Hrefs, ServerRemove(g)
  PROVE  Touched(g) /\ ~srv'[g].live
<1>1. /\ srv'[g] = [srv[g] EXCEPT !.live = FALSE, !.at = clock + 1]
      /\ \A h \in Hrefs \ {g} : srv'[h] = srv[h]
      /\ clock' = clock + 1 /\ pruned' = pruned \ {g}
  BY DEF ServerRemove, TypeOK
<1>2. srv[g] \in Resource
  BY LoopTypes
<1>3. ~srv'[g].live /\ srv'[g].at = clock + 1
  BY <1>1, <1>2 DEF Resource
<1> QED BY <1>1, <1>3 DEF Touched

\* What was written is newer than any token, and a task deleted here is not
\* written again.
LEMMA TouchedStore ==
  ASSUME TypeOK, ETagsGiven, StoreTold, NEW g \in Hrefs, Touched(g),
         UNCHANGED <<rows, token, fresh, deleted>>,
         deleted[g] = "marked" /\ ~rows[g].here => Lost(g)'
  PROVE  StoreTold'
<1>1. /\ clock \in Nat /\ token \in Nat /\ token <= clock
      /\ \A h \in Hrefs : srv[h].at \in Nat /\ srv[h].at <= clock /\ rows[h].etag \in Nat
                          /\ rows[h].etag <= srv[h].at
  BY LoopTypes DEF ETagsGiven, StoreTold, HistoryTold, RowsKnown
<1>2. RowsKnown'
  <2> SUFFICES ASSUME NEW h \in Hrefs
               PROVE  /\ ~rows[h].here => rows[h] = NoRow
                      /\ rows[h].here =>
                           rows[h].base.kind # "other" /\ (rows[h].deleted => rows[h].etag # 0)
                      /\ rows[h].etag <= srv'[h].at
                      /\ deleted[h] = "marked" => srv'[h].at # 0
    BY DEF RowsKnown
  <2>1. rows[h].etag <= srv'[h].at /\ (srv[h].at # 0 => srv'[h].at # 0)
    BY <1>1 DEF Touched
  <2> QED BY <2>1 DEF StoreTold, RowsKnown
<1>3. HistoryTold'
  <2>1. pruned \subseteq Hrefs
    BY DEF TypeOK
  <2> QED BY <1>1, <2>1 DEF StoreTold, HistoryTold, Touched
<1>4. DeleteStands'
  BY DEF StoreTold, DeleteStands, Touched, Lost
<1>5. TokenCovers'
  <2> SUFFICES ASSUME NEW h \in Hrefs, token # 0, srv'[h].at # 0, srv'[h].at <= token
               PROVE  IF srv'[h].live /\ srv'[h].body.kind # "other"
                      THEN rows[h].here /\ rows[h].etag = srv'[h].at
                      ELSE rows[h].here => rows[h].etag = 0
    BY DEF TokenCovers
  <2>1. h # g
    BY <1>1 DEF Touched
  <2> QED BY <2>1 DEF StoreTold, TokenCovers, Touched
<1> QED BY <1>2, <1>3, <1>4, <1>5 DEF StoreTold

\* The server takes a write in hand, or answers that it does not.
LEMMA TakenAlone ==
  ASSUME TypeOK, ETagsGiven, StoreTold, RoundTold, NEW p \in Hand, p \in Pending,
         pc[Loop] \in Writing \cup {"push"}, pc'[Loop] \in {"sent", "resent"}, cur'[Loop] = p,
         pc'[Loop] = "resent" => p.op = "delete",
         Hand' \subseteq Hand, todo'[Loop] \subseteq todo[Loop],
         \A q \in todo'[Loop] : q.href # p.href,
         \/ TakePut(Loop, p) /\ p.op # "delete"
         \/ p.op = "delete" /\ \E etag \in Nat : TakeDelete(Loop, p.href, etag),
         UNCHANGED <<cache, pull, deleted>>
  PROVE  StoreTold' /\ RoundTold'
<1> DEFINE g == p.href
           a == ans'[Loop]
<1>1. g \in Hrefs /\ p.op \in {"create", "update", "delete"} /\ ans \in [Workers -> Answer]
  BY DEF Pending, TypeOK
<1>2. IF p.op = "create" THEN rows[g].etag = 0 /\ deleted[g] # "marked"
                         ELSE rows[g].here /\ rows[g].etag # 0
  BY DEF RoundTold, HandSound
<1>3. HandSound'
  BY StillSound DEF Writing, cache
<1>4. PullTold'
  <2>1. fetched' = {}
    BY NothingFetched DEF RoundTold, pull, Writing
  <2> QED BY <2>1, BeforePull DEF Pulling
<1>5. token \in Nat /\ clock \in Nat /\ token <= clock
  BY LoopTypes DEF StoreTold, HistoryTold
<1>6. CASE UNCHANGED server
  <2>1. a.kind \in {"conflict", "missing"} /\ (a.kind = "missing" => ~srv[g].live)
    <3>1. a \in {Says("conflict"), Says("missing")} /\ (a = Says("missing") => ~srv[g].live)
      <4>1. CASE TakePut(Loop, p)
        <5>1. ~ServerPut(g, p.body)
          BY <1>5, <1>6 DEF ServerPut, server
        <5>2. PICK kind \in IF srv[g].live THEN {"conflict"} ELSE {"conflict", "missing"} :
                ans' = [ans EXCEPT ![Loop] = Says(kind)]
          BY <4>1, <5>1 DEF TakePut
        <5>3. a = Says(kind) /\ Says("conflict") # Says("missing")
          BY <1>1, <5>2, WorkersAssumption DEF Says
        <5> QED BY <5>2, <5>3
      <4>2. CASE \E etag \in Nat : TakeDelete(Loop, p.href, etag)
        <5>1. ~ServerRemove(g)
          BY <1>5, <1>6 DEF ServerRemove, server
        <5>2. ans' = [ans EXCEPT ![Loop] = Says(IF srv[g].live THEN "conflict" ELSE "missing")]
          BY <4>2, <5>1 DEF TakeDelete
        <5>3. a = Says(IF srv[g].live THEN "conflict" ELSE "missing")
              /\ Says("conflict") # Says("missing")
          BY <1>1, <5>2, WorkersAssumption DEF Says
        <5> QED BY <5>3
      <4> QED BY <4>1, <4>2
    <3> HIDE DEF a
    <3>2. Says("conflict").kind = "conflict" /\ Says("missing").kind = "missing"
      BY DEF Says
    <3> QED BY <3>1, <3>2
  <2>2. AnswersTold'
    BY <1>6, <2>1 DEF AnswersTold, server
  <2>3. StoreTold'
    BY <1>6, StoreFrame DEF server, cache
  <2> QED BY <1>3, <1>4, <2>2, <2>3 DEF RoundTold
<1>7. CASE p.op = "delete" /\ ServerRemove(g) /\ a = Says("deleted")
  <2>1. Touched(g) /\ ~srv'[g].live
    BY <1>1, <1>7, RemoveTouches
  <2>2. a.kind = "deleted"
    BY <1>7 DEF Says
  <2>3. AnswersTold'
    BY <2>1, <2>2 DEF AnswersTold
  <2>4. StoreTold'
    BY <1>1, <2>1, TouchedStore DEF cache, Lost
  <2> QED BY <1>3, <1>4, <2>3, <2>4 DEF RoundTold
<1>8. CASE p.op # "delete" /\ ServerPut(g, p.body) /\ a.kind \in {"stored", "kept"}
           /\ a.etag = clock + 1
  <2>1. Touched(g)
    BY <1>1, <1>8, PutTouches
  <2>2. srv'[g].at = clock + 1 /\ srv'[g].at > token'
    BY <1>5, <2>1 DEF Touched, cache
  <2>3. AnswersTold'
    BY <1>5, <1>8, <2>2 DEF AnswersTold
  <2>4. StoreTold'
    BY <1>1, <1>2, <2>1, TouchedStore DEF cache
  <2> QED BY <1>3, <1>4, <2>3, <2>4 DEF RoundTold
<1>9. \/ UNCHANGED server
      \/ ServerPut(g, p.body) /\ TakePut(Loop, p) /\ p.op # "delete"
      \/ ServerRemove(g) /\ p.op = "delete" /\ \E etag \in Nat : TakeDelete(Loop, g, etag)
  BY DEF TakePut, TakeDelete
<1>10. CASE ServerPut(g, p.body) /\ TakePut(Loop, p) /\ p.op # "delete"
  <2>1. ~UNCHANGED server
    BY <1>5, <1>10 DEF ServerPut, server
  <2>2. PICK kind \in {"stored", "kept"} :
          ans' = [ans EXCEPT ![Loop] = [kind |-> kind, etag |-> clock + 1, body |-> p.body]]
    BY <1>10, <2>1 DEF TakePut
  <2>3. a = [kind |-> kind, etag |-> clock + 1, body |-> p.body]
    BY <1>1, <2>2, WorkersAssumption
  <2>4. a.kind = kind /\ a.etag = clock + 1
    BY <2>3
  <2> QED BY <1>8, <1>10, <2>4
<1>11. CASE ServerRemove(g) /\ p.op = "delete" /\ \E etag \in Nat : TakeDelete(Loop, g, etag)
  <2>1. ~UNCHANGED server
    BY <1>5, <1>11 DEF ServerRemove, server
  <2>2. ans' = [ans EXCEPT ![Loop] = Says("deleted")]
    BY <1>11, <2>1 DEF TakeDelete
  <2> QED BY <1>1, <1>7, <1>11, <2>2, WorkersAssumption
<1> QED BY <1>6, <1>9, <1>10, <1>11

LEMMA SendAlone ==
  ASSUME AloneInvariant, Send(Loop)
  PROVE  StoreTold' /\ RoundTold'
<1>0. TypeOK /\ ETagsGiven /\ WriteInHand /\ StoreTold /\ RoundTold
  BY AloneParts DEF SyncInvariant
<1>1. PICK p \in todo[Loop] \cup {cur[Loop]} :
        /\ \/ At(Loop, "push") /\ p \in todo[Loop] /\ todo' = [todo EXCEPT ![Loop] = @ \ {p}]
           \/ At(Loop, "again") /\ p = cur[Loop] /\ UNCHANGED todo
        /\ cur' = [cur EXCEPT ![Loop] = p]
        /\ Goto(Loop, "sent")
        /\ IF p.op = "delete" THEN TakeDelete(Loop, p.href, p.etag) ELSE TakePut(Loop, p)
        /\ UNCHANGED <<cache, pull, ghosts>>
  BY DEF Send
<1>2. p \in Hand /\ p \in Pending /\ p.etag \in Nat
  <2>1. p \in Hand
    BY <1>1 DEF Hand, At, Writing
  <2> QED BY <1>0, <2>1, HandType DEF Pending
<1>3. pc'[Loop] = "sent" /\ cur'[Loop] = p /\ todo'[Loop] \subseteq todo[Loop]
  BY <1>0, <1>1, WorkersAssumption DEF TypeOK, Goto
<1>4. \A q \in todo'[Loop] : q.href # p.href
  <2>1. CASE At(Loop, "push") /\ p \in todo[Loop] /\ todo' = [todo EXCEPT ![Loop] = @ \ {p}]
    <3>1. todo'[Loop] = todo[Loop] \ {p}
      BY <1>0, <2>1, WorkersAssumption DEF TypeOK
    <3> QED BY <1>0, <2>1, <3>1 DEF RoundTold, HandSound
  <2>2. CASE At(Loop, "again") /\ p = cur[Loop] /\ UNCHANGED todo
    BY <1>0, <2>2 DEF RoundTold, HandSound, At, Writing
  <2> QED BY <1>1, <2>1, <2>2
<1>5. Hand' \subseteq Hand
  BY <1>2, <1>3 DEF Hand
<1>6. pc[Loop] \in Writing \cup {"push"}
  BY <1>1 DEF At, Writing
<1>7. UNCHANGED <<cache, pull, deleted>>
  BY <1>1 DEF ghosts
<1>8. \/ TakePut(Loop, p) /\ p.op # "delete"
      \/ p.op = "delete" /\ \E etag \in Nat : TakeDelete(Loop, p.href, etag)
  BY <1>1, <1>2
<1>9. pc'[Loop] \in {"sent", "resent"} /\ (pc'[Loop] = "resent" => p.op = "delete")
  BY <1>3
<1> QED BY <1>0, <1>2, <1>3, <1>4, <1>5, <1>6, <1>7, <1>8, <1>9, TakenAlone

LEMMA RedeleteAlone ==
  ASSUME AloneInvariant, Redelete(Loop)
  PROVE  StoreTold' /\ RoundTold'
<1>0. TypeOK /\ ETagsGiven /\ WriteInHand /\ StoreTold /\ RoundTold
  BY AloneParts DEF SyncInvariant
<1> DEFINE p == cur[Loop]
<1>1. /\ pc[Loop] = "redelete" /\ UNCHANGED <<todo, cur, cache, pull, deleted>>
      /\ TakeDelete(Loop, p.href, ans[Loop].etag)
  BY DEF Redelete, At, ghosts
<1>2. pc'[Loop] = "resent"
  BY <1>0, WorkersAssumption DEF Redelete, Goto, TypeOK
<1>3. p \in Hand /\ p \in Pending /\ p.op = "delete" /\ ans[Loop].etag \in Nat
  <2>1. p \in Hand
    BY <1>1 DEF Hand, Writing
  <2> QED BY <1>0, <1>1, <2>1, HandType, LoopTypes DEF RoundTold, HandSound
<1>4. \A q \in todo'[Loop] : q.href # p.href
  BY <1>0, <1>1 DEF RoundTold, HandSound, Writing
<1>5. Hand' \subseteq Hand
  BY <1>1, <1>2, <1>3 DEF Hand
<1>6. pc[Loop] \in Writing \cup {"push"} /\ pc'[Loop] \in {"sent", "resent"}
  BY <1>1, <1>2 DEF Writing
<1>7. p.op = "delete" /\ \E etag \in Nat : TakeDelete(Loop, p.href, etag)
  BY <1>1, <1>3
<1>8. cur'[Loop] = p /\ todo'[Loop] \subseteq todo[Loop]
  BY <1>1
<1> HIDE DEF p
<1> QED BY <1>0, <1>1, <1>3, <1>4, <1>5, <1>6, <1>7, <1>8, TakenAlone

\* In a pull nothing is left to send.
LEMMA PullHand ==
  ASSUME RoundTold, pc[Loop] \notin Writing \cup {"push"}, pc'[Loop] \notin Writing \cup {"push"},
         UNCHANGED <<todo, ans>>
  PROVE  HandSound' /\ AnswersTold'
<1>1. todo'[Loop] = {} /\ ans'[Loop].kind = "none"
  BY DEF RoundTold, HandSound
<1>2. Hand' = {}
  BY <1>1 DEF Hand
<1>3. HandSound'
  BY <1>1, <1>2 DEF HandSound, Writing
<1>4. AnswersTold'
  BY <1>1 DEF AnswersTold, Writing
<1> QED BY <1>3, <1>4

\* A full listing tells of everything.
LEMMA ListingTells ==
  ASSUME TypeOK, delta' = Listing, srv' = srv, NEW h \in Hrefs
  PROVE  DeltaTells(h)' /\ (ToldGone(h)' => ~srv[h].live)
<1>1. /\ delta'.changed = {<<g, srv[g].at>> : g \in {k \in Hrefs : srv[k].live}}
      /\ delta'.removed = {} /\ delta'.complete
  BY DEF Listing
<1>2. Named(h)' = {c \in delta'.changed : c[1] = h}
  BY DEF Named
<1>3. \A c \in Named(h)' : srv[h].live /\ c = <<h, srv[h].at>>
  BY <1>1, <1>2
<1>4. srv[h].live => <<h, srv[h].at>> \in Named(h)'
  BY <1>1, <1>2
<1>5. srv[h].live => Named(h)' = {<<h, srv[h].at>>}
  BY <1>3, <1>4
<1>6. ~srv[h].live => Named(h)' = {}
  BY <1>3
<1> QED BY <1>1, <1>4, <1>5, <1>6 DEF DeltaTells, ToldGone

\* The changes since a token tell of what they can still tell of.
LEMMA SinceTells ==
  ASSUME TypeOK, HistoryTold, token # 0, fresh, delta' = Since(token),
         UNCHANGED <<srv, token>>, NEW h \in Hrefs
  PROVE  DeltaTells(h)' /\ (ToldGone(h)' => ~srv[h].live)
<1> DEFINE touched == {g \in Hrefs \ pruned : srv[g].at > token}
<1>1. /\ delta'.changed = {<<g, srv[g].at>> : g \in {k \in touched : srv[k].live}}
      /\ delta'.removed = {g \in touched : ~srv[g].live} /\ ~delta'.complete
  BY DEF Since
<1>2. Named(h)' = {c \in delta'.changed : c[1] = h}
  BY DEF Named
<1>3. \A c \in Named(h)' : h \in touched /\ srv[h].live /\ c = <<h, srv[h].at>>
  BY <1>1, <1>2
<1>4. srv[h].live /\ h \in touched => <<h, srv[h].at>> \in Named(h)'
  BY <1>1, <1>2
<1>5. srv[h].live /\ h \in touched => Named(h)' = {<<h, srv[h].at>>}
  BY <1>3, <1>4
<1>6. ~(srv[h].live /\ h \in touched) => Named(h)' = {}
  BY <1>3
<1>7. h \in delta'.removed <=> h \in touched /\ ~srv[h].live
  BY <1>1
<1>8. h \notin touched => srv[h].at <= token
  <2>1. srv[h].at \in Nat /\ token \in Nat
    BY LoopTypes
  <2> QED BY <2>1 DEF HistoryTold
<1> HIDE DEF touched
<1>9. CASE h \in touched /\ srv[h].live
  BY <1>1, <1>5, <1>7, <1>9 DEF DeltaTells, ToldGone
<1>10. CASE h \in touched /\ ~srv[h].live
  BY <1>1, <1>6, <1>7, <1>10 DEF DeltaTells, ToldGone
<1>11. CASE h \notin touched
  BY <1>1, <1>6, <1>7, <1>8, <1>11 DEF DeltaTells, ToldGone
<1> QED BY <1>9, <1>10, <1>11

LEMMA ChangesAlone ==
  ASSUME AloneInvariant, ReadChanges
  PROVE  RoundTold'
<1>0. TypeOK /\ ETagsGiven /\ StoreTold /\ RoundTold
  BY AloneParts DEF SyncInvariant
<1>1. /\ pc[Loop] = "changes" /\ pc'[Loop] = "known"
      /\ UNCHANGED <<rows, token, fresh, srv, clock, pruned, todo, ans, fetched, known>>
  BY <1>0, WorkersAssumption DEF ReadChanges, At, Goto, TypeOK, cache, server
<1>2. HandSound' /\ AnswersTold'
  BY <1>0, <1>1, PullHand DEF Writing
<1>3. delta' = Listing \/ (token # 0 /\ fresh /\ delta' = Since(token))
  BY DEF ReadChanges, UseToken
<1>4. delta'.token = clock
  BY <1>3 DEF Listing, Since
<1>5. \A h \in Hrefs : DeltaTells(h)' /\ (ToldGone(h)' => ~srv[h].live)
  BY <1>0, <1>1, <1>3, ListingTells, SinceTells DEF StoreTold
<1>6. fetched' = {}
  BY <1>0, <1>1, NothingFetched DEF RoundTold
<1>7. token <= clock /\ \A h \in pruned : srv[h].at <= clock
  <2>1. pruned \subseteq Hrefs
    BY <1>0 DEF TypeOK
  <2> QED BY <1>0, <2>1 DEF StoreTold, HistoryTold, ETagsGiven
<1>8. clock <= clock
  BY <1>0, LoopTypes
<1>9. PullTold'
  <2> HIDE DEF Pulling
  <2>1. \A h \in Hrefs : ToldGone(h)' => ~srv'[h].live
    BY <1>1, <1>5
  <2> QED BY <1>1, <1>4, <1>5, <1>6, <1>7, <1>8, <2>1 DEF PullTold
<1> QED BY <1>2, <1>9 DEF RoundTold

LEMMA KnownAlone ==
  ASSUME AloneInvariant, ReadKnown
  PROVE  RoundTold'
<1>0. TypeOK /\ BaseIsServersCopy /\ StoreTold /\ RoundTold
  BY AloneParts DEF SyncInvariant
<1>1. /\ pc[Loop] = "known" /\ known' = ETags
      /\ pc'[Loop] = IF Wanted(ETags) = {} THEN "finish" ELSE "fetch"
      /\ UNCHANGED <<rows, token, srv, clock, pruned, todo, ans, delta, fetched, deleted>>
  BY <1>0, WorkersAssumption DEF ReadKnown, At, Goto, TypeOK, cache, server, ghosts
<1>2. HandSound' /\ AnswersTold'
  BY <1>0, <1>1, PullHand DEF Writing
<1>3. fetched' = {}
  BY <1>0, <1>1, NothingFetched DEF RoundTold
<1>4. \A h \in Hrefs : ETags[h] = rows[h].etag
  BY <1>0 DEF ETags, StoreTold, RowsKnown, NoRow
<1>5. \A h \in Hrefs : DeltaTells(h)' <=> DeltaTells(h)
  BY <1>1 DEF DeltaTells, Named
<1>6. ASSUME NEW h \in Hrefs, srv[h].at # 0, srv[h].at <= delta.token
      PROVE  DeltaTaken(h)'
  <2>1. DeltaTells(h)
    BY <1>0, <1>1, <1>6 DEF RoundTold, PullTold, Pulling
  <2>2. ASSUME Named(h) # {}, h \notin Wanted(ETags)
        PROVE  IF srv[h].body.kind = "other" THEN ~rows[h].here
                                             ELSE rows[h].here /\ rows[h].etag = srv[h].at
    <3>1. srv[h].live /\ Named(h) = {<<h, srv[h].at>>}
      BY <2>1, <2>2 DEF DeltaTells
    <3>2. <<h, srv[h].at>> \in delta.changed
      BY <3>1 DEF Named
    <3>3. rows[h].etag = srv[h].at
      BY <1>4, <2>2, <3>2 DEF Wanted
    <3>4. rows[h].here
      BY <1>0, <1>6, <3>3 DEF StoreTold, RowsKnown, NoRow
    <3>5. rows[h].base = srv[h].body /\ rows[h].base.kind # "other"
      BY <1>0, <3>1, <3>3, <3>4 DEF BaseIsServersCopy, StoreTold, RowsKnown
    <3> QED BY <3>3, <3>4, <3>5
  <2>3. h \in Wanted(ETags) => pc'[Loop] = "fetch"
    BY <1>1
  <2>4. Wanted(known)' = Wanted(ETags)
    BY <1>1 DEF Wanted
  <2> QED BY <1>1, <1>4, <2>2, <2>3, <2>4 DEF DeltaTaken, Named
<1>7. \A h \in Hrefs : ToldGone(h)' /\ known'[h] # 0 => ~srv'[h].live
  BY <1>0, <1>1, <1>4 DEF RoundTold, PullTold, Pulling, ToldGone, Named
<1>8. PullTold'
  <2>1. /\ token <= delta.token /\ delta.token <= clock
        /\ \A h \in pruned : srv[h].at <= delta.token
        /\ \A h \in Hrefs : srv[h].at # 0 /\ srv[h].at <= delta.token => DeltaTells(h)
    BY <1>0, <1>1 DEF RoundTold, PullTold, Pulling
  <2>2. pc'[Loop] # "known"
    BY <1>1
  <2> QED BY <1>1, <1>3, <1>5, <1>6, <1>7, <2>1, <2>2 DEF PullTold
<1> QED BY <1>2, <1>8 DEF RoundTold

LEMMA FetchAlone ==
  ASSUME AloneInvariant, FetchWanted
  PROVE  RoundTold'
<1>0. TypeOK /\ ETagsGiven /\ StoreTold /\ RoundTold
  BY AloneParts DEF SyncInvariant
<1>1. /\ pc[Loop] = "fetch" /\ pc'[Loop] = "store"
      /\ UNCHANGED <<rows, token, srv, clock, pruned, todo, ans, delta, known, deleted>>
  BY <1>0, WorkersAssumption DEF FetchWanted, At, Goto, TypeOK, cache, server, ghosts
<1>2. HandSound' /\ AnswersTold'
  BY <1>0, <1>1, PullHand DEF Writing
<1>3. \A f \in fetched' :
        /\ f.href \in Wanted(known) /\ srv[f.href].live
        /\ f.etag = srv[f.href].at /\ f.body = srv[f.href].body
  BY DEF FetchWanted
<1>4. \A h \in Wanted(known) : srv[h].live => \E f \in fetched' : f.href = h
  <2> SUFFICES ASSUME NEW h \in Wanted(known), srv[h].live
               PROVE  \E f \in fetched' : f.href = h
    OBVIOUS
  <2>1. [href |-> h, etag |-> srv[h].at, body |-> srv[h].body] \in fetched'
    BY DEF FetchWanted
  <2>2. [href |-> h, etag |-> srv[h].at, body |-> srv[h].body].href = h
    OBVIOUS
  <2> QED BY <2>1, <2>2
<1>5. \A h \in Wanted(known) : h \in Hrefs /\ Named(h) # {}
  BY DEF Wanted, Named
<1>6. /\ token <= delta.token /\ delta.token <= clock
      /\ \A h \in pruned : srv[h].at <= delta.token
      /\ \A h \in Hrefs : srv[h].at # 0 /\ srv[h].at <= delta.token =>
                            DeltaTells(h) /\ DeltaTaken(h)
      /\ \A h \in Hrefs : ToldGone(h) /\ known[h] # 0 => ~srv[h].live
  BY <1>0, <1>1 DEF RoundTold, PullTold, Pulling
<1>7. \A h \in Hrefs : /\ DeltaTells(h)' <=> DeltaTells(h)
                       /\ ToldGone(h)' <=> ToldGone(h)
                       /\ Named(h)' = Named(h)
  BY <1>1 DEF DeltaTells, ToldGone, Named
<1>8. ASSUME NEW h \in Hrefs, srv[h].at # 0, srv[h].at <= delta.token
      PROVE  DeltaTaken(h)'
  <2>1. DeltaTells(h) /\ DeltaTaken(h)
    BY <1>6, <1>8
  <2>2. h \in Wanted(known) => \E f \in fetched' : f.href = h
    BY <1>4, <1>5, <2>1 DEF DeltaTells
  <2> QED BY <1>1, <1>7, <2>1, <2>2 DEF DeltaTaken
<1>9. ASSUME NEW f \in fetched'
      PROVE  /\ Current(f.href, f.etag, f.body, delta.token)'
             /\ Named(f.href)' # {}
             /\ deleted'[f.href] = "marked" /\ ~rows'[f.href].here => f.body.kind = "other"
  <2> DEFINE h == f.href
  <2>1. h \in Hrefs /\ h \in Wanted(known) /\ srv[h].live /\ f.etag = srv[h].at /\ f.body = srv[h].body
    BY <1>3, <1>5
  <2>2. srv[h].at # 0
    BY <1>0, <2>1 DEF ETagsGiven
  <2>3. Current(h, f.etag, f.body, delta.token)
    BY <2>1, <2>2 DEF Current, Lost
  <2>4. Current(f.href, f.etag, f.body, delta.token)'
    BY <1>1, <2>3 DEF Current, Lost
  <2>5. deleted[h] = "marked" /\ ~rows[h].here => f.body.kind = "other"
    BY <1>0, <2>1 DEF StoreTold, DeleteStands
  <2>6. Named(h)' # {}
    BY <1>5, <1>7, <2>1
  <2> QED BY <1>1, <2>4, <2>5, <2>6
<1>10. PullTold'
  <2>1. pc'[Loop] # "known"
    BY <1>1
  <2> QED BY <1>1, <1>6, <1>7, <1>8, <1>9, <2>1 DEF PullTold
<1> QED BY <1>2, <1>10 DEF RoundTold

LEMMA StoreAlone ==
  ASSUME AloneInvariant, StoreFetched
  PROVE  StoreTold' /\ RoundTold'
<1>0. TypeOK /\ StoreTold /\ RoundTold
  BY AloneParts DEF SyncInvariant
<1>1. /\ pc[Loop] = "store" /\ pc'[Loop] = "finish" /\ fetched' = {}
      /\ UNCHANGED <<token, fresh, srv, clock, pruned, todo, ans, delta, known, deleted>>
  BY <1>0, WorkersAssumption DEF StoreFetched, At, Goto, TypeOK, cache, server, ghosts
<1>2. HandSound' /\ AnswersTold'
  BY <1>0, <1>1, PullHand DEF Writing
<1>3. /\ token <= delta.token /\ delta.token <= clock
      /\ \A h \in pruned : srv[h].at <= delta.token
      /\ \A h \in Hrefs : srv[h].at # 0 /\ srv[h].at <= delta.token =>
                            DeltaTells(h) /\ DeltaTaken(h)
      /\ \A h \in Hrefs : ToldGone(h) /\ known[h] # 0 => ~srv[h].live
      /\ \A f \in fetched :
           /\ Current(f.href, f.etag, f.body, delta.token)
           /\ Named(f.href) # {}
           /\ deleted[f.href] = "marked" /\ ~rows[f.href].here => f.body.kind = "other"
  BY <1>0, <1>1 DEF RoundTold, PullTold, Pulling
<1> DEFINE Comes(h) == \E f \in fetched : f.href = h
<1>4. ASSUME NEW h \in Hrefs, ~Comes(h)
      PROVE  rows'[h] = rows[h]
  BY <1>4 DEF StoreFetched
<1>5. ASSUME NEW h \in Hrefs, Comes(h)
      PROVE  /\ ~rows'[h].here => rows'[h] = NoRow
             /\ rows'[h].here =>
                  rows'[h].base.kind # "other" /\ (rows'[h].deleted => rows'[h].etag # 0)
             /\ rows'[h].etag <= srv[h].at
             /\ deleted[h] = "marked" => IF rows'[h].here THEN rows'[h].deleted ELSE Lost(h)
             /\ srv[h].at <= delta.token =>
                  IF srv[h].live /\ srv[h].body.kind # "other"
                  THEN rows'[h].here /\ rows'[h].etag = srv[h].at
                  ELSE ~rows'[h].here
             /\ Named(h) # {}
  <2> DEFINE f == CHOOSE g \in fetched : g.href = h
  <2>1. f \in fetched /\ f.href = h
    BY <1>5
  <2>2. rows'[h] = ServerCopy(rows[h], f.etag, f.body)
    BY <1>5 DEF StoreFetched
  <2> HIDE DEF f
  <2>3. /\ Current(h, f.etag, f.body, delta.token) /\ Named(h) # {}
        /\ deleted[h] = "marked" /\ ~rows[h].here => f.body.kind = "other"
    BY <1>3, <2>1
  <2>4. f.etag \in Nat /\ f.body \in Body /\ delta.token \in Nat
    BY <1>0, <2>1, LoopTypes
  <2> QED BY <1>0, <1>3, <2>2, <2>3, <2>4, CopyAlone
<1> HIDE DEF Comes
<1>6. RowsKnown'
  <2> SUFFICES ASSUME NEW h \in Hrefs
               PROVE  /\ ~rows'[h].here => rows'[h] = NoRow
                      /\ rows'[h].here =>
                           rows'[h].base.kind # "other" /\ (rows'[h].deleted => rows'[h].etag # 0)
                      /\ rows'[h].etag <= srv[h].at
                      /\ deleted[h] = "marked" => srv[h].at # 0
    BY <1>1 DEF RowsKnown
  <2> QED BY <1>0, <1>4, <1>5 DEF StoreTold, RowsKnown
<1>7. HistoryTold'
  BY <1>0, <1>1 DEF StoreTold, HistoryTold
<1>8. DeleteStands'
  <2> SUFFICES ASSUME NEW h \in Hrefs, deleted[h] = "marked"
               PROVE  IF rows'[h].here THEN rows'[h].deleted
                      ELSE srv[h].live => srv[h].body.kind = "other"
    BY <1>1 DEF DeleteStands
  <2> QED BY <1>0, <1>4, <1>5 DEF StoreTold, DeleteStands, Lost
<1>9. TokenCovers'
  <2> SUFFICES ASSUME NEW h \in Hrefs, token # 0, srv[h].at # 0, srv[h].at <= token
               PROVE  IF srv[h].live /\ srv[h].body.kind # "other"
                      THEN rows'[h].here /\ rows'[h].etag = srv[h].at
                      ELSE rows'[h].here => rows'[h].etag = 0
    BY <1>1 DEF TokenCovers
  <2>1. srv[h].at <= delta.token
    BY <1>0, <1>3, LoopTypes
  <2> QED BY <1>0, <1>4, <1>5, <2>1 DEF StoreTold, TokenCovers
<1>10. \A h \in Hrefs : /\ DeltaTells(h)' <=> DeltaTells(h)
                        /\ ToldGone(h)' <=> ToldGone(h)
                        /\ Named(h)' = Named(h)
  BY <1>1 DEF DeltaTells, ToldGone, Named
<1>11. ASSUME NEW h \in Hrefs, srv[h].at # 0, srv[h].at <= delta.token
       PROVE  DeltaTaken(h)'
  <2>1. DeltaTells(h) /\ DeltaTaken(h)
    BY <1>3, <1>11
  <2>2. Named(h) # {} => srv[h].live
    BY <2>1 DEF DeltaTells
  <2>3. Named(h) # {} => IF srv[h].body.kind = "other" THEN ~rows'[h].here
                         ELSE rows'[h].here /\ rows'[h].etag = srv[h].at
    <3>1. CASE Comes(h)
      BY <1>5, <1>11, <2>2, <3>1
    <3>2. CASE ~Comes(h)
      BY <1>1, <1>4, <2>1, <3>2 DEF DeltaTaken, Comes
    <3> QED BY <3>1, <3>2
  <2>4. Named(h) = {} /\ known[h] = 0 => rows'[h].etag = 0
    BY <1>4, <1>5, <2>1 DEF DeltaTaken
  <2> QED BY <1>1, <1>10, <2>3, <2>4 DEF DeltaTaken
<1>12. PullTold'
  <2>1. pc'[Loop] # "known"
    BY <1>1
  <2> QED BY <1>1, <1>3, <1>10, <1>11, <2>1 DEF PullTold
<1> QED BY <1>2, <1>6, <1>7, <1>8, <1>9, <1>12 DEF StoreTold, RoundTold

LEMMA FinishAlone ==
  ASSUME AloneInvariant, Finish
  PROVE  StoreTold' /\ RoundTold'
<1>0. TypeOK /\ StoreTold /\ RoundTold
  BY AloneParts DEF SyncInvariant
<1>1. /\ pc[Loop] = "finish" /\ token' = delta.token /\ Leave(Loop) /\ ForgetPull
      /\ fresh' = (delta.complete \/ fresh)
      /\ \A h \in Hrefs : rows'[h] = IF h \in Gone(delta, known) THEN NoRow ELSE rows[h]
      /\ UNCHANGED <<srv, clock, pruned, deleted>>
  BY DEF Finish, At, server, ghosts
<1>2. RoundTold'
  <2>1. pc'[Loop] = "idle" /\ todo'[Loop] = {} /\ ans'[Loop] = Says("none") /\ fetched' = {}
    BY <1>0, <1>1, WorkersAssumption DEF Leave, Goto, TypeOK, ForgetPull
  <2> QED BY <2>1, Emptied DEF Says
<1>3. /\ token <= delta.token /\ delta.token <= clock
      /\ \A h \in pruned : srv[h].at <= delta.token
      /\ \A h \in Hrefs : srv[h].at # 0 /\ srv[h].at <= delta.token =>
                            DeltaTells(h) /\ DeltaTaken(h)
      /\ \A h \in Hrefs : ToldGone(h) /\ known[h] # 0 => ~srv[h].live
  BY <1>0, <1>1 DEF RoundTold, PullTold, Pulling
<1>4. \A h \in Hrefs : h \in Gone(delta, known) <=> known[h] # 0 /\ ToldGone(h)
  BY DEF Gone, ToldGone, Named
<1>5. \A h \in Hrefs : rows'[h] = rows[h] \/ (rows'[h] = NoRow /\ ~srv[h].live)
  BY <1>1, <1>3, <1>4
<1>6. ~NoRow.here /\ NoRow.etag = 0
  BY DEF NoRow
<1>7. RowsKnown'
  <2> SUFFICES ASSUME NEW h \in Hrefs
               PROVE  /\ ~rows'[h].here => rows'[h] = NoRow
                      /\ rows'[h].here =>
                           rows'[h].base.kind # "other" /\ (rows'[h].deleted => rows'[h].etag # 0)
                      /\ rows'[h].etag <= srv[h].at
                      /\ deleted[h] = "marked" => srv[h].at # 0
    BY <1>1 DEF RowsKnown
  <2> QED BY <1>0, <1>5, <1>6, LoopTypes DEF StoreTold, RowsKnown
<1>8. HistoryTold'
  BY <1>1, <1>3 DEF HistoryTold
<1>9. DeleteStands'
  BY <1>0, <1>1, <1>5, <1>6 DEF StoreTold, DeleteStands
<1>10. TokenCovers'
  <2> SUFFICES ASSUME NEW h \in Hrefs, srv[h].at # 0, srv[h].at <= delta.token
               PROVE  IF srv[h].live /\ srv[h].body.kind # "other"
                      THEN rows'[h].here /\ rows'[h].etag = srv[h].at
                      ELSE rows'[h].here => rows'[h].etag = 0
    BY <1>1 DEF TokenCovers
  <2>1. DeltaTells(h) /\ DeltaTaken(h)
    BY <1>3
  <2>2. CASE srv[h].live /\ Named(h) = {<<h, srv[h].at>>} /\ h \notin delta.removed
    <3>1. ~ToldGone(h) /\ rows'[h] = rows[h]
      BY <1>1, <1>4, <2>2 DEF ToldGone
    <3> QED BY <1>1, <2>1, <2>2, <3>1 DEF DeltaTaken
  <2>3. CASE ~srv[h].live /\ Named(h) = {} /\ (h \in delta.removed \/ delta.complete)
    <3>1. ToldGone(h)
      BY <2>3 DEF ToldGone
    <3>2. known[h] = 0 => rows[h].etag = 0
      BY <2>1, <2>3 DEF DeltaTaken
    <3> QED BY <1>1, <1>4, <1>5, <1>6, <2>3, <3>1, <3>2
  <2>4. CASE Named(h) = {} /\ h \notin delta.removed /\ ~delta.complete
             /\ token # 0 /\ srv[h].at <= token
    <3>1. ~ToldGone(h) /\ rows'[h] = rows[h]
      BY <1>1, <1>4, <2>4 DEF ToldGone
    <3> QED BY <1>0, <2>4, <3>1 DEF StoreTold, TokenCovers
  <2> QED BY <2>1, <2>2, <2>3, <2>4 DEF DeltaTells
<1> QED BY <1>2, <1>7, <1>8, <1>9, <1>10 DEF StoreTold

\* What the user does to a row: it is edited; created; forgotten before the
\* server knew of it; or marked as deleted.
UserMoves(g) ==
  LET r == rows[g]
      q == rows'[g]
  IN
  \/ /\ r.here /\ q.here /\ q.etag = r.etag /\ q.base = r.base /\ (q.deleted <=> r.deleted)
     /\ deleted'[g] = deleted[g]
  \/ /\ ~r.here /\ srv[g].at = 0 /\ q.here /\ q.etag = 0 /\ q.base.kind # "other" /\ ~q.deleted
     /\ deleted'[g] = deleted[g]
  \/ r.here /\ r.etag = 0 /\ q = NoRow /\ deleted'[g] = "forgotten"
  \/ /\ r.here /\ r.etag # 0 /\ q.here /\ q.etag = r.etag /\ q.base = r.base /\ q.deleted
     /\ deleted'[g] = "marked"

LEMMA UserStepMoves ==
  ASSUME TypeOK, NEW g \in Hrefs,
         LocalCreate(g) \/ LocalDelete(g) \/ \E op \in {"title", "complete"} : LocalEdit(g, op)
  PROVE  /\ UserMoves(g) /\ UNCHANGED <<token, fresh, server, push, pull>>
         /\ \A h \in Hrefs \ {g} : rows'[h] = rows[h] /\ deleted'[h] = deleted[h]
<1>0. /\ rows \in [Hrefs -> Row] /\ rows[g] \in Row
      /\ deleted \in [Hrefs -> {"no", "marked", "forgotten"}]
  BY DEF TypeOK
<1>1. CASE LocalCreate(g)
  <2> DEFINE e == [id |-> NextId, op |-> "title"]
  <2>1. e \in Edit
    BY TypeParts, OneEditType
  <2>2. /\ <<e>> \in Seq(Edit) /\ <<>> \in Seq(Edit) /\ NoRow \in Row /\ NewBody \in Body /\ 0 \in Nat
    BY <2>1, NoRowType, NewBodyType, EmptySeq
  <2>3. Combined(NewBody, <<e>>) \in Body /\ Combined(NewBody, <<e>>).kind = "todo"
        /\ NewBody.kind = "todo"
    BY <2>2, CombinedType DEF Combined, NewBody
  <2> HIDE DEF e
  <2>4. PICK base \in Body, edits \in Seq(Edit) :
          rows' = [rows EXCEPT ![g] = OnTopOf(NoRow, 0, base, edits)] /\ base.kind = "todo"
    BY <1>1, <2>2, <2>3 DEF LocalCreate, e
  <2> DEFINE q == OnTopOf(NoRow, 0, base, edits)
  <2>5. q.here /\ q.etag = 0 /\ q.base = base /\ q.deleted = FALSE
    <3>1. NoRow.deleted = FALSE
      BY DEF NoRow
    <3>2. ASSUME NEW r \in Row, r.deleted = FALSE, NEW etag \in Nat
          PROVE  LET p == OnTopOf(r, etag, base, edits) IN
                 p.here /\ p.etag = etag /\ p.base = base /\ p.deleted = FALSE
      BY <3>2, OnTopOfRow
    <3> QED BY <2>2, <3>1, <3>2
  <2> HIDE DEF q
  <2>6. rows'[g] = q /\ \A h \in Hrefs \ {g} : rows'[h] = rows[h]
    BY <1>0, <2>4 DEF q
  <2>8. ~rows[g].here /\ srv[g].at = 0 /\ UNCHANGED <<token, fresh, server, push, pull, deleted>>
    BY <1>1 DEF LocalCreate, Unused
  <2> QED BY <2>4, <2>5, <2>6, <2>8 DEF UserMoves
<1>2. ASSUME NEW op \in {"title", "complete"}, LocalEdit(g, op)
      PROVE  /\ UserMoves(g) /\ UNCHANGED <<token, fresh, server, push, pull>>
             /\ \A h \in Hrefs \ {g} : rows'[h] = rows[h] /\ deleted'[h] = deleted[h]
  <2> DEFINE q == [rows[g] EXCEPT !.edits = Append(rows[g].edits, [id |-> NextId, op |-> op]),
                                  !.ics = Combined(rows[g].ics, <<[id |-> NextId, op |-> op]>>)]
  <2>1. rows[g].here /\ rows' = [rows EXCEPT ![g] = q]
        /\ UNCHANGED <<token, fresh, server, push, pull, deleted>>
    BY <1>2 DEF LocalEdit
  <2>2. q.here = rows[g].here /\ q.etag = rows[g].etag /\ q.base = rows[g].base
        /\ q.deleted = rows[g].deleted
    BY <1>0 DEF Row
  <2> HIDE DEF q
  <2>3. rows'[g] = q /\ \A h \in Hrefs \ {g} : rows'[h] = rows[h]
    BY <1>0, <2>1
  <2> QED BY <2>1, <2>2, <2>3 DEF UserMoves
<1>3. CASE LocalDelete(g)
  <2>1. rows[g].here /\ UNCHANGED <<token, fresh, server, push, pull>>
    BY <1>3 DEF LocalDelete
  <2>2. CASE rows[g].etag = 0
    <3>1. rows'[g] = NoRow /\ deleted'[g] = "forgotten"
          /\ \A h \in Hrefs \ {g} : rows'[h] = rows[h] /\ deleted'[h] = deleted[h]
      BY <1>0, <1>3, <2>2 DEF LocalDelete, Forget
    <3> QED BY <2>1, <2>2, <3>1 DEF UserMoves
  <2>3. CASE rows[g].etag # 0
    <3> DEFINE q == [rows[g] EXCEPT !.deleted = TRUE]
    <3>1. rows'[g] = q /\ deleted'[g] = "marked"
          /\ \A h \in Hrefs \ {g} : rows'[h] = rows[h] /\ deleted'[h] = deleted[h]
      BY <1>0, <1>3, <2>3 DEF LocalDelete
    <3>2. q.here = rows[g].here /\ q.etag = rows[g].etag /\ q.base = rows[g].base /\ q.deleted
      BY <1>0 DEF Row
    <3> HIDE DEF q
    <3> QED BY <2>1, <2>3, <3>1, <3>2 DEF UserMoves
  <2> QED BY <2>2, <2>3
<1> QED BY <1>1, <1>2, <1>3

LEMMA UserAlone ==
  ASSUME AloneInvariant, UserStep
  PROVE  StoreTold' /\ RoundTold'
<1>0. TypeOK /\ WriteInHand /\ StoreTold /\ RoundTold
  BY AloneParts DEF SyncInvariant
<1>1. PICK g \in Hrefs : /\ UserMoves(g) /\ UNCHANGED <<token, fresh, server, push, pull>>
                         /\ \A h \in Hrefs \ {g} : rows'[h] = rows[h] /\ deleted'[h] = deleted[h]
  BY <1>0, UserStepMoves DEF UserStep
<1>2. UNCHANGED <<srv, clock, pruned, pc, todo, cur, ans, delta, known, fetched, token, fresh>>
  BY <1>1 DEF server, push, pull
<1>3. /\ ~rows[g].here => rows[g] = NoRow
      /\ rows[g].here => rows[g].base.kind # "other" /\ (rows[g].deleted => rows[g].etag # 0)
      /\ rows[g].etag <= srv[g].at
      /\ deleted[g] = "marked" => srv[g].at # 0
      /\ deleted[g] = "marked" =>
           IF rows[g].here THEN rows[g].deleted ELSE srv[g].live => srv[g].body.kind = "other"
  BY <1>0 DEF StoreTold, RowsKnown, DeleteStands
<1>4. ~NoRow.here /\ NoRow.etag = 0 /\ ~NoRow.deleted
  BY DEF NoRow
<1>5. rows[g].etag \in Nat /\ srv[g].at \in Nat
  BY <1>0, LoopTypes
<1>6. /\ ~rows'[g].here => rows'[g] = NoRow
      /\ rows'[g].here => rows'[g].base.kind # "other" /\ (rows'[g].deleted => rows'[g].etag # 0)
      /\ rows'[g].etag = rows[g].etag
      /\ deleted'[g] = "marked" => srv[g].at # 0
      /\ deleted'[g] = "marked" =>
           IF rows'[g].here THEN rows'[g].deleted ELSE srv[g].live => srv[g].body.kind = "other"
      /\ \/ rows'[g].here <=> rows[g].here
         \/ srv[g].at = 0
         \/ rows[g].etag = 0 /\ rows[g].here /\ ~rows'[g].here
      /\ rows[g].etag # 0 /\ rows[g].here => rows'[g].here
      /\ deleted'[g] = "marked" /\ (rows[g].etag = 0 \/ ~rows'[g].here) => deleted[g] = "marked"
      /\ deleted'[g] = "marked" /\ ~rows'[g].here => ~rows[g].here
  <2>1. CASE /\ rows[g].here /\ rows'[g].here /\ rows'[g].etag = rows[g].etag
             /\ rows'[g].base = rows[g].base /\ (rows'[g].deleted <=> rows[g].deleted)
             /\ deleted'[g] = deleted[g]
    BY <1>3, <2>1
  <2>2. CASE /\ ~rows[g].here /\ srv[g].at = 0 /\ rows'[g].here /\ rows'[g].etag = 0
             /\ rows'[g].base.kind # "other" /\ ~rows'[g].deleted /\ deleted'[g] = deleted[g]
    BY <1>3, <1>4, <2>2
  <2>3. CASE rows[g].here /\ rows[g].etag = 0 /\ rows'[g] = NoRow /\ deleted'[g] = "forgotten"
    BY <1>3, <1>4, <2>3
  <2>4. CASE /\ rows[g].here /\ rows[g].etag # 0 /\ rows'[g].here /\ rows'[g].etag = rows[g].etag
             /\ rows'[g].base = rows[g].base /\ rows'[g].deleted /\ deleted'[g] = "marked"
    BY <1>3, <1>5, <2>4
  <2> QED BY <1>1, <2>1, <2>2, <2>3, <2>4 DEF UserMoves
<1>7. StoreTold'
  <2>1. RowsKnown'
    BY <1>0, <1>1, <1>2, <1>3, <1>6 DEF StoreTold, RowsKnown
  <2>2. HistoryTold'
    BY <1>0, <1>2 DEF StoreTold, HistoryTold
  <2>3. DeleteStands'
    BY <1>0, <1>1, <1>2, <1>6 DEF StoreTold, DeleteStands
  <2>4. TokenCovers'
    BY <1>0, <1>1, <1>2, <1>6 DEF StoreTold, TokenCovers
  <2> QED BY <2>1, <2>2, <2>3, <2>4 DEF StoreTold
<1>8. HandSound'
  <2>1. Hand' = Hand /\ \A p \in Hand : p.href \in Hrefs
    BY <1>0, <1>2, HandType DEF Hand
  <2>2. \A p \in Hand' :
          LET r == rows'[p.href] IN
          IF p.op = "create" THEN r.etag = 0 /\ deleted'[p.href] # "marked"
                             ELSE r.here /\ r.etag # 0
    <3>1. ASSUME NEW p \in Hand
          PROVE  IF p.op = "create" THEN rows[p.href].etag = 0 /\ deleted[p.href] # "marked"
                                    ELSE rows[p.href].here /\ rows[p.href].etag # 0
      BY <1>0 DEF RoundTold, HandSound
    <3> QED BY <1>1, <1>6, <2>1, <3>1
  <2> QED BY <1>0, <1>2, <2>2 DEF RoundTold, HandSound
<1>9. AnswersTold'
  BY <1>0, <1>2 DEF RoundTold, AnswersTold, Current, Lost
<1>10. PullTold'
  <2>1. \A h \in Hrefs : rows'[h].etag = rows[h].etag
    BY <1>1, <1>6
  <2>2. \A h \in Hrefs : srv[h].at # 0 /\ DeltaTaken(h) => DeltaTaken(h)'
    <3> SUFFICES ASSUME NEW h \in Hrefs, srv[h].at # 0, DeltaTaken(h)
                 PROVE  DeltaTaken(h)'
      OBVIOUS
    <3>1. \/ rows'[h].here <=> rows[h].here
          \/ rows[h].etag = 0 /\ rows[h].here /\ ~rows'[h].here
      BY <1>1, <1>6
    <3> QED BY <1>2, <2>1, <3>1 DEF DeltaTaken, Named, Wanted
  <2>3. \A h \in Hrefs : DeltaTells(h)' <=> DeltaTells(h)
    BY <1>2 DEF DeltaTells, Named
  <2>4. \A f \in fetched : deleted'[f.href] = "marked" /\ ~rows'[f.href].here =>
                             deleted[f.href] = "marked" /\ ~rows[f.href].here
    BY <1>0, <1>1, <1>6, LoopTypes
  <2> QED BY <1>0, <1>2, <2>1, <2>2, <2>3, <2>4
          DEF RoundTold, PullTold, ToldGone, Named, Current, Lost
<1> QED BY <1>7, <1>8, <1>9, <1>10 DEF RoundTold

\* The phone writes a resource: it makes no task of what is gone or is none, and
\* it creates only where nothing was and is.
PhoneMoves(g) ==
  /\ Touched(g)
  /\ srv[g].at # 0 /\ Lost(g) => Lost(g)'
  /\ srv[g].at # 0 /\ ~srv[g].live => ~srv'[g].live
  /\ UNCHANGED <<cache, push, pull, deleted>>

LEMMA PhoneStepMoves ==
  ASSUME TypeOK, PhoneStep
  PROVE  \E g \in Hrefs : PhoneMoves(g)
<1>1. ASSUME NEW g \in Hrefs, PhoneCreate(g)
      PROVE  PhoneMoves(g)
  <2>1. srv[g].at = 0 /\ UNCHANGED <<cache, push, pull, deleted>>
    BY <1>1 DEF PhoneCreate, Unused, ghosts
  <2>2. Touched(g)
    BY <1>1, PutTouches DEF PhoneCreate
  <2> QED BY <2>1, <2>2 DEF PhoneMoves
<1>2. ASSUME NEW g \in Hrefs, NEW op \in {"title", "complete"}, PhoneEdit(g, op)
      PROVE  PhoneMoves(g)
  <2>1. srv[g].live /\ srv[g].body.kind # "other" /\ UNCHANGED <<cache, push, pull, deleted>>
    BY <1>2 DEF PhoneEdit, Refuses
  <2>2. Touched(g)
    BY <1>2, PutTouches DEF PhoneEdit
  <2> QED BY <2>1, <2>2 DEF PhoneMoves, Lost
<1>3. ASSUME NEW g \in Hrefs, NEW kind \in PhoneKinds, PhoneBreaks(g, kind)
      PROVE  PhoneMoves(g)
  <2>1. srv[g].live /\ srv[g].body.kind = "todo" /\ UNCHANGED <<cache, push, pull, deleted>>
    BY <1>3 DEF PhoneBreaks, ghosts
  <2>2. Touched(g)
    BY <1>3, PutTouches DEF PhoneBreaks
  <2> QED BY <2>1, <2>2 DEF PhoneMoves, Lost
<1>4. ASSUME NEW g \in Hrefs, PhoneDelete(g)
      PROVE  PhoneMoves(g)
  <2>1. UNCHANGED <<cache, push, pull, deleted>>
    BY <1>4 DEF PhoneDelete, ghosts
  <2>2. Touched(g) /\ ~srv'[g].live
    BY <1>4, RemoveTouches DEF PhoneDelete
  <2> QED BY <2>1, <2>2 DEF PhoneMoves, Lost
<1> QED BY <1>1, <1>2, <1>3, <1>4 DEF PhoneStep

\* A copy stays current when its resource is written.
LEMMA CurrentStays ==
  ASSUME TypeOK, ETagsGiven, NEW g \in Hrefs, PhoneMoves(g), NEW h \in Hrefs, NEW etag \in Nat,
         NEW body, NEW since \in Nat, since <= clock, etag <= clock, Current(h, etag, body, since)
  PROVE  Current(h, etag, body, since)'
<1>1. clock \in Nat /\ srv[h].at \in Nat /\ srv[h].at <= clock /\ srv[h].at # 0
  BY LoopTypes DEF ETagsGiven, Current
<1>2. CASE h # g
  <2>1. srv'[h] = srv[h]
    BY <1>2 DEF PhoneMoves, Touched
  <2> QED BY <2>1 DEF Current, Lost
<1>3. CASE h = g
  <2>1. srv'[h].at = clock + 1 /\ (Lost(h) => Lost(h)')
    BY <1>1, <1>3 DEF PhoneMoves, Touched
  <2> QED BY <1>1, <2>1 DEF Current
<1> QED BY <1>2, <1>3

LEMMA PhoneAlone ==
  ASSUME AloneInvariant, PhoneStep
  PROVE  StoreTold' /\ RoundTold'
<1>0. TypeOK /\ ETagsGiven /\ WriteInHand /\ AnsweredBeforeReread /\ StoreTold /\ RoundTold
      /\ KnownReached
  BY AloneParts DEF SyncInvariant
<1>1. PICK g \in Hrefs : PhoneMoves(g)
  BY <1>0, PhoneStepMoves
<1>2. UNCHANGED <<rows, token, fresh, deleted, pc, todo, cur, ans, delta, known, fetched>>
  BY <1>1 DEF PhoneMoves, cache, push, pull
<1>3. /\ clock \in Nat /\ token \in Nat /\ token <= clock /\ clock' = clock + 1
      /\ \A h \in Hrefs : srv[h].at \in Nat /\ srv[h].at <= clock
      /\ srv'[g].at = clock + 1 /\ \A h \in Hrefs \ {g} : srv'[h] = srv[h]
  BY <1>0, <1>1, LoopTypes DEF PhoneMoves, Touched, ETagsGiven, StoreTold, HistoryTold
<1>4. StoreTold'
  <2>1. deleted[g] = "marked" /\ ~rows[g].here => srv[g].at # 0 /\ Lost(g)
    BY <1>0 DEF StoreTold, RowsKnown, DeleteStands, Lost
  <2> QED BY <1>0, <1>1, <1>2, <2>1, TouchedStore DEF PhoneMoves
<1>5. HandSound'
  <2>1. Hand' = Hand
    BY <1>2 DEF Hand
  <2> QED BY <1>0, <1>2, <2>1 DEF RoundTold, HandSound
<1>6. AnswersTold'
  <2> DEFINE a == ans[Loop]
             h == cur[Loop].href
  <2>1. CASE pc[Loop] \notin Writing
    <3>1. a.kind = "none" /\ pc[Loop] \notin {"confirm", "confirmed"}
      BY <1>0, <2>1 DEF RoundTold, HandSound, Writing
    <3> QED BY <1>2, <3>1 DEF AnswersTold
  <2>2. CASE pc[Loop] \in Writing
    <3>1. h \in Hrefs /\ a.etag \in Nat /\ a.etag <= clock
      BY <1>0, <2>2, HandType, LoopTypes, WorkersAssumption DEF ETagsGiven
    <3>2. a.kind \in {"deleted", "missing"} /\ cur[Loop].op # "create" => srv[h].at # 0
      <4> SUFFICES ASSUME a.kind \in {"deleted", "missing"}, cur[Loop].op # "create"
                   PROVE  srv[h].at # 0
        OBVIOUS
      <4>1. pc[Loop] # "reread"
        BY <1>0, WorkersAssumption DEF AnsweredBeforeReread
      <4>2. cur[Loop] \in Hand
        BY <2>2, <4>1 DEF Hand
      <4>3. rows[h].etag # 0
        BY <1>0, <4>2 DEF RoundTold, HandSound
      <4> QED BY <1>0, <3>1, <4>3, LoopTypes DEF StoreTold, RowsKnown
    <3>3. srv'[h].at >= srv[h].at /\ srv'[h].at \in Nat
      BY <1>3, <3>1
    <3>4. srv[h].at # 0 /\ ~srv[h].live => ~srv'[h].live
      BY <1>1, <1>3, <3>1 DEF PhoneMoves
    <3>5. a.kind = "copy" => Current(h, a.etag, a.body, token)'
      <4>1. PICK k, e, b, t : k = h /\ e = a.etag /\ b = a.body /\ t = token
        OBVIOUS
      <4>2. a.kind = "copy" => Current(k, e, b, t)
        BY <1>0, <4>1 DEF RoundTold, AnswersTold
      <4>3. a.kind = "copy" => Current(k, e, b, t)'
        BY <1>0, <1>1, <1>3, <3>1, <4>1, <4>2, CurrentStays
      <4> QED BY <1>2, <4>1, <4>3 DEF Current, Lost
    <3> QED BY <1>0, <1>2, <1>3, <3>1, <3>2, <3>3, <3>4, <3>5 DEF RoundTold, AnswersTold
  <2> QED BY <2>1, <2>2
<1>7. PullTold'
  <2>1. ASSUME pc[Loop] \in Pulling
        PROVE  /\ token <= delta.token /\ delta.token <= clock'
               /\ \A h \in pruned' : srv'[h].at <= delta.token
               /\ \A h \in Hrefs :
                    srv'[h].at # 0 /\ srv'[h].at <= delta.token =>
                      DeltaTells(h)' /\ (pc[Loop] # "known" => DeltaTaken(h)')
               /\ \A h \in Hrefs :
                    ToldGone(h)' /\ (IF pc[Loop] = "known" THEN rows[h].etag ELSE known[h]) # 0
                      => ~srv'[h].live
    <3>1. /\ token <= delta.token /\ delta.token <= clock
          /\ \A h \in pruned : srv[h].at <= delta.token
          /\ \A h \in Hrefs :
               srv[h].at # 0 /\ srv[h].at <= delta.token =>
                 DeltaTells(h) /\ (pc[Loop] # "known" => DeltaTaken(h))
          /\ \A h \in Hrefs :
               ToldGone(h) /\ (IF pc[Loop] = "known" THEN rows[h].etag ELSE known[h]) # 0
                 => ~srv[h].live
      BY <1>0, <2>1 DEF RoundTold, PullTold
    <3>2. delta.token \in Nat /\ pruned \subseteq Hrefs /\ pruned' = pruned \ {g}
      BY <1>0, <1>1, LoopTypes DEF TypeOK, PhoneMoves, Touched
    <3>3. ASSUME NEW h \in Hrefs, srv'[h].at # 0, srv'[h].at <= delta.token
          PROVE  DeltaTells(h)' /\ (pc[Loop] # "known" => DeltaTaken(h)')
      <4>1. h # g
        BY <1>3, <3>1, <3>2, <3>3
      <4>2. srv'[h] = srv[h]
        BY <1>3, <4>1
      <4>3. DeltaTells(h) /\ (pc[Loop] # "known" => DeltaTaken(h))
        BY <3>1, <3>3, <4>2
      <4> QED BY <1>2, <4>2, <4>3 DEF DeltaTells, DeltaTaken, Named, Wanted
    <3>4. ASSUME NEW h \in Hrefs, ToldGone(h)',
                 (IF pc[Loop] = "known" THEN rows[h].etag ELSE known[h]) # 0
          PROVE  ~srv'[h].live
      <4>1. ToldGone(h)
        BY <1>2, <3>4 DEF ToldGone, Named
      <4>2. srv[h].at # 0
        BY <1>0, <1>3, <3>4, LoopTypes DEF StoreTold, RowsKnown, KnownReached
      <4> QED BY <1>1, <1>3, <3>1, <3>4, <4>1, <4>2 DEF PhoneMoves
    <3> QED BY <1>3, <3>1, <3>2, <3>3, <3>4
  <2>2. ASSUME NEW f \in fetched
        PROVE  /\ Current(f.href, f.etag, f.body, delta.token)'
               /\ Named(f.href)' # {}
               /\ deleted'[f.href] = "marked" /\ ~rows'[f.href].here => f.body.kind = "other"
    <3>1. /\ Current(f.href, f.etag, f.body, delta.token)
          /\ Named(f.href) # {}
          /\ deleted[f.href] = "marked" /\ ~rows[f.href].here => f.body.kind = "other"
          /\ delta.token <= clock
      <4>1. pc[Loop] = "store"
        BY <1>0, <2>2 DEF RoundTold, PullTold
      <4> QED BY <1>0, <2>2, <4>1 DEF RoundTold, PullTold, Pulling
    <3>2. f.href \in Hrefs /\ f.etag \in Nat /\ f.etag <= clock /\ delta.token \in Nat
      BY <1>0, <2>2, LoopTypes DEF ETagsGiven
    <3>3. \A since \in Nat : since <= clock /\ Current(f.href, f.etag, f.body, since) =>
                               Current(f.href, f.etag, f.body, since)'
      BY <1>0, <1>1, <3>2, CurrentStays
    <3>4. Current(f.href, f.etag, f.body, delta.token)'
      BY <1>2, <3>1, <3>2, <3>3 DEF Current, Lost
    <3> QED BY <1>2, <3>1, <3>4 DEF Named
  <2>3. fetched' # {} => pc'[Loop] = "store"
    BY <1>0, <1>2 DEF RoundTold, PullTold
  <2> QED BY <1>2, <2>1, <2>2, <2>3 DEF PullTold
<1> QED BY <1>4, <1>5, <1>6, <1>7 DEF RoundTold

\* Time, and what goes wrong, leave the round with nothing, or the next write.
LEMMA FaultAlone ==
  ASSUME AloneInvariant, TimePasses \/ Crash \/ NetworkFails(Loop) \/ ServerError(Loop)
  PROVE  StoreTold' /\ RoundTold'
<1>0. TypeOK /\ StoreTold /\ RoundTold
  BY AloneParts DEF SyncInvariant
<1>1. CASE TimePasses
  <2>1. /\ pc[Loop] = "idle" /\ ~fresh'
        /\ UNCHANGED <<rows, token, srv, clock, pc, todo, cur, ans, fetched, deleted>>
    BY <1>1 DEF TimePasses, At, push, pull, ghosts
  <2>2. StoreTold'
    <3>1. RowsKnown'
      BY <1>0, <2>1 DEF StoreTold, RowsKnown
    <3>2. HistoryTold'
      BY <1>0, <2>1 DEF StoreTold, HistoryTold
    <3>3. DeleteStands'
      BY <1>0, <2>1 DEF StoreTold, DeleteStands
    <3>4. TokenCovers'
      BY <1>0, <2>1 DEF StoreTold, TokenCovers
    <3> QED BY <3>1, <3>2, <3>3, <3>4 DEF StoreTold
  <2>3. todo'[Loop] = {} /\ ans'[Loop].kind = "none"
    BY <1>0, <2>1 DEF RoundTold, HandSound, Writing
  <2>4. fetched' = {}
    BY <1>0, <2>1, NothingFetched DEF RoundTold
  <2>5. RoundTold'
    BY <2>1, <2>3, <2>4, Emptied
  <2> QED BY <2>2, <2>5
<1>2. CASE Crash \/ NetworkFails(Loop)
  <2>1. /\ pc'[Loop] = "idle" /\ todo'[Loop] = {} /\ ans'[Loop] = Says("none") /\ fetched' = {}
        /\ UNCHANGED <<cache, server, ghosts>>
    BY <1>0, <1>2, WorkersAssumption DEF Crash, NetworkFails, Leave, Goto, TypeOK, ForgetPull
  <2>2. ans'[Loop].kind = "none"
    BY <2>1 DEF Says
  <2> QED BY <1>0, <2>1, <2>2, Emptied, StoreFrame DEF cache, server, ghosts
<1>3. CASE ServerError(Loop)
  <2>1. /\ pc'[Loop] = "push" /\ todo'[Loop] \subseteq todo[Loop] /\ ans'[Loop] = Says("none")
        /\ UNCHANGED <<cache, server, pull, ghosts>> /\ pc[Loop] # "store"
    BY <1>0, <1>3, WorkersAssumption DEF ServerError, Goto, At, TypeOK
  <2>2. ans'[Loop].kind = "none"
    BY <2>1 DEF Says
  <2>3. fetched' = {}
    BY <1>0, <2>1, NothingFetched DEF RoundTold, pull
  <2>4. StoreTold'
    BY <1>0, <2>1, StoreFrame DEF cache, server, ghosts
  <2>5. UNCHANGED <<rows, deleted>>
    BY <2>1 DEF cache, ghosts
  <2>6. RoundTold'
    BY <1>0, <2>1, <2>2, <2>3, <2>5, NextWrite
  <2> QED BY <2>4, <2>6
<1> QED BY <1>1, <1>2, <1>3

LEMMA KnownStep ==
  ASSUME AloneInvariant, [Next]_vars
  PROVE  KnownReached'
<1>0. TypeOK /\ ETagsGiven /\ WriteInHand /\ UpdatesMadeFromCopy /\ StoreTold /\ KnownReached
  BY AloneParts DEF SyncInvariant
<1>1. \A h \in Hrefs : srv[h].at # 0 => srv'[h].at # 0
  <2>1. Written /\ clock \in Nat
    BY <1>0, ServerStep, LoopTypes
  <2> QED BY <2>1 DEF Written, ServerWrites
<1>2. CASE UNCHANGED known
  BY <1>0, <1>1, <1>2 DEF KnownReached
<1>3. CASE ForgetPull
  BY <1>3 DEF ForgetPull, KnownReached
<1>4. CASE ReadKnown
  <2>1. known' = ETags /\ UNCHANGED srv
    BY <1>4 DEF ReadKnown, server
  <2>2. \A h \in Hrefs : ETags[h] # 0 => srv[h].at # 0
    BY <1>0, LoopTypes DEF ETags, StoreTold, RowsKnown
  <2> QED BY <2>1, <2>2 DEF KnownReached
<1>5. CASE \E w \in Workers : PushStep(w)
  BY <1>2, <1>3, <1>5
     DEF PushStep, Begin, Send, ApplyStored, ApplyDeleted, ApplyMissing, NeedCopy, FetchOne,
         ApplyConfirmed, ApplyGone, DeleteCurrent, Redelete, DeleteRefused, Rebase, Reread,
         PushDone, pull
<1>6. CASE PullStep /\ ~ReadKnown
  BY <1>2, <1>3, <1>6 DEF PullStep, ReadLists, ReadChanges, FetchWanted, StoreFetched, Finish, pull
<1>7. CASE UserStep \/ PhoneStep \/ TimePasses \/ UNCHANGED vars
  BY <1>2, <1>7
     DEF UserStep, LocalCreate, LocalEdit, LocalDelete, PhoneStep, PhoneCreate, PhoneEdit,
         PhoneBreaks, PhoneDelete, TimePasses, vars, pull
<1>8. CASE FaultStep
  BY <1>2, <1>3, <1>8 DEF FaultStep, Crash, NetworkFails, ServerError, pull
<1> QED BY <1>4, <1>5, <1>6, <1>7, <1>8 DEF Next

LEMMA AloneInit == Init => AloneInvariant
<1> SUFFICES ASSUME Init
             PROVE  AloneInvariant
  OBVIOUS
<1>1. SyncInvariant /\ TypeOK
  BY SyncInit, TypeInit
<1>2. ~NoRow.here /\ NoRow.etag = 0
  BY DEF NoRow
<1>3. StoreTold
  <2>1. RowsKnown
    BY <1>2 DEF Init, RowsKnown
  <2>2. HistoryTold
    BY DEF Init, HistoryTold
  <2>3. DeleteStands
    BY DEF Init, DeleteStands
  <2>4. TokenCovers
    BY DEF Init, TokenCovers
  <2> QED BY <2>1, <2>2, <2>3, <2>4 DEF StoreTold
<1>4. pc[Loop] = "idle" /\ todo[Loop] = {} /\ ans[Loop].kind = "none" /\ fetched = {}
  BY WorkersAssumption DEF Init, Says
<1>5. RoundTold
  <2>1. HandSound
    BY <1>4 DEF HandSound, Hand, Writing
  <2>2. AnswersTold
    BY <1>4 DEF AnswersTold
  <2>3. PullTold
    BY <1>4 DEF PullTold, Pulling
  <2> QED BY <2>1, <2>2, <2>3 DEF RoundTold
<1>6. KnownReached
  BY DEF Init, KnownReached
<1> QED BY <1>1, <1>3, <1>5, <1>6, AloneParts

LEMMA AloneStep == Alone /\ AloneInvariant /\ [Next]_vars => AloneInvariant'
<1> SUFFICES ASSUME Alone, AloneInvariant, [Next]_vars
             PROVE  AloneInvariant'
  OBVIOUS
<1>1. StoreTold /\ RoundTold /\ SyncInvariant' /\ KnownReached'
  BY AloneParts, SyncStep, KnownStep DEF AloneInvariant
<1> SUFFICES StoreTold' /\ RoundTold'
  BY <1>1, AloneParts
<1>2. \A w \in Workers : w = Loop
  BY DEF Alone
<1>3. ASSUME PushStep(Loop)
      PROVE  StoreTold' /\ RoundTold'
  <2>1. CASE Begin(Loop) \/ Reread(Loop) \/ NeedCopy(Loop) \/ FetchOne(Loop)
             \/ DeleteCurrent(Loop) \/ DeleteRefused(Loop) \/ PushDone(Loop)
    <3>1. UNCHANGED <<rows, token, fresh, srv, clock, pruned, deleted>>
      BY <2>1 DEF Begin, Reread, NeedCopy, FetchOne, DeleteCurrent, DeleteRefused, PushDone,
                  cache, server, ghosts
    <3>2. RoundTold'
      BY <2>1, BeginAlone, RereadAlone, AnswerOnTheWay, RefusedAlone, BetweenAlone
    <3> QED BY <1>1, <3>1, <3>2, StoreFrame
  <2> QED BY <1>3, <2>1, SendAlone, StoredAlone, GoneAlone, RedeleteAlone, RebaseAlone DEF PushStep
<1>4. CASE PullStep
  <2>1. CASE ReadLists \/ ReadChanges \/ ReadKnown \/ FetchWanted
    <3>1. UNCHANGED <<rows, token, fresh, srv, clock, pruned, deleted>>
      BY <2>1 DEF ReadLists, ReadChanges, ReadKnown, FetchWanted, cache, server, ghosts
    <3>2. RoundTold'
      BY <2>1, BetweenAlone, ChangesAlone, KnownAlone, FetchAlone
    <3> QED BY <1>1, <3>1, <3>2, StoreFrame
  <2> QED BY <1>4, <2>1, StoreAlone, FinishAlone DEF PullStep
<1>5. CASE FaultStep
  BY <1>2, <1>5, FaultAlone DEF FaultStep
<1>6. CASE UNCHANGED vars
  <2>1. UNCHANGED <<rows, token, fresh, srv, clock, pruned, deleted>>
    BY <1>6 DEF vars, cache, server, ghosts
  <2>2. RoundTold'
    BY <1>1, <1>6
       DEF RoundTold, HandSound, AnswersTold, PullTold, Hand, Current, Lost, DeltaTells, DeltaTaken,
           ToldGone, Named, Wanted, vars, cache, server, push, pull, ghosts
  <2> QED BY <1>1, <2>1, <2>2, StoreFrame
<1> QED BY <1>2, <1>3, <1>4, <1>5, <1>6, UserAlone, PhoneAlone, FaultAlone DEF Next

\* The inductive invariant of a loop that nothing else pushes beside.
THEOREM AloneInvariance == ASSUME Alone PROVE Spec => []AloneInvariant
<1>1. AloneInvariant /\ [Next]_vars => AloneInvariant'
  BY AloneStep
<1> QED BY <1>1, AloneInit, PTL DEF Spec

\* A task deleted here does not come back, whatever the phone wrote and wherever
\* a request, an answer or the process was lost: push_one sends a delete again
\* for the copy it finds, and put_server leaves a row marked as deleted so.
THEOREM DeletesStand == ASSUME Alone PROVE Spec => []DeleteStands
<1>1. AloneInvariant => DeleteStands
  BY DEF AloneInvariant
<1> QED BY <1>1, AloneInvariance, PTL

\* A list's sync token never claims more than the cache has of the list: what
\* pull_list stores, forgets and leaves alone is what the server's answer told.
THEOREM TokensCover == ASSUME Alone PROVE Spec => []TokenCovers
<1>1. AloneInvariant => TokenCovers
  BY DEF AloneInvariant
<1> QED BY <1>1, AloneInvariance, PTL

-----------------------------------------------------------------------------
(***************************************************************************)
(* No edit is lost, and no completion is done twice, by a loop that is     *)
(* alone.                                                                  *)
(***************************************************************************)

\* How many of the first edits complete the task: a number, and none of none.
LEMMA CompletesType ==
  ASSUME NEW es, NEW n \in Nat
  PROVE  /\ IsFiniteSet({i \in 1 .. n : es[i].op = "complete"})
         /\ Completes(es, n) \in Nat
         /\ Completes(es, 0) = 0
<1>1. IsFiniteSet({i \in 1 .. n : es[i].op = "complete"})
  <2> DEFINE S == {i \in 1 .. n : es[i].op = "complete"}
  <2>1. IsFiniteSet(1 .. n) /\ S \in SUBSET (1 .. n)
    BY FS_Interval
  <2> HIDE DEF S
  <2>2. IsFiniteSet(S)
    BY <2>1, FS_Subset
  <2> QED BY <2>2 DEF S
<1>2. {i \in 1 .. 0 : es[i].op = "complete"} = {}
  OBVIOUS
<1> QED BY <1>1, <1>2, FS_CardinalityType, FS_EmptySet DEF Completes

\* More edits complete it no less often, and oftener with one that does.
LEMMA CompletesMore ==
  ASSUME NEW es, NEW n \in Nat, NEW m \in Nat, n <= m
  PROVE  /\ Completes(es, n) <= Completes(es, m)
         /\ \A i \in 1 .. m : n < i /\ es[i].op = "complete" => Completes(es, n) < Completes(es, m)
<1> DEFINE S(k) == {i \in 1 .. k : es[i].op = "complete"}
<1>1. IsFiniteSet(S(n)) /\ IsFiniteSet(S(m)) /\ S(n) \subseteq S(m)
  <2>1. IsFiniteSet(S(n)) /\ IsFiniteSet(S(m))
    BY CompletesType
  <2> QED BY <2>1
<1>2. \A i \in 1 .. m : n < i /\ es[i].op = "complete" => S(n) # S(m)
  OBVIOUS
<1>3. Completes(es, n) = Cardinality(S(n)) /\ Completes(es, m) = Cardinality(S(m))
  BY DEF Completes
<1>4. Cardinality(S(n)) <= Cardinality(S(m))
      /\ (S(n) # S(m) => Cardinality(S(n)) < Cardinality(S(m)))
  <2> HIDE DEF S
  <2>1. Cardinality(S(n)) \in Nat /\ Cardinality(S(m)) \in Nat
    BY <1>1, FS_CardinalityType
  <2> QED BY <1>1, <2>1, FS_Subset
<1> HIDE DEF S
<1> QED BY <1>2, <1>3, <1>4

\* The same edits complete it as often.
LEMMA CompletesSame ==
  ASSUME NEW es, NEW fs, NEW n \in Nat, \A i \in 1 .. n : es[i] = fs[i]
  PROVE  Completes(es, n) = Completes(fs, n)
<1>1. {i \in 1 .. n : es[i].op = "complete"} = {i \in 1 .. n : fs[i].op = "complete"}
  OBVIOUS
<1> QED BY <1>1 DEF Completes

\* What a queue shows is advanced once for each completion in it.
LEMMA CombinedDue ==
  ASSUME NEW b, NEW es
  PROVE  Combined(b, es).due = b.due + Completes(es, Len(es))
BY DEF Combined, Completes, Positions

\* Edits that put_server takes as shown are in the copy: it has the last title
\* set, and so every edit before that one; and it is as far as all of them
\* advance it, and so was made with the last that does.
LEMMA ShownAreSeen ==
  ASSUME NEW r \in Row, NEW c \in Body, MadeFrom(c, r), ~Refuses(c, r.edits),
         NEW i \in 1 .. Len(r.edits), r.edits[i].op = "complete" => AdvancedBy(c, r)
  PROVE  r.edits[i].id \in c.seen \cup Ids(Rebased(r, c))
<1> DEFINE es == r.edits
           expected == Combined(r.base, es)
<1>0. es \in Seq(Edit) /\ Len(es) \in Nat /\ r.base \in Body /\ r.base.due \in Nat
  BY DEF Row, Body
<1>1. CASE Rebased(r, c) = es
  BY <1>1 DEF Ids
<1>2. CASE AlreadyApplied(expected, c, es)
  <2>1. es[i] \in Edit
    BY <1>0, ElementOfSeq
  <2>2. CASE es[i].op = "title"
    <3> DEFINE P == Positions(es, "title")
               n == Newest(P)
    <3>1. P \in SUBSET (1 .. Len(es)) /\ i \in P
      BY <2>2 DEF Positions
    <3>2. expected.title = es[n].id
      BY <3>1 DEF Combined
    <3>3. n \in P /\ i <= n
      <4> HIDE DEF P, es
      <4> QED BY <1>0, <3>1, NewestIsMember
    <3>4. es[n].op = "title" /\ n \in 1 .. Len(es)
      BY <3>3 DEF Positions
    <3>5. c.title = es[n].id
      BY <1>2, <3>1, <3>2 DEF AlreadyApplied
    <3> HIDE DEF n, P
    <3>6. i \in 1 .. n
      BY <3>3, <3>4
    <3> QED BY <3>4, <3>5, <3>6 DEF MadeFrom
  <2>3. CASE es[i].op = "complete"
    <3>1. PICK n \in 0 .. Len(es) : /\ c.due = r.base.due + Completes(es, n)
                                    /\ \A j \in 1 .. n : es[j].id \in c.seen
      BY <2>3 DEF AdvancedBy
    <3>2. c.due = r.base.due + Completes(es, Len(es))
      <4>1. Positions(es, "complete") # {}
        BY <2>3 DEF Positions
      <4> QED BY <1>2, <4>1, CombinedDue DEF AlreadyApplied
    <3>3. Completes(es, n) \in Nat /\ Completes(es, Len(es)) \in Nat
      <4>1. n \in Nat
        BY <1>0
      <4> HIDE DEF es
      <4> QED BY <1>0, <4>1, CompletesType
    <3>4. ~(n < i)
      <4>1. n < i => Completes(es, n) < Completes(es, Len(es))
        <5>1. i \in 1 .. Len(es) /\ n <= Len(es) /\ n \in Nat
          BY <1>0
        <5> HIDE DEF es
        <5>2. \A j \in 1 .. Len(es) :
                n < j /\ es[j].op = "complete" => Completes(es, n) < Completes(es, Len(es))
          BY <1>0, <5>1, CompletesMore
        <5> QED BY <2>3, <5>1, <5>2
      <4> QED BY <1>0, <3>1, <3>2, <3>3, <4>1
    <3>5. i \in 1 .. n
      BY <1>0, <3>4
    <3> QED BY <3>1, <3>5
  <2> QED BY <2>1, <2>2, <2>3 DEF Edit
<1>3. Rebased(r, c) = es \/ AlreadyApplied(expected, c, es)
  BY DEF Rebased
<1> QED BY <1>1, <1>2, <1>3

\* What a row that was put on top of a copy has and shows.
LEMMA OnTopOfShows ==
  ASSUME NEW r \in Row, NEW etag \in Nat, NEW base \in Body, NEW edits \in Seq(Edit)
  PROVE  LET q == OnTopOf(r, etag, base, edits) IN
         /\ q.here /\ q.etag = etag /\ q.base = base /\ q.edits = edits /\ q.deleted = r.deleted
         /\ q.ics.seen = base.seen \cup Ids(edits)
BY CombinedSeesMore DEF OnTopOf, Row

-----------------------------------------------------------------------------
(* What a row has to show: for the edits, and for what the server has. *)

RowTold(h) ==
  /\ RowGiven(h)
  /\ srv[h].live => Fits(h, srv[h].body)
  /\ \A e \in accepted[h] : Shows(h, e)

\* The edits and what they say have ids.
EditsGiven ==
  /\ \A h \in Hrefs : \A e \in accepted[h] :
       e.id < NextId /\ \A f \in accepted[h] : e.id = f.id => e = f
  /\ \A h \in Hrefs : srv[h].body.title < NextId
  /\ \A p \in Hand : p.body.title < NextId
  /\ ans[Loop].kind = "copy" => ans[Loop].body.title < NextId
  /\ \A f \in fetched : f.body.title < NextId

LEMMA EditParts ==
  /\ EditInvariant <=> /\ AloneInvariant
                       /\ EditsGiven /\ HandMade /\ CopiesFit /\ TakenGrown
                       /\ \A h \in Hrefs : RowTold(h)
  /\ EditInvariant' <=> /\ AloneInvariant'
                        /\ EditsGiven' /\ HandMade' /\ CopiesFit' /\ TakenGrown'
                        /\ \A h \in Hrefs : RowTold(h)'
<1>1. IdsGiven /\ ServerFits /\ EditsShown <=> EditsGiven /\ \A h \in Hrefs : RowTold(h)
  BY DEF IdsGiven, ServerFits, EditsShown, EditsGiven, RowTold
<1>2. (IdsGiven /\ ServerFits /\ EditsShown)' <=> (EditsGiven /\ \A h \in Hrefs : RowTold(h))'
  BY DEF IdsGiven, ServerFits, EditsShown, EditsGiven, RowTold
<1> QED BY <1>1, <1>2 DEF EditInvariant

\* A row that others write nothing about is told by what it is.
LEMMA RowTakes ==
  ASSUME NEW h \in Hrefs, NEW q, rows'[h] = q,
         UNCHANGED <<srv, accepted, deleted, phoneDone>>, NextId' = NextId,
         q.base.title < NextId,
         \A i \in 1 .. Len(q.edits) : q.edits[i] \in accepted[h],
         q.here /\ q.etag = 0 => accepted[h] # {},
         srv[h].live /\ q.here =>
           MadeFrom(srv[h].body, q) /\ (phoneDone[h] = 0 => AdvancedBy(srv[h].body, q)),
         \A e \in accepted[h] :
           \/ q.here /\ e.id \in q.ics.seen
           \/ /\ ~(q.here /\ q.etag = 0)
              /\ deleted[h] # "no" \/ Spoilt(h) \/ (e.op = "complete" /\ phoneDone[h] > 0)
  PROVE  RowTold(h)'
<1>1. RowGiven(h)'
  BY DEF RowGiven
<1>2. srv'[h].live => Fits(h, srv[h].body)'
  <2>1. CASE q.here /\ srv[h].live
    <3>1. MadeFrom(srv[h].body, rows[h])'
      BY <2>1 DEF MadeFrom
    <3>2. phoneDone[h] = 0 => AdvancedBy(srv[h].body, rows[h])'
      BY <2>1 DEF AdvancedBy, Completes
    <3> QED BY <3>1, <3>2 DEF Fits
  <2>2. CASE ~q.here \/ ~srv[h].live
    BY <2>2 DEF Fits
  <2> QED BY <2>1, <2>2
<1>3. \A e \in accepted'[h] : Shows(h, e)'
  BY DEF Shows, Spoilt
<1> QED BY <1>1, <1>2, <1>3 DEF RowTold

\* Ids count from one.
LEMMA NextIdType ==
  ASSUME TypeOK
  PROVE  NextId \in Nat /\ NextId # 0
BY DEF TypeOK, NextId

\* One that stays is told as it was, whoever takes an id.
LEMMA RowStays ==
  ASSUME TypeOK, NEW h \in Hrefs, RowTold(h),
         UNCHANGED <<rows[h], srv[h], accepted[h], deleted[h], phoneDone[h]>>,
         NextId' \in {NextId, NextId + 1}
  PROVE  RowTold(h)'
<1>1. RowGiven(h)'
  <2>1. rows[h].base.title \in Nat /\ NextId \in Nat
    BY NextIdType DEF TypeOK, Row, Body
  <2> QED BY <2>1 DEF RowTold, RowGiven
<1>2. srv'[h].live => Fits(h, srv[h].body)'
  <2>1. srv[h].live /\ rows[h].here => MadeFrom(srv[h].body, rows[h])'
    BY DEF RowTold, Fits, MadeFrom
  <2>2. srv[h].live /\ rows[h].here /\ phoneDone[h] = 0 => AdvancedBy(srv[h].body, rows[h])'
    BY DEF RowTold, Fits, AdvancedBy, Completes
  <2> QED BY <2>1, <2>2 DEF Fits
<1>3. \A e \in accepted'[h] : Shows(h, e)'
  BY DEF RowTold, Shows, Spoilt
<1> QED BY <1>1, <1>2, <1>3 DEF RowTold

\* One that goes, goes with what is no task there any more.
LEMMA RowGoes ==
  ASSUME TypeOK, NEW h \in Hrefs, rows'[h] = NoRow, Lost(h), srv[h].at # 0,
         UNCHANGED <<srv, accepted, deleted, phoneDone>>, NextId' = NextId
  PROVE  RowTold(h)'
<1>1. NoRow.base.title = 0 /\ NoRow.edits = <<>> /\ ~NoRow.here
  BY DEF NoRow, NewBody
<1>2. 0 < NextId
  BY NextIdType
<1>3. Spoilt(h)
  BY DEF Lost, Spoilt
<1>4. PICK q : q = NoRow
  OBVIOUS
<1>5. q.base.title < NextId /\ ~q.here /\ \A i \in 1 .. Len(q.edits) : q.edits[i] \in accepted[h]
  BY <1>1, <1>2, <1>4
<1>6. rows'[h] = q
  BY <1>4
<1> QED BY <1>3, <1>5, <1>6, RowTakes

\* One the server took: what was sent is the base, and the edits made since are
\* on top of it.
LEMMA RowAdvances ==
  ASSUME TypeOK, IcsIsCombined, NEW p \in Pending, rows[p.href].here, RowTold(p.href), WriteMade(p), p.op # "delete",
         NEW etag \in Nat, etag # 0, NEW copy \in Body, copy.title < NextId,
         p.body.seen \subseteq copy.seen, Grown(p.href, copy),
         phoneDone[p.href] = 0 => copy.due = p.body.due,
         rows'[p.href] = OnTopOf(rows[p.href], etag, copy, Unsent(rows[p.href], p)),
         UNCHANGED <<srv, accepted, deleted, phoneDone>>, NextId' = NextId
  PROVE  RowTold(p.href)'
<1> DEFINE h == p.href
           r == rows[h]
           es == r.edits
           fs == Unsent(r, p)
           q == OnTopOf(r, etag, copy, fs)
<1>0. /\ h \in Hrefs /\ r \in Row /\ es \in Seq(Edit) /\ Len(es) \in Nat /\ p.sent \in Nat
      /\ fs \in Seq(Edit) /\ srv[h].body \in Body
  <2>1. r \in Row
    BY LoopTypes DEF Pending
  <2> QED BY <2>1, LoopTypes, UnsentType DEF Pending, Row
<1>1. /\ p.sent <= Len(es)
      /\ r.base.seen \subseteq p.body.seen
      /\ \A i \in 1 .. p.sent : es[i].id \in p.body.seen
  BY DEF WriteMade, MadeFrom
<1>2. /\ Len(fs) = Len(es) - p.sent /\ Len(fs) \in Nat
      /\ \A i \in 1 .. Len(fs) : fs[i] = es[p.sent + i]
      /\ \A i \in 1 .. Len(es) : p.sent < i => i - p.sent \in 1 .. Len(fs) /\ fs[i - p.sent] = es[i]
  <2>1. fs = SubSeq(es, p.sent + 1, Len(es))
    BY DEF Unsent
  <2> HIDE DEF fs, es
  <2>2. /\ Len(fs) = Len(es) - p.sent /\ Len(fs) \in Nat
        /\ \A i \in 1 .. Len(fs) : fs[i] = es[p.sent + i]
    BY <1>0, <1>1, <2>1
  <2>3. ASSUME NEW i \in 1 .. Len(es), p.sent < i
        PROVE  i - p.sent \in 1 .. Len(fs) /\ fs[i - p.sent] = es[i]
    <3>1. i - p.sent \in 1 .. Len(fs) /\ p.sent + (i - p.sent) = i
      BY <1>0, <1>1, <2>2, <2>3
    <3> QED BY <2>2, <3>1
  <2> QED BY <2>2, <2>3
<1>3. /\ q.here /\ q.etag = etag /\ q.base = copy /\ q.edits = fs
      /\ q.ics.seen = copy.seen \cup Ids(fs)
  <2> HIDE DEF fs, r
  <2> QED BY <1>0, OnTopOfShows
<1>4. rows'[h] = q
  OBVIOUS
<1> HIDE DEF q
<1>5. \A i \in 1 .. Len(q.edits) : q.edits[i] \in accepted[h]
  <2>1. \A i \in 1 .. Len(es) : es[i] \in accepted[h]
    BY DEF RowTold, RowGiven
  <2> HIDE DEF fs, es
  <2>2. ASSUME NEW i \in 1 .. Len(fs)
        PROVE  fs[i] \in accepted[h]
    <3>1. p.sent + i \in 1 .. Len(es)
      BY <1>0, <1>1, <1>2
    <3> QED BY <1>2, <2>1, <3>1
  <2> QED BY <1>3, <2>2
<1>6. srv[h].live =>
        MadeFrom(srv[h].body, q) /\ (phoneDone[h] = 0 => AdvancedBy(srv[h].body, q))
  <2> SUFFICES ASSUME srv[h].live
               PROVE  MadeFrom(srv[h].body, q) /\ (phoneDone[h] = 0 => AdvancedBy(srv[h].body, q))
    OBVIOUS
  <2>1. MadeFrom(srv[h].body, r)
    BY DEF RowTold, Fits
  <2>2. copy.seen \subseteq srv[h].body.seen /\ (phoneDone[h] = 0 => srv[h].body.due = copy.due)
    BY DEF Grown
  <2>3. ASSUME NEW n \in 1 .. Len(fs), fs[n].op = "title", srv[h].body.title = fs[n].id,
               NEW i \in 1 .. n
        PROVE  fs[i].id \in srv[h].body.seen
    <3>1. /\ p.sent + n \in 1 .. Len(es) /\ fs[n] = es[p.sent + n]
          /\ p.sent + i \in 1 .. (p.sent + n) /\ fs[i] = es[p.sent + i]
      <4> HIDE DEF fs, es
      <4> QED BY <1>0, <1>1, <1>2
    <3> QED BY <2>1, <2>3, <3>1 DEF MadeFrom
  <2>4. MadeFrom(srv[h].body, q)
    BY <1>3, <2>2, <2>3 DEF MadeFrom
  <2>5. phoneDone[h] = 0 => AdvancedBy(srv[h].body, q)
    <3>1. Completes(q.edits, 0) = 0
      BY CompletesType
    <3>3. 0 \in 0 .. Len(q.edits)
      BY <1>2, <1>3
    <3>2. copy.due \in Nat
      BY DEF Body
    <3> QED BY <1>3, <2>2, <3>1, <3>2, <3>3 DEF AdvancedBy
  <2> QED BY <2>4, <2>5
<1>7. \A e \in accepted[h] :
        \/ q.here /\ e.id \in q.ics.seen
        \/ /\ ~(q.here /\ q.etag = 0)
           /\ deleted[h] # "no" \/ Spoilt(h) \/ (e.op = "complete" /\ phoneDone[h] > 0)
  <2> SUFFICES ASSUME NEW e \in accepted[h], e.id \in r.ics.seen
               PROVE  e.id \in q.ics.seen
    BY <1>3 DEF RowTold, Shows
  <2>1. r.ics.seen = r.base.seen \cup Ids(es)
    BY <1>0, CombinedSeesMore DEF IcsIsCombined
  <2>2. CASE e.id \in r.base.seen
    BY <1>1, <1>3, <2>2
  <2>3. CASE e.id \in Ids(es)
    <3>1. PICK i \in 1 .. Len(es) : e.id = es[i].id
      BY <2>3 DEF Ids
    <3>2. CASE i <= p.sent
      <4>1. i \in 1 .. p.sent
        BY <1>0, <3>2
      <4> QED BY <1>1, <1>3, <3>1, <4>1
    <3>3. CASE ~(i <= p.sent)
      <4>1. i - p.sent \in 1 .. Len(fs) /\ fs[i - p.sent] = es[i]
        BY <1>0, <1>2, <3>3
      <4>2. e.id \in Ids(fs)
        <5>1. PICK j \in 1 .. Len(fs) : fs[j].id = e.id
          BY <3>1, <4>1
        <5> QED BY <5>1 DEF Ids
      <4> QED BY <1>3, <4>2
    <3> QED BY <3>2, <3>3
  <2> QED BY <2>1, <2>2, <2>3
<1>8. q.base.title < NextId /\ ~(q.here /\ q.etag = 0)
  BY <1>3
<1> HIDE DEF r, es, fs, h
<1> QED BY <1>0, <1>4, <1>5, <1>6, <1>7, <1>8, RowTakes DEF h

\* One that takes the server's copy: its edits are on top of it, or in it, or the
\* copy takes them no more.
LEMMA RowTurns ==
  ASSUME TypeOK, IcsIsCombined, NEW h \in Hrefs, RowTold(h), ~rows[h].here => rows[h] = NoRow,
         \A e \in accepted[h] : \A f \in accepted[h] : e.id = f.id => e = f,
         NEW etag \in Nat, etag # 0, NEW copy \in Body, copy.title < NextId, Told(h, copy),
         copy.kind = "other" => Lost(h), srv[h].at # 0,
         rows'[h] = ServerCopy(rows[h], etag, copy),
         UNCHANGED <<srv, accepted, deleted, phoneDone>>, NextId' = NextId
  PROVE  RowTold(h)'
<1>1. CASE copy.kind = "other"
  <2>1. rows'[h] = NoRow
    BY <1>1 DEF ServerCopy
  <2> QED BY <1>1, <2>1, RowGoes
<1>2. CASE copy.kind # "other"
  <2> DEFINE r == rows[h]
             es == r.edits
             fs == Rebased(r, copy)
             q == OnTopOf(r, etag, copy, fs)
  <2>0. /\ r \in Row /\ es \in Seq(Edit) /\ Len(es) \in Nat /\ fs \in Seq(Edit) /\ srv[h].body \in Body
    <3>1. r \in Row
      BY LoopTypes
    <3> QED BY <3>1, LoopTypes, RebasedType DEF Row
  <2>1. /\ q.here /\ q.etag = etag /\ q.base = copy /\ q.edits = fs
        /\ q.ics.seen = copy.seen \cup Ids(fs)
    <3> HIDE DEF fs, r
    <3> QED BY <2>0, OnTopOfShows
  <2>2. rows'[h] = q
    BY <1>2 DEF ServerCopy
  <2>3. fs = <<>> \/ fs = es
    BY DEF Rebased
  <2>4. ~r.here => es = <<>>
    BY DEF NoRow
  <2>5. /\ r.here => MadeFrom(copy, r) /\ (phoneDone[h] = 0 => AdvancedBy(copy, r))
        /\ copy.kind # "todo" => Spoilt(h)
        /\ srv[h].live => copy.seen \subseteq srv[h].body.seen
                          /\ (phoneDone[h] = 0 => srv[h].body.due = copy.due)
    BY DEF Told, Fits, Grown
  <2>6. \A i \in 1 .. Len(es) : es[i] \in accepted[h]
    BY DEF RowTold, RowGiven
  <2> HIDE DEF q
  <2>7. \A i \in 1 .. Len(q.edits) : q.edits[i] \in accepted[h]
    BY <2>1, <2>3, <2>6
  <2>8. srv[h].live =>
          MadeFrom(srv[h].body, q) /\ (phoneDone[h] = 0 => AdvancedBy(srv[h].body, q))
    <3> SUFFICES ASSUME srv[h].live
                 PROVE  MadeFrom(srv[h].body, q) /\ (phoneDone[h] = 0 => AdvancedBy(srv[h].body, q))
      OBVIOUS
    <3>1. r.here => MadeFrom(srv[h].body, r)
      BY DEF RowTold, Fits
    <3>2. MadeFrom(srv[h].body, q)
      <4>1. CASE fs = es /\ r.here
        BY <2>1, <2>5, <3>1, <4>1 DEF MadeFrom
      <4>2. CASE fs = <<>>
        BY <2>1, <2>5, <4>2 DEF MadeFrom
      <4> QED BY <2>3, <2>4, <4>1, <4>2
    <3>3. phoneDone[h] = 0 => AdvancedBy(srv[h].body, q)
      <4>1. Completes(q.edits, 0) = 0
        BY CompletesType
      <4>2. 0 \in 0 .. Len(q.edits)
        <5>1. Len(fs) \in Nat
          <6> HIDE DEF fs
          <6> QED BY <2>0
        <5> QED BY <2>1, <5>1
      <4>3. copy.due \in Nat
        BY DEF Body
      <4> QED BY <2>1, <2>5, <4>1, <4>2, <4>3 DEF AdvancedBy
    <3> QED BY <3>2, <3>3
  <2>9. \A e \in accepted[h] :
          \/ q.here /\ e.id \in q.ics.seen
          \/ /\ ~(q.here /\ q.etag = 0)
             /\ deleted[h] # "no" \/ Spoilt(h) \/ (e.op = "complete" /\ phoneDone[h] > 0)
    <3> SUFFICES ASSUME NEW e \in accepted[h], r.here, e.id \in r.ics.seen,
                        ~Spoilt(h), e.op = "complete" => ~(phoneDone[h] > 0)
                 PROVE  e.id \in copy.seen \cup Ids(fs)
      BY <2>1 DEF RowTold, Shows
    <3>1. r.ics.seen = r.base.seen \cup Ids(es)
      BY CombinedSeesMore DEF IcsIsCombined
    <3>2. CASE e.id \in r.base.seen
      BY <2>5, <3>2 DEF MadeFrom
    <3>3. CASE e.id \in Ids(es)
      <4>1. PICK i \in 1 .. Len(es) : e.id = es[i].id
        BY <3>3 DEF Ids
      <4>2. e = es[i]
        BY <2>6, <4>1
      <4>3. copy.kind = "todo"
        BY <2>5
      <4>4. phoneDone[h] \in Nat
        BY DEF TypeOK
      <4>5. es[i].op = "complete" => AdvancedBy(copy, r)
        BY <2>5, <4>2, <4>4
      <4>6. ~Refuses(copy, es)
        BY <4>3 DEF Refuses
      <4>7. MadeFrom(copy, r)
        BY <2>5
      <4>8. es[i].id \in copy.seen \cup Ids(fs)
        <5>1. ASSUME NEW s \in Row, s = r
              PROVE  s.edits[i].id \in copy.seen \cup Ids(Rebased(s, copy))
          <6>1. i \in 1 .. Len(s.edits) /\ ~Refuses(copy, s.edits) /\ MadeFrom(copy, s)
                /\ (s.edits[i].op = "complete" => AdvancedBy(copy, s))
            BY <4>5, <4>6, <4>7, <5>1
          <6> HIDE DEF r
          <6> QED BY <6>1, ShownAreSeen
        <5> QED BY <2>0, <5>1
      <4> QED BY <4>1, <4>8
    <3> QED BY <3>1, <3>2, <3>3
  <2>10. q.base.title < NextId /\ ~(q.here /\ q.etag = 0)
    BY <2>1
  <2> HIDE DEF r, es, fs
  <2> QED BY <2>1, <2>2, <2>7, <2>8, <2>9, <2>10, RowTakes
<1> QED BY <1>1, <1>2

-----------------------------------------------------------------------------
(* What the steps of the loop do to it. *)

EditsTold ==
  /\ EditsGiven /\ HandMade /\ CopiesFit /\ TakenGrown
  /\ \A h \in Hrefs : RowTold(h)

LEMMA EditsParts ==
  /\ EditInvariant <=> AloneInvariant /\ EditsTold
  /\ EditInvariant' <=> AloneInvariant' /\ EditsTold'
BY EditParts DEF EditsTold

\* A write stays what it is while its row and what the server has do.
LEMMA WriteStays ==
  ASSUME NEW p, WriteMade(p),
         UNCHANGED <<rows[p.href], srv[p.href], accepted[p.href], deleted[p.href]>>
  PROVE  WriteMade(p)'
BY DEF WriteMade, MadeFrom, Completes, Holds

\* So does a copy.
LEMMA CopyStays ==
  ASSUME NEW h, NEW b, Told(h, b), UNCHANGED <<rows[h], srv[h], phoneDone[h]>>
  PROVE  Told(h, b)'
<1>1. rows[h].here => MadeFrom(b, rows[h])'
  BY DEF Told, Fits, MadeFrom
<1>2. rows[h].here /\ phoneDone[h] = 0 => AdvancedBy(b, rows[h])'
  BY DEF Told, Fits, AdvancedBy, Completes
<1>3. Fits(h, b)'
  BY <1>1, <1>2 DEF Fits
<1>4. Grown(h, b)' /\ (b.kind # "todo" => Spoilt(h)')
  BY DEF Told, Grown, Spoilt
<1> QED BY <1>3, <1>4 DEF Told

\* What the server has now is a copy of it.
LEMMA ServersIsTold ==
  ASSUME NEW h \in Hrefs, RowTold(h), srv[h].live, srv[h].body \in Body
  PROVE  Told(h, srv[h].body)
BY DEF RowTold, Told, Grown, Spoilt

\* The answer is that copy of that resource.
LEMMA AnswerTold ==
  ASSUME NEW h, NEW b, Told(h, b)', h = cur'[Loop].href, b = ans'[Loop].body
  PROVE  Told(cur[Loop].href, ans[Loop].body)'
BY DEF Told, Fits, MadeFrom, AdvancedBy, Completes, Grown, Spoilt

\* A row is read for what it is.
LEMMA PendingMade ==
  ASSUME TypeOK, BaseIsServersCopy, IcsIsCombined, NEW h \in Hrefs, IsPending(rows[h]), RowTold(h),
         \A e \in accepted[h] : e.id < NextId
  PROVE  WriteMade(PendingOf(h)) /\ PendingOf(h).body.title < NextId
<1> DEFINE p == PendingOf(h)
           r == rows[h]
           es == r.edits
<1>1. /\ p.href = h /\ p.body = r.ics /\ p.sent = Len(es) /\ p.etag = r.etag
      /\ p.op = "create" => r.etag = 0
      /\ p.op = "update" => r.etag # 0
  BY DEF PendingOf
<1>2. r.here /\ r.ics = Combined(r.base, es) /\ es \in Seq(Edit) /\ Len(es) \in Nat
      /\ r.base \in Body
  BY LoopTypes DEF IsPending, IcsIsCombined, Row
<1>3. /\ r.base.title < NextId /\ \A i \in 1 .. Len(es) : es[i] \in accepted[h]
      /\ r.here /\ r.etag = 0 => accepted[h] # {}
  BY DEF RowTold, RowGiven
<1>4. r.ics.seen = r.base.seen \cup Ids(es) /\ r.ics.kind = r.base.kind
      /\ r.ics.due = r.base.due + Completes(es, Len(es))
  BY <1>2, CombinedSeesMore, CombinedDue
<1>5. \A i \in 1 .. Len(es) : es[i].id \in r.ics.seen
  BY <1>4 DEF Ids
<1>6. MadeFrom(r.ics, r)
  <2>1. \A n \in 1 .. Len(es) : \A i \in 1 .. n : i \in 1 .. Len(es)
    BY <1>2
  <2> QED BY <1>4, <1>5, <2>1 DEF MadeFrom
<1>7. p.op = "update" /\ Holds(h, p.etag) => p.body.kind = srv[h].body.kind
  BY <1>1, <1>2, <1>4 DEF Holds, BaseIsServersCopy
<1>8. r.ics.title < NextId
  <2> DEFINE P == Positions(es, "title")
  <2>1. P \in SUBSET (1 .. Len(es))
    BY <1>2 DEF Positions
  <2>2. r.ics.title = IF P = {} THEN r.base.title ELSE es[Newest(P)].id
    BY <1>2 DEF Combined
  <2>3. P # {} => Newest(P) \in 1 .. Len(es)
    <3> HIDE DEF P, es
    <3> QED BY <1>2, <2>1, NewestIsMember
  <2> HIDE DEF P
  <2> QED BY <1>3, <2>2, <2>3
<1> HIDE DEF p
<1>9. p.sent <= Len(es) /\ \A i \in 1 .. p.sent : es[i].id \in p.body.seen
  BY <1>1, <1>2, <1>5
<1>10. WriteMade(p)
  BY <1>1, <1>2, <1>3, <1>4, <1>6, <1>7, <1>9 DEF WriteMade
<1> QED BY <1>1, <1>8, <1>10 DEF p

\* A step that writes nothing: what it takes up is pending, or what the server
\* has, and what was taken is the write in hand still.
QuietStep ==
  /\ UNCHANGED <<rows, srv, accepted, deleted, phoneDone>> /\ NextId' = NextId
  /\ Hand' \subseteq Hand \cup AllPending
  /\ \A f \in fetched' :
       f \in fetched \/ (f.href \in Hrefs /\ srv[f.href].live /\ f.body = srv[f.href].body)
  /\ ans'[Loop].kind = "copy" =>
       \/ ans'[Loop] = ans[Loop] /\ cur'[Loop].href = cur[Loop].href
       \/ LET h == cur'[Loop].href IN
          h \in Hrefs /\ srv[h].live /\ ans'[Loop].body = srv[h].body
  /\ Taken' => Taken /\ cur'[Loop] = cur[Loop]

LEMMA QuietTold ==
  ASSUME EditInvariant, QuietStep
  PROVE  EditsTold'
<1>0. /\ TypeOK /\ BaseIsServersCopy /\ IcsIsCombined
      /\ EditsGiven /\ HandMade /\ CopiesFit /\ TakenGrown /\ \A h \in Hrefs : RowTold(h)
  BY EditParts, AloneParts DEF SyncInvariant
<1>1. UNCHANGED <<rows, srv, accepted, deleted, phoneDone>> /\ NextId' = NextId
  BY DEF QuietStep
<1>2. \A h \in Hrefs : RowTold(h)'
  BY <1>0, <1>1, RowStays
<1>3. ASSUME NEW p \in Hand'
      PROVE  WriteMade(p)' /\ p.body.title < NextId
  <2>1. CASE p \in Hand
    BY <1>0, <1>1, <2>1, WriteStays DEF HandMade, EditsGiven
  <2>2. CASE p \in AllPending
    <3>1. PICK h \in Hrefs : IsPending(rows[h]) /\ p = PendingOf(h)
      BY <2>2 DEF AllPending
    <3>2. WriteMade(p) /\ p.body.title < NextId
      BY <1>0, <3>1, PendingMade DEF EditsGiven
    <3> QED BY <1>1, <3>2, WriteStays
  <2> QED BY <2>1, <2>2 DEF QuietStep
<1>4. ASSUME NEW f \in fetched'
      PROVE  Told(f.href, f.body)' /\ f.body.title < NextId
  <2>1. Told(f.href, f.body) /\ f.body.title < NextId
    BY <1>0, LoopTypes, ServersIsTold DEF QuietStep, CopiesFit, EditsGiven
  <2> QED BY <1>1, <2>1, CopyStays
<1>5. ans'[Loop].kind = "copy" =>
        Told(cur[Loop].href, ans[Loop].body)' /\ ans'[Loop].body.title < NextId
  <2>1. PICK h, b : h = cur'[Loop].href /\ b = ans'[Loop].body
    OBVIOUS
  <2> SUFFICES ASSUME ans'[Loop].kind = "copy"
               PROVE  Told(cur[Loop].href, ans[Loop].body)' /\ b.title < NextId
    BY <2>1
  <2>2. Told(h, b) /\ b.title < NextId
    <3>1. CASE ans'[Loop] = ans[Loop] /\ cur'[Loop].href = cur[Loop].href
      BY <1>0, <2>1, <3>1 DEF CopiesFit, EditsGiven
    <3>2. CASE h \in Hrefs /\ srv[h].live /\ b = srv[h].body
      BY <1>0, <3>2, LoopTypes, ServersIsTold DEF EditsGiven
    <3> QED BY <2>1, <3>1, <3>2 DEF QuietStep
  <2>3. Told(h, b)'
    BY <1>1, <2>2, CopyStays
  <2> QED BY <2>1, <2>2, <2>3, AnswerTold
<1>6. TakenGrown'
  <2> SUFFICES ASSUME Taken'
               PROVE  LET p == cur'[Loop]
                          a == ans'[Loop]
                      IN  /\ p.op # "delete"
                          /\ Grown(p.href, p.body)
                          /\ a.kind = "copy" => /\ p.body.seen \subseteq a.body.seen
                                                /\ phoneDone[p.href] = 0 => a.body.due = p.body.due
    BY <1>1 DEF TakenGrown, Grown
  <2>1. Taken /\ cur'[Loop] = cur[Loop]
    BY DEF QuietStep
  <2>2. cur[Loop].op # "delete" /\ Grown(cur[Loop].href, cur[Loop].body)
    BY <1>0, <2>1 DEF TakenGrown
  <2>3. ans'[Loop] = ans[Loop] =>
          (ans[Loop].kind = "copy" =>
             /\ cur[Loop].body.seen \subseteq ans[Loop].body.seen
             /\ phoneDone[cur[Loop].href] = 0 => ans[Loop].body.due = cur[Loop].body.due)
    BY <1>0, <2>1 DEF TakenGrown
  <2> QED BY <2>1, <2>2, <2>3 DEF QuietStep, Grown
<1>7. EditsGiven'
  BY <1>0, <1>1, <1>3, <1>4, <1>5 DEF EditsGiven
<1>8. HandMade'
  BY <1>3 DEF HandMade
<1>9. CopiesFit'
  BY <1>4, <1>5 DEF CopiesFit
<1> QED BY <1>2, <1>6, <1>7, <1>8, <1>9 DEF EditsTold

\* A step that writes rows by what the server answered: what is in hand still is
\* of other rows, and no answer is left.
LEMMA SettledTold ==
  ASSUME EditInvariant, UNCHANGED <<srv, accepted, deleted, phoneDone>>, NextId' = NextId,
         \A h \in Hrefs : RowTold(h)', Hand' \subseteq Hand,
         \A p \in Hand' : rows'[p.href] = rows[p.href],
         fetched' = {}, ans'[Loop].kind # "copy", ~Taken'
  PROVE  EditsTold'
<1>0. EditsGiven /\ HandMade
  BY EditParts
<1>1. EditsGiven'
  BY <1>0 DEF EditsGiven
<1>2. HandMade'
  <2>1. \A p \in Hand' : WriteMade(p)'
    BY <1>0, WriteStays DEF HandMade
  <2> QED BY <2>1 DEF HandMade
<1>3. CopiesFit' /\ TakenGrown'
  BY DEF CopiesFit, TakenGrown
<1> QED BY <1>1, <1>2, <1>3 DEF EditsTold

\* Between two writes nothing has been taken.
LEMMA NothingTaken ==
  ASSUME pc'[Loop] \notin Writing, ans'[Loop].kind = "none"
  PROVE  Hand' = todo'[Loop] /\ ~Taken' /\ ans'[Loop].kind # "copy"
BY DEF Hand, Taken, Writing

LEMMA DoneLeaves ==
  ASSUME TypeOK, Done(Loop) \/ Leave(Loop)
  PROVE  /\ pc'[Loop] \in {"push", "idle"} /\ ans'[Loop].kind = "none" /\ ~Taken'
         /\ Hand' \subseteq todo[Loop]
<1>1. pc'[Loop] \in {"push", "idle"} /\ ans'[Loop].kind = "none" /\ todo'[Loop] \subseteq todo[Loop]
  BY WorkersAssumption DEF TypeOK, Done, Leave, Goto, Says
<1> QED BY <1>1, NothingTaken DEF Writing

\* The counters of the model that faults use give no ids.
LEMMA SameIds ==
  /\ UNCHANGED used => NextId' = NextId
  /\ TypeOK /\ Fault => NextId' = NextId
BY DEF NextId, Fault, TypeOK

LEMMA PushQuiet ==
  ASSUME EditInvariant,
         \/ Begin(Loop) \/ NeedCopy(Loop) \/ FetchOne(Loop) \/ DeleteCurrent(Loop)
         \/ DeleteRefused(Loop) \/ Reread(Loop) \/ PushDone(Loop)
  PROVE  QuietStep
<1>0. TypeOK /\ WriteInHand /\ AnsweredBeforeReread /\ HandSound
  BY EditParts, AloneParts DEF SyncInvariant, RoundTold
<1>1. UNCHANGED <<rows, srv, accepted, deleted, phoneDone, fetched>> /\ NextId' = NextId
  <2>1. UNCHANGED <<cache, server, used, ghosts, fetched>>
    BY DEF Begin, NeedCopy, FetchOne, DeleteCurrent, DeleteRefused, Reread, PushDone, pull
  <2> QED BY <2>1, SameIds DEF cache, server, ghosts
<1>2. pc \in [Workers -> Steps] /\ todo \in [Workers -> SUBSET Pending] /\ Loop \in Workers
      /\ cur \in [Workers -> Pending \cup {NoWrite}] /\ ans \in [Workers -> Answer]
  BY <1>0, WorkersAssumption DEF TypeOK
<1> DEFINE Kept ==
      /\ Hand' \subseteq Hand \cup AllPending
      /\ ans'[Loop].kind = "copy" =>
           \/ ans'[Loop] = ans[Loop] /\ cur'[Loop].href = cur[Loop].href
           \/ LET h == cur'[Loop].href IN
              h \in Hrefs /\ srv[h].live /\ ans'[Loop].body = srv[h].body
      /\ Taken' => Taken /\ cur'[Loop] = cur[Loop]
<1> SUFFICES Kept
  BY <1>1 DEF QuietStep
<1>3. CASE Begin(Loop)
  <2>1. pc'[Loop] = "push" /\ todo'[Loop] = AllPending /\ ans' = ans /\ pc[Loop] = "idle"
    BY <1>2, <1>3 DEF Begin, Goto, At
  <2>2. ans[Loop].kind = "none"
    BY <1>0, <2>1 DEF HandSound, Writing
  <2>3. Hand' = AllPending /\ ~Taken' /\ ans'[Loop].kind # "copy"
    BY <2>1, <2>2, NothingTaken DEF Writing
  <2> QED BY <2>3
<1>4. CASE NeedCopy(Loop)
  <2>1. /\ pc[Loop] = "sent" /\ ans'[Loop].kind = "none" /\ UNCHANGED <<todo, cur>>
        /\ pc'[Loop] \in {"confirm", "refetch"} /\ (pc'[Loop] = "confirm" => ans[Loop].kind = "kept")
    BY <1>2, <1>4 DEF NeedCopy, Goto, At, Says
  <2>2. Hand' = Hand
    BY <2>1 DEF Hand, Writing
  <2>3. Taken' => Taken
    BY <2>1 DEF Taken
  <2> QED BY <2>1, <2>2, <2>3
<1>5. CASE FetchOne(Loop)
  <2>1. /\ pc[Loop] \in {"confirm", "refetch"} /\ UNCHANGED <<todo, cur>>
        /\ pc'[Loop] = IF pc[Loop] = "confirm" THEN "confirmed" ELSE "refetched"
        /\ ans'[Loop] = IF srv[cur[Loop].href].live THEN CopyOf(cur[Loop].href) ELSE Says("missing")
    BY <1>2, <1>5 DEF FetchOne, Goto, At
  <2>2. Hand' = Hand
    BY <2>1 DEF Hand, Writing
  <2>3. ans'[Loop].kind = "copy" =>
          srv[cur[Loop].href].live /\ ans'[Loop].body = srv[cur[Loop].href].body
    BY <2>1 DEF CopyOf, Says
  <2>4. ans'[Loop].kind \in {"copy", "missing"}
    BY <2>1 DEF CopyOf, Says
  <2>5. Taken' => Taken
    BY <2>1, <2>4 DEF Taken
  <2>6. cur[Loop].href \in Hrefs
    BY <1>0, <2>1, HandType DEF Writing
  <2> QED BY <2>1, <2>2, <2>3, <2>5, <2>6
<1>6. CASE DeleteCurrent(Loop)
  <2>1. /\ pc[Loop] = "refetched" /\ pc'[Loop] = "redelete" /\ UNCHANGED <<todo, cur, ans>>
        /\ ans[Loop].kind = "copy"
    BY <1>2, <1>6 DEF DeleteCurrent, Goto, At
  <2>2. Hand' = Hand
    BY <2>1 DEF Hand, Writing
  <2>3. ~Taken'
    BY <2>1 DEF Taken
  <2> QED BY <2>1, <2>2, <2>3
<1>7. CASE Done(Loop)
  BY <1>0, <1>7, DoneLeaves DEF Hand
<1>8. CASE Reread(Loop) /\ ~Done(Loop)
  <2> DEFINE h == cur[Loop].href
  <2>1. /\ pc[Loop] = "reread" /\ IsPending(rows[h]) /\ pc'[Loop] = "again"
        /\ cur'[Loop] = PendingOf(h) /\ UNCHANGED <<todo, ans>>
    BY <1>2, <1>8 DEF Reread, Goto, At
  <2>2. h \in Hrefs
    BY <1>0, <2>1, HandType DEF Writing
  <2>3. PendingOf(h) \in AllPending
    BY <2>1, <2>2 DEF AllPending
  <2>4. Hand' = todo[Loop] \cup {PendingOf(h)}
    BY <2>1 DEF Hand, Writing
  <2>5. Hand' \subseteq Hand \cup AllPending
    BY <2>3, <2>4 DEF Hand
  <2>6. ans[Loop].kind = "none"
    BY <1>0, <1>2, <2>1 DEF AnsweredBeforeReread
  <2>7. ~Taken'
    BY <2>1, <2>6 DEF Taken
  <2> QED BY <2>1, <2>5, <2>6, <2>7
<1>9. CASE PushDone(Loop)
  <2>1. pc[Loop] = "push" /\ pc'[Loop] = "lists" /\ UNCHANGED <<todo, ans>>
    BY <1>2, <1>9 DEF PushDone, Goto, At
  <2>2. ans[Loop].kind = "none"
    BY <1>0, <2>1 DEF HandSound, Writing
  <2>3. Hand' = todo[Loop] /\ ~Taken' /\ ans'[Loop].kind # "copy"
    BY <2>1, <2>2, NothingTaken DEF Writing
  <2> QED BY <2>3 DEF Hand
<1>10. DeleteRefused(Loop) => Done(Loop)
  BY DEF DeleteRefused
<1> QED BY <1>3, <1>4, <1>5, <1>6, <1>7, <1>8, <1>9, <1>10

LEMMA PullQuiet ==
  ASSUME EditInvariant, ReadLists \/ ReadChanges \/ ReadKnown \/ FetchWanted
  PROVE  QuietStep
<1>0. TypeOK /\ HandSound
  BY EditParts, AloneParts DEF SyncInvariant, RoundTold
<1>1. UNCHANGED <<rows, srv, accepted, deleted, phoneDone>> /\ NextId' = NextId
  <2>1. UNCHANGED <<cache, server, used, ghosts>>
    BY DEF ReadLists, ReadChanges, ReadKnown, FetchWanted
  <2> QED BY <2>1, SameIds DEF cache, server, ghosts
<1>2. pc[Loop] \in {"lists", "changes", "known", "fetch"}
  BY DEF ReadLists, ReadChanges, ReadKnown, FetchWanted, At
<1>3. todo[Loop] = {} /\ ans[Loop].kind = "none"
  BY <1>0, <1>2 DEF HandSound, Writing
<1>4. /\ pc'[Loop] \in {"idle", "changes", "known", "finish", "fetch", "store"}
      /\ todo'[Loop] = {} /\ ans'[Loop].kind = "none"
  <2>1. /\ pc \in [Workers -> Steps] /\ todo \in [Workers -> SUBSET Pending] /\ Loop \in Workers
        /\ ans \in [Workers -> Answer]
    BY <1>0, WorkersAssumption DEF TypeOK
  <2> QED BY <1>3, <2>1 DEF ReadLists, ReadChanges, ReadKnown, FetchWanted, Leave, Goto, Says
<1>5. Hand' = {} /\ ~Taken' /\ ans'[Loop].kind # "copy"
  BY <1>4, NothingTaken DEF Writing
<1>6. \A f \in fetched' :
        f \in fetched \/ (f.href \in Hrefs /\ srv[f.href].live /\ f.body = srv[f.href].body)
  <2>1. CASE FetchWanted
    BY <2>1 DEF FetchWanted, Wanted
  <2>2. CASE ReadLists \/ ReadChanges \/ ReadKnown
    BY <2>2 DEF ReadLists, ReadChanges, ReadKnown, pull
  <2> QED BY <2>1, <2>2
<1> QED BY <1>1, <1>5, <1>6 DEF QuietStep

LEMMA OutsideQuiet ==
  ASSUME EditInvariant,
         TimePasses \/ Crash \/ NetworkFails(Loop) \/ ServerError(Loop) \/ UNCHANGED vars
  PROVE  QuietStep
<1>0. TypeOK
  BY EditParts, AloneParts DEF SyncInvariant
<1>1. UNCHANGED <<rows, srv, accepted, deleted, phoneDone>> /\ NextId' = NextId
  <2>1. CASE TimePasses
    BY <2>1, SameIds DEF TimePasses, ghosts
  <2>2. CASE Crash \/ NetworkFails(Loop) \/ ServerError(Loop)
    <3>1. UNCHANGED <<cache, server, ghosts>> /\ Fault
      BY <2>2 DEF Crash, NetworkFails, ServerError
    <3> QED BY <1>0, <3>1, SameIds DEF cache, server, ghosts
  <2>3. CASE UNCHANGED vars
    BY <2>3, SameIds DEF vars, cache, server, ghosts
  <2> QED BY <2>1, <2>2, <2>3
<1>2. CASE TimePasses \/ UNCHANGED vars
  <2>1. UNCHANGED <<pc, todo, cur, ans, fetched>>
    BY <1>2 DEF TimePasses, vars, push, pull
  <2>2. Hand' = Hand /\ (Taken' <=> Taken)
    BY <2>1 DEF Hand, Taken
  <2> QED BY <1>1, <2>1, <2>2 DEF QuietStep
<1>3. CASE Crash \/ NetworkFails(Loop) \/ ServerError(Loop)
  <2>1. /\ pc'[Loop] \in {"idle", "push"} /\ ans'[Loop].kind = "none"
        /\ todo'[Loop] \subseteq todo[Loop] /\ fetched' \subseteq fetched
    <3>1. /\ pc \in [Workers -> Steps] /\ todo \in [Workers -> SUBSET Pending] /\ Loop \in Workers
          /\ ans \in [Workers -> Answer]
      BY <1>0, WorkersAssumption DEF TypeOK
    <3> QED BY <1>3, <3>1
            DEF Crash, NetworkFails, ServerError, Leave, ForgetPull, Goto, Says, pull
  <2>2. Hand' = todo'[Loop] /\ ~Taken' /\ ans'[Loop].kind # "copy"
    BY <2>1, NothingTaken DEF Writing
  <2> QED BY <1>1, <2>1, <2>2 DEF QuietStep, Hand
<1> QED BY <1>2, <1>3

\* A write is done with: its row is told, and no other row is written.
LEMMA AfterWrite ==
  ASSUME EditInvariant, pc[Loop] \in Writing, NEW g \in Hrefs, g = cur[Loop].href, RowTold(g)',
         \A h \in Hrefs \ {g} : rows'[h] = rows[h],
         UNCHANGED <<srv, accepted, deleted, phoneDone, fetched, used>>,
         Hand' \subseteq todo[Loop], ans'[Loop].kind # "copy", ~Taken'
  PROVE  EditsTold'
<1>0. /\ TypeOK /\ HandSound /\ PullTold /\ \A h \in Hrefs : RowTold(h)
  BY EditParts, AloneParts DEF SyncInvariant, RoundTold
<1>1. NextId' = NextId
  BY SameIds
<1>2. \A h \in Hrefs : RowTold(h)'
  <2>1. \A h \in Hrefs \ {g} : RowTold(h)'
    BY <1>0, <1>1, RowStays
  <2> QED BY <2>1
<1>3. fetched' = {}
  BY <1>0, NothingFetched DEF Writing
<1>4. \A p \in Hand' : rows'[p.href] = rows[p.href]
  <2>1. \A p \in todo[Loop] : p.href \in Hrefs \ {g}
    BY <1>0, LoopTypes DEF HandSound, Pending
  <2> QED BY <2>1
<1>5. Hand' \subseteq Hand
  BY DEF Hand
<1> QED BY <1>1, <1>2, <1>3, <1>4, <1>5, SettledTold

\* What was sent is the base, in its words or the server's.
LEMMA StoredTold ==
  ASSUME EditInvariant, ApplyStored(Loop) \/ ApplyConfirmed(Loop)
  PROVE  EditsTold'
<1>0. /\ TypeOK /\ WriteInHand /\ IcsIsCombined /\ AnswersHold /\ AnswersTold
      /\ EditsGiven /\ HandMade /\ CopiesFit /\ TakenGrown /\ \A h \in Hrefs : RowTold(h)
  BY EditParts, AloneParts DEF SyncInvariant, RoundTold
<1> DEFINE a == ans[Loop]
<1>1. /\ pc[Loop] \in {"sent", "confirmed"} /\ Done(Loop)
      /\ UNCHANGED <<srv, accepted, deleted, phoneDone, fetched, used>>
  BY DEF ApplyStored, ApplyConfirmed, At, server, pull, ghosts
<1>2. PICK p \in Pending, g \in Hrefs : p = cur[Loop] /\ g = p.href /\ p \in Hand /\ pc[Loop] \in Writing
  BY <1>0, <1>1, HandType DEF Hand, Writing
<1>3. Hand' \subseteq todo[Loop] /\ ans'[Loop].kind # "copy" /\ ~Taken'
  BY <1>0, <1>1, DoneLeaves
<1>4. NextId' = NextId
  BY <1>1, SameIds
<1>5. \/ UNCHANGED rows
      \/ \E copy \in Body :
           /\ Pushed(p, a.etag, copy) /\ a.etag \in Nat /\ a.etag # 0 /\ copy.title < NextId
           /\ p.op # "delete" /\ p.body.seen \subseteq copy.seen /\ Grown(g, copy)
           /\ phoneDone[g] = 0 => copy.due = p.body.due
  <2>1. CASE ApplyStored(Loop)
    <3>1. pc[Loop] = "sent" /\ a.kind = "stored" /\ Pushed(p, a.etag, p.body)
      BY <1>2, <2>1 DEF ApplyStored, At
    <3>2. p.op # "delete" /\ Grown(g, p.body)
      BY <1>0, <1>2, <3>1 DEF TakenGrown, Taken
    <3>3. a.etag # 0 /\ a.etag \in Nat
      BY <1>0, <3>1, LoopTypes DEF AnswersTold
    <3>4. p.body \in Body /\ p.body.title < NextId
      BY <1>0, <1>2 DEF Pending, EditsGiven
    <3> QED BY <3>1, <3>2, <3>3, <3>4
  <2>2. CASE ApplyConfirmed(Loop) /\ a.kind = "copy"
    <3>1. pc[Loop] = "confirmed" /\ Pushed(p, a.etag, a.body)
      BY <1>2, <2>2 DEF ApplyConfirmed, At
    <3>2. /\ p.op # "delete" /\ p.body.seen \subseteq a.body.seen
          /\ phoneDone[g] = 0 => a.body.due = p.body.due
      BY <1>0, <1>2, <2>2, <3>1 DEF TakenGrown, Taken
    <3>3. Grown(g, a.body)
      BY <1>0, <1>2, <2>2 DEF CopiesFit, Told
    <3>4. a.etag # 0 /\ a.etag \in Nat /\ a.body \in Body
      BY <1>0, <2>2, LoopTypes DEF AnswersTold, Current
    <3>5. a.body.title < NextId
      BY <1>0, <2>2 DEF EditsGiven
    <3> QED BY <3>1, <3>2, <3>3, <3>4, <3>5
  <2>3. CASE ApplyConfirmed(Loop) /\ a.kind # "copy"
    BY <2>3 DEF ApplyConfirmed
  <2> QED BY <2>1, <2>2, <2>3
<1>6. CASE UNCHANGED rows
  <2>1. RowTold(g)'
    BY <1>0, <1>1, <1>2, <1>4, <1>6, RowStays
  <2> QED BY <1>1, <1>2, <1>3, <1>6, <2>1, AfterWrite
<1>7. ASSUME NEW copy \in Body,
             Pushed(p, a.etag, copy), a.etag \in Nat, a.etag # 0, copy.title < NextId,
             p.op # "delete", p.body.seen \subseteq copy.seen, Grown(g, copy),
             phoneDone[g] = 0 => copy.due = p.body.due, ~UNCHANGED rows
      PROVE  EditsTold'
  <2> DEFINE q == OnTopOf(rows[g], a.etag, copy, Unsent(rows[g], p))
  <2>1. rows[g].here /\ rows' = [rows EXCEPT ![g] = q]
    BY <1>2, <1>7 DEF Pushed
  <2> HIDE DEF q
  <2>2. rows \in [Hrefs -> Row]
    BY <1>0 DEF TypeOK
  <2>3. rows'[g] = q /\ \A h \in Hrefs \ {g} : rows'[h] = rows[h]
    BY <1>2, <2>1, <2>2
  <2>4. RowTold(g) /\ WriteMade(p)
    BY <1>0, <1>2 DEF HandMade
  <2>5. RowTold(g)'
    <3>1. /\ rows[p.href].here /\ RowTold(p.href) /\ Grown(p.href, copy)
          /\ phoneDone[p.href] = 0 => copy.due = p.body.due
          /\ rows'[p.href] = OnTopOf(rows[p.href], a.etag, copy, Unsent(rows[p.href], p))
      BY <1>2, <1>7, <2>1, <2>3, <2>4 DEF q
    <3> HIDE DEF a
    <3>2. RowTold(p.href)'
      BY <1>0, <1>1, <1>4, <1>7, <2>4, <3>1, RowAdvances
    <3> QED BY <1>2, <3>2
  <2> QED BY <1>1, <1>2, <1>3, <2>3, <2>5, AfterWrite
<1> QED BY <1>5, <1>6, <1>7

\* What is gone there goes here; and so does what is no task any more.
LEMMA GoneTold ==
  ASSUME EditInvariant, ApplyDeleted(Loop) \/ ApplyMissing(Loop) \/ ApplyGone(Loop)
  PROVE  EditsTold'
<1>0. /\ TypeOK /\ WriteInHand /\ HandSound /\ AnswersTold /\ RowsKnown
      /\ \A h \in Hrefs : RowTold(h)
  BY EditParts, AloneParts DEF SyncInvariant, RoundTold, StoreTold
<1>1. /\ pc[Loop] \in {"sent", "resent", "refetched"} /\ Done(Loop)
      /\ UNCHANGED <<srv, accepted, deleted, phoneDone, fetched, used>>
      /\ ans[Loop].kind \in {"deleted", "missing"}
  BY DEF ApplyDeleted, ApplyMissing, ApplyGone, At, server, pull, ghosts
<1>2. PICK p \in Pending, g \in Hrefs : p = cur[Loop] /\ g = p.href /\ p \in Hand /\ pc[Loop] \in Writing
  BY <1>0, <1>1, HandType DEF Hand, Writing
<1>3. Hand' \subseteq todo[Loop] /\ ans'[Loop].kind # "copy" /\ ~Taken'
  BY <1>0, <1>1, DoneLeaves
<1>4. NextId' = NextId
  BY <1>1, SameIds
<1>5. UNCHANGED rows \/ (Forget(g) /\ p.op # "create")
  <2>1. pc[Loop] = "resent" => p.op = "delete"
    BY <1>0, <1>2 DEF HandSound
  <2> QED BY <1>2, <2>1 DEF ApplyDeleted, ApplyMissing, ApplyGone, At
<1>6. CASE UNCHANGED rows
  <2>1. RowTold(g)'
    BY <1>0, <1>1, <1>2, <1>4, <1>6, RowStays
  <2> QED BY <1>1, <1>2, <1>3, <1>6, <2>1, AfterWrite
<1>7. CASE Forget(g) /\ p.op # "create"
  <2>1. rows \in [Hrefs -> Row]
    BY <1>0 DEF TypeOK
  <2>2. rows'[g] = NoRow /\ \A h \in Hrefs \ {g} : rows'[h] = rows[h]
    BY <1>7, <2>1 DEF Forget
  <2>3. Lost(g)
    BY <1>0, <1>1, <1>2, <1>7 DEF AnswersTold, Lost
  <2>4. srv[g].at # 0
    <3>1. rows[g].etag # 0
      BY <1>0, <1>2, <1>7 DEF HandSound
    <3> QED BY <1>0, <3>1, LoopTypes DEF RowsKnown
  <2>5. RowTold(g)'
    BY <1>0, <1>1, <1>4, <2>2, <2>3, <2>4, RowGoes
  <2> QED BY <1>1, <1>2, <1>3, <2>2, <2>5, AfterWrite
<1> QED BY <1>5, <1>6, <1>7

\* The edits are put on top of the copy that stood in the way.
LEMMA RebasedTold ==
  ASSUME EditInvariant, Rebase(Loop)
  PROVE  EditsTold'
<1>0. /\ TypeOK /\ WriteInHand /\ IcsIsCombined /\ HandSound /\ AnswersTold /\ RowsKnown
      /\ EditsGiven /\ CopiesFit /\ \A h \in Hrefs : RowTold(h)
  BY EditParts, AloneParts DEF SyncInvariant, RoundTold, StoreTold
<1> DEFINE a == ans[Loop]
<1>1. /\ pc[Loop] = "refetched" /\ a.kind = "copy"
      /\ UNCHANGED <<srv, accepted, deleted, phoneDone, fetched, used, todo>>
  BY DEF Rebase, At, server, pull, ghosts
<1>2. PICK g \in Hrefs : g = cur[Loop].href /\ pc[Loop] \in Writing
  BY <1>0, <1>1, HandType DEF Writing
<1>3. /\ rows \in [Hrefs -> Row] /\ pc'[Loop] = "reread" /\ ans'[Loop].kind = "none"
  BY <1>0, WorkersAssumption DEF TypeOK, Rebase, Goto, Says
<1>4. /\ rows'[g] = ServerCopy(rows[g], a.etag, a.body)
      /\ \A h \in Hrefs \ {g} : rows'[h] = rows[h]
  BY <1>2, <1>3 DEF Rebase
<1>5. Hand' \subseteq todo[Loop] /\ ans'[Loop].kind # "copy" /\ ~Taken'
  BY <1>1, <1>3 DEF Hand, Taken, Writing
<1>6. /\ a.etag # 0 /\ a.etag \in Nat /\ a.body \in Body /\ a.body.title < NextId
      /\ Told(g, a.body) /\ (a.body.kind = "other" => Lost(g)) /\ srv[g].at # 0
      /\ ~rows[g].here => rows[g] = NoRow
      /\ \A e \in accepted[g] : \A f \in accepted[g] : e.id = f.id => e = f
  BY <1>0, <1>1, <1>2, LoopTypes DEF AnswersTold, Current, CopiesFit, EditsGiven, RowsKnown
<1>7. RowTold(g)'
  <2>1. NextId' = NextId
    BY <1>1, SameIds
  <2> HIDE DEF a
  <2> QED BY <1>0, <1>1, <1>4, <1>6, <2>1, RowTurns
<1> QED BY <1>1, <1>2, <1>4, <1>5, <1>7, AfterWrite

\* What the pull fetched is put under the edits; and what is gone goes.
LEMMA PulledTold ==
  ASSUME EditInvariant, StoreFetched \/ Finish
  PROVE  EditsTold'
<1>0. /\ TypeOK /\ IcsIsCombined /\ HandSound /\ PullTold /\ RowsKnown /\ KnownReached
      /\ EditsGiven /\ CopiesFit /\ \A h \in Hrefs : RowTold(h)
  BY EditParts, AloneParts DEF SyncInvariant, RoundTold, StoreTold
<1>1. /\ pc[Loop] \in {"store", "finish"} /\ fetched' = {} /\ UNCHANGED <<accepted, deleted, phoneDone, srv>>
      /\ NextId' = NextId
  BY SameIds DEF StoreFetched, Finish, At, ForgetPull, server, ghosts
<1>2. /\ pc'[Loop] \in {"finish", "idle"} /\ ans'[Loop].kind = "none" /\ todo'[Loop] = {}
  <2>1. /\ pc \in [Workers -> Steps] /\ todo \in [Workers -> SUBSET Pending] /\ Loop \in Workers
        /\ ans \in [Workers -> Answer]
    BY <1>0, WorkersAssumption DEF TypeOK
  <2>2. todo[Loop] = {} /\ ans[Loop].kind = "none"
    BY <1>0, <1>1 DEF HandSound, Writing
  <2> QED BY <2>1, <2>2 DEF StoreFetched, Finish, Leave, Goto, Says
<1>3. Hand' = {} /\ ~Taken' /\ ans'[Loop].kind # "copy"
  BY <1>2, NothingTaken DEF Writing
<1>4. ASSUME NEW h \in Hrefs
      PROVE  RowTold(h)'
  <2>1. CASE rows'[h] = rows[h]
    BY <1>0, <1>1, <2>1, RowStays
  <2>2. CASE StoreFetched /\ \E f \in fetched : f.href = h
    <3> DEFINE f == CHOOSE g \in fetched : g.href = h
    <3>1. f \in fetched /\ f.href = h
      BY <2>2
    <3>2. rows'[h] = ServerCopy(rows[h], f.etag, f.body)
      BY <2>2 DEF StoreFetched
    <3> HIDE DEF f
    <3>3. /\ Told(h, f.body) /\ f.body.title < NextId /\ f.etag \in Nat /\ f.body \in Body
          /\ f.etag # 0 /\ (f.body.kind = "other" => Lost(h)) /\ srv[h].at # 0
          /\ ~rows[h].here => rows[h] = NoRow
          /\ \A e \in accepted[h] : \A d \in accepted[h] : e.id = d.id => e = d
      <4>1. Current(h, f.etag, f.body, delta.token)
        BY <1>0, <3>1 DEF PullTold
      <4>2. f.etag \in Nat /\ f.body \in Body /\ delta.token \in Nat /\ srv[h].at \in Nat
        BY <1>0, <3>1, LoopTypes
      <4> QED BY <1>0, <3>1, <4>1, <4>2 DEF Current, CopiesFit, EditsGiven, RowsKnown
    <3> QED BY <1>0, <1>1, <3>2, <3>3, RowTurns
  <2>3. CASE Finish /\ h \in Gone(delta, known)
    <3>1. rows'[h] = NoRow
      BY <2>3 DEF Finish
    <3>2. known[h] # 0 /\ ToldGone(h)
      BY <2>3 DEF Gone, ToldGone, Named
    <3>3. ~srv[h].live
      <4>1. pc[Loop] \in Pulling /\ pc[Loop] # "known"
        BY <1>1 DEF Pulling
      <4> QED BY <1>0, <3>2, <4>1 DEF PullTold
    <3>4. srv[h].at # 0
      BY <1>0, <3>2 DEF KnownReached
    <3> QED BY <1>0, <1>1, <3>1, <3>3, <3>4, RowGoes DEF Lost
  <2>4. \/ rows'[h] = rows[h]
        \/ StoreFetched /\ \E f \in fetched : f.href = h
        \/ Finish /\ h \in Gone(delta, known)
    <3>1. CASE StoreFetched
      BY <3>1 DEF StoreFetched
    <3>2. CASE Finish
      BY <3>2 DEF Finish
    <3> QED BY <3>1, <3>2
  <2> QED BY <2>1, <2>2, <2>3, <2>4
<1> QED BY <1>1, <1>3, <1>4, SettledTold

\* The server takes a write, or a delete, or neither.
LEMMA WriteOutcomes ==
  ASSUME TypeOK, NEW p,
         \/ TakePut(Loop, p) /\ p.op # "delete"
         \/ p.op = "delete" /\ \E etag \in Nat : TakeDelete(Loop, p.href, etag)
  PROVE  \/ /\ ServerPut(p.href, p.body) /\ TakePut(Loop, p) /\ p.op # "delete"
            /\ ans'[Loop].kind \in {"stored", "kept"}
         \/ ServerRemove(p.href) /\ p.op = "delete" /\ ans'[Loop].kind = "deleted"
         \/ UNCHANGED server /\ ans'[Loop].kind \in {"conflict", "missing"}
<1>0. ans \in [Workers -> Answer]
  BY DEF TypeOK
<1>1. CASE TakePut(Loop, p) /\ p.op # "delete"
  <2>1. \/ ServerPut(p.href, p.body) /\ ans'[Loop].kind \in {"stored", "kept"}
        \/ UNCHANGED server /\ ans'[Loop].kind \in {"conflict", "missing"}
    BY <1>0, <1>1, WorkersAssumption DEF TakePut, Says
  <2> QED BY <1>1, <2>1
<1>2. CASE p.op = "delete" /\ \E etag \in Nat : TakeDelete(Loop, p.href, etag)
  <2>1. PICK etag \in Nat : TakeDelete(Loop, p.href, etag)
    BY <1>2
  <2>2. \/ ServerRemove(p.href) /\ ans'[Loop].kind = "deleted"
        \/ UNCHANGED server /\ ans'[Loop].kind \in {"conflict", "missing"}
    BY <1>0, <2>1, WorkersAssumption DEF TakeDelete, Says
  <2> QED BY <1>2, <2>2
<1> QED BY <1>1, <1>2

\* The server takes a write, and has what the row made; or it takes a delete.
LEMMA WriteTold ==
  ASSUME EditInvariant, NEW p \in Hand, p \in Pending,
         pc[Loop] \in Writing \cup {"push"}, pc'[Loop] \in {"sent", "resent"}, cur'[Loop] = p,
         Hand' \subseteq Hand, Hand' \subseteq todo'[Loop] \cup {p}, \A q \in todo'[Loop] : q.href # p.href,
         \/ TakePut(Loop, p) /\ p.op # "delete"
         \/ p.op = "delete" /\ \E etag \in Nat : TakeDelete(Loop, p.href, etag),
         UNCHANGED <<rows, accepted, deleted, phoneDone, fetched, used>>
  PROVE  EditsTold'
<1> DEFINE h == p.href
<1>0. /\ TypeOK /\ ETagsGiven /\ HandSound /\ PullTold
      /\ EditsGiven /\ HandMade /\ \A k \in Hrefs : RowTold(k)
  BY EditParts, AloneParts DEF SyncInvariant, RoundTold
<1>1. /\ h \in Hrefs /\ rows[h] \in Row /\ clock \in Nat /\ p.etag \in Nat /\ p.sent \in Nat
      /\ NextId' = NextId /\ srv \in [Hrefs -> Resource] /\ ans \in [Workers -> Answer]
  BY <1>0, LoopTypes, SameIds DEF TypeOK, Pending
<1>2. fetched' = {} /\ fetched = {}
  BY <1>0, NothingFetched DEF Writing
<1>3. WriteMade(p) /\ p.body.title < NextId /\ RowTold(h)
  BY <1>0, <1>1 DEF HandMade, EditsGiven
<1>4. p.etag <= clock
  <2>1. p \in todo[Loop] \/ p = cur[Loop]
    BY DEF Hand
  <2> QED BY <1>0, <2>1, WorkersAssumption DEF ETagsGiven
<1>5. CASE ServerPut(h, p.body) /\ TakePut(Loop, p) /\ p.op # "delete"
  <2>1. /\ srv'[h].live /\ srv'[h].at = clock + 1 /\ srv'[h].body = p.body
        /\ \A k \in Hrefs \ {h} : srv'[k] = srv[k]
    BY <1>1, <1>5 DEF ServerPut
  <2>2. IF p.op = "update" THEN Holds(h, p.etag) ELSE ~srv[h].live
    <3>1. ~UNCHANGED server
      <4>1. clock' = clock + 1
        BY <1>5 DEF ServerPut
      <4> QED BY <1>1, <4>1 DEF server
    <3> QED BY <1>5, <3>1 DEF TakePut
  <2>3. ans'[Loop].kind \in {"stored", "kept"}
    BY <1>1, <1>5, <2>2, WorkersAssumption DEF TakePut
  <2>4. RowTold(h)'
    <3>1. RowGiven(h)'
      BY <1>1, <1>3 DEF RowTold, RowGiven
    <3>2. rows[h].here => MadeFrom(p.body, rows[h]) /\ AdvancedBy(p.body, rows[h])
      <4> SUFFICES ASSUME rows[h].here
                   PROVE  MadeFrom(p.body, rows[h]) /\ AdvancedBy(p.body, rows[h])
        OBVIOUS
      <4>1. /\ p.sent <= Len(rows[h].edits) /\ MadeFrom(p.body, rows[h])
            /\ \A i \in 1 .. p.sent : rows[h].edits[i].id \in p.body.seen
            /\ p.body.due = rows[h].base.due + Completes(rows[h].edits, p.sent)
        BY <1>3, <1>5 DEF WriteMade
      <4>2. p.sent \in 0 .. Len(rows[h].edits)
        <5>1. Len(rows[h].edits) \in Nat
          BY <1>1 DEF Row
        <5> QED BY <1>1, <4>1, <5>1
      <4> QED BY <4>1, <4>2 DEF AdvancedBy
    <3>3. Fits(h, srv[h].body)'
      <4>1. rows[h].here => MadeFrom(srv[h].body, rows[h])'
        BY <2>1, <3>2 DEF MadeFrom
      <4>2. rows[h].here => AdvancedBy(srv[h].body, rows[h])'
        BY <2>1, <3>2 DEF AdvancedBy, Completes
      <4> QED BY <4>1, <4>2 DEF Fits
    <3>4. ASSUME NEW e \in accepted[h]
          PROVE  Shows(h, e)'
      <4>1. Shows(h, e)
        BY <1>3, <3>4 DEF RowTold
      <4>2. CASE p.op = "update"
        <5>1. Spoilt(h) => Spoilt(h)'
          <6>1. srv[h].live /\ p.body.kind = srv[h].body.kind
            BY <1>3, <2>2, <4>2 DEF WriteMade, Holds
          <6> QED BY <2>1, <6>1 DEF Spoilt
        <5> QED BY <4>1, <5>1 DEF Shows
      <4>3. CASE p.op = "create"
        <5>1. rows[h].etag = 0
          BY <1>0, <4>3 DEF HandSound
        <5>2. rows[h].here \/ deleted[h] # "no"
          BY <1>3, <4>3 DEF WriteMade
        <5> QED BY <4>1, <5>1, <5>2 DEF Shows
      <4> QED BY <1>5, <4>2, <4>3 DEF Pending
    <3> QED BY <3>1, <3>3, <3>4 DEF RowTold
  <2>5. \A k \in Hrefs : RowTold(k)'
    <3>1. \A k \in Hrefs \ {h} : RowTold(k)'
      BY <1>0, <1>1, <2>1, RowStays
    <3> QED BY <2>4, <3>1
  <2>6. EditsGiven'
    BY <1>0, <1>1, <1>2, <1>3, <2>1, <2>3 DEF EditsGiven
  <2>7. HandMade'
    <3>1. ~Holds(h, p.etag)'
      BY <1>1, <1>4, <2>1 DEF Holds
    <3>2. WriteMade(p)'
      BY <1>3, <3>1 DEF WriteMade, MadeFrom, Completes
    <3>3. ASSUME NEW q \in todo'[Loop], q \in Hand
          PROVE  WriteMade(q)'
      <4>1. WriteMade(q) /\ q.href \in Hrefs
        BY <1>0, <3>3, EditParts, AloneParts, HandType DEF HandMade, SyncInvariant
      <4>2. srv'[q.href] = srv[q.href]
        BY <2>1, <3>3, <4>1
      <4> QED BY <4>1, <4>2, WriteStays
    <3> QED BY <3>2, <3>3 DEF HandMade
  <2>8. CopiesFit'
    BY <1>2, <2>3 DEF CopiesFit
  <2>9. TakenGrown'
    <3>1. Grown(p.href, p.body)'
      BY <2>1 DEF Grown
    <3>2. Grown(cur[Loop].href, cur[Loop].body)'
      BY <3>1 DEF Grown
    <3> QED BY <1>5, <2>3, <3>2 DEF TakenGrown
  <2> QED BY <2>5, <2>6, <2>7, <2>8, <2>9 DEF EditsTold
<1>6. CASE ServerRemove(h) /\ p.op = "delete" /\ ans'[Loop].kind = "deleted"
  <2>1. /\ ~srv'[h].live /\ srv'[h].at = clock + 1 /\ srv'[h].body = srv[h].body
        /\ \A k \in Hrefs \ {h} : srv'[k] = srv[k]
    BY <1>1, <1>6 DEF ServerRemove, Resource
  <2>2. Spoilt(h)'
    BY <1>1, <2>1 DEF Spoilt
  <2>3. RowTold(h)'
    <3>1. RowGiven(h)'
      BY <1>1, <1>3 DEF RowTold, RowGiven
    <3>2. \A e \in accepted'[h] : Shows(h, e)'
      BY <1>3, <2>2 DEF RowTold, Shows
    <3> QED BY <2>1, <3>1, <3>2 DEF RowTold
  <2>4. \A k \in Hrefs : RowTold(k)'
    <3>1. \A k \in Hrefs \ {h} : RowTold(k)'
      BY <1>0, <1>1, <2>1, RowStays
    <3> QED BY <2>3, <3>1
  <2>5. EditsGiven'
    BY <1>0, <1>1, <1>2, <1>3, <1>6, <2>1 DEF EditsGiven
  <2>6. HandMade'
    <3>1. WriteMade(p)'
      BY <1>6 DEF WriteMade
    <3>2. ASSUME NEW q \in todo'[Loop], q \in Hand
          PROVE  WriteMade(q)'
      <4>1. WriteMade(q) /\ q.href \in Hrefs
        BY <1>0, <3>2, EditParts, AloneParts, HandType DEF HandMade, SyncInvariant
      <4>2. srv'[q.href] = srv[q.href]
        BY <2>1, <3>2, <4>1
      <4> QED BY <4>1, <4>2, WriteStays
    <3> QED BY <3>1, <3>2 DEF HandMade
  <2>7. CopiesFit' /\ TakenGrown'
    BY <1>2, <1>6 DEF CopiesFit, TakenGrown, Taken
  <2> QED BY <2>4, <2>5, <2>6, <2>7 DEF EditsTold
<1>7. CASE UNCHANGED server /\ ans'[Loop].kind \in {"conflict", "missing"}
  <2>1. QuietStep
    BY <1>1, <1>2, <1>7 DEF QuietStep, Taken, server
  <2> QED BY <2>1, QuietTold
<1>8. \/ ServerPut(h, p.body) /\ TakePut(Loop, p) /\ p.op # "delete"
      \/ ServerRemove(h) /\ p.op = "delete" /\ ans'[Loop].kind = "deleted"
      \/ UNCHANGED server /\ ans'[Loop].kind \in {"conflict", "missing"}
  BY <1>0, WriteOutcomes
<1> HIDE DEF h
<1> QED BY <1>5, <1>6, <1>7, <1>8

\* The write in hand that is sent.
Sends(p) ==
  /\ p \in Hand /\ p \in Pending /\ cur'[Loop] = p
  /\ pc[Loop] \in {"push", "again", "redelete"} /\ pc'[Loop] \in {"sent", "resent"}
  /\ p.op # "delete" => pc'[Loop] = "sent"
  /\ Hand' \subseteq Hand /\ Hand' \subseteq todo'[Loop] \cup {p}
  /\ \A q \in todo'[Loop] : q.href # p.href
  /\ \/ TakePut(Loop, p) /\ p.op # "delete"
     \/ p.op = "delete" /\ \E etag \in Nat : TakeDelete(Loop, p.href, etag)
  /\ UNCHANGED <<rows, accepted, deleted, phoneDone, fetched, used>>

LEMMA SendSends ==
  ASSUME EditInvariant, Send(Loop) \/ Redelete(Loop)
  PROVE  \E p : Sends(p)
<1>0. TypeOK /\ WriteInHand /\ HandSound
  BY EditParts, AloneParts DEF SyncInvariant, RoundTold
<1>1. CASE Send(Loop)
  <2>1. PICK p \in todo[Loop] \cup {cur[Loop]} :
          /\ \/ At(Loop, "push") /\ p \in todo[Loop] /\ todo' = [todo EXCEPT ![Loop] = @ \ {p}]
             \/ At(Loop, "again") /\ p = cur[Loop] /\ UNCHANGED todo
          /\ cur' = [cur EXCEPT ![Loop] = p]
          /\ Goto(Loop, "sent")
          /\ IF p.op = "delete" THEN TakeDelete(Loop, p.href, p.etag) ELSE TakePut(Loop, p)
          /\ UNCHANGED <<cache, pull, ghosts, used>>
    BY <1>1 DEF Send
  <2>2. p \in Hand /\ p \in Pending /\ p.etag \in Nat
    <3>1. p \in Hand
      BY <2>1 DEF Hand, At, Writing
    <3> QED BY <1>0, <3>1, HandType DEF Pending
  <2>3. pc'[Loop] = "sent" /\ cur'[Loop] = p /\ todo'[Loop] \subseteq todo[Loop]
    BY <1>0, <2>1, WorkersAssumption DEF TypeOK, Goto
  <2>4. \A q \in todo'[Loop] : q.href # p.href
    <3>1. CASE At(Loop, "push") /\ p \in todo[Loop] /\ todo' = [todo EXCEPT ![Loop] = @ \ {p}]
      <4>1. todo'[Loop] = todo[Loop] \ {p}
        BY <1>0, <3>1, WorkersAssumption DEF TypeOK
      <4> QED BY <1>0, <3>1, <4>1 DEF HandSound
    <3>2. CASE At(Loop, "again") /\ p = cur[Loop] /\ UNCHANGED todo
      BY <1>0, <3>2 DEF HandSound, At, Writing
    <3> QED BY <2>1, <3>1, <3>2
  <2>5. Hand' \subseteq Hand /\ Hand' \subseteq todo'[Loop] \cup {p}
    BY <2>2, <2>3 DEF Hand
  <2>6. pc[Loop] \in {"push", "again", "redelete"}
    BY <2>1 DEF At
  <2>7. UNCHANGED <<rows, accepted, deleted, phoneDone, fetched, used>>
    BY <2>1 DEF cache, pull, ghosts
  <2>8. \/ TakePut(Loop, p) /\ p.op # "delete"
        \/ p.op = "delete" /\ \E etag \in Nat : TakeDelete(Loop, p.href, etag)
    BY <2>1, <2>2
  <2>9. pc'[Loop] \in {"sent", "resent"}
    BY <2>3
  <2> QED BY <2>2, <2>3, <2>4, <2>5, <2>6, <2>7, <2>8, <2>9 DEF Sends
<1>2. CASE Redelete(Loop)
  <2>1. PICK p : p = cur[Loop]
    OBVIOUS
  <2>2. /\ pc[Loop] = "redelete" /\ UNCHANGED <<todo, cur, cache, pull, ghosts, used>>
        /\ TakeDelete(Loop, p.href, ans[Loop].etag) /\ pc'[Loop] = "resent"
    BY <1>0, <1>2, <2>1, WorkersAssumption DEF Redelete, At, Goto, TypeOK
  <2>3. p \in Hand /\ p \in Pending /\ p.op = "delete" /\ ans[Loop].etag \in Nat
    <3>1. p \in Hand
      BY <2>1, <2>2 DEF Hand, Writing
    <3> QED BY <1>0, <2>1, <2>2, <3>1, HandType, LoopTypes DEF HandSound
  <2>4. \A q \in todo'[Loop] : q.href # p.href
    BY <1>0, <2>1, <2>2 DEF HandSound, Writing
  <2>5. Hand' \subseteq Hand /\ Hand' \subseteq todo'[Loop] \cup {p}
    BY <2>1, <2>2, <2>3 DEF Hand
  <2>6. pc[Loop] \in {"push", "again", "redelete"} /\ pc'[Loop] \in {"sent", "resent"}
    BY <2>2
  <2>7. UNCHANGED <<rows, accepted, deleted, phoneDone, fetched, used>>
    BY <2>2 DEF cache, pull, ghosts
  <2>8. p.op = "delete" /\ \E etag \in Nat : TakeDelete(Loop, p.href, etag)
    BY <2>2, <2>3
  <2>9. cur'[Loop] = p
    BY <2>1, <2>2
  <2> QED BY <2>3, <2>4, <2>5, <2>6, <2>7, <2>8, <2>9 DEF Sends
<1> QED BY <1>1, <1>2

LEMMA SendTold ==
  ASSUME EditInvariant, Send(Loop) \/ Redelete(Loop)
  PROVE  EditsTold'
<1>1. PICK p : Sends(p)
  BY SendSends
<1>2. pc[Loop] \in Writing \cup {"push"}
  BY <1>1 DEF Sends, Writing
<1> QED BY <1>1, <1>2, WriteTold DEF Sends

-----------------------------------------------------------------------------
(* What the user and the phone do to it. *)

\* One more edit, or none, leaves what was made from the row made from it.
LEMMA FitsGrown ==
  ASSUME NEW r \in Row, NEW q \in Row, q.base = r.base, NEW e \in Edit,
         q.edits = r.edits \/ q.edits = Append(r.edits, e),
         NEW b \in Body, b.title # e.id
  PROVE  /\ MadeFrom(b, r) => MadeFrom(b, q)
         /\ AdvancedBy(b, r) => AdvancedBy(b, q)
         /\ Len(r.edits) <= Len(q.edits)
         /\ \A i \in 1 .. Len(r.edits) : q.edits[i] = r.edits[i]
         /\ \A n \in 0 .. Len(r.edits) : Completes(q.edits, n) = Completes(r.edits, n)
<1> DEFINE es == r.edits
           fs == q.edits
<1>1. /\ es \in Seq(Edit) /\ Len(es) \in Nat /\ Len(fs) \in Nat /\ Len(es) <= Len(fs)
      /\ \A i \in 1 .. Len(es) : fs[i] = es[i]
      /\ \A i \in 1 .. Len(fs) : i \in 1 .. Len(es) \/ fs[i] = e
  <2>1. es \in Seq(Edit) /\ Len(es) \in Nat
    BY DEF Row
  <2>2. CASE fs = es
    BY <2>1, <2>2
  <2>3. CASE fs = Append(es, e)
    <3> HIDE DEF es, fs
    <3>1. Len(fs) = Len(es) + 1 /\ fs[Len(es) + 1] = e /\ \A i \in 1 .. Len(es) : fs[i] = es[i]
      BY <2>1, <2>3, AppendProperties
    <3> QED BY <2>1, <3>1
  <2> QED BY <2>2, <2>3
<1>2. \A n \in 0 .. Len(es) : Completes(fs, n) = Completes(es, n)
  <2> SUFFICES ASSUME NEW n \in 0 .. Len(es)
               PROVE  Completes(fs, n) = Completes(es, n)
    OBVIOUS
  <2>1. n \in Nat /\ \A i \in 1 .. n : fs[i] = es[i]
    BY <1>1
  <2> HIDE DEF es, fs
  <2> QED BY <2>1, CompletesSame
<1>3. MadeFrom(b, r) => MadeFrom(b, q)
  <2> SUFFICES ASSUME MadeFrom(b, r), NEW n \in 1 .. Len(fs),
                      fs[n].op = "title", b.title = fs[n].id, NEW i \in 1 .. n
               PROVE  fs[i].id \in b.seen
    BY DEF MadeFrom
  <2>1. n \in 1 .. Len(es)
    BY <1>1
  <2>2. fs[n] = es[n] /\ fs[i] = es[i]
    <3> HIDE DEF es, fs
    <3> QED BY <1>1, <2>1
  <2> QED BY <2>1, <2>2 DEF MadeFrom
<1>4. AdvancedBy(b, r) => AdvancedBy(b, q)
  <2> SUFFICES ASSUME AdvancedBy(b, r)
               PROVE  AdvancedBy(b, q)
    OBVIOUS
  <2>1. PICK n \in 0 .. Len(es) : /\ b.due = r.base.due + Completes(es, n)
                                  /\ \A i \in 1 .. n : es[i].id \in b.seen
    BY DEF AdvancedBy
  <2>2. n \in 0 .. Len(fs) /\ \A i \in 1 .. n : fs[i] = es[i]
    <3> HIDE DEF es, fs
    <3> QED BY <1>1
  <2>3. b.due = q.base.due + Completes(fs, n) /\ \A i \in 1 .. n : fs[i].id \in b.seen
    BY <1>2, <2>1, <2>2
  <2> QED BY <2>2, <2>3 DEF AdvancedBy
<1> QED BY <1>1, <1>2, <1>3, <1>4

\* A user's change is of one row, and takes an id.
UserFrame(g) ==
  /\ UNCHANGED <<srv, pc, todo, cur, ans, fetched, phoneDone>> /\ NextId' = NextId + 1
  /\ \A h \in Hrefs \ {g} :
       rows'[h] = rows[h] /\ accepted'[h] = accepted[h] /\ deleted'[h] = deleted[h]

\* It leaves the rest as it was.
LEMMA UserLeaves ==
  ASSUME EditInvariant, NEW g \in Hrefs, UserFrame(g), RowTold(g)',
         \A e \in accepted'[g] : e.id < NextId' /\ \A f \in accepted'[g] : e.id = f.id => e = f,
         \A p \in Hand : p.href = g => WriteMade(p)',
         \A b \in Body : b.title < NextId /\ srv[g].at # 0 /\ Told(g, b) => Told(g, b)'
  PROVE  EditsTold'
<1>0. /\ TypeOK /\ WriteInHand /\ HandSound /\ AnswersTold /\ PullTold
      /\ EditsGiven /\ HandMade /\ CopiesFit /\ TakenGrown /\ \A h \in Hrefs : RowTold(h)
  BY EditParts, AloneParts DEF SyncInvariant, RoundTold
<1>1. UNCHANGED <<srv, pc, todo, cur, ans, fetched, phoneDone>> /\ NextId' = NextId + 1
  BY DEF UserFrame
<1>2. Hand' = Hand /\ (Taken' <=> Taken)
  BY <1>1 DEF Hand, Taken
<1>3. NextId \in Nat
  BY <1>0, NextIdType
<1>4. \A h \in Hrefs : RowTold(h)'
  <2>1. \A h \in Hrefs \ {g} : RowTold(h)'
    BY <1>0, <1>1, RowStays DEF UserFrame
  <2> QED BY <2>1
<1>5. ASSUME NEW h \in Hrefs, NEW b \in Body, Told(h, b), b.title < NextId, srv[h].at # 0
      PROVE  Told(h, b)'
  <2>1. CASE h = g
    BY <1>5, <2>1
  <2>2. CASE h # g
    BY <1>1, <1>5, <2>2, CopyStays DEF UserFrame
  <2> QED BY <2>1, <2>2
<1>6. HandMade'
  <2>1. ASSUME NEW p \in Hand
        PROVE  WriteMade(p)'
    <3>1. CASE p.href = g
      BY <3>1
    <3>2. CASE p.href # g
      <4>1. p.href \in Hrefs \ {g}
        BY <1>0, <3>2, HandType
      <4> QED BY <1>0, <1>1, <4>1, WriteStays DEF HandMade, UserFrame
    <3> QED BY <3>1, <3>2
  <2> QED BY <1>2, <2>1 DEF HandMade
<1>7. ASSUME NEW f \in fetched
      PROVE  Told(f.href, f.body)' /\ f.body.title < NextId
  <2>1. f.href \in Hrefs /\ f.etag \in Nat /\ f.body \in Body
    BY <1>0, LoopTypes
  <2>2. srv[f.href].at # 0
    <3>1. Current(f.href, f.etag, f.body, delta.token)
      BY <1>0 DEF PullTold
    <3>2. srv[f.href].at \in Nat /\ delta.token \in Nat
      BY <1>0, <2>1, LoopTypes
    <3> QED BY <2>1, <3>1, <3>2 DEF Current
  <2>3. Told(f.href, f.body) /\ f.body.title < NextId
    BY <1>0 DEF CopiesFit, EditsGiven
  <2> QED BY <1>5, <2>1, <2>2, <2>3
<1>8. ans[Loop].kind = "copy" =>
        Told(cur[Loop].href, ans[Loop].body)' /\ ans[Loop].body.title < NextId
  <2> SUFFICES ASSUME ans[Loop].kind = "copy"
               PROVE  Told(cur[Loop].href, ans[Loop].body)' /\ ans[Loop].body.title < NextId
    OBVIOUS
  <2>1. pc[Loop] \in Writing
    BY <1>0 DEF HandSound
  <2>2. PICK h \in Hrefs, b \in Body : h = cur[Loop].href /\ b = ans[Loop].body
    BY <1>0, <2>1, HandType, LoopTypes
  <2>3. srv[h].at # 0
    BY <1>0, <2>2, LoopTypes DEF AnswersTold, Current
  <2>4. Told(h, b) /\ b.title < NextId
    BY <1>0, <2>2 DEF CopiesFit, EditsGiven
  <2>5. Told(h, b)'
    BY <1>5, <2>3, <2>4
  <2>6. h = cur'[Loop].href /\ b = ans'[Loop].body
    BY <1>1, <2>2
  <2>7. Told(cur[Loop].href, ans[Loop].body)'
    BY <2>5, <2>6, AnswerTold
  <2> QED BY <2>2, <2>4, <2>7
<1>9. TakenGrown'
  BY <1>0, <1>1, <1>2 DEF TakenGrown, Grown
<1>10. CopiesFit'
  BY <1>1, <1>7, <1>8 DEF CopiesFit
<1>11. EditsGiven'
  <2>1. \A h \in Hrefs : \A e \in accepted'[h] :
          e.id < NextId' /\ \A f \in accepted'[h] : e.id = f.id => e = f
    <3>1. ASSUME NEW h \in Hrefs \ {g}, NEW e \in accepted[h]
          PROVE  e.id < NextId + 1 /\ \A f \in accepted[h] : e.id = f.id => e = f
      <4>1. e.id \in Nat /\ e.id < NextId /\ \A f \in accepted[h] : e.id = f.id => e = f
        BY <1>0 DEF EditsGiven, TypeOK, Edit
      <4> QED BY <1>3, <4>1
    <3> QED BY <1>1, <3>1 DEF UserFrame
  <2>2. \A h \in Hrefs : srv'[h].body.title < NextId'
    <3>1. \A h \in Hrefs : srv[h].body.title \in Nat
      BY <1>0, LoopTypes DEF Body
    <3> QED BY <1>0, <1>1, <1>3, <3>1 DEF EditsGiven
  <2>3. \A p \in Hand' : p.body.title < NextId'
    <3>1. \A p \in Hand : p.body.title \in Nat
      BY <1>0, HandType DEF Pending, Body
    <3> QED BY <1>0, <1>1, <1>2, <1>3, <3>1 DEF EditsGiven
  <2>4. ans'[Loop].kind = "copy" => ans'[Loop].body.title < NextId'
    <3>1. ans[Loop].body.title \in Nat
      BY <1>0, LoopTypes DEF Body
    <3> QED BY <1>1, <1>3, <1>8, <3>1
  <2>5. \A f \in fetched' : f.body.title < NextId'
    <3>1. \A f \in fetched : f.body.title \in Nat
      BY <1>0, LoopTypes DEF Body
    <3> QED BY <1>1, <1>3, <1>7, <3>1
  <2> QED BY <2>1, <2>2, <2>3, <2>4, <2>5 DEF EditsGiven
<1> QED BY <1>4, <1>6, <1>9, <1>10, <1>11 DEF EditsTold

\* The first edit of a task nobody knows of.
LEMMA CreateTold ==
  ASSUME EditInvariant, NEW g \in Hrefs, LocalCreate(g)
  PROVE  EditsTold'
<1>0. /\ TypeOK /\ ETagsGiven /\ WriteInHand /\ HandSound /\ HandMade
  BY EditParts, AloneParts DEF SyncInvariant, RoundTold
<1> DEFINE e == [id |-> NextId, op |-> "title"]
           whole == Combined(NewBody, <<e>>)
<1>1. /\ ~rows[g].here /\ srv[g].at = 0 /\ accepted[g] = {} /\ ~srv[g].live
      /\ used' = [used EXCEPT !.local = @ + 1] /\ accepted' = [accepted EXCEPT ![g] = @ \cup {e}]
      /\ UNCHANGED <<srv, pc, todo, cur, ans, fetched, deleted, phoneDone>>
      /\ \/ rows' = [rows EXCEPT ![g] = OnTopOf(NoRow, 0, NewBody, <<e>>)]
         \/ rows' = [rows EXCEPT ![g] = OnTopOf(NoRow, 0, whole, <<>>)]
  BY <1>0 DEF LocalCreate, Unused, Local, Accept, server, push, pull, ETagsGiven
<1>2. NextId \in Nat /\ NextId' = NextId + 1 /\ e.id = NextId /\ e.op = "title"
      /\ accepted' \in [Hrefs -> SUBSET Edit] /\ accepted \in [Hrefs -> SUBSET Edit]
      /\ e \in Edit /\ rows \in [Hrefs -> Row]
  <2>1. e \in Edit
    BY <1>0, TypeParts, OneEditType
  <2>2. accepted \in [Hrefs -> SUBSET Edit] /\ rows \in [Hrefs -> Row]
    BY <1>0 DEF TypeOK
  <2>3. NextId' = NextId + 1
    BY <1>0, <1>1 DEF NextId, TypeOK
  <2> QED BY <1>0, <1>1, <2>1, <2>2, <2>3, NextIdType
<1>3. accepted'[g] = {e} /\ \A h \in Hrefs \ {g} : accepted'[h] = accepted[h]
  BY <1>1, <1>2
<1> HIDE DEF e
<1>4. whole.title = NextId /\ whole.seen = {NextId} /\ NewBody.title = 0 /\ whole \in Body
      /\ NewBody \in Body /\ <<e>> \in Seq(Edit) /\ <<>> \in Seq(Edit) /\ NoRow \in Row
  <2>1. <<e>> \in Seq(Edit) /\ Len(<<e>>) = 1 /\ <<e>>[1] = e
    BY <1>2
  <2>2. Positions(<<e>>, "title") = {1}
    BY <1>2, <2>1 DEF Positions
  <2>3. Newest({1}) = 1
    BY NewestIsMember
  <2>4. whole.title = NextId
    BY <1>2, <2>1, <2>2, <2>3 DEF Combined
  <2>5. whole.seen = {NextId}
    <3>1. Ids(<<e>>) = {NextId}
      BY <1>2, <2>1 DEF Ids
    <3> QED BY <3>1, CombinedSeesMore DEF NewBody
  <2>6. NewBody \in Body /\ whole \in Body
    BY <2>1, NewBodyType, CombinedType
  <2>7. NewBody.title = 0
    BY DEF NewBody
  <2>8. <<>> \in Seq(Edit)
    OBVIOUS
  <2> QED BY <2>1, <2>4, <2>5, <2>6, <2>7, <2>8, NoRowType
<1> HIDE DEF whole
<1>5. PICK base \in Body, edits \in Seq(Edit) :
        /\ rows' = [rows EXCEPT ![g] = OnTopOf(NoRow, 0, base, edits)]
        /\ \/ base = NewBody /\ edits = <<e>>
           \/ base = whole /\ edits = <<>>
  BY <1>1, <1>4
<1> DEFINE q == OnTopOf(NoRow, 0, base, edits)
<1>6. q.here /\ q.etag = 0 /\ q.base = base /\ q.edits = edits
      /\ q.ics.seen = base.seen \cup Ids(edits)
  <2>1. ASSUME NEW r \in Row, NEW etag \in Nat
        PROVE  LET p == OnTopOf(r, etag, base, edits) IN
               p.here /\ p.etag = etag /\ p.base = base /\ p.edits = edits
               /\ p.ics.seen = base.seen \cup Ids(edits)
    BY OnTopOfShows
  <2> QED BY <1>4, <2>1
<1>7. rows'[g] = q /\ \A h \in Hrefs \ {g} : rows'[h] = rows[h]
  BY <1>2, <1>5
<1> HIDE DEF q
<1>8. q.base.title < NextId + 1 /\ e.id \in q.ics.seen /\ \A i \in 1 .. Len(q.edits) : q.edits[i] = e
  <2>1. CASE base = NewBody /\ edits = <<e>>
    <3>1. Len(<<e>>) = 1 /\ <<e>>[1] = e
      OBVIOUS
    <3>2. e.id \in Ids(<<e>>)
      BY <3>1 DEF Ids
    <3> QED BY <1>2, <1>4, <1>6, <2>1, <3>1, <3>2
  <2>2. CASE base = whole /\ edits = <<>>
    BY <1>2, <1>4, <1>6, <2>2
  <2> QED BY <1>5, <2>1, <2>2
<1>9. RowTold(g)'
  <2>1. RowGiven(g)'
    BY <1>2, <1>3, <1>7, <1>8 DEF RowGiven
  <2>2. \A f \in accepted'[g] : Shows(g, f)'
    BY <1>3, <1>6, <1>7, <1>8 DEF Shows
  <2> QED BY <1>1, <2>1, <2>2 DEF RowTold
<1>10. UserFrame(g)
  BY <1>1, <1>2, <1>3, <1>7 DEF UserFrame
<1>11. \A f \in accepted'[g] : f.id < NextId' /\ \A d \in accepted'[g] : f.id = d.id => f = d
  BY <1>2, <1>3
<1>12. \A p \in Hand : p.href # g
  <2> SUFFICES ASSUME NEW p \in Hand, p.href = g
               PROVE  FALSE
    OBVIOUS
  <2>1. p.op = "create"
    BY <1>0, <1>1 DEF HandSound
  <2> QED BY <1>0, <1>1, <2>1 DEF HandMade, WriteMade
<1> QED BY <1>1, <1>9, <1>10, <1>11, <1>12, UserLeaves

\* One more edit of a task that is here.
LEMMA EditTold ==
  ASSUME EditInvariant, NEW g \in Hrefs, NEW op \in {"title", "complete"}, LocalEdit(g, op)
  PROVE  EditsTold'
<1>0. /\ TypeOK /\ WriteInHand /\ HandMade /\ EditsGiven /\ RowTold(g)
  BY EditParts, AloneParts DEF SyncInvariant
<1> DEFINE e == [id |-> NextId, op |-> op]
           r == rows[g]
           q == [r EXCEPT !.edits = Append(r.edits, e), !.ics = Combined(r.ics, <<e>>)]
<1>1. /\ r.here /\ rows' = [rows EXCEPT ![g] = q]
      /\ used' = [used EXCEPT !.local = @ + 1] /\ accepted' = [accepted EXCEPT ![g] = @ \cup {e}]
      /\ UNCHANGED <<srv, pc, todo, cur, ans, fetched, deleted, phoneDone>>
  BY DEF LocalEdit, Local, Accept, server, push, pull
<1>2. /\ NextId \in Nat /\ NextId' = NextId + 1 /\ e.id = NextId /\ e \in Edit /\ r \in Row
      /\ accepted \in [Hrefs -> SUBSET Edit] /\ rows \in [Hrefs -> Row] /\ <<e>> \in Seq(Edit)
  <2>1. e \in Edit /\ <<e>> \in Seq(Edit)
    BY <1>0, TypeParts, OneEditType
  <2>2. accepted \in [Hrefs -> SUBSET Edit] /\ rows \in [Hrefs -> Row] /\ r \in Row
    BY <1>0 DEF TypeOK
  <2>3. NextId' = NextId + 1
    BY <1>0, <1>1 DEF NextId, TypeOK
  <2> QED BY <1>0, <2>1, <2>2, <2>3, NextIdType
<1> HIDE DEF e
<1>3. /\ q.here = r.here /\ q.etag = r.etag /\ q.base = r.base /\ q.edits = Append(r.edits, e)
      /\ q.ics = Combined(r.ics, <<e>>) /\ q \in Row
  <2>1. r.ics \in Body /\ r.edits \in Seq(Edit)
    BY <1>2 DEF Row
  <2>2. Append(r.edits, e) \in Seq(Edit) /\ Combined(r.ics, <<e>>) \in Body
    BY <1>2, <2>1, CombinedType, AppendProperties
  <2> QED BY <1>2, <2>2 DEF Row
<1>4. q.ics.seen = r.ics.seen \cup {e.id}
  <2>1. Len(<<e>>) = 1 /\ <<e>>[1] = e
    OBVIOUS
  <2>2. Ids(<<e>>) = {e.id}
    BY <2>1 DEF Ids
  <2> QED BY <1>3, <2>2, CombinedSeesMore
<1> HIDE DEF q
<1>5. /\ rows'[g] = q /\ \A h \in Hrefs \ {g} : rows'[h] = rows[h]
      /\ accepted'[g] = accepted[g] \cup {e} /\ \A h \in Hrefs \ {g} : accepted'[h] = accepted[h]
  BY <1>1, <1>2
<1> HIDE DEF r
<1>6. \A b \in Body : b.title < NextId =>
        /\ MadeFrom(b, r) => MadeFrom(b, q)
        /\ AdvancedBy(b, r) => AdvancedBy(b, q)
        /\ Len(r.edits) <= Len(q.edits)
        /\ \A i \in 1 .. Len(r.edits) : q.edits[i] = r.edits[i]
        /\ \A n \in 0 .. Len(r.edits) : Completes(q.edits, n) = Completes(r.edits, n)
  <2> SUFFICES ASSUME NEW b \in Body, b.title < NextId
               PROVE  /\ MadeFrom(b, r) => MadeFrom(b, q)
                      /\ AdvancedBy(b, r) => AdvancedBy(b, q)
                      /\ Len(r.edits) <= Len(q.edits)
                      /\ \A i \in 1 .. Len(r.edits) : q.edits[i] = r.edits[i]
                      /\ \A n \in 0 .. Len(r.edits) : Completes(q.edits, n) = Completes(r.edits, n)
    OBVIOUS
  <2>1. b.title # e.id
    BY <1>2
  <2>2. q.base = r.base /\ (q.edits = r.edits \/ q.edits = Append(r.edits, e))
    BY <1>3
  <2>3. r \in Row /\ q \in Row /\ e \in Edit
    BY <1>2, <1>3
  <2> QED BY ONLY <2>1, <2>2, <2>3, FitsGrown
<1>7. ASSUME NEW b \in Body, b.title < NextId, Fits(g, b)
      PROVE  Fits(g, b)'
  <2>1. MadeFrom(b, q) /\ (phoneDone[g] = 0 => AdvancedBy(b, q))
    BY <1>1, <1>6, <1>7 DEF Fits, r
  <2>2. MadeFrom(b, rows[g])'
    BY <1>5, <2>1 DEF MadeFrom
  <2>3. phoneDone[g] = 0 => AdvancedBy(b, rows[g])'
    BY <1>5, <2>1 DEF AdvancedBy, Completes
  <2> QED BY <1>1, <2>2, <2>3 DEF Fits
<1>8. RowTold(g)'
  <2>1. RowGiven(g)'
    <3>1. \A i \in 1 .. Len(q.edits) : q.edits[i] \in accepted[g] \cup {e}
      <4>1. \A i \in 1 .. Len(r.edits) : r.edits[i] \in accepted[g]
        BY <1>0 DEF RowTold, RowGiven, r
      <4>2. r.edits \in Seq(Edit) /\ Len(r.edits) \in Nat
        BY <1>2 DEF Row
      <4>3. Len(q.edits) = Len(r.edits) + 1 /\ q.edits[Len(r.edits) + 1] = e
            /\ \A i \in 1 .. Len(r.edits) : q.edits[i] = r.edits[i]
        BY <1>2, <1>3, <4>2, AppendProperties
      <4> QED BY <4>1, <4>2, <4>3
    <3>2. q.base.title < NextId + 1
      <4>1. r.base.title < NextId /\ r.base.title \in Nat
        BY <1>0, <1>2 DEF RowTold, RowGiven, r, Row, Body
      <4> QED BY <1>2, <1>3, <4>1
    <3> QED BY <1>2, <1>5, <3>1, <3>2 DEF RowGiven
  <2>2. srv[g].live => Fits(g, srv[g].body)'
    <3>1. PICK b \in Body : b = srv[g].body
      BY <1>0, LoopTypes
    <3>2. b.title < NextId /\ (srv[g].live => Fits(g, b))
      BY <1>0, <3>1 DEF EditsGiven, RowTold
    <3>3. srv[g].live => Fits(g, b)'
      BY <1>7, <3>2
    <3>4. b = srv'[g].body
      BY <1>1, <3>1
    <3> QED BY <3>3, <3>4 DEF Fits, MadeFrom, AdvancedBy, Completes
  <2>3. \A f \in accepted'[g] : Shows(g, f)'
    <3>1. ASSUME NEW f \in accepted[g] \cup {e}
          PROVE  Shows(g, f)'
      <4>1. CASE f = e
        BY <1>1, <1>3, <1>4, <1>5, <4>1 DEF Shows, r
      <4>2. CASE f \in accepted[g]
        <5>1. Shows(g, f)
          BY <1>0, <4>2 DEF RowTold
        <5> QED BY <1>1, <1>3, <1>4, <1>5, <5>1 DEF Shows, Spoilt, r
      <4> QED BY <4>1, <4>2
    <3> QED BY <1>5, <3>1
  <2> QED BY <1>1, <2>1, <2>2, <2>3 DEF RowTold
<1>9. ASSUME NEW p \in Hand, p.href = g
      PROVE  WriteMade(p)'
  <2>1. WriteMade(p) /\ p.body \in Body /\ p.body.title < NextId /\ p.sent \in Nat
    BY <1>0, HandType DEF HandMade, EditsGiven, Pending
  <2>2. p.op # "delete" =>
          /\ p.sent <= Len(q.edits) /\ MadeFrom(p.body, q)
          /\ \A i \in 1 .. p.sent : q.edits[i].id \in p.body.seen
          /\ p.body.due = q.base.due + Completes(q.edits, p.sent)
    <3> SUFFICES ASSUME p.op # "delete"
                 PROVE  /\ p.sent <= Len(q.edits) /\ MadeFrom(p.body, q)
                        /\ \A i \in 1 .. p.sent : q.edits[i].id \in p.body.seen
                        /\ p.body.due = q.base.due + Completes(q.edits, p.sent)
      OBVIOUS
    <3>1. /\ p.sent <= Len(r.edits) /\ MadeFrom(p.body, r)
          /\ \A i \in 1 .. p.sent : r.edits[i].id \in p.body.seen
          /\ p.body.due = r.base.due + Completes(r.edits, p.sent)
      BY <1>1, <1>9, <2>1 DEF WriteMade, r
    <3>2. Len(r.edits) \in Nat /\ Len(q.edits) \in Nat
      BY <1>2, <1>3 DEF Row
    <3>3. p.sent \in 0 .. Len(r.edits) /\ \A i \in 1 .. p.sent : i \in 1 .. Len(r.edits)
      BY <2>1, <3>1, <3>2
    <3> QED BY <1>3, <1>6, <2>1, <3>1, <3>2, <3>3
  <2>3. (p.op = "create" => accepted'[g] # {} /\ (rows'[g].here \/ deleted'[g] # "no"))
        /\ (p.op = "update" /\ Holds(g, p.etag)' => p.body.kind = srv'[g].body.kind)
    BY <1>1, <1>3, <1>5, <1>9, <2>1 DEF WriteMade, Holds, r
  <2>4. p.op # "delete" => MadeFrom(p.body, rows[g])'
    BY <1>5, <2>2 DEF MadeFrom
  <2>5. Completes(rows[g].edits, p.sent)' = Completes(q.edits, p.sent)
    BY <1>5 DEF Completes
  <2> QED BY <1>5, <1>9, <2>2, <2>3, <2>4, <2>5 DEF WriteMade
<1>10. ASSUME NEW b \in Body, b.title < NextId, Told(g, b)
       PROVE  Told(g, b)'
  <2>1. Fits(g, b)'
    BY <1>7, <1>10 DEF Told
  <2>2. Grown(g, b)' /\ (b.kind # "todo" => Spoilt(g)')
    BY <1>1, <1>10 DEF Told, Grown, Spoilt
  <2> QED BY <2>1, <2>2 DEF Told
<1>11. UserFrame(g)
  BY <1>1, <1>2, <1>5 DEF UserFrame
<1>12. \A f \in accepted'[g] : f.id < NextId' /\ \A d \in accepted'[g] : f.id = d.id => f = d
  <2>1. \A f \in accepted[g] : f.id \in Nat /\ f.id < NextId /\ \A d \in accepted[g] : f.id = d.id => f = d
    BY <1>0, <1>2 DEF EditsGiven, Edit
  <2> QED BY <1>2, <1>5, <2>1
<1> QED BY <1>8, <1>9, <1>10, <1>11, <1>12, UserLeaves

\* The row goes, or waits to be deleted there.
LEMMA DeleteTold ==
  ASSUME EditInvariant, NEW g \in Hrefs, LocalDelete(g)
  PROVE  EditsTold'
<1>0. /\ TypeOK /\ HandSound /\ HandMade /\ EditsGiven /\ RowTold(g)
  BY EditParts, AloneParts DEF SyncInvariant, RoundTold
<1> DEFINE r == rows[g]
<1>1. /\ r.here /\ used' = [used EXCEPT !.local = @ + 1]
      /\ UNCHANGED <<srv, pc, todo, cur, ans, fetched, accepted, phoneDone>>
  BY DEF LocalDelete, Local, server, push, pull
<1>2. /\ NextId \in Nat /\ NextId' = NextId + 1 /\ r \in Row /\ rows \in [Hrefs -> Row]
      /\ deleted \in [Hrefs -> {"no", "marked", "forgotten"}] /\ accepted \in [Hrefs -> SUBSET Edit]
  <2>1. NextId' = NextId + 1
    BY <1>0, <1>1 DEF NextId, TypeOK
  <2> QED BY <1>0, <2>1, NextIdType DEF TypeOK
<1>3. \A h \in Hrefs \ {g} : rows'[h] = rows[h] /\ deleted'[h] = deleted[h]
  BY <1>2 DEF LocalDelete, Forget
<1>4. /\ deleted'[g] # "no"
      /\ \/ rows'[g] = NoRow
         \/ /\ rows'[g].here /\ rows'[g].etag = r.etag /\ rows'[g].base = r.base
            /\ rows'[g].edits = r.edits /\ rows'[g].ics = r.ics
  <2>1. CASE r.etag = 0
    BY <1>2, <2>1 DEF LocalDelete, Forget
  <2>2. CASE r.etag # 0
    <3> DEFINE q == [r EXCEPT !.deleted = TRUE]
    <3>1. rows' = [rows EXCEPT ![g] = q] /\ deleted' = [deleted EXCEPT ![g] = "marked"]
      BY <2>2 DEF LocalDelete
    <3>2. q.here = r.here /\ q.etag = r.etag /\ q.base = r.base /\ q.edits = r.edits /\ q.ics = r.ics
      BY <1>2 DEF Row
    <3> HIDE DEF q
    <3>3. rows'[g] = q
      BY <1>2, <3>1
    <3> QED BY <1>1, <1>2, <3>1, <3>2, <3>3
  <2> QED BY <2>1, <2>2
<1>5. /\ ~NoRow.here /\ NoRow.edits = <<>> /\ NoRow.base.title = 0
  BY DEF NoRow, NewBody
<1>6. ASSUME NEW b, Fits(g, b)
      PROVE  Fits(g, b)'
  <2>1. rows'[g].here => MadeFrom(b, rows[g])'
    BY <1>1, <1>4, <1>5, <1>6 DEF Fits, MadeFrom
  <2>2. rows'[g].here /\ phoneDone[g] = 0 => AdvancedBy(b, rows[g])'
    BY <1>1, <1>4, <1>5, <1>6 DEF Fits, AdvancedBy, Completes
  <2> QED BY <1>1, <2>1, <2>2 DEF Fits
<1>7. RowTold(g)'
  <2>1. RowGiven(g)'
    <3>1. r.base.title \in Nat
      BY <1>2 DEF Row, Body
    <3> QED BY <1>0, <1>1, <1>2, <1>4, <1>5, <3>1 DEF RowTold, RowGiven
  <2>2. srv[g].live => Fits(g, srv[g].body)'
    <3>1. srv[g].live /\ rows'[g].here => MadeFrom(srv[g].body, rows[g])'
      BY <1>0, <1>1, <1>4, <1>5 DEF RowTold, Fits, MadeFrom
    <3>2. srv[g].live /\ rows'[g].here /\ phoneDone[g] = 0 => AdvancedBy(srv[g].body, rows[g])'
      BY <1>0, <1>1, <1>4, <1>5 DEF RowTold, Fits, AdvancedBy, Completes
    <3> QED BY <1>1, <3>1, <3>2 DEF Fits
  <2>3. \A f \in accepted'[g] : Shows(g, f)'
    BY <1>0, <1>1, <1>4, <1>5 DEF RowTold, Shows
  <2> QED BY <1>1, <2>1, <2>2, <2>3 DEF RowTold
<1>8. ASSUME NEW p \in Hand, p.href = g
      PROVE  WriteMade(p)'
  <2>1. WriteMade(p)
    BY <1>0 DEF HandMade
  <2>2. p.op # "delete" /\ rows'[g].here =>
          /\ p.sent <= Len(rows'[g].edits)
          /\ \A i \in 1 .. p.sent : rows'[g].edits[i].id \in p.body.seen
          /\ p.body.due = rows'[g].base.due + Completes(rows[g].edits, p.sent)'
    BY <1>1, <1>4, <1>5, <1>8, <2>1 DEF WriteMade, Completes
  <2>3. p.op # "delete" /\ rows'[g].here => MadeFrom(p.body, rows[g])'
    BY <1>1, <1>4, <1>5, <1>8, <2>1 DEF WriteMade, MadeFrom
  <2>4. p.op # "delete" =>
          /\ p.op = "create" => accepted'[g] # {} /\ deleted'[g] # "no"
          /\ p.op = "update" /\ Holds(g, p.etag)' => p.body.kind = srv'[g].body.kind
    BY <1>1, <1>4, <1>8, <2>1 DEF WriteMade, Holds
  <2> QED BY <1>8, <2>2, <2>3, <2>4 DEF WriteMade
<1>9. ASSUME NEW b \in Body, Told(g, b)
      PROVE  Told(g, b)'
  <2>1. Fits(g, b)'
    BY <1>6, <1>9 DEF Told
  <2>2. Grown(g, b)' /\ (b.kind # "todo" => Spoilt(g)')
    BY <1>1, <1>9 DEF Told, Grown, Spoilt
  <2> QED BY <2>1, <2>2 DEF Told
<1>10. UserFrame(g)
  BY <1>1, <1>2, <1>3 DEF UserFrame
<1>11. \A f \in accepted'[g] : f.id < NextId' /\ \A d \in accepted'[g] : f.id = d.id => f = d
  <2>1. \A f \in accepted[g] : f.id \in Nat /\ f.id < NextId /\ \A d \in accepted[g] : f.id = d.id => f = d
    BY <1>0, <1>2 DEF EditsGiven, Edit
  <2> QED BY <1>1, <1>2, <2>1
<1> HIDE DEF r
<1> QED BY <1>7, <1>8, <1>9, <1>10, <1>11, UserLeaves

\* What the phone writes: nothing was there; or the resource goes; or it was made
\* from what was there, and is as far unless the phone completed it.
PhoneWrites(g) ==
  LET b == srv[g].body
      c == srv'[g].body
  IN
  /\ UNCHANGED <<rows, pc, todo, cur, ans, fetched, accepted, deleted>> /\ NextId' = NextId + 1
  /\ srv'[g].at = clock + 1 /\ (phoneDone'[g] = 0 => phoneDone[g] = 0)
  /\ \A h \in Hrefs \ {g} : srv'[h] = srv[h] /\ phoneDone'[h] = phoneDone[h]
  /\ c.title = b.title \/ c.title = NextId
  /\ phoneDone[g] <= phoneDone'[g]
  /\ IF srv[g].live THEN c.due + phoneDone[g] = b.due + phoneDone'[g] ELSE c.due = 0
  /\ \/ Unused(g)
     \/ srv[g].live /\ ~srv'[g].live /\ c = b
     \/ /\ srv[g].live /\ b.seen \subseteq c.seen
        /\ phoneDone'[g] = 0 => c.due = b.due
        /\ b.kind # "todo" => c.kind # "todo"

LEMMA PhoneStepWrites ==
  ASSUME TypeOK, ETagsGiven, PhoneStep
  PROVE  \E g \in Hrefs : PhoneWrites(g)
<1>1. /\ NextId \in Nat /\ \A o \in {"title", "complete"} : [id |-> NextId, op |-> o] \in Edit
      /\ phoneDone \in [Hrefs -> Nat]
  BY NextIdType, TypeParts, OneEditType DEF TypeOK
<1>2. Phone => NextId' = NextId + 1
  BY DEF Phone, NextId, TypeOK
<1>3. ASSUME NEW b \in Body, NEW o \in {"title", "complete"}
      PROVE  LET c == Combined(b, <<[id |-> NextId, op |-> o]>>) IN
             /\ c.title = b.title \/ c.title = NextId
             /\ b.seen \subseteq c.seen /\ c.kind = b.kind
             /\ c.due = IF o = "title" THEN b.due ELSE b.due + 1
  <2> DEFINE e == [id |-> NextId, op |-> o]
  <2>1. <<e>> \in Seq(Edit) /\ Len(<<e>>) = 1 /\ <<e>>[1] = e /\ e.id = NextId /\ e.op = o
    BY <1>1
  <2> HIDE DEF e
  <2>2. Positions(<<e>>, "title") = {} \/ Positions(<<e>>, "title") = {1}
    BY <2>1 DEF Positions
  <2>3. Newest({1}) = 1
    BY NewestIsMember
  <2>4. Positions(<<e>>, "complete") = IF o = "title" THEN {} ELSE {1}
    BY <2>1 DEF Positions
  <2>5. b.due \in Nat
    BY DEF Body
  <2>6. Combined(b, <<e>>).title = b.title \/ Combined(b, <<e>>).title = NextId
    BY <2>1, <2>2, <2>3 DEF Combined
  <2>7. Combined(b, <<e>>).due = IF o = "title" THEN b.due ELSE b.due + 1
    <3>1. Cardinality({}) = 0 /\ Cardinality({1}) = 1
      BY FS_EmptySet, FS_Singleton
    <3>2. Combined(b, <<e>>).due = b.due + Cardinality(Positions(<<e>>, "complete"))
      BY DEF Combined
    <3>3. CASE o = "title"
      BY <2>4, <2>5, <3>1, <3>2, <3>3
    <3>4. CASE o # "title"
      BY <2>4, <2>5, <3>1, <3>2, <3>4
    <3> QED BY <3>3, <3>4
  <2> QED BY <2>6, <2>7, CombinedSeesMore DEF e
<1>4. ASSUME NEW g \in Hrefs, PhoneCreate(g)
      PROVE  PhoneWrites(g)
  <2> DEFINE c == Combined(NewBody, <<[id |-> NextId, op |-> "title"]>>)
  <2>1. /\ Unused(g) /\ NextId' = NextId + 1 /\ ServerPut(g, c)
        /\ UNCHANGED <<rows, pc, todo, cur, ans, fetched, accepted, deleted, phoneDone>>
    BY <1>2, <1>4 DEF PhoneCreate, cache, push, pull, ghosts
  <2>2. c.title = 0 \/ c.title = NextId
    <3>1. NewBody \in Body /\ NewBody.title = 0
      BY NewBodyType DEF NewBody
    <3> QED BY <1>3, <3>1
  <2>3. c.title = NextId /\ c.due = 0
    <3> DEFINE e == [id |-> NextId, op |-> "title"]
    <3>1. <<e>>[1] = e /\ Len(<<e>>) = 1 /\ e.id = NextId /\ e.op = "title"
      OBVIOUS
    <3> HIDE DEF e
    <3>2. Positions(<<e>>, "title") = {1}
      BY <3>1 DEF Positions
    <3>3. Newest({1}) = 1
      BY NewestIsMember
    <3>4. Combined(NewBody, <<e>>).title = NextId
      BY <3>1, <3>2, <3>3 DEF Combined
    <3>5. Combined(NewBody, <<[id |-> NextId, op |-> "title"]>>).due = 0
      <4>1. NewBody \in Body /\ NewBody.due = 0
        BY NewBodyType DEF NewBody
      <4> QED BY <1>3, <4>1
    <3> QED BY <3>4, <3>5 DEF e
  <2> HIDE DEF c
  <2>4. Touched(g) /\ srv'[g].body = c
    BY <2>1, PutTouches
  <2>5. ~srv[g].live /\ phoneDone[g] <= phoneDone[g]
    BY <1>1, <2>1 DEF Unused, ETagsGiven
  <2> QED BY <2>1, <2>3, <2>4, <2>5 DEF PhoneWrites, Touched
<1>5. ASSUME NEW g \in Hrefs, NEW o \in {"title", "complete"}, PhoneEdit(g, o)
      PROVE  PhoneWrites(g)
  <2> DEFINE c == Combined(srv[g].body, <<[id |-> NextId, op |-> o]>>)
  <2>1. /\ srv[g].live /\ NextId' = NextId + 1 /\ ServerPut(g, c)
        /\ phoneDone' = [phoneDone EXCEPT ![g] = IF o = "complete" THEN @ + 1 ELSE @]
        /\ UNCHANGED <<rows, pc, todo, cur, ans, fetched, accepted, deleted>>
    BY <1>2, <1>5 DEF PhoneEdit, cache, push, pull
  <2>2. /\ c.title = srv[g].body.title \/ c.title = NextId
        /\ srv[g].body.seen \subseteq c.seen /\ c.kind = srv[g].body.kind
        /\ c.due = IF o = "title" THEN srv[g].body.due ELSE srv[g].body.due + 1
        /\ srv[g].body.due \in Nat
    <3>1. srv[g].body \in Body /\ srv[g].body.due \in Nat
      BY LoopTypes DEF Body
    <3> QED BY <1>3, <3>1
  <2> HIDE DEF c
  <2>3. Touched(g) /\ srv'[g].body = c
    BY <2>1, PutTouches
  <2>4. /\ phoneDone'[g] = IF o = "complete" THEN phoneDone[g] + 1 ELSE phoneDone[g]
        /\ phoneDone[g] \in Nat
        /\ \A h \in Hrefs \ {g} : phoneDone'[h] = phoneDone[h]
    BY <1>1, <2>1
  <2>5. /\ (phoneDone'[g] = 0 => phoneDone[g] = 0) /\ (phoneDone'[g] = 0 => o = "title")
        /\ phoneDone[g] <= phoneDone'[g]
        /\ c.due + phoneDone[g] = srv[g].body.due + phoneDone'[g]
    BY <2>2, <2>4
  <2> QED BY <2>1, <2>2, <2>3, <2>4, <2>5 DEF PhoneWrites, Touched
<1>6. ASSUME NEW g \in Hrefs, NEW kind \in PhoneKinds, PhoneBreaks(g, kind)
      PROVE  PhoneWrites(g)
  <2> DEFINE c == [srv[g].body EXCEPT !.kind = kind]
  <2>1. /\ srv[g].live /\ srv[g].body.kind = "todo" /\ NextId' = NextId + 1 /\ ServerPut(g, c)
        /\ UNCHANGED <<rows, pc, todo, cur, ans, fetched, accepted, deleted, phoneDone>>
    BY <1>2, <1>6 DEF PhoneBreaks, cache, push, pull, ghosts
  <2>2. c.title = srv[g].body.title /\ c.seen = srv[g].body.seen /\ c.due = srv[g].body.due
    <3>1. srv[g].body \in Body
      BY LoopTypes
    <3> QED BY <3>1 DEF Body
  <2> HIDE DEF c
  <2>3. Touched(g) /\ srv'[g].body = c
    BY <2>1, PutTouches
  <2>4. phoneDone[g] <= phoneDone[g]
    BY <1>1
  <2> QED BY <2>1, <2>2, <2>3, <2>4 DEF PhoneWrites, Touched
<1>7. ASSUME NEW g \in Hrefs, PhoneDelete(g)
      PROVE  PhoneWrites(g)
  <2>1. /\ srv[g].live /\ NextId' = NextId + 1 /\ ServerRemove(g)
        /\ UNCHANGED <<rows, pc, todo, cur, ans, fetched, accepted, deleted, phoneDone>>
    BY <1>2, <1>7 DEF PhoneDelete, cache, push, pull, ghosts
  <2>2. Touched(g) /\ ~srv'[g].live
    BY <2>1, RemoveTouches
  <2>3. srv'[g].body = srv[g].body
    <3>1. srv \in [Hrefs -> Resource] /\ srv[g] \in Resource
      BY DEF TypeOK
    <3> QED BY <2>1, <3>1 DEF ServerRemove, Resource
  <2>4. phoneDone[g] <= phoneDone[g]
    BY <1>1
  <2> QED BY <2>1, <2>2, <2>3, <2>4 DEF PhoneWrites, Touched
<1> QED BY <1>4, <1>5, <1>6, <1>7 DEF PhoneStep

\* What it writes owes the edits here no less than what was there.
LEMMA PhoneTold ==
  ASSUME EditInvariant, PhoneStep
  PROVE  EditsTold'
<1>0. /\ TypeOK /\ ETagsGiven /\ WriteInHand /\ HandSound /\ AnswersTold /\ PullTold
      /\ EditsGiven /\ HandMade /\ CopiesFit /\ TakenGrown /\ \A h \in Hrefs : RowTold(h)
  BY EditParts, AloneParts DEF SyncInvariant, RoundTold
<1>1. PICK g \in Hrefs : PhoneWrites(g)
  BY <1>0, PhoneStepWrites
<1>2. /\ UNCHANGED <<rows, pc, todo, cur, ans, fetched, accepted, deleted>> /\ NextId' = NextId + 1
      /\ srv'[g].at = clock + 1 /\ (phoneDone'[g] = 0 => phoneDone[g] = 0)
      /\ \A h \in Hrefs \ {g} : srv'[h] = srv[h] /\ phoneDone'[h] = phoneDone[h]
      /\ srv'[g].body.title = srv[g].body.title \/ srv'[g].body.title = NextId
  BY <1>1 DEF PhoneWrites
<1>3. srv[g].at # 0 =>
        \/ srv[g].live /\ ~srv'[g].live /\ srv'[g].body = srv[g].body
        \/ /\ srv[g].live /\ srv[g].body.seen \subseteq srv'[g].body.seen
           /\ phoneDone'[g] = 0 => srv'[g].body.due = srv[g].body.due
           /\ srv[g].body.kind # "todo" => srv'[g].body.kind # "todo"
  BY <1>1 DEF PhoneWrites, Unused
<1>4. NextId \in Nat /\ clock \in Nat /\ Hand' = Hand /\ (Taken' <=> Taken)
      /\ phoneDone[g] \in Nat /\ phoneDone'[g] \in Nat
  <2>1. Hand' = Hand /\ (Taken' <=> Taken)
    BY <1>2 DEF Hand, Taken
  <2>2. TypeOK'
    BY <1>0, OutsideStepType
  <2> QED BY <1>0, <2>1, <2>2, NextIdType DEF TypeOK
<1>5. srv[g].at # 0 /\ Spoilt(g) => Spoilt(g)'
  BY <1>2, <1>3, <1>4 DEF Spoilt
<1>6. ASSUME NEW b, srv[g].at # 0, Grown(g, b)
      PROVE  Grown(g, b)'
  BY <1>2, <1>3, <1>6 DEF Grown
<1>7. ASSUME NEW h \in Hrefs, NEW b, srv[h].at # 0, Told(h, b)
      PROVE  Told(h, b)'
  <2>1. CASE h # g
    BY <1>2, <1>7, <2>1, CopyStays
  <2>2. CASE h = g
    <3>1. rows[g].here => MadeFrom(b, rows[g])'
      BY <1>2, <1>7, <2>2 DEF Told, Fits, MadeFrom
    <3>2. rows[g].here /\ phoneDone'[g] = 0 => AdvancedBy(b, rows[g])'
      BY <1>2, <1>7, <2>2 DEF Told, Fits, AdvancedBy, Completes
    <3>3. Fits(g, b)'
      BY <1>2, <3>1, <3>2 DEF Fits
    <3>4. Grown(g, b)' /\ (b.kind # "todo" => Spoilt(g)')
      BY <1>5, <1>6, <1>7, <2>2 DEF Told
    <3> QED BY <2>2, <3>3, <3>4 DEF Told
  <2> QED BY <2>1, <2>2
<1>8. RowTold(g)'
  <2>0. RowTold(g) /\ rows[g] \in Row /\ rows[g].base.title \in Nat
    BY <1>0 DEF TypeOK, Row, Body
  <2>1. RowGiven(g)'
    BY <1>2, <1>4, <2>0 DEF RowTold, RowGiven
  <2>2. ASSUME srv'[g].live, rows[g].here
        PROVE  MadeFrom(srv[g].body, rows[g])' /\ (phoneDone'[g] = 0 => AdvancedBy(srv[g].body, rows[g])')
    <3>1. /\ srv[g].live /\ srv[g].body.seen \subseteq srv'[g].body.seen
          /\ phoneDone'[g] = 0 => srv'[g].body.due = srv[g].body.due
      BY <1>1, <2>2 DEF PhoneWrites, Unused
    <3>2. /\ MadeFrom(srv[g].body, rows[g])
          /\ phoneDone[g] = 0 => AdvancedBy(srv[g].body, rows[g])
      BY <2>0, <2>2, <3>1 DEF RowTold, Fits
    <3>3. \A n \in 1 .. Len(rows[g].edits) : rows[g].edits[n].id # NextId
      <4>1. ASSUME NEW n \in 1 .. Len(rows[g].edits)
            PROVE  rows[g].edits[n].id \in Nat /\ rows[g].edits[n].id < NextId
        <5>1. rows[g].edits[n] \in accepted[g]
          BY <2>0 DEF RowTold, RowGiven
        <5> QED BY <1>0, <5>1 DEF EditsGiven, TypeOK, Edit
      <4> QED BY <1>4, <4>1
    <3>4. MadeFrom(srv[g].body, rows[g])'
      BY <1>2, <3>1, <3>2, <3>3 DEF MadeFrom
    <3>5. phoneDone'[g] = 0 => AdvancedBy(srv[g].body, rows[g])'
      BY <1>2, <3>1, <3>2 DEF AdvancedBy, Completes
    <3> QED BY <3>4, <3>5
  <2>3. srv'[g].live => Fits(g, srv[g].body)'
    BY <1>2, <2>2 DEF Fits
  <2>4. ASSUME NEW e \in accepted[g]
        PROVE  Shows(g, e)'
    <3>1. Shows(g, e)
      BY <2>0 DEF RowTold
    <3>2. srv[g].at # 0
      <4>1. ~Unused(g)
        BY DEF Unused
      <4>2. srv[g].live
        BY <1>1, <4>1 DEF PhoneWrites
      <4> QED BY <1>0, <4>2 DEF ETagsGiven
    <3>3. phoneDone[g] > 0 => phoneDone'[g] > 0
      BY <1>2, <1>4
    <3> QED BY <1>2, <1>5, <3>1, <3>2, <3>3 DEF Shows
  <2> QED BY <1>2, <2>1, <2>3, <2>4 DEF RowTold
<1>9. \A h \in Hrefs : RowTold(h)'
  <2>1. \A h \in Hrefs \ {g} : RowTold(h)'
    BY <1>0, <1>2, RowStays
  <2> QED BY <1>8, <2>1
<1>10. HandMade'
  <2>1. ASSUME NEW p \in Hand
        PROVE  WriteMade(p)'
    <3>1. WriteMade(p) /\ p.href \in Hrefs
      BY <1>0, HandType DEF HandMade
    <3>2. CASE p.href # g
      BY <1>2, <3>1, <3>2, WriteStays
    <3>3. CASE p.href = g
      <4>1. p.etag \in Nat /\ p.etag <= clock
        <5>1. p \in todo[Loop] \/ p = cur[Loop]
          BY DEF Hand
        <5> QED BY <1>0, <5>1, HandType, WorkersAssumption DEF ETagsGiven, Pending
      <4>2. ~Holds(g, p.etag)'
        BY <1>2, <1>4, <4>1 DEF Holds
      <4> QED BY <1>2, <3>1, <3>3, <4>2 DEF WriteMade, MadeFrom, Completes
    <3> QED BY <3>2, <3>3
  <2> QED BY <1>4, <2>1 DEF HandMade
<1>11. ASSUME NEW f \in fetched
       PROVE  Told(f.href, f.body)'
  <2>1. f.href \in Hrefs /\ f.etag \in Nat /\ srv[f.href].at \in Nat /\ delta.token \in Nat
    BY <1>0, LoopTypes
  <2>2. Current(f.href, f.etag, f.body, delta.token)
    BY <1>0 DEF PullTold
  <2>3. srv[f.href].at # 0
    BY <2>1, <2>2 DEF Current
  <2> QED BY <1>0, <1>7, <2>1, <2>3 DEF CopiesFit
<1>12. ans[Loop].kind = "copy" => Told(cur[Loop].href, ans[Loop].body)'
  <2> SUFFICES ASSUME ans[Loop].kind = "copy"
               PROVE  Told(cur[Loop].href, ans[Loop].body)'
    OBVIOUS
  <2>1. pc[Loop] \in Writing
    BY <1>0 DEF HandSound
  <2>2. PICK h \in Hrefs, b \in Body : h = cur[Loop].href /\ b = ans[Loop].body
    BY <1>0, <2>1, HandType, LoopTypes
  <2>3. srv[h].at # 0
    BY <1>0, <2>2, LoopTypes DEF AnswersTold, Current
  <2>4. Told(h, b)'
    BY <1>0, <1>7, <2>2, <2>3 DEF CopiesFit
  <2>5. h = cur'[Loop].href /\ b = ans'[Loop].body
    BY <1>2, <2>2
  <2> QED BY <2>4, <2>5, AnswerTold
<1>13. CopiesFit'
  BY <1>2, <1>11, <1>12 DEF CopiesFit
<1>14. TakenGrown'
  <2> SUFFICES ASSUME Taken
               PROVE  /\ cur[Loop].op # "delete"
                      /\ Grown(cur[Loop].href, cur[Loop].body)'
                      /\ ans[Loop].kind = "copy" =>
                           /\ cur[Loop].body.seen \subseteq ans[Loop].body.seen
                           /\ phoneDone'[cur[Loop].href] = 0 => ans[Loop].body.due = cur[Loop].body.due
    BY <1>2, <1>4 DEF TakenGrown
  <2>1. PICK h, b : h = cur[Loop].href /\ b = cur[Loop].body
    OBVIOUS
  <2>2. pc[Loop] \in Writing
    BY <1>0 DEF HandSound, Taken, Writing
  <2>3. h \in Hrefs /\ srv[h].at \in Nat /\ token \in Nat
    BY <1>0, <2>1, <2>2, HandType, LoopTypes
  <2>4. srv[h].at # 0
    BY <1>0, <2>1, <2>3 DEF Taken, AnswersTold
  <2>5. /\ cur[Loop].op # "delete" /\ Grown(h, b)
        /\ ans[Loop].kind = "copy" =>
             /\ cur[Loop].body.seen \subseteq ans[Loop].body.seen
             /\ phoneDone[h] = 0 => ans[Loop].body.due = cur[Loop].body.due
    BY <1>0, <2>1 DEF TakenGrown
  <2>6. Grown(h, b)' /\ (phoneDone'[h] = 0 => phoneDone[h] = 0)
    <3>1. CASE h = g
      BY <1>2, <1>6, <2>4, <2>5, <3>1
    <3>2. CASE h # g
      BY <1>2, <2>3, <2>5, <3>2 DEF Grown
    <3> QED BY <3>1, <3>2
  <2>7. h = cur'[Loop].href /\ b = cur'[Loop].body
    BY <1>2, <2>1
  <2> QED BY <2>1, <2>5, <2>6, <2>7 DEF Grown
<1>15. EditsGiven'
  <2>1. \A h \in Hrefs : \A e \in accepted[h] : e.id \in Nat
    BY <1>0 DEF TypeOK, Edit
  <2>2. \A h \in Hrefs : srv[h].body.title \in Nat
    BY <1>0, LoopTypes DEF Body
  <2>3. \A p \in Hand : p.body.title \in Nat
    BY <1>0, HandType DEF Pending, Body
  <2>4. ans[Loop].body.title \in Nat /\ \A f \in fetched : f.body.title \in Nat
    BY <1>0, LoopTypes DEF Body
  <2>5. \A h \in Hrefs : srv'[h].body.title < NextId'
    <3>1. srv'[g].body.title < NextId + 1
      BY <1>0, <1>2, <1>4, <2>2 DEF EditsGiven
    <3>2. \A h \in Hrefs \ {g} : srv'[h].body.title < NextId + 1
      BY <1>0, <1>2, <1>4, <2>2 DEF EditsGiven
    <3> QED BY <1>2, <3>1, <3>2
  <2>6. \A h \in Hrefs : \A e \in accepted[h] :
          e.id < NextId' /\ \A f \in accepted[h] : e.id = f.id => e = f
    BY <1>0, <1>2, <1>4, <2>1 DEF EditsGiven
  <2>7. \A p \in Hand' : p.body.title < NextId'
    BY <1>0, <1>2, <1>4, <2>3 DEF EditsGiven
  <2>8. /\ ans[Loop].kind = "copy" => ans[Loop].body.title < NextId'
        /\ \A f \in fetched : f.body.title < NextId'
    BY <1>0, <1>2, <1>4, <2>4 DEF EditsGiven
  <2> QED BY <1>2, <2>5, <2>6, <2>7, <2>8 DEF EditsGiven
<1> QED BY <1>9, <1>10, <1>13, <1>14, <1>15 DEF EditsTold

-----------------------------------------------------------------------------
(* The edits are kept. *)

LEMMA EditInit == Init => EditInvariant
<1> SUFFICES ASSUME Init
             PROVE  EditInvariant
  OBVIOUS
<1>1. AloneInvariant /\ TypeOK
  BY AloneInit, TypeInit
<1>2. /\ pc[Loop] = "idle" /\ todo[Loop] = {} /\ ans[Loop].kind = "none" /\ fetched = {}
      /\ Hand = {}
  BY WorkersAssumption DEF Init, Says, Hand, Writing
<1>3. NextId = 1
  BY DEF Init, NextId
<1>4. \A h \in Hrefs : /\ accepted[h] = {} /\ ~srv[h].live /\ srv[h].body.title = 0
                       /\ ~rows[h].here /\ rows[h].base.title = 0 /\ Len(rows[h].edits) = 0
  BY DEF Init, NoRow, NewBody
<1>5. EditsGiven
  BY <1>2, <1>3, <1>4 DEF EditsGiven
<1>6. HandMade /\ CopiesFit /\ TakenGrown
  BY <1>2 DEF HandMade, CopiesFit, TakenGrown, Taken
<1>7. ASSUME NEW h \in Hrefs
      PROVE  RowTold(h)
  BY <1>3, <1>4 DEF RowTold, RowGiven
<1> QED BY <1>1, <1>5, <1>6, <1>7, EditParts

LEMMA EditStep == Alone /\ EditInvariant /\ [Next]_vars => EditInvariant'
<1> SUFFICES ASSUME Alone, EditInvariant, [Next]_vars
             PROVE  EditInvariant'
  OBVIOUS
<1>1. AloneInvariant'
  BY EditParts, AloneStep
<1> SUFFICES EditsTold'
  BY <1>1, EditsParts
<1>2. \A w \in Workers : w = Loop
  BY DEF Alone
<1>3. ASSUME PushStep(Loop)
      PROVE  EditsTold'
  <2>1. CASE \/ Begin(Loop) \/ NeedCopy(Loop) \/ FetchOne(Loop) \/ DeleteCurrent(Loop)
             \/ DeleteRefused(Loop) \/ Reread(Loop) \/ PushDone(Loop)
    BY <2>1, PushQuiet, QuietTold
  <2>2. CASE Send(Loop) \/ Redelete(Loop)
    BY <2>2, SendTold
  <2>3. CASE ApplyStored(Loop) \/ ApplyConfirmed(Loop)
    BY <2>3, StoredTold
  <2>4. CASE ApplyDeleted(Loop) \/ ApplyMissing(Loop) \/ ApplyGone(Loop)
    BY <2>4, GoneTold
  <2>5. CASE Rebase(Loop)
    BY <2>5, RebasedTold
  <2> QED BY <1>3, <2>1, <2>2, <2>3, <2>4, <2>5 DEF PushStep
<1>4. CASE PullStep
  <2>1. CASE ReadLists \/ ReadChanges \/ ReadKnown \/ FetchWanted
    BY <2>1, PullQuiet, QuietTold
  <2> QED BY <1>4, <2>1, PulledTold DEF PullStep
<1>5. CASE UserStep
  BY <1>5, CreateTold, EditTold, DeleteTold DEF UserStep
<1>6. CASE TimePasses \/ FaultStep \/ UNCHANGED vars
  BY <1>2, <1>6, OutsideQuiet, QuietTold DEF FaultStep
<1> QED BY <1>2, <1>3, <1>4, <1>5, <1>6, PhoneTold DEF Next

\* An edit is still to be sent where the row shows it on top of the server's
\* copy, and the server has it where the row shows it without.
LEMMA EditsAreKept == EditInvariant => NoLostEdit
<1> SUFFICES ASSUME EditInvariant, NEW h \in Hrefs, NEW e \in accepted[h]
             PROVE  \/ e.id \in srv[h].body.seen
                    \/ IsPending(rows[h]) /\ e.id \in rows[h].ics.seen
                    \/ deleted[h] # "no"
                    \/ srv[h].at > 0 /\ ~srv[h].live
                    \/ srv[h].body.kind # "todo"
                    \/ e.op = "complete" /\ phoneDone[h] > 0
  BY DEF NoLostEdit
<1>1. TypeOK /\ IcsIsCombined /\ RowsKnown /\ RowTold(h)
  BY EditParts, AloneParts DEF SyncInvariant, StoreTold
<1>2. /\ rows[h] \in Row /\ rows[h].etag \in Nat /\ srv[h].at \in Nat
  BY <1>1, LoopTypes
<1>3. Shows(h, e)
  BY <1>1 DEF RowTold
<1>4. CASE rows[h].here /\ e.id \in rows[h].ics.seen
  <2>1. CASE rows[h].etag # 0 /\ rows[h].edits = <<>>
    <3>1. CASE srv[h].live
      <4>1. e.id \in rows[h].base.seen
        <5>1. rows[h].ics.seen = rows[h].base.seen \cup Ids(<<>>) /\ Ids(<<>>) = {}
          BY <1>1, <1>2, <1>4, <2>1, CombinedSeesMore DEF IcsIsCombined, Ids, Row
        <5> QED BY <1>4, <5>1
      <4> QED BY <1>1, <1>4, <3>1, <4>1 DEF RowTold, Fits, MadeFrom
    <3>2. CASE ~srv[h].live
      BY <1>1, <1>2, <2>1, <3>2 DEF RowsKnown
    <3> QED BY <3>1, <3>2
  <2> QED BY <1>4, <2>1 DEF IsPending
<1> QED BY <1>2, <1>3, <1>4 DEF Shows, Spoilt

\* The inductive invariant of the edits, where the loop is alone.
THEOREM EditInvariance == ASSUME Alone PROVE Spec => []EditInvariant
<1>1. Init => EditInvariant
  BY EditInit
<1>2. EditInvariant /\ [Next]_vars => EditInvariant'
  BY EditStep
<1> QED BY <1>1, <1>2, PTL DEF Spec

\* What the user was told was taken is not lost by rebasing and sending, for
\* put_server drops the edits of a row only for a copy that has them, was
\* completed elsewhere, or is one they make no sense on.
THEOREM NoEditLost == ASSUME Alone PROVE Spec => []NoLostEdit
<1>1. EditInvariant => NoLostEdit
  BY EditsAreKept
<1> QED BY <1>1, EditInvariance, PTL

-----------------------------------------------------------------------------
(* No completion is applied twice. *)

\* The completions among the first edits and among the rest are all there are.
LEMMA CompletesRest ==
  ASSUME NEW es, NEW fs, NEW n \in Nat, NEW s \in Nat, s <= n,
         \A i \in 1 .. n - s : fs[i] = es[s + i]
  PROVE  Completes(fs, n - s) + Completes(es, s) = Completes(es, n)
<1> DEFINE S == {i \in 1 .. s : es[i].op = "complete"}
           T == {i \in (s + 1) .. n : es[i].op = "complete"}
           U == {i \in 1 .. n - s : fs[i].op = "complete"}
<1>1. /\ IsFiniteSet(S) /\ Cardinality(S) = Completes(es, s)
      /\ IsFiniteSet(U) /\ Cardinality(U) = Completes(fs, n - s)
  BY CompletesType, n - s \in Nat DEF Completes
<1>2. IsFiniteSet(T) /\ Cardinality(T) = Cardinality(U)
  <2> DEFINE f == [i \in U |-> s + i]
  <2>1. f \in [U -> T]
    BY \A i \in U : s + i \in (s + 1) .. n /\ es[s + i] = fs[i]
  <2>2. \A i, j \in U : f[i] = f[j] => i = j
    OBVIOUS
  <2>3. \A j \in T : \E i \in U : f[i] = j
    <3> TAKE j \in T
    <3>1. j - s \in 1 .. n - s /\ s + (j - s) = j
      OBVIOUS
    <3>2. j - s \in U
      BY <3>1
    <3> WITNESS j - s \in U
    <3> QED BY <3>1, <3>2
  <2>4. f \in Bijection(U, T)
    <3> HIDE DEF f, U, T
    <3> QED BY <2>1, <2>2, <2>3 DEF Bijection, Injection, Surjection, IsInjective
  <2> HIDE DEF f, U, T
  <2> QED BY <1>1, <2>4, FS_Bijection DEF ExistsBijection
<1>3. S \cap T = {} /\ S \cup T = {i \in 1 .. n : es[i].op = "complete"}
  OBVIOUS
<1> HIDE DEF S, T, U
<1>4. Cardinality(S \cup T) = Cardinality(S) + Cardinality(T)
  <2>1. Cardinality(S \cap T) = 0
    BY <1>3, FS_EmptySet
  <2>2. Cardinality(S) \in Nat /\ Cardinality(T) \in Nat
    BY <1>1, <1>2, FS_CardinalityType
  <2>3. Cardinality(S \cup T) = Cardinality(S) + Cardinality(T) - Cardinality(S \cap T)
    <3>1. IsFiniteSet(S) /\ IsFiniteSet(T)
      BY <1>1, <1>2
    <3> QED BY ONLY <3>1, FS_Union
  <2> QED BY ONLY <2>1, <2>2, <2>3
<1>5. Completes(es, n) = Cardinality(S \cup T)
  BY <1>3 DEF Completes
<1>6. Cardinality(S) \in Nat /\ Cardinality(U) \in Nat
  BY <1>1, FS_CardinalityType
<1> QED BY <1>1, <1>2, <1>4, <1>5, <1>6

\* One more edit is one more completion, or none.
LEMMA CompletesAppend ==
  ASSUME NEW es \in Seq(Edit), NEW e \in Edit
  PROVE  LET fs == Append(es, e) IN
         Completes(fs, Len(fs))
           = Completes(es, Len(es)) + (IF e.op = "complete" THEN 1 ELSE 0)
<1> DEFINE fs == Append(es, e)
           n == Len(es)
           S == {i \in 1 .. n : es[i].op = "complete"}
<1>1. /\ n \in Nat /\ Len(fs) = n + 1 /\ fs[n + 1] = e
      /\ \A i \in 1 .. n : fs[i] = es[i]
  OBVIOUS
<1> HIDE DEF fs
<1>2. {i \in 1 .. n + 1 : fs[i].op = "complete"}
        = S \cup (IF e.op = "complete" THEN {n + 1} ELSE {})
  BY <1>1
<1>3. IsFiniteSet(S) /\ Cardinality(S) = Completes(es, n) /\ n + 1 \notin S
  BY <1>1, CompletesType DEF Completes
<1>4. Cardinality(S) \in Nat
  BY <1>3, FS_CardinalityType
<1>5. Completes(fs, n + 1) = Cardinality(S \cup (IF e.op = "complete" THEN {n + 1} ELSE {}))
  BY <1>2 DEF Completes
<1> HIDE DEF S
<1>6. CASE e.op = "complete"
  BY <1>1, <1>3, <1>4, <1>5, <1>6, FS_AddElement DEF fs
<1>7. CASE e.op # "complete"
  <2>1. S \cup {} = S
    OBVIOUS
  <2> QED BY <1>1, <1>3, <1>4, <1>5, <1>7, <2>1 DEF fs
<1> QED BY <1>6, <1>7

\* Of the edits accepted, one more completes the task once more, or not at all.
LEMMA AcceptedMore ==
  ASSUME NEW A, NEW e, IsFiniteSet(A), e \notin A
  PROVE  /\ IsFiniteSet(A \cup {e})
         /\ Cardinality({f \in A : f.op = "complete"}) \in Nat
         /\ Cardinality({f \in A \cup {e} : f.op = "complete"})
              = Cardinality({f \in A : f.op = "complete"})
                + (IF e.op = "complete" THEN 1 ELSE 0)
<1> DEFINE S == {f \in A : f.op = "complete"}
<1>1. IsFiniteSet(S) /\ Cardinality(S) \in Nat /\ e \notin S
  <2>1. S \in SUBSET A /\ e \notin S
    OBVIOUS
  <2> HIDE DEF S
  <2> QED BY <2>1, FS_Subset, FS_CardinalityType
<1>2. {f \in A \cup {e} : f.op = "complete"} = S \cup (IF e.op = "complete" THEN {e} ELSE {})
  OBVIOUS
<1>3. IsFiniteSet(A \cup {e})
  BY FS_AddElement
<1>4. Cardinality(S \cup (IF e.op = "complete" THEN {e} ELSE {}))
        = Cardinality(S) + (IF e.op = "complete" THEN 1 ELSE 0)
  <2> HIDE DEF S
  <2>1. CASE e.op = "complete"
    BY <1>1, <2>1, FS_AddElement
  <2>2. CASE e.op # "complete"
    <3>1. S \cup {} = S
      OBVIOUS
    <3> QED BY <1>1, <2>2, <3>1
  <2> QED BY <2>1, <2>2
<1> QED BY <1>1, <1>2, <1>3, <1>4

\* What is counted are numbers, and nothing is on the server that was not taken.
LEMMA CountTypes ==
  ASSUME TypeOK, WriteInHand, NEW h \in Hrefs, IsFiniteSet(accepted[h])
  PROVE  /\ Completed(h) \in Nat /\ Unapplied(h) \in Nat /\ OnServer(h) \in Nat
         /\ srv[h].body.due \in Nat /\ rows[h].base.due \in Nat
         /\ ~(Taken /\ cur[Loop].href = h) => OnServer(h) = 0
<1>1. rows[h] \in Row /\ srv[h].body \in Body /\ phoneDone[h] \in Nat
  BY LoopTypes DEF TypeOK
<1>2. Len(rows[h].edits) \in Nat /\ rows[h].base.due \in Nat /\ srv[h].body.due \in Nat
  BY <1>1 DEF Row, Body
<1>3. Unapplied(h) \in Nat
  BY <1>2, CompletesType DEF Unapplied
<1>4. Completed(h) \in Nat
  <2> DEFINE S == {e \in accepted[h] : e.op = "complete"}
  <2>1. S \in SUBSET accepted[h]
    OBVIOUS
  <2> HIDE DEF S
  <2>2. Cardinality(S) \in Nat
    BY <2>1, FS_Subset, FS_CardinalityType
  <2> QED BY <1>1, <2>2 DEF Completed, S
<1>5. OnServer(h) \in Nat /\ (~(Taken /\ cur[Loop].href = h) => OnServer(h) = 0)
  <2>1. Taken => cur[Loop].sent \in Nat
    <3>1. Taken => cur[Loop] \in Pending
      BY WorkersAssumption DEF Taken, WriteInHand
    <3> QED BY <3>1 DEF Pending
  <2> DEFINE n == IF Taken /\ cur[Loop].href = h THEN cur[Loop].sent ELSE 0
  <2>2. n \in Nat
    BY <2>1
  <2>3. OnServer(h) = Completes(rows[h].edits, n)
    BY DEF OnServer
  <2> HIDE DEF n
  <2>4. OnServer(h) \in Nat /\ (n = 0 => OnServer(h) = 0)
    BY <2>2, <2>3, CompletesType
  <2> QED BY <2>4 DEF n
<1> QED BY <1>2, <1>3, <1>4, <1>5

\* What the counts are of stays.
LEMMA RowCountedStays ==
  ASSUME NEW h, RowCounted(h), UNCHANGED <<rows[h], srv[h], accepted[h], phoneDone[h]>>,
         OnServer(h)' = OnServer(h)
  PROVE  RowCounted(h)'
BY DEF RowCounted, Counted, Unapplied, Completed

LEMMA CopyCountedStays ==
  ASSUME NEW h, NEW b, NEW n, Counted(h, b, n), UNCHANGED <<rows[h], accepted[h], phoneDone[h]>>
  PROVE  Counted(h, b, n)'
BY DEF Counted, Unapplied, Completed

LEMMA AnswerCounted ==
  ASSUME NEW h, NEW b, NEW n, Counted(h, b, n)', h = cur'[Loop].href, b = ans'[Loop].body,
         n = OnServer(h)'
  PROVE  Counted(cur[Loop].href, ans[Loop].body, OnServer(cur[Loop].href))'
BY DEF Counted, Unapplied, Completed, OnServer

\* A quiet step that loses nothing: what was taken still is.
QuietKept ==
  /\ Taken => Taken' /\ cur'[Loop] = cur[Loop] /\ fetched' = fetched
  /\ pc'[Loop] = "confirmed" /\ ans'[Loop].kind # "copy" =>
       (pc[Loop] = "confirmed" /\ ans'[Loop] = ans[Loop]) \/ ~srv[cur'[Loop].href].live

LEMMA PushKept ==
  ASSUME TypeOK,
         \/ Begin(Loop) \/ NeedCopy(Loop) \/ FetchOne(Loop) \/ DeleteCurrent(Loop)
         \/ DeleteRefused(Loop) \/ Reread(Loop) \/ PushDone(Loop)
  PROVE  QuietKept
<1>1. pc \in [Workers -> Steps] /\ Loop \in Workers
      /\ cur \in [Workers -> Pending \cup {NoWrite}] /\ ans \in [Workers -> Answer]
  BY WorkersAssumption DEF TypeOK
<1>2. CASE NeedCopy(Loop)
  <2>1. /\ pc[Loop] = "sent" /\ ans'[Loop].kind = "none" /\ UNCHANGED <<cur, fetched>>
        /\ pc'[Loop] = IF ans[Loop].kind = "kept" THEN "confirm" ELSE "refetch"
        /\ ans[Loop].kind \in {"kept", "conflict"}
    BY <1>1, <1>2 DEF NeedCopy, Goto, At, Says, pull
  <2> QED BY <2>1 DEF QuietKept, Taken
<1>3. CASE FetchOne(Loop)
  <2>1. /\ pc[Loop] \in {"confirm", "refetch"} /\ UNCHANGED <<cur, fetched>>
        /\ pc'[Loop] = IF pc[Loop] = "confirm" THEN "confirmed" ELSE "refetched"
        /\ srv[cur[Loop].href].live => ans'[Loop].kind = "copy"
    BY <1>1, <1>3 DEF FetchOne, Goto, At, CopyOf, pull
  <2> QED BY <2>1 DEF QuietKept, Taken
<1>4. CASE \/ Begin(Loop) \/ DeleteCurrent(Loop) \/ DeleteRefused(Loop) \/ Reread(Loop)
           \/ PushDone(Loop)
  <2>1. pc[Loop] \in {"idle", "refetched", "resent", "reread", "push"}
    BY <1>4 DEF Begin, DeleteCurrent, DeleteRefused, Reread, PushDone, At
  <2>2. pc'[Loop] \in {"push", "redelete", "again", "lists"}
    BY <1>1, <1>4 DEF Begin, DeleteCurrent, DeleteRefused, Reread, PushDone, Goto, Done
  <2> QED BY <2>1, <2>2 DEF QuietKept, Taken
<1> QED BY <1>2, <1>3, <1>4

LEMMA PullKept ==
  ASSUME TypeOK, ReadLists \/ ReadChanges \/ ReadKnown \/ FetchWanted
  PROVE  QuietKept
<1>1. pc \in [Workers -> Steps] /\ Loop \in Workers
  BY WorkersAssumption DEF TypeOK
<1>2. pc[Loop] \in {"lists", "changes", "known", "fetch"}
  BY DEF ReadLists, ReadChanges, ReadKnown, FetchWanted, At
<1>3. pc'[Loop] \in {"idle", "changes", "known", "finish", "fetch", "store"}
  BY <1>1 DEF ReadLists, ReadChanges, ReadKnown, FetchWanted, Leave, Goto
<1> QED BY <1>2, <1>3 DEF QuietKept, Taken

LEMMA RestKept ==
  ASSUME TimePasses \/ UNCHANGED vars
  PROVE  QuietKept
<1>1. UNCHANGED <<pc, cur, ans, fetched>>
  BY DEF TimePasses, vars, push, pull
<1> QED BY <1>1 DEF QuietKept, Taken

LEMMA QuietCounted ==
  ASSUME EditInvariant, AdvancesCounted, QuietStep, QuietKept
  PROVE  AdvancesCounted'
<1>0. /\ TypeOK /\ WriteInHand /\ IcsIsCombined /\ PullTold
      /\ CopiesCounted /\ TakenStands /\ \A h \in Hrefs : RowCounted(h)
  BY EditParts, AloneParts DEF SyncInvariant, RoundTold, AdvancesCounted
<1>1. UNCHANGED <<rows, srv, accepted, phoneDone>> /\ (Taken' <=> Taken)
      /\ (Taken => cur'[Loop] = cur[Loop] /\ fetched' = fetched)
  BY DEF QuietStep, QuietKept
<1>2. ASSUME NEW h \in Hrefs
      PROVE  OnServer(h)' = OnServer(h) /\ (~Taken => OnServer(h) = 0)
  <2>1. IsFiniteSet(accepted[h])
    BY <1>0 DEF RowCounted
  <2> QED BY <1>0, <1>1, <2>1, CountTypes DEF OnServer
<1>3. \A h \in Hrefs : RowCounted(h)'
  BY <1>0, <1>1, <1>2, RowCountedStays
<1>4. ASSUME NEW p \in Hand', p.op # "delete"
      PROVE  p.body.due <= Completed(p.href)'
  <2>1. CASE p \in Hand
    BY <1>0, <1>1, <1>4, <2>1 DEF CopiesCounted, Completed
  <2>2. CASE p \in AllPending
    <3>1. PICK h \in Hrefs : IsPending(rows[h]) /\ p = PendingOf(h)
      BY <2>2 DEF AllPending
    <3>2. p.href = h /\ p.body = rows[h].ics /\ rows[h].here
      BY <3>1 DEF PendingOf, IsPending
    <3>3. p.body.due = rows[h].base.due + Unapplied(h)
      BY <1>0, <3>2, CombinedDue DEF IcsIsCombined, Unapplied
    <3> QED BY <1>0, <1>1, <3>2, <3>3 DEF RowCounted, Completed
  <2> QED BY <2>1, <2>2 DEF QuietStep
<1>5. ans'[Loop].kind = "copy" =>
        Counted(cur[Loop].href, ans[Loop].body, OnServer(cur[Loop].href))'
  <2>1. PICK h, b, n : h = cur'[Loop].href /\ b = ans'[Loop].body /\ n = OnServer(h)'
    OBVIOUS
  <2> SUFFICES ASSUME ans'[Loop].kind = "copy"
               PROVE  Counted(cur[Loop].href, ans[Loop].body, OnServer(cur[Loop].href))'
    OBVIOUS
  <2>2. h \in Hrefs /\ Counted(h, b, OnServer(h))
    <3>1. CASE ans'[Loop] = ans[Loop] /\ cur'[Loop].href = cur[Loop].href
      <4>1. cur[Loop] \in Pending
        BY <1>0, <3>1, WorkersAssumption DEF WriteInHand
      <4> QED BY <1>0, <2>1, <3>1, <4>1 DEF CopiesCounted, Pending
    <3>2. CASE h \in Hrefs /\ srv[h].live /\ b = srv[h].body
      BY <1>0, <3>2 DEF RowCounted
    <3> QED BY <2>1, <3>1, <3>2 DEF QuietStep
  <2>3. Counted(h, b, n)'
    <3>1. Counted(h, b, n)
      BY <1>2, <2>1, <2>2
    <3> QED BY <1>1, <3>1, CopyCountedStays
  <2> QED BY <2>1, <2>3, AnswerCounted
<1>6. ASSUME NEW f \in fetched'
      PROVE  Counted(f.href, f.body, 0)'
  <2>1. Counted(f.href, f.body, 0)
    <3>1. CASE f \in fetched
      BY <1>0, <3>1 DEF CopiesCounted
    <3>2. CASE f \notin fetched
      <4>1. f.href \in Hrefs /\ srv[f.href].live /\ f.body = srv[f.href].body /\ ~Taken
        BY <1>1, <3>2 DEF QuietStep
      <4> QED BY <1>0, <1>2, <4>1 DEF RowCounted
    <3> QED BY <3>1, <3>2
  <2> QED BY <1>1, <2>1, CopyCountedStays
<1>7. CopiesCounted'
  BY <1>4, <1>5, <1>6 DEF CopiesCounted
<1>8. TakenStands'
  <2> SUFFICES ASSUME Taken'
               PROVE  /\ cur'[Loop].body.kind # "todo" => Spoilt(cur[Loop].href)'
                      /\ pc'[Loop] = "confirmed" /\ ans'[Loop].kind # "copy" =>
                           ~srv'[cur'[Loop].href].live
    BY DEF TakenStands
  <2>1. Taken /\ cur'[Loop] = cur[Loop]
    BY <1>1
  <2>2. cur[Loop].body.kind # "todo" => Spoilt(cur[Loop].href)
    BY <1>0, <2>1 DEF TakenStands
  <2>3. pc[Loop] = "confirmed" /\ ans[Loop].kind # "copy" => ~srv[cur[Loop].href].live
    BY <1>0, <2>1 DEF TakenStands
  <2> QED BY <1>1, <2>1, <2>2, <2>3 DEF QuietKept, Spoilt
<1> QED BY <1>3, <1>7, <1>8 DEF AdvancesCounted

\* A row the loop wrote, of what was not taken or is believed now.
LEMMA RowTakesCounted ==
  ASSUME NEW h \in Hrefs, NEW q, rows'[h] = q, RowCounted(h), ~Taken',
         UNCHANGED <<srv, accepted, phoneDone>>,
         q.here => q.base.due + Completes(q.edits, Len(q.edits)) <= Completed(h),
         q.here /\ srv[h].live /\ srv[h].body.kind = "todo" =>
           srv[h].body.due + Completes(q.edits, Len(q.edits)) <= Completed(h),
         Completed(h) \in Nat, srv[h].body.due \in Nat
  PROVE  RowCounted(h)'
<1>1. OnServer(h)' = Completes(q.edits, 0) /\ Unapplied(h)' = Completes(q.edits, Len(q.edits))
      /\ Completed(h)' = Completed(h)
  BY DEF OnServer, Unapplied, Completed
<1>2. Completes(q.edits, 0) = 0
  BY CompletesType
<1> QED BY <1>1, <1>2 DEF RowCounted, Counted

\* One that takes the server's copy, as the copy is.
LEMMA RowTurnsCounted ==
  ASSUME TypeOK, WriteInHand, NEW h \in Hrefs, RowCounted(h),
         ~rows[h].here => rows[h] = NoRow, OnServer(h) = 0,
         NEW etag \in Nat, NEW copy \in Body, Counted(h, copy, 0),
         rows'[h] = ServerCopy(rows[h], etag, copy), ~Taken',
         UNCHANGED <<srv, accepted, phoneDone>>
  PROVE  RowCounted(h)'
<1>0. /\ Completed(h) \in Nat /\ Unapplied(h) \in Nat
      /\ srv[h].body.due \in Nat /\ copy.due \in Nat /\ rows[h] \in Row
  BY CountTypes, LoopTypes DEF RowCounted, Body
<1>1. CASE copy.kind = "other"
  <2>1. PICK q : q = NoRow
    OBVIOUS
  <2>2. rows'[h] = q /\ ~q.here
    BY <1>1, <2>1 DEF ServerCopy, NoRow
  <2> QED BY <1>0, <2>2, RowTakesCounted
<1>2. CASE copy.kind # "other"
  <2> DEFINE r == rows[h]
             fs == Rebased(r, copy)
             q == OnTopOf(r, etag, copy, fs)
  <2>1. q.here /\ q.base = copy /\ q.edits = fs
    <3>1. fs \in Seq(Edit)
      BY <1>0, RebasedType DEF Row
    <3> HIDE DEF fs, r
    <3> QED BY <1>0, <3>1, OnTopOfShows DEF r
  <2>2. rows'[h] = q
    BY <1>2 DEF ServerCopy
  <2>3. \/ fs = <<>>
        \/ fs = r.edits /\ ~Refuses(copy, r.edits)
    BY DEF Rebased
  <2>4. ~r.here => r.edits = <<>>
    BY DEF NoRow
  <2>5. copy.due + Completes(fs, Len(fs)) <= Completed(h)
        /\ (srv[h].live /\ srv[h].body.kind = "todo" =>
              srv[h].body.due + Completes(fs, Len(fs)) <= Completed(h))
    <3>1. copy.due <= Completed(h) /\ srv[h].body.due <= Completed(h)
      BY DEF Counted, RowCounted
    <3>2. CASE fs = <<>>
      <4>1. Len(fs) = 0 /\ Completes(fs, 0) = 0
        <5>1. Len(fs) = 0
          BY <3>2
        <5> HIDE DEF fs
        <5> QED BY <5>1, CompletesType
      <4> HIDE DEF fs
      <4> QED BY <1>0, <3>1, <4>1
    <3>3. CASE fs # <<>>
      <4>1. fs = r.edits /\ r.here /\ ~Refuses(copy, r.edits)
        BY <2>3, <2>4, <3>3
      <4>2. Completes(fs, Len(fs)) = Unapplied(h)
        BY <4>1 DEF Unapplied
      <4>3. CASE copy.kind = "todo"
        <5>1. /\ copy.due + Unapplied(h) <= Completed(h)
              /\ srv[h].live /\ srv[h].body.kind = "todo" =>
                   srv[h].body.due + Unapplied(h) <= Completed(h)
          BY <1>0, <4>1, <4>3 DEF Counted, RowCounted
        <5> HIDE DEF fs
        <5> QED BY <4>2, <5>1
      <4>4. CASE copy.kind # "todo"
        <5>1. copy.kind = "broken"
          BY <1>2, <4>4 DEF Body, Kinds
        <5>2. Positions(r.edits, "complete") = {}
          BY <4>1, <5>1 DEF Refuses
        <5>3. Unapplied(h) = 0
          BY <5>2, FS_EmptySet DEF Unapplied, Completes, Positions
        <5> HIDE DEF fs
        <5> QED BY <1>0, <3>1, <4>2, <5>3
      <4> QED BY <4>3, <4>4
    <3> QED BY <3>2, <3>3
  <2> HIDE DEF q, fs, r
  <2> QED BY <1>0, <2>1, <2>2, <2>5, RowTakesCounted
<1> QED BY <1>1, <1>2

\* A step that writes rows by what the server answered.
LEMMA SettledCounted ==
  ASSUME EditInvariant, AdvancesCounted, UNCHANGED <<srv, accepted, phoneDone>>,
         \A h \in Hrefs : RowCounted(h)', Hand' \subseteq Hand,
         fetched' = {}, ans'[Loop].kind # "copy", ~Taken'
  PROVE  AdvancesCounted'
<1>1. CopiesCounted'
  BY DEF AdvancesCounted, CopiesCounted, Completed
<1>2. TakenStands'
  BY DEF TakenStands
<1> QED BY <1>1, <1>2 DEF AdvancesCounted

\* A row nothing was taken of is not written.
LEMMA UntakenCounted ==
  ASSUME TypeOK, WriteInHand, NEW h \in Hrefs, RowCounted(h), ~(Taken /\ cur[Loop].href = h),
         UNCHANGED <<rows[h], srv[h], accepted[h], phoneDone[h]>>,
         ~(Taken' /\ cur'[Loop].href = h)
  PROVE  RowCounted(h)'
<1>1. OnServer(h) = 0
  <2>1. IsFiniteSet(accepted[h])
    BY DEF RowCounted
  <2> QED BY <2>1, CountTypes
<1>2. OnServer(h)' = Completes(rows[h].edits, 0)
  BY DEF OnServer
<1>3. OnServer(h)' = OnServer(h)
  BY <1>1, <1>2, CompletesType
<1> QED BY <1>3, RowCountedStays

LEMMA AfterWriteCounted ==
  ASSUME EditInvariant, AdvancesCounted, pc[Loop] \in Writing, NEW g \in Hrefs, g = cur[Loop].href,
         RowCounted(g)', \A h \in Hrefs \ {g} : rows'[h] = rows[h],
         UNCHANGED <<srv, accepted, phoneDone, fetched>>,
         Hand' \subseteq todo[Loop], ans'[Loop].kind # "copy", ~Taken'
  PROVE  AdvancesCounted'
<1>0. /\ TypeOK /\ WriteInHand /\ PullTold /\ \A h \in Hrefs : RowCounted(h)
  BY EditParts, AloneParts DEF SyncInvariant, RoundTold, AdvancesCounted
<1>1. ASSUME NEW h \in Hrefs \ {g}
      PROVE  RowCounted(h)'
  <2>1. ~(Taken /\ cur[Loop].href = h)
    OBVIOUS
  <2> QED BY <1>0, <2>1, UntakenCounted
<1>2. fetched' = {}
  BY <1>0, NothingFetched DEF Writing
<1>3. Hand' \subseteq Hand
  BY DEF Hand
<1> QED BY <1>1, <1>2, <1>3, SettledCounted

LEMMA GoneCounted ==
  ASSUME EditInvariant, AdvancesCounted,
         ApplyDeleted(Loop) \/ ApplyMissing(Loop) \/ ApplyGone(Loop)
  PROVE  AdvancesCounted'
<1>0. TypeOK /\ WriteInHand /\ \A h \in Hrefs : RowCounted(h)
  BY EditParts, AloneParts DEF SyncInvariant, AdvancesCounted
<1>1. /\ pc[Loop] \in {"sent", "resent", "refetched"} /\ Done(Loop)
      /\ UNCHANGED <<srv, accepted, phoneDone, fetched>>
      /\ ans[Loop].kind \in {"deleted", "missing"}
  BY DEF ApplyDeleted, ApplyMissing, ApplyGone, At, server, pull, ghosts
<1>2. PICK g \in Hrefs : g = cur[Loop].href /\ pc[Loop] \in Writing
  BY <1>0, <1>1, HandType DEF Writing
<1>3. Hand' \subseteq todo[Loop] /\ ans'[Loop].kind # "copy" /\ ~Taken' /\ ~Taken
  BY <1>0, <1>1, DoneLeaves DEF Taken
<1>4. UNCHANGED rows \/ Forget(g)
  BY <1>2 DEF ApplyDeleted, ApplyMissing, ApplyGone
<1>5. CASE UNCHANGED rows
  <2>1. RowCounted(g)'
    BY <1>0, <1>1, <1>2, <1>3, <1>5, UntakenCounted
  <2> QED BY <1>1, <1>2, <1>3, <1>5, <2>1, AfterWriteCounted
<1>6. CASE Forget(g)
  <2>1. rows \in [Hrefs -> Row]
    BY <1>0 DEF TypeOK
  <2>2. rows'[g] = NoRow /\ \A h \in Hrefs \ {g} : rows'[h] = rows[h]
    BY <1>6, <2>1 DEF Forget
  <2>3. RowCounted(g)'
    <3>1. PICK q : q = rows'[g]
      OBVIOUS
    <3>2. ~q.here
      BY <2>2, <3>1 DEF NoRow
    <3>3. Completed(g) \in Nat /\ srv[g].body.due \in Nat
      BY <1>0, CountTypes DEF RowCounted
    <3> QED BY <1>0, <1>1, <1>3, <3>1, <3>2, <3>3, RowTakesCounted
  <2> QED BY <1>1, <1>2, <1>3, <2>2, <2>3, AfterWriteCounted
<1> QED BY <1>4, <1>5, <1>6

LEMMA RebasedCounted ==
  ASSUME EditInvariant, AdvancesCounted, Rebase(Loop)
  PROVE  AdvancesCounted'
<1>0. /\ TypeOK /\ WriteInHand /\ RowsKnown /\ CopiesCounted /\ \A h \in Hrefs : RowCounted(h)
  BY EditParts, AloneParts DEF SyncInvariant, StoreTold, AdvancesCounted
<1> DEFINE a == ans[Loop]
<1>1. /\ pc[Loop] = "refetched" /\ a.kind = "copy"
      /\ UNCHANGED <<srv, accepted, phoneDone, fetched, todo>>
  BY DEF Rebase, At, server, pull, ghosts
<1>2. PICK g \in Hrefs : g = cur[Loop].href /\ pc[Loop] \in Writing
  BY <1>0, <1>1, HandType DEF Writing
<1>3. /\ rows \in [Hrefs -> Row] /\ pc'[Loop] = "reread" /\ ans'[Loop].kind = "none"
  BY <1>0, WorkersAssumption DEF TypeOK, Rebase, Goto, Says
<1>4. /\ rows'[g] = ServerCopy(rows[g], a.etag, a.body)
      /\ \A h \in Hrefs \ {g} : rows'[h] = rows[h]
  BY <1>2, <1>3 DEF Rebase
<1>5. Hand' \subseteq todo[Loop] /\ ans'[Loop].kind # "copy" /\ ~Taken' /\ ~Taken
  BY <1>1, <1>3 DEF Hand, Taken, Writing
<1>6. /\ OnServer(g) = 0 /\ Counted(g, a.body, 0) /\ a.etag \in Nat /\ a.body \in Body
      /\ ~rows[g].here => rows[g] = NoRow
  <2>1. OnServer(g) = 0
    <3>1. IsFiniteSet(accepted[g])
      BY <1>0 DEF RowCounted
    <3> QED BY <1>0, <1>5, <3>1, CountTypes
  <2>2. Counted(g, a.body, OnServer(g))
    BY <1>0, <1>1, <1>2 DEF CopiesCounted
  <2> QED BY <1>0, <2>1, <2>2, LoopTypes DEF RowsKnown
<1>7. RowCounted(g)'
  <2> HIDE DEF a
  <2> QED BY <1>0, <1>1, <1>4, <1>5, <1>6, RowTurnsCounted
<1> QED BY <1>1, <1>2, <1>4, <1>5, <1>7, AfterWriteCounted

LEMMA PulledCounted ==
  ASSUME EditInvariant, AdvancesCounted, StoreFetched \/ Finish
  PROVE  AdvancesCounted'
<1>0. /\ TypeOK /\ WriteInHand /\ HandSound /\ RowsKnown /\ CopiesCounted
      /\ \A h \in Hrefs : RowCounted(h)
  BY EditParts, AloneParts DEF SyncInvariant, RoundTold, StoreTold, AdvancesCounted
<1>1. /\ pc[Loop] \in {"store", "finish"} /\ fetched' = {} /\ UNCHANGED <<accepted, phoneDone, srv>>
  BY DEF StoreFetched, Finish, At, ForgetPull, server, ghosts
<1>2. /\ pc'[Loop] \in {"finish", "idle"} /\ ans'[Loop].kind = "none" /\ todo'[Loop] = {}
  <2>1. /\ pc \in [Workers -> Steps] /\ todo \in [Workers -> SUBSET Pending] /\ Loop \in Workers
        /\ ans \in [Workers -> Answer]
    BY <1>0, WorkersAssumption DEF TypeOK
  <2>2. todo[Loop] = {} /\ ans[Loop].kind = "none"
    BY <1>0, <1>1 DEF HandSound, Writing
  <2> QED BY <2>1, <2>2 DEF StoreFetched, Finish, Leave, Goto, Says
<1>3. Hand' = {} /\ ~Taken' /\ ans'[Loop].kind # "copy" /\ ~Taken
  BY <1>1, <1>2, NothingTaken DEF Writing, Taken
<1>4. ASSUME NEW h \in Hrefs
      PROVE  RowCounted(h)'
  <2>0. OnServer(h) = 0 /\ Completed(h) \in Nat /\ srv[h].body.due \in Nat
    <3>1. IsFiniteSet(accepted[h])
      BY <1>0 DEF RowCounted
    <3> QED BY <1>0, <1>3, <3>1, CountTypes
  <2>1. CASE rows'[h] = rows[h]
    BY <1>0, <1>1, <1>3, <2>1, UntakenCounted
  <2>2. CASE StoreFetched /\ \E f \in fetched : f.href = h
    <3> DEFINE f == CHOOSE g \in fetched : g.href = h
    <3>1. f \in fetched /\ f.href = h
      BY <2>2
    <3>2. rows'[h] = ServerCopy(rows[h], f.etag, f.body)
      BY <2>2 DEF StoreFetched
    <3> HIDE DEF f
    <3>3. /\ Counted(h, f.body, 0) /\ f.etag \in Nat /\ f.body \in Body
          /\ ~rows[h].here => rows[h] = NoRow
      BY <1>0, <3>1, LoopTypes DEF CopiesCounted, RowsKnown
    <3> QED BY <1>0, <1>1, <1>3, <2>0, <3>2, <3>3, RowTurnsCounted
  <2>3. CASE Finish /\ h \in Gone(delta, known)
    <3>1. PICK q : q = rows'[h]
      OBVIOUS
    <3>2. ~q.here
      BY <2>3, <3>1 DEF Finish, NoRow
    <3> QED BY <1>0, <1>1, <1>3, <2>0, <3>1, <3>2, RowTakesCounted
  <2>4. \/ rows'[h] = rows[h]
        \/ StoreFetched /\ \E f \in fetched : f.href = h
        \/ Finish /\ h \in Gone(delta, known)
    <3>1. CASE StoreFetched
      BY <3>1 DEF StoreFetched
    <3>2. CASE Finish
      BY <3>2 DEF Finish
    <3> QED BY <3>1, <3>2
  <2> QED BY <2>1, <2>2, <2>3, <2>4
<1> QED BY <1>1, <1>3, <1>4, SettledCounted

\* A row whose write is believed: what was taken is in the base, and what the
\* server has is counted without it.
LEMMA RowAdvancesCounted ==
  ASSUME TypeOK, WriteInHand, NEW p \in Pending, p = cur[Loop], Taken, rows[p.href].here,
         WriteMade(p), p.op # "delete", RowCounted(p.href),
         NEW etag \in Nat, NEW copy \in Body, Counted(p.href, copy, OnServer(p.href)),
         ~Refuses(copy, Unsent(rows[p.href], p)),
         rows'[p.href] = OnTopOf(rows[p.href], etag, copy, Unsent(rows[p.href], p)),
         ~Taken', UNCHANGED <<srv, accepted, phoneDone>>
  PROVE  RowCounted(p.href)'
<1> DEFINE h == p.href
           r == rows[h]
           es == r.edits
           fs == Unsent(r, p)
           q == OnTopOf(r, etag, copy, fs)
<1>0. /\ h \in Hrefs /\ r \in Row /\ es \in Seq(Edit) /\ Len(es) \in Nat /\ p.sent \in Nat
      /\ fs \in Seq(Edit) /\ p.sent <= Len(es) /\ copy.due \in Nat
  <2>1. r \in Row
    BY LoopTypes DEF Pending
  <2>2. p.sent <= Len(es)
    BY DEF WriteMade
  <2>3. copy.due \in Nat
    BY DEF Body
  <2> QED BY <2>1, <2>2, <2>3, UnsentType DEF Pending, Row
<1>1. /\ Completed(h) \in Nat /\ Unapplied(h) \in Nat /\ OnServer(h) \in Nat /\ srv[h].body.due \in Nat
  BY <1>0, CountTypes DEF RowCounted
<1>2. /\ q.here /\ q.base = copy /\ q.edits = fs
  <2> HIDE DEF fs, r
  <2> QED BY <1>0, OnTopOfShows
<1>3. /\ Len(fs) = Len(es) - p.sent /\ Len(fs) \in Nat
      /\ \A i \in 1 .. Len(es) - p.sent : fs[i] = es[p.sent + i]
  <2>1. fs = SubSeq(es, p.sent + 1, Len(es))
    BY DEF Unsent
  <2> HIDE DEF fs, es
  <2> QED BY <1>0, <2>1
<1>4. Completes(fs, Len(fs)) + OnServer(h) = Unapplied(h)
  <2>1. OnServer(h) = Completes(es, p.sent) /\ Unapplied(h) = Completes(es, Len(es))
    BY DEF OnServer, Unapplied
  <2> HIDE DEF fs, es
  <2>2. Completes(fs, Len(es) - p.sent) + Completes(es, p.sent) = Completes(es, Len(es))
    <3>1. PICK n \in Nat, s \in Nat : n = Len(es) /\ s = p.sent
      BY <1>0
    <3>2. s <= n /\ \A i \in 1 .. n - s : fs[i] = es[s + i]
      BY <1>0, <1>3, <3>1
    <3>3. Completes(fs, n - s) + Completes(es, s) = Completes(es, n)
      BY ONLY <3>2, s \in Nat, n \in Nat, CompletesRest
    <3> QED BY <3>1, <3>3
  <2> QED BY <1>3, <2>1, <2>2
<1>5. Completes(fs, Len(fs)) \in Nat
  BY <1>3, CompletesType
<1>6. copy.due + Completes(fs, Len(fs)) <= Completed(h)
  <2>1. CASE copy.kind = "todo"
    <3>1. copy.due + Unapplied(h) <= Completed(h) + OnServer(h)
      BY <2>1 DEF Counted
    <3> HIDE DEF fs, h
    <3> QED BY <1>0, <1>1, <1>4, <1>5, <3>1
  <2>2. CASE copy.kind # "todo"
    <3>1. copy.kind = "broken" /\ Positions(fs, "complete") = {}
      BY <2>2 DEF Refuses, Body, Kinds
    <3>2. Completes(fs, Len(fs)) = 0
      BY <3>1, FS_EmptySet DEF Completes, Positions
    <3>3. copy.due <= Completed(h)
      BY DEF Counted
    <3> HIDE DEF fs, h
    <3> QED BY <1>0, <1>1, <3>2, <3>3
  <2> QED BY <2>1, <2>2
<1>7. srv[h].live /\ srv[h].body.kind = "todo" =>
        srv[h].body.due + Completes(fs, Len(fs)) <= Completed(h)
  <2>1. srv[h].live /\ srv[h].body.kind = "todo" =>
          srv[h].body.due + Unapplied(h) <= Completed(h) + OnServer(h)
    BY DEF RowCounted, Counted
  <2> HIDE DEF fs, h
  <2> QED BY <1>1, <1>4, <1>5, <2>1
<1>8. rows'[h] = q
  OBVIOUS
<1> HIDE DEF q, fs, r, es, h
<1>9. RowCounted(h)
  BY DEF h
<1>10. RowCounted(h)'
  BY <1>0, <1>1, <1>2, <1>6, <1>7, <1>8, <1>9, RowTakesCounted
<1> QED BY <1>10 DEF h

LEMMA StoredCounted ==
  ASSUME EditInvariant, AdvancesCounted, ApplyStored(Loop) \/ ApplyConfirmed(Loop)
  PROVE  AdvancesCounted'
<1>0. /\ TypeOK /\ WriteInHand /\ HandMade /\ CopiesFit /\ TakenGrown
      /\ CopiesCounted /\ TakenStands /\ \A h \in Hrefs : RowCounted(h)
  BY EditParts, AloneParts DEF SyncInvariant, AdvancesCounted
<1> DEFINE a == ans[Loop]
<1>1. /\ pc[Loop] \in {"sent", "confirmed"} /\ Done(Loop) /\ Taken
      /\ UNCHANGED <<srv, accepted, phoneDone, fetched>>
  BY DEF ApplyStored, ApplyConfirmed, At, Taken, server, pull, ghosts
<1>2. PICK p \in Pending, g \in Hrefs : p = cur[Loop] /\ g = p.href /\ p \in Hand /\ pc[Loop] \in Writing
  BY <1>0, <1>1, HandType DEF Hand, Writing
<1>3. Hand' \subseteq todo[Loop] /\ ans'[Loop].kind # "copy" /\ ~Taken'
  BY <1>0, <1>1, DoneLeaves
<1>4. /\ Completed(g) \in Nat /\ Unapplied(g) \in Nat /\ OnServer(g) \in Nat
      /\ srv[g].body.due \in Nat /\ rows[g].base.due \in Nat
  BY <1>0, CountTypes DEF RowCounted
<1>5. WriteMade(p) /\ p.op # "delete" /\ p.sent \in Nat
  BY <1>0, <1>1, <1>2 DEF HandMade, TakenGrown, Pending
<1>6. \/ UNCHANGED rows /\ (Spoilt(g) \/ ~srv[g].live)
      \/ \E copy \in Body :
           /\ Pushed(p, a.etag, copy) /\ a.etag \in Nat
           /\ copy.kind # "todo" => Spoilt(g)
           /\ rows[g].here => Counted(g, copy, OnServer(g))
  <2>1. CASE ApplyStored(Loop)
    <3>1. Pushed(p, a.etag, p.body) /\ p.body \in Body /\ a.etag \in Nat
      BY <1>0, <1>2, <2>1, LoopTypes DEF ApplyStored, Pending
    <3>2. p.body.kind # "todo" => Spoilt(g)
      BY <1>0, <1>1, <1>2 DEF TakenStands
    <3>3. rows[g].here => Counted(g, p.body, OnServer(g))
      <4> SUFFICES ASSUME rows[g].here
                   PROVE  Counted(g, p.body, OnServer(g))
        OBVIOUS
      <4>1. p.body.due = rows[g].base.due + OnServer(g)
        BY <1>1, <1>2, <1>5 DEF WriteMade, OnServer
      <4>2. rows[g].base.due + Unapplied(g) <= Completed(g)
        BY <1>0 DEF RowCounted
      <4>3. p.body.due <= Completed(g)
        BY <1>0, <1>2, <1>5 DEF CopiesCounted
      <4> QED BY <1>4, <4>1, <4>2, <4>3 DEF Counted
    <3> QED BY <3>1, <3>2, <3>3
  <2>2. CASE ApplyConfirmed(Loop) /\ a.kind = "copy"
    <3>1. Pushed(p, a.etag, a.body) /\ a.body \in Body /\ a.etag \in Nat
      BY <1>0, <1>2, <2>2, LoopTypes DEF ApplyConfirmed
    <3>2. a.body.kind # "todo" => Spoilt(g)
      BY <1>0, <1>2, <2>2 DEF CopiesFit, Told
    <3>3. Counted(g, a.body, OnServer(g))
      BY <1>0, <1>2, <2>2 DEF CopiesCounted
    <3> QED BY <3>1, <3>2, <3>3
  <2>3. CASE ApplyConfirmed(Loop) /\ a.kind # "copy"
    BY <1>0, <1>1, <1>2, <2>3 DEF ApplyConfirmed, At, TakenStands
  <2> QED BY <2>1, <2>2, <2>3
<1>7. CASE UNCHANGED rows /\ (Spoilt(g) \/ ~srv[g].live \/ ~rows[g].here)
  <2>1. RowCounted(g)'
    <3>1. PICK q : q = rows[g]
      OBVIOUS
    <3>2. rows'[g] = q
      BY <1>7, <3>1
    <3>3. q.here => q.base.due + Completes(q.edits, Len(q.edits)) <= Completed(g)
      BY <1>0, <3>1 DEF RowCounted, Unapplied
    <3>4. ~(q.here /\ srv[g].live /\ srv[g].body.kind = "todo")
      BY <1>7, <3>1 DEF Spoilt
    <3> QED BY <1>0, <1>1, <1>3, <1>4, <3>2, <3>3, <3>4, RowTakesCounted
  <2> QED BY <1>1, <1>2, <1>3, <1>7, <2>1, AfterWriteCounted
<1>8. ASSUME NEW copy \in Body,
             Pushed(p, a.etag, copy), a.etag \in Nat, copy.kind # "todo" => Spoilt(g),
             rows[g].here => Counted(g, copy, OnServer(g))
      PROVE  AdvancesCounted'
  <2>1. CASE rows[g].here /\ ~Refuses(copy, Unsent(rows[g], p))
    <3> DEFINE q == OnTopOf(rows[g], a.etag, copy, Unsent(rows[g], p))
    <3>1. rows' = [rows EXCEPT ![g] = q]
      BY <1>2, <1>8, <2>1 DEF Pushed
    <3>2. rows \in [Hrefs -> Row]
      BY <1>0 DEF TypeOK
    <3> HIDE DEF q
    <3>3. rows'[g] = q /\ \A h \in Hrefs \ {g} : rows'[h] = rows[h]
      BY <1>2, <3>1, <3>2
    <3>4. RowCounted(g)'
      <4>1. /\ rows[p.href].here /\ ~Refuses(copy, Unsent(rows[p.href], p))
            /\ Counted(p.href, copy, OnServer(p.href)) /\ RowCounted(p.href)
            /\ rows'[p.href] = OnTopOf(rows[p.href], a.etag, copy, Unsent(rows[p.href], p))
        BY <1>0, <1>2, <1>8, <2>1, <3>3 DEF q
      <4> HIDE DEF a
      <4>2. RowCounted(p.href)'
        BY <1>0, <1>1, <1>2, <1>3, <1>5, <1>8, <4>1, RowAdvancesCounted
      <4> QED BY <1>2, <4>2
    <3> QED BY <1>1, <1>2, <1>3, <3>3, <3>4, AfterWriteCounted
  <2>2. CASE ~rows[g].here \/ Refuses(copy, Unsent(rows[g], p))
    <3>1. UNCHANGED rows
      BY <1>2, <1>8, <2>2 DEF Pushed
    <3>2. Refuses(copy, Unsent(rows[g], p)) => copy.kind # "todo"
      BY DEF Refuses
    <3> QED BY <1>7, <1>8, <2>2, <3>1, <3>2
  <2> QED BY <2>1, <2>2
<1> QED BY <1>6, <1>7, <1>8

\* The server takes a write, and is as far as the row's base and what was sent.
LEMMA SendCounted ==
  ASSUME EditInvariant, AdvancesCounted, Send(Loop) \/ Redelete(Loop)
  PROVE  AdvancesCounted'
<1>0. /\ TypeOK /\ WriteInHand /\ PullTold /\ HandMade
      /\ CopiesCounted /\ \A h \in Hrefs : RowCounted(h)
  BY EditParts, AloneParts DEF SyncInvariant, RoundTold, AdvancesCounted
<1>1. PICK p : Sends(p)
  BY SendSends
<1>2. /\ p \in Pending /\ p \in Hand /\ cur'[Loop] = p /\ Hand' \subseteq Hand /\ ~Taken
      /\ UNCHANGED <<rows, accepted, phoneDone>> /\ fetched' = {} /\ WriteMade(p)
      /\ p.op # "delete" => pc'[Loop] = "sent"
      /\ pc'[Loop] \in {"sent", "resent"}
  BY <1>0, <1>1, NothingFetched DEF Sends, Taken, HandMade
<1>3. PICK g \in Hrefs : g = p.href
  BY <1>2 DEF Pending
<1>4. /\ \/ /\ ServerPut(g, p.body) /\ p.op # "delete"
            /\ ans'[Loop].kind \in {"stored", "kept"}
         \/ ServerRemove(g) /\ p.op = "delete" /\ ans'[Loop].kind = "deleted"
         \/ UNCHANGED server /\ ans'[Loop].kind \in {"conflict", "missing"}
  <2>1. \/ TakePut(Loop, p) /\ p.op # "delete"
        \/ p.op = "delete" /\ \E etag \in Nat : TakeDelete(Loop, p.href, etag)
    BY <1>1 DEF Sends
  <2> QED BY <1>0, <1>3, <2>1, WriteOutcomes
<1>5. /\ Completed(g) \in Nat /\ Unapplied(g) \in Nat /\ srv[g].body.due \in Nat
      /\ rows[g].base.due \in Nat /\ p.sent \in Nat /\ p.body.due \in Nat
      /\ srv \in [Hrefs -> Resource] /\ clock \in Nat
  BY <1>0, <1>2, CountTypes DEF RowCounted, Pending, Body, TypeOK
<1>6. CopiesCounted'
  BY <1>0, <1>2, <1>4 DEF CopiesCounted, Completed
<1>7. ASSUME NEW h \in Hrefs, srv'[h] = srv[h], h # g \/ ~Taken'
      PROVE  RowCounted(h)'
  BY <1>0, <1>2, <1>3, <1>7, UntakenCounted
<1>8. CASE ServerPut(g, p.body) /\ p.op # "delete" /\ ans'[Loop].kind \in {"stored", "kept"}
  <2>1. /\ srv'[g].live /\ srv'[g].at # 0 /\ srv'[g].body = p.body
        /\ \A h \in Hrefs \ {g} : srv'[h] = srv[h]
    BY <1>5, <1>8 DEF ServerPut
  <2>2. Taken' /\ pc'[Loop] # "confirmed"
    BY <1>2, <1>8 DEF Taken
  <2>3. OnServer(g)' = Completes(rows[g].edits, p.sent)
    BY <1>2, <1>3, <2>2 DEF OnServer
  <2>4. p.body.due <= Completed(g)
    BY <1>0, <1>2, <1>3, <1>8 DEF CopiesCounted
  <2>5. rows[g].here => p.body.due + Unapplied(g) <= Completed(g) + Completes(rows[g].edits, p.sent)
    <3>1. Completes(rows[g].edits, p.sent) \in Nat
      BY <1>5, CompletesType
    <3>2. rows[g].here => p.body.due = rows[g].base.due + Completes(rows[g].edits, p.sent)
      BY <1>2, <1>3, <1>8 DEF WriteMade
    <3>3. rows[g].here => rows[g].base.due + Unapplied(g) <= Completed(g)
      BY <1>0 DEF RowCounted
    <3> QED BY <1>5, <3>1, <3>2, <3>3
  <2>6. /\ Completed(g)' = Completed(g) /\ Unapplied(g)' = Unapplied(g)
    BY <1>2 DEF Completed, Unapplied
  <2>7. RowCounted(g)'
    <3>1. IsFiniteSet(accepted[g]) /\ (rows[g].here => rows[g].base.due + Unapplied(g) <= Completed(g))
      BY <1>0 DEF RowCounted
    <3> QED BY <1>2, <2>1, <2>3, <2>4, <2>5, <2>6, <3>1 DEF RowCounted, Counted
  <2>8. TakenStands'
    BY <1>2, <1>3, <2>1, <2>2 DEF TakenStands, Spoilt
  <2> QED BY <1>6, <1>7, <2>1, <2>7, <2>8 DEF AdvancesCounted
<1>9. CASE ans'[Loop].kind \in {"deleted", "conflict", "missing"}
  <2>1. ~Taken'
    BY <1>2, <1>9 DEF Taken
  <2>2. TakenStands'
    BY <2>1 DEF TakenStands
  <2>3. CASE UNCHANGED server
    BY <1>6, <1>7, <2>1, <2>2, <2>3 DEF AdvancesCounted, server
  <2>4. CASE ServerRemove(g)
    <3>1. /\ ~srv'[g].live /\ srv'[g].body = srv[g].body
          /\ \A h \in Hrefs \ {g} : srv'[h] = srv[h]
      BY <1>5, <2>4 DEF ServerRemove, Resource
    <3>2. RowCounted(g)'
      BY <1>0, <1>2, <3>1 DEF RowCounted, Completed, Unapplied
    <3> QED BY <1>6, <1>7, <2>2, <3>1, <3>2 DEF AdvancesCounted
  <2> QED BY <1>4, <1>9, <2>3, <2>4
<1> QED BY <1>4, <1>8, <1>9

\* A user's change is counted where it is counted for its row and its copies.
LEMMA UserCounted ==
  ASSUME EditInvariant, AdvancesCounted, NEW g \in Hrefs, UserFrame(g), RowCounted(g)',
         Completed(g) <= Completed(g)', Completed(g)' \in Nat,
         \A b \in Body : /\ Counted(g, b, OnServer(g)) => Counted(g, b, OnServer(g))'
                         /\ Counted(g, b, 0) => Counted(g, b, 0)'
  PROVE  AdvancesCounted'
<1>0. /\ TypeOK /\ WriteInHand /\ HandSound
      /\ CopiesCounted /\ TakenStands /\ \A h \in Hrefs : RowCounted(h)
  BY EditParts, AloneParts DEF SyncInvariant, RoundTold, AdvancesCounted
<1>1. /\ UNCHANGED <<srv, pc, todo, cur, ans, fetched, phoneDone>>
      /\ \A h \in Hrefs \ {g} : rows'[h] = rows[h] /\ accepted'[h] = accepted[h]
  BY DEF UserFrame
<1>2. Hand' = Hand /\ (Taken' <=> Taken)
  BY <1>1 DEF Hand, Taken
<1>3. ASSUME NEW h \in Hrefs \ {g}
      PROVE  OnServer(h)' = OnServer(h) /\ Completed(h)' = Completed(h)
  BY <1>1, <1>2 DEF OnServer, Completed
<1>4. ASSUME NEW h \in Hrefs
      PROVE  RowCounted(h)'
  <2>1. CASE h # g
    BY <1>0, <1>1, <1>3, <2>1, RowCountedStays
  <2> QED BY <2>1
<1>5. ASSUME NEW p \in Hand', p.op # "delete"
      PROVE  p.body.due <= Completed(p.href)'
  <2>1. p \in Hand /\ p.href \in Hrefs /\ p.body.due \in Nat
    BY <1>0, <1>2, <1>5, HandType DEF Pending, Body
  <2>2. p.body.due <= Completed(p.href)
    BY <1>0, <1>5, <2>1 DEF CopiesCounted
  <2>3. CASE p.href = g
    <3>1. p.body.due <= Completed(g) /\ Completed(g) \in Nat
      BY <1>0, <2>2, <2>3, CountTypes DEF RowCounted
    <3>2. p.body.due <= Completed(g)'
      BY <2>1, <3>1
    <3> QED BY <2>3, <3>2 DEF Completed
  <2>4. CASE p.href # g
    <3>1. p.href \in Hrefs \ {g}
      BY <2>1, <2>4
    <3> QED BY <1>3, <2>2, <3>1
  <2> QED BY <2>3, <2>4
<1>6. ASSUME NEW h \in Hrefs, NEW b \in Body
      PROVE  /\ Counted(h, b, OnServer(h)) => Counted(h, b, OnServer(h))'
             /\ Counted(h, b, 0) => Counted(h, b, 0)'
  <2>1. CASE h = g
    BY <2>1
  <2>2. CASE h # g
    BY <1>1, <1>3, <2>2 DEF Counted, Unapplied
  <2> QED BY <2>1, <2>2
<1>7. ans'[Loop].kind = "copy" =>
        Counted(cur[Loop].href, ans[Loop].body, OnServer(cur[Loop].href))'
  <2> SUFFICES ASSUME ans[Loop].kind = "copy"
               PROVE  Counted(cur[Loop].href, ans[Loop].body, OnServer(cur[Loop].href))'
    BY <1>1
  <2>1. pc[Loop] \in Writing
    BY <1>0 DEF HandSound
  <2>2. PICK h \in Hrefs, b \in Body : h = cur[Loop].href /\ b = ans[Loop].body
    BY <1>0, <2>1, HandType, LoopTypes
  <2>3. PICK n : n = OnServer(h)'
    OBVIOUS
  <2>4. Counted(h, b, OnServer(h))'
    BY <1>0, <1>6, <2>2 DEF CopiesCounted
  <2>5. Counted(h, b, n)'
    BY <2>3, <2>4 DEF Counted, Unapplied, Completed
  <2> QED BY <1>1, <2>2, <2>3, <2>5, AnswerCounted
<1>8. ASSUME NEW f \in fetched'
      PROVE  Counted(f.href, f.body, 0)'
  <2>1. f \in fetched /\ f.href \in Hrefs /\ f.body \in Body
    BY <1>0, <1>1, LoopTypes
  <2> QED BY <1>0, <1>6, <2>1 DEF CopiesCounted
<1>9. TakenStands'
  BY <1>0, <1>1, <1>2 DEF TakenStands, Spoilt
<1>10. CopiesCounted'
  BY <1>5, <1>7, <1>8 DEF CopiesCounted
<1> QED BY <1>4, <1>9, <1>10 DEF AdvancesCounted

\* A new task is not advanced, and nothing in it will advance it.
LEMMA CreateCounted ==
  ASSUME EditInvariant, AdvancesCounted, NEW g \in Hrefs, LocalCreate(g)
  PROVE  AdvancesCounted'
<1>0. /\ TypeOK /\ ETagsGiven /\ WriteInHand /\ RowCounted(g)
  BY EditParts, AloneParts DEF SyncInvariant, AdvancesCounted
<1> DEFINE e == [id |-> NextId, op |-> "title"]
           whole == Combined(NewBody, <<e>>)
<1>1. /\ accepted[g] = {} /\ ~srv[g].live
      /\ used' = [used EXCEPT !.local = @ + 1] /\ accepted' = [accepted EXCEPT ![g] = @ \cup {e}]
      /\ UNCHANGED <<srv, pc, todo, cur, ans, fetched, deleted, phoneDone>>
      /\ \/ rows' = [rows EXCEPT ![g] = OnTopOf(NoRow, 0, NewBody, <<e>>)]
         \/ rows' = [rows EXCEPT ![g] = OnTopOf(NoRow, 0, whole, <<>>)]
  BY <1>0 DEF LocalCreate, Unused, Local, Accept, server, push, pull, ETagsGiven
<1>2. /\ NextId' = NextId + 1 /\ e.op = "title" /\ e \in Edit /\ <<e>> \in Seq(Edit)
      /\ accepted \in [Hrefs -> SUBSET Edit] /\ rows \in [Hrefs -> Row]
  <2>1. NextId' = NextId + 1
    BY <1>0, <1>1 DEF NextId, TypeOK
  <2> QED BY <1>0, <2>1, TypeParts, OneEditType DEF TypeOK
<1>3. accepted'[g] = {e} /\ \A h \in Hrefs \ {g} : accepted'[h] = accepted[h]
  BY <1>1, <1>2
<1> HIDE DEF e
<1>4. /\ Len(<<e>>) = 1 /\ <<e>>[1] = e /\ NewBody.due = 0
      /\ Completes(<<e>>, 1) = 0 /\ Completes(<<>>, 0) = 0
  <2>1. Len(<<e>>) = 1 /\ <<e>>[1] = e
    OBVIOUS
  <2>2. {i \in 1 .. 1 : <<e>>[i].op = "complete"} = {}
    BY <1>2, <2>1
  <2>3. Completes(<<e>>, 1) = 0
    BY <2>2, FS_EmptySet DEF Completes
  <2> QED BY <2>1, <2>3, CompletesType DEF NewBody
<1>5. whole.due = 0 /\ whole \in Body /\ NewBody \in Body
  <2>1. whole.due = NewBody.due + Completes(<<e>>, Len(<<e>>))
    BY CombinedDue
  <2>2. whole \in Body /\ NewBody \in Body
    BY <1>2, NewBodyType, CombinedType
  <2> HIDE DEF whole
  <2> QED BY <1>4, <2>1, <2>2
<1> HIDE DEF whole
<1>6. PICK base \in Body, edits \in Seq(Edit) :
        /\ rows' = [rows EXCEPT ![g] = OnTopOf(NoRow, 0, base, edits)]
        /\ base.due = 0 /\ Completes(edits, Len(edits)) = 0
  <2>1. <<>> \in Seq(Edit) /\ Len(<<>>) = 0
    OBVIOUS
  <2> QED BY <1>1, <1>2, <1>4, <1>5, <2>1
<1>7. /\ rows'[g].here /\ rows'[g].base = base /\ rows'[g].edits = edits
      /\ \A h \in Hrefs \ {g} : rows'[h] = rows[h]
  <2>1. PICK q : q = OnTopOf(NoRow, 0, base, edits)
    OBVIOUS
  <2>2. q.here /\ q.base = base /\ q.edits = edits
    <3>1. ASSUME NEW r \in Row
          PROVE  LET p == OnTopOf(r, 0, base, edits) IN
                 p.here /\ p.base = base /\ p.edits = edits
      BY OnTopOfShows
    <3> QED BY <2>1, <3>1, NoRowType
  <2> QED BY <1>2, <1>6, <2>1, <2>2
<1>8. UserFrame(g)
  BY <1>1, <1>2, <1>3, <1>7 DEF UserFrame
<1>9. Unapplied(g)' = 0 /\ OnServer(g)' \in Nat
  <2>1. Unapplied(g)' = 0
    BY <1>6, <1>7 DEF Unapplied
  <2>2. Taken => cur[Loop].sent \in Nat
    <3>1. Taken => cur[Loop] \in Pending
      BY <1>0, WorkersAssumption DEF Taken, WriteInHand
    <3> QED BY <3>1 DEF Pending
  <2>3. PICK n \in Nat : n = IF Taken /\ cur[Loop].href = g THEN cur[Loop].sent ELSE 0
    BY <2>2
  <2>4. OnServer(g)' = Completes(edits, n)
    BY <1>1, <1>7, <2>3 DEF OnServer, Taken
  <2> QED BY <2>1, <2>4, CompletesType
<1>10. IsFiniteSet(accepted'[g]) /\ Completed(g)' = Completed(g) /\ Completed(g) \in Nat
       /\ srv[g].body.due \in Nat /\ OnServer(g) \in Nat
  <2>1. {f \in {e} : f.op = "complete"} = {} /\ {f \in {} : f.op = "complete"} = {}
    BY <1>2
  <2>2. IsFiniteSet({e})
    BY FS_Singleton
  <2> QED BY <1>0, <1>1, <1>3, <2>1, <2>2, CountTypes DEF Completed, RowCounted
<1>11. RowCounted(g)'
  BY <1>0, <1>1, <1>6, <1>7, <1>9, <1>10 DEF RowCounted
<1>12. ASSUME NEW b \in Body
       PROVE  /\ Counted(g, b, OnServer(g)) => Counted(g, b, OnServer(g))'
              /\ Counted(g, b, 0) => Counted(g, b, 0)'
  <2>1. b.due \in Nat
    BY DEF Body
  <2> QED BY <1>9, <1>10, <2>1 DEF Counted
<1> QED BY <1>8, <1>10, <1>11, <1>12, UserCounted

\* One more completion is one more the task may be advanced for.
LEMMA EditCounted ==
  ASSUME EditInvariant, AdvancesCounted, NEW g \in Hrefs, NEW op \in {"title", "complete"},
         LocalEdit(g, op)
  PROVE  AdvancesCounted'
<1>0. /\ TypeOK /\ WriteInHand /\ HandMade /\ TakenGrown /\ EditsGiven /\ RowCounted(g)
  BY EditParts, AloneParts DEF SyncInvariant, AdvancesCounted
<1> DEFINE e == [id |-> NextId, op |-> op]
           r == rows[g]
           q == [r EXCEPT !.edits = Append(r.edits, e), !.ics = Combined(r.ics, <<e>>)]
<1>1. /\ r.here /\ rows' = [rows EXCEPT ![g] = q]
      /\ used' = [used EXCEPT !.local = @ + 1] /\ accepted' = [accepted EXCEPT ![g] = @ \cup {e}]
      /\ UNCHANGED <<srv, pc, todo, cur, ans, fetched, deleted, phoneDone>>
  BY DEF LocalEdit, Local, Accept, server, push, pull
<1>2. /\ NextId \in Nat /\ NextId' = NextId + 1 /\ e.id = NextId /\ e \in Edit /\ r \in Row
      /\ accepted \in [Hrefs -> SUBSET Edit] /\ rows \in [Hrefs -> Row]
      /\ r.edits \in Seq(Edit) /\ Len(r.edits) \in Nat
  <2>1. e \in Edit
    BY <1>0, TypeParts, OneEditType
  <2>2. accepted \in [Hrefs -> SUBSET Edit] /\ rows \in [Hrefs -> Row] /\ r \in Row
    BY <1>0 DEF TypeOK
  <2>3. NextId' = NextId + 1
    BY <1>0, <1>1 DEF NextId, TypeOK
  <2> QED BY <1>0, <2>1, <2>2, <2>3, NextIdType DEF Row
<1> HIDE DEF e
<1>3. q.here = r.here /\ q.base = r.base /\ q.edits = Append(r.edits, e)
  BY <1>2 DEF Row
<1> HIDE DEF q
<1>4. /\ rows'[g] = q /\ \A h \in Hrefs \ {g} : rows'[h] = rows[h]
      /\ accepted'[g] = accepted[g] \cup {e} /\ \A h \in Hrefs \ {g} : accepted'[h] = accepted[h]
  BY <1>1, <1>2
<1> DEFINE d == IF e.op = "complete" THEN 1 ELSE 0
<1>5. /\ Completed(g) \in Nat /\ Unapplied(g) \in Nat /\ OnServer(g) \in Nat
      /\ srv[g].body.due \in Nat /\ r.base.due \in Nat
  BY <1>0, CountTypes DEF RowCounted
<1>6. Unapplied(g)' = Unapplied(g) + d
  BY <1>2, <1>3, <1>4, CompletesAppend DEF Unapplied
<1>7. IsFiniteSet(accepted'[g]) /\ Completed(g)' = Completed(g) + d
  <2>1. e \notin accepted[g]
    <3>1. \A f \in accepted[g] : f.id < NextId
      BY <1>0 DEF EditsGiven
    <3> QED BY <1>2, <3>1
  <2>2. /\ IsFiniteSet(accepted[g] \cup {e})
        /\ Cardinality({f \in accepted[g] : f.op = "complete"}) \in Nat
        /\ Cardinality({f \in accepted[g] \cup {e} : f.op = "complete"})
             = Cardinality({f \in accepted[g] : f.op = "complete"}) + d
    BY <1>0, <2>1, AcceptedMore DEF RowCounted
  <2>3. phoneDone[g] \in Nat
    BY <1>0 DEF TypeOK
  <2> HIDE DEF d
  <2>4. d \in Nat
    BY DEF d
  <2>5. Completed(g) = phoneDone[g] + Cardinality({f \in accepted[g] : f.op = "complete"})
        /\ Completed(g)' = phoneDone[g] + Cardinality({f \in accepted[g] \cup {e} : f.op = "complete"})
    BY <1>1, <1>4 DEF Completed
  <2> QED BY <1>4, <2>2, <2>3, <2>4, <2>5
<1>8. OnServer(g)' = OnServer(g)
  <2>1. Taken /\ cur[Loop].href = g => cur[Loop].sent \in 0 .. Len(r.edits)
    <3> SUFFICES ASSUME Taken, cur[Loop].href = g
                 PROVE  cur[Loop].sent \in 0 .. Len(r.edits)
      OBVIOUS
    <3>1. cur[Loop] \in Hand /\ cur[Loop].op # "delete"
      BY <1>0 DEF Hand, Taken, Writing, TakenGrown
    <3>2. cur[Loop].sent <= Len(r.edits) /\ cur[Loop].sent \in Nat
      BY <1>0, <1>1, <3>1, HandType DEF HandMade, WriteMade, Pending
    <3> QED BY <1>2, <3>2
  <2>2. PICK n \in 0 .. Len(r.edits) : n = IF Taken /\ cur[Loop].href = g THEN cur[Loop].sent ELSE 0
    BY <1>2, <2>1
  <2>3. OnServer(g) = Completes(r.edits, n)
    BY <2>2 DEF OnServer
  <2>4. OnServer(g)' = Completes(q.edits, n)
    BY <1>1, <1>4, <2>2 DEF OnServer, Taken
  <2>5. n \in Nat /\ \A i \in 1 .. n : q.edits[i] = r.edits[i]
    BY <1>2, <1>3, AppendProperties
  <2> HIDE DEF r
  <2>6. Completes(q.edits, n) = Completes(r.edits, n)
    BY <2>5, CompletesSame
  <2> QED BY <2>3, <2>4, <2>6
<1>9. d \in Nat
  OBVIOUS
<1> HIDE DEF d
<1>10. ASSUME NEW b \in Body, NEW n \in Nat, Counted(g, b, n)
       PROVE  Counted(g, b, n)'
  <2>1. b.due \in Nat
    BY DEF Body
  <2> QED BY <1>1, <1>5, <1>6, <1>7, <1>9, <1>10, <2>1 DEF Counted
<1>11. RowCounted(g)'
  <2>1. srv[g].body.due <= Completed(g)'
    BY <1>0, <1>5, <1>7, <1>9 DEF RowCounted
  <2>2. srv[g].live => Counted(g, srv[g].body, OnServer(g))'
    <3>1. srv[g].live => Counted(g, srv[g].body, OnServer(g))
      BY <1>0 DEF RowCounted
    <3> QED BY <1>1, <1>5, <1>6, <1>7, <1>8, <1>9, <3>1 DEF Counted
  <2>3. q.base.due + Unapplied(g)' <= Completed(g)'
    <3>1. r.base.due + Unapplied(g) <= Completed(g)
      BY <1>0, <1>1 DEF RowCounted
    <3> QED BY <1>3, <1>5, <1>6, <1>7, <1>9, <3>1
  <2> QED BY <1>1, <1>4, <1>7, <2>1, <2>2, <2>3 DEF RowCounted
<1>12. UserFrame(g)
  BY <1>1, <1>2, <1>4 DEF UserFrame
<1>13. ASSUME NEW b \in Body
       PROVE  /\ Counted(g, b, OnServer(g)) => Counted(g, b, OnServer(g))'
              /\ Counted(g, b, 0) => Counted(g, b, 0)'
  <2>1. \A n \in Nat : Counted(g, b, n) => Counted(g, b, n)'
    BY <1>10
  <2>2. PICK n \in Nat : n = OnServer(g)
    BY <1>5
  <2>3. Counted(g, b, OnServer(g)) => Counted(g, b, OnServer(g))'
    BY <1>8, <2>1, <2>2 DEF Counted
  <2> QED BY <2>1, <2>3
<1>14. Completed(g) <= Completed(g)' /\ Completed(g)' \in Nat
  BY <1>5, <1>7, <1>9
<1> QED BY <1>11, <1>12, <1>13, <1>14, UserCounted

\* The completions made of a row that is deleted were made.
LEMMA DeleteCounted ==
  ASSUME EditInvariant, AdvancesCounted, NEW g \in Hrefs, LocalDelete(g)
  PROVE  AdvancesCounted'
<1>0. TypeOK /\ WriteInHand /\ RowCounted(g)
  BY EditParts, AloneParts DEF SyncInvariant, AdvancesCounted
<1>1. /\ used' = [used EXCEPT !.local = @ + 1]
      /\ UNCHANGED <<srv, pc, todo, cur, ans, fetched, accepted, phoneDone>>
      /\ rows[g] \in Row /\ rows \in [Hrefs -> Row]
      /\ deleted \in [Hrefs -> {"no", "marked", "forgotten"}]
  BY <1>0 DEF LocalDelete, Local, server, push, pull, TypeOK
<1>2. UserFrame(g)
  <2>1. NextId' = NextId + 1
    BY <1>0, <1>1 DEF NextId, TypeOK
  <2>2. \A h \in Hrefs \ {g} : rows'[h] = rows[h] /\ deleted'[h] = deleted[h]
    BY <1>1 DEF LocalDelete, Forget
  <2> QED BY <1>1, <2>1, <2>2 DEF UserFrame
<1>3. \/ ~rows'[g].here
      \/ /\ rows[g].here /\ rows'[g].base = rows[g].base /\ rows'[g].edits = rows[g].edits
  <2>1. CASE rows[g].etag = 0
    BY <1>1, <2>1 DEF LocalDelete, Forget, NoRow
  <2>2. CASE rows[g].etag # 0
    <3> DEFINE q == [rows[g] EXCEPT !.deleted = TRUE]
    <3>1. rows' = [rows EXCEPT ![g] = q] /\ rows[g].here
      BY <2>2 DEF LocalDelete
    <3>2. q.base = rows[g].base /\ q.edits = rows[g].edits
      BY <1>1 DEF Row
    <3> HIDE DEF q
    <3> QED BY <1>1, <3>1, <3>2
  <2> QED BY <2>1, <2>2
<1>4. Completed(g)' = Completed(g) /\ Completed(g) \in Nat
  BY <1>0, <1>1, CountTypes DEF Completed, RowCounted
<1>5. rows'[g].here => Unapplied(g)' = Unapplied(g) /\ OnServer(g)' = OnServer(g)
  BY <1>1, <1>3 DEF Unapplied, OnServer, Taken
<1>6. RowCounted(g)'
  BY <1>0, <1>1, <1>3, <1>4, <1>5 DEF RowCounted, Counted
<1>7. \A b \in Body : /\ Counted(g, b, OnServer(g)) => Counted(g, b, OnServer(g))'
                      /\ Counted(g, b, 0) => Counted(g, b, 0)'
  BY <1>3, <1>4, <1>5 DEF Counted
<1> QED BY <1>2, <1>4, <1>6, <1>7, UserCounted

\* What the phone writes is as far as what was there, and further only by what
\* the phone completed.
LEMMA PhoneCounted ==
  ASSUME EditInvariant, AdvancesCounted, PhoneStep
  PROVE  AdvancesCounted'
<1>0. /\ TypeOK /\ ETagsGiven /\ WriteInHand /\ HandSound /\ AnswersTold
      /\ CopiesCounted /\ TakenStands /\ \A h \in Hrefs : RowCounted(h)
  BY EditParts, AloneParts DEF SyncInvariant, RoundTold, AdvancesCounted
<1>1. PICK g \in Hrefs : PhoneWrites(g)
  BY <1>0, PhoneStepWrites
<1>2. /\ UNCHANGED <<rows, pc, todo, cur, ans, fetched, accepted>>
      /\ srv'[g].at = clock + 1 /\ phoneDone[g] <= phoneDone'[g]
      /\ \A h \in Hrefs \ {g} : srv'[h] = srv[h] /\ phoneDone'[h] = phoneDone[h]
      /\ IF srv[g].live THEN srv'[g].body.due + phoneDone[g] = srv[g].body.due + phoneDone'[g]
                        ELSE srv'[g].body.due = 0
  BY <1>1 DEF PhoneWrites
<1>3. /\ ~srv[g].live => srv[g].at = 0 /\ ~rows[g].here
      /\ srv'[g].live /\ srv[g].live /\ srv'[g].body.kind = "todo" => srv[g].body.kind = "todo"
      /\ srv[g].at # 0 => \/ ~srv'[g].live
                          \/ srv[g].body.kind # "todo" => srv'[g].body.kind # "todo"
  BY <1>0, <1>1 DEF PhoneWrites, Unused, ETagsGiven
<1>4. Hand' = Hand /\ (Taken' <=> Taken)
  BY <1>2 DEF Hand, Taken
<1>5. phoneDone[g] \in Nat /\ phoneDone'[g] \in Nat /\ clock \in Nat /\ srv'[g].body.due \in Nat
  <2>1. TypeOK'
    BY <1>0, OutsideStepType
  <2>2. srv'[g].body \in Body
    BY <2>1 DEF TypeOK, Resource
  <2> QED BY <1>0, <2>1, <2>2 DEF TypeOK, Body
<1>6. ASSUME NEW h \in Hrefs
      PROVE  /\ Completed(h) \in Nat /\ Completed(h)' \in Nat /\ Completed(h) <= Completed(h)'
             /\ Unapplied(h)' = Unapplied(h) /\ OnServer(h)' = OnServer(h)
             /\ Unapplied(h) \in Nat /\ OnServer(h) \in Nat
             /\ srv[h].body.due \in Nat /\ rows[h].base.due \in Nat
             /\ h # g => Completed(h)' = Completed(h)
             /\ Completed(h)' + phoneDone[h] = Completed(h) + phoneDone'[h]
  <2>1. /\ Completed(h) \in Nat /\ Unapplied(h) \in Nat /\ OnServer(h) \in Nat
        /\ srv[h].body.due \in Nat /\ rows[h].base.due \in Nat
    BY <1>0, CountTypes DEF RowCounted
  <2>2. Unapplied(h)' = Unapplied(h) /\ OnServer(h)' = OnServer(h)
    BY <1>2, <1>4 DEF Unapplied, OnServer
  <2> DEFINE n == Cardinality({e \in accepted[h] : e.op = "complete"})
  <2>3. Completed(h) = phoneDone[h] + n /\ Completed(h)' = phoneDone'[h] + n
    BY <1>2 DEF Completed
  <2>4. n \in Nat
    <3> DEFINE S == {e \in accepted[h] : e.op = "complete"}
    <3>1. S \in SUBSET accepted[h] /\ IsFiniteSet(accepted[h])
      BY <1>0 DEF RowCounted
    <3> HIDE DEF S
    <3>2. Cardinality(S) \in Nat
      BY <3>1, FS_Subset, FS_CardinalityType
    <3> QED BY <3>2 DEF S
  <2> HIDE DEF n
  <2>5. phoneDone[h] \in Nat /\ phoneDone'[h] \in Nat /\ phoneDone[h] <= phoneDone'[h]
        /\ (h # g => phoneDone'[h] = phoneDone[h])
    BY <1>0, <1>2, <1>5 DEF TypeOK
  <2> QED BY <2>1, <2>2, <2>3, <2>4, <2>5
<1>7. ASSUME NEW h \in Hrefs, NEW b \in Body, NEW n \in Nat, Counted(h, b, n)
      PROVE  Counted(h, b, n)'
  <2>1. b.due \in Nat
    BY DEF Body
  <2> QED BY <1>2, <1>6, <1>7, <2>1 DEF Counted
<1>8. RowCounted(g)'
  <2>1. /\ RowCounted(g) /\ srv[g].body.due <= Completed(g)
        /\ rows[g].here => rows[g].base.due + Unapplied(g) <= Completed(g)
    BY <1>0 DEF RowCounted
  <2>2. srv'[g].body.due <= Completed(g)'
    <3>1. CASE srv[g].live
      BY <1>2, <1>5, <1>6, <2>1, <3>1
    <3>2. CASE ~srv[g].live
      BY <1>2, <1>6, <3>2
    <3> QED BY <3>1, <3>2
  <2>3. srv'[g].live /\ rows[g].here /\ srv'[g].body.kind = "todo" =>
          srv'[g].body.due + Unapplied(g) <= Completed(g)' + OnServer(g)
    <3> SUFFICES ASSUME srv'[g].live, rows[g].here, srv'[g].body.kind = "todo"
                 PROVE  srv'[g].body.due + Unapplied(g) <= Completed(g)' + OnServer(g)
      OBVIOUS
    <3>1. srv[g].live /\ srv[g].body.kind = "todo"
      BY <1>3
    <3>2. srv[g].body.due + Unapplied(g) <= Completed(g) + OnServer(g)
      BY <2>1, <3>1 DEF RowCounted, Counted
    <3>3. srv'[g].body.due + phoneDone[g] = srv[g].body.due + phoneDone'[g]
      BY <1>2, <3>1
    <3> QED BY <1>5, <1>6, <3>2, <3>3
  <2>4. rows[g].here => rows[g].base.due + Unapplied(g) <= Completed(g)'
    BY <1>6, <2>1
  <2> QED BY <1>2, <1>6, <2>1, <2>2, <2>3, <2>4 DEF RowCounted, Counted
<1>9. ASSUME NEW h \in Hrefs
      PROVE  RowCounted(h)'
  <2>1. CASE h # g
    BY <1>0, <1>2, <1>6, <2>1, RowCountedStays
  <2> QED BY <1>8, <2>1
<1>10. ASSUME NEW p \in Hand', p.op # "delete"
       PROVE  p.body.due <= Completed(p.href)'
  <2>1. p \in Hand /\ p.href \in Hrefs /\ p.body.due \in Nat
    BY <1>0, <1>4, <1>10, HandType DEF Pending, Body
  <2>2. p.body.due <= Completed(p.href)
    BY <1>0, <1>10, <2>1 DEF CopiesCounted
  <2>3. PICK h \in Hrefs : h = p.href
    BY <2>1
  <2>4. p.body.due <= Completed(h)'
    BY <1>6, <2>1, <2>2, <2>3
  <2> QED BY <2>3, <2>4 DEF Completed
<1>11. ans'[Loop].kind = "copy" =>
         Counted(cur[Loop].href, ans[Loop].body, OnServer(cur[Loop].href))'
  <2> SUFFICES ASSUME ans[Loop].kind = "copy"
               PROVE  Counted(cur[Loop].href, ans[Loop].body, OnServer(cur[Loop].href))'
    BY <1>2
  <2>1. pc[Loop] \in Writing
    BY <1>0 DEF HandSound
  <2>2. PICK h \in Hrefs, b \in Body : h = cur[Loop].href /\ b = ans[Loop].body
    BY <1>0, <2>1, HandType, LoopTypes
  <2>3. PICK n \in Nat : n = OnServer(h)
    BY <1>6
  <2>4. Counted(h, b, n)'
    BY <1>0, <1>7, <2>2, <2>3 DEF CopiesCounted
  <2>5. n = OnServer(h)'
    BY <1>6, <2>3
  <2> QED BY <1>2, <2>2, <2>4, <2>5, AnswerCounted
<1>12. ASSUME NEW f \in fetched'
       PROVE  Counted(f.href, f.body, 0)'
  <2>1. f \in fetched /\ f.href \in Hrefs /\ f.body \in Body
    BY <1>0, <1>2, LoopTypes
  <2> QED BY <1>0, <1>7, <2>1 DEF CopiesCounted
<1>13. TakenStands'
  <2> SUFFICES ASSUME Taken
               PROVE  /\ cur[Loop].body.kind # "todo" => Spoilt(cur[Loop].href)'
                      /\ pc[Loop] = "confirmed" /\ ans[Loop].kind # "copy" =>
                           ~srv'[cur[Loop].href].live
    BY <1>2, <1>4 DEF TakenStands, Spoilt
  <2>1. PICK h \in Hrefs : h = cur[Loop].href
    BY <1>0, HandType DEF Taken, HandSound, Writing
  <2>2. srv[h].at # 0
    <3>1. srv[h].at > token \/ (ans[Loop].etag # 0 /\ ans[Loop].etag <= srv[h].at)
      BY <1>0, <2>1 DEF Taken, AnswersTold
    <3> QED BY <1>0, <3>1, LoopTypes
  <2>3. /\ cur[Loop].body.kind # "todo" => Spoilt(h)
        /\ pc[Loop] = "confirmed" /\ ans[Loop].kind # "copy" => ~srv[h].live
    BY <1>0, <2>1 DEF TakenStands
  <2>4. Spoilt(h) => Spoilt(h)'
    <3>1. CASE h = g
      BY <1>2, <1>3, <1>5, <2>2, <3>1 DEF Spoilt
    <3>2. CASE h # g
      BY <1>2, <3>2 DEF Spoilt
    <3> QED BY <3>1, <3>2
  <2>5. ~srv[h].live => ~srv'[h].live
    BY <1>2, <1>3, <2>2
  <2> QED BY <1>2, <2>1, <2>3, <2>4, <2>5 DEF Spoilt
<1>14. CopiesCounted'
  BY <1>10, <1>11, <1>12 DEF CopiesCounted
<1> QED BY <1>9, <1>13, <1>14 DEF AdvancesCounted

-----------------------------------------------------------------------------
(* No completion is done twice while nothing is lost. *)

\* Only what goes wrong is counted as that.
LEMMA FaultsCounted ==
  ASSUME TypeOK, [Next]_vars, used'.fault = 0
  PROVE  used.fault = 0 /\ ~FaultStep
<1>1. used \in [local : Nat, phone : Nat, fault : Nat]
  BY DEF TypeOK
<1>2. ~Fault
  BY <1>1 DEF Fault
<1>3. ~FaultStep
  BY <1>2 DEF FaultStep, Crash, NetworkFails, ServerError
<1> SUFFICES used.fault = 0
  BY <1>3
<1>4. CASE \E w \in Workers : PushStep(w)
  BY <1>4 DEF PushStep, Begin, Send, ApplyStored, ApplyDeleted, ApplyMissing, NeedCopy, FetchOne,
     ApplyConfirmed, ApplyGone, DeleteCurrent, Redelete, DeleteRefused, Rebase, Reread, PushDone
<1>5. CASE PullStep
  BY <1>5 DEF PullStep, ReadLists, ReadChanges, ReadKnown, FetchWanted, StoreFetched, Finish
<1>6. CASE UserStep
  <2>1. Local
    BY <1>6 DEF UserStep, LocalCreate, LocalEdit, LocalDelete
  <2> QED BY <1>1, <2>1 DEF Local
<1>7. CASE PhoneStep
  <2>1. Phone
    BY <1>7 DEF PhoneStep, PhoneCreate, PhoneEdit, PhoneBreaks, PhoneDelete
  <2> QED BY <1>1, <2>1 DEF Phone
<1>8. CASE TimePasses \/ UNCHANGED vars
  BY <1>8 DEF TimePasses, vars
<1> QED BY <1>3, <1>4, <1>5, <1>6, <1>7, <1>8 DEF Next

LEMMA OnceStep == Alone /\ OnceInvariant /\ [Next]_vars => OnceInvariant'
<1> SUFFICES ASSUME Alone, OnceInvariant, [Next]_vars
             PROVE  OnceInvariant'
  OBVIOUS
<1>1. EditInvariant /\ EditInvariant'
  BY EditStep DEF OnceInvariant
<1> SUFFICES ASSUME used'.fault = 0
             PROVE  AdvancesCounted'
  BY <1>1 DEF OnceInvariant
<1>2. EditInvariant /\ TypeOK /\ \A w \in Workers : w = Loop
  BY <1>1, EditParts, AloneParts DEF Alone, SyncInvariant
<1>3. ~FaultStep /\ AdvancesCounted
  BY <1>2, FaultsCounted DEF OnceInvariant
<1>4. CASE PushStep(Loop)
  <2>1. CASE \/ Begin(Loop) \/ NeedCopy(Loop) \/ FetchOne(Loop) \/ DeleteCurrent(Loop)
             \/ DeleteRefused(Loop) \/ Reread(Loop) \/ PushDone(Loop)
    <3>1. QuietStep
      BY <1>2, <2>1, PushQuiet
    <3>2. QuietKept
      BY <1>2, <2>1, PushKept
    <3> QED BY <1>2, <1>3, <3>1, <3>2, QuietCounted
  <2>2. CASE Send(Loop) \/ Redelete(Loop)
    BY <1>2, <1>3, <2>2, SendCounted
  <2>3. CASE ApplyStored(Loop) \/ ApplyConfirmed(Loop)
    BY <1>2, <1>3, <2>3, StoredCounted
  <2>4. CASE ApplyDeleted(Loop) \/ ApplyMissing(Loop) \/ ApplyGone(Loop)
    BY <1>2, <1>3, <2>4, GoneCounted
  <2>5. CASE Rebase(Loop)
    BY <1>2, <1>3, <2>5, RebasedCounted
  <2> QED BY <1>4, <2>1, <2>2, <2>3, <2>4, <2>5 DEF PushStep
<1>5. CASE PullStep
  <2>1. CASE ReadLists \/ ReadChanges \/ ReadKnown \/ FetchWanted
    <3>1. QuietStep
      BY <1>2, <2>1, PullQuiet
    <3>2. QuietKept
      BY <1>2, <2>1, PullKept
    <3> QED BY <1>2, <1>3, <3>1, <3>2, QuietCounted
  <2>2. CASE StoreFetched \/ Finish
    BY <1>2, <1>3, <2>2, PulledCounted
  <2> QED BY <1>5, <2>1, <2>2 DEF PullStep
<1>6. CASE UserStep
  BY <1>2, <1>3, <1>6, CreateCounted, EditCounted, DeleteCounted DEF UserStep
<1>7. CASE PhoneStep
  BY <1>2, <1>3, <1>7, PhoneCounted
<1>8. CASE TimePasses \/ UNCHANGED vars
  <2>1. QuietStep
    BY <1>2, <1>8, OutsideQuiet
  <2>2. QuietKept
    BY <1>8, RestKept
  <2> QED BY <1>2, <1>3, <2>1, <2>2, QuietCounted
<1> QED BY <1>2, <1>3, <1>4, <1>5, <1>6, <1>7, <1>8 DEF Next

LEMMA OnceInit == Init => OnceInvariant
<1> SUFFICES ASSUME Init
             PROVE  AdvancesCounted
  BY EditInit DEF OnceInvariant
<1>1. /\ pc[Loop] = "idle" /\ todo[Loop] = {} /\ ans[Loop].kind = "none" /\ fetched = {}
      /\ Hand = {} /\ ~Taken
  BY WorkersAssumption DEF Init, Says, Hand, Writing, Taken
<1>2. ASSUME NEW h \in Hrefs
      PROVE  RowCounted(h)
  <2>1. /\ ~rows[h].here /\ ~srv[h].live /\ srv[h].body.due = 0
        /\ accepted[h] = {} /\ phoneDone[h] = 0
    BY DEF Init, NoRow, NewBody
  <2>2. {e \in {} : e.op = "complete"} = {}
    OBVIOUS
  <2>3. IsFiniteSet(accepted[h]) /\ Completed(h) = 0
    BY <2>1, <2>2, FS_EmptySet DEF Completed
  <2> QED BY <2>1, <2>3 DEF RowCounted
<1>3. CopiesCounted /\ TakenStands
  BY <1>1 DEF CopiesCounted, TakenStands
<1> QED BY <1>2, <1>3 DEF AdvancesCounted

\* The inductive invariant of the completions, where the loop is alone.
THEOREM OnceInvariance == ASSUME Alone PROVE Spec => []OnceInvariant
<1>1. Init => OnceInvariant
  BY OnceInit
<1>2. OnceInvariant /\ [Next]_vars => OnceInvariant'
  BY OnceStep
<1> QED BY <1>1, <1>2, PTL DEF Spec

\* A task on the server is not advanced oftener than it was completed, here or on
\* the phone: a write that was taken is taken off the queue by pushed, and what a
\* rebase applies again was not on the copy it is applied to.
THEOREM AdvancedOnce == ASSUME Alone PROVE Spec => []AdvancedOncePerCompletion
<1>1. OnceInvariant => AdvancedOncePerCompletion
  BY DEF OnceInvariant, AdvancesCounted, RowCounted, Completed, AdvancedOncePerCompletion
<1> QED BY <1>1, OnceInvariance, PTL

=============================================================================
