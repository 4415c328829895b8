--------------------------- MODULE ListSyncProofs ---------------------------
(***************************************************************************)
(* For any lists, tasks, changes and faults: a list leaves the cache only  *)
(* once it is gone from the server, the user signed out, or through a      *)
(* listing that was taken before the list was made; and no task is lost    *)
(* that nobody deleted, but through such a listing.                        *)
(*                                                                         *)
(* The argument for lists: a list is made once and, deleted, stays gone    *)
(* (MadeOnce, DeletedIsGone); so a list that a listing does not name, and  *)
(* that the server has, was made after the listing was taken               *)
(* (ListingsTold).  That for tasks is told where it begins.                *)
(***************************************************************************)
EXTENDS ListSync, TLAPS

ListRow == [here : BOOLEAN, name : NameOrNone, token : Nat]

ServerList == [live : BOOLEAN, born : Nat, name : NameOrNone, at : Nat]

Fates == {"unmade", "owed", "let go"}

-----------------------------------------------------------------------------
(* Types. *)

LEMMA ListedType ==
  ASSUME srv \in [Lists -> ServerList], clock \in Nat
  PROVE  Listed \in Listing
BY DEF Listed, Listing, ServerList

LEMMA NoListingType == NoListing \in Listing
BY DEF NoListing, Listing, NameOrNone

LEMMA RowsWithoutType ==
  ASSUME NEW gone, rows \in [Places -> RowStates]
  PROVE  RowsWithout(gone) \in [Places -> RowStates]
BY DEF RowsWithout, RowStates

LEMMA LetGoType ==
  ASSUME NEW us, fate \in [Uids -> Fates], LetGo(us)
  PROVE  fate' \in [Uids -> Fates]
BY DEF LetGo, Fates

LEMMA ListsFromType ==
  ASSUME NEW answer \in Listing, lists \in [Lists -> ListRow]
  PROVE  ListsFrom(answer) \in [Lists -> ListRow]
BY DEF ListsFrom, NoList, ListRow, Listing, NameOrNone

LEMMA TakeType ==
  ASSUME TypeOK, NEW answer \in Listing, TakeListing(answer)
  PROVE  /\ lists' \in [Lists -> ListRow]
         /\ rows' \in [Places -> RowStates]
         /\ fate' \in [Uids -> Fates]
<1>1. lists \in [Lists -> ListRow] /\ rows \in [Places -> RowStates] /\ fate \in [Uids -> Fates]
  BY DEF TypeOK, ListRow, Fates
<1> QED BY <1>1, ListsFromType, RowsWithoutType, LetGoType DEF TakeListing

\* What the server holds keeps its type, whoever writes it.
ServerType ==
  /\ srv \in [Lists -> ServerList]
  /\ held \subseteq Places
  /\ clock \in Nat
  /\ fate \in [Uids -> Fates]

LEMMA MakeType ==
  ASSUME ServerType, NEW l \in Lists, NEW name \in Names, Make(l, name)
  PROVE  ServerType'
BY DEF ServerType, Make, Live, ServerList, NameOrNone

LEMMA RenameType ==
  ASSUME ServerType, NEW l \in Lists, NEW name \in Names, Rename(l, name)
  PROVE  ServerType'
BY DEF ServerType, Rename, ServerList, NameOrNone

LEMMA RemoveType ==
  ASSUME ServerType, NEW l \in Lists, Remove(l)
  PROVE  ServerType'
<1>1. fate' \in [Uids -> Fates]
  BY LetGoType DEF ServerType, Remove
<1>2. held' \subseteq Places
  BY DEF ServerType, Remove
<1>3. srv' \in [Lists -> ServerList] /\ clock' \in Nat
  <2>1. srv' = [srv EXCEPT ![l].live = FALSE] /\ clock' = clock + 1
    BY DEF Remove
  <2>2. [srv[l] EXCEPT !.live = FALSE] \in ServerList
    BY DEF ServerType, ServerList
  <2> QED BY <2>1, <2>2 DEF ServerType
<1> QED BY <1>1, <1>2, <1>3 DEF ServerType

LEMMA WriteType ==
  ASSUME ServerType, NEW l \in Lists, NEW tasks \in SUBSET Places, PhoneWrites(l, tasks)
  PROVE  /\ srv' \in [Lists -> ServerList]
         /\ held' \subseteq Places
         /\ clock' \in Nat
BY DEF ServerType, PhoneWrites, ServerList

\* What is in memory keeps its type.
PushType ==
  /\ pc \in {"idle", "push", "sent", "listed", "pull", "page"}
  /\ todo \subseteq [at : Places, op : {"create", "delete"}]
  /\ sent \in [at : Places, op : {"create", "delete"}, ok : BOOLEAN] \cup {NoWrite}

PullType ==
  /\ listing \in Listing
  /\ stale \subseteq Lists
  /\ page \in [list : Lists, uids : SUBSET Uids, token : Nat] \cup {NoPage}

RequestType ==
  /\ rpc \in [step : {"answered", "relist", "relisted"}, op : {"create", "update", "delete"},
              list : Lists, ok : BOOLEAN] \cup {NoRequest}
  /\ relisted \in Listing

CacheType ==
  /\ lists \in [Lists -> ListRow]
  /\ rows \in [Places -> RowStates]
  /\ account \in BOOLEAN

UsedType == used \in [user : Nat, request : Nat, phone : Nat, fault : Nat]

LEMMA TypeParts ==
  /\ TypeOK <=> CacheType /\ ServerType /\ PushType /\ PullType /\ RequestType /\ UsedType
  /\ TypeOK' <=> CacheType' /\ ServerType' /\ PushType' /\ PullType' /\ RequestType' /\ UsedType'
BY DEF TypeOK, CacheType, ServerType, PushType, PullType, RequestType, UsedType,
       ListRow, ServerList, Fates

LEMMA EndRoundType ==
  ASSUME EndRound
  PROVE  PushType' /\ PullType'
BY NoListingType DEF EndRound, PushType, PullType

LEMMA UsedStep ==
  ASSUME UsedType, User \/ Asked \/ Phone \/ Fault
  PROVE  UsedType'
BY DEF UsedType, User, Asked, Phone, Fault

\* Every step keeps every type: the loop's, the requests', and everyone else's.
LEMMA LoopTypes ==
  ASSUME TypeOK, LoopStep
  PROVE  TypeOK'
<1> USE TypeParts
<1>1. CASE Begin
  <2>1. {[at |-> p, op |-> IF rows[p] = "new" THEN "create" ELSE "delete"] :
            p \in {q \in Places : Pending(q)}} \subseteq [at : Places, op : {"create", "delete"}]
    OBVIOUS
  <2> QED BY <1>1, <2>1 DEF Begin, cache, server, pull, request,
             CacheType, ServerType, PushType, PullType, RequestType, UsedType
<1>2. CASE NotSignedIn
  BY <1>2 DEF NotSignedIn, vars, cache, server, push, pull, request,
             CacheType, ServerType, PushType, PullType, RequestType, UsedType
<1>3. CASE Send
  <2>1. PICK w \in todo :
          LET taken == w.op = "delete" \/ srv[w.at[2]].live IN
          /\ todo' = todo \ {w}
          /\ sent' = [at |-> w.at, op |-> w.op, ok |-> taken]
          /\ held' = IF ~taken THEN held
                     ELSE IF w.op = "create" THEN held \cup {w.at} ELSE held \ {w.at}
          /\ IF held' # held
             THEN srv' = [srv EXCEPT ![w.at[2]].at = clock + 1] /\ clock' = clock + 1
             ELSE UNCHANGED <<srv, clock>>
    BY <1>3 DEF Send
  <2>2. w \in [at : Places, op : {"create", "delete"}] /\ w.at \in Places /\ w.at[2] \in Lists
    BY <2>1 DEF PushType, Places
  <2>3. srv[w.at[2]].live \in BOOLEAN
    BY <2>2 DEF ServerType, ServerList
  <2>4. PushType'
    BY <1>3, <2>1, <2>2, <2>3 DEF Send, PushType
  <2>5. held' \subseteq Places
    BY <2>1, <2>2 DEF ServerType
  <2>6. srv' \in [Lists -> ServerList] /\ clock' \in Nat
    <3>1. CASE held' # held
      BY <2>1, <2>2, <3>1 DEF ServerType, ServerList
    <3>2. CASE held' = held
      BY <2>1, <3>2 DEF ServerType
    <3> QED BY <3>1, <3>2
  <2> QED BY <1>3, <2>4, <2>5, <2>6 DEF Send, cache, pull, request,
             CacheType, ServerType, PullType, RequestType, UsedType
<1>4. CASE ApplySent
  <2>1. rows' \in [Places -> RowStates]
    BY <1>4 DEF ApplySent, CacheType, RowStates
  <2> QED BY <1>4, <2>1 DEF ApplySent, server, pull, request,
             CacheType, ServerType, PushType, PullType, RequestType, UsedType
<1>5. CASE ReadLists
  <2>1. listing' \in Listing
    BY <1>5, ListedType DEF ReadLists, ServerType
  <2> QED BY <1>5, <2>1 DEF ReadLists, cache, server, push, request,
             CacheType, ServerType, PushType, PullType, RequestType, UsedType
<1>6. CASE ApplyListing
  <2>1. lists' \in [Lists -> ListRow] /\ rows' \in [Places -> RowStates] /\ fate' \in [Uids -> Fates]
    BY <1>6, TakeType DEF ApplyListing, PullType
  <2>2. stale' \subseteq Lists
    BY <1>6 DEF ApplyListing, Stale, PullType, Listing
  <2> QED BY <1>6, <2>1, <2>2 DEF ApplyListing, server, push, request,
             CacheType, ServerType, PushType, PullType, RequestType, UsedType
<1>7. CASE ReadList
  <2>1. PICK l \in stale :
          /\ stale' = stale \ {l}
          /\ IF srv[l].live
             THEN /\ page' = [list |-> l, uids |-> {u \in Uids : <<u, l>> \in held},
                              token |-> srv[l].at]
                  /\ pc' = "page"
             ELSE UNCHANGED <<page, pc>>
    BY <1>7 DEF ReadList
  <2>2. l \in Lists /\ srv[l].at \in Nat
    BY <2>1 DEF PullType, ServerType, ServerList
  <2>3. PullType'
    <3>1. listing' = listing /\ stale' \subseteq stale
      BY <1>7, <2>1 DEF ReadList
    <3>2. CASE srv[l].live
      <4> DEFINE uids == {u \in Uids : <<u, l>> \in held}
      <4>1. page' = [list |-> l, uids |-> uids, token |-> srv[l].at] /\ uids \in SUBSET Uids
        BY <2>1, <3>2
      <4> HIDE DEF uids
      <4>2. page' \in [list : Lists, uids : SUBSET Uids, token : Nat]
        BY <4>1, <2>2
      <4> QED BY <3>1, <4>2 DEF PullType
    <3>3. CASE ~srv[l].live
      BY <2>1, <3>1, <3>3 DEF PullType
    <3> QED BY <3>2, <3>3
  <2> QED BY <1>7, <2>1, <2>3 DEF ReadList, cache, server, push, request,
             CacheType, ServerType, PushType, RequestType, UsedType
<1>8. CASE ApplyPage
  <2>1. rows' \in [Places -> RowStates]
    BY <1>8 DEF ApplyPage, CacheType, RowStates
  <2>2. page.token \in Nat
    BY DEF PullType, NoPage
  <2>3. lists' \in [Lists -> ListRow]
    <3>1. CASE lists[page.list].here
      <4>1. lists' = [lists EXCEPT ![page.list].token = page.token]
        BY <1>8, <3>1 DEF ApplyPage
      <4> QED BY <4>1, <2>2 DEF CacheType, ListRow
    <3>2. CASE ~lists[page.list].here
      BY <1>8, <3>2 DEF ApplyPage, CacheType
    <3> QED BY <3>1, <3>2
  <2> QED BY <1>8, <2>1, <2>3 DEF ApplyPage, server, push, request,
             CacheType, ServerType, PushType, PullType, RequestType, UsedType
<1>9. CASE PullDone
  BY <1>9, EndRoundType DEF PullDone, cache, server, request,
             CacheType, ServerType, RequestType, UsedType
<1> QED BY <1>1, <1>2, <1>3, <1>4, <1>5, <1>6, <1>7, <1>8, <1>9 DEF LoopStep

LEMMA AnsweredType ==
  ASSUME NEW op \in {"create", "update", "delete"}, NEW l \in Lists, NEW ok \in BOOLEAN,
         RequestType, relisted' = relisted, Answered(op, l, ok)
  PROVE  RequestType'
BY DEF RequestType, Answered

LEMMA RequestTypes ==
  ASSUME TypeOK, RequestStep
  PROVE  TypeOK'
<1> USE TypeParts
<1>1. CASE ApplyAnswer
  <2>1. rpc' \in [step : {"answered", "relist", "relisted"}, op : {"create", "update", "delete"},
                  list : Lists, ok : BOOLEAN] \cup {NoRequest}
    BY <1>1 DEF ApplyAnswer, RequestType, NoRequest
  <2>2. lists' \in [Lists -> ListRow]
    <3>1. NoList \in ListRow
      BY DEF NoList, ListRow, NameOrNone
    <3>2. lists' = lists \/ lists' = [lists EXCEPT ![rpc.list] = NoList]
      BY <1>1 DEF ApplyAnswer
    <3> QED BY <3>1, <3>2 DEF CacheType
  <2>3. rows' \in [Places -> RowStates]
    BY <1>1, RowsWithoutType DEF ApplyAnswer, CacheType
  <2>4. fate' \in [Uids -> Fates]
    BY <1>1, LetGoType DEF ApplyAnswer, ServerType
  <2> QED BY <1>1, <2>1, <2>2, <2>3, <2>4 DEF ApplyAnswer, server, push, pull,
             CacheType, ServerType, PushType, PullType, RequestType, UsedType
<1>2. CASE Relist
  <2>1. relisted' \in Listing
    BY <1>2, ListedType DEF Relist, ServerType
  <2>2. RequestType'
    BY <1>2, <2>1 DEF Relist, RequestType, NoRequest
  <2> QED BY <1>2, <2>2 DEF Relist, cache, server, push, pull,
             CacheType, ServerType, PushType, PullType, UsedType
<1>3. CASE Adopt
  <2>1. lists' \in [Lists -> ListRow] /\ rows' \in [Places -> RowStates] /\ fate' \in [Uids -> Fates]
    BY <1>3, TakeType DEF Adopt, RequestType
  <2> QED BY <1>3, <2>1, NoListingType DEF Adopt, server, push, pull,
             CacheType, ServerType, PushType, PullType, RequestType, UsedType
<1> QED BY <1>1, <1>2, <1>3 DEF RequestStep

LEMMA UserTypes ==
  ASSUME TypeOK, UserStep
  PROVE  TypeOK'
<1> USE TypeParts
<1>1. ASSUME NEW l \in Lists, CreateList(l) \/ UpdateList(l) \/ DeleteList(l)
      PROVE  TypeOK'
  <2>1. UsedType' /\ relisted' = relisted
    BY <1>1, UsedStep DEF CreateList, UpdateList, DeleteList, Ready
  <2>2. ServerType'
    <3>1. CASE CreateList(l)
      BY <3>1, MakeType DEF CreateList, Refused, server, ServerType
    <3>2. CASE UpdateList(l)
      BY <3>2, RenameType DEF UpdateList, Refused, server, ServerType
    <3>3. CASE DeleteList(l)
      BY <3>3, RemoveType DEF DeleteList, Refused, server, ServerType
    <3> QED BY <1>1, <3>1, <3>2, <3>3
  <2>3. RequestType'
    <3>1. srv[l].live \in BOOLEAN
      BY DEF ServerType, ServerList
    <3>2. CASE CreateList(l)
      BY <2>1, <3>2, AnsweredType DEF CreateList
    <3>3. CASE UpdateList(l)
      BY <2>1, <3>1, <3>3, AnsweredType DEF UpdateList
    <3>4. CASE DeleteList(l)
      BY <2>1, <3>1, <3>4, AnsweredType DEF DeleteList
    <3> QED BY <1>1, <3>2, <3>3, <3>4
  <2> QED BY <1>1, <2>1, <2>2, <2>3 DEF CreateList, UpdateList, DeleteList, cache, push, pull,
             CacheType, PushType, PullType
<1>2. ASSUME NEW u \in Uids, NEW l \in Lists, AddTask(u, l)
      PROVE  TypeOK'
  <2>1. UsedType'
    BY <1>2, UsedStep DEF AddTask
  <2>2. rows' \in [Places -> RowStates] /\ fate' \in [Uids -> Fates]
    BY <1>2 DEF AddTask, CacheType, ServerType, RowStates, Fates
  <2> QED BY <1>2, <2>1, <2>2 DEF AddTask, server, push, pull, request,
             CacheType, ServerType, PushType, PullType, RequestType
<1>3. ASSUME NEW p \in Places, DeleteTask(p)
      PROVE  TypeOK'
  <2>1. UsedType'
    BY <1>3, UsedStep DEF DeleteTask
  <2>2. rows' \in [Places -> RowStates]
    BY <1>3 DEF DeleteTask, Without, CacheType, RowStates
  <2>3. fate' \in [Uids -> Fates]
    BY <1>3, LetGoType DEF DeleteTask, ServerType
  <2> QED BY <1>3, <2>1, <2>2, <2>3 DEF DeleteTask, server, push, pull, request,
             CacheType, ServerType, PushType, PullType, RequestType
<1>4. ASSUME NEW u \in Uids, NEW l \in Lists, NEW m \in Lists, Move(u, l, m)
      PROVE  TypeOK'
  <2>1. UsedType'
    BY <1>4, UsedStep DEF Move
  <2>2. rows' \in [Places -> RowStates]
    BY <1>4 DEF Move, Without, CacheType, RowStates
  <2> QED BY <1>4, <2>1, <2>2 DEF Move, server, push, pull, request,
             CacheType, ServerType, PushType, PullType, RequestType
<1>5. CASE Logout
  <2>1. UsedType'
    BY <1>5, UsedStep DEF Logout
  <2>2. fate' \in [Uids -> Fates]
    BY <1>5, LetGoType DEF Logout, ServerType
  <2>3. CacheType'
    BY <1>5 DEF Logout, CacheType, NoList, ListRow, NameOrNone, RowStates
  <2> QED BY <1>5, <2>1, <2>2, <2>3 DEF Logout, server, push, pull, request,
             ServerType, PushType, PullType, RequestType
<1>6. CASE Login
  <2>1. UsedType'
    BY <1>6, UsedStep DEF Login
  <2> QED BY <1>6, <2>1 DEF Login, server, push, pull, request,
             CacheType, ServerType, PushType, PullType, RequestType
<1>7. \A u \in Uids, l \in Lists : <<u, l>> \in Places
  BY DEF Places
<1> QED BY <1>1, <1>2, <1>3, <1>4, <1>5, <1>6, <1>7 DEF UserStep

LEMMA PhoneTypes ==
  ASSUME TypeOK, PhoneStep
  PROVE  TypeOK'
<1> USE TypeParts
<1>1. PhoneStep => Phone /\ Here
  BY DEF PhoneStep, PhoneMakesList, PhoneRenamesList, PhoneDeletesList, PhoneAddsTask,
         PhoneDeletesTask
<1>2. ServerType'
  <2>1. ASSUME NEW l \in Lists,
               PhoneMakesList(l) \/ PhoneRenamesList(l) \/ PhoneDeletesList(l)
        PROVE  ServerType'
    BY <2>1, MakeType, RenameType, RemoveType
       DEF PhoneMakesList, PhoneRenamesList, PhoneDeletesList
  <2>2. ASSUME NEW u \in Uids, NEW l \in Lists, PhoneAddsTask(u, l)
        PROVE  ServerType'
    <3>1. held \cup {<<u, l>>} \in SUBSET Places
      BY DEF ServerType, Places
    <3>2. PhoneWrites(l, held \cup {<<u, l>>})
      BY <2>2 DEF PhoneAddsTask
    <3>3. srv' \in [Lists -> ServerList] /\ held' \subseteq Places /\ clock' \in Nat
      BY <3>1, <3>2, WriteType
    <3>4. fate' \in [Uids -> Fates]
      BY <2>2 DEF PhoneAddsTask, ServerType, Fates
    <3> QED BY <3>3, <3>4 DEF ServerType
  <2>3. ASSUME NEW p \in Places, PhoneDeletesTask(p)
        PROVE  ServerType'
    <3>1. held \ {p} \in SUBSET Places /\ p[2] \in Lists
      BY DEF ServerType, Places
    <3>2. PhoneWrites(p[2], held \ {p})
      BY <2>3 DEF PhoneDeletesTask
    <3>3. srv' \in [Lists -> ServerList] /\ held' \subseteq Places /\ clock' \in Nat
      BY <3>1, <3>2, WriteType
    <3>4. fate' \in [Uids -> Fates]
      BY <2>3, LetGoType DEF PhoneDeletesTask, ServerType
    <3> QED BY <3>3, <3>4 DEF ServerType
  <2>4. \A u \in Uids, l \in Lists : <<u, l>> \in Places
    BY DEF Places
  <2> QED BY <2>1, <2>2, <2>3, <2>4 DEF PhoneStep
<1>3. UsedType'
  BY <1>1, UsedStep
<1> QED BY <1>1, <1>2, <1>3 DEF Here, cache, push, pull, request,
           CacheType, PushType, PullType, RequestType

LEMMA FaultTypes ==
  ASSUME TypeOK, FaultStep
  PROVE  TypeOK'
<1> USE TypeParts
<1>1. UsedType'
  BY UsedStep DEF FaultStep, RoundFails, RequestFails, Crash, CrashInMove
<1>2. CASE RoundFails
  BY <1>1, <1>2, EndRoundType DEF RoundFails, cache, server, request,
     CacheType, ServerType, RequestType
<1>3. CASE RequestFails
  BY <1>1, <1>3, NoListingType DEF RequestFails, cache, server, push, pull,
     CacheType, ServerType, PushType, PullType, RequestType
<1>4. CASE Crash
  BY <1>1, <1>4, EndRoundType, NoListingType DEF Crash, Restart, cache, server,
     CacheType, ServerType, RequestType
<1>5. ASSUME NEW u \in Uids, NEW l \in Lists, NEW m \in Lists, CrashInMove(u, l, m)
      PROVE  TypeOK'
  <2>1. rows' \in [Places -> RowStates]
    BY <1>5 DEF CrashInMove, FirstHalf, CacheType, RowStates
  <2> QED BY <1>1, <1>5, <2>1, EndRoundType, NoListingType DEF CrashInMove, Restart, server,
             CacheType, ServerType, RequestType
<1> QED BY <1>2, <1>3, <1>4, <1>5 DEF FaultStep

LEMMA InitTypes == Init => TypeOK
<1> SUFFICES ASSUME Init PROVE TypeOK
  OBVIOUS
<1> USE TypeParts
<1>1. AName \in Names
  BY NamesAssumption DEF AName
<1>2. CacheType /\ ServerType
  BY <1>1 DEF Init, CacheType, ServerType, ListRow, ServerList, NoList, NameOrNone, RowStates,
              Fates
<1>3. PushType /\ PullType /\ RequestType /\ UsedType
  BY NoListingType DEF Init, PushType, PullType, RequestType, UsedType
<1> QED BY <1>2, <1>3

LEMMA TypeStep ==
  ASSUME TypeOK, [Next]_vars
  PROVE  TypeOK'
<1>1. CASE UNCHANGED vars
  BY <1>1 DEF vars, cache, server, push, pull, request, TypeOK
<1> QED BY <1>1, LoopTypes, RequestTypes, UserTypes, PhoneTypes, FaultTypes DEF Next

-----------------------------------------------------------------------------
(* Lists are made once, and do not come back. *)

\* What any step does to the server's lists.
ServerGrows ==
  /\ clock' \in Nat /\ clock' >= clock
  /\ \A l \in Lists :
       \/ srv'[l].born = srv[l].born /\ (srv'[l].live => srv[l].live)
       \/ srv[l].born = 0 /\ srv'[l].born = clock + 1 /\ clock' = clock + 1

LEMMA SameGrows ==
  ASSUME TypeOK, UNCHANGED <<srv, clock>>
  PROVE  ServerGrows
<1>1. clock \in Nat /\ clock' = clock /\ srv' = srv
  BY DEF TypeOK
<1> QED BY <1>1 DEF ServerGrows

LEMMA MakeGrows ==
  ASSUME TypeOK, NEW l \in Lists, NEW name, srv[l].born = 0, Make(l, name)
  PROVE  ServerGrows
<1>1. srv \in [Lists -> ServerList] /\ clock \in Nat
  BY DEF TypeOK, ServerList
<1>2. srv' = [srv EXCEPT ![l] = Live(name)] /\ clock' = clock + 1 /\ Live(name).born = clock + 1
  BY DEF Make, Live
<1> QED BY <1>1, <1>2 DEF ServerGrows

LEMMA RenameGrows ==
  ASSUME TypeOK, NEW l \in Lists, NEW name, Rename(l, name)
  PROVE  ServerGrows
<1>1. srv \in [Lists -> ServerList] /\ clock \in Nat
  BY DEF TypeOK, ServerList
<1>2. srv' = [srv EXCEPT ![l] = [srv[l] EXCEPT !.name = name]] /\ clock' = clock
  BY DEF Rename
<1>3. [srv[l] EXCEPT !.name = name].born = srv[l].born /\ [srv[l] EXCEPT !.name = name].live = srv[l].live
  BY <1>1 DEF ServerList
<1> QED BY <1>1, <1>2, <1>3 DEF ServerGrows

LEMMA RemoveGrows ==
  ASSUME TypeOK, NEW l \in Lists, Remove(l)
  PROVE  ServerGrows /\ ~srv'[l].live
<1>1. srv \in [Lists -> ServerList] /\ clock \in Nat
  BY DEF TypeOK, ServerList
<1>2. srv' = [srv EXCEPT ![l] = [srv[l] EXCEPT !.live = FALSE]] /\ clock' = clock + 1
  BY DEF Remove
<1>3. [srv[l] EXCEPT !.live = FALSE].born = srv[l].born /\ [srv[l] EXCEPT !.live = FALSE].live = FALSE
  BY <1>1 DEF ServerList
<1> QED BY <1>1, <1>2, <1>3 DEF ServerGrows

\* A write to a list's tasks.
LEMMA WriteGrows ==
  ASSUME TypeOK, NEW l, srv' = [srv EXCEPT ![l].at = clock + 1], clock' = clock + 1
  PROVE  ServerGrows
<1>1. srv \in [Lists -> ServerList] /\ clock \in Nat
  BY DEF TypeOK, ServerList
<1>2. \A m \in Lists : srv'[m].born = srv[m].born /\ srv'[m].live = srv[m].live
  BY <1>1 DEF ServerList
<1> QED BY <1>1, <1>2 DEF ServerGrows

LEMMA ServerStep ==
  ASSUME TypeOK, [Next]_vars
  PROVE  ServerGrows
<1>1. CASE UNCHANGED vars
  BY <1>1, SameGrows DEF vars, server
<1>2. CASE LoopStep
  <2>1. CASE Send
    <3>1. PICK w \in todo :
            IF held' # held
            THEN srv' = [srv EXCEPT ![w.at[2]].at = clock + 1] /\ clock' = clock + 1
            ELSE UNCHANGED <<srv, clock>>
      BY <2>1 DEF Send
    <3> QED BY <3>1, WriteGrows, SameGrows
  <2>2. CASE ~Send
    BY <1>2, <2>2, SameGrows DEF LoopStep, Begin, NotSignedIn, ApplySent, ReadLists, ApplyListing,
       ReadList, ApplyPage, PullDone, vars, server
  <2> QED BY <2>1, <2>2
<1>3. CASE RequestStep
  BY <1>3, SameGrows DEF RequestStep, ApplyAnswer, Relist, Adopt, server
<1>4. CASE UserStep
  <2>1. ASSUME NEW l \in Lists, CreateList(l) \/ UpdateList(l) \/ DeleteList(l)
        PROVE  ServerGrows
    BY <2>1, MakeGrows, RenameGrows, RemoveGrows, SameGrows
       DEF CreateList, UpdateList, DeleteList, Refused, server
  <2>2. CASE ~ \E l \in Lists : CreateList(l) \/ UpdateList(l) \/ DeleteList(l)
    BY <1>4, <2>2, SameGrows DEF UserStep, AddTask, DeleteTask, Move, Logout, Login, server
  <2> QED BY <2>1, <2>2
<1>5. CASE PhoneStep
  <2>1. ASSUME NEW l \in Lists,
               PhoneMakesList(l) \/ PhoneRenamesList(l) \/ PhoneDeletesList(l)
        PROVE  ServerGrows
    BY <2>1, MakeGrows, RenameGrows, RemoveGrows
       DEF PhoneMakesList, PhoneRenamesList, PhoneDeletesList
  <2>2. ASSUME NEW l, NEW tasks, PhoneWrites(l, tasks)
        PROVE  ServerGrows
    BY <2>2, WriteGrows DEF PhoneWrites
  <2> QED BY <1>5, <2>1, <2>2 DEF PhoneStep, PhoneAddsTask, PhoneDeletesTask
<1>6. CASE FaultStep
  BY <1>6, SameGrows DEF FaultStep, RoundFails, RequestFails, Crash, CrashInMove, server
<1> QED BY <1>1, <1>2, <1>3, <1>4, <1>5, <1>6 DEF Next

\* The lists of the cache after a step were there before, or in a listing.
LEMMA CacheStep ==
  ASSUME TypeOK, [Next]_vars, NEW l \in Lists, lists'[l].here
  PROVE  \/ lists[l].here
         \/ ApplyListing /\ l \in listing.live
         \/ Adopt /\ l \in relisted.live
<1>1. lists \in [Lists -> ListRow]
  BY DEF TypeOK, ListRow
<1>2. ASSUME NEW answer, lists' = ListsFrom(answer)
      PROVE  l \in answer.live
  BY <1>2 DEF ListsFrom, NoList
<1>3. CASE ApplyListing
  BY <1>2, <1>3 DEF ApplyListing, TakeListing
<1>4. CASE Adopt
  BY <1>2, <1>4 DEF Adopt, TakeListing
<1>5. CASE ApplyPage
  BY <1>1, <1>5 DEF ApplyPage, ListRow
<1>6. CASE ApplyAnswer
  BY <1>1, <1>6 DEF ApplyAnswer, NoList
<1>7. CASE Logout
  BY <1>7 DEF Logout, NoList
<1>8. CASE UNCHANGED lists
  BY <1>8
<1>9. [Next]_vars => \/ ApplyListing \/ Adopt \/ ApplyPage \/ ApplyAnswer \/ Logout
                    \/ UNCHANGED lists
  BY DEF Next, LoopStep, RequestStep, UserStep, PhoneStep, FaultStep, Begin, NotSignedIn, Send,
     ApplySent, ReadLists, ReadList, PullDone, Relist, CreateList, UpdateList, DeleteList, AddTask,
     DeleteTask, Move, Login, PhoneMakesList, PhoneRenamesList, PhoneDeletesList, PhoneAddsTask,
     PhoneDeletesTask, Here, RoundFails, RequestFails, Crash, CrashInMove, vars, cache
<1> QED BY <1>3, <1>4, <1>5, <1>6, <1>7, <1>8, <1>9

LEMMA MadeStep ==
  ASSUME TypeOK, MadeOnce, ListingsTold, [Next]_vars
  PROVE  MadeOnce'
<1>1. srv \in [Lists -> ServerList] /\ clock \in Nat
  BY DEF TypeOK, ServerList
<1>2. ServerGrows
  BY ServerStep
<1>3. clock' # 0
  BY <1>1, <1>2 DEF ServerGrows, MadeOnce
<1>4. ASSUME NEW l \in Lists
      PROVE  /\ srv'[l].born <= clock'
             /\ srv[l].born # 0 => srv'[l].born # 0
             /\ srv'[l].live => srv'[l].born # 0
  <2>1. srv[l].born \in Nat /\ srv[l].born <= clock /\ (srv[l].live => srv[l].born # 0)
    BY <1>1 DEF ServerList, MadeOnce
  <2> QED BY <1>1, <1>2, <2>1 DEF ServerGrows
<1>5. ASSUME NEW l \in Lists, lists'[l].here
      PROVE  srv'[l].born # 0
  <2>1. srv[l].born # 0
    BY <1>5, CacheStep DEF MadeOnce, ListingsTold
  <2> QED BY <1>4, <2>1
<1> QED BY <1>3, <1>4, <1>5 DEF MadeOnce

\* What one listing tells.
Told(answer) ==
  /\ answer.at <= clock
  /\ \A l \in Lists : l \in answer.live => srv[l].born # 0
  /\ \A l \in Lists : srv[l].live /\ l \notin answer.live => Overtaken(l, answer)

LEMMA ToldStays ==
  ASSUME TypeOK, MadeOnce, ServerGrows, NEW answer \in Listing, Told(answer)
  PROVE  Told(answer)'
<1>1. srv \in [Lists -> ServerList] /\ clock \in Nat /\ answer.at \in Nat
  BY DEF TypeOK, ServerList, Listing
<1>2. answer.at <= clock'
  BY <1>1 DEF ServerGrows, Told
<1>3. ASSUME NEW l \in Lists
      PROVE  /\ l \in answer.live => srv'[l].born # 0
             /\ srv'[l].live /\ l \notin answer.live => srv'[l].born > answer.at
  <2>1. srv[l].born \in Nat
    BY <1>1 DEF ServerList
  <2>2. CASE srv'[l].born = srv[l].born /\ (srv'[l].live => srv[l].live)
    BY <2>2 DEF Told, Overtaken
  <2>3. CASE srv'[l].born = clock + 1
    BY <1>1, <2>3 DEF Told
  <2> QED BY <2>2, <2>3 DEF ServerGrows
<1> QED BY <1>2, <1>3 DEF Told, Overtaken

LEMMA ListedTells ==
  ASSUME TypeOK, MadeOnce
  PROVE  Told(Listed)
<1>1. clock \in Nat
  BY DEF TypeOK
<1> QED BY <1>1 DEF Told, Listed, MadeOnce

LEMMA NoListingTells ==
  ASSUME TypeOK, MadeOnce
  PROVE  Told(NoListing)
<1>1. srv \in [Lists -> ServerList] /\ clock \in Nat
  BY DEF TypeOK, ServerList
<1>2. \A l \in Lists : srv[l].live => srv[l].born > 0
  BY <1>1 DEF MadeOnce, ServerList
<1> QED BY <1>1, <1>2 DEF Told, NoListing, Overtaken

LEMMA ToldStep ==
  ASSUME TypeOK, MadeOnce, ListingsTold, [Next]_vars
  PROVE  ListingsTold'
<1>1. ServerGrows
  BY ServerStep
<1>2. Told(listing) /\ Told(relisted)
  BY DEF ListingsTold, Told
<1>3. listing' \in {listing, Listed, NoListing} /\ relisted' \in {relisted, Listed, NoListing}
  BY DEF Next, LoopStep, RequestStep, UserStep, PhoneStep, FaultStep, Begin, NotSignedIn, Send,
     ApplySent, ReadLists, ApplyListing, ReadList, ApplyPage, PullDone, ApplyAnswer, Relist, Adopt,
     CreateList, UpdateList, DeleteList, AddTask, DeleteTask, Move, Logout, Login, PhoneMakesList,
     PhoneRenamesList, PhoneDeletesList, PhoneAddsTask, PhoneDeletesTask, Here, RoundFails,
     RequestFails, Crash, CrashInMove, Restart, EndRound, vars, pull, request
<1>4. {listing, relisted, Listed, NoListing} \subseteq Listing
  BY ListedType, NoListingType DEF TypeOK, ServerList
<1>5. ASSUME NEW answer \in {listing, relisted, Listed, NoListing}
      PROVE  Told(answer)'
  <2>1. Told(answer)
    BY <1>2, ListedTells, NoListingTells
  <2>2. answer \in Listing
    BY <1>4
  <2> QED BY <1>1, <2>1, <2>2, ToldStays
<1> QED BY <1>3, <1>5 DEF ListingsTold, Told

\* A request says it was answered when it was just made, or was before.
LEMMA AnswerKept ==
  ASSUME TypeOK, [Next]_vars, rpc'.step = "answered", rpc'.op = "delete",
         ~ \E l \in Lists : DeleteList(l)
  PROVE  rpc' = rpc
<1>2. rpc' # NoRequest
  BY DEF NoRequest
<1>3. DOMAIN rpc = {"step", "op", "list", "ok"}
  BY DEF TypeOK, NoRequest
<1>4. CASE ApplyAnswer \/ Relist
  BY <1>2, <1>3, <1>4 DEF ApplyAnswer, Relist
<1>5. CASE Adopt \/ RequestFails \/ Crash \/ \E u \in Uids, l, m \in Lists : CrashInMove(u, l, m)
  BY <1>2, <1>5 DEF Adopt, RequestFails, Crash, CrashInMove, Restart
<1>6. CASE \E l \in Lists : CreateList(l) \/ UpdateList(l)
  <2>1. PICK l \in Lists, op \in {"create", "update"} :
               \E ok \in {TRUE, FALSE, srv[l].live} : Answered(op, l, ok)
    BY <1>6 DEF CreateList, UpdateList
  <2>2. PICK ok \in {TRUE, FALSE, srv[l].live} : Answered(op, l, ok)
    BY <2>1
  <2> QED BY <2>1, <2>2 DEF Answered
<1>7. CASE UNCHANGED rpc
  BY <1>7
<1>8. \/ ApplyAnswer \/ Relist \/ Adopt \/ RequestFails \/ Crash \/ UNCHANGED rpc
      \/ \E u \in Uids, l, m \in Lists : CrashInMove(u, l, m)
      \/ \E l \in Lists : CreateList(l) \/ UpdateList(l)
  BY DEF Next, LoopStep, RequestStep, UserStep, PhoneStep, FaultStep, Begin, NotSignedIn,
     Send, ApplySent, ReadLists, ApplyListing, ReadList, ApplyPage, PullDone, AddTask, DeleteTask,
     Move, Logout, Login, PhoneMakesList, PhoneRenamesList, PhoneDeletesList, PhoneAddsTask,
     PhoneDeletesTask, Here, RoundFails, vars, request
<1> QED BY <1>4, <1>5, <1>6, <1>7, <1>8

LEMMA DeletedStep ==
  ASSUME TypeOK, MadeOnce, DeletedIsGone, [Next]_vars
  PROVE  DeletedIsGone'
<1>1. ServerGrows
  BY ServerStep
<1>2. SUFFICES ASSUME rpc'.step = "answered", rpc'.op = "delete", rpc'.ok
               PROVE  ~srv'[rpc'.list].live /\ srv'[rpc'.list].born # 0
  BY DEF DeletedIsGone, Forgets
<1>3. CASE rpc' = rpc
  <2>1. rpc.list \in Lists
    <3>1. rpc.step = "answered"
      BY <1>2, <1>3
    <3>2. rpc # NoRequest
      BY <3>1 DEF NoRequest
    <3>3. rpc \in [step : {"answered", "relist", "relisted"}, op : {"create", "update", "delete"},
                   list : Lists, ok : BOOLEAN] \cup {NoRequest}
      BY DEF TypeOK
    <3> QED BY <3>2, <3>3
  <2>2. ~srv[rpc.list].live /\ srv[rpc.list].born # 0
    BY <1>2, <1>3 DEF DeletedIsGone, Forgets
  <2> QED BY <1>1, <1>3, <2>1, <2>2 DEF ServerGrows
<1>4. ASSUME NEW l \in Lists, DeleteList(l)
      PROVE  ~srv'[rpc'.list].live /\ srv'[rpc'.list].born # 0
  <2>1. PICK ok \in {TRUE, ~srv[l].live} :
          /\ IF ok /\ srv[l].live THEN Remove(l) ELSE Refused
          /\ Answered("delete", l, ok)
    BY <1>4 DEF DeleteList
  <2>2. rpc'.list = l /\ rpc'.ok = ok
    BY <2>1 DEF Answered
  <2>3. srv[l].born # 0
    BY <1>4 DEF DeleteList, MadeOnce
  <2>4. ~srv'[l].live
    <3>1. CASE srv[l].live
      BY <1>2, <2>1, <2>2, <3>1, RemoveGrows
    <3>2. CASE ~srv[l].live
      BY <2>1, <3>2 DEF Refused, server
    <3> QED BY <3>1, <3>2
  <2>5. srv'[l].born # 0
    <3>1. clock \in Nat
      BY DEF TypeOK
    <3> QED BY <1>1, <2>3, <3>1 DEF ServerGrows
  <2> QED BY <2>2, <2>4, <2>5
<1> QED BY <1>2, <1>3, <1>4, AnswerKept

-----------------------------------------------------------------------------
(* The theorems. *)

LEMMA ListInit == Init => ListInvariant
<1> SUFFICES ASSUME Init PROVE ListInvariant
  OBVIOUS
<1>1. TypeOK
  BY InitTypes
<1>2. MadeOnce
  BY DEF Init, MadeOnce, NoList
<1>3. ListingsTold
  BY <1>1, <1>2, NoListingTells DEF Init, ListingsTold, Told
<1>4. DeletedIsGone
  BY DEF Init, DeletedIsGone, NoRequest
<1> QED BY <1>1, <1>2, <1>3, <1>4 DEF ListInvariant

LEMMA ListStep == ListInvariant /\ [Next]_vars => ListInvariant'
BY TypeStep, MadeStep, ToldStep, DeletedStep DEF ListInvariant

\* The inductive invariant of lists, with what a listing tells and what an answer
\* to a delete means, holds in every state.
THEOREM ListInvariance == Spec => []ListInvariant
<1>1. Init => ListInvariant
  BY ListInit
<1>2. ListInvariant /\ [Next]_vars => ListInvariant'
  BY ListStep
<1> QED BY <1>1, <1>2, PTL DEF Spec

\* Every variable keeps its type.
THEOREM ListTypes == Spec => []TypeOK
<1>1. ListInvariant => TypeOK
  BY DEF ListInvariant
<1> QED BY <1>1, ListInvariance, PTL

\* A listing takes a list of the cache only when the list is gone from the server,
\* or was made after the listing was.
LEMMA TakenAway ==
  ASSUME ListInvariant, NEW answer \in {listing, relisted}, TakeListing(answer),
         NEW l \in Lists, lists[l].here, ~lists'[l].here
  PROVE  ~srv[l].live \/ Overtaken(l, answer)
<1>1. l \notin answer.live
  BY DEF TakeListing, ListsFrom
<1> QED BY <1>1 DEF ListInvariant, ListingsTold

\* A list leaves the cache only once the server does not have it, or the user
\* signed out, or through a listing older than the list (store.rs remove_list_rows,
\* daemon.rs delete_list and logout).
THEOREM ListsLeaveOnlyWhenGone == Spec => LeavesOnlyWhenGone
<1> DEFINE Leaves == \A l \in Lists :
       lists[l].here /\ ~lists'[l].here =>
         \/ ~srv[l].live
         \/ account /\ ~account'
         \/ \E answer \in Applied : Overtaken(l, answer)
<1>1. ASSUME ListInvariant, [Next]_vars PROVE Leaves
  <2>1. SUFFICES ASSUME NEW l \in Lists, lists[l].here, ~lists'[l].here
                 PROVE  \/ ~srv[l].live
                        \/ account /\ ~account'
                        \/ \E answer \in Applied : Overtaken(l, answer)
    OBVIOUS
  <2>2. CASE ApplyListing
    BY <1>1, <2>1, <2>2, TakenAway DEF ApplyListing, Applied
  <2>3. CASE Adopt
    BY <1>1, <2>1, <2>3, TakenAway DEF Adopt, Applied, NoRequest
  <2>4. CASE ApplyAnswer
    <3>1. lists \in [Lists -> ListRow]
      BY <1>1 DEF ListInvariant, TypeOK, ListRow
    <3>2. Forgets(rpc) /\ l = rpc.list
      BY <2>1, <2>4, <3>1 DEF ApplyAnswer
    <3> QED BY <1>1, <2>4, <3>2 DEF ApplyAnswer, ListInvariant, DeletedIsGone
  <2>5. CASE Logout
    BY <2>5 DEF Logout
  <2>6. CASE ApplyPage
    <3>1. lists \in [Lists -> ListRow]
      BY <1>1 DEF ListInvariant, TypeOK, ListRow
    <3> QED BY <2>1, <2>6, <3>1 DEF ApplyPage, ListRow
  <2>7. CASE UNCHANGED lists
    BY <2>1, <2>7
  <2>8. \/ ApplyListing \/ Adopt \/ ApplyPage \/ ApplyAnswer \/ Logout \/ UNCHANGED lists
    BY <1>1 DEF Next, LoopStep, RequestStep, UserStep, PhoneStep, FaultStep, Begin, NotSignedIn,
       Send, ApplySent, ReadLists, ReadList, PullDone, Relist, CreateList, UpdateList, DeleteList,
       AddTask, DeleteTask, Move, Login, PhoneMakesList, PhoneRenamesList, PhoneDeletesList,
       PhoneAddsTask, PhoneDeletesTask, Here, RoundFails, RequestFails, Crash, CrashInMove, vars,
       cache
  <2> QED BY <2>2, <2>3, <2>4, <2>5, <2>6, <2>7, <2>8
<1>2. ListInvariant /\ [Next]_vars => [Leaves]_vars
  BY <1>1
<1> QED BY <1>2, ListInvariance, PTL DEF Spec, LeavesOnlyWhenGone

-----------------------------------------------------------------------------
(***************************************************************************)
(* Tasks.  A step is safe for a task when what it clears of it was only    *)
(* waiting to be deleted: the task is then shown in another list           *)
(* (GoneIsMoved).  What could undo this is an answer or a page that comes  *)
(* late: to a delete (DeletesTheGone), to a create (CreatesTheNew), or of  *)
(* a list's tasks (PageIsHeld).                                            *)
(***************************************************************************)

LEMMA PlaceParts == \A u \in Uids, l \in Lists : <<u, l>> \in Places
BY DEF Places

LEMMA OneRow ==
  ASSUME TypeOK, NEW u \in Uids, NEW l \in Lists
  PROVE  rows[<<u, l>>] \in RowStates
BY PlaceParts DEF TypeOK

\* No write is under way and no page is to be applied.
Quiet == todo = {} /\ pc \notin {"sent", "page"}

\* What is in memory of the round stays as it is, or goes.
RoundKept ==
  /\ \A p \in Places : \A op \in {"create", "delete"} : InFlight(p, op)' => InFlight(p, op)
  /\ pc' = "sent" => pc = "sent" /\ sent' = sent
  /\ pc' = "page" => pc = "page" /\ page' = page
  /\ page' \in {page, NoPage}

\* Of a task nothing goes but what waits to be deleted.
TaskKept(u) ==
  \A l \in Lists :
    LET p == <<u, l>> IN
    \/ rows'[p] = rows[p] /\ (p \in held' <=> p \in held)
    \/ rows[p] = "gone" /\ rows'[p] = "none" /\ (p \in held' <=> p \in held) /\ (Barred(l)' \/ Quiet')
    \/ rows[p] = "gone" /\ rows'[p] = "gone"

LEMMA SafeStep ==
  ASSUME TypeOK, OneAtATime, NEW u \in Uids, OneKept(u), fate'[u] = fate[u], RoundKept, TaskKept(u),
         \A l \in Lists : Barred(l) => Barred(l)' \/ Quiet'
  PROVE  OneKept(u)'
<1>1. fate'[u] = "unmade" => Unknown(u)'
  <2>1. SUFFICES ASSUME fate'[u] = "unmade", NEW l \in Lists
                 PROVE  /\ rows'[<<u, l>>] = "none" /\ <<u, l>> \notin held'
                        /\ u \notin page'.uids /\ ~InFlight(<<u, l>>, "create")'
    BY DEF Unknown
  <2>2. /\ rows[<<u, l>>] = "none" /\ <<u, l>> \notin held
        /\ u \notin page.uids /\ ~InFlight(<<u, l>>, "create")
    BY <2>1 DEF OneKept, Unknown
  <2> QED BY <2>2, PlaceParts DEF TaskKept, RoundKept, NoPage
<1>2. DeletesTheGone(u)'
  <2>1. SUFFICES ASSUME NEW l \in Lists, InFlight(<<u, l>>, "delete")'
                 PROVE  rows'[<<u, l>>] = "gone" \/ (rows'[<<u, l>>] = "none" /\ Barred(l)')
    BY DEF DeletesTheGone
  <2>2. ~Quiet'
    BY <2>1 DEF InFlight, Quiet
  <2>3. rows[<<u, l>>] = "gone" \/ (rows[<<u, l>>] = "none" /\ Barred(l))
    BY <2>1, PlaceParts DEF RoundKept, OneKept, DeletesTheGone
  <2> QED BY <2>2, <2>3 DEF TaskKept
<1>3. CreatesTheNew(u)'
  <2>1. SUFFICES ASSUME NEW l \in Lists, InFlight(<<u, l>>, "create")'
                 PROVE  /\ rows'[<<u, l>>] \in {"new", "none"}
                        /\ pc' = "sent" /\ sent'.at = <<u, l>> /\ sent'.op = "create" /\ sent'.ok
                             => <<u, l>> \in held'
    BY DEF CreatesTheNew, InFlight
  <2>2. InFlight(<<u, l>>, "create")
    BY <2>1, PlaceParts DEF RoundKept
  <2>3. rows[<<u, l>>] \in {"new", "none"}
    BY <2>2 DEF OneKept, CreatesTheNew
  <2>4. pc' = "sent" /\ sent'.at = <<u, l>> /\ sent'.op = "create" /\ sent'.ok => <<u, l>> \in held
    BY DEF OneKept, CreatesTheNew, RoundKept
  <2> QED BY <2>3, <2>4 DEF TaskKept
<1>4. SameIsHeld(u)'
  BY DEF OneKept, SameIsHeld, TaskKept
<1>5. PageIsHeld(u)'
  <2>1. SUFFICES ASSUME pc' = "page"
                 PROVE  LET p == <<u, page'.list>> IN
                        /\ rows'[p] = "same" => u \in page'.uids
                        /\ u \in page'.uids => \/ p \in held' \/ rows'[p] = "gone"
                                               \/ rows'[p] = "none" /\ Barred(page.list)'
    BY DEF PageIsHeld
  <2>2. pc = "page" /\ page' = page /\ ~Quiet'
    BY <2>1 DEF RoundKept, Quiet
  <2>3. page.list \in Lists
    BY <2>2 DEF OneAtATime
  <2>4. LET p == <<u, page.list>> IN
        /\ rows[p] = "same" => u \in page.uids
        /\ u \in page.uids => p \in held \/ rows[p] = "gone" \/ (rows[p] = "none" /\ Barred(page.list))
    BY <2>2 DEF OneKept, PageIsHeld
  <2> QED BY <2>2, <2>3, <2>4 DEF TaskKept
<1>6. GoneIsMoved(u)'
  <2>1. SUFFICES ASSUME NEW l \in Lists, rows'[<<u, l>>] = "gone" \/ InFlight(<<u, l>>, "delete")'
                 PROVE  \E m \in Lists : Shown(<<u, m>>)'
    BY DEF GoneIsMoved
  <2>2. rows[<<u, l>>] = "gone" \/ InFlight(<<u, l>>, "delete")
    BY <2>1, PlaceParts DEF TaskKept, RoundKept
  <2>3. PICK m \in Lists : Shown(<<u, m>>)
    BY <2>2 DEF OneKept, GoneIsMoved
  <2> QED BY <2>3 DEF TaskKept, Shown
<1>7. fate'[u] = "owed" => \E l \in Lists : Shown(<<u, l>>)' \/ <<u, l>> \in held'
  <2>1. SUFFICES ASSUME fate[u] = "owed"
                 PROVE  \E l \in Lists : Shown(<<u, l>>)' \/ <<u, l>> \in held'
    OBVIOUS
  <2>2. CASE \E m \in Lists : Shown(<<u, m>>)
    BY <2>2 DEF TaskKept, Shown
  <2>3. CASE ~ \E m \in Lists : Shown(<<u, m>>)
    <3>1. PICK l \in Lists : <<u, l>> \in held
      BY <2>1, <2>3 DEF OneKept
    <3>2. rows[<<u, l>>] # "gone"
      BY <2>3 DEF OneKept, GoneIsMoved
    <3> QED BY <3>1, <3>2 DEF TaskKept
  <2> QED BY <2>2, <2>3
<1> QED BY <1>1, <1>2, <1>3, <1>4, <1>5, <1>6, <1>7 DEF OneKept

\* A task the user let go of stays so, and only one not made yet is made.
LEMMA FateStep ==
  ASSUME TypeOK, [Next]_vars, NEW u \in Uids
  PROVE  /\ fate[u] = "let go" => fate'[u] = "let go"
         /\ fate'[u] # "let go" => fate'[u] = fate[u] \/ (fate[u] = "unmade" /\ fate'[u] = "owed")
<1>1. fate \in [Uids -> Fates]
  BY DEF TypeOK, Fates
<1>2. \/ fate' = fate
      \/ \E us : LetGo(us)
      \/ \E v \in Uids : fate[v] = "unmade" /\ fate' = [fate EXCEPT ![v] = "owed"]
  BY DEF Next, LoopStep, RequestStep, UserStep, PhoneStep, FaultStep, Begin, NotSignedIn, Send,
     ApplySent, ReadLists, ApplyListing, ReadList, ApplyPage, PullDone, ApplyAnswer, Relist, Adopt,
     TakeListing, CreateList, UpdateList, DeleteList, Make, Rename, Remove, Refused, AddTask,
     DeleteTask, Move, Logout, Login, PhoneMakesList, PhoneRenamesList, PhoneDeletesList,
     PhoneAddsTask, PhoneDeletesTask, RoundFails, RequestFails, Crash, CrashInMove, vars
<1>3. CASE \E us : LetGo(us)
  BY <1>1, <1>3 DEF LetGo
<1>4. CASE \E v \in Uids : fate[v] = "unmade" /\ fate' = [fate EXCEPT ![v] = "owed"]
  BY <1>1, <1>4
<1> QED BY <1>2, <1>3, <1>4

LEMMA RelistedStep ==
  ASSUME [Next]_vars
  PROVE  relisted' \in {relisted, Listed, NoListing}
BY DEF Next, LoopStep, RequestStep, UserStep, PhoneStep, FaultStep, Begin, NotSignedIn, Send,
   ApplySent, ReadLists, ApplyListing, ReadList, ApplyPage, PullDone, ApplyAnswer, Relist, Adopt,
   CreateList, UpdateList, DeleteList, AddTask, DeleteTask, Move, Logout, Login, PhoneMakesList,
   PhoneRenamesList, PhoneDeletesList, PhoneAddsTask, PhoneDeletesTask, Here, RoundFails,
   RequestFails, Crash, CrashInMove, Restart, vars, request

\* A list that is barred stays so, but for the loop's own listing.
LEMMA BarredStays ==
  ASSUME ListInvariant, [Next]_vars, ~ApplyListing, NEW l \in Lists, Barred(l)
  PROVE  Barred(l)'
<1>1. TypeOK
  BY DEF ListInvariant
<1>2. ~srv'[l].live /\ srv'[l].born # 0
  BY <1>1, ServerStep DEF ServerGrows, Barred
<1>3. ~lists'[l].here
  BY <1>1, CacheStep DEF Barred
<1>4. l \notin relisted'.live
  BY RelistedStep DEF Barred, Listed, NoListing
<1> QED BY <1>2, <1>3, <1>4 DEF Barred

\* What the round has in memory changes by a step of the loop, or goes.
LEMMA RoundStep ==
  ASSUME [Next]_vars
  PROVE  \/ Begin \/ Send \/ ApplySent \/ ReadLists \/ ApplyListing \/ ReadList \/ ApplyPage
         \/ EndRound
         \/ UNCHANGED <<pc, todo, sent, page>>
BY DEF Next, LoopStep, RequestStep, UserStep, PhoneStep, FaultStep, NotSignedIn, PullDone,
   ApplyAnswer, Relist, Adopt, CreateList, UpdateList, DeleteList, AddTask, DeleteTask, Move,
   Logout, Login, PhoneMakesList, PhoneRenamesList, PhoneDeletesList, PhoneAddsTask,
   PhoneDeletesTask, Here, RoundFails, RequestFails, Crash, CrashInMove, Restart, vars, push, pull

LEMMA OneAtATimeStep ==
  ASSUME TypeOK, OneAtATime, [Next]_vars
  PROVE  OneAtATime'
<1>1. rpc'.step # "relisted" => relisted' = NoListing
  <2>1. CASE Relist
    <3>1. DOMAIN rpc = {"step", "op", "list", "ok"}
      BY DEF TypeOK, NoRequest
    <3> QED BY <2>1, <3>1 DEF Relist
  <2>2. CASE ApplyAnswer \/ \E l \in Lists : CreateList(l) \/ UpdateList(l) \/ DeleteList(l)
    BY <2>2 DEF ApplyAnswer, CreateList, UpdateList, DeleteList, Ready, OneAtATime
  <2>3. CASE relisted' = NoListing
    BY <2>3
  <2>4. CASE UNCHANGED <<rpc, relisted>>
    BY <2>4 DEF OneAtATime
  <2>5. \/ Relist \/ ApplyAnswer \/ relisted' = NoListing \/ UNCHANGED <<rpc, relisted>>
        \/ \E l \in Lists : CreateList(l) \/ UpdateList(l) \/ DeleteList(l)
    BY DEF Next, LoopStep, RequestStep, UserStep, PhoneStep, FaultStep, Begin, NotSignedIn, Send,
       ApplySent, ReadLists, ApplyListing, ReadList, ApplyPage, PullDone, Adopt, AddTask,
       DeleteTask, Move, Logout, Login, PhoneMakesList, PhoneRenamesList, PhoneDeletesList,
       PhoneAddsTask, PhoneDeletesTask, Here, RoundFails, RequestFails, Crash, CrashInMove,
       Restart, vars, request
  <2> QED BY <2>1, <2>2, <2>3, <2>4, <2>5
<1>2. /\ pc' = "page" => page'.list \in Lists
      /\ todo' # {} => pc' \in {"push", "sent"}
      /\ pc' = "sent" => [at |-> sent'.at, op |-> sent'.op] \notin todo'
  <2>1. CASE Begin
    BY <2>1 DEF Begin
  <2>2. CASE Send
    <3>1. PICK w \in todo : todo' = todo \ {w} /\ sent'.at = w.at /\ sent'.op = w.op
      BY <2>2 DEF Send
    <3>2. w = [at |-> w.at, op |-> w.op]
      BY <3>1 DEF TypeOK
    <3> QED BY <2>2, <3>1, <3>2 DEF Send
  <2>3. CASE ApplySent \/ ReadLists \/ ApplyListing
    BY <2>3 DEF ApplySent, ReadLists, ApplyListing, push, OneAtATime
  <2>4. CASE ReadList
    <3>1. PICK l \in stale :
            IF srv[l].live
            THEN /\ page' = [list |-> l, uids |-> {u \in Uids : <<u, l>> \in held},
                             token |-> srv[l].at]
                 /\ pc' = "page"
            ELSE UNCHANGED <<page, pc>>
      BY <2>4 DEF ReadList
    <3>2. l \in Lists /\ pc = "pull" /\ UNCHANGED <<todo, sent>>
      BY <2>4 DEF TypeOK, ReadList, push
    <3>3. CASE srv[l].live
      <4>1. pc' = "page" /\ page'.list = l
        BY <3>1, <3>3
      <4> QED BY <3>2, <4>1 DEF OneAtATime
    <3>4. CASE ~srv[l].live
      BY <3>1, <3>2, <3>4 DEF OneAtATime
    <3> QED BY <3>3, <3>4
  <2>5. CASE ApplyPage \/ EndRound
    BY <2>5 DEF ApplyPage, EndRound, push, OneAtATime
  <2>6. CASE UNCHANGED <<pc, todo, sent, page>>
    BY <2>6 DEF OneAtATime
  <2> QED BY <2>1, <2>2, <2>3, <2>4, <2>5, <2>6, RoundStep
<1> QED BY <1>1, <1>2 DEF OneAtATime

LEMMA RoundStays ==
  ASSUME EndRound \/ UNCHANGED <<pc, todo, sent, page>>
  PROVE  RoundKept
BY DEF EndRound, RoundKept, InFlight

LEMMA KeptParts ==
  ASSUME KeepInvariant, [Next]_vars, NEW u \in Uids, fate'[u] # "let go"
  PROVE  TypeOK /\ ListInvariant /\ OneAtATime /\ OneKept(u)
BY FateStep DEF KeepInvariant, ListInvariant

\* A step that changes neither a task's rows nor what the server has of it.
LEMMA RestStep ==
  ASSUME KeepInvariant, [Next]_vars, ~ApplyListing, RoundKept,
         NEW u \in Uids, fate'[u] # "let go", fate'[u] = fate[u],
         \A l \in Lists : /\ rows'[<<u, l>>] = rows[<<u, l>>]
                          /\ <<u, l>> \in held' <=> <<u, l>> \in held
  PROVE  OneKept(u)'
<1>1. TypeOK /\ ListInvariant /\ OneAtATime /\ OneKept(u)
  BY KeptParts
<1>2. TaskKept(u)
  BY DEF TaskKept
<1>3. \A l \in Lists : Barred(l) => Barred(l)'
  BY <1>1, BarredStays
<1> QED BY <1>1, <1>2, <1>3, SafeStep

\* A step that takes lists from the cache, none of which shows the task.
LEMMA ClearStep ==
  ASSUME KeepInvariant, [Next]_vars, RoundKept,
         NEW u \in Uids, fate'[u] # "let go", fate'[u] = fate[u],
         NEW gone, rows' = RowsWithout(gone), held' = held,
         \A l \in Lists : Barred(l) => Barred(l)' \/ Quiet',
         \A l \in Lists : l \in gone /\ rows[<<u, l>>] # "none" =>
                            ~Shown(<<u, l>>) /\ (Barred(l)' \/ Quiet')
  PROVE  OneKept(u)'
<1>1. TypeOK /\ OneAtATime /\ OneKept(u)
  BY KeptParts
<1>2. TaskKept(u)
  <2>1. SUFFICES ASSUME NEW l \in Lists
                 PROVE  LET p == <<u, l>> IN
                        \/ rows'[p] = rows[p] /\ (p \in held' <=> p \in held)
                        \/ /\ rows[p] = "gone" /\ rows'[p] = "none"
                           /\ p \in held' <=> p \in held
                           /\ Barred(l)' \/ Quiet'
    BY DEF TaskKept
  <2>2. rows'[<<u, l>>] = IF l \in gone THEN "none" ELSE rows[<<u, l>>]
    BY PlaceParts DEF RowsWithout
  <2>3. rows[<<u, l>>] \in RowStates
    BY <1>1, OneRow
  <2> QED BY <2>2, <2>3 DEF RowStates, Shown
<1> QED BY <1>1, <1>2, SafeStep

\* A listing is taken: a task it takes a row of, unless its list is gone from the
\* server and the row waits to be deleted, is let go.
LEMMA TakeClears ==
  ASSUME ListInvariant, NEW answer \in {listing, relisted}, TakeListing(answer),
         NEW u \in Uids, fate'[u] # "let go", NEW l \in Lists,
         lists[l].here, l \notin answer.live, rows[<<u, l>>] # "none"
  PROVE  ~Shown(<<u, l>>) /\ ~srv[l].live
<1> DEFINE gone == {k \in Lists : lists[k].here /\ k \notin answer.live}
           taken == {v \in Uids : \E k \in gone :
                       \/ Shown(<<v, k>>) /\ ~srv[k].live
                       \/ rows[<<v, k>>] # "none" /\ Overtaken(k, answer)}
<1>1. LetGo(taken)
  BY DEF TakeListing
<1>2. u \notin taken
  <2> HIDE DEF taken
  <2> QED BY <1>1 DEF LetGo
<1>3. ~(Shown(<<u, l>>) /\ ~srv[l].live) /\ ~Overtaken(l, answer)
  BY <1>2
<1>4. ~srv[l].live
  BY <1>3 DEF ListInvariant, ListingsTold
<1> QED BY <1>3, <1>4

LEMMA FateStays ==
  ASSUME TypeOK, [Next]_vars, NEW u \in Uids, fate'[u] # "let go",
         UNCHANGED fate \/ \E us : LetGo(us)
  PROVE  fate'[u] = fate[u]
BY DEF LetGo

LEMMA ListingKept ==
  ASSUME KeepInvariant, ApplyListing, [Next]_vars, NEW u \in Uids, fate'[u] # "let go"
  PROVE  OneKept(u)'
<1>1. TypeOK /\ ListInvariant /\ OneAtATime
  BY KeptParts
<1>2. Quiet' /\ RoundKept
  BY <1>1 DEF ApplyListing, OneAtATime, Quiet, RoundKept, push, InFlight
<1>3. PICK gone : /\ rows' = RowsWithout(gone)
                  /\ gone = {l \in Lists : lists[l].here /\ l \notin listing.live}
  BY DEF ApplyListing, TakeListing
<1>4. \A l \in Lists : l \in gone /\ rows[<<u, l>>] # "none" => ~Shown(<<u, l>>)
  BY <1>1, <1>3, TakeClears DEF ApplyListing
<1>5. fate'[u] = fate[u]
  BY <1>1, FateStays DEF ApplyListing, TakeListing
<1>6. held' = held
  BY DEF ApplyListing, server
<1> QED BY <1>2, <1>3, <1>4, <1>5, <1>6, ClearStep

LEMMA AdoptKept ==
  ASSUME KeepInvariant, Adopt, [Next]_vars, NEW u \in Uids, fate'[u] # "let go"
  PROVE  OneKept(u)'
<1>1. TypeOK /\ ListInvariant /\ OneAtATime
  BY KeptParts
<1>2. RoundKept
  BY RoundStays DEF Adopt, push, pull
<1>3. PICK gone : /\ rows' = RowsWithout(gone)
                  /\ gone = {l \in Lists : lists[l].here /\ l \notin relisted.live}
  BY DEF Adopt, TakeListing
<1>4. ASSUME NEW l \in Lists, l \in gone, rows[<<u, l>>] # "none"
      PROVE  ~Shown(<<u, l>>) /\ Barred(l)'
  <2>1. ~Shown(<<u, l>>) /\ ~srv[l].live
    BY <1>1, <1>3, <1>4, TakeClears DEF Adopt
  <2>2. srv[l].born # 0
    BY <1>1, <1>3, <1>4 DEF ListInvariant, MadeOnce
  <2>3. ~lists'[l].here
    BY <1>3, <1>4 DEF Adopt, TakeListing, ListsFrom, NoList
  <2>4. srv' = srv /\ relisted' = NoListing
    BY DEF Adopt, server
  <2> QED BY <2>1, <2>2, <2>3, <2>4 DEF Barred, NoListing
<1>5. \A l \in Lists : Barred(l) => Barred(l)'
  <2>1. ~ApplyListing
    BY DEF Adopt, ApplyListing, push, pull
  <2> QED BY <1>1, <2>1, BarredStays
<1>6. fate'[u] = fate[u]
  BY <1>1, FateStays DEF Adopt, TakeListing
<1>7. held' = held
  BY DEF Adopt, server
<1> QED BY <1>2, <1>3, <1>4, <1>5, <1>6, <1>7, ClearStep

LEMMA ForgetKept ==
  ASSUME KeepInvariant, ApplyAnswer, [Next]_vars, NEW u \in Uids, fate'[u] # "let go"
  PROVE  OneKept(u)'
<1>1. TypeOK /\ ListInvariant /\ OneAtATime
  BY KeptParts
<1>2. RoundKept /\ held' = held /\ ~ApplyListing
  BY RoundStays DEF ApplyAnswer, push, pull, server, ApplyListing
<1>3. \A l \in Lists : Barred(l) => Barred(l)'
  BY <1>1, <1>2, BarredStays
<1>4. fate'[u] = fate[u]
  BY <1>1, FateStays DEF ApplyAnswer
<1>5. CASE ~Forgets(rpc)
  <2>1. rows' = rows
    BY <1>5 DEF ApplyAnswer
  <2> QED BY <1>2, <1>4, <2>1, RestStep
<1>6. CASE Forgets(rpc)
  <2> DEFINE gone == {rpc.list}
             shown == {v \in Uids : Shown(<<v, rpc.list>>) /\ ~srv[rpc.list].live}
  <2>1. rows' = RowsWithout(gone) /\ LetGo(shown) /\ lists' = [lists EXCEPT ![rpc.list] = NoList]
    BY <1>6 DEF ApplyAnswer
  <2>2. rpc.step = "answered" /\ ~srv[rpc.list].live /\ srv[rpc.list].born # 0
    BY <1>1, <1>6 DEF ApplyAnswer, ListInvariant, DeletedIsGone
  <2>3. u \notin shown
    <3> HIDE DEF shown
    <3> QED BY <2>1 DEF LetGo
  <2>4. ASSUME NEW l \in Lists, l \in gone
        PROVE  ~Shown(<<u, l>>) /\ Barred(l)'
    <3>1. ~Shown(<<u, l>>)
      BY <2>2, <2>3, <2>4
    <3>2. ~lists'[l].here
      <4>1. lists \in [Lists -> ListRow]
        BY <1>1 DEF TypeOK, ListRow
      <4> QED BY <2>1, <2>4, <4>1 DEF NoList
    <3>3. l \notin relisted'.live
      <4>1. relisted = NoListing
        BY <1>1, <2>2 DEF OneAtATime
      <4>2. relisted' = relisted
        BY DEF ApplyAnswer
      <4> QED BY <4>1, <4>2 DEF NoListing
    <3> QED BY <2>2, <2>4, <3>1, <3>2, <3>3 DEF Barred, ApplyAnswer, server
  <2> HIDE DEF gone
  <2> QED BY <1>2, <1>3, <1>4, <2>1, <2>4, ClearStep
<1> QED BY <1>5, <1>6

\* Signing out lets go of every task that is shown; of the others the cache has no
\* row, for what waits to be deleted is shown elsewhere.
LEMMA LogoutKept ==
  ASSUME KeepInvariant, Logout, [Next]_vars, NEW u \in Uids, fate'[u] # "let go"
  PROVE  OneKept(u)'
<1>1. TypeOK /\ ListInvariant /\ OneAtATime /\ OneKept(u)
  BY KeptParts
<1>2. RoundKept /\ held' = held /\ ~ApplyListing
  BY RoundStays DEF Logout, push, pull, server, ApplyListing
<1>3. fate'[u] = fate[u]
  BY <1>1, FateStays DEF Logout
<1>4. ASSUME NEW l \in Lists
      PROVE  rows[<<u, l>>] = "none" /\ rows'[<<u, l>>] = "none"
  <2> DEFINE shown == {v \in Uids : \E k \in Lists : Shown(<<v, k>>)}
  <2>1. LetGo(shown)
    BY DEF Logout
  <2>2. u \notin shown
    <3> HIDE DEF shown
    <3> QED BY <2>1 DEF LetGo
  <2>3. rows[<<u, l>>] \notin {"new", "same", "gone"}
    BY <1>1, <2>2 DEF OneKept, GoneIsMoved, Shown
  <2> QED BY <1>1, <2>3, OneRow, PlaceParts DEF RowStates, Logout
<1> QED BY <1>2, <1>3, <1>4, RestStep

-----------------------------------------------------------------------------
(* The user's changes to tasks. *)

LEMMA AddKept ==
  ASSUME KeepInvariant, [Next]_vars, NEW u \in Uids, fate'[u] # "let go",
         NEW v \in Uids, NEW k \in Lists, AddTask(v, k)
  PROVE  OneKept(u)'
<1>1. TypeOK /\ ListInvariant /\ OneAtATime /\ OneKept(u)
  BY KeptParts
<1>2. RoundKept /\ held' = held /\ ~ApplyListing /\ UNCHANGED <<pc, todo, sent, page>>
  BY RoundStays DEF AddTask, push, pull, server, ApplyListing
<1>3. rows' = [rows EXCEPT ![<<v, k>>] = "new"] /\ fate' = [fate EXCEPT ![v] = "owed"]
  BY DEF AddTask
<1>4. rows \in [Places -> RowStates] /\ fate \in [Uids -> Fates]
  BY <1>1 DEF TypeOK, Fates
<1>5. CASE u # v
  <2>1. \A l \in Lists : rows'[<<u, l>>] = rows[<<u, l>>]
    BY <1>3, <1>4, <1>5, PlaceParts
  <2>2. fate'[u] = fate[u]
    BY <1>3, <1>4, <1>5
  <2> QED BY <1>2, <2>1, <2>2, RestStep
<1>6. CASE u = v
  <2>1. Unknown(u)
    BY <1>1, <1>6 DEF AddTask, OneKept
  <2>2. \A l \in Lists : rows'[<<u, l>>] = IF l = k THEN "new" ELSE "none"
    BY <1>3, <1>4, <1>6, <2>1, PlaceParts DEF Unknown
  <2>3. fate'[u] = "owed" /\ Shown(<<u, k>>)'
    BY <1>3, <1>4, <1>6, <2>2 DEF Shown
  <2>4. \A l \in Lists : ~InFlight(<<u, l>>, "delete")'
    <3>1. \A l \in Lists : ~Shown(<<u, l>>)
      BY <2>1 DEF Unknown, Shown
    <3> QED BY <1>1, <1>2, <3>1, PlaceParts DEF OneKept, GoneIsMoved, RoundKept
  <2>5. CreatesTheNew(u)'
    BY <1>1, <1>2, <2>2 DEF OneKept, CreatesTheNew
  <2>6. PageIsHeld(u)'
    <3>1. pc = "page" => page.list \in Lists
      BY <1>1 DEF OneAtATime
    <3>2. u \notin page.uids
      BY <2>1, <3>1 DEF Unknown
    <3> QED BY <1>2, <2>2, <3>1, <3>2 DEF PageIsHeld
  <2> QED BY <2>2, <2>3, <2>4, <2>5, <2>6
          DEF OneKept, DeletesTheGone, SameIsHeld, GoneIsMoved
<1> QED BY <1>5, <1>6

LEMMA DeleteKept ==
  ASSUME KeepInvariant, [Next]_vars, NEW u \in Uids, fate'[u] # "let go",
         NEW v \in Uids, NEW k \in Lists, DeleteTask(<<v, k>>)
  PROVE  OneKept(u)'
<1>1. TypeOK
  BY KeptParts
<1>2. RoundKept /\ held' = held /\ ~ApplyListing
  BY RoundStays DEF DeleteTask, push, pull, server, ApplyListing
<1>3. fate'[u] = fate[u]
  BY <1>1, FateStays DEF DeleteTask
<1>4. u # v
  BY DEF DeleteTask, LetGo
<1>5. \A l \in Lists : rows'[<<u, l>>] = rows[<<u, l>>]
  BY <1>1, <1>4, PlaceParts DEF DeleteTask, TypeOK
<1> QED BY <1>2, <1>3, <1>5, RestStep

\* Half a move, or a whole one: the new row first; then the old one is forgotten, or
\* waits to be deleted.
MovesTo(u, l, m) ==
  \/ rows' = [rows EXCEPT ![<<u, m>>] = "new"]
  \/ rows' = [rows EXCEPT ![<<u, m>>] = "new", ![<<u, l>>] = Without(@)]

LEMMA MoveKept ==
  ASSUME KeepInvariant, [Next]_vars, ~ApplyListing, RoundKept, held' = held, fate' = fate,
         NEW u \in Uids, fate'[u] # "let go",
         NEW v \in Uids, NEW k \in Lists, NEW m \in Lists, CanMove(v, k, m), MovesTo(v, k, m)
  PROVE  OneKept(u)'
<1>1. TypeOK /\ ListInvariant /\ OneAtATime /\ OneKept(u)
  BY KeptParts
<1>2. rows \in [Places -> RowStates] /\ <<v, k>> \in Places /\ <<v, m>> \in Places
  BY <1>1, PlaceParts DEF TypeOK
<1>3. CASE u # v
  <2>1. \A l \in Lists : rows'[<<u, l>>] = rows[<<u, l>>]
    BY <1>2, <1>3, PlaceParts DEF MovesTo
  <2> QED BY <2>1, RestStep
<1>4. CASE u = v
  <2>1. Shown(<<u, k>>) /\ rows[<<u, m>>] = "none" /\ k # m /\ lists[m].here
    BY <1>4 DEF CanMove
  <2>2. /\ \A l \in Lists \ {k, m} : rows'[<<u, l>>] = rows[<<u, l>>]
        /\ rows'[<<u, m>>] = "new"
        /\ rows'[<<u, k>>] \in {rows[<<u, k>>], Without(rows[<<u, k>>])}
    BY <1>2, <1>4, <2>1, PlaceParts DEF MovesTo
  <2>3. \/ rows[<<u, k>>] = "new" /\ rows'[<<u, k>>] \in {"new", "none"}
        \/ rows[<<u, k>>] = "same" /\ rows'[<<u, k>>] \in {"same", "gone"}
    BY <2>1, <2>2 DEF Shown, Without
  <2>4. Shown(<<u, m>>)'
    BY <2>2 DEF Shown
  <2>5. ~Unknown(u) /\ fate'[u] # "unmade"
    BY <1>1, <2>1 DEF OneKept, Unknown, Shown
  <2>6. ~Barred(m)
    BY <2>1 DEF Barred
  <2>7. \A l \in Lists : Barred(l) => Barred(l)'
    BY <1>1, BarredStays
  <2>8. DeletesTheGone(u)'
    <3>1. SUFFICES ASSUME NEW l \in Lists, InFlight(<<u, l>>, "delete")'
                   PROVE  rows'[<<u, l>>] = "gone" \/ (rows'[<<u, l>>] = "none" /\ Barred(l)')
      BY DEF DeletesTheGone
    <3>2. rows[<<u, l>>] = "gone" \/ (rows[<<u, l>>] = "none" /\ Barred(l))
      BY <1>1, <3>1, PlaceParts DEF RoundKept, OneKept, DeletesTheGone
    <3>3. l \notin {k, m}
      BY <2>1, <2>3, <2>6, <3>2
    <3> QED BY <2>2, <2>7, <3>2, <3>3
  <2>9. CreatesTheNew(u)'
    <3>1. SUFFICES ASSUME NEW l \in Lists, InFlight(<<u, l>>, "create")'
                   PROVE  /\ rows'[<<u, l>>] \in {"new", "none"}
                          /\ pc' = "sent" /\ sent'.at = <<u, l>> /\ sent'.op = "create" /\ sent'.ok
                               => <<u, l>> \in held'
      BY DEF CreatesTheNew, InFlight
    <3>2. rows[<<u, l>>] \in {"new", "none"}
      BY <1>1, <3>1, PlaceParts DEF RoundKept, OneKept, CreatesTheNew
    <3>3. rows'[<<u, l>>] \in {"new", "none"}
      BY <2>2, <2>3, <3>2
    <3> QED BY <1>1, <3>3 DEF RoundKept, OneKept, CreatesTheNew
  <2>10. SameIsHeld(u)'
    <3>1. SUFFICES ASSUME NEW l \in Lists, rows'[<<u, l>>] = "same"
                   PROVE  <<u, l>> \in held
      BY DEF SameIsHeld
    <3>2. rows[<<u, l>>] = "same"
      BY <2>2, <2>3, <3>1
    <3> QED BY <1>1, <3>2 DEF OneKept, SameIsHeld
  <2>11. PageIsHeld(u)'
    <3>1. SUFFICES ASSUME pc' = "page"
                   PROVE  LET p == <<u, page'.list>> IN
                          /\ rows'[p] = "same" => u \in page'.uids
                          /\ u \in page'.uids => \/ p \in held' \/ rows'[p] = "gone"
                                                 \/ rows'[p] = "none" /\ Barred(page.list)'
      BY DEF PageIsHeld
    <3>2. pc = "page" /\ page' = page /\ page.list \in Lists
      BY <1>1, <3>1 DEF RoundKept, OneAtATime
    <3>3. LET p == <<u, page.list>> IN
          /\ rows[p] = "same" => u \in page.uids
          /\ u \in page.uids => p \in held \/ rows[p] = "gone" \/ (rows[p] = "none" /\ Barred(page.list))
      BY <1>1, <3>2 DEF OneKept, PageIsHeld
    <3>4. CASE page.list \notin {k, m}
      BY <2>2, <2>7, <3>2, <3>3, <3>4
    <3>5. CASE page.list = k
      BY <2>3, <3>2, <3>3, <3>5
    <3>6. CASE page.list = m
      BY <2>1, <2>2, <2>6, <3>2, <3>3, <3>6
    <3> QED BY <3>4, <3>5, <3>6
  <2> QED BY <2>4, <2>5, <2>8, <2>9, <2>10, <2>11 DEF OneKept, GoneIsMoved
<1> QED BY <1>3, <1>4

-----------------------------------------------------------------------------
(* Lists and tasks that others write. *)

\* A list is removed from the server: what is in it and nowhere else is let go.
LEMMA RemoveKept ==
  ASSUME KeepInvariant, [Next]_vars, ~ApplyListing, RoundKept, rows' = rows,
         NEW k \in Lists, Remove(k), NEW u \in Uids, fate'[u] # "let go"
  PROVE  OneKept(u)'
<1>1. TypeOK /\ ListInvariant /\ OneAtATime /\ OneKept(u)
  BY KeptParts
<1>2. fate'[u] = fate[u]
  BY <1>1, FateStays DEF Remove
<1>3. u \notin Held(k) /\ held' = {p \in held : p[2] # k}
  BY DEF Remove, LetGo
<1>4. TaskKept(u)
  <2>1. SUFFICES ASSUME NEW l \in Lists
                 PROVE  \/ rows'[<<u, l>>] = rows[<<u, l>>] /\ (<<u, l>> \in held' <=> <<u, l>> \in held)
                        \/ rows[<<u, l>>] = "gone" /\ rows'[<<u, l>>] = "gone"
    BY DEF TaskKept
  <2>2. CASE l # k
    BY <1>3, <2>2
  <2>3. CASE l = k
    <3>1. <<u, k>> \notin held \/ rows[<<u, k>>] = "gone"
      <4>1. ~Shown(<<u, k>>) /\ ~(<<u, k>> \in held /\ rows[<<u, k>>] = "none")
        BY <1>3 DEF Held
      <4> QED BY <1>1, <4>1, OneRow DEF RowStates, Shown
    <3> QED BY <1>3, <2>3, <3>1
  <2> QED BY <2>2, <2>3
<1>5. \A l \in Lists : Barred(l) => Barred(l)'
  BY <1>1, BarredStays
<1> QED BY <1>1, <1>2, <1>4, <1>5, SafeStep

LEMMA PhoneAddKept ==
  ASSUME KeepInvariant, [Next]_vars, NEW u \in Uids, fate'[u] # "let go",
         NEW v \in Uids, NEW k \in Lists, PhoneAddsTask(v, k)
  PROVE  OneKept(u)'
<1>1. TypeOK /\ ListInvariant /\ OneAtATime /\ OneKept(u)
  BY KeptParts
<1>2. RoundKept /\ rows' = rows /\ ~ApplyListing /\ UNCHANGED <<pc, todo, sent, page>>
  BY RoundStays DEF PhoneAddsTask, Here, cache, push, pull, ApplyListing
<1>3. held' = held \cup {<<v, k>>} /\ fate' = [fate EXCEPT ![v] = "owed"]
  BY DEF PhoneAddsTask, PhoneWrites
<1>4. fate \in [Uids -> Fates]
  BY <1>1 DEF TypeOK, Fates
<1>5. CASE u # v
  <2>1. \A l \in Lists : <<u, l>> \in held' <=> <<u, l>> \in held
    BY <1>3, <1>5
  <2>2. fate'[u] = fate[u]
    BY <1>3, <1>4, <1>5
  <2> QED BY <1>2, <2>1, <2>2, RestStep
<1>6. CASE u = v
  <2>1. Unknown(u)
    BY <1>1, <1>6 DEF PhoneAddsTask, OneKept
  <2>2. fate'[u] = "owed" /\ <<u, k>> \in held'
    BY <1>3, <1>4, <1>6
  <2>3. \A l \in Lists : ~InFlight(<<u, l>>, "delete")'
    <3>1. \A l \in Lists : ~Shown(<<u, l>>)
      BY <2>1 DEF Unknown, Shown
    <3> QED BY <1>1, <1>2, <3>1, PlaceParts DEF OneKept, GoneIsMoved, RoundKept
  <2>4. CreatesTheNew(u)'
    BY <1>1, <1>2, <1>3 DEF OneKept, CreatesTheNew, InFlight
  <2>5. PageIsHeld(u)'
    <3>1. pc = "page" => page.list \in Lists
      BY <1>1 DEF OneAtATime
    <3>2. pc = "page" => u \notin page.uids /\ rows[<<u, page.list>>] = "none"
      BY <2>1, <3>1 DEF Unknown
    <3> QED BY <1>2, <3>1, <3>2 DEF PageIsHeld
  <2> QED BY <1>2, <2>1, <2>2, <2>3, <2>4, <2>5
          DEF OneKept, DeletesTheGone, SameIsHeld, GoneIsMoved, Unknown
<1> QED BY <1>5, <1>6

LEMMA PhoneDeleteKept ==
  ASSUME KeepInvariant, [Next]_vars, NEW u \in Uids, fate'[u] # "let go",
         NEW v \in Uids, NEW k \in Lists, PhoneDeletesTask(<<v, k>>)
  PROVE  OneKept(u)'
<1>1. TypeOK /\ ListInvariant /\ OneAtATime /\ OneKept(u)
  BY KeptParts
<1>2. RoundKept /\ rows' = rows /\ ~ApplyListing
  BY RoundStays DEF PhoneDeletesTask, Here, cache, push, pull, ApplyListing
<1>3. held' = held \ {<<v, k>>}
  BY DEF PhoneDeletesTask, PhoneWrites
<1>4. fate'[u] = fate[u]
  BY <1>1, FateStays DEF PhoneDeletesTask
<1>5. u # v \/ rows[<<v, k>>] = "gone"
  BY DEF PhoneDeletesTask, LetGo
<1>6. TaskKept(u)
  BY <1>2, <1>3, <1>5 DEF TaskKept
<1>7. \A l \in Lists : Barred(l) => Barred(l)'
  BY <1>1, <1>2, BarredStays
<1> QED BY <1>1, <1>2, <1>4, <1>6, <1>7, SafeStep

-----------------------------------------------------------------------------
(* The loop. *)

LEMMA BeginKept ==
  ASSUME KeepInvariant, Begin, [Next]_vars, NEW u \in Uids, fate'[u] # "let go"
  PROVE  OneKept(u)'
<1>1. TypeOK /\ ListInvariant /\ OneAtATime /\ OneKept(u)
  BY KeptParts
<1>2. UNCHANGED <<lists, rows, srv, held, relisted, page, fate>> /\ pc' = "push"
  BY DEF Begin, cache, server, pull, request
<1>3. ASSUME NEW l \in Lists, NEW op, InFlight(<<u, l>>, op)'
      PROVE  op = IF rows[<<u, l>>] = "new" THEN "create" ELSE "delete"
  <2>1. [at |-> <<u, l>>, op |-> op] \in todo'
    BY <1>2, <1>3 DEF InFlight
  <2>2. PICK p \in Places : [at |-> <<u, l>>, op |-> op]
                              = [at |-> p, op |-> IF rows[p] = "new" THEN "create" ELSE "delete"]
    BY <2>1 DEF Begin
  <2> QED BY <2>2
<1>4. ASSUME NEW l \in Lists, NEW op, InFlight(<<u, l>>, op)'
      PROVE  rows[<<u, l>>] \in {"new", "gone"}
  <2>1. [at |-> <<u, l>>, op |-> op] \in todo'
    BY <1>2, <1>4 DEF InFlight
  <2>2. PICK p \in Places : Pending(p) /\ p = <<u, l>>
    BY <2>1 DEF Begin
  <2> QED BY <2>2 DEF Pending
<1>5. \A l \in Lists : /\ InFlight(<<u, l>>, "delete")' => rows[<<u, l>>] = "gone"
                       /\ InFlight(<<u, l>>, "create")' => rows[<<u, l>>] = "new"
  BY <1>3, <1>4
<1>6. fate'[u] = "unmade" => Unknown(u)'
  BY <1>1, <1>2, <1>5 DEF OneKept, Unknown
<1>7. DeletesTheGone(u)' /\ CreatesTheNew(u)'
  BY <1>2, <1>5 DEF DeletesTheGone, CreatesTheNew
<1>8. GoneIsMoved(u)'
  BY <1>1, <1>2, <1>5 DEF OneKept, GoneIsMoved, Shown
<1>9. SameIsHeld(u)' /\ PageIsHeld(u)'
  BY <1>1, <1>2 DEF OneKept, SameIsHeld, PageIsHeld
<1> QED BY <1>1, <1>2, <1>6, <1>7, <1>8, <1>9 DEF OneKept, Shown

LEMMA SendKept ==
  ASSUME KeepInvariant, Send, [Next]_vars, NEW u \in Uids, fate'[u] # "let go"
  PROVE  OneKept(u)'
<1>1. TypeOK /\ ListInvariant /\ OneAtATime /\ OneKept(u)
  BY KeptParts
<1>2. UNCHANGED <<rows, page, fate>> /\ pc = "push" /\ pc' = "sent" /\ ~ApplyListing
  BY DEF Send, cache, pull, ApplyListing
<1>3. PICK w \in todo :
        LET taken == w.op = "delete" \/ srv[w.at[2]].live IN
        /\ todo' = todo \ {w}
        /\ sent' = [at |-> w.at, op |-> w.op, ok |-> taken]
        /\ held' = IF ~taken THEN held
                   ELSE IF w.op = "create" THEN held \cup {w.at} ELSE held \ {w.at}
  BY DEF Send
<1>4. w = [at |-> w.at, op |-> w.op] /\ w.op \in {"create", "delete"} /\ w.at \in Places
  BY <1>1, <1>3 DEF TypeOK
<1>5. \A p \in Places, op \in {"create", "delete"} : InFlight(p, op)' => InFlight(p, op)
  BY <1>2, <1>3, <1>4 DEF InFlight
<1>6. \A l \in Lists : Barred(l) => Barred(l)'
  BY <1>1, <1>2, BarredStays
<1>7. CASE w.op = "delete" /\ \E l \in Lists : w.at = <<u, l>>
  <2>1. PICK l \in Lists : w.at = <<u, l>>
    BY <1>7
  <2>2. InFlight(<<u, l>>, "delete") /\ held' = held \ {<<u, l>>} /\ sent'.op = "delete"
    BY <1>3, <1>4, <1>7, <2>1 DEF InFlight
  <2>3. rows[<<u, l>>] \in {"gone", "none"}
    BY <1>1, <2>2 DEF OneKept, DeletesTheGone
  <2>4. PICK m \in Lists : Shown(<<u, m>>)
    BY <1>1, <2>2 DEF OneKept, GoneIsMoved
  <2>5. fate'[u] = fate[u] /\ fate[u] # "unmade" /\ Shown(<<u, m>>)'
    BY <1>1, <1>2, <2>4 DEF OneKept, Unknown, Shown
  <2>6. DeletesTheGone(u)' /\ GoneIsMoved(u)'
    BY <1>1, <1>2, <1>5, <1>6, <2>5, PlaceParts DEF OneKept, DeletesTheGone, GoneIsMoved
  <2>7. CreatesTheNew(u)'
    BY <1>1, <1>2, <1>5, <2>2, PlaceParts DEF OneKept, CreatesTheNew
  <2>8. SameIsHeld(u)'
    BY <1>1, <1>2, <2>2, <2>3 DEF OneKept, SameIsHeld
  <2>9. PageIsHeld(u)'
    BY <1>2 DEF PageIsHeld
  <2> QED BY <2>5, <2>6, <2>7, <2>8, <2>9 DEF OneKept
<1>8. CASE w.op = "create" \/ ~ \E l \in Lists : w.at = <<u, l>>
  <2>1. \A l \in Lists : <<u, l>> \in held => <<u, l>> \in held'
    BY <1>3, <1>4, <1>8
  <2>2. DeletesTheGone(u)'
    BY <1>1, <1>2, <1>5, <1>6, PlaceParts DEF OneKept, DeletesTheGone
  <2>3. GoneIsMoved(u)'
    BY <1>1, <1>2, <1>5, PlaceParts DEF OneKept, GoneIsMoved, Shown
  <2>4. CreatesTheNew(u)'
    <3>1. ASSUME NEW l \in Lists, sent'.at = <<u, l>>, sent'.op = "create", sent'.ok
          PROVE  <<u, l>> \in held'
      BY <1>3, <1>4, <3>1
    <3> QED BY <1>1, <1>2, <1>5, <3>1, PlaceParts DEF OneKept, CreatesTheNew
  <2>5. SameIsHeld(u)'
    BY <1>1, <1>2, <2>1 DEF OneKept, SameIsHeld
  <2>6. PageIsHeld(u)'
    BY <1>2 DEF PageIsHeld
  <2>7. fate'[u] = "unmade" => Unknown(u)'
    <3>1. SUFFICES ASSUME fate[u] = "unmade" PROVE Unknown(u)'
      BY <1>2
    <3>2. Unknown(u)
      BY <1>1, <3>1 DEF OneKept
    <3>3. \A l \in Lists : w # [at |-> <<u, l>>, op |-> "create"]
      BY <1>3, <3>2 DEF Unknown, InFlight
    <3> QED BY <1>2, <1>3, <1>4, <1>5, <3>2, <3>3, PlaceParts DEF Unknown
  <2>8. fate'[u] = "owed" => \E l \in Lists : Shown(<<u, l>>)' \/ <<u, l>> \in held'
    BY <1>1, <1>2, <2>1 DEF OneKept, Shown
  <2> QED BY <2>2, <2>3, <2>4, <2>5, <2>6, <2>7, <2>8 DEF OneKept
<1> QED BY <1>4, <1>7, <1>8

LEMMA AnsweredKept ==
  ASSUME KeepInvariant, ApplySent, [Next]_vars, NEW u \in Uids, fate'[u] # "let go"
  PROVE  OneKept(u)'
<1>1. TypeOK /\ ListInvariant /\ OneAtATime /\ OneKept(u)
  BY KeptParts
<1>2. /\ UNCHANGED <<held, todo, page, fate>>
      /\ pc = "sent" /\ pc' = "push" /\ ~ApplyListing
  BY DEF ApplySent, server, pull, ApplyListing
<1>3. rows' = [rows EXCEPT ![sent.at] = IF ~sent.ok THEN @
                                        ELSE IF sent.op = "delete" THEN "none"
                                        ELSE IF @ = "new" THEN "same" ELSE @]
  BY DEF ApplySent
<1>4. rows \in [Places -> RowStates]
  BY <1>1 DEF TypeOK
<1>5. RoundKept
  BY <1>2 DEF RoundKept, InFlight
<1>6. CASE \A l \in Lists : rows'[<<u, l>>] = rows[<<u, l>>]
  BY <1>2, <1>5, <1>6, RestStep
<1>7. ASSUME NEW k \in Lists, rows'[<<u, k>>] # rows[<<u, k>>]
      PROVE  OneKept(u)'
  <2>1. sent.at = <<u, k>> /\ sent.ok /\ (sent.op = "delete" \/ rows[<<u, k>>] = "new")
    BY <1>3, <1>4, <1>7, PlaceParts
  <2>2. sent.op \in {"create", "delete"} /\ InFlight(<<u, k>>, sent.op)
    <3>1. sent # NoWrite
      <4>1. ~NoWrite.ok
        BY DEF NoWrite
      <4>2. sent = NoWrite => sent.ok = NoWrite.ok
        OBVIOUS
      <4> QED BY <2>1, <4>1, <4>2
    <3>2. sent.op \in {"create", "delete"}
      BY <1>1, <3>1 DEF TypeOK
    <3> QED BY <1>2, <2>1, <3>2 DEF InFlight
  <2>3. \A l \in Lists \ {k} : rows'[<<u, l>>] = rows[<<u, l>>]
    <3>1. \A p \in Places : p # <<u, k>> => rows'[p] = rows[p]
      BY <1>3, <1>4, <2>1
    <3> QED BY <3>1, PlaceParts
  <2>4. rows'[<<u, k>>] = IF sent.op = "delete" THEN "none" ELSE "same"
    BY <1>3, <1>4, <2>1, PlaceParts
  <2>5. \A l \in Lists, op \in {"create", "delete"} :
          InFlight(<<u, l>>, op)' => InFlight(<<u, l>>, op) /\ (l # k \/ op # sent.op)
    BY <1>1, <1>2, <1>5, <2>1, PlaceParts DEF OneAtATime, InFlight, RoundKept
  <2>6. \A l \in Lists : Barred(l) => Barred(l)'
    BY <1>1, <1>2, BarredStays
  <2>7. PageIsHeld(u)'
    BY <1>2 DEF PageIsHeld
  <2>8. CASE sent.op = "delete"
    <3>1. rows[<<u, k>>] \in {"gone", "none"}
      BY <1>1, <2>2, <2>8 DEF OneKept, DeletesTheGone
    <3>2. PICK m \in Lists : Shown(<<u, m>>)
      BY <1>1, <2>2, <2>8 DEF OneKept, GoneIsMoved
    <3>3. Shown(<<u, m>>)' /\ fate'[u] # "unmade"
      BY <1>1, <1>2, <2>3, <3>1, <3>2 DEF OneKept, Unknown, Shown
    <3>4. DeletesTheGone(u)' /\ GoneIsMoved(u)'
      BY <1>1, <2>3, <2>5, <2>6, <2>8, <3>3 DEF OneKept, DeletesTheGone, GoneIsMoved
    <3>5. CreatesTheNew(u)' /\ SameIsHeld(u)'
      BY <1>1, <1>2, <2>3, <2>4, <2>5, <2>8 DEF OneKept, CreatesTheNew, SameIsHeld
    <3> QED BY <2>7, <3>3, <3>4, <3>5 DEF OneKept
  <2>9. CASE sent.op = "create"
    <3>1. rows[<<u, k>>] = "new" /\ rows'[<<u, k>>] = "same" /\ <<u, k>> \in held
      BY <1>1, <1>2, <2>1, <2>2, <2>4, <2>9 DEF OneKept, CreatesTheNew
    <3>2. Shown(<<u, k>>)' /\ fate'[u] # "unmade"
      BY <1>1, <1>2, <3>1 DEF OneKept, Unknown, Shown
    <3>3. DeletesTheGone(u)' /\ GoneIsMoved(u)'
      BY <1>1, <2>3, <2>5, <2>6, <3>1, <3>2 DEF OneKept, DeletesTheGone, GoneIsMoved
    <3>4. CreatesTheNew(u)' /\ SameIsHeld(u)'
      BY <1>1, <1>2, <2>3, <2>5, <2>9, <3>1 DEF OneKept, CreatesTheNew, SameIsHeld
    <3> QED BY <2>7, <3>2, <3>3, <3>4 DEF OneKept
  <2> QED BY <2>2, <2>8, <2>9
<1> QED BY <1>6, <1>7

LEMMA ReadKept ==
  ASSUME KeepInvariant, ReadList, [Next]_vars, NEW u \in Uids, fate'[u] # "let go"
  PROVE  OneKept(u)'
<1>1. TypeOK /\ ListInvariant /\ OneAtATime /\ OneKept(u)
  BY KeptParts
<1>2. /\ UNCHANGED <<lists, rows, srv, held, todo, sent, relisted, fate>>
      /\ pc = "pull" /\ ~ApplyListing
  BY DEF ReadList, cache, server, push, request, ApplyListing
<1>3. PICK l \in stale :
        IF srv[l].live
        THEN /\ page' = [list |-> l, uids |-> {v \in Uids : <<v, l>> \in held}, token |-> srv[l].at]
             /\ pc' = "page"
        ELSE UNCHANGED <<page, pc>>
  BY DEF ReadList
<1>4. CASE ~srv[l].live
  <2>1. RoundKept
    BY <1>2, <1>3, <1>4, RoundStays
  <2> QED BY <1>2, <2>1, RestStep
<1>5. CASE srv[l].live
  <2>1. /\ pc' = "page" /\ page'.list = l /\ l \in Lists
        /\ u \in page'.uids <=> <<u, l>> \in held
    <3> DEFINE uids == {v \in Uids : <<v, l>> \in held}
    <3>1. page' = [list |-> l, uids |-> uids, token |-> srv[l].at] /\ pc' = "page"
      BY <1>3, <1>5
    <3>2. l \in Lists
      BY <1>1, <1>3 DEF TypeOK
    <3>3. u \in uids <=> <<u, l>> \in held
      OBVIOUS
    <3> HIDE DEF uids
    <3> QED BY <3>1, <3>2, <3>3
  <2>2. \A k \in Lists, op \in {"create", "delete"} : ~InFlight(<<u, k>>, op)'
    BY <1>1, <1>2, <2>1 DEF InFlight, OneAtATime
  <2>3. fate'[u] = "unmade" => Unknown(u)'
    BY <1>1, <1>2, <2>1, <2>2 DEF OneKept, Unknown
  <2>4. DeletesTheGone(u)' /\ CreatesTheNew(u)' /\ SameIsHeld(u)'
    BY <1>1, <1>2, <2>1, <2>2 DEF OneKept, DeletesTheGone, CreatesTheNew, SameIsHeld
  <2>5. PageIsHeld(u)'
    BY <1>1, <1>2, <2>1 DEF OneKept, SameIsHeld, PageIsHeld
  <2>6. GoneIsMoved(u)'
    BY <1>1, <1>2, <2>2 DEF OneKept, GoneIsMoved, Shown
  <2> QED BY <1>1, <1>2, <2>3, <2>4, <2>5, <2>6 DEF OneKept, Shown
<1> QED BY <1>4, <1>5

LEMMA PageKept ==
  ASSUME KeepInvariant, ApplyPage, [Next]_vars, NEW u \in Uids, fate'[u] # "let go"
  PROVE  OneKept(u)'
<1>1. TypeOK /\ ListInvariant /\ OneAtATime /\ OneKept(u)
  BY KeptParts
<1>2. /\ UNCHANGED <<srv, held, todo, sent, relisted, fate>>
      /\ pc = "page" /\ pc' = "pull" /\ page' = NoPage /\ ~ApplyListing
  BY DEF ApplyPage, server, push, request, ApplyListing
<1>3. RoundKept
  BY <1>2 DEF RoundKept, InFlight
<1>4. CASE ~lists[page.list].here
  <2>1. rows' = rows
    BY <1>4 DEF ApplyPage
  <2> QED BY <1>2, <1>3, <2>1, RestStep
<1>5. CASE lists[page.list].here
  <2> DEFINE k == page.list
             p == <<u, k>>
  <2>1. k \in Lists /\ ~Barred(k)
    BY <1>1, <1>2, <1>5 DEF OneAtATime, Barred
  <2>2. /\ \A l \in Lists \ {k} : rows'[<<u, l>>] = rows[<<u, l>>]
        /\ rows'[p] = IF u \in page.uids THEN IF rows[p] = "gone" THEN "gone" ELSE "same"
                      ELSE IF rows[p] = "new" THEN "new" ELSE "none"
    BY <1>5, <2>1, PlaceParts DEF ApplyPage
  <2>3. /\ rows[p] = "same" => u \in page.uids
        /\ u \in page.uids => p \in held \/ rows[p] = "gone"
    BY <1>1, <1>2, <2>1 DEF OneKept, PageIsHeld
  <2>4. rows[p] \in RowStates
    BY <1>1, <2>1, OneRow
  <2> HIDE DEF k, p
  <2>5. \A l \in Lists : Shown(<<u, l>>) => Shown(<<u, l>>)'
    <3>1. Shown(p) => rows'[p] \in {"new", "same"}
      BY <2>2, <2>3 DEF Shown
    <3> QED BY <2>2, <3>1 DEF Shown, p
  <2>6. \A l \in Lists, op \in {"create", "delete"} : ~InFlight(<<u, l>>, op)'
    BY <1>1, <1>2 DEF InFlight, OneAtATime
  <2>7. fate'[u] = "unmade" => Unknown(u)'
    <3>1. SUFFICES ASSUME fate[u] = "unmade" PROVE Unknown(u)'
      BY <1>2
    <3>2. /\ \A l \in Lists : rows[<<u, l>>] = "none" /\ <<u, l>> \notin held
          /\ u \notin page.uids
      BY <1>1, <2>1, <3>1 DEF OneKept, Unknown
    <3>3. \A l \in Lists : rows'[<<u, l>>] = "none"
      BY <2>1, <2>2, <3>2 DEF p
    <3> QED BY <1>2, <2>6, <3>2, <3>3 DEF Unknown, NoPage
  <2>8. DeletesTheGone(u)' /\ CreatesTheNew(u)' /\ PageIsHeld(u)'
    BY <1>2, <2>6 DEF DeletesTheGone, CreatesTheNew, PageIsHeld
  <2>9. SameIsHeld(u)'
    <3>1. rows'[p] = "same" => p \in held
      BY <2>2, <2>3
    <3> QED BY <1>1, <1>2, <2>2, <3>1 DEF OneKept, SameIsHeld, p
  <2>10. GoneIsMoved(u)'
    <3>1. \A l \in Lists : rows'[<<u, l>>] = "gone" => rows[<<u, l>>] = "gone"
      BY <2>2 DEF p
    <3> QED BY <1>1, <2>5, <2>6, <3>1 DEF OneKept, GoneIsMoved
  <2> QED BY <1>1, <1>2, <2>5, <2>7, <2>8, <2>9, <2>10 DEF OneKept
<1> QED BY <1>4, <1>5

-----------------------------------------------------------------------------
(* The theorem. *)

\* Every step keeps every task that is not let go.
LEMMA KeepStep ==
  ASSUME KeepInvariant, [Next]_vars
  PROVE  KeepInvariant'
<1>1. ListInvariant' /\ OneAtATime' /\ TypeOK /\ OneAtATime
  BY ListStep, OneAtATimeStep DEF KeepInvariant, ListInvariant
<1>2. SUFFICES ASSUME NEW u \in Uids, fate'[u] # "let go"
               PROVE  OneKept(u)'
  BY <1>1 DEF KeepInvariant
<1>3. CASE UNCHANGED <<rows, held, fate>> /\ RoundKept /\ ~ApplyListing
  BY <1>2, <1>3, RestStep
<1>4. UNCHANGED vars => UNCHANGED <<rows, held, fate>> /\ RoundKept /\ ~ApplyListing
  <2>1. UNCHANGED vars => UNCHANGED <<rows, held, fate>> /\ RoundKept
    BY RoundStays DEF vars, cache, server, push, pull
  <2>2. UNCHANGED vars => ~ApplyListing
    BY DEF vars, ApplyListing
  <2> QED BY <2>1, <2>2
<1>5. CASE LoopStep
  <2>1. CASE ReadLists
    <3>1. UNCHANGED <<rows, held, fate>> /\ ~ApplyListing
      BY <2>1 DEF ReadLists, cache, server, ApplyListing
    <3>2. RoundKept
      BY <2>1 DEF ReadLists, RoundKept, InFlight, push
    <3> QED BY <1>3, <3>1, <3>2
  <2>2. CASE PullDone
    BY <1>3, <2>2, RoundStays DEF PullDone, EndRound, cache, server, ApplyListing
  <2> QED BY <1>2, <1>3, <1>4, <1>5, <2>1, <2>2, BeginKept, SendKept, AnsweredKept, ListingKept,
             ReadKept, PageKept DEF LoopStep, NotSignedIn
<1>6. CASE RequestStep
  <2>1. CASE Relist
    BY <1>3, <2>1, RoundStays DEF Relist, cache, server, push, pull, ApplyListing
  <2> QED BY <1>2, <1>6, <2>1, ForgetKept, AdoptKept DEF RequestStep
<1>7. CASE UserStep
  <2>1. ASSUME NEW l \in Lists, CreateList(l) \/ UpdateList(l) \/ DeleteList(l)
        PROVE  OneKept(u)'
    <3>1. rows' = rows /\ RoundKept /\ ~ApplyListing
      BY <2>1, RoundStays DEF CreateList, UpdateList, DeleteList, cache, push, pull, ApplyListing
    <3>2. Remove(l) \/ UNCHANGED <<held, fate>>
      BY <2>1 DEF CreateList, UpdateList, DeleteList, Make, Rename, Refused, server
    <3> QED BY <1>2, <1>3, <3>1, <3>2, RemoveKept
  <2>2. ASSUME NEW v \in Uids, NEW k \in Lists, NEW m \in Lists, Move(v, k, m)
        PROVE  OneKept(u)'
    <3>1. RoundKept /\ held' = held /\ fate' = fate /\ ~ApplyListing
      BY <2>2, RoundStays DEF Move, server, push, pull, ApplyListing
    <3>2. CanMove(v, k, m) /\ MovesTo(v, k, m)
      BY <2>2 DEF Move, MovesTo
    <3> QED BY <1>2, <3>1, <3>2, MoveKept
  <2>3. CASE Login
    BY <1>3, <2>3, RoundStays DEF Login, server, push, pull, ApplyListing
  <2> QED BY <1>2, <1>7, <2>1, <2>2, <2>3, AddKept, DeleteKept, LogoutKept DEF UserStep
<1>8. CASE PhoneStep
  <2>1. ASSUME NEW l \in Lists,
               PhoneMakesList(l) \/ PhoneRenamesList(l) \/ PhoneDeletesList(l)
        PROVE  OneKept(u)'
    <3>1. rows' = rows /\ RoundKept /\ ~ApplyListing
      BY <2>1, RoundStays DEF PhoneMakesList, PhoneRenamesList, PhoneDeletesList, Here, cache,
         push, pull, ApplyListing
    <3>2. Remove(l) \/ UNCHANGED <<held, fate>>
      BY <2>1 DEF PhoneMakesList, PhoneRenamesList, PhoneDeletesList, Make, Rename
    <3> QED BY <1>2, <1>3, <3>1, <3>2, RemoveKept
  <2> QED BY <1>2, <1>8, <2>1, PhoneAddKept, PhoneDeleteKept DEF PhoneStep
<1>9. CASE FaultStep
  <2>1. CASE RoundFails \/ RequestFails \/ Crash
    <3>1. UNCHANGED <<rows, held, fate>> /\ RoundKept
      BY <2>1, RoundStays DEF RoundFails, RequestFails, Crash, Restart, cache, server, push, pull
    <3>2. ~ApplyListing
      BY <2>1 DEF RoundFails, RequestFails, Crash, Restart, EndRound, ApplyListing
    <3> QED BY <1>3, <3>1, <3>2
  <2>2. ASSUME NEW v \in Uids, NEW k \in Lists, NEW m \in Lists, CrashInMove(v, k, m)
        PROVE  OneKept(u)'
    <3>1. RoundKept /\ held' = held /\ fate' = fate /\ ~ApplyListing
      BY <2>2, RoundStays DEF CrashInMove, Restart, EndRound, server, ApplyListing
    <3>2. CanMove(v, k, m) /\ MovesTo(v, k, m)
      BY <2>2 DEF CrashInMove, FirstHalf, MovesTo
    <3> QED BY <1>2, <3>1, <3>2, MoveKept
  <2> QED BY <1>9, <2>1, <2>2 DEF FaultStep
<1> QED BY <1>3, <1>4, <1>5, <1>6, <1>7, <1>8, <1>9 DEF Next

LEMMA KeepInit == Init => KeepInvariant
<1> SUFFICES ASSUME Init PROVE KeepInvariant
  OBVIOUS
<1>1. ListInvariant
  BY ListInit
<1>2. OneAtATime
  BY DEF Init, OneAtATime
<1>3. ASSUME NEW u \in Uids
      PROVE  OneKept(u)
  <2>1. \A l \in Lists : rows[<<u, l>>] = "none" /\ <<u, l>> \notin held
    BY PlaceParts DEF Init
  <2>2. todo = {} /\ pc = "idle" /\ page.uids = {} /\ fate[u] = "unmade"
    BY DEF Init, NoPage
  <2> QED BY <2>1, <2>2 DEF OneKept, Unknown, DeletesTheGone, CreatesTheNew, SameIsHeld, PageIsHeld,
             GoneIsMoved, InFlight
<1> QED BY <1>1, <1>2, <1>3 DEF KeepInvariant

\* The inductive invariant of tasks holds in every state: what a late answer or a
\* page would take of a task that is owed is somewhere else by then.
THEOREM KeepInvariance == Spec => []KeepInvariant
<1>1. Init => KeepInvariant
  BY KeepInit
<1>2. KeepInvariant /\ [Next]_vars => KeepInvariant'
  BY KeepStep
<1> QED BY <1>1, <1>2, PTL DEF Spec

\* No task that was added and that nobody deleted is lost, whatever is moved between
\* lists (store.rs move_to), cut short by a crash between its two transactions, or
\* answered late (sync.rs push_one, apply_lists, apply_delta).
THEOREM TasksKept == Spec => []NoTaskLost
<1>1. KeepInvariant => NoTaskLost
  BY DEF KeepInvariant, OneKept, NoTaskLost
<1> QED BY <1>1, KeepInvariance, PTL

=============================================================================
