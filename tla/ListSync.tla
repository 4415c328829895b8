------------------------------ MODULE ListSync ------------------------------
(***************************************************************************)
(* The lists themselves: the cache's table of lists, the server's, and     *)
(* three that write it: the sync loop's pull, which takes the server's     *)
(* listing of lists; the requests that make, rename or delete a list on    *)
(* the server at once (daemon.rs); and signing out.  Tasks are here for    *)
(* what happens to them when a list comes, goes, or they move between two. *)
(* How one task's edits are sent is TaskSync's subject: here its row is    *)
(* unsent, the server's, or waiting to be deleted there.                   *)
(*                                                                         *)
(* A listing is read in one step, at the server, and applied in a later    *)
(* one, under the store's lock; so listings can be applied in another      *)
(* order than they were taken.                                             *)
(***************************************************************************)
EXTENDS Naturals, FiniteSets

CONSTANTS
  Lists,      \* the hrefs a list can have (a slug with a random end: used once)
  Initial,    \* the lists there are when asstd starts, in the cache already
  Uids,       \* tasks
  Names,      \* names a list can have
  MaxUser,    \* bound: the user's changes to tasks, and signing in and out
  MaxRequests,\* bound: the user's changes to lists
  MaxPhone,   \* bound: changes by another client
  MaxFaults   \* bound: lost requests and answers, crashes

ASSUME InitialAssumption == Initial \subseteq Lists
ASSUME NamesAssumption == Names # {}
ASSUME BoundsAssumption == {MaxUser, MaxRequests, MaxPhone, MaxFaults} \subseteq Nat

VARIABLES
  lists,    \* table lists: href -> name and sync token
  rows,     \* table tasks: <<uid, list>> -> the state of its row
  account,  \* whether the config has an account
  srv,      \* the server's lists
  held,     \* the server's tasks: <<uid, list>>
  clock,    \* the server's change counter
  pc,       \* where the sync loop is in its round
  todo,     \* what push has still to send
  sent,     \* the write the server has answered, and its answer
  listing,  \* the loop's answer to the listing of lists
  stale,    \* pull: the lists still to be read
  page,     \* pull_list: the list being read, and what it answered
  rpc,      \* the request under way to change a list
  relisted, \* its answer to the listing of lists
  used,     \* how much of each bound is used
  fate      \* history: tasks not made yet, owed to the user, and let go

cache   == <<lists, rows, account>>
server  == <<srv, held, clock>>
push    == <<todo, sent>>
pull    == <<listing, stale, page>>
request == <<rpc, relisted>>
vars    == <<cache, server, pc, push, pull, request, used, fate>>

Places == Uids \X Lists

NoList == [here |-> FALSE, name |-> "none", token |-> 0]

\* "new" has no ETag, "same" has one, "gone" has one and waits to be deleted.
RowStates == {"none", "new", "same", "gone"}

NoWrite == [at |-> <<"none", "none">>, op |-> "none", ok |-> FALSE]

NoPage == [list |-> "none", uids |-> {}, token |-> 0]

NoRequest == [step |-> "idle", op |-> "none", list |-> "none", ok |-> FALSE]

\* What a listing of lists says, and when it was taken.
Listed == [at   |-> clock,
           live |-> {l \in Lists : srv[l].live},
           name |-> [l \in Lists |-> srv[l].name],
           token |-> [l \in Lists |-> srv[l].at]]

NoListing == [at |-> 0, live |-> {}, name |-> [l \in Lists |-> "none"],
              token |-> [l \in Lists |-> 0]]

User == used.user < MaxUser /\ used' = [used EXCEPT !.user = @ + 1]
Asked == used.request < MaxRequests /\ used' = [used EXCEPT !.request = @ + 1]
Phone == used.phone < MaxPhone /\ used' = [used EXCEPT !.phone = @ + 1]
Fault == used.fault < MaxFaults /\ used' = [used EXCEPT !.fault = @ + 1]

-----------------------------------------------------------------------------
(***************************************************************************)
(* The store.                                                              *)
(***************************************************************************)

\* remove_list_rows: a list's row and everything hanging off it.
RowsWithout(gone) == [p \in Places |-> IF p[2] \in gone THEN "none" ELSE rows[p]]

\* Mutant: ON CONFLICT DO NOTHING.
ListsFrom_InsertOnly(answer) ==
  [l \in Lists |-> IF l \notin answer.live THEN NoList
                   ELSE IF lists[l].here THEN lists[l]
                   ELSE [here |-> TRUE, name |-> answer.name[l], token |-> 0]]

\* apply_lists: a list's name is the server's, its token stays as it is.
ListsFrom(answer) ==
  [l \in Lists |-> IF l \in answer.live
                   THEN [here |-> TRUE, name |-> answer.name[l], token |-> lists[l].token]
                   ELSE NoList]

\* A list made after the listing was taken is not in it.
Overtaken(l, answer) == srv[l].live /\ srv[l].born > answer.at

Shown(p) == rows[p] \in {"new", "same"}

\* The user, or whoever deleted their list, meant these tasks to go; or a listing
\* too old for their list took a row of theirs, shown or waiting to be deleted,
\* which is LeavesOnlyWhenGone's concern.
LetGo(us) == fate' = [u \in Uids |-> IF u \in us THEN "let go" ELSE fate[u]]

\* What is in the cache and not in the listing goes, with its tasks.
TakeListing(answer) ==
  LET gone == {l \in Lists : lists[l].here /\ l \notin answer.live} IN
  /\ lists' = ListsFrom(answer)
  /\ rows' = RowsWithout(gone)
  /\ LetGo({u \in Uids : \E l \in gone :
               \/ Shown(<<u, l>>) /\ ~srv[l].live
               \/ rows[<<u, l>>] # "none" /\ Overtaken(l, answer)})

\* The lists to be read: their token moved, or they have none yet.
Stale(answer) ==
  {l \in answer.live : ~lists[l].here \/ lists[l].token = 0 \/ lists[l].token # answer.token[l]}

Pending(p) == rows[p] \in {"new", "gone"}

-----------------------------------------------------------------------------
(***************************************************************************)
(* The sync loop: push, then pull.                                         *)
(***************************************************************************)

EndRound ==
  /\ pc' = "idle" /\ todo' = {} /\ sent' = NoWrite
  /\ listing' = NoListing /\ stale' = {} /\ page' = NoPage

Begin ==
  /\ pc = "idle" /\ account
  /\ pc' = "push"
  /\ todo' = {[at |-> p, op |-> IF rows[p] = "new" THEN "create" ELSE "delete"] :
                p \in {q \in Places : Pending(q)}}
  /\ UNCHANGED <<cache, server, sent, pull, request, used, fate>>

\* sync_once without an account: nothing to do.
NotSignedIn == pc = "idle" /\ ~account /\ UNCHANGED vars

\* The server takes a write: a create needs the list to be there, a delete of
\* what is not there is done with.
Send ==
  /\ pc = "push"
  /\ \E w \in todo :
       LET taken == w.op = "delete" \/ srv[w.at[2]].live IN
       /\ todo' = todo \ {w}
       /\ sent' = [at |-> w.at, op |-> w.op, ok |-> taken]
       /\ held' = IF ~taken THEN held
                  ELSE IF w.op = "create" THEN held \cup {w.at} ELSE held \ {w.at}
       /\ IF held' # held
          THEN srv' = [srv EXCEPT ![w.at[2]].at = clock + 1] /\ clock' = clock + 1
          ELSE UNCHANGED <<srv, clock>>
  /\ pc' = "sent"
  /\ UNCHANGED <<cache, pull, request, used, fate>>

\* The row is looked up again: it may have gone meanwhile.
ApplySent ==
  /\ pc = "sent"
  /\ rows' = [rows EXCEPT ![sent.at] =
                IF ~sent.ok THEN @
                ELSE IF sent.op = "delete" THEN "none"
                ELSE IF @ = "new" THEN "same" ELSE @]
  /\ pc' = "push" /\ sent' = NoWrite
  /\ UNCHANGED <<lists, account, server, todo, pull, request, used, fate>>

ReadLists ==
  /\ pc = "push" /\ todo = {}
  /\ listing' = Listed
  /\ pc' = "listed"
  /\ UNCHANGED <<cache, server, push, stale, page, request, used, fate>>

ApplyListing ==
  /\ pc = "listed"
  /\ TakeListing(listing)
  /\ stale' = Stale(listing)
  /\ pc' = "pull"
  /\ UNCHANGED <<account, server, push, listing, page, request, used>>

\* One list is read; one that is gone by now is a problem to report.
ReadList ==
  /\ pc = "pull"
  /\ \E l \in stale :
       /\ stale' = stale \ {l}
       /\ IF srv[l].live
          THEN /\ page' = [list |-> l, uids |-> {u \in Uids : <<u, l>> \in held},
                           token |-> srv[l].at]
               /\ pc' = "page"
          ELSE UNCHANGED <<page, pc>>
  /\ UNCHANGED <<cache, server, push, listing, request, used, fate>>

\* What came is stored, and what the cache had an ETag for and did not come is
\* forgotten.  A list that left the cache meanwhile refuses its tasks.
ApplyPage ==
  /\ pc = "page"
  /\ LET l == page.list
         After(p) == IF p[1] \in page.uids
                     THEN IF rows[p] = "gone" THEN "gone" ELSE "same"
                     ELSE IF rows[p] = "new" THEN "new" ELSE "none"
     IN  IF lists[l].here
         THEN /\ rows' = [p \in Places |-> IF p[2] = l THEN After(p) ELSE rows[p]]
              /\ lists' = [lists EXCEPT ![l].token = page.token]
         ELSE UNCHANGED <<lists, rows>>
  /\ page' = NoPage /\ pc' = "pull"
  /\ UNCHANGED <<account, server, push, listing, stale, request, used, fate>>

PullDone ==
  /\ pc = "pull" /\ stale = {}
  /\ EndRound
  /\ UNCHANGED <<cache, server, request, used, fate>>

-----------------------------------------------------------------------------
(***************************************************************************)
(* Making, renaming and deleting a list: on the server first, which may    *)
(* refuse, then the server's listing is taken.                             *)
(***************************************************************************)

Live(name) == [live |-> TRUE, born |-> clock + 1, name |-> name, at |-> clock + 1]

\* The tasks that are in a list and nowhere else.
Held(l) == {u \in Uids : Shown(<<u, l>>) \/ (<<u, l>> \in held /\ rows[<<u, l>>] = "none")}

Make(l, name) ==
  /\ srv' = [srv EXCEPT ![l] = Live(name)]
  /\ clock' = clock + 1
  /\ UNCHANGED <<held, fate>>

Rename(l, name) ==
  /\ srv' = [srv EXCEPT ![l].name = name]
  /\ UNCHANGED <<held, clock, fate>>

Remove(l) ==
  /\ srv' = [srv EXCEPT ![l].live = FALSE]
  /\ held' = {p \in held : p[2] # l}
  /\ clock' = clock + 1
  /\ LetGo(Held(l))

Answered(op, l, ok) == rpc' = [step |-> "answered", op |-> op, list |-> l, ok |-> ok]

Refused == UNCHANGED <<server, fate>>

Ready == rpc.step = "idle" /\ account /\ Asked

\* create_list: MKCOL under a fresh href.
CreateList(l) ==
  /\ Ready /\ srv[l].born = 0
  /\ \E ok \in BOOLEAN, name \in Names :
       /\ IF ok THEN Make(l, name) ELSE Refused
       /\ Answered("create", l, ok)
  /\ UNCHANGED <<cache, pc, push, pull, relisted>>

\* update_list: PROPPATCH.  Nothing is asked where nothing changes.
UpdateList(l) ==
  /\ Ready /\ lists[l].here
  /\ \E ok \in {FALSE, srv[l].live}, name \in Names \ {lists[l].name} :
       /\ IF ok THEN Rename(l, name) ELSE Refused
       /\ Answered("update", l, ok)
  /\ UNCHANGED <<cache, pc, push, pull, relisted>>

\* delete_list: DELETE; a list that is not there any more is as good.
DeleteList(l) ==
  /\ Ready /\ lists[l].here
  /\ \E ok \in {TRUE, ~srv[l].live} :
       /\ IF ok /\ srv[l].live THEN Remove(l) ELSE Refused
       /\ Answered("delete", l, ok)
  /\ UNCHANGED <<cache, pc, push, pull, relisted>>

\* Mutant: the list goes whatever the server said.
Forgets_However(r) == r.op = "delete"

Forgets(r) == r.op = "delete" /\ r.ok

\* A deleted list leaves the cache at once; a refusal is told to the user.
ApplyAnswer ==
  /\ rpc.step = "answered"
  /\ IF Forgets(rpc)
     THEN /\ lists' = [lists EXCEPT ![rpc.list] = NoList]
          /\ rows' = RowsWithout({rpc.list})
          /\ LetGo({u \in Uids : Shown(<<u, rpc.list>>) /\ ~srv[rpc.list].live})
     ELSE UNCHANGED <<lists, rows, fate>>
  /\ rpc' = IF rpc.ok THEN [rpc EXCEPT !.step = "relist"] ELSE NoRequest
  /\ UNCHANGED <<account, server, pc, push, pull, relisted, used>>

\* lists_changed: the server's listing.
Relist ==
  /\ rpc.step = "relist"
  /\ relisted' = Listed
  /\ rpc' = [rpc EXCEPT !.step = "relisted"]
  /\ UNCHANGED <<cache, server, pc, push, pull, used, fate>>

\* adopt_lists.
Adopt ==
  /\ rpc.step = "relisted"
  /\ TakeListing(relisted)
  /\ rpc' = NoRequest /\ relisted' = NoListing
  /\ UNCHANGED <<account, server, pc, push, pull, used>>

-----------------------------------------------------------------------------
(***************************************************************************)
(* The user: tasks, and the account.                                       *)
(***************************************************************************)

AddTask(u, l) ==
  /\ fate[u] = "unmade" /\ lists[l].here /\ User
  /\ rows' = [rows EXCEPT ![<<u, l>>] = "new"]
  /\ fate' = [fate EXCEPT ![u] = "owed"]
  /\ UNCHANGED <<lists, account, server, pc, push, pull, request>>

\* delete: a row without an ETag is forgotten.
Without(state) == IF state = "new" THEN "none" ELSE "gone"

DeleteTask(p) ==
  /\ Shown(p) /\ User
  /\ rows' = [rows EXCEPT ![p] = Without(@)]
  /\ LetGo({p[1]})
  /\ UNCHANGED <<lists, account, server, pc, push, pull, request>>

\* Mutant: the delete first.
FirstHalf_Delete(u, l, m) == [rows EXCEPT ![<<u, l>>] = Without(@)]

\* move_to: a new resource in the other list; then, in a transaction of its own,
\* the delete here.  An old row there still waiting to be deleted refuses it.
FirstHalf(u, l, m) == [rows EXCEPT ![<<u, m>>] = "new"]

CanMove(u, l, m) ==
  l # m /\ Shown(<<u, l>>) /\ lists[m].here /\ rows[<<u, m>>] = "none"

Move(u, l, m) ==
  /\ CanMove(u, l, m) /\ User
  /\ rows' = [rows EXCEPT ![<<u, m>>] = "new", ![<<u, l>>] = Without(@)]
  /\ UNCHANGED <<lists, account, server, pc, push, pull, request, fate>>

\* logout: the account goes from the config, and everything from the cache.
\* Neither the loop's round nor a request under way is stopped.
Logout ==
  /\ account /\ User
  /\ account' = FALSE
  /\ lists' = [l \in Lists |-> NoList] /\ rows' = [p \in Places |-> "none"]
  /\ LetGo({u \in Uids : \E l \in Lists : Shown(<<u, l>>)})
  /\ UNCHANGED <<server, pc, push, pull, request>>

\* adopt_account, for the account there was.
Login ==
  /\ ~account /\ User
  /\ account' = TRUE
  /\ UNCHANGED <<lists, rows, server, pc, push, pull, request, fate>>

-----------------------------------------------------------------------------
(***************************************************************************)
(* Another client, and what goes wrong.                                    *)
(***************************************************************************)

Here == UNCHANGED <<cache, pc, push, pull, request>>

PhoneMakesList(l) == Phone /\ srv[l].born = 0 /\ (\E name \in Names : Make(l, name)) /\ Here

PhoneRenamesList(l) ==
  Phone /\ srv[l].live /\ (\E name \in Names \ {srv[l].name} : Rename(l, name)) /\ Here

PhoneDeletesList(l) == Phone /\ srv[l].live /\ Remove(l) /\ Here

PhoneWrites(l, tasks) ==
  /\ held' = tasks
  /\ srv' = [srv EXCEPT ![l].at = clock + 1] /\ clock' = clock + 1

PhoneAddsTask(u, l) ==
  /\ Phone /\ srv[l].live /\ fate[u] = "unmade"
  /\ PhoneWrites(l, held \cup {<<u, l>>})
  /\ fate' = [fate EXCEPT ![u] = "owed"]
  /\ Here

PhoneDeletesTask(p) ==
  /\ Phone /\ p \in held
  /\ PhoneWrites(p[2], held \ {p})
  /\ LetGo(IF rows[p] = "gone" THEN {} ELSE {p[1]})
  /\ Here

\* A request of the round is lost, or its answer; the server refuses the password.
RoundFails ==
  /\ pc # "idle" /\ Fault
  /\ EndRound
  /\ UNCHANGED <<cache, server, request, fate>>

\* The answer to the user's request, or to the listing after it, is lost.
RequestFails ==
  /\ rpc.step \in {"answered", "relist", "relisted"} /\ Fault
  /\ rpc' = NoRequest /\ relisted' = NoListing
  /\ UNCHANGED <<cache, server, pc, push, pull, fate>>

Restart == EndRound /\ rpc' = NoRequest /\ relisted' = NoListing

Crash ==
  /\ (pc # "idle" \/ rpc.step # "idle") /\ Fault
  /\ Restart
  /\ UNCHANGED <<cache, server, fate>>

\* asstd dies between the two transactions of a move.
CrashInMove(u, l, m) ==
  /\ CanMove(u, l, m) /\ Fault
  /\ rows' = FirstHalf(u, l, m)
  /\ Restart
  /\ UNCHANGED <<lists, account, server, fate>>

-----------------------------------------------------------------------------

AName == CHOOSE name \in Names : TRUE

Init ==
  /\ srv = [l \in Lists |-> IF l \in Initial
                            THEN [live |-> TRUE, born |-> 1, name |-> AName, at |-> 1]
                            ELSE [live |-> FALSE, born |-> 0, name |-> "none", at |-> 0]]
  /\ lists = [l \in Lists |-> IF l \in Initial
                              THEN [here |-> TRUE, name |-> AName, token |-> 1] ELSE NoList]
  /\ rows = [p \in Places |-> "none"] /\ account = TRUE
  /\ held = {} /\ clock = 1
  /\ pc = "idle" /\ todo = {} /\ sent = NoWrite
  /\ listing = NoListing /\ stale = {} /\ page = NoPage
  /\ rpc = NoRequest /\ relisted = NoListing
  /\ used = [user |-> 0, request |-> 0, phone |-> 0, fault |-> 0]
  /\ fate = [u \in Uids |-> "unmade"]

LoopStep ==
  \/ Begin \/ NotSignedIn \/ Send \/ ApplySent \/ ReadLists \/ ApplyListing
  \/ ReadList \/ ApplyPage \/ PullDone

RequestStep == ApplyAnswer \/ Relist \/ Adopt

UserStep ==
  \/ \E l \in Lists : CreateList(l) \/ UpdateList(l) \/ DeleteList(l)
  \/ \E u \in Uids, l \in Lists : AddTask(u, l) \/ DeleteTask(<<u, l>>)
  \/ \E u \in Uids, l, m \in Lists : Move(u, l, m)
  \/ Logout \/ Login

PhoneStep ==
  \/ \E l \in Lists : PhoneMakesList(l) \/ PhoneRenamesList(l) \/ PhoneDeletesList(l)
  \/ \E u \in Uids, l \in Lists : PhoneAddsTask(u, l) \/ PhoneDeletesTask(<<u, l>>)

FaultStep ==
  \/ RoundFails \/ RequestFails \/ Crash
  \/ \E u \in Uids, l, m \in Lists : CrashInMove(u, l, m)

Next == LoopStep \/ RequestStep \/ UserStep \/ PhoneStep \/ FaultStep

Spec == Init /\ [][Next]_vars

-----------------------------------------------------------------------------
(***************************************************************************)
(* Properties.                                                             *)
(***************************************************************************)

NameOrNone == Names \cup {"none"}

Listing == [at : Nat, live : SUBSET Lists, name : [Lists -> NameOrNone], token : [Lists -> Nat]]

\* The type of every variable.
TypeOK ==
  /\ lists \in [Lists -> [here : BOOLEAN, name : NameOrNone, token : Nat]]
  /\ rows \in [Places -> RowStates] /\ account \in BOOLEAN
  /\ srv \in [Lists -> [live : BOOLEAN, born : Nat, name : NameOrNone, at : Nat]]
  /\ held \subseteq Places /\ clock \in Nat
  /\ pc \in {"idle", "push", "sent", "listed", "pull", "page"}
  /\ todo \subseteq [at : Places, op : {"create", "delete"}]
  /\ sent \in [at : Places, op : {"create", "delete"}, ok : BOOLEAN] \cup {NoWrite}
  /\ listing \in Listing /\ relisted \in Listing /\ stale \subseteq Lists
  /\ page \in [list : Lists, uids : SUBSET Uids, token : Nat] \cup {NoPage}
  /\ rpc \in [step : {"answered", "relist", "relisted"}, op : {"create", "update", "delete"},
               list : Lists, ok : BOOLEAN] \cup {NoRequest}
  /\ used \in [user : Nat, request : Nat, phone : Nat, fault : Nat]
  /\ fate \in [Uids -> {"unmade", "owed", "let go"}]

\* A task that was added, here or elsewhere, and that nobody deleted, alone or
\* with its list, is shown here or is on the server, whatever was moved, lost or
\* cut short; unless a listing older than its list took a row of it.
NoTaskLost ==
  \A u \in Uids : fate[u] = "owed" =>
    \E l \in Lists : Shown(<<u, l>>) \/ <<u, l>> \in held

\* The listings a step applies: the loop's, or the one after a request.
Applied ==
  {answer \in {listing} : pc = "listed" /\ pc' = "pull"}
  \cup {answer \in {relisted} : rpc.step = "relisted" /\ rpc'.step = "idle"}

\* A list leaves the cache, with its tasks and what of them is unsent, only once
\* it is gone from the server, or when the user signs out; or by a listing taken
\* before the list was made, where two of them are applied out of order.
LeavesOnlyWhenGone ==
  [][\A l \in Lists :
       lists[l].here /\ ~lists'[l].here =>
         \/ ~srv[l].live
         \/ account /\ ~account'
         \/ \E answer \in Applied : Overtaken(l, answer)]_vars

\* The cache has the server's lists, names and tasks, with nothing left to send.
Converged ==
  /\ \A l \in Lists : lists[l].here = srv[l].live /\ (srv[l].live => lists[l].name = srv[l].name)
  /\ \A p \in Places : rows[p] = IF p \in held THEN "same" ELSE "none"

\* The loop goes on, and requests are answered or time out.
Fairness == WF_vars(LoopStep) /\ WF_vars(RequestStep)

FairSpec == Spec /\ Fairness

\* Whatever was applied in whatever order, once everyone rests, the cache and the
\* server agree, as long as there is an account.
EventuallyConverged == <>[](account => Converged)

-----------------------------------------------------------------------------
(***************************************************************************)
(* What the proofs in ListSyncProofs rest on.                              *)
(***************************************************************************)

\* A list is there since it was made, which happens once.
MadeOnce ==
  /\ \A l \in Lists : srv[l].born <= clock /\ (srv[l].live \/ lists[l].here => srv[l].born # 0)
  /\ clock # 0

\* What a listing does not name was not there when it was taken.
ListingsTold ==
  \A answer \in {listing, relisted} :
    /\ answer.at <= clock
    /\ \A l \in Lists : l \in answer.live => srv[l].born # 0
    /\ \A l \in Lists : srv[l].live /\ l \notin answer.live => Overtaken(l, answer)

\* A list the server said it deleted is gone for good.
DeletedIsGone ==
  rpc.step = "answered" /\ Forgets(rpc) => ~srv[rpc.list].live /\ srv[rpc.list].born # 0

\* The inductive invariant, of lists.
ListInvariant == TypeOK /\ MadeOnce /\ ListingsTold /\ DeletedIsGone

\* A write is to be sent, or was and its answer is to be applied.
InFlight(p, op) ==
  \/ [at |-> p, op |-> op] \in todo
  \/ pc = "sent" /\ sent.at = p /\ sent.op = op

\* Writes are under way in a push only, one at a time and each once; a page is of a
\* list; a listing is kept only until it is applied.
OneAtATime ==
  /\ todo # {} => pc \in {"push", "sent"}
  /\ pc = "sent" => [at |-> sent.at, op |-> sent.op] \notin todo
  /\ pc = "page" => page.list \in Lists
  /\ rpc.step # "relisted" => relisted = NoListing

\* A list that has gone everywhere and that nothing under way can bring back.
Barred(l) ==
  ~srv[l].live /\ srv[l].born # 0 /\ ~lists[l].here /\ l \notin relisted.live

\* Nothing is known of a task before it is made.
Unknown(u) == \A l \in Lists :
  /\ rows[<<u, l>>] = "none" /\ <<u, l>> \notin held
  /\ u \notin page.uids /\ ~InFlight(<<u, l>>, "create")

\* A delete under way is of a row that still waits for it, or whose list is gone:
\* its answer takes nothing else.
DeletesTheGone(u) == \A l \in Lists :
  InFlight(<<u, l>>, "delete") =>
    rows[<<u, l>>] = "gone" \/ (rows[<<u, l>>] = "none" /\ Barred(l))

\* A create under way is of a row that was not sent yet; once it was, the server
\* has the task.
CreatesTheNew(u) == \A l \in Lists :
  /\ InFlight(<<u, l>>, "create") => rows[<<u, l>>] \in {"new", "none"}
  /\ pc = "sent" /\ sent.at = <<u, l>> /\ sent.op = "create" /\ sent.ok => <<u, l>> \in held

\* What the cache shows as the server's is there.
SameIsHeld(u) == \A l \in Lists : rows[<<u, l>>] = "same" => <<u, l>> \in held

\* The page to be applied has what the cache shows as the server's, and what it
\* has is there, or the cache knows better.
PageIsHeld(u) ==
  pc = "page" =>
    LET p == <<u, page.list>> IN
    /\ rows[p] = "same" => u \in page.uids
    /\ u \in page.uids => p \in held \/ rows[p] = "gone" \/ (rows[p] = "none" /\ Barred(page.list))

\* A task that is deleted in one list only is shown in another: it was moved.
GoneIsMoved(u) == \A l \in Lists :
  rows[<<u, l>>] = "gone" \/ InFlight(<<u, l>>, "delete") => \E m \in Lists : Shown(<<u, m>>)

OneKept(u) ==
  /\ fate[u] = "unmade" => Unknown(u)
  /\ DeletesTheGone(u) /\ CreatesTheNew(u) /\ SameIsHeld(u) /\ PageIsHeld(u) /\ GoneIsMoved(u)
  /\ fate[u] = "owed" => \E l \in Lists : Shown(<<u, l>>) \/ <<u, l>> \in held

\* The inductive invariant, of tasks.
KeepInvariant ==
  ListInvariant /\ OneAtATime /\ \A u \in Uids : fate[u] # "let go" => OneKept(u)

=============================================================================
