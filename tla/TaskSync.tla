------------------------------ MODULE TaskSync ------------------------------
(***************************************************************************)
(* One list of tasks kept in step with the CalDAV server: the SQLite cache *)
(* (asst-core store.rs), the sync round (sync.rs: push, then pull), the    *)
(* user's changes made while a request is in flight, the phone's writes,   *)
(* lost requests and answers, crashes, and asstd's flush when it stops,    *)
(* a second push beside the one the sync loop may be in (daemon.rs).       *)
(*                                                                         *)
(* The store's lock is released at every await, so a round is a sequence   *)
(* of steps: the client takes a step, the server answers a request in      *)
(* another, and the answer is applied in a third.  Between any two of them *)
(* the user, the phone and the other worker may act.                       *)
(*                                                                         *)
(* ETags, sync tokens and the order of the server's writes are one         *)
(* counter, clock: a resource's ETag is the clock of its last write, the   *)
(* list's token the clock of the list's last change.  0 is SQL's NULL.     *)
(***************************************************************************)
EXTENDS TaskData

CONSTANTS
  Hrefs,        \* the names a resource of the list can have
  Workers,      \* who pushes: the sync loop, and flush where it is modelled
  Loop,         \* the sync loop, one of the workers
  PhoneKinds,   \* what the phone may turn a task into, beside a plain to-do
  MaxLocal,     \* bound: changes the user makes here
  MaxPhone,     \* bound: writes by the phone
  MaxFaults     \* bound: lost requests and answers, crashes, server errors

ASSUME WorkersAssumption == Loop \in Workers
ASSUME PhoneAssumption == PhoneKinds \subseteq {"broken", "other"}
ASSUME BoundsAssumption == MaxLocal \in Nat /\ MaxPhone \in Nat /\ MaxFaults \in Nat

VARIABLES
  rows,     \* table tasks: href -> row
  token,    \* lists.sync_token
  fresh,    \* meta full-sync:<list> is less than a day old
  srv,      \* the server: href -> resource, with what it last held
  clock,    \* the server's change counter
  pruned,   \* changes the server's history no longer tells
  pc,       \* where each worker is in its round
  todo,     \* what push has still to send, as pending() read it
  cur,      \* the write being sent
  retry,    \* push_one's argument: may still rebase and send again
  ans,      \* the server's answer, not yet applied
  delta,    \* pull_list: the answer to the changes report
  known,    \* pull_list: ETags the cache had when it came
  fetched,  \* pull_list: the answer to the multiget
  used,     \* how much of each bound is used
  accepted, \* history: the edits the user was told were taken, per task
  deleted,  \* history: "marked" or "forgotten" once the user deleted it
  phoneDone \* history: completions the phone made

cache  == <<rows, token, fresh>>
server == <<srv, clock, pruned>>
push   == <<pc, todo, cur, retry, ans>>
pull   == <<delta, known, fetched>>
ghosts == <<accepted, deleted, phoneDone>>
vars   == <<cache, server, push, pull, used, ghosts>>

Row == [here : BOOLEAN, etag : Nat, base : Body, edits : Seq(Edit),
        ics : Body, deleted : BOOLEAN]

NoRow == [here |-> FALSE, etag |-> 0, base |-> NewBody, edits |-> <<>>,
          ics |-> NewBody, deleted |-> FALSE]

Resource == [live : BOOLEAN, at : Nat, body : Body]

Pending == [href : Hrefs, op : {"create", "update", "delete"}, etag : Nat,
            body : Body, sent : Nat]

NoWrite == [href |-> "none", op |-> "none", etag |-> 0, body |-> NewBody, sent |-> 0]

Answers == {"none", "stored", "kept", "deleted", "conflict", "missing", "copy"}

Answer == [kind : Answers, etag : Nat, body : Body]

Says(kind) == [kind |-> kind, etag |-> 0, body |-> NewBody]

Delta == [changed : SUBSET (Hrefs \X Nat), removed : SUBSET Hrefs,
          token : Nat, complete : BOOLEAN]

NoDelta == [changed |-> {}, removed |-> {}, token |-> 0, complete |-> FALSE]

Copy == [href : Hrefs, etag : Nat, body : Body]

Steps == {"idle", "push", "again", "sent", "confirm", "confirmed", "refetch",
          "refetched", "reread", "redelete", "resent",
          "lists", "changes", "known", "fetch", "store", "finish"}

\* Steps at which the next thing to happen is the server taking a request, and
\* those at which its answer is on the way.
Asking == {"again", "confirm", "refetch", "redelete", "lists", "changes", "fetch"}
Answering == {"sent", "confirmed", "refetched", "resent", "known", "store"}

-----------------------------------------------------------------------------
(***************************************************************************)
(* The store.                                                              *)
(***************************************************************************)

IsPending(r) == r.here /\ (r.etag = 0 \/ r.edits # <<>> \/ r.deleted)

\* One row of pending(): what to send, and how many edits it carries.
PendingOf(h) ==
  LET r == rows[h]
  IN  [href |-> h,
       op   |-> IF r.deleted THEN "delete" ELSE IF r.etag = 0 THEN "create" ELSE "update",
       etag |-> r.etag,
       body |-> r.ics,
       sent |-> Len(r.edits)]

AllPending == {PendingOf(h) : h \in {g \in Hrefs : IsPending(rows[g])}}

Forget(h) == rows' = [rows EXCEPT ![h] = NoRow]

\* The row with these edits on top of this server copy.
OnTopOf(r, etag, base, edits) ==
  [r EXCEPT !.here = TRUE, !.etag = etag, !.base = base, !.edits = edits,
            !.ics = Combined(base, edits)]

\* put_server's choice: unsent edits are re-applied, unless the copy already
\* shows them or they no longer make sense on it.
Rebased(r, copy) ==
  LET expected == Combined(r.base, r.edits)
      shown    == /\ ~Refuses(r.base, r.edits)
                  /\ AlreadyApplied(expected, copy, r.edits)
  IN  IF shown \/ Refuses(copy, r.edits) THEN <<>> ELSE r.edits

\* Mutants: the new ETag without the copy it belongs to; an upsert that writes
\* every column, deleted too.
ServerCopy_ETagOnly(r, etag, copy) ==
  IF copy.kind = "other" THEN NoRow ELSE [r EXCEPT !.here = TRUE, !.etag = etag]

ServerCopy_Undeletes(r, etag, copy) ==
  IF copy.kind = "other" THEN NoRow
  ELSE OnTopOf([r EXCEPT !.deleted = FALSE], etag, copy, Rebased(r, copy))

\* put_server: a copy that is not a task is forgotten.
ServerCopy(r, etag, copy) ==
  IF copy.kind = "other" THEN NoRow ELSE OnTopOf(r, etag, copy, Rebased(r, copy))

\* Mutants: the whole queue is taken as sent; nothing is.
Unsent_Clears(r, p) == <<>>

Unsent_Keeps(r, p) == r.edits

\* The edits pushed leaves queued: those made while the write was in flight.
Unsent(r, p) == SubSeq(r.edits, p.sent + 1, Len(r.edits))

\* pushed: nothing for a row that is gone, and an error that changes nothing
\* where the remaining edits cannot be applied.
Pushed(p, etag, copy) ==
  LET r == rows[p.href]
      remaining == Unsent(r, p)
  IN  rows' = IF ~r.here \/ Refuses(copy, remaining)
              THEN rows
              ELSE [rows EXCEPT ![p.href] = OnTopOf(r, etag, copy, remaining)]

-----------------------------------------------------------------------------
(***************************************************************************)
(* The server, as caldav.rs and the tests' fake use it.                    *)
(***************************************************************************)

ServerPut(h, body) ==
  /\ srv' = [srv EXCEPT ![h] = [live |-> TRUE, at |-> clock + 1, body |-> body]]
  /\ clock' = clock + 1
  /\ pruned' = pruned \ {h}

ServerRemove(h) ==
  /\ srv' = [srv EXCEPT ![h] = [@ EXCEPT !.live = FALSE, !.at = clock + 1]]
  /\ clock' = clock + 1
  /\ pruned' = pruned \ {h}

Holds(h, etag) == srv[h].live /\ srv[h].at = etag

CopyOf(h) == [kind |-> "copy", etag |-> srv[h].at, body |-> srv[h].body]

\* A PUT under If-Match, or If-None-Match: * where the row has no ETag.  Stored
\* with its ETag, or stored in the server's own words (no ETag comes back).  A
\* resource that is gone is 404 to some servers and 412 to others.
TakePut(w, p) ==
  IF IF p.op = "update" THEN Holds(p.href, p.etag) ELSE ~srv[p.href].live
  THEN /\ ServerPut(p.href, p.body)
       /\ \E kind \in {"stored", "kept"} :
            ans' = [ans EXCEPT ![w] = [kind |-> kind, etag |-> clock + 1, body |-> p.body]]
  ELSE /\ \E kind \in IF srv[p.href].live THEN {"conflict"} ELSE {"conflict", "missing"} :
            ans' = [ans EXCEPT ![w] = Says(kind)]
       /\ UNCHANGED server

\* A DELETE under If-Match.
TakeDelete(w, h, etag) ==
  IF Holds(h, etag)
  THEN ServerRemove(h) /\ ans' = [ans EXCEPT ![w] = Says("deleted")]
  ELSE /\ ans' = [ans EXCEPT ![w] = Says(IF srv[h].live THEN "conflict" ELSE "missing")]
       /\ UNCHANGED server

-----------------------------------------------------------------------------
(***************************************************************************)
(* push and push_one.                                                      *)
(***************************************************************************)

At(w, step) == pc[w] = step

Goto(w, step) == pc' = [pc EXCEPT ![w] = step]

\* push_one returned: on to the next pending row.
Done(w) ==
  /\ Goto(w, "push")
  /\ cur' = [cur EXCEPT ![w] = NoWrite]
  /\ ans' = [ans EXCEPT ![w] = Says("none")]
  /\ retry' = [retry EXCEPT ![w] = TRUE]
  /\ UNCHANGED todo

\* The round is over, or failed for good: what it held in memory is gone.
Leave(w) ==
  /\ Goto(w, "idle")
  /\ todo' = [todo EXCEPT ![w] = {}]
  /\ cur' = [cur EXCEPT ![w] = NoWrite]
  /\ ans' = [ans EXCEPT ![w] = Says("none")]
  /\ retry' = [retry EXCEPT ![w] = TRUE]

ForgetPull == delta' = NoDelta /\ known' = [h \in Hrefs |-> 0] /\ fetched' = {}

\* A round begins (the loop's), or asstd is told to stop and flushes: pending().
Begin(w) ==
  /\ At(w, "idle")
  /\ Goto(w, "push")
  /\ todo' = [todo EXCEPT ![w] = AllPending]
  /\ UNCHANGED <<cache, server, cur, retry, ans, pull, used, ghosts>>

\* The server takes the write of a row push has reached, or of one rebased.
Send(w) ==
  \E p \in todo[w] \cup {cur[w]} :
    /\ \/ At(w, "push") /\ p \in todo[w] /\ todo' = [todo EXCEPT ![w] = @ \ {p}]
       \/ At(w, "again") /\ p = cur[w] /\ UNCHANGED todo
    /\ cur' = [cur EXCEPT ![w] = p]
    /\ Goto(w, "sent")
    /\ IF p.op = "delete" THEN TakeDelete(w, p.href, p.etag) ELSE TakePut(w, p)
    /\ UNCHANGED <<cache, retry, pull, used, ghosts>>

\* Stored byte for byte: what was sent is the base.
ApplyStored(w) ==
  /\ At(w, "sent") /\ ans[w].kind = "stored"
  /\ Pushed(cur[w], ans[w].etag, cur[w].body)
  /\ Done(w)
  /\ UNCHANGED <<token, fresh, server, pull, used, ghosts>>

\* Deleted, or gone already.
ApplyDeleted(w) ==
  /\ \/ At(w, "sent") /\ cur[w].op = "delete"
     \/ At(w, "resent")
  /\ ans[w].kind \in {"deleted", "missing"}
  /\ Forget(cur[w].href)
  /\ Done(w)
  /\ UNCHANGED <<token, fresh, server, pull, used, ghosts>>

\* An update of a resource that is gone: the server's delete wins.  (A create
\* is never told so; that and a second conflict are errors to report.)
ApplyMissing(w) ==
  /\ At(w, "sent") /\ cur[w].op # "delete" /\ ans[w].kind = "missing"
  /\ IF cur[w].op = "update" THEN Forget(cur[w].href) ELSE UNCHANGED rows
  /\ Done(w)
  /\ UNCHANGED <<token, fresh, server, pull, used, ghosts>>

\* Stored otherwise, or written elsewhere first: the server's copy is needed.
NeedCopy(w) ==
  /\ At(w, "sent") /\ ans[w].kind \in {"kept", "conflict"}
  /\ Goto(w, IF ans[w].kind = "kept" THEN "confirm" ELSE "refetch")
  /\ ans' = [ans EXCEPT ![w] = Says("none")]
  /\ UNCHANGED <<cache, server, todo, cur, retry, pull, used, ghosts>>

\* fetch_one: the server answers with what it holds now.
FetchOne(w) ==
  /\ pc[w] \in {"confirm", "refetch"}
  /\ Goto(w, IF At(w, "confirm") THEN "confirmed" ELSE "refetched")
  /\ ans' = [ans EXCEPT ![w] = IF srv[cur[w].href].live THEN CopyOf(cur[w].href)
                                                        ELSE Says("missing")]
  /\ UNCHANGED <<cache, server, todo, cur, retry, pull, used, ghosts>>

\* The server's wording of what was sent is the base.
ApplyConfirmed(w) ==
  /\ At(w, "confirmed")
  /\ IF ans[w].kind = "copy" THEN Pushed(cur[w], ans[w].etag, ans[w].body) ELSE UNCHANGED rows
  /\ Done(w)
  /\ UNCHANGED <<token, fresh, server, pull, used, ghosts>>

\* A conflict, and the resource is gone: a delete is done with, an edit fails
\* this time.
ApplyGone(w) ==
  /\ At(w, "refetched") /\ ans[w].kind = "missing"
  /\ IF cur[w].op = "delete" THEN Forget(cur[w].href) ELSE UNCHANGED rows
  /\ Done(w)
  /\ UNCHANGED <<token, fresh, server, pull, used, ghosts>>

\* Changed elsewhere, and the delete still stands: sent again for that copy.
DeleteCurrent(w) ==
  /\ At(w, "refetched") /\ ans[w].kind = "copy" /\ cur[w].op = "delete"
  /\ Goto(w, "redelete")
  /\ UNCHANGED <<cache, server, todo, cur, retry, ans, pull, used, ghosts>>

Redelete(w) ==
  /\ At(w, "redelete")
  /\ TakeDelete(w, cur[w].href, ans[w].etag)
  /\ Goto(w, "resent")
  /\ UNCHANGED <<cache, todo, cur, retry, pull, used, ghosts>>

\* Changed once more in between: an error, and the delete waits.
DeleteRefused(w) ==
  /\ At(w, "resent") /\ ans[w].kind = "conflict"
  /\ Done(w)
  /\ UNCHANGED <<cache, server, pull, used, ghosts>>

\* Changed elsewhere: the edits are rebased on that copy.
Rebase(w) ==
  /\ At(w, "refetched") /\ ans[w].kind = "copy" /\ cur[w].op # "delete"
  /\ rows' = [rows EXCEPT ![cur[w].href] = ServerCopy(@, ans[w].etag, ans[w].body)]
  /\ Goto(w, "reread")
  /\ ans' = [ans EXCEPT ![w] = Says("none")]
  /\ UNCHANGED <<token, fresh, server, todo, cur, retry, pull, used, ghosts>>

\* What is pending for it now is sent, once.
Reread(w) ==
  LET h == cur[w].href IN
  /\ At(w, "reread")
  /\ IF retry[w] /\ IsPending(rows[h])
     THEN /\ Goto(w, "again")
          /\ cur' = [cur EXCEPT ![w] = PendingOf(h)]
          /\ retry' = [retry EXCEPT ![w] = FALSE]
          /\ UNCHANGED <<todo, ans>>
     ELSE Done(w)
  /\ UNCHANGED <<cache, server, pull, used, ghosts>>

\* Everything was sent: the loop goes on to pull, flush ends and asstd with it.
PushDone(w) ==
  /\ At(w, "push") /\ todo[w] = {}
  /\ IF w = Loop
     THEN Goto(w, "lists") /\ UNCHANGED <<todo, cur, retry, ans, pull>>
     ELSE /\ pc' = [v \in Workers |-> "idle"]
          /\ todo' = [v \in Workers |-> {}]
          /\ cur' = [v \in Workers |-> NoWrite]
          /\ ans' = [v \in Workers |-> Says("none")]
          /\ retry' = [v \in Workers |-> TRUE]
          /\ ForgetPull
  /\ UNCHANGED <<cache, server, used, ghosts>>

-----------------------------------------------------------------------------
(***************************************************************************)
(* pull and pull_list.                                                     *)
(***************************************************************************)

\* The listing of lists: this one is read only if its token moved.
ReadLists ==
  /\ At(Loop, "lists")
  /\ IF token = 0 \/ token # clock
     THEN Goto(Loop, "changes") /\ UNCHANGED <<todo, cur, retry, ans>>
     ELSE Leave(Loop)
  /\ UNCHANGED <<cache, server, pull, used, ghosts>>

\* Everything the list holds, or what its history tells since the token.
Listing == [changed  |-> {<<h, srv[h].at>> : h \in {g \in Hrefs : srv[g].live}},
            removed  |-> {},
            token    |-> clock,
            complete |-> TRUE]

Since(t) ==
  LET touched == {h \in Hrefs \ pruned : srv[h].at > t}
  IN  [changed  |-> {<<h, srv[h].at>> : h \in {g \in touched : srv[g].live}},
       removed  |-> {h \in touched : ~srv[h].live},
       token    |-> clock,
       complete |-> FALSE]

\* Mutant: without FULL_EVERY.
UseToken_However(t, full) == t # 0

\* A token is used for a day after the last full listing.
UseToken(t, full) == t # 0 /\ full

\* The server may refuse the token at any time, and the whole list is read
\* instead.
ReadChanges ==
  /\ At(Loop, "changes")
  /\ delta' \in IF UseToken(token, fresh) THEN {Since(token), Listing} ELSE {Listing}
  /\ Goto(Loop, "known")
  /\ UNCHANGED <<cache, server, todo, cur, retry, ans, known, fetched, used, ghosts>>

ETags == [h \in Hrefs |-> IF rows[h].here THEN rows[h].etag ELSE 0]

Wanted(etags) == {h \in Hrefs : \E c \in delta.changed : c[1] = h /\ c[2] # etags[h]}

\* The cache's ETags are read once the answer is there.
ReadKnown ==
  /\ At(Loop, "known")
  /\ known' = ETags
  /\ Goto(Loop, IF Wanted(ETags) = {} THEN "finish" ELSE "fetch")
  /\ UNCHANGED <<cache, server, todo, cur, retry, ans, delta, fetched, used, ghosts>>

\* The multiget answers with what the server holds by then.
FetchWanted ==
  /\ At(Loop, "fetch")
  /\ fetched' = {[href |-> h, etag |-> srv[h].at, body |-> srv[h].body] :
                   h \in {g \in Wanted(known) : srv[g].live}}
  /\ Goto(Loop, "store")
  /\ UNCHANGED <<cache, server, todo, cur, retry, ans, delta, known, used, ghosts>>

StoreFetched ==
  /\ At(Loop, "store")
  /\ rows' = [h \in Hrefs |->
                IF \E f \in fetched : f.href = h
                THEN LET f == CHOOSE g \in fetched : g.href = h
                     IN  ServerCopy(rows[h], f.etag, f.body)
                ELSE rows[h]]
  /\ fetched' = {}
  /\ Goto(Loop, "finish")
  /\ UNCHANGED <<token, fresh, server, todo, cur, retry, ans, delta, known, used, ghosts>>

\* Mutant: only what a delta names as removed.
Gone_Named(d, etags) == {h \in d.removed : etags[h] # 0}

\* What the cache knew and the server no longer has.
Gone(d, etags) ==
  {h \in Hrefs : /\ etags[h] # 0
                 /\ h \in d.removed \/ (d.complete /\ \A c \in d.changed : c[1] # h)}

\* It goes; then the token moves.
Finish ==
  /\ At(Loop, "finish")
  /\ rows' = [h \in Hrefs |-> IF h \in Gone(delta, known) THEN NoRow ELSE rows[h]]
  /\ token' = delta.token
  /\ fresh' = (delta.complete \/ fresh)
  /\ Leave(Loop)
  /\ ForgetPull
  /\ UNCHANGED <<server, used, ghosts>>

-----------------------------------------------------------------------------
(***************************************************************************)
(* The user.                                                               *)
(***************************************************************************)

\* An edit nobody made before: ids only tell edits apart.
NextId == used.local + used.phone + 1

Local == used.local < MaxLocal /\ used' = [used EXCEPT !.local = @ + 1]

Unused(h) == ~rows[h].here /\ srv[h].at = 0 /\ accepted[h] = {}

Accept(h, e) == accepted' = [accepted EXCEPT ![h] = @ \cup {e}]

\* create, under a new UUID; or insert_new (duplicate, the completed copy of a
\* repeating task, the other end of a move), whose whole body is the base.
LocalCreate(h) ==
  LET e == [id |-> NextId, op |-> "title"]
      whole == Combined(NewBody, <<e>>)
  IN
  /\ Unused(h) /\ Local
  /\ \/ rows' = [rows EXCEPT ![h] = OnTopOf(NoRow, 0, NewBody, <<e>>)]
     \/ rows' = [rows EXCEPT ![h] = OnTopOf(NoRow, 0, whole, <<>>)]
  /\ Accept(h, e)
  /\ UNCHANGED <<token, fresh, server, push, pull, deleted, phoneDone>>

\* edit, and the edit half of complete.
LocalEdit(h, op) ==
  LET e == [id |-> NextId, op |-> op]
      r == rows[h]
  IN
  /\ r.here /\ ~r.deleted /\ ~Refuses(r.ics, <<e>>) /\ Local
  /\ rows' = [rows EXCEPT ![h] = [r EXCEPT !.edits = Append(r.edits, e),
                                           !.ics = Combined(r.ics, <<e>>)]]
  /\ Accept(h, e)
  /\ UNCHANGED <<token, fresh, server, push, pull, deleted, phoneDone>>

\* delete: a row without an ETag is forgotten, another waits to be deleted there.
LocalDelete(h) ==
  LET r == rows[h] IN
  /\ r.here /\ ~r.deleted /\ Local
  /\ IF r.etag = 0
     THEN Forget(h) /\ deleted' = [deleted EXCEPT ![h] = "forgotten"]
     ELSE /\ rows' = [rows EXCEPT ![h] = [@ EXCEPT !.deleted = TRUE]]
          /\ deleted' = [deleted EXCEPT ![h] = "marked"]
  /\ UNCHANGED <<token, fresh, server, push, pull, accepted, phoneDone>>

-----------------------------------------------------------------------------
(***************************************************************************)
(* The phone, time, and what goes wrong.                                   *)
(***************************************************************************)

Phone == used.phone < MaxPhone /\ used' = [used EXCEPT !.phone = @ + 1]

PhoneCreate(h) ==
  /\ Unused(h) /\ Phone
  /\ ServerPut(h, Combined(NewBody, <<[id |-> NextId, op |-> "title"]>>))
  /\ UNCHANGED <<cache, push, pull, ghosts>>

PhoneEdit(h, op) ==
  LET e == [id |-> NextId, op |-> op] IN
  /\ srv[h].live /\ ~Refuses(srv[h].body, <<e>>) /\ Phone
  /\ ServerPut(h, Combined(srv[h].body, <<e>>))
  /\ phoneDone' = [phoneDone EXCEPT ![h] = IF op = "complete" THEN @ + 1 ELSE @]
  /\ UNCHANGED <<cache, push, pull, accepted, deleted>>

PhoneBreaks(h, kind) ==
  /\ srv[h].live /\ srv[h].body.kind = "todo" /\ Phone
  /\ ServerPut(h, [srv[h].body EXCEPT !.kind = kind])
  /\ UNCHANGED <<cache, push, pull, ghosts>>

PhoneDelete(h) ==
  /\ srv[h].live /\ Phone
  /\ ServerRemove(h)
  /\ UNCHANGED <<cache, push, pull, ghosts>>

\* The last full listing is a day old.  History the server has dropped is older
\* than that (Nextcloud keeps weeks of it), so a token from before it is too.
TimePasses ==
  /\ At(Loop, "idle")
  /\ fresh' = FALSE
  /\ \E gone \in SUBSET {h \in Hrefs : srv[h].at > token} : pruned' = pruned \cup gone
  /\ UNCHANGED <<rows, token, srv, clock, push, pull, used, ghosts>>

Fault == used.fault < MaxFaults /\ used' = [used EXCEPT !.fault = @ + 1]

\* A request or its answer is lost, or the credentials are refused: the round
\* ends.  Whether the server took the request depends on where it was lost.
\* (While pulling, any other error ends the reading of the list all the same.)
NetworkFails(w) ==
  /\ pc[w] \in Asking \cup Answering \/ (At(w, "push") /\ todo[w] # {})
  /\ Fault
  /\ Leave(w)
  /\ IF w = Loop THEN ForgetPull ELSE UNCHANGED pull
  /\ UNCHANGED <<cache, server, ghosts>>

\* The server refuses one write with an error of its own: it is a problem to
\* report, and the round goes on with the next row.
ServerError(w) ==
  /\ \/ At(w, "push") /\ \E p \in todo[w] : todo' = [todo EXCEPT ![w] = @ \ {p}]
     \/ pc[w] \in {"again", "confirm", "refetch", "redelete"} /\ UNCHANGED todo
  /\ Fault
  /\ Goto(w, "push")
  /\ cur' = [cur EXCEPT ![w] = NoWrite]
  /\ ans' = [ans EXCEPT ![w] = Says("none")]
  /\ retry' = [retry EXCEPT ![w] = TRUE]
  /\ UNCHANGED <<cache, server, pull, ghosts>>

\* asstd dies, or flush runs out of its five seconds: only the store is left.
Crash ==
  /\ \E w \in Workers : ~At(w, "idle")
  /\ Fault
  /\ pc' = [w \in Workers |-> "idle"]
  /\ todo' = [w \in Workers |-> {}]
  /\ cur' = [w \in Workers |-> NoWrite]
  /\ ans' = [w \in Workers |-> Says("none")]
  /\ retry' = [w \in Workers |-> TRUE]
  /\ ForgetPull
  /\ UNCHANGED <<cache, server, ghosts>>

-----------------------------------------------------------------------------

Init ==
  /\ rows = [h \in Hrefs |-> NoRow] /\ token = 0 /\ fresh = FALSE
  /\ srv = [h \in Hrefs |-> [live |-> FALSE, at |-> 0, body |-> NewBody]]
  /\ clock = 1 /\ pruned = {}
  /\ pc = [w \in Workers |-> "idle"]
  /\ todo = [w \in Workers |-> {}]
  /\ cur = [w \in Workers |-> NoWrite]
  /\ retry = [w \in Workers |-> TRUE]
  /\ ans = [w \in Workers |-> Says("none")]
  /\ delta = NoDelta /\ known = [h \in Hrefs |-> 0] /\ fetched = {}
  /\ used = [local |-> 0, phone |-> 0, fault |-> 0]
  /\ accepted = [h \in Hrefs |-> {}]
  /\ deleted = [h \in Hrefs |-> "no"]
  /\ phoneDone = [h \in Hrefs |-> 0]

PushStep(w) ==
  \/ Begin(w) \/ Send(w) \/ ApplyStored(w) \/ ApplyDeleted(w) \/ ApplyMissing(w)
  \/ NeedCopy(w) \/ FetchOne(w) \/ ApplyConfirmed(w) \/ ApplyGone(w)
  \/ DeleteCurrent(w) \/ Redelete(w) \/ DeleteRefused(w)
  \/ Rebase(w) \/ Reread(w) \/ PushDone(w)

PullStep == ReadLists \/ ReadChanges \/ ReadKnown \/ FetchWanted \/ StoreFetched \/ Finish

UserStep ==
  \E h \in Hrefs :
    \/ LocalCreate(h)
    \/ \E op \in {"title", "complete"} : LocalEdit(h, op)
    \/ LocalDelete(h)

PhoneStep ==
  \E h \in Hrefs :
    \/ PhoneCreate(h)
    \/ \E op \in {"title", "complete"} : PhoneEdit(h, op)
    \/ \E kind \in PhoneKinds : PhoneBreaks(h, kind)
    \/ PhoneDelete(h)

FaultStep == Crash \/ \E w \in Workers : NetworkFails(w) \/ ServerError(w)

Next ==
  \/ \E w \in Workers : PushStep(w)
  \/ PullStep
  \/ UserStep
  \/ PhoneStep
  \/ TimePasses
  \/ FaultStep

Spec == Init /\ [][Next]_vars

-----------------------------------------------------------------------------
(***************************************************************************)
(* Properties.                                                             *)
(***************************************************************************)

\* The type of every variable: what the columns of the store, the server's
\* answers and a round's local variables can be.
TypeOK ==
  /\ rows \in [Hrefs -> Row] /\ token \in Nat /\ fresh \in BOOLEAN
  /\ srv \in [Hrefs -> Resource] /\ clock \in Nat /\ pruned \subseteq Hrefs
  /\ pc \in [Workers -> Steps]
  /\ todo \in [Workers -> SUBSET Pending]
  /\ cur \in [Workers -> Pending \cup {NoWrite}]
  /\ retry \in [Workers -> BOOLEAN]
  /\ ans \in [Workers -> Answer]
  /\ delta \in Delta /\ known \in [Hrefs -> Nat] /\ fetched \subseteq Copy
  /\ used \in [local : Nat, phone : Nat, fault : Nat]
  /\ accepted \in [Hrefs -> SUBSET Edit]
  /\ deleted \in [Hrefs -> {"no", "marked", "forgotten"}]
  /\ phoneDone \in [Hrefs -> Nat]

\* store.rs: "base (the server's copy)".  Where a row's ETag is the server's
\* current one, its base is what the server holds; a write under that ETag is
\* then made from it.
BaseIsServersCopy ==
  \A h \in Hrefs :
    rows[h].here /\ srv[h].live /\ rows[h].etag = srv[h].at => rows[h].base = srv[h].body

\* store.rs: "ics (the two combined, which is what gets shown and sent)": every
\* path that writes a row writes base, edits and ics together.
IcsIsCombined ==
  \A h \in Hrefs : rows[h].here => rows[h].ics = Combined(rows[h].base, rows[h].edits)

\* sync.rs pushes under If-Match and rebases on a conflict, so that "both sides'
\* changes survive": no write, asst's or the phone's, replaces a copy by one not
\* made from it.
NoLostUpdate ==
  [][\A h \in Hrefs : srv[h].live /\ srv'[h].live => srv[h].body.seen \subseteq srv'[h].body.seen]_vars

\* An edit the user was told was taken is on the server, or still in the task
\* shown here and waiting to be sent.  A delete, here or there, takes it along;
\* a completion is also done where the phone made one; and the server wins when
\* its copy is one the edits make no sense on.
NoLostEdit ==
  \A h \in Hrefs : \A e \in accepted[h] :
    \/ e.id \in srv[h].body.seen
    \/ IsPending(rows[h]) /\ e.id \in rows[h].ics.seen
    \/ deleted[h] # "no"
    \/ srv[h].at > 0 /\ ~srv[h].live
    \/ srv[h].body.kind # "todo"
    \/ e.op = "complete" /\ phoneDone[h] > 0

\* A list's token never claims more than the cache has: of what changed up to
\* it, the cache holds the server's current copy, or nothing where it is gone
\* (but a row whose create was never confirmed: the cache does not know of it).
\* (A delta read with a token the history no longer reaches would break this;
\* FULL_EVERY is there for it.)
TokenCovers ==
  \A h \in Hrefs :
    LET s == srv[h] IN
    token # 0 /\ s.at # 0 /\ s.at <= token =>
      IF s.live /\ s.body.kind # "other"
      THEN rows[h].here /\ rows[h].etag = s.at
      ELSE rows[h].here => rows[h].etag = 0

\* A delete of a task the server had holds: the task is never shown again, and
\* once the row is gone the server's copy is too, whatever the phone wrote
\* (unless it made something of it that is no task).
DeleteStands ==
  \A h \in Hrefs :
    deleted[h] = "marked" =>
      IF rows[h].here THEN rows[h].deleted
      ELSE srv[h].live => srv[h].body.kind = "other"

\* As long as no request, answer or process is lost, a repeating task on the
\* server has been advanced once for each time someone completed it, and no more.
AdvancedOncePerCompletion ==
  used.fault = 0 =>
    \A h \in Hrefs :
      srv[h].body.due <= phoneDone[h] + Cardinality({e \in accepted[h] : e.op = "complete"})

\* store.rs delete, where the row has no ETag: "Never reached the server: nothing
\* to tell it."  The server does not come to hold a task forgotten so.
ForgottenNeverReached ==
  \A h \in Hrefs : deleted[h] = "forgotten" => ~srv[h].live

\* The cache shows exactly what the server has, with nothing left to send.
Converged ==
  \A h \in Hrefs :
    IF srv[h].live /\ srv[h].body.kind # "other"
    THEN rows[h].here /\ ~IsPending(rows[h]) /\ rows[h].ics = srv[h].body
    ELSE ~rows[h].here

\* tokio keeps running the loop: a round begins at the latest when its interval
\* is over, requests are answered or time out, and each step is taken in turn.
Fairness == WF_vars(PushStep(Loop)) /\ WF_vars(PullStep)

FairSpec == Spec /\ Fairness

\* Whatever happened before, once the user and the phone rest and the network
\* holds, the cache and the server come to agree and stay so.
EventuallyConverged == <>[]Converged

-----------------------------------------------------------------------------
(***************************************************************************)
(* What the proofs in TaskSyncProofs rest on.                              *)
(***************************************************************************)

\* No ETag held here is one the server has yet to give out, and what the server
\* has, has one.
ETagsGiven ==
  /\ \A h \in Hrefs : rows[h].etag <= clock /\ srv[h].at <= clock
  /\ \A h \in Hrefs : srv[h].live => srv[h].at # 0
  /\ \A w \in Workers : cur[w].etag <= clock /\ ans[w].etag <= clock
  /\ \A w \in Workers : \A p \in todo[w] : p.etag <= clock
  /\ \A f \in fetched : f.etag <= clock

\* A write is some row's while it is under way or answered.
WriteInHand ==
  \A w \in Workers :
    pc[w] \in {"again", "sent", "confirm", "confirmed", "refetch", "refetched",
              "reread", "redelete", "resent"} \/ ans[w].kind # "none"
      => cur[w] \in Pending

\* The answer to a conflict is applied before its row is read again.
AnsweredBeforeReread == \A w \in Workers : pc[w] = "reread" => ans[w].kind = "none"

\* A body that came with an ETag is the server's as long as the ETag is.
AnswersHold ==
  /\ \A w \in Workers :
       /\ ans[w].kind = "stored" => ans[w].body = cur[w].body
       /\ ans[w].kind \in {"stored", "kept", "copy"} /\ Holds(cur[w].href, ans[w].etag) =>
            srv[cur[w].href].body = ans[w].body
  /\ \A f \in fetched : Holds(f.href, f.etag) => srv[f.href].body = f.body

\* An update, queued or under way, whose ETag is still the server's was made
\* from what the server holds.
UpdatesMadeFromCopy ==
  \A w \in Workers : \A p \in todo[w] \cup {cur[w]} :
    p.op = "update" /\ Holds(p.href, p.etag) => srv[p.href].body.seen \subseteq p.body.seen

\* The inductive invariant: the parts above, and what they establish.
SyncInvariant ==
  /\ TypeOK
  /\ ETagsGiven
  /\ WriteInHand
  /\ AnsweredBeforeReread
  /\ BaseIsServersCopy
  /\ IcsIsCombined
  /\ AnswersHold
  /\ UpdatesMadeFromCopy

-----------------------------------------------------------------------------
(***************************************************************************)
(* What they rest on where the loop is the only worker, for DeleteStands   *)
(* and TokenCovers: nobody else sends or forgets what it has in hand.      *)
(***************************************************************************)

Alone == Workers = {Loop}

Pulling == {"known", "fetch", "store", "finish"}

Writing == {"again", "sent", "confirm", "confirmed", "refetch", "refetched",
            "reread", "redelete", "resent"}

\* The writes that may still be sent, or that are answered for.
Hand == todo[Loop] \cup IF pc[Loop] \in Writing \ {"reread"} THEN {cur[Loop]} ELSE {}

\* It is not a task any more, and will not be again.
Lost(h) == ~srv[h].live \/ srv[h].body.kind = "other"

\* A row's ETag was the server's once; a task marked here as deleted was there.
RowsKnown ==
  \A h \in Hrefs :
    LET r == rows[h] IN
    /\ ~r.here => r = NoRow
    /\ r.here => r.base.kind # "other" /\ (r.deleted => r.etag # 0)
    /\ r.etag <= srv[h].at
    /\ deleted[h] = "marked" => srv[h].at # 0

\* A row is sent once in a round, as what it is: new, or known to the server.
HandSound ==
  /\ pc[Loop] \notin Writing => ans[Loop].kind = "none"
  /\ pc[Loop] \notin Writing \cup {"push"} => todo[Loop] = {}
  /\ pc[Loop] \in {"redelete", "resent"} => cur[Loop].op = "delete"
  /\ pc[Loop] \in Writing => \A p \in todo[Loop] : p.href # cur[Loop].href
  /\ \A p, q \in todo[Loop] : p.href = q.href => p = q
  /\ \A p \in Hand :
       LET r == rows[p.href] IN
       IF p.op = "create" THEN r.etag = 0 /\ deleted[p.href] # "marked"
                          ELSE r.here /\ r.etag # 0

\* A copy is what the server has, or the server was written since then.
Current(h, etag, body, since) ==
  /\ etag # 0
  /\ \/ srv[h].live /\ srv[h].at = etag /\ srv[h].body = body
     \/ srv[h].at > etag /\ srv[h].at > since
  /\ body.kind = "other" => Lost(h)

\* What the server answered to a write holds until it is applied.
AnswersTold ==
  LET a == ans[Loop]
      h == cur[Loop].href
  IN
  /\ a.kind \in {"deleted", "missing"} /\ cur[Loop].op # "create" => ~srv[h].live
  /\ a.kind \in {"stored", "kept"} => a.etag # 0 /\ a.etag <= srv[h].at
  /\ a.kind \in {"stored", "kept"} \/ pc[Loop] \in {"confirm", "confirmed"} => srv[h].at > token
  /\ a.kind = "copy" => Current(h, a.etag, a.body, token)

\* What history no longer tells is older than the token that is used.
HistoryTold ==
  /\ token <= clock
  /\ fresh => \A h \in pruned : srv[h].at <= token

Named(h) == {c \in delta.changed : c[1] = h}

\* A change the delta does not tell was there at the last one.
DeltaTells(h) ==
  \/ srv[h].live /\ Named(h) = {<<h, srv[h].at>>} /\ h \notin delta.removed
  \/ ~srv[h].live /\ Named(h) = {} /\ (h \in delta.removed \/ delta.complete)
  \/ /\ Named(h) = {} /\ h \notin delta.removed /\ ~delta.complete
     /\ token # 0 /\ srv[h].at <= token

\* What the delta names is in the cache, or is being fetched.
DeltaTaken(h) ==
  LET coming == (pc[Loop] = "fetch" /\ h \in Wanted(known))
                \/ (pc[Loop] = "store" /\ \E f \in fetched : f.href = h)
  IN
  /\ Named(h) # {} =>
       \/ coming
       \/ IF srv[h].body.kind = "other" THEN ~rows[h].here
                                        ELSE rows[h].here /\ rows[h].etag = srv[h].at
  /\ Named(h) = {} /\ known[h] = 0 => rows[h].etag = 0

\* What the delta says is gone.
ToldGone(h) == h \in delta.removed \/ (delta.complete /\ Named(h) = {})

PullTold ==
  /\ pc[Loop] \in Pulling =>
       /\ token <= delta.token /\ delta.token <= clock
       /\ \A h \in pruned : srv[h].at <= delta.token
       /\ \A h \in Hrefs :
            srv[h].at # 0 /\ srv[h].at <= delta.token =>
              DeltaTells(h) /\ (pc[Loop] # "known" => DeltaTaken(h))
       /\ \A h \in Hrefs :
            ToldGone(h) /\ (IF pc[Loop] = "known" THEN rows[h].etag ELSE known[h]) # 0 => ~srv[h].live
  /\ fetched # {} => pc[Loop] = "store"
  /\ \A f \in fetched :
       /\ Current(f.href, f.etag, f.body, delta.token)
       /\ Named(f.href) # {}
       /\ deleted[f.href] = "marked" /\ ~rows[f.href].here => f.body.kind = "other"

\* An ETag read from the cache was the server's once.
KnownReached == \A h \in Hrefs : known[h] # 0 => srv[h].at # 0

\* The inductive invariant of a loop that is alone.
AloneInvariant ==
  /\ SyncInvariant
  /\ RowsKnown
  /\ HandSound
  /\ AnswersTold
  /\ HistoryTold
  /\ PullTold
  /\ KnownReached
  /\ DeleteStands
  /\ TokenCovers

-----------------------------------------------------------------------------
(***************************************************************************)
(* And for NoLostEdit and AdvancedOncePerCompletion: what the bodies the   *)
(* server has and answered with owe to the edits of the row here.          *)
(***************************************************************************)

\* How many of the first n edits complete the task.
Completes(es, n) == Cardinality({i \in 1 .. n : es[i].op = "complete"})

\* It was made from the row's base; and it has the title an edit of the row set
\* only if it was made with the edits before that one too.
MadeFrom(b, r) ==
  /\ r.base.seen \subseteq b.seen
  /\ \A n \in 1 .. Len(r.edits) :
       r.edits[n].op = "title" /\ b.title = r.edits[n].id =>
         \A i \in 1 .. n : r.edits[i].id \in b.seen

\* It is as far as the row's base and the first edits, with which it was made,
\* advance it.
AdvancedBy(b, r) ==
  \E n \in 0 .. Len(r.edits) : /\ b.due = r.base.due + Completes(r.edits, n)
                               /\ \A i \in 1 .. n : r.edits[i].id \in b.seen

Fits(h, b) ==
  rows[h].here => MadeFrom(b, rows[h]) /\ (phoneDone[h] = 0 => AdvancedBy(b, rows[h]))

\* What the server has was made from it, and advanced since by the phone alone.
Grown(h, b) ==
  srv[h].live => /\ b.seen \subseteq srv[h].body.seen
                 /\ phoneDone[h] = 0 => srv[h].body.due = b.due

\* What does not take every edit stays so.
Spoilt(h) == (srv[h].at # 0 /\ ~srv[h].live) \/ srv[h].body.kind # "todo"

\* Ids tell edits apart, and what a title says was set before.
RowGiven(h) ==
  /\ rows[h].base.title < NextId
  /\ \A i \in 1 .. Len(rows[h].edits) : rows[h].edits[i] \in accepted[h]
  /\ rows[h].here /\ rows[h].etag = 0 => accepted[h] # {}

IdsGiven ==
  /\ \A h \in Hrefs :
       /\ srv[h].body.title < NextId
       /\ \A e \in accepted[h] : e.id < NextId /\ \A f \in accepted[h] : e.id = f.id => e = f
       /\ RowGiven(h)
  /\ \A p \in Hand : p.body.title < NextId
  /\ ans[Loop].kind = "copy" => ans[Loop].body.title < NextId
  /\ \A f \in fetched : f.body.title < NextId

\* A write was made from its row, with the edits it is said to carry.
WriteMade(p) ==
  LET r == rows[p.href] IN
  p.op # "delete" =>
    /\ r.here => /\ p.sent <= Len(r.edits)
                 /\ MadeFrom(p.body, r)
                 /\ \A i \in 1 .. p.sent : r.edits[i].id \in p.body.seen
                 /\ p.body.due = r.base.due + Completes(r.edits, p.sent)
    /\ p.op = "create" => accepted[p.href] # {} /\ (r.here \/ deleted[p.href] # "no")
    /\ p.op = "update" /\ Holds(p.href, p.etag) => p.body.kind = srv[p.href].body.kind

HandMade == \A p \in Hand : WriteMade(p)

\* What the server has fits the row; so does a copy it answered with.
ServerFits == \A h \in Hrefs : srv[h].live => Fits(h, srv[h].body)

Told(h, b) == Fits(h, b) /\ Grown(h, b) /\ (b.kind # "todo" => Spoilt(h))

CopiesFit ==
  /\ ans[Loop].kind = "copy" => Told(cur[Loop].href, ans[Loop].body)
  /\ \A f \in fetched : Told(f.href, f.body)

\* The server took the write, and has yet to be believed.
Taken ==
  \/ pc[Loop] = "sent" /\ ans[Loop].kind \in {"stored", "kept"}
  \/ pc[Loop] \in {"confirm", "confirmed"}

TakenGrown ==
  LET p == cur[Loop]
      a == ans[Loop]
  IN
  Taken =>
    /\ p.op # "delete"
    /\ Grown(p.href, p.body)
    /\ a.kind = "copy" => /\ p.body.seen \subseteq a.body.seen
                          /\ phoneDone[p.href] = 0 => a.body.due = p.body.due

\* A task that is new here shows every edit; any other shows them, or the server
\* has it otherwise.
Shows(h, e) ==
  \/ rows[h].here /\ e.id \in rows[h].ics.seen
  \/ /\ ~(rows[h].here /\ rows[h].etag = 0)
     /\ deleted[h] # "no" \/ Spoilt(h) \/ (e.op = "complete" /\ phoneDone[h] > 0)

EditsShown == \A h \in Hrefs : \A e \in accepted[h] : Shows(h, e)

\* The inductive invariant for the edits.
EditInvariant ==
  /\ AloneInvariant
  /\ IdsGiven
  /\ HandMade
  /\ ServerFits
  /\ CopiesFit
  /\ TakenGrown
  /\ EditsShown

\* The completions there can be an advance for.
Completed(h) == phoneDone[h] + Cardinality({e \in accepted[h] : e.op = "complete"})

\* The edits of a row that the server has, as it has yet to be believed.
OnServer(h) ==
  Completes(rows[h].edits, IF Taken /\ cur[Loop].href = h THEN cur[Loop].sent ELSE 0)

Unapplied(h) == Completes(rows[h].edits, Len(rows[h].edits))

\* A body is not advanced further than that, nor will it be by the edits of the
\* row that it is without.
Counted(h, b, with) ==
  /\ b.due <= Completed(h)
  /\ rows[h].here /\ b.kind = "todo" => b.due + Unapplied(h) <= Completed(h) + with

RowCounted(h) ==
  /\ IsFiniteSet(accepted[h])
  /\ srv[h].body.due <= Completed(h)
  /\ srv[h].live => Counted(h, srv[h].body, OnServer(h))
  /\ rows[h].here => rows[h].base.due + Unapplied(h) <= Completed(h)

CopiesCounted ==
  /\ \A p \in Hand : p.op # "delete" => p.body.due <= Completed(p.href)
  /\ ans[Loop].kind = "copy" =>
       Counted(cur[Loop].href, ans[Loop].body, OnServer(cur[Loop].href))
  /\ \A f \in fetched : Counted(f.href, f.body, 0)

\* A write that was taken is believed, unless nothing is owed to it any more.
TakenStands ==
  LET p == cur[Loop] IN
  Taken => /\ p.body.kind # "todo" => Spoilt(p.href)
           /\ pc[Loop] = "confirmed" /\ ans[Loop].kind # "copy" => ~srv[p.href].live

AdvancesCounted ==
  /\ \A h \in Hrefs : RowCounted(h)
  /\ CopiesCounted
  /\ TakenStands

OnceInvariant ==
  /\ EditInvariant
  /\ used.fault = 0 => AdvancesCounted

=============================================================================
