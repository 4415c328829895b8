----------------------------- MODULE RepoFollow -----------------------------
(***************************************************************************)
(* Which repo a link means, and a list that follows its repo's new name    *)
(* (asstd/src/github.rs: round to conflict; asstd/src/follow.rs).          *)
(*                                                                         *)
(* A round takes every link as it was when the round began, looks its repo *)
(* up on GitHub, by its id once that is known, and judges what it saw.  A  *)
(* rename moves the link and leaves a marker on it; following the marker   *)
(* renames the list on the CalDAV server, after an intent was written to   *)
(* the log.  Nothing is locked between two of these steps: links and lists *)
(* are changed by people, repos on GitHub, replies are lost, asstd dies.   *)
(*                                                                         *)
(* Names are equal when they are in any case.  The archived flag, ETags,   *)
(* the wait after a refusal and what a held link shows are left out; a     *)
(* look that is put off or refused is one that fails.                      *)
(***************************************************************************)
EXTENDS Integers, Sequences, FiniteSets

CONSTANTS
  Lists,      \* lists, by what never changes
  Labels,     \* what a list may be called
  Fixed,      \* lists that are the inbox or shared read-only: never renamed
  Repos,      \* repos, by GitHub's id
  Names,      \* owner/repo
  Short,      \* name -> the part after the owner
  Born,       \* repo -> its name at the start, or "none": made later
  Called,     \* list -> what it is called at the start
  PerHour,    \* RENAMES_PER_HOUR
  MaxHub,     \* bound: changes on GitHub
  MaxUser,    \* bound: changes of links, lists and the setting
  MaxFaults,  \* bound: lost and refused calls, crashes
  MaxEvents   \* bound: all of these together

ASSUME ReposAssumption == Repos \subseteq Nat \ {0}
ASSUME NamesAssumption == {"none", "gone"} \cap (Names \cup Labels) = {}
ASSUME ShortAssumption == Short \in [Names -> Labels]
ASSUME CalledAssumption == Called \in [Lists -> Labels]
ASSUME BornAssumption ==
  /\ Born \in [Repos -> Names \cup {"none"}]
  /\ \A r, s \in Repos : Born[r] = Born[s] /\ Born[r] # "none" => r = s
ASSUME BoundsAssumption == {PerHour, MaxHub, MaxUser, MaxFaults, MaxEvents} \subseteq Nat

VARIABLES
  hub,      \* GitHub: repo -> its name, "none" (not yet) or "gone"
  redirect, \* GitHub: an old name -> the repo that had it, or 0
  names,    \* the CalDAV server: list -> what it is called, or "gone"
  links,    \* table gh_links, by list
  log,      \* table gh_log: the rows that hold an intent, oldest first
  setting,  \* follow_rename: whether lists follow
  pc,       \* where the round is
  todo,     \* the links it has still to look at, as they were at its start
  row,      \* the one it is at
  seen,     \* what GitHub said of its repo
  listing,  \* what the server called the lists
  work,     \* following: what was read before the server was asked
  used,     \* how much of each bound is used
  meant,    \* history: list -> the repo its link was made for
  since,    \* history: list -> the names its repo had since its id was learned
  deeds,    \* history: the log's rows whose rename the server took
  shifted,  \* history: a name went to another repo under a look or an id unlearned
  crossed,  \* history: links were made or dropped during a round
  meddled   \* history: people changed a list's name, or a link

github == <<hub, redirect>>
store  == <<links, log, setting>>
round  == <<todo, row, seen, listing, work>>
ghosts == <<meant, since, deeds, shifted, crossed, meddled>>
vars   == <<github, names, store, pc, round, used, ghosts>>

None == "none"
Gone == "gone"
Nobody == 0

NoLink    == [repo |-> None, id |-> Nobody, from |-> None, late |-> FALSE]
NoRow     == [list |-> None, repo |-> None, id |-> Nobody]
NoSeen    == [kind |-> "none", id |-> Nobody, name |-> None]
NoWork    == [old |-> None, repo |-> None, late |-> FALSE, intent |-> 0, on |-> FALSE]
NoListing == [l \in Lists |-> Gone]

Linked == {l \in Lists : links[l].repo # None}

\* The link of a repo, by its name: at most one.
LinkOf(repo) == {l \in Linked : links[l].repo = repo}

Within == used.hub + used.user + used.fault < MaxEvents

Hub   == Within /\ used.hub < MaxHub /\ used' = [used EXCEPT !.hub = @ + 1]
User  == Within /\ used.user < MaxUser /\ used' = [used EXCEPT !.user = @ + 1]
Fault == Within /\ used.fault < MaxFaults /\ used' = [used EXCEPT !.fault = @ + 1]

-----------------------------------------------------------------------------
(***************************************************************************)
(* A look at the repo (look, judge).                                       *)
(***************************************************************************)

Holder(name) == {r \in Repos : hub[r] = name}

Found(r) == [kind |-> "record", id |-> r, name |-> hub[r]]

ById(r) ==
  IF hub[r] \in Names THEN Found(r) ELSE [NoSeen EXCEPT !.kind = "missing"]

\* A name answers with the repo that has it, or a redirect to the one that had it.
ByName(name) ==
  IF Holder(name) # {} THEN Found(CHOOSE r \in Holder(name) : TRUE)
  ELSE IF redirect[name] # Nobody /\ hub[redirect[name]] \in Names
       THEN [NoSeen EXCEPT !.kind = "moved", !.id = redirect[name]]
       ELSE [NoSeen EXCEPT !.kind = "missing"]

\* A redirect is followed to the record; an id GitHub cannot find is looked up by
\* name.
Again(r, s) == IF r.id = Nobody THEN s.kind = "moved" ELSE s.kind = "missing"

\* Mutant: the id is not compared.
Verdict_Unidentified(r, s) ==
  CASE s.kind # "record" -> "unknown"
    [] s.name # r.repo   -> "renamed"
    [] r.id = Nobody     -> "learn"
    [] OTHER             -> "fine"

Verdict(r, s) ==
  CASE s.kind = "moved" /\ r.id \notin {Nobody, s.id}  -> "replaced"
    [] s.kind # "record"                               -> "unknown"
    [] s.kind = "record" /\ r.id \notin {Nobody, s.id} -> "replaced"
    [] s.kind = "record" /\ r.id \in {Nobody, s.id} /\ s.name # r.repo -> "renamed"
    [] s.kind = "record" /\ s.name = r.repo /\ r.id = Nobody -> "learn"
    [] s.kind = "record" /\ s.name = r.repo /\ r.id = s.id -> "fine"

\* On to the next link, if there is one.
RowDone ==
  /\ pc' = IF todo = {} THEN "idle" ELSE "look"
  /\ row' = NoRow /\ seen' = NoSeen /\ listing' = NoListing /\ work' = NoWork
  /\ UNCHANGED todo

EndRound ==
  /\ pc' = "idle" /\ todo' = {}
  /\ row' = NoRow /\ seen' = NoSeen /\ listing' = NoListing /\ work' = NoWork

At(place) == pc = place /\ UNCHANGED <<github, used>>

BeginRound ==
  /\ At("idle") /\ Linked # {}
  /\ todo' = {[list |-> l, repo |-> links[l].repo, id |-> links[l].id] : l \in Linked}
  /\ pc' = "look"
  /\ UNCHANGED <<names, store, row, seen, listing, work, ghosts>>

Look ==
  /\ At("look")
  /\ \E r \in todo :
       LET s == IF r.id = Nobody THEN ByName(r.repo) ELSE ById(r.id) IN
       /\ row' = r /\ todo' = todo \ {r} /\ seen' = s
       /\ pc' = IF Again(r, s) THEN "again" ELSE "looked"
  /\ UNCHANGED <<names, store, listing, work, ghosts>>

LookAgain ==
  /\ At("again")
  /\ seen' = IF row.id = Nobody THEN ById(seen.id) ELSE ByName(row.repo)
  /\ pc' = "looked"
  /\ UNCHANGED <<names, store, todo, row, listing, work, ghosts>>

-----------------------------------------------------------------------------
(***************************************************************************)
(* What the look means for the link (apply_verdict).                       *)
(***************************************************************************)

Judged(verdicts) == At("looked") /\ Verdict(row, seen) \in verdicts

\* Another repo, or nothing is settled: the link is held and nothing changes.
Hold ==
  /\ Judged({"replaced", "unknown"})
  /\ RowDone /\ UNCHANGED <<names, store, ghosts>>

Fine ==
  /\ Judged({"fine"})
  /\ pc' = "issues"
  /\ UNCHANGED <<names, store, round, ghosts>>

\* Mutant: without NOT EXISTS.
IdTaken_Never(id) == FALSE

IdTaken(id) == \E l \in Linked : links[l].id = id

\* What the repo that was seen is called, by the look and by now.
NamesNow(name) == {name, hub[seen.id]} \cap Names

\* gh_learn_id: once, and no id twice.  Refused, the two links are a conflict.
LearnId ==
  /\ Judged({"learn"})
  /\ LET mine == {l \in LinkOf(row.repo) : links[l].id = Nobody} IN
     IF IdTaken(seen.id) \/ mine = {}
     THEN RowDone /\ UNCHANGED <<links, since>>
     ELSE /\ links' = [l \in Lists |-> IF l \in mine THEN [links[l] EXCEPT !.id = seen.id]
                                       ELSE links[l]]
          /\ since' = [l \in Lists |-> IF l \in mine THEN NamesNow(row.repo) ELSE since[l]]
          /\ pc' = "issues" /\ UNCHANGED round
  /\ UNCHANGED <<names, log, setting, meant, deeds, shifted, crossed, meddled>>

\* Another link has the new name, or is the same repo.
Conflict(to, id) ==
  \E l \in Linked \ LinkOf(row.repo) : links[l].repo = to \/ links[l].id = id

\* Mutant: a rename found after the fact leaves a marker too.
Moved_Always(link, witnessed) ==
  [link EXCEPT !.repo = seen.name,
               !.id = IF @ = Nobody THEN seen.id ELSE @,
               !.from = IF @ = None THEN row.repo ELSE @,
               !.late = FALSE]

\* gh_rename: a rename that was witnessed leaves a marker, of the first old name;
\* one found after the fact learns the id.
Moved(link, witnessed) ==
  [link EXCEPT !.repo = seen.name,
               !.id = IF ~witnessed /\ @ = Nobody THEN seen.id ELSE @,
               !.from = IF witnessed /\ @ = None THEN row.repo ELSE @,
               !.late = IF witnessed THEN FALSE ELSE @]

Rename ==
  /\ Judged({"renamed"})
  /\ IF Conflict(seen.name, seen.id)
     THEN RowDone /\ UNCHANGED <<links, since>>
     ELSE /\ links' = [l \in Lists |-> IF l \in LinkOf(row.repo)
                                       THEN Moved(links[l], row.id # Nobody) ELSE links[l]]
          /\ since' = [l \in Lists |-> IF l \in LinkOf(row.repo) /\ row.id = Nobody
                                       THEN NamesNow(seen.name) ELSE since[l]]
          /\ pc' = "follow" /\ UNCHANGED round
  /\ UNCHANGED <<names, log, setting, meant, deeds, shifted, crossed, meddled>>

\* The pass over the issues (GithubPass), by the repo's name; whether it gets them
\* or not, the list's name is next.
ReadIssues ==
  /\ At("issues")
  /\ pc' = "follow"
  /\ UNCHANGED <<names, store, round, ghosts>>

-----------------------------------------------------------------------------
(***************************************************************************)
(* Following the rename (follow::try_follow).                              *)
(***************************************************************************)

\* unfinished: intents the log has under the repo's name now, for the marker's old
\* name.
Unfinished(link) ==
  {i \in DOMAIN log : /\ log[i].kind = "renaming" /\ log[i].list = row.list
                      /\ log[i].repo = link.repo /\ log[i].old = link.from}

Newest(S) == IF S = {} THEN 0 ELSE CHOOSE i \in S : \A j \in S : j <= i

Marker(l) == l \in Linked /\ links[l].from # None

Unmarked(repo) ==
  [l \in Lists |-> IF links[l].repo = repo THEN [links[l] EXCEPT !.from = None, !.late = FALSE]
                   ELSE links[l]]

SameShort(old, new) == Short[old] = Short[new]

\* Given up before the server is asked: expired, switched off, or only the owner
\* changed.
NothingToAsk(link) == Unfinished(link) = {} /\ (link.late \/ ~setting \/ SameShort(link.from, link.repo))

Follow ==
  /\ At("follow")
  /\ LET link == links[row.list] IN
     IF ~Marker(row.list) \/ NothingToAsk(link)
     THEN /\ RowDone
          /\ links' = IF Marker(row.list) THEN Unmarked(link.repo) ELSE links
     ELSE /\ work' = [old |-> link.from, repo |-> link.repo, late |-> link.late,
                      intent |-> Newest(Unfinished(link)), on |-> setting]
          /\ pc' = "lists"
          /\ UNCHANGED <<links, todo, row, seen, listing>>
  /\ UNCHANGED <<names, log, setting, ghosts>>

ReadLists ==
  /\ At("lists")
  /\ listing' = names /\ pc' = "listed"
  /\ UNCHANGED <<names, store, todo, row, seen, work, ghosts>>

\* adopt_lists: the links of lists that are gone go with them.
Adopted == [l \in Lists |-> IF listing[l] = Gone THEN NoLink ELSE links[l]]

\* The link as it is after the listing; its marker is not read again.
Link == Adopted[row.list]

Clash(new) == \E l \in Lists \ {row.list} : listing[l] = Short[new]

\* follow_list_name: the list is called exactly as the old repo, and nothing is in
\* the way.
MayTakeName(new) ==
  /\ work.on
  /\ listing[row.list] # Short[new] /\ listing[row.list] = Short[work.old]
  /\ row.list \notin Fixed /\ ~Clash(new)

\* renamed_lately: begun or done in the last hour, the one in hand aside.
Lately ==
  {i \in DOMAIN log : log[i].recent /\ log[i].kind \in {"renaming", "renamed"} /\ i # work.intent}

Ended(i, kind) == IF i = 0 THEN log ELSE [log EXCEPT ![i].kind = kind]

\* Mutant: a list that is not called as it was has been changed by someone.
AlreadyDone_Unread == FALSE

\* What the listing says of an intent that was begun.
AlreadyDone == work.intent # 0 /\ listing[row.list] = log[work.intent].to

GivenUp ==
  work.intent # 0 /\ ~AlreadyDone
    /\ (listing[row.list] # log[work.intent].from \/ work.late)

Listed == At("listed") /\ Link.repo # None

\* The link went, with its list or dropped by the user.
LinkGone ==
  /\ At("listed") /\ Link.repo = None
  /\ links' = Adopted /\ RowDone
  /\ UNCHANGED <<names, log, setting, ghosts>>

\* Mutant: the marker stays.
ClearedOf_Left(repo) == Adopted

ClearedOf(repo) ==
  [l \in Lists |-> IF Adopted[l].repo = repo
                   THEN [Adopted[l] EXCEPT !.from = None, !.late = FALSE] ELSE Adopted[l]]

\* Found done after an interruption.
Resume ==
  /\ Listed /\ AlreadyDone
  /\ log' = Ended(work.intent, "renamed") /\ links' = ClearedOf(Link.repo)
  /\ RowDone
  /\ UNCHANGED <<names, setting, ghosts>>

\* The list keeps its name; where the short name did not change there is nothing to
\* say, and an intent there was stays as it is.
Keep ==
  /\ Listed /\ ~AlreadyDone
  /\ GivenUp \/ ~MayTakeName(Link.repo) \/ SameShort(work.old, Link.repo)
  /\ log' = IF ~GivenUp /\ work.on /\ SameShort(work.old, Link.repo) THEN log
            ELSE Ended(work.intent, "kept")
  /\ links' = ClearedOf(Link.repo)
  /\ RowDone
  /\ UNCHANGED <<names, setting, ghosts>>

Ready == Listed /\ ~AlreadyDone /\ ~GivenUp /\ MayTakeName(Link.repo)

\* Three lists were renamed in the last hour: the marker waits.
WaitHour ==
  /\ Ready /\ Cardinality(Lately) >= PerHour
  /\ links' = Adopted /\ RowDone
  /\ UNCHANGED <<names, log, setting, ghosts>>

\* close_superseded: other intents of the list end as kept.
Superseded ==
  [i \in DOMAIN log |-> IF log[i].kind = "renaming" /\ log[i].list = row.list
                        THEN [log[i] EXCEPT !.kind = "kept"] ELSE log[i]]

Intent ==
  [kind |-> "renaming", repo |-> Link.repo, list |-> row.list, from |-> listing[row.list],
   to |-> Short[Link.repo], old |-> work.old, recent |-> TRUE]

\* The intent is written before the server is asked.
Intend ==
  /\ Ready /\ Cardinality(Lately) < PerHour
  /\ links' = Adopted
  /\ log' = IF work.intent # 0 THEN log ELSE Append(Superseded, Intent)
  /\ work' = [work EXCEPT !.repo = Link.repo, !.intent = IF @ # 0 THEN @ ELSE Len(log')]
  /\ pc' = "rename"
  /\ UNCHANGED <<names, setting, todo, row, seen, listing, ghosts>>

\* The server takes the new name, whatever the list is called by now.
RenameList ==
  /\ At("rename") /\ names[row.list] # Gone
  /\ names' = [names EXCEPT ![row.list] = Short[work.repo]]
  /\ deeds' = deeds \cup {work.intent}
  /\ pc' = "renamed"
  /\ UNCHANGED <<store, round, meant, since, shifted, crossed, meddled>>

\* Or it says no, as to a list that is gone.
Refused ==
  /\ At("rename") /\ names[row.list] = Gone
  /\ log' = Ended(work.intent, "kept") /\ links' = Unmarked(work.repo)
  /\ RowDone
  /\ UNCHANGED <<names, setting, ghosts>>

\* finish: the row and the marker in one transaction, of whatever link has the
\* repo's name by now.
Finish ==
  /\ At("renamed")
  /\ log' = Ended(work.intent, "renamed") /\ links' = Unmarked(work.repo)
  /\ RowDone
  /\ UNCHANGED <<names, setting, ghosts>>

-----------------------------------------------------------------------------
(***************************************************************************)
(* What goes wrong, and time.                                              *)
(***************************************************************************)

\* A lost connection ends the round; so does asstd's death.
RoundLost ==
  /\ pc # "idle" /\ Fault
  /\ EndRound
  /\ UNCHANGED <<github, names, store, ghosts>>

\* One link's look or listing fails, or the CalDAV server's answer is lost: what was
\* written stays.
RowFails ==
  /\ pc \in {"again", "lists", "rename", "renamed"} /\ Fault
  /\ RowDone
  /\ UNCHANGED <<github, names, store, ghosts>>

\* The server refuses the name (403): shared read-only meanwhile.
RefusesName ==
  /\ pc = "rename" /\ Fault
  /\ log' = Ended(work.intent, "kept") /\ links' = Unmarked(work.repo)
  /\ RowDone
  /\ UNCHANGED <<github, names, setting, ghosts>>

Resting == pc = "idle" /\ UNCHANGED <<github, names, setting, pc, round, used, ghosts>>

HourPasses ==
  /\ Resting /\ \E i \in DOMAIN log : log[i].recent
  /\ log' = [i \in DOMAIN log |-> [log[i] EXCEPT !.recent = FALSE]]
  /\ UNCHANGED links

\* MARKER_EXPIRES: every marker there is becomes too old.
MonthPasses ==
  /\ Resting /\ \E l \in Linked : Marker(l) /\ ~links[l].late
  /\ links' = [l \in Lists |-> IF Marker(l) THEN [links[l] EXCEPT !.late = TRUE] ELSE links[l]]
  /\ log' = [i \in DOMAIN log |-> [log[i] EXCEPT !.recent = FALSE]]

-----------------------------------------------------------------------------
(***************************************************************************)
(* People: links, lists and the setting, and repos on GitHub.              *)
(***************************************************************************)

Calm == UNCHANGED <<github, pc, round>>

\* The repo a name stands for, by a redirect if need be.
Stands(name) == ByName(name).id

\* Daemon::link: a list has one repo and a repo one list; the name is taken as given.
LinkRepo(l, name) ==
  /\ names[l] # Gone /\ l \notin Linked /\ LinkOf(name) = {} /\ User
  /\ links' = [links EXCEPT ![l] = [NoLink EXCEPT !.repo = name]]
  /\ meant' = [meant EXCEPT ![l] = Stands(name)]
  /\ since' = [since EXCEPT ![l] = {}]
  /\ crossed' = (crossed \/ pc # "idle")
  /\ UNCHANGED <<names, log, setting, deeds, shifted, meddled>> /\ Calm

Unlink(l) ==
  /\ l \in Linked /\ User
  /\ links' = [links EXCEPT ![l] = NoLink]
  /\ crossed' = (crossed \/ pc # "idle") /\ meddled' = TRUE
  /\ UNCHANGED <<names, log, setting, meant, since, deeds, shifted>> /\ Calm

\* In the app or on the phone; the daemon hears of it with the next listing.
CallList(l, label) ==
  /\ names[l] \notin {Gone, label} /\ User
  /\ names' = [names EXCEPT ![l] = label] /\ meddled' = TRUE
  /\ UNCHANGED <<store, meant, since, deeds, shifted, crossed>> /\ Calm

DeleteList(l) ==
  /\ names[l] # Gone /\ User
  /\ names' = [names EXCEPT ![l] = Gone] /\ meddled' = TRUE
  /\ UNCHANGED <<store, meant, since, deeds, shifted, crossed>> /\ Calm

\* The sync loop takes the server's lists: the links of lists that are gone go.
PullLists ==
  /\ \E l \in Linked : names[l] = Gone
  /\ links' = [l \in Lists |-> IF names[l] = Gone THEN NoLink ELSE links[l]]
  /\ UNCHANGED <<names, log, setting, used, ghosts>> /\ Calm

SetFollow ==
  /\ User /\ setting' = ~setting
  /\ UNCHANGED <<names, links, log, ghosts>> /\ Calm

\* A name asstd holds to went to another repo: one whose id is not learned yet, or
\* that is being looked at.
Shifts ==
  \E n \in Names :
    /\ Stands(n) # Stands(n)'
    /\ (\E l \in LinkOf(n) : links[l].id = Nobody) \/ row.repo = n

HubStep ==
  /\ Hub
  /\ shifted' = (shifted \/ Shifts)
  /\ UNCHANGED <<names, store, pc, round, meant, deeds, crossed, meddled>>

HubRenames(r, name) ==
  /\ hub[r] \in Names /\ Holder(name) = {}
  /\ hub' = [hub EXCEPT ![r] = name]
  /\ redirect' = [redirect EXCEPT ![hub[r]] = r, ![name] = Nobody]
  /\ since' = [l \in Lists |-> IF l \in Linked /\ links[l].id = r THEN since[l] \cup {name}
                               ELSE since[l]]
  /\ HubStep

HubCreates(r, name) ==
  /\ hub[r] = None /\ Holder(name) = {}
  /\ hub' = [hub EXCEPT ![r] = name]
  /\ redirect' = [redirect EXCEPT ![name] = Nobody]
  /\ UNCHANGED since /\ HubStep

HubDeletes(r) ==
  /\ hub[r] \in Names
  /\ hub' = [hub EXCEPT ![r] = Gone]
  /\ UNCHANGED <<redirect, since>> /\ HubStep

-----------------------------------------------------------------------------

Init ==
  /\ hub = Born /\ redirect = [n \in Names |-> Nobody] /\ names = Called
  /\ links = [l \in Lists |-> NoLink] /\ log = <<>> /\ setting = TRUE
  /\ pc = "idle" /\ todo = {} /\ row = NoRow /\ seen = NoSeen
  /\ listing = NoListing /\ work = NoWork
  /\ used = [hub |-> 0, user |-> 0, fault |-> 0]
  /\ meant = [l \in Lists |-> Nobody] /\ since = [l \in Lists |-> {}] /\ deeds = {}
  /\ shifted = FALSE /\ crossed = FALSE /\ meddled = FALSE

\* No repo is linked: the round has nothing to do.
NotLinked == pc = "idle" /\ Linked = {} /\ UNCHANGED vars

RoundStep ==
  \/ NotLinked \/ BeginRound \/ Look \/ LookAgain \/ Hold \/ Fine \/ LearnId \/ Rename
  \/ ReadIssues \/ Follow \/ ReadLists \/ LinkGone \/ Resume \/ Keep \/ WaitHour
  \/ Intend \/ RenameList \/ Refused \/ Finish

FaultStep == RoundLost \/ RowFails \/ RefusesName

UserStep ==
  \/ \E l \in Lists, n \in Names : LinkRepo(l, n)
  \/ \E l \in Lists : Unlink(l) \/ DeleteList(l) \/ \E label \in Labels : CallList(l, label)
  \/ SetFollow

GithubStep ==
  \E r \in Repos : HubDeletes(r) \/ \E n \in Names : HubRenames(r, n) \/ HubCreates(r, n)

Next == RoundStep \/ FaultStep \/ HourPasses \/ MonthPasses \/ PullLists \/ UserStep \/ GithubStep

Spec == Init /\ [][Next]_vars

\* The rounds are a task of their own and every call has a timeout; hours pass, also
\* between two rounds.
Fairness == WF_vars(RoundStep) /\ SF_vars(HourPasses)

FairSpec == Spec /\ Fairness

-----------------------------------------------------------------------------
(***************************************************************************)
(* Properties.                                                             *)
(***************************************************************************)

LinkType == [repo : Names \cup {None}, id : Repos \cup {Nobody},
             from : Names \cup {None}, late : BOOLEAN]
RowType == [list : Lists \cup {None}, repo : Names \cup {None}, id : Repos \cup {Nobody}]
LogType == [kind : {"renaming", "renamed", "kept"}, repo : Names, list : Lists,
            from : Labels, to : Labels, old : Names, recent : BOOLEAN]
Places == {"idle", "look", "again", "looked", "issues", "follow", "lists", "listed", "rename",
           "renamed"}

\* Every variable has its type, and what a round holds is there when it needs it.
TypeOK ==
  /\ hub \in [Repos -> Names \cup {None, Gone}]
  /\ redirect \in [Names -> Repos \cup {Nobody}]
  /\ names \in [Lists -> Labels \cup {Gone}] /\ listing \in [Lists -> Labels \cup {Gone}]
  /\ links \in [Lists -> LinkType]
  /\ log \in Seq(LogType) /\ setting \in BOOLEAN
  /\ pc \in Places /\ todo \subseteq RowType /\ row \in RowType
  /\ \A r \in todo : r.list \in Lists /\ r.repo \in Names
  /\ pc \notin {"idle", "look"} => row.list \in Lists /\ row.repo \in Names
  /\ seen \in [kind : {"none", "record", "moved", "missing"}, id : Repos \cup {Nobody},
               name : Names \cup {None}]
  /\ work \in [old : Names \cup {None}, repo : Names \cup {None}, late : BOOLEAN,
               intent : Nat, on : BOOLEAN]
  /\ pc \in {"lists", "listed", "rename", "renamed"} => work.old \in Names /\ work.repo \in Names
  /\ work.intent \in DOMAIN log \cup {0}
  /\ used \in [hub : Nat, user : Nat, fault : Nat]
  /\ meant \in [Lists -> Repos \cup {Nobody}] /\ since \in [Lists -> SUBSET Names]
  /\ deeds \subseteq DOMAIN log
  /\ {shifted, crossed, meddled} \subseteq BOOLEAN

\* Two links never are one repo, by name or by id, whatever repos are renamed onto
\* each other's names and whatever rounds take links from before.
OneLinkPerRepo ==
  \A k, l \in Linked :
    k # l => links[k].repo # links[l].repo /\ (links[k].id = links[l].id => links[k].id = Nobody)

\* The issues a link's pass reads by name are those of the repo it was made for, also
\* where repos were deleted and made again, renamed, and their names used by others;
\* but where the name changed hands unseen (before its id was learned, or between the
\* look and the reading) or the link was changed during a round.
ReadsItsOwn ==
  [][pc = "issues" /\ pc' = "follow" =>
       Holder(row.repo) \subseteq {meant[row.list]} \/ shifted \/ crossed]_vars

\* asstd gives a list a new name only where the list is called as its repo was, since
\* asstd knew it by its id, gives it no other list's name, and leaves the inbox and
\* read-only lists alone, but where people changed lists or links themselves.
RenamesOnlyItsOwn ==
  [][\A l \in Lists :
       names'[l] # names[l] /\ used' = used =>
         \/ meddled
         \/ crossed
         \/ /\ names[l] \in {Short[n] : n \in since[l]} /\ names'[l] \in {Short[n] : n \in since[l]}
            /\ l \notin Fixed
            /\ \A k \in Lists \ {l} : names[k] # names'[l]]_vars

Done(i) == log[i].kind = "renamed"

\* What the server took is told as done, once the link's marker is dealt with: also
\* where the reply was lost or asstd died, and the next pass finds it by the name.
\* But for a repo that was renamed again in between, and lists or links people
\* changed.
TakenIsTold ==
  pc = "idle" /\ used.hub <= 1 /\ ~meddled /\ ~crossed
    => \A i \in deeds : Done(i) \/ Marker(log[i].list)

InStep(l) == links[l].id # Nobody /\ links[l].repo = hub[links[l].id]

\* Once people rest, no link that has its repo's name waits to follow a rename: the
\* list took the name or keeps its own for good, the limit of renames an hour and
\* lost replies only put it off.
EventuallyFollowed == <>[](\A l \in Linked : InStep(l) => ~Marker(l))

=============================================================================
