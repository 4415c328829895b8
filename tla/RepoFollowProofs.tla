-------------------------- MODULE RepoFollowProofs --------------------------
(***************************************************************************)
(* For any repos, lists, renames and faults: two links never are one repo, *)
(* a pass reads the issues of the repo its link was made for, asstd gives  *)
(* a list no name but its own repo's, and what the server took is told as  *)
(* done.                                                                   *)
(*                                                                         *)
(* The first needs only the types.  The others are about what happened     *)
(* between a link's row being taken and its verdict, so that each of them  *)
(* has an invariant on what the round holds.                               *)
(***************************************************************************)
EXTENDS RepoFollow, WellFoundedInduction, TLAPS

-----------------------------------------------------------------------------
(* The inductive invariant. *)

\* The rows that were taken and not judged yet.
Ahead == todo \cup (IF pc \in {"again", "looked"} THEN {row} ELSE {})

Asking == pc \in {"lists", "listed", "rename", "renamed"}

\* What the round holds is what its next step needs.
RoundHolds ==
  /\ pc = "idle" => todo = {}
  /\ seen.kind = "record" => seen.id \in Repos /\ seen.name \in Names
  /\ seen.kind = "moved" => seen.id \in Repos
  /\ pc = "again" => Again(row, seen)
  /\ pc = "issues" => seen.kind = "record" /\ seen.name = row.repo
  /\ pc \in {"rename", "renamed"} => work.intent # 0
  /\ \A l \in Lists : links[l].repo = None => links[l] = NoLink

\* Two repos never have one name.
NamesApart == \A r, s \in Repos : hub[r] \in Names /\ hub[r] = hub[s] => r = s

\* A link whose repo's id is known is of the repo it was made for; until then its
\* name stands for that repo.
LinksMeant ==
  \A l \in Linked : IF links[l].id = Nobody THEN Stands(links[l].repo) = meant[l]
                    ELSE links[l].id = meant[l]

\* So are the rows taken; and only a row's own link has its name without an id.
RowsMeant ==
  \A r \in Ahead :
    /\ r.id # Nobody => r.id = meant[r.list]
    /\ \A l \in LinkOf(r.repo) : links[l].id = Nobody => l = r.list /\ r.id = Nobody

\* And so is what was seen.
SeenMeant ==
  /\ pc \in {"again", "looked"} /\ seen.kind \in {"record", "moved"} /\ row.id = Nobody
       /\ row.list \in LinkOf(row.repo) /\ links[row.list].id = Nobody
     => seen.id = meant[row.list]
  /\ pc \in {"looked", "issues"} /\ seen.kind = "record" /\ seen.name = row.repo
     => Stands(row.repo) = seen.id
  /\ pc = "issues" => seen.id = meant[row.list]

MeantHolds == ~shifted /\ ~crossed => LinksMeant /\ RowsMeant /\ SeenMeant

\* While nobody interferes, the rows taken are the links there are, no list is gone,
\* and the last listing is what the lists are called.
RowsCurrent ==
  /\ \A r \in Ahead : links[r.list].repo = r.repo /\ links[r.list].id = r.id
  /\ pc \notin {"idle", "look"} => \A r \in todo : r.list # row.list

ListsCurrent ==
  /\ \A l \in Lists : names[l] # Gone
  /\ pc \in {"listed", "rename"} => listing = names

\* A link with an id, its marker and what was seen of its repo have names the repo
\* had since the id was learned.
LinkSince(l) ==
  /\ links[l].repo \in since[l]
  /\ hub[links[l].id] \in since[l] \cup {Gone}
  /\ links[l].from # None => links[l].from \in since[l]

NamesSince ==
  /\ \A l \in Lists : IF links[l].id = Nobody THEN links[l].from = None ELSE LinkSince(l)
  /\ pc = "looked" /\ row.id # Nobody /\ seen.kind = "record" /\ seen.id = row.id
     => seen.name \in since[row.list]
  /\ pc = "looked" /\ seen.kind = "record" => hub[seen.id] # None

\* The rename under way is that of the marker, and was allowed.
WorkAllowed ==
  /\ Asking => /\ Marker(row.list)
               /\ work.old = links[row.list].from /\ work.repo = links[row.list].repo
  /\ pc = "rename" => /\ listing[row.list] = Short[work.old] /\ row.list \notin Fixed
                      /\ ~Clash(work.repo)

CalmHolds == ~meddled /\ ~crossed => RowsCurrent /\ ListsCurrent /\ NamesSince /\ WorkAllowed

\* Nothing was found renamed yet.
Untouched ==
  /\ log = <<>> /\ deeds = {}
  /\ \A l \in Lists : links[l].from = None /\ (links[l].id # Nobody => links[l].repo = Born[links[l].id])

\* With one change on GitHub, a repo had two names at most: the old one is what a
\* marker is from, and the new one what it leads to.
TwoNames ==
  /\ used.hub = 0 => hub = Born /\ Untouched
  /\ pc = "looked" /\ seen.kind = "record" =>
       seen.name = hub[seen.id] \/ (Untouched /\ seen.name = Born[seen.id])
  /\ \A l \in Lists : links[l].id # Nobody =>
       /\ links[l].repo \in {Born[links[l].id], hub[links[l].id]}
       /\ links[l].from # None =>
            links[l].from = Born[links[l].id] /\ links[l].repo = hub[links[l].id]

\* So every intent in the log is that of the marker there is or was.
LogKnown ==
  \A i \in DOMAIN log :
    LET id == links[log[i].list].id IN
    id # Nobody /\ log[i].repo = hub[id] /\ log[i].old = Born[id] /\ log[i].to = Short[log[i].repo]

Begun(i) == log[i].kind = "renaming"

\* At most one is open for a list, and the one in hand is it.
OneBegun ==
  /\ \A i, j \in DOMAIN log : Begun(i) /\ Begun(j) /\ log[i].list = log[j].list => i = j
  /\ Asking /\ work.intent # 0 => Begun(work.intent) /\ log[work.intent].list = row.list
  /\ Asking /\ work.intent = 0 => \A i \in DOMAIN log : Begun(i) => log[i].list # row.list

\* What the server took is told as done, or will be found done.
DeedsFound ==
  /\ \A i \in deeds : Done(i) \/ (Begun(i) /\ Marker(log[i].list) /\ names[log[i].list] = log[i].to)
  /\ pc = "rename" => work.intent \notin deeds

OnceHolds ==
  ~meddled /\ ~crossed /\ used.hub <= 1 => TwoNames /\ LogKnown /\ OneBegun /\ DeedsFound

FollowInvariant ==
  TypeOK /\ RoundHolds /\ NamesApart /\ OneLinkPerRepo /\ MeantHolds /\ CalmHolds /\ OnceHolds

-----------------------------------------------------------------------------
(* What the operators return. *)

LEMMA NotNames ==
  /\ None \notin Names /\ Gone \notin Names /\ None \notin Labels /\ Gone \notin Labels
  /\ Nobody \notin Repos /\ None # Gone
BY NamesAssumption, ReposAssumption DEF None, Gone, Nobody

SeenType == [kind : {"none", "record", "moved", "missing"}, id : Repos \cup {Nobody},
             name : Names \cup {None}]

HubType == hub \in [Repos -> Names \cup {None, Gone}] /\ redirect \in [Names -> Repos \cup {Nobody}]

LEMMA NoSeenType == NoSeen \in SeenType
BY DEF NoSeen, SeenType

LEMMA ByIdReturns ==
  ASSUME NEW r \in Repos, HubType
  PROVE  /\ ById(r) \in SeenType /\ ById(r).kind \in {"record", "missing"}
         /\ ById(r).kind = "record" => ById(r).id = r /\ ById(r).name = hub[r] /\ hub[r] \in Names
BY DEF ById, Found, NoSeen, SeenType, HubType

\* A name is answered for by the repo it stands for.
LEMMA ByNameReturns ==
  ASSUME NEW n \in Names, HubType
  PROVE  /\ ByName(n) \in SeenType /\ ByName(n).kind \in {"record", "moved", "missing"}
         /\ ByName(n).id = Stands(n)
         /\ ByName(n).kind \in {"record", "moved"} => ByName(n).id \in Repos
         /\ ByName(n).kind = "record" => ByName(n).name = n /\ hub[ByName(n).id] = n
<1>1. CASE Holder(n) # {}
  <2> DEFINE h == CHOOSE r \in Holder(n) : TRUE
  <2>1. h \in Holder(n)
    BY <1>1
  <2>2. ByName(n) = Found(h) /\ h \in Repos /\ hub[h] = n
    BY <1>1, <2>1 DEF ByName, Holder
  <2> HIDE DEF h
  <2> QED BY <2>2 DEF Found, SeenType, Stands
<1>2. CASE Holder(n) = {}
  BY <1>2, NotNames DEF ByName, NoSeen, SeenType, Stands, HubType
<1> QED BY <1>1, <1>2

LEMMA UnmarkedReturns ==
  ASSUME NEW repo, links \in [Lists -> LinkType]
  PROVE  /\ Unmarked(repo) \in [Lists -> LinkType]
         /\ \A l \in Lists : /\ Unmarked(repo)[l].repo = links[l].repo
                             /\ Unmarked(repo)[l].id = links[l].id
                             /\ Unmarked(repo)[l].from = IF links[l].repo = repo THEN None ELSE links[l].from
                             /\ links[l].repo # repo => Unmarked(repo)[l] = links[l]
BY DEF Unmarked, LinkType

LEMMA AdoptedReturns ==
  ASSUME links \in [Lists -> LinkType]
  PROVE  /\ Adopted \in [Lists -> LinkType]
         /\ \A l \in Lists : Adopted[l] = IF listing[l] = Gone THEN NoLink ELSE links[l]
BY DEF Adopted, LinkType, NoLink

LEMMA ClearedOfReturns ==
  ASSUME NEW repo, links \in [Lists -> LinkType]
  PROVE  /\ ClearedOf(repo) \in [Lists -> LinkType]
         /\ \A l \in Lists : /\ ClearedOf(repo)[l].repo = Adopted[l].repo
                             /\ ClearedOf(repo)[l].id = Adopted[l].id
                             /\ ClearedOf(repo)[l].from = IF Adopted[l].repo = repo THEN None ELSE Adopted[l].from
                             /\ Adopted[l].repo # repo => ClearedOf(repo)[l] = Adopted[l]
<1>1. Adopted \in [Lists -> LinkType]
  BY AdoptedReturns
<1> QED BY <1>1 DEF ClearedOf, LinkType

LEMMA LogRowReturns ==
  ASSUME log \in Seq(LogType), NEW j \in DOMAIN log, NEW kind \in {"renaming", "renamed", "kept"}
  PROVE  log[j] \in LogType /\ [log[j] EXCEPT !.kind = kind] \in LogType
<1>1. log[j] \in LogType
  OBVIOUS
<1> QED BY <1>1 DEF LogType

LEMMA EndedReturns ==
  ASSUME NEW i \in DOMAIN log \cup {0}, NEW kind \in {"renaming", "renamed", "kept"},
         log \in Seq(LogType)
  PROVE  /\ Ended(i, kind) \in Seq(LogType) /\ DOMAIN Ended(i, kind) = DOMAIN log
         /\ \A j \in DOMAIN log :
              Ended(i, kind)[j] = IF j = i THEN [log[j] EXCEPT !.kind = kind] ELSE log[j]
<1>1. \A j \in DOMAIN log : log[j] \in LogType /\ [log[j] EXCEPT !.kind = kind] \in LogType
  BY LogRowReturns
<1>2. 0 \notin DOMAIN log
  OBVIOUS
<1> QED BY <1>1, <1>2 DEF Ended

LEMMA SupersededReturns ==
  ASSUME log \in Seq(LogType)
  PROVE  /\ Superseded \in Seq(LogType) /\ Len(Superseded) = Len(log)
         /\ DOMAIN Superseded = DOMAIN log
         /\ \A j \in DOMAIN log :
              Superseded[j] = IF log[j].kind = "renaming" /\ log[j].list = row.list
                              THEN [log[j] EXCEPT !.kind = "kept"] ELSE log[j]
<1>1. \A j \in DOMAIN log : log[j] \in LogType /\ [log[j] EXCEPT !.kind = "kept"] \in LogType
  BY LogRowReturns
<1>2. Len(log) \in Nat /\ DOMAIN log = 1 .. Len(log)
  OBVIOUS
<1>3. \A j \in 1 .. Len(log) : Superseded[j] \in LogType
  BY <1>1, <1>2 DEF Superseded
<1>4. DOMAIN Superseded = 1 .. Len(log)
  BY <1>2 DEF Superseded
<1>5. Superseded \in [1 .. Len(log) -> LogType]
  BY <1>2, <1>3 DEF Superseded
<1> QED BY <1>1, <1>2, <1>4, <1>5 DEF Superseded

-----------------------------------------------------------------------------
(* Types. *)

RoundTyped ==
  /\ pc \in Places /\ todo \subseteq RowType /\ row \in RowType
  /\ \A r \in todo : r.list \in Lists /\ r.repo \in Names
  /\ pc \notin {"idle", "look"} => row.list \in Lists /\ row.repo \in Names
  /\ seen \in SeenType /\ listing \in [Lists -> Labels \cup {Gone}]
  /\ pc = "idle" => todo = {}
  /\ seen.kind = "record" => seen.id \in Repos /\ seen.name \in Names
  /\ seen.kind = "moved" => seen.id \in Repos
  /\ pc = "again" => Again(row, seen)
  /\ pc = "issues" => seen.kind = "record" /\ seen.name = row.repo

WorkTyped ==
  /\ work \in [old : Names \cup {None}, repo : Names \cup {None}, late : BOOLEAN,
               intent : Nat, on : BOOLEAN]
  /\ Asking => work.old \in Names /\ work.repo \in Names
  /\ pc \in {"rename", "renamed"} => work.intent # 0

LinksTyped ==
  links \in [Lists -> LinkType] /\ \A l \in Lists : links[l].repo = None => links[l] = NoLink

LogTyped ==
  log \in Seq(LogType) /\ work.intent \in DOMAIN log \cup {0} /\ deeds \subseteq DOMAIN log

StoreTyped == names \in [Lists -> Labels \cup {Gone}] /\ setting \in BOOLEAN

GhostTyped ==
  /\ used \in [hub : Nat, user : Nat, fault : Nat]
  /\ meant \in [Lists -> Repos \cup {Nobody}] /\ since \in [Lists -> SUBSET Names]
  /\ {shifted, crossed, meddled} \subseteq BOOLEAN

Typed == HubType /\ RoundTyped /\ WorkTyped /\ LinksTyped /\ LogTyped /\ StoreTyped /\ GhostTyped

LEMMA TypeParts ==
  /\ TypeOK /\ RoundHolds <=> Typed
  /\ TypeOK' /\ RoundHolds' <=> Typed'
BY DEF TypeOK, RoundHolds, Typed, HubType, RoundTyped, WorkTyped, LinksTyped, LogTyped, StoreTyped,
       GhostTyped, SeenType, Asking

LEMMA NoWorkType ==
  NoWork \in [old : Names \cup {None}, repo : Names \cup {None}, late : BOOLEAN,
              intent : Nat, on : BOOLEAN] /\ NoWork.intent = 0
BY DEF NoWork

\* A row that is done with, or a round, leaves nothing behind.
LEMMA RowDoneTyped ==
  ASSUME RoundTyped, RowDone \/ EndRound
  PROVE  RoundTyped' /\ WorkTyped' /\ work' = NoWork /\ pc' \in {"idle", "look"}
<1>1. NoRow \in RowType /\ NoListing \in [Lists -> Labels \cup {Gone}]
  BY DEF NoRow, RowType, NoListing
<1>2. pc' \in {"idle", "look"} /\ (pc' = "idle" => todo' = {}) /\ todo' \subseteq todo
  BY DEF RowDone, EndRound
<1>3. row' = NoRow /\ seen' = NoSeen /\ listing' = NoListing /\ work' = NoWork
  BY DEF RowDone, EndRound
<1>4. NoSeen.kind = "none"
  BY DEF NoSeen
<1>5. RoundTyped'
  BY <1>1, <1>2, <1>3, <1>4, NoSeenType DEF RoundTyped, Places
<1>6. WorkTyped'
  BY <1>2, <1>3, NoWorkType DEF WorkTyped, Asking
<1> QED BY <1>2, <1>3, <1>5, <1>6

\* Nothing in hand any more: the log may be as long as it likes.
LEMMA LogTypedWithoutWork ==
  ASSUME LogTyped, work' = NoWork, deeds' = deeds, log' \in Seq(LogType), DOMAIN log \subseteq DOMAIN log'
  PROVE  LogTyped'
BY NoWorkType DEF LogTyped

LEMMA UnmarkedTyped ==
  ASSUME LinksTyped, NEW repo \in Names
  PROVE  /\ Unmarked(repo) \in [Lists -> LinkType]
         /\ \A l \in Lists : Unmarked(repo)[l].repo = None => Unmarked(repo)[l] = NoLink
BY UnmarkedReturns, NotNames DEF LinksTyped

LEMMA AdoptedTyped ==
  ASSUME LinksTyped
  PROVE  /\ Adopted \in [Lists -> LinkType]
         /\ \A l \in Lists : Adopted[l].repo = None => Adopted[l] = NoLink
BY AdoptedReturns DEF LinksTyped

LEMMA ClearedOfTyped ==
  ASSUME LinksTyped, NEW repo \in Names
  PROVE  /\ ClearedOf(repo) \in [Lists -> LinkType]
         /\ \A l \in Lists : ClearedOf(repo)[l].repo = None => ClearedOf(repo)[l] = NoLink
BY ClearedOfReturns, AdoptedTyped, NotNames DEF LinksTyped

\* The link in hand after the listing, if it is there.
LEMMA LinkTyped ==
  ASSUME LinksTyped, RoundTyped, Listed
  PROVE  /\ Link \in LinkType /\ Link.repo \in Names /\ Link = links[row.list]
         /\ listing[row.list] # Gone /\ row.list \in Linked
<1>1. row.list \in Lists
  BY DEF Listed, At, RoundTyped
<1>2. Link.repo # None /\ Link = Adopted[row.list]
  BY DEF Listed, Link
<1>3. Link = links[row.list] /\ listing[row.list] # Gone
  BY <1>1, <1>2, AdoptedReturns DEF LinksTyped, NoLink
<1>4. Link \in LinkType
  BY <1>1, <1>3 DEF LinksTyped
<1> QED BY <1>1, <1>2, <1>3, <1>4 DEF LinkType, Linked

\* What most steps leave alone keeps its type.
LEMMA SameTyped ==
  /\ HubType /\ UNCHANGED github => HubType'
  /\ StoreTyped /\ UNCHANGED <<names, setting>> => StoreTyped'
  /\ LinksTyped /\ UNCHANGED links => LinksTyped'
  /\ LogTyped /\ UNCHANGED <<log, work, deeds>> => LogTyped'
  /\ RoundTyped /\ UNCHANGED <<pc, round>> => RoundTyped'
  /\ WorkTyped /\ UNCHANGED <<pc, round>> => WorkTyped'
  /\ GhostTyped /\ UNCHANGED <<used, ghosts>> => GhostTyped'
<1>1. HubType /\ UNCHANGED github => HubType'
  BY DEF HubType, github
<1>2. StoreTyped /\ UNCHANGED <<names, setting>> => StoreTyped'
  BY DEF StoreTyped
<1>3. LinksTyped /\ UNCHANGED links => LinksTyped'
  BY DEF LinksTyped
<1>4. LogTyped /\ UNCHANGED <<log, work, deeds>> => LogTyped'
  BY DEF LogTyped
<1>5. RoundTyped /\ UNCHANGED <<pc, round>> => RoundTyped'
  BY DEF RoundTyped, round, Again
<1>6. WorkTyped /\ UNCHANGED <<pc, round>> => WorkTyped'
  BY DEF WorkTyped, round, Asking
<1>7. GhostTyped /\ UNCHANGED <<used, ghosts>> => GhostTyped'
  BY DEF GhostTyped, ghosts
<1> QED BY <1>1, <1>2, <1>3, <1>4, <1>5, <1>6, <1>7

\* A step of the round that writes nothing.
LEMMA OnlyRoundTyped ==
  ASSUME Typed, RoundTyped', WorkTyped', UNCHANGED <<github, used, names, store, ghosts, work>>
  PROVE  Typed'
<1>1. UNCHANGED <<links, log, setting, deeds>>
  BY DEF store, ghosts
<1> QED BY <1>1, SameTyped DEF Typed

\* Looking and judging.
LEMMA LookTyped ==
  ASSUME Typed, BeginRound \/ Look \/ LookAgain \/ Fine \/ ReadIssues
  PROVE  Typed'
<1> USE DEF Typed
<1>1. CASE BeginRound
  <2>1. /\ pc' = "look" /\ UNCHANGED <<row, seen, listing, work>>
        /\ todo' = {[list |-> l, repo |-> links[l].repo, id |-> links[l].id] : l \in Linked}
    BY <1>1 DEF BeginRound
  <2>2. todo' \subseteq RowType /\ \A r \in todo' : r.list \in Lists /\ r.repo \in Names
    BY <2>1 DEF LinksTyped, LinkType, Linked, RowType
  <2>3. RoundTyped' /\ WorkTyped'
    BY <1>1, <2>1, <2>2 DEF RoundTyped, WorkTyped, Places, Asking, At, BeginRound
  <2> QED BY <1>1, <2>3, OnlyRoundTyped DEF BeginRound, At
<1>2. CASE Look
  <2>1. PICK r \in todo :
          LET s == IF r.id = Nobody THEN ByName(r.repo) ELSE ById(r.id) IN
          /\ row' = r /\ todo' = todo \ {r} /\ seen' = s
          /\ pc' = IF Again(r, s) THEN "again" ELSE "looked"
    BY <1>2 DEF Look
  <2>2. r.list \in Lists /\ r.repo \in Names /\ r.id \in Repos \cup {Nobody} /\ r \in RowType
    BY DEF RoundTyped, RowType
  <2>3. seen' \in SeenType /\ (seen'.kind = "record" => seen'.id \in Repos /\ seen'.name \in Names)
        /\ (seen'.kind = "moved" => seen'.id \in Repos)
    BY <2>1, <2>2, ByNameReturns, ByIdReturns
  <2>4. UNCHANGED <<work, listing>>
    BY <1>2 DEF Look
  <2>5. pc' \in {"again", "looked"} /\ (pc' = "again" => Again(row', seen'))
    BY <2>1
  <2>6. RoundTyped'
    BY <2>1, <2>2, <2>3, <2>4, <2>5 DEF RoundTyped, Places, Again
  <2>7. WorkTyped'
    BY <2>4, <2>5 DEF WorkTyped, Asking
  <2> QED BY <1>2, <2>6, <2>7, OnlyRoundTyped DEF Look, At
<1>3. CASE LookAgain
  <2>1. row.id = Nobody => seen.id \in Repos
    BY <1>3 DEF LookAgain, At, RoundTyped, Again
  <2>2. row.repo \in Names /\ row.list \in Lists
    BY <1>3 DEF LookAgain, At, RoundTyped
  <2>3. seen' \in SeenType /\ (seen'.kind = "record" => seen'.id \in Repos /\ seen'.name \in Names)
        /\ (seen'.kind = "moved" => seen'.id \in Repos)
    BY <1>3, <2>1, <2>2, ByNameReturns, ByIdReturns DEF LookAgain
  <2>4. UNCHANGED <<work, listing, todo, row>> /\ pc' = "looked"
    BY <1>3 DEF LookAgain
  <2>5. RoundTyped'
    BY <2>2, <2>3, <2>4 DEF RoundTyped, Places
  <2>6. WorkTyped'
    BY <2>4 DEF WorkTyped, Asking
  <2> QED BY <1>3, <2>5, <2>6, OnlyRoundTyped DEF LookAgain, At
<1>4. CASE Fine
  <2>1. pc = "looked" /\ pc' = "issues" /\ UNCHANGED round
    BY <1>4 DEF Fine, Judged, At
  <2>2. seen.kind = "record" /\ seen.name = row.repo
    BY <1>4 DEF Fine, Judged, Verdict
  <2>3. RoundTyped'
    BY <2>1, <2>2 DEF RoundTyped, Places, round
  <2>4. WorkTyped'
    BY <2>1 DEF WorkTyped, Asking, round
  <2> QED BY <1>4, <2>3, <2>4, OnlyRoundTyped DEF Fine, Judged, At, round
<1>5. CASE ReadIssues
  <2>1. RoundTyped' /\ WorkTyped'
    BY <1>5 DEF ReadIssues, At, RoundTyped, WorkTyped, Asking, Places, round
  <2> QED BY <1>5, <2>1, OnlyRoundTyped DEF ReadIssues, At, round
<1> QED BY <1>1, <1>2, <1>3, <1>4, <1>5

\* A link that moves to the name that was seen, and one that learns its id.
LEMMA MovedReturns ==
  ASSUME LinksTyped, RoundTyped, seen.kind = "record", row.repo \in Names,
         NEW l \in Lists, NEW witnessed \in BOOLEAN
  PROVE  /\ Moved(links[l], witnessed) \in LinkType
         /\ Moved(links[l], witnessed).repo = seen.name
         /\ Moved(links[l], witnessed).id =
              IF ~witnessed /\ links[l].id = Nobody THEN seen.id ELSE links[l].id
         /\ Moved(links[l], witnessed).from =
              IF witnessed /\ links[l].from = None THEN row.repo ELSE links[l].from
<1>1. links[l] \in LinkType /\ seen.name \in Names /\ seen.id \in Repos
  BY DEF LinksTyped, RoundTyped
<1> QED BY <1>1 DEF Moved, LinkType

\* What the verdicts that change a link were given on.
LEMMA VerdictSeen ==
  /\ Judged({"learn"}) => seen.kind = "record" /\ row.id = Nobody /\ seen.name = row.repo
  /\ Judged({"renamed"}) => seen.kind = "record" /\ row.id \in {Nobody, seen.id}
                            /\ seen.name # row.repo
  /\ Judged({"fine"}) => seen.kind = "record" /\ row.id = seen.id /\ seen.name = row.repo
BY DEF Judged, Verdict

\* What LearnId and Rename make of the links.
LEMMA VerdictLinks ==
  ASSUME LinksTyped, RoundTyped
  PROVE  /\ LearnId => \/ RowDone /\ UNCHANGED <<links, since>>
                       \/ /\ ~IdTaken(seen.id) /\ pc' = "issues" /\ UNCHANGED round
                          /\ \E l \in LinkOf(row.repo) : links[l].id = Nobody
                          /\ links' \in [Lists -> LinkType]
                          /\ \A l \in Lists :
                               /\ l \in LinkOf(row.repo) /\ links[l].id = Nobody =>
                                    links'[l] = [links[l] EXCEPT !.id = seen.id]
                                    /\ since'[l] = NamesNow(row.repo)
                               /\ ~(l \in LinkOf(row.repo) /\ links[l].id = Nobody) =>
                                    links'[l] = links[l] /\ since'[l] = since[l]
         /\ Rename => \/ RowDone /\ UNCHANGED <<links, since>>
                      \/ /\ ~Conflict(seen.name, seen.id) /\ pc' = "follow" /\ UNCHANGED round
                         /\ links' \in [Lists -> LinkType]
                         /\ \A l \in Lists :
                              /\ l \in LinkOf(row.repo) => links'[l] = Moved(links[l], row.id # Nobody)
                              /\ l \notin LinkOf(row.repo) => links'[l] = links[l]
                              /\ since'[l] = IF l \in LinkOf(row.repo) /\ row.id = Nobody
                                             THEN NamesNow(seen.name) ELSE since[l]
<1>1. ASSUME LearnId, ~(RowDone /\ UNCHANGED <<links, since>>)
      PROVE  /\ ~IdTaken(seen.id) /\ pc' = "issues" /\ UNCHANGED round
             /\ \E l \in LinkOf(row.repo) : links[l].id = Nobody
             /\ links' \in [Lists -> LinkType]
             /\ \A l \in Lists :
                  /\ l \in LinkOf(row.repo) /\ links[l].id = Nobody =>
                       links'[l] = [links[l] EXCEPT !.id = seen.id]
                       /\ since'[l] = NamesNow(row.repo)
                  /\ ~(l \in LinkOf(row.repo) /\ links[l].id = Nobody) =>
                       links'[l] = links[l] /\ since'[l] = since[l]
  <2> DEFINE mine == {l \in LinkOf(row.repo) : links[l].id = Nobody}
  <2>1. /\ ~IdTaken(seen.id) /\ mine # {} /\ pc' = "issues" /\ UNCHANGED round
        /\ links' = [l \in Lists |-> IF l \in mine THEN [links[l] EXCEPT !.id = seen.id] ELSE links[l]]
        /\ since' = [l \in Lists |-> IF l \in mine THEN NamesNow(row.repo) ELSE since[l]]
    BY <1>1 DEF LearnId
  <2>2. seen.id \in Repos
    BY <1>1, VerdictSeen DEF LearnId, RoundTyped
  <2>3. \A l \in Lists : links[l] \in LinkType /\ [links[l] EXCEPT !.id = seen.id] \in LinkType
    BY <2>2 DEF LinksTyped, LinkType
  <2>4. links' \in [Lists -> LinkType]
    <3> HIDE DEF mine
    <3> QED BY <2>1, <2>3
  <2>5. \A l \in Lists : l \in mine <=> l \in LinkOf(row.repo) /\ links[l].id = Nobody
    OBVIOUS
  <2>6. \E l \in LinkOf(row.repo) : links[l].id = Nobody
    BY <2>1
  <2> HIDE DEF mine
  <2> QED BY <2>1, <2>4, <2>5, <2>6
<1>2. ASSUME Rename, ~(RowDone /\ UNCHANGED <<links, since>>)
      PROVE  /\ ~Conflict(seen.name, seen.id) /\ pc' = "follow" /\ UNCHANGED round
             /\ links' \in [Lists -> LinkType]
             /\ \A l \in Lists :
                  /\ l \in LinkOf(row.repo) => links'[l] = Moved(links[l], row.id # Nobody)
                  /\ l \notin LinkOf(row.repo) => links'[l] = links[l]
                  /\ since'[l] = IF l \in LinkOf(row.repo) /\ row.id = Nobody
                                 THEN NamesNow(seen.name) ELSE since[l]
  <2>1. /\ ~Conflict(seen.name, seen.id) /\ pc' = "follow" /\ UNCHANGED round
        /\ links' = [l \in Lists |-> IF l \in LinkOf(row.repo)
                                     THEN Moved(links[l], row.id # Nobody) ELSE links[l]]
        /\ since' = [l \in Lists |-> IF l \in LinkOf(row.repo) /\ row.id = Nobody
                                     THEN NamesNow(seen.name) ELSE since[l]]
    BY <1>2 DEF Rename
  <2>2. seen.kind = "record" /\ row.repo \in Names
    BY <1>2, VerdictSeen DEF Rename, RoundTyped, Judged, At
  <2>3. \A l \in Lists : Moved(links[l], row.id # Nobody) \in LinkType
    BY <2>2, MovedReturns
  <2>4. links' \in [Lists -> LinkType]
    BY <2>1, <2>3 DEF LinksTyped
  <2> QED BY <2>1, <2>4
<1> QED BY <1>1, <1>2

\* A set of rows of the log, if there are any, has a newest one.
LEMMA NewestThere ==
  ASSUME NEW S \in SUBSET DOMAIN log, S # {}, log \in Seq(LogType)
  PROVE  \E i \in S : \A j \in S : j <= i
<1> DEFINE n == Len(log)
<1>1. n \in Nat /\ S \subseteq 1 .. n
  OBVIOUS
<1> DEFINE Bounds == {m \in Nat : \A i \in S : i <= m}
<1>2. Bounds # {} /\ Bounds \subseteq Nat
  BY <1>1
<1>3. PICK m \in Bounds : \A k \in Bounds : m <= k
  <2> HIDE DEF Bounds
  <2>1. PICK m \in Bounds : \A k \in Bounds : <<k, m>> \notin OpToRel(<, Nat)
    BY <1>2, WFMin, NatLessThanWellFounded
  <2>2. m \in Bounds
    BY <2>1
  <2>3. ASSUME NEW k \in Bounds, ~(m <= k) PROVE FALSE
    <3>1. k \in Nat /\ m \in Nat /\ k < m
      BY <1>2, <2>2, <2>3
    <3>2. <<k, m>> \in OpToRel(<, Nat)
      BY <3>1 DEF OpToRel
    <3> QED BY <2>1, <2>3, <3>2
  <2> QED BY <2>2, <2>3
<1>4. m \in S
  <2>1. SUFFICES ASSUME m \notin S PROVE FALSE
    OBVIOUS
  <2>2. \A i \in S : i < m
    BY <1>1, <1>3, <2>1
  <2>3. m - 1 \in Bounds
    BY <1>1, <1>3, <2>2
  <2> QED BY <1>3, <2>3
<1> QED BY <1>3, <1>4

LEMMA NamesNowType == ASSUME NEW n PROVE NamesNow(n) \in SUBSET Names
BY DEF NamesNow

LEMMA VerdictTyped ==
  ASSUME Typed, Hold \/ LearnId \/ Rename
  PROVE  Typed'
<1> USE DEF Typed
<1>1. UNCHANGED <<github, used, names, log, setting, meant, deeds, shifted, crossed, meddled>>
  BY DEF Hold, LearnId, Rename, Judged, At, store, ghosts
<1>2. HubType' /\ StoreTyped'
  BY <1>1, SameTyped
<1>3. CASE RowDone /\ UNCHANGED <<links, since>>
  <2>1. RoundTyped' /\ WorkTyped' /\ work' = NoWork
    BY <1>3, RowDoneTyped
  <2>2. LogTyped'
    BY <1>1, <2>1, LogTypedWithoutWork DEF LogTyped
  <2>3. LinksTyped' /\ GhostTyped'
    BY <1>1, <1>3, SameTyped DEF ghosts
  <2> QED BY <1>2, <2>1, <2>2, <2>3
<1>4. CASE LearnId /\ ~(RowDone /\ UNCHANGED <<links, since>>)
  <2>1. /\ pc' = "issues" /\ UNCHANGED round /\ links' \in [Lists -> LinkType]
        /\ \A l \in Lists :
             /\ l \in LinkOf(row.repo) /\ links[l].id = Nobody =>
                  links'[l] = [links[l] EXCEPT !.id = seen.id]
             /\ ~(l \in LinkOf(row.repo) /\ links[l].id = Nobody) => links'[l] = links[l]
    BY <1>4, VerdictLinks
  <2>2. seen.kind = "record" /\ seen.name = row.repo /\ pc = "looked"
    BY <1>4, VerdictSeen DEF LearnId, Judged, At
  <2>3. RoundTyped' /\ WorkTyped'
    BY <2>1, <2>2 DEF RoundTyped, WorkTyped, Asking, Places, round
  <2>4. \A l \in Lists : links'[l].repo = links[l].repo /\ (links'[l].repo = None => links'[l] = links[l])
    BY <2>1, NotNames DEF LinksTyped, LinkType, LinkOf, Linked
  <2>5. LinksTyped'
    BY <2>1, <2>4 DEF LinksTyped
  <2>6. LogTyped'
    BY <1>1, <2>1, SameTyped DEF round
  <2>7. since' \in [Lists -> SUBSET Names]
    <3>1. CASE since' = since
      BY <3>1 DEF GhostTyped
    <3>2. CASE since' = [l \in Lists |-> IF l \in {k \in LinkOf(row.repo) : links[k].id = Nobody}
                                         THEN NamesNow(row.repo) ELSE since[l]]
      BY <3>2, NamesNowType DEF GhostTyped
    <3> QED BY <1>4, <3>1, <3>2 DEF LearnId
  <2>8. GhostTyped'
    BY <1>1, <2>7 DEF GhostTyped
  <2> QED BY <1>2, <2>3, <2>5, <2>6, <2>8
<1>5. CASE Rename /\ ~(RowDone /\ UNCHANGED <<links, since>>)
  <2>1. /\ pc' = "follow" /\ UNCHANGED round /\ links' \in [Lists -> LinkType]
        /\ \A l \in Lists :
             /\ l \in LinkOf(row.repo) => links'[l] = Moved(links[l], row.id # Nobody)
             /\ l \notin LinkOf(row.repo) => links'[l] = links[l]
    BY <1>5, VerdictLinks
  <2>2. seen.kind = "record" /\ pc = "looked" /\ row.repo \in Names /\ seen.name \in Names
    BY <1>5, VerdictSeen DEF Rename, Judged, At, RoundTyped
  <2>3. RoundTyped' /\ WorkTyped'
    BY <2>1, <2>2 DEF RoundTyped, WorkTyped, Asking, Places, round
  <2>4. \A l \in Lists : links'[l].repo = None => links'[l] = links[l]
    BY <2>1, <2>2, MovedReturns, NotNames
  <2>5. LinksTyped'
    BY <2>1, <2>4 DEF LinksTyped
  <2>6. LogTyped'
    BY <1>1, <2>1, SameTyped DEF round
  <2>7. since' \in [Lists -> SUBSET Names]
    BY <1>5, NamesNowType DEF Rename, GhostTyped
  <2>8. GhostTyped'
    BY <1>1, <2>7 DEF GhostTyped
  <2> QED BY <1>2, <2>3, <2>5, <2>6, <2>8
<1> QED BY <1>3, <1>4, <1>5 DEF Hold, store, ghosts

\* Steps that end with a row, and leave links and log of their type.
LEMMA RowEndsTyped ==
  ASSUME Typed, RowDone \/ EndRound, HubType', StoreTyped', GhostTyped', LinksTyped', deeds' = deeds,
         log' \in Seq(LogType), DOMAIN log \subseteq DOMAIN log'
  PROVE  Typed'
BY RowDoneTyped, LogTypedWithoutWork DEF Typed

LEMMA FollowTyped ==
  ASSUME Typed, Follow \/ ReadLists \/ LinkGone \/ Resume \/ Keep \/ WaitHour \/ Refused \/ Finish
  PROVE  Typed'
<1> USE DEF Typed
<1>1. UNCHANGED <<github, used, names, setting, ghosts>>
  BY DEF Follow, ReadLists, LinkGone, Resume, Keep, WaitHour, Refused, Finish, Listed, Ready, At, store
<1>2. HubType' /\ StoreTyped' /\ GhostTyped' /\ deeds' = deeds
  BY <1>1, SameTyped DEF ghosts
<1>3. log \in Seq(LogType) /\ work.intent \in DOMAIN log \cup {0}
  BY DEF LogTyped
<1>4. CASE Follow
  <2>1. pc = "follow" /\ row.list \in Lists /\ log' = log
    BY <1>4 DEF Follow, At, RoundTyped
  <2> DEFINE link == links[row.list]
  <2>2. link \in LinkType /\ (Marker(row.list) => link.from \in Names /\ link.repo \in Names)
    BY <2>1 DEF LinksTyped, LinkType, Marker, Linked
  <2>3. CASE ~Marker(row.list) \/ NothingToAsk(link)
    <3>1. RowDone /\ links' = IF Marker(row.list) THEN Unmarked(link.repo) ELSE links
      BY <1>4, <2>3 DEF Follow
    <3>2. LinksTyped'
      BY <2>2, <3>1, UnmarkedTyped DEF LinksTyped
    <3> QED BY <1>2, <1>3, <2>1, <3>1, <3>2, RowEndsTyped
  <2>4. CASE Marker(row.list) /\ ~NothingToAsk(link)
    <3>1. /\ work' = [old |-> link.from, repo |-> link.repo, late |-> link.late,
                      intent |-> Newest(Unfinished(link)), on |-> setting]
          /\ pc' = "lists" /\ UNCHANGED <<links, todo, row, seen, listing>>
      BY <1>4, <2>4 DEF Follow
    <3>2. Newest(Unfinished(link)) \in DOMAIN log \cup {0}
      <4>1. Unfinished(link) \subseteq DOMAIN log
        BY DEF Unfinished
      <4>2. CASE Unfinished(link) = {}
        BY <4>2 DEF Newest
      <4>3. CASE Unfinished(link) # {} /\ \E i \in Unfinished(link) : \A j \in Unfinished(link) : j <= i
        BY <4>1, <4>3 DEF Newest
      <4>4. Unfinished(link) # {} => \E i \in Unfinished(link) : \A j \in Unfinished(link) : j <= i
        BY <1>3, <4>1, NewestThere
      <4> QED BY <4>2, <4>3, <4>4
    <3>3. RoundTyped'
      BY <2>1, <3>1 DEF RoundTyped, Places
    <3>4. WorkTyped'
      <4>1. Newest(Unfinished(link)) \in Nat /\ setting \in BOOLEAN /\ link.late \in BOOLEAN
        BY <1>3, <2>2, <3>2 DEF StoreTyped, LinkType
      <4> QED BY <2>2, <2>4, <3>1, <4>1 DEF WorkTyped, Asking
    <3>5. LogTyped' /\ LinksTyped'
      BY <1>2, <2>1, <3>1, <3>2 DEF LogTyped, LinksTyped
    <3> QED BY <1>2, <3>3, <3>4, <3>5
  <2> QED BY <2>3, <2>4
<1>5. CASE ReadLists
  <2>1. pc = "lists" /\ pc' = "listed" /\ listing' = names /\ UNCHANGED <<store, todo, row, seen, work>>
    BY <1>5 DEF ReadLists, At
  <2>2. RoundTyped' /\ WorkTyped'
    BY <2>1 DEF RoundTyped, WorkTyped, Asking, Places, StoreTyped
  <2> QED BY <1>2, <2>1, <2>2, SameTyped DEF store
<1>6. CASE LinkGone
  <2>1. links' = Adopted /\ log' = log /\ RowDone
    BY <1>6 DEF LinkGone
  <2>2. LinksTyped'
    BY <2>1, AdoptedTyped DEF LinksTyped
  <2> QED BY <1>2, <1>3, <2>1, <2>2, RowEndsTyped
<1>7. CASE Resume \/ Keep \/ WaitHour
  <2>1. Listed /\ RowDone
    BY <1>7 DEF Resume, Keep, WaitHour, Ready
  <2>2. Link.repo \in Names
    BY <2>1, LinkTyped
  <2>3. links' \in {Adopted, ClearedOf(Link.repo)}
    BY <1>7 DEF Resume, Keep, WaitHour
  <2>4. LinksTyped'
    BY <2>2, <2>3, AdoptedTyped, ClearedOfTyped DEF LinksTyped
  <2>5. log' = log \/ \E kind \in {"renamed", "kept"} : log' = Ended(work.intent, kind)
    BY <1>7 DEF Resume, Keep, WaitHour
  <2>6. log' \in Seq(LogType) /\ DOMAIN log' = DOMAIN log
    BY <1>3, <2>5, EndedReturns
  <2> QED BY <1>2, <2>1, <2>4, <2>6, RowEndsTyped
<1>8. CASE Refused \/ Finish
  <2>1. RowDone /\ work.repo \in Names
    BY <1>8 DEF Refused, Finish, At, WorkTyped, Asking
  <2>2. links' = Unmarked(work.repo) /\ \E kind \in {"renamed", "kept"} : log' = Ended(work.intent, kind)
    BY <1>8 DEF Refused, Finish
  <2>3. LinksTyped'
    BY <2>1, <2>2, UnmarkedTyped DEF LinksTyped
  <2>4. log' \in Seq(LogType) /\ DOMAIN log' = DOMAIN log
    BY <1>3, <2>2, EndedReturns
  <2> QED BY <1>2, <2>1, <2>3, <2>4, RowEndsTyped
<1> QED BY <1>4, <1>5, <1>6, <1>7, <1>8

\* The log with the intent, as it is when the server is asked.
LEMMA IntendReturns ==
  ASSUME Typed, Intend
  PROVE  /\ work.intent # 0 => log' = log
         /\ work.intent = 0 =>
              /\ Len(log') = Len(log) + 1 /\ log'[Len(log')] = Intent
              /\ \A i \in DOMAIN log : log'[i] = Superseded[i]
         /\ log' \in Seq(LogType) /\ DOMAIN log \subseteq DOMAIN log'
         /\ work'.intent = IF work.intent # 0 THEN work.intent ELSE Len(log')
         /\ work'.intent \in DOMAIN log' /\ work'.intent # 0
         /\ work'.old = work.old /\ work'.repo = Link.repo
<1>1. Listed /\ MayTakeName(Link.repo)
  BY DEF Intend, Ready
<1>2. /\ row.list \in Lists /\ Link.repo \in Names /\ work.old \in Names
      /\ log \in Seq(LogType) /\ work.intent \in DOMAIN log \cup {0}
  BY <1>1, LinkTyped DEF Typed, RoundTyped, Listed, At, WorkTyped, Asking, LogTyped
<1>3. Intent \in LogType
  <2>1. listing[row.list] = Short[work.old]
    BY <1>1 DEF MayTakeName
  <2> QED BY <1>2, <2>1, ShortAssumption DEF Intent, LogType
<1>4. log' = IF work.intent # 0 THEN log ELSE Append(Superseded, Intent)
  BY DEF Intend
<1>5. /\ work'.intent = IF work.intent # 0 THEN work.intent ELSE Len(log')
      /\ work'.old = work.old /\ work'.repo = Link.repo
  BY DEF Intend, Typed, WorkTyped
<1>6. CASE work.intent # 0
  BY <1>2, <1>4, <1>5, <1>6
<1>7. CASE work.intent = 0
  <2>1. Superseded \in Seq(LogType) /\ Len(Superseded) = Len(log) /\ DOMAIN Superseded = DOMAIN log
    BY <1>2, SupersededReturns
  <2>2. log' = Append(Superseded, Intent)
    BY <1>4, <1>7
  <2>3. /\ log' \in Seq(LogType) /\ Len(log') = Len(log) + 1 /\ log'[Len(log')] = Intent
        /\ \A i \in DOMAIN log : log'[i] = Superseded[i]
    <3>1. /\ Append(Superseded, Intent) \in Seq(LogType)
          /\ Len(Append(Superseded, Intent)) = Len(Superseded) + 1
          /\ Append(Superseded, Intent)[Len(Superseded) + 1] = Intent
          /\ \A i \in 1 .. Len(Superseded) : Append(Superseded, Intent)[i] = Superseded[i]
      BY <1>3, <2>1
    <3>2. DOMAIN log = 1 .. Len(Superseded)
      BY <2>1
    <3> QED BY <2>1, <2>2, <3>1, <3>2
  <2>4. Len(log) \in Nat /\ DOMAIN log = 1 .. Len(log) /\ DOMAIN log' = 1 .. Len(log')
    BY <1>2, <2>3
  <2> QED BY <1>5, <1>7, <2>3, <2>4
<1> QED BY <1>6, <1>7

LEMMA AskTyped ==
  ASSUME Typed, Intend \/ RenameList
  PROVE  Typed'
<1>1. CASE Intend
  <2>1. /\ pc = "listed" /\ pc' = "rename" /\ links' = Adopted
        /\ UNCHANGED <<github, used, names, setting, todo, row, seen, listing, ghosts>>
    BY <1>1 DEF Intend, Ready, Listed, At
  <2>2. HubType' /\ StoreTyped' /\ GhostTyped' /\ LinksTyped'
    BY <2>1, SameTyped, AdoptedTyped DEF Typed, LinksTyped
  <2>3. RoundTyped'
    BY <2>1 DEF Typed, RoundTyped, Places
  <2>4. Link.repo \in Names
    BY <1>1, LinkTyped DEF Typed, Intend, Ready
  <2>5. WorkTyped'
    <3>1. work' \in [old : Names \cup {None}, repo : Names \cup {None}, late : BOOLEAN,
                     intent : Nat, on : BOOLEAN]
      <4>1. Len(log') \in Nat
        BY <1>1, IntendReturns
      <4> QED BY <1>1, <2>4, <4>1 DEF Intend, Typed, WorkTyped
    <3> QED BY <1>1, <2>1, <2>4, <3>1, IntendReturns DEF Typed, WorkTyped, Asking
  <2>6. LogTyped'
    <3>1. deeds' = deeds
      BY <2>1 DEF ghosts
    <3> QED BY <1>1, <3>1, IntendReturns DEF Typed, LogTyped
  <2> QED BY <2>2, <2>3, <2>5, <2>6 DEF Typed
<1>2. CASE RenameList
  <2>1. /\ pc = "rename" /\ pc' = "renamed" /\ names' = [names EXCEPT ![row.list] = Short[work.repo]]
        /\ deeds' = deeds \cup {work.intent}
        /\ UNCHANGED <<github, used, store, round, meant, since, shifted, crossed, meddled>>
    BY <1>2 DEF RenameList, At
  <2>2. HubType' /\ LinksTyped' /\ GhostTyped'
    BY <2>1, SameTyped DEF Typed, store, GhostTyped
  <2>3. RoundTyped' /\ WorkTyped'
    BY <2>1 DEF Typed, RoundTyped, WorkTyped, Asking, Places, round
  <2>4. StoreTyped'
    <3>1. Short[work.repo] \in Labels
      BY <2>1, ShortAssumption DEF Typed, WorkTyped, Asking
    <3> QED BY <2>1, <3>1 DEF Typed, StoreTyped, store
  <2>5. LogTyped'
    BY <2>1 DEF Typed, LogTyped, WorkTyped, store, round
  <2> QED BY <2>2, <2>3, <2>4, <2>5 DEF Typed
<1> QED BY <1>1, <1>2

LEMMA UsedTyped ==
  ASSUME used \in [hub : Nat, user : Nat, fault : Nat], Hub \/ User \/ Fault
  PROVE  /\ used' \in [hub : Nat, user : Nat, fault : Nat] /\ used' # used
         /\ User \/ Fault => used'.hub = used.hub
         /\ Hub => used'.hub = used.hub + 1
BY DEF Hub, User, Fault

LEMMA FaultTyped ==
  ASSUME Typed, FaultStep
  PROVE  Typed'
<1> USE DEF Typed
<1>1. /\ RowDone \/ EndRound
      /\ UNCHANGED <<github, names, setting, ghosts>> /\ Fault
  BY DEF FaultStep, RoundLost, RowFails, RefusesName, store
<1>2. HubType' /\ StoreTyped' /\ GhostTyped' /\ deeds' = deeds
  BY <1>1, SameTyped, UsedTyped DEF ghosts, GhostTyped
<1>3. log \in Seq(LogType) /\ work.intent \in DOMAIN log \cup {0}
  BY DEF LogTyped
<1>4. CASE RefusesName
  <2>1. work.repo \in Names /\ links' = Unmarked(work.repo) /\ log' = Ended(work.intent, "kept")
    BY <1>4 DEF RefusesName, WorkTyped, Asking
  <2>2. LinksTyped'
    BY <2>1, UnmarkedTyped DEF LinksTyped
  <2>3. log' \in Seq(LogType) /\ DOMAIN log' = DOMAIN log
    BY <1>3, <2>1, EndedReturns
  <2> QED BY <1>1, <1>2, <2>2, <2>3, RowEndsTyped
<1>5. CASE UNCHANGED store
  <2>1. UNCHANGED <<links, log>>
    BY <1>5 DEF store
  <2>2. LinksTyped'
    BY <2>1, SameTyped
  <2> QED BY <1>1, <1>2, <1>3, <2>1, <2>2, RowEndsTyped
<1> QED BY <1>4, <1>5 DEF FaultStep, RoundLost, RowFails

LEMMA TimeTyped ==
  ASSUME Typed, HourPasses \/ MonthPasses
  PROVE  Typed'
<1>1. /\ UNCHANGED <<github, names, setting, pc, round, used, ghosts>>
      /\ log' = [i \in DOMAIN log |-> [log[i] EXCEPT !.recent = FALSE]]
      /\ \/ links' = links
         \/ links' = [l \in Lists |-> IF Marker(l) THEN [links[l] EXCEPT !.late = TRUE] ELSE links[l]]
  BY DEF HourPasses, MonthPasses, Resting
<1>2. LinksTyped'
  <2>1. CASE links' = links
    BY <2>1 DEF Typed, LinksTyped
  <2>2. CASE links' = [l \in Lists |-> IF Marker(l) THEN [links[l] EXCEPT !.late = TRUE] ELSE links[l]]
    <3>1. \A l \in Lists : links[l] \in LinkType /\ [links[l] EXCEPT !.late = TRUE] \in LinkType
      BY DEF Typed, LinksTyped, LinkType
    <3>2. \A l \in Lists : links'[l].repo = links[l].repo /\ (links[l].repo = None => links'[l] = links[l])
      BY <2>2, <3>1 DEF LinkType, Marker, Linked
    <3> QED BY <2>2, <3>1, <3>2 DEF Typed, LinksTyped
  <2> QED BY <1>1, <2>1, <2>2
<1>3. LogTyped'
  <2>1. log \in Seq(LogType)
    BY DEF Typed, LogTyped
  <2>2. \A i \in DOMAIN log : log[i] \in LogType /\ [log[i] EXCEPT !.recent = FALSE] \in LogType
    <3>1. \A i \in DOMAIN log : log[i] \in LogType
      BY <2>1
    <3> QED BY <3>1 DEF LogType
  <2>3. log' \in Seq(LogType) /\ DOMAIN log' = DOMAIN log
    BY <1>1, <2>1, <2>2
  <2> QED BY <1>1, <2>3 DEF Typed, LogTyped, round, ghosts
<1> QED BY <1>1, <1>2, <1>3, SameTyped DEF Typed

LEMMA StandsType == ASSUME NEW n \in Names, HubType PROVE Stands(n) \in Repos \cup {Nobody}
BY ByNameReturns DEF SeenType

LEMMA UserTyped ==
  ASSUME Typed, UserStep \/ PullLists
  PROVE  Typed'
<1>1. /\ UNCHANGED <<github, pc, round, log, deeds>>
      /\ User \/ used' = used
  BY DEF UserStep, PullLists, LinkRepo, Unlink, CallList, DeleteList, SetFollow, Calm, ghosts, store
<1>2. HubType' /\ RoundTyped' /\ WorkTyped'
  BY <1>1, SameTyped DEF Typed
<1>3. LogTyped'
  BY <1>1, SameTyped DEF Typed, round
<1>4. used' \in [hub : Nat, user : Nat, fault : Nat]
  BY <1>1, UsedTyped DEF Typed, GhostTyped
<1>5. ASSUME NEW l \in Lists, NEW n \in Names, LinkRepo(l, n)
      PROVE  Typed'
  <2>1. [NoLink EXCEPT !.repo = n] \in LinkType /\ [NoLink EXCEPT !.repo = n].repo # None
    BY NotNames DEF NoLink, LinkType
  <2>2. links' = [links EXCEPT ![l] = [NoLink EXCEPT !.repo = n]]
    BY <1>5 DEF LinkRepo
  <2>3. LinksTyped'
    BY <2>1, <2>2 DEF Typed, LinksTyped
  <2>4. GhostTyped'
    <3>1. Stands(n) \in Repos \cup {Nobody}
      BY StandsType DEF Typed
    <3>2. /\ meant' = [meant EXCEPT ![l] = Stands(n)] /\ since' = [since EXCEPT ![l] = {}]
          /\ crossed' \in BOOLEAN /\ UNCHANGED <<shifted, meddled>>
      BY <1>5 DEF LinkRepo
    <3> QED BY <1>4, <3>1, <3>2 DEF Typed, GhostTyped
  <2>5. StoreTyped'
    BY <1>5 DEF LinkRepo, Typed, StoreTyped
  <2> QED BY <1>2, <1>3, <2>3, <2>4, <2>5 DEF Typed
<1>6. ASSUME NEW l \in Lists, Unlink(l)
      PROVE  Typed'
  <2>1. NoLink \in LinkType
    BY DEF NoLink, LinkType
  <2>2. LinksTyped'
    BY <1>6, <2>1 DEF Unlink, Typed, LinksTyped
  <2>3. GhostTyped' /\ StoreTyped'
    BY <1>4, <1>6 DEF Unlink, Typed, StoreTyped, GhostTyped
  <2> QED BY <1>2, <1>3, <2>2, <2>3 DEF Typed
<1>7. ASSUME NEW l \in Lists, DeleteList(l) \/ \E label \in Labels : CallList(l, label)
      PROVE  Typed'
  <2>1. LinksTyped'
    BY <1>7 DEF DeleteList, CallList, store, Typed, LinksTyped
  <2>2. StoreTyped'
    BY <1>7 DEF DeleteList, CallList, store, Typed, StoreTyped
  <2>3. GhostTyped'
    BY <1>4, <1>7 DEF DeleteList, CallList, Typed, GhostTyped
  <2> QED BY <1>2, <1>3, <2>1, <2>2, <2>3 DEF Typed
<1>8. CASE SetFollow
  BY <1>2, <1>3, <1>4, <1>8 DEF SetFollow, ghosts, Typed, LinksTyped, StoreTyped, GhostTyped
<1>9. CASE PullLists
  <2>1. NoLink \in LinkType
    BY DEF NoLink, LinkType
  <2>2. LinksTyped'
    BY <1>9, <2>1 DEF PullLists, Typed, LinksTyped
  <2>3. GhostTyped' /\ StoreTyped'
    BY <1>9 DEF PullLists, ghosts, Typed, StoreTyped, GhostTyped
  <2> QED BY <1>2, <1>3, <2>2, <2>3 DEF Typed
<1> QED BY <1>5, <1>6, <1>7, <1>8, <1>9 DEF UserStep

LEMMA GithubTyped ==
  ASSUME Typed, GithubStep
  PROVE  Typed'
<1>1. HubStep
  BY DEF GithubStep, HubDeletes, HubRenames, HubCreates
<1>2. UNCHANGED <<names, links, log, setting, pc, round, meant, deeds, crossed, meddled>> /\ Hub
      /\ shifted' \in BOOLEAN
  BY <1>1 DEF HubStep, store
<1>3. RoundTyped' /\ WorkTyped' /\ LinksTyped' /\ StoreTyped' /\ LogTyped'
  BY <1>2, SameTyped DEF Typed, round
<1>4. HubType'
  BY DEF GithubStep, HubDeletes, HubRenames, HubCreates, Typed, HubType
<1>5. since' \in [Lists -> SUBSET Names]
  BY DEF GithubStep, HubDeletes, HubRenames, HubCreates, Typed, GhostTyped
<1>6. GhostTyped'
  BY <1>2, <1>5, UsedTyped DEF Typed, GhostTyped
<1> QED BY <1>3, <1>4, <1>6 DEF Typed

LEMMA TypedStep == Typed /\ [Next]_vars => Typed'
<1> SUFFICES ASSUME Typed, [Next]_vars PROVE Typed'
  OBVIOUS
<1>1. CASE UNCHANGED vars
  <2>1. UNCHANGED <<github, names, setting, links, log, pc, round, used, ghosts, work, deeds>>
    BY <1>1 DEF vars, store, round, ghosts
  <2> QED BY <2>1, SameTyped DEF Typed
<1>2. CASE RoundStep
  BY <1>1, <1>2, LookTyped, VerdictTyped, FollowTyped, AskTyped DEF RoundStep, NotLinked
<1> QED BY <1>1, <1>2, FaultTyped, TimeTyped, UserTyped, GithubTyped DEF Next

LEMMA TypedInit == Init => Typed
<1> SUFFICES ASSUME Init PROVE Typed
  OBVIOUS
<1>1. HubType /\ StoreTyped
  BY BornAssumption, CalledAssumption DEF Init, HubType, StoreTyped, None
<1>2. RoundTyped /\ WorkTyped
  BY NoSeenType, NoWorkType DEF Init, RoundTyped, WorkTyped, Places, NoRow, RowType, NoListing, Asking, NoSeen
<1>3. LinksTyped /\ LogTyped
  BY NoWorkType, NotNames DEF Init, LinksTyped, LinkType, NoLink, LogTyped
<1>4. GhostTyped
  BY DEF Init, GhostTyped
<1> QED BY <1>1, <1>2, <1>3, <1>4 DEF Typed

-----------------------------------------------------------------------------
(* One link per repo, and one name. *)

\* Links that stay of their repo, or go.
LinksKept ==
  \A l \in Lists : \/ links'[l] = NoLink
                   \/ links'[l].repo = links[l].repo /\ links'[l].id = links[l].id

LEMMA LinksChange ==
  ASSUME Typed, [Next]_vars
  PROVE  \/ LinksKept
         \/ (LearnId \/ Rename) /\ links' # links
         \/ \E l \in Lists, n \in Names : LinkRepo(l, n)
<1>1. links \in [Lists -> LinkType]
  BY DEF Typed, LinksTyped
<1>2. CASE UNCHANGED links
  BY <1>2 DEF LinksKept
<1>3. CASE links' = Adopted
  BY <1>1, <1>3, AdoptedReturns DEF LinksKept
<1>4. CASE \/ \E repo \in Names \cup {None} : links' = Unmarked(repo)
           \/ \E repo \in Names : links' = ClearedOf(repo)
  <2>1. ASSUME NEW repo \in Names, links' = ClearedOf(repo) PROVE LinksKept
    <3>1. SUFFICES ASSUME NEW l \in Lists
                   PROVE  \/ links'[l] = NoLink
                          \/ links'[l].repo = links[l].repo /\ links'[l].id = links[l].id
      BY DEF LinksKept
    <3>2. NoLink.repo = None /\ None # repo
      BY NotNames DEF NoLink
    <3>3. Adopted[l] = NoLink \/ Adopted[l] = links[l]
      BY <1>1, AdoptedReturns
    <3> QED BY <1>1, <2>1, <3>2, <3>3, ClearedOfReturns
  <2> QED BY <1>1, <1>4, <2>1, UnmarkedReturns DEF LinksKept
<1>5. CASE MonthPasses
  BY <1>1, <1>5 DEF MonthPasses, LinksKept, LinkType
<1>6. CASE PullLists \/ \E l \in Lists : Unlink(l)
  BY <1>1, <1>6 DEF PullLists, Unlink, LinksKept
<1>7. CASE Follow
  <2>1. row.list \in Lists
    BY <1>7 DEF Follow, At, Typed, RoundTyped
  <2>2. links[row.list].repo \in Names \cup {None}
    BY <1>1, <2>1 DEF LinkType
  <2> QED BY <1>2, <1>4, <1>7, <2>2 DEF Follow
<1>8. CASE Resume \/ Keep
  <2>1. Link.repo \in Names
    BY <1>8, LinkTyped DEF Resume, Keep, Typed
  <2> QED BY <1>4, <1>8, <2>1 DEF Resume, Keep
<1>9. CASE Refused \/ Finish \/ RefusesName
  <2>1. work.repo \in Names
    BY <1>9 DEF Refused, Finish, RefusesName, At, Typed, WorkTyped, Asking
  <2> QED BY <1>4, <1>9, <2>1 DEF Refused, Finish, RefusesName
<1>10. CASE LinkGone \/ WaitHour \/ Intend
  BY <1>3, <1>10 DEF LinkGone, WaitHour, Intend
<1>11. \/ Follow \/ Resume \/ Keep \/ Refused \/ Finish \/ RefusesName \/ LinkGone \/ WaitHour \/ Intend
       \/ MonthPasses \/ PullLists \/ (\E l \in Lists : Unlink(l)) \/ UNCHANGED links
       \/ LearnId \/ Rename \/ \E l \in Lists, n \in Names : LinkRepo(l, n)
  BY DEF Next, RoundStep, FaultStep, UserStep, GithubStep, NotLinked, BeginRound, Look, LookAgain,
     Hold, Fine, ReadIssues, ReadLists, RenameList, RoundLost, RowFails, HourPasses, CallList,
     DeleteList, SetFollow, HubRenames, HubCreates, HubDeletes, HubStep, store, vars
<1> QED BY <1>2, <1>5, <1>6, <1>7, <1>8, <1>9, <1>10, <1>11

\* What a link is after its own verdict, and every other.
LEMMA JudgedLinks ==
  ASSUME Typed, LearnId \/ Rename, links' # links
  PROVE  /\ pc = "looked" /\ seen.kind = "record" /\ seen.id \in Repos /\ seen.name \in Names
         /\ row.list \in Lists /\ row.repo \in Names /\ links' \in [Lists -> LinkType]
         /\ \A l \in Lists : l \notin LinkOf(row.repo) => links'[l] = links[l]
         /\ \A l \in LinkOf(row.repo) :
              /\ links'[l].repo \in {row.repo, seen.name}
              /\ links'[l].id = IF links[l].id = Nobody /\ (LearnId \/ row.id = Nobody)
                                THEN seen.id ELSE links[l].id
         /\ \A k \in Linked \ LinkOf(row.repo) : links[k].repo # seen.name /\ links[k].id # seen.id
<1> USE DEF Typed
<1>1. links \in [Lists -> LinkType] /\ row.list \in Lists /\ row.repo \in Names /\ pc = "looked"
  BY DEF LinksTyped, RoundTyped, LearnId, Rename, Judged, At
<1>2. seen.kind = "record" /\ seen.id \in Repos /\ seen.name \in Names
  BY VerdictSeen DEF LearnId, Rename, RoundTyped
<1>3. links' # links
  OBVIOUS
<1>4. CASE LearnId
  <2>1. /\ ~IdTaken(seen.id) /\ links' \in [Lists -> LinkType]
        /\ \A l \in Lists :
             /\ l \in LinkOf(row.repo) /\ links[l].id = Nobody =>
                  links'[l] = [links[l] EXCEPT !.id = seen.id]
             /\ ~(l \in LinkOf(row.repo) /\ links[l].id = Nobody) => links'[l] = links[l]
    BY <1>3, <1>4, VerdictLinks
  <2>2. seen.name = row.repo
    BY <1>4, VerdictSeen DEF LearnId
  <2>3. \A l \in LinkOf(row.repo) : links[l].repo = row.repo /\ l \in Lists /\ links[l] \in LinkType
    BY <1>1 DEF LinkOf, Linked
  <2>4. \A l \in LinkOf(row.repo) :
          links'[l].repo = row.repo
          /\ links'[l].id = IF links[l].id = Nobody THEN seen.id ELSE links[l].id
    BY <2>1, <2>3 DEF LinkType
  <2>5. \A k \in Linked \ LinkOf(row.repo) : links[k].repo # seen.name /\ links[k].id # seen.id
    BY <2>1, <2>2 DEF IdTaken, LinkOf
  <2> QED BY <1>1, <1>2, <1>4, <2>1, <2>4, <2>5
<1>5. CASE Rename /\ ~LearnId
  <2>1. /\ ~Conflict(seen.name, seen.id) /\ links' \in [Lists -> LinkType]
        /\ \A l \in Lists :
             /\ l \in LinkOf(row.repo) => links'[l] = Moved(links[l], row.id # Nobody)
             /\ l \notin LinkOf(row.repo) => links'[l] = links[l]
    BY <1>3, <1>5, VerdictLinks
  <2>2. \A l \in LinkOf(row.repo) :
          links'[l].repo = seen.name
          /\ links'[l].id = IF links[l].id = Nobody /\ row.id = Nobody THEN seen.id ELSE links[l].id
    BY <1>1, <1>2, <2>1, MovedReturns DEF LinkOf, Linked
  <2>3. \A k \in Linked \ LinkOf(row.repo) : links[k].repo # seen.name /\ links[k].id # seen.id
    BY <2>1 DEF Conflict
  <2> QED BY <1>1, <1>2, <1>5, <2>1, <2>2, <2>3
<1> QED BY <1>4, <1>5

LEMMA OneLinkStep ==
  ASSUME Typed, OneLinkPerRepo, [Next]_vars
  PROVE  OneLinkPerRepo'
<1>1. SUFFICES ASSUME NEW k \in Lists, NEW l \in Lists, k # l,
                      links'[k].repo # None, links'[l].repo # None
               PROVE  links'[k].repo # links'[l].repo
                      /\ (links'[k].id = links'[l].id => links'[k].id = Nobody)
  BY DEF OneLinkPerRepo, Linked
<1>2. links \in [Lists -> LinkType]
  BY DEF Typed, LinksTyped
<1>3. CASE LinksKept
  <2>1. links'[k].repo = links[k].repo /\ links'[k].id = links[k].id
    BY <1>1, <1>3 DEF LinksKept, NoLink
  <2>2. links'[l].repo = links[l].repo /\ links'[l].id = links[l].id
    BY <1>1, <1>3 DEF LinksKept, NoLink
  <2> QED BY <1>1, <2>1, <2>2 DEF OneLinkPerRepo, Linked
<1>4. CASE (LearnId \/ Rename) /\ links' # links
  <2> DEFINE mine == LinkOf(row.repo)
  <2>1. \A i \in Lists : i \in mine <=> links[i].repo = row.repo
    BY <1>4, JudgedLinks, NotNames DEF LinkOf, Linked
  <2>2. ~(k \in mine /\ l \in mine)
    BY <1>1, <2>1 DEF OneLinkPerRepo, LinkOf
  <2>3. CASE k \notin mine /\ l \notin mine
    <3>1. links'[k] = links[k] /\ links'[l] = links[l]
      BY <1>4, <2>3, JudgedLinks
    <3> QED BY <1>1, <3>1 DEF OneLinkPerRepo, Linked
  <2>4. ASSUME NEW i \in mine, NEW j \in Lists \ mine, links'[j].repo # None
        PROVE  links'[i].repo # links'[j].repo
               /\ (links'[i].id = links'[j].id => links'[i].id = Nobody)
    <3>1. links'[j] = links[j] /\ j \in Linked
      BY <1>4, <2>4, JudgedLinks DEF Linked
    <3>2. links[j].repo # row.repo /\ links[j].repo # seen.name /\ links[j].id # seen.id
      BY <1>4, <2>1, <3>1, JudgedLinks
    <3>3. links[i].id = links[j].id => links[i].id = Nobody
      BY <3>1 DEF OneLinkPerRepo, LinkOf
    <3>4. /\ links'[i].repo \in {row.repo, seen.name}
          /\ links'[i].id = seen.id \/ links'[i].id = links[i].id
      BY <1>4, JudgedLinks
    <3> QED BY <3>1, <3>2, <3>3, <3>4
  <2> QED BY <1>1, <2>2, <2>3, <2>4
<1>5. CASE \E i \in Lists, n \in Names : LinkRepo(i, n)
  <2>1. PICK i \in Lists, n \in Names : LinkRepo(i, n)
    BY <1>5
  <2>2. LinkOf(n) = {} /\ links' = [links EXCEPT ![i] = [NoLink EXCEPT !.repo = n]]
    BY <2>1 DEF LinkRepo
  <2>3. links'[i].repo = n /\ links'[i].id = Nobody /\ \A j \in Lists \ {i} : links'[j] = links[j]
    BY <1>2, <2>2 DEF NoLink
  <2>4. \A j \in Linked : links[j].repo # n
    BY <2>2 DEF LinkOf
  <2> QED BY <1>1, <2>3, <2>4 DEF OneLinkPerRepo, Linked
<1> QED BY <1>3, <1>4, <1>5, LinksChange

\* A repo takes a name that no other has.
LEMMA NamesApartStep ==
  ASSUME Typed, NamesApart, [Next]_vars
  PROVE  NamesApart'
<1>1. CASE UNCHANGED hub
  BY <1>1 DEF NamesApart
<1>2. ASSUME NEW r \in Repos, NEW n \in Names \cup {Gone}, hub' = [hub EXCEPT ![r] = n],
             n # Gone => Holder(n) = {}
      PROVE  NamesApart'
  <2>1. Gone \notin Names /\ \A s \in Repos : n # Gone => hub[s] # n
    BY <1>2, NotNames DEF Holder
  <2> QED BY <1>2, <2>1 DEF NamesApart, Typed, HubType
<1>3. UNCHANGED hub \/ \E r \in Repos : HubDeletes(r) \/ \E n \in Names : HubRenames(r, n) \/ HubCreates(r, n)
  BY DEF Next, RoundStep, FaultStep, UserStep, GithubStep, NotLinked, BeginRound, Look, LookAgain,
     Hold, Fine, LearnId, Rename, ReadIssues, Follow, ReadLists, LinkGone, Resume, Keep, WaitHour,
     Intend, RenameList, Refused, Finish, RoundLost, RowFails, RefusesName, HourPasses, MonthPasses,
     PullLists, LinkRepo, Unlink, CallList, DeleteList, SetFollow, Calm, Resting, At, Judged, Listed,
     Ready, github, vars
<1> QED BY <1>1, <1>2, <1>3 DEF HubDeletes, HubRenames, HubCreates

-----------------------------------------------------------------------------
(* What steps do to the round, to GitHub and to the history. *)

\* The look and the verdict are steps of their own; every other step leaves the row
\* in hand alone, or is past its verdict.
LEMMA RoundMoves ==
  ASSUME Typed, [Next]_vars
  PROVE  \/ BeginRound \/ Look \/ LookAgain \/ Fine
         \/ LearnId /\ pc' = "issues" /\ UNCHANGED round
         \/ pc' \notin {"again", "looked", "issues"} /\ todo' \subseteq todo
         \/ UNCHANGED <<pc, round>>
<1>1. RowDone \/ EndRound => pc' \notin {"again", "looked", "issues"} /\ todo' \subseteq todo
  BY DEF RowDone, EndRound
<1>2. LearnId => RowDone \/ (pc' = "issues" /\ UNCHANGED round)
  BY DEF LearnId
<1>3. Rename => RowDone \/ (pc' = "follow" /\ UNCHANGED round)
  BY DEF Rename
<1>4. Follow => RowDone \/ (pc' = "lists" /\ todo' = todo)
  BY DEF Follow
<1>5. /\ ReadIssues => pc' = "follow" /\ UNCHANGED round
      /\ ReadLists => pc' = "listed" /\ todo' = todo
      /\ Intend => pc' = "rename" /\ todo' = todo
      /\ RenameList => pc' = "renamed" /\ UNCHANGED round
  BY DEF ReadIssues, ReadLists, Intend, RenameList
<1>6. Hold \/ LinkGone \/ Resume \/ Keep \/ WaitHour \/ Refused \/ Finish \/ FaultStep => RowDone \/ EndRound
  BY DEF Hold, LinkGone, Resume, Keep, WaitHour, Refused, Finish, FaultStep, RoundLost, RowFails,
     RefusesName
<1>7. UserStep \/ PullLists \/ GithubStep \/ HourPasses \/ MonthPasses \/ NotLinked \/ UNCHANGED vars
        => UNCHANGED <<pc, round>>
  BY DEF UserStep, PullLists, GithubStep, HourPasses, MonthPasses, NotLinked, LinkRepo, Unlink,
     CallList, DeleteList, SetFollow, Calm, HubRenames, HubCreates, HubDeletes, HubStep, Resting, vars
<1>8. UNCHANGED round => todo' = todo
  BY DEF round
<1>9. CASE BeginRound \/ Look \/ LookAgain \/ Fine \/ LearnId
  BY <1>1, <1>2, <1>9
<1>10. CASE Rename \/ Follow \/ ReadIssues \/ ReadLists \/ Intend \/ RenameList
  BY <1>1, <1>3, <1>4, <1>5, <1>8, <1>10
<1>11. CASE Hold \/ LinkGone \/ Resume \/ Keep \/ WaitHour \/ Refused \/ Finish \/ FaultStep
  BY <1>1, <1>6, <1>11
<1> QED BY <1>7, <1>9, <1>10, <1>11 DEF Next, RoundStep

\* Rows taken come from the links, when the round begins.
LEMMA AheadShrinks ==
  ASSUME Typed, [Next]_vars, ~BeginRound
  PROVE  Ahead' \subseteq Ahead
<1>1. CASE Look
  <2>1. pc = "look" /\ row' \in todo /\ todo' \subseteq todo
    BY <1>1 DEF Look, At
  <2> QED BY <2>1 DEF Ahead
<1>2. CASE LookAgain
  BY <1>2 DEF LookAgain, At, Ahead
<1>3. CASE Fine \/ (LearnId /\ pc' = "issues" /\ UNCHANGED round)
  BY <1>3 DEF Fine, Ahead, round
<1>4. CASE pc' \notin {"again", "looked", "issues"} /\ todo' \subseteq todo
  BY <1>4 DEF Ahead
<1>5. CASE UNCHANGED <<pc, round>>
  BY <1>5 DEF Ahead, round
<1> QED BY <1>1, <1>2, <1>3, <1>4, <1>5, RoundMoves

\* GitHub changes in steps of its own, and the round's steps change no history but
\* since and deeds.
LEMMA HistoryGrows ==
  ASSUME [Next]_vars
  PROVE  /\ UNCHANGED github \/ GithubStep
         /\ (crossed => crossed') /\ (shifted => shifted') /\ (meddled => meddled')
         /\ meant' = meant \/ \E l \in Lists, n \in Names : LinkRepo(l, n)
<1>1. CASE RoundStep \/ FaultStep
  <2>1. NotLinked => UNCHANGED <<github, shifted, crossed, meddled, meant>>
    BY DEF NotLinked, vars, ghosts
  <2>2. BeginRound \/ Look \/ LookAgain \/ Hold \/ Fine \/ LearnId \/ Rename \/ ReadIssues
          => UNCHANGED <<github, shifted, crossed, meddled, meant>>
    BY DEF BeginRound, Look, LookAgain, Hold, Fine, LearnId, Rename, ReadIssues, Judged, At, ghosts
  <2>3. Follow \/ ReadLists \/ LinkGone \/ Resume \/ Keep \/ WaitHour \/ Intend \/ RenameList
          => UNCHANGED <<github, shifted, crossed, meddled, meant>>
    BY DEF Follow, ReadLists, LinkGone, Resume, Keep, WaitHour, Intend, RenameList, Ready, Listed, At,
       ghosts
  <2>4. Refused \/ Finish \/ FaultStep => UNCHANGED <<github, shifted, crossed, meddled, meant>>
    BY DEF Refused, Finish, FaultStep, RoundLost, RowFails, RefusesName, At, ghosts
  <2> QED BY <1>1, <2>1, <2>2, <2>3, <2>4 DEF RoundStep
<1>2. CASE UserStep \/ PullLists
  <2>1. UNCHANGED github /\ (meant' = meant \/ \E l \in Lists, n \in Names : LinkRepo(l, n))
    BY <1>2 DEF UserStep, PullLists, Unlink, CallList, DeleteList, SetFollow, LinkRepo, Calm, ghosts
  <2>2. shifted' = shifted /\ (meddled' = meddled \/ meddled' = TRUE)
    BY <1>2 DEF UserStep, PullLists, Unlink, CallList, DeleteList, SetFollow, LinkRepo, ghosts
  <2>3. crossed' = crossed \/ crossed' = (crossed \/ pc # "idle")
    BY <1>2 DEF UserStep, PullLists, Unlink, CallList, DeleteList, SetFollow, LinkRepo, ghosts
  <2>4. crossed => crossed'
    BY <2>3, Zenon
  <2> QED BY <2>1, <2>2, <2>4
<1>3. CASE GithubStep
  <2>1. HubStep
    BY <1>3 DEF GithubStep, HubRenames, HubCreates, HubDeletes
  <2>2. shifted' = (shifted \/ Shifts) /\ UNCHANGED <<meant, crossed, meddled>>
    BY <2>1 DEF HubStep
  <2>3. shifted => shifted'
    BY <2>2, Zenon
  <2> QED BY <1>3, <2>2, <2>3
<1>4. CASE HourPasses \/ MonthPasses \/ UNCHANGED vars
  BY <1>4 DEF HourPasses, MonthPasses, Resting, vars, ghosts
<1> QED BY <1>1, <1>2, <1>3, <1>4 DEF Next

\* No name asstd holds to changes hands but where that is noted.
LEMMA StandsKept ==
  ASSUME Typed, [Next]_vars, ~shifted', NEW n \in Names,
         (\E l \in LinkOf(n) : links[l].id = Nobody) \/ row.repo = n
  PROVE  Stands(n)' = Stands(n)
<1>1. CASE UNCHANGED github
  BY <1>1 DEF github, Stands, ByName, Holder, Found
<1>2. CASE GithubStep
  <2>1. HubStep
    BY <1>2 DEF GithubStep, HubRenames, HubCreates, HubDeletes
  <2>2. ~Shifts
    BY <2>1 DEF HubStep
  <2> QED BY <2>2 DEF Shifts
<1> QED BY <1>1, <1>2, HistoryGrows

\* A name stands for the repo that has it.
LEMMA StandsForHolder ==
  ASSUME HubType, NamesApart, NEW r \in Repos, hub[r] \in Names
  PROVE  Stands(hub[r]) = r
<1>1. Holder(hub[r]) = {r}
  BY DEF NamesApart, Holder
<1> QED BY <1>1 DEF Stands, ByName, Found

-----------------------------------------------------------------------------
(* Links, rows and what was seen are of the repo the link was made for. *)

\* A link that has its name without an id is the row's own, and a row holds no other.
LEMMA MineMeant ==
  ASSUME RowsMeant, pc = "looked", NEW l \in LinkOf(row.repo), links[l].id = Nobody
  PROVE  l = row.list /\ row.id = Nobody
BY DEF RowsMeant, Ahead

LEMMA LinksMeantStep ==
  ASSUME Typed, LinksMeant, RowsMeant, SeenMeant, [Next]_vars, ~shifted'
  PROVE  LinksMeant'
<1>1. SUFFICES ASSUME NEW l \in Lists, links'[l].repo # None
               PROVE  IF links'[l].id = Nobody THEN Stands(links[l].repo)' = meant'[l]
                      ELSE links'[l].id = meant'[l]
  BY DEF LinksMeant, Linked
<1>2. links \in [Lists -> LinkType] /\ Nobody \notin Repos
  BY NotNames DEF Typed, LinksTyped
<1>3. ASSUME links'[l].repo = links[l].repo, links'[l].id = links[l].id, meant'[l] = meant[l]
      PROVE  IF links'[l].id = Nobody THEN Stands(links[l].repo)' = meant'[l]
             ELSE links'[l].id = meant'[l]
  <2>1. l \in Linked /\ links[l].repo \in Names
    BY <1>1, <1>2, <1>3 DEF Linked, LinkType
  <2>2. CASE links[l].id = Nobody
    <3>1. l \in LinkOf(links[l].repo)
      BY <2>1 DEF LinkOf
    <3>2. PICK n \in Names : n = links[l].repo
      BY <2>1
    <3>3. Stands(n)' = Stands(n)
      BY <2>2, <3>1, <3>2, StandsKept
    <3>4. Stands(links[l].repo)' = Stands(n)'
      BY <1>3, <3>2 DEF Stands, ByName, Holder, Found
    <3> QED BY <1>3, <2>1, <2>2, <3>2, <3>3, <3>4 DEF LinksMeant
  <2>3. CASE links[l].id # Nobody
    BY <1>3, <2>1, <2>3 DEF LinksMeant
  <2> QED BY <2>2, <2>3
<1>4. CASE LinksKept /\ meant' = meant
  <2>1. links'[l].repo = links[l].repo /\ links'[l].id = links[l].id
    BY <1>1, <1>4 DEF LinksKept, NoLink
  <2> QED BY <1>3, <1>4, <2>1
<1>5. CASE (LearnId \/ Rename) /\ links' # links
  <2>1. meant' = meant
    BY <1>5 DEF LearnId, Rename
  <2>2. CASE l \notin LinkOf(row.repo)
    BY <1>3, <1>5, <2>1, <2>2, JudgedLinks
  <2>3. CASE l \in LinkOf(row.repo)
    <3>1. links'[l].id = IF links[l].id = Nobody /\ (LearnId \/ row.id = Nobody)
                         THEN seen.id ELSE links[l].id
      BY <1>5, <2>3, JudgedLinks
    <3>2. pc = "looked" /\ seen.kind = "record" /\ seen.id \in Repos
      BY <1>5, JudgedLinks
    <3>3. CASE links[l].id = Nobody
      <4>1. l = row.list /\ row.id = Nobody
        BY <2>3, <3>2, <3>3, MineMeant
      <4>2. seen.id = meant[l]
        BY <2>3, <3>2, <3>3, <4>1 DEF SeenMeant
      <4> QED BY <1>2, <2>1, <3>1, <3>2, <3>3, <4>1, <4>2
    <3>4. CASE links[l].id # Nobody
      <4>1. l \in Linked
        BY <2>3 DEF LinkOf
      <4> QED BY <2>1, <3>1, <3>4, <4>1 DEF LinksMeant
    <3> QED BY <3>3, <3>4
  <2> QED BY <2>2, <2>3
<1>6. ASSUME NEW i \in Lists, NEW n \in Names, LinkRepo(i, n)
      PROVE  IF links'[l].id = Nobody THEN Stands(links[l].repo)' = meant'[l]
             ELSE links'[l].id = meant'[l]
  <2>1. /\ links' = [links EXCEPT ![i] = [NoLink EXCEPT !.repo = n]]
        /\ meant' = [meant EXCEPT ![i] = Stands(n)] /\ UNCHANGED github
    BY <1>6 DEF LinkRepo, Calm
  <2>2. CASE l = i
    <3>1. links'[l].repo = n /\ links'[l].id = Nobody /\ meant'[l] = Stands(n)
      BY <1>2, <2>1, <2>2 DEF NoLink, Typed, GhostTyped
    <3>2. Stands(n)' = Stands(n)
      BY <2>1 DEF github, Stands, ByName, Holder, Found
    <3>3. Stands(links[l].repo)' = Stands(n)'
      BY <3>1 DEF Stands, ByName, Holder, Found
    <3> QED BY <3>1, <3>2, <3>3
  <2>3. CASE l # i
    <3>1. links'[l] = links[l] /\ meant'[l] = meant[l]
      BY <2>1, <2>3 DEF Typed, GhostTyped
    <3> QED BY <1>3, <3>1
  <2> QED BY <2>2, <2>3
<1>7. CASE LinksKept /\ meant' # meant
  <2>1. \E i \in Lists, n \in Names : LinkRepo(i, n)
    BY <1>7, HistoryGrows
  <2> QED BY <1>6, <2>1
<1> QED BY <1>4, <1>5, <1>6, <1>7, LinksChange

\* No link is made during a round, unnoticed.
LEMMA NoneCrossed ==
  ASSUME [Next]_vars, ~crossed', pc # "idle"
  PROVE  meant' = meant /\ ~\E l \in Lists, n \in Names : LinkRepo(l, n)
<1>1. ASSUME NEW l \in Lists, NEW n \in Names, LinkRepo(l, n) PROVE FALSE
  <2>1. crossed' = (crossed \/ pc # "idle")
    BY <1>1 DEF LinkRepo
  <2>2. crossed'
    BY <2>1, Zenon
  <2> QED BY <2>2
<1> QED BY <1>1, HistoryGrows

LEMMA RowsMeantStep ==
  ASSUME Typed, OneLinkPerRepo, LinksMeant, RowsMeant, [Next]_vars, ~crossed'
  PROVE  RowsMeant'
<1>1. CASE BeginRound
  <2>1. /\ Ahead' = {[list |-> l, repo |-> links[l].repo, id |-> links[l].id] : l \in Linked}
        /\ UNCHANGED <<links, meant>>
    BY <1>1 DEF BeginRound, Ahead, store, ghosts
  <2>2. ASSUME NEW k \in Linked, NEW r, r = [list |-> k, repo |-> links[k].repo, id |-> links[k].id]
        PROVE  /\ r.id # Nobody => r.id = meant[r.list]
               /\ \A l \in LinkOf(r.repo) : links[l].id = Nobody => l = r.list /\ r.id = Nobody
    <3>1. \A l \in LinkOf(r.repo) : l = k
      BY <2>2 DEF LinkOf, OneLinkPerRepo
    <3> QED BY <2>2, <3>1 DEF LinksMeant
  <2>3. Linked' = Linked /\ \A r : LinkOf(r)' = LinkOf(r)
    BY <2>1 DEF Linked, LinkOf
  <2> QED BY <2>1, <2>2, <2>3 DEF RowsMeant
<1>2. CASE ~BeginRound
  <2>1. Ahead' \subseteq Ahead
    BY <1>2, AheadShrinks
  <2>2. SUFFICES ASSUME NEW r \in Ahead, r \in Ahead'
                 PROVE  /\ r.id # Nobody => r.id = meant'[r.list]
                        /\ \A l \in Lists : links'[l].repo # None /\ links'[l].repo = r.repo
                             /\ links'[l].id = Nobody => l = r.list /\ r.id = Nobody
    BY <2>1 DEF RowsMeant, LinkOf, Linked
  <2>3. pc # "idle"
    BY <2>2 DEF Ahead, Typed, RoundTyped
  <2>4. meant' = meant /\ ~\E l \in Lists, n \in Names : LinkRepo(l, n)
    BY <2>3, NoneCrossed
  <2>5. r.id # Nobody => r.id = meant'[r.list]
    BY <2>4 DEF RowsMeant
  <2>6. ASSUME NEW l \in Lists, links'[l].repo # None, links'[l].repo = r.repo, links'[l].id = Nobody
        PROVE  l = r.list /\ r.id = Nobody
    <3>1. CASE links'[l].repo = links[l].repo /\ links'[l].id = links[l].id
      BY <2>6, <3>1 DEF RowsMeant, LinkOf, Linked
    <3>2. CASE LinksKept
      BY <2>6, <3>1, <3>2 DEF LinksKept, NoLink
    <3>3. CASE (LearnId \/ Rename) /\ links' # links
      <4>1. CASE l \notin LinkOf(row.repo)
        BY <3>1, <3>3, <4>1, JudgedLinks
      <4>2. CASE l \in LinkOf(row.repo)
        <5>1. links'[l].id = IF links[l].id = Nobody /\ (LearnId \/ row.id = Nobody)
                             THEN seen.id ELSE links[l].id
          BY <3>3, <4>2, JudgedLinks
        <5>2. pc = "looked" /\ seen.id # Nobody
          BY <3>3, JudgedLinks, NotNames
        <5>3. links[l].id = Nobody
          BY <2>6, <5>1, <5>2
        <5> QED BY <2>6, <4>2, <5>1, <5>2, <5>3, MineMeant
      <4> QED BY <4>1, <4>2
    <3> QED BY <2>4, <3>2, <3>3, LinksChange
  <2> QED BY <2>5, <2>6
<1> QED BY <1>1, <1>2

\* What a look by name or by id says of the repo.
LEMMA SeenMeantStep ==
  ASSUME Typed, NamesApart, LinksMeant, RowsMeant, SeenMeant, [Next]_vars, ~shifted', ~crossed'
  PROVE  SeenMeant'
<1> USE DEF Typed
<1>1. CASE Look
  <2>1. PICK r \in todo :
          /\ row' = r /\ seen' = IF r.id = Nobody THEN ByName(r.repo) ELSE ById(r.id)
          /\ pc' \in {"again", "looked"}
    BY <1>1 DEF Look
  <2>2. r.list \in Lists /\ r.repo \in Names /\ r.id \in Repos \cup {Nobody} /\ r \in Ahead
    BY DEF RoundTyped, RowType, Ahead
  <2>3. UNCHANGED <<links, meant, github>>
    BY <1>1 DEF Look, At, store, ghosts
  <2>4. Stands(r.repo)' = Stands(r.repo) /\ LinkOf(r.repo)' = LinkOf(r.repo)
    BY <2>3 DEF github, Stands, ByName, Holder, Found, LinkOf, Linked
  <2>5. CASE r.id = Nobody
    <3>1. seen'.id = Stands(r.repo)
      BY <2>1, <2>2, <2>5, ByNameReturns
    <3>2. r.list \in LinkOf(r.repo) /\ links[r.list].id = Nobody => Stands(r.repo) = meant[r.list]
      BY DEF LinksMeant, LinkOf
    <3> QED BY <2>1, <2>3, <2>4, <3>1, <3>2 DEF SeenMeant
  <2>6. CASE r.id # Nobody
    <3>1. seen'.kind = "record" => seen'.id = r.id /\ seen'.name = hub[r.id] /\ hub[r.id] \in Names
      BY <2>1, <2>2, <2>6, ByIdReturns
    <3>2. seen'.kind = "record" /\ seen'.name = r.repo => Stands(r.repo) = r.id
      BY <2>2, <2>6, <3>1, StandsForHolder
    <3> QED BY <2>1, <2>4, <2>6, <3>1, <3>2 DEF SeenMeant
  <2> QED BY <2>5, <2>6
<1>2. CASE LookAgain
  <2>1. /\ pc = "again" /\ pc' = "looked" /\ row' = row
        /\ seen' = IF row.id = Nobody THEN ById(seen.id) ELSE ByName(row.repo)
    BY <1>2 DEF LookAgain, At
  <2>2. /\ row.list \in Lists /\ row.repo \in Names /\ Again(row, seen)
        /\ (seen.kind = "moved" => seen.id \in Repos)
    BY <2>1 DEF RoundTyped
  <2>3. UNCHANGED <<links, meant, github>>
    BY <1>2 DEF LookAgain, At, store, ghosts
  <2>4. Stands(row.repo)' = Stands(row.repo) /\ LinkOf(row.repo)' = LinkOf(row.repo)
    BY <2>1, <2>3 DEF github, Stands, ByName, Holder, Found, LinkOf, Linked
  <2>5. CASE row.id = Nobody
    <3>1. seen.kind = "moved" /\ seen.id \in Repos
      BY <2>2, <2>5 DEF Again
    <3>2. /\ seen'.kind \in {"record", "missing"}
          /\ seen'.kind = "record" => seen'.id = seen.id /\ seen'.name = hub[seen.id] /\ hub[seen.id] \in Names
      BY <2>1, <2>5, <3>1, ByIdReturns
    <3>3. row.list \in LinkOf(row.repo) /\ links[row.list].id = Nobody => seen.id = meant[row.list]
      BY <2>1, <2>5, <3>1 DEF SeenMeant
    <3>4. seen'.kind = "record" /\ seen'.name = row.repo => Stands(row.repo) = seen'.id
      BY <3>1, <3>2, StandsForHolder
    <3> QED BY <2>1, <2>3, <2>4, <3>2, <3>3, <3>4 DEF SeenMeant
  <2>6. CASE row.id # Nobody
    <3>1. seen'.id = Stands(row.repo)
      BY <2>1, <2>2, <2>6, ByNameReturns
    <3> QED BY <2>1, <2>4, <2>6, <3>1 DEF SeenMeant
  <2> QED BY <2>5, <2>6
<1>3. CASE Fine \/ (LearnId /\ pc' = "issues" /\ UNCHANGED round)
  <2>1. pc = "looked" /\ pc' = "issues" /\ row' = row /\ seen' = seen /\ UNCHANGED <<meant, github>>
    BY <1>3 DEF Fine, LearnId, Judged, At, round, ghosts
  <2>2. seen.kind = "record" /\ seen.name = row.repo /\ row.list \in Lists /\ seen.id \in Repos
    BY <1>3, <2>1, VerdictSeen DEF Fine, LearnId, RoundTyped
  <2>3. Stands(row.repo)' = Stands(row.repo)
    BY <2>1 DEF github, Stands, ByName, Holder, Found
  <2>4. Stands(row.repo) = seen.id
    BY <2>1, <2>2 DEF SeenMeant
  <2>5. seen.id = meant[row.list]
    <3>1. CASE Fine
      <4>1. row.id = seen.id /\ row.id # Nobody /\ row \in Ahead
        BY <2>1, <2>2, <3>1, VerdictSeen, NotNames DEF Fine, Ahead
      <4> QED BY <4>1 DEF RowsMeant
    <3>2. CASE LearnId /\ pc' = "issues" /\ UNCHANGED round
      <4>1. ~RowDone
        BY <2>1 DEF RowDone
      <4>2. PICK l \in LinkOf(row.repo) : links[l].id = Nobody
        BY <3>2, <4>1, VerdictLinks
      <4>3. l = row.list /\ row.id = Nobody
        BY <2>1, <4>2, MineMeant
      <4> QED BY <2>1, <2>2, <4>2, <4>3 DEF SeenMeant
    <3> QED BY <1>3, <3>1, <3>2
  <2> QED BY <2>1, <2>3, <2>4, <2>5 DEF SeenMeant
<1>4. CASE pc' \notin {"again", "looked", "issues"}
  BY <1>4 DEF SeenMeant
<1>5. CASE UNCHANGED <<pc, round>> /\ pc \in {"again", "looked", "issues"}
  <2>1. UNCHANGED <<pc, row, seen>> /\ row.list \in Lists /\ row.repo \in Names
    BY <1>5 DEF round, RoundTyped
  <2>2. meant' = meant /\ ~\E l \in Lists, n \in Names : LinkRepo(l, n)
    BY <1>5, NoneCrossed
  <2>3. Stands(row.repo)' = Stands(row.repo)
    <3>1. PICK n \in Names : n = row.repo
      BY <2>1
    <3>2. Stands(n)' = Stands(n)
      BY <3>1, StandsKept
    <3>3. Stands(row.repo)' = Stands(n)'
      BY <2>1, <3>1 DEF Stands, ByName, Holder, Found
    <3> QED BY <3>1, <3>2, <3>3
  <2>4. ASSUME row.list \in LinkOf(row.repo)', links'[row.list].id = Nobody
        PROVE  row.list \in LinkOf(row.repo) /\ links[row.list].id = Nobody
    <3>1. links'[row.list].repo = row.repo /\ row.repo # None
      BY <2>1, <2>4, NotNames DEF LinkOf
    <3>2. CASE LinksKept
      BY <2>1, <2>4, <3>1, <3>2 DEF LinksKept, NoLink, LinkOf, Linked
    <3>3. CASE (LearnId \/ Rename) /\ links' # links
      <4>1. pc = "looked"
        BY <3>3, JudgedLinks
      <4>2. pc' # "looked"
        BY <3>3 DEF LearnId, Rename, RowDone
      <4> QED BY <2>1, <4>1, <4>2
    <3> QED BY <2>2, <3>2, <3>3, LinksChange
  <2> QED BY <2>1, <2>2, <2>3, <2>4 DEF SeenMeant
<1>6. CASE BeginRound
  BY <1>6 DEF BeginRound, SeenMeant
<1> QED BY <1>1, <1>2, <1>3, <1>4, <1>5, <1>6, RoundMoves

LEMMA MeantStep ==
  ASSUME Typed, NamesApart, OneLinkPerRepo, MeantHolds, [Next]_vars
  PROVE  MeantHolds'
<1>1. SUFFICES ASSUME ~shifted', ~crossed' PROVE LinksMeant' /\ RowsMeant' /\ SeenMeant'
  BY DEF MeantHolds
<1>2. ~shifted /\ ~crossed
  BY <1>1, HistoryGrows
<1>3. LinksMeant /\ RowsMeant /\ SeenMeant
  BY <1>2 DEF MeantHolds
<1> QED BY <1>1, <1>3, LinksMeantStep, RowsMeantStep, SeenMeantStep

-----------------------------------------------------------------------------
(* While nobody interferes. *)

\* Steps that are not the round's leave links, log and lists alone while a row is in
\* hand.
LEMMA CalmPause ==
  ASSUME Typed, ListsCurrent, [Next]_vars, ~meddled', ~crossed', pc' = pc, pc \notin {"idle", "look"}
  PROVE  /\ UNCHANGED <<names, links, log, round, meant, deeds>>
         /\ UNCHANGED <<hub, since, used>> \/ GithubStep \/ SetFollow
<1>1. /\ ~\E l \in Lists, n \in Names : LinkRepo(l, n)
      /\ ~\E l \in Lists : Unlink(l) \/ DeleteList(l) \/ \E label \in Labels : CallList(l, label)
  BY NoneCrossed DEF Unlink, DeleteList, CallList
<1>2. ~PullLists
  BY DEF PullLists, ListsCurrent, Linked
<1>3. ~(HourPasses \/ MonthPasses \/ NotLinked)
  BY DEF HourPasses, MonthPasses, Resting, NotLinked
<1>4. ~RowDone /\ ~EndRound
  BY DEF RowDone, EndRound
<1>5. ~FaultStep
  BY <1>4 DEF FaultStep, RoundLost, RowFails, RefusesName
<1>6. ~RoundStep
  BY <1>3, <1>4 DEF RoundStep, BeginRound, Look, LookAgain, Hold, Fine, LearnId, Rename, ReadIssues,
     Follow, ReadLists, LinkGone, Resume, Keep, WaitHour, Intend, RenameList, Refused, Finish, Judged,
     Ready, Listed, At
<1>7. CASE GithubStep
  BY <1>7 DEF GithubStep, HubRenames, HubCreates, HubDeletes, HubStep, store
<1>8. CASE SetFollow
  BY <1>8 DEF SetFollow, Calm, ghosts
<1>9. CASE UNCHANGED vars
  BY <1>9 DEF vars, store, ghosts, github
<1> QED BY <1>1, <1>2, <1>3, <1>5, <1>6, <1>7, <1>8, <1>9 DEF Next, UserStep

\* No link goes, and no marker comes but by a rename that was seen.
LinksSame ==
  \A l \in Lists : /\ links'[l].repo = links[l].repo /\ links'[l].id = links[l].id
                   /\ links'[l].from \in {links[l].from, None}

LEMMA AdoptedCalm ==
  ASSUME Typed, ListsCurrent, pc = "listed"
  PROVE  /\ \A l \in Lists : Adopted[l] = links[l]
         /\ Adopted = links
<1>1. links \in [Lists -> LinkType] /\ \A l \in Lists : listing[l] # Gone
  BY DEF Typed, LinksTyped, ListsCurrent
<1>2. \A l \in Lists : Adopted[l] = links[l]
  BY <1>1, AdoptedReturns
<1>3. Adopted \in [Lists -> LinkType]
  BY <1>1, AdoptedReturns
<1> QED BY <1>1, <1>2, <1>3

LEMMA CalmLinks ==
  ASSUME Typed, ListsCurrent, [Next]_vars, ~meddled', ~crossed'
  PROVE  \/ LinksSame
         \/ (LearnId \/ Rename) /\ links' # links
         \/ pc = "idle" /\ pc' = "idle" /\ \E l \in Lists, n \in Names : LinkRepo(l, n)
<1>1. links \in [Lists -> LinkType]
  BY DEF Typed, LinksTyped
<1>2. CASE UNCHANGED links
  BY <1>2 DEF LinksSame
<1>3. ASSUME NEW repo, links' = Unmarked(repo) PROVE LinksSame
  BY <1>1, <1>3, UnmarkedReturns DEF LinksSame
<1>4. ASSUME NEW repo, links' = ClearedOf(repo), pc = "listed" PROVE LinksSame
  BY <1>1, <1>4, AdoptedCalm, ClearedOfReturns DEF LinksSame
<1>5. CASE Follow \/ Refused \/ Finish \/ RefusesName
  BY <1>2, <1>3, <1>5 DEF Follow, Refused, Finish, RefusesName
<1>6. CASE Resume \/ Keep
  BY <1>4, <1>6 DEF Resume, Keep, Listed, At
<1>7. CASE LinkGone \/ WaitHour \/ Intend
  <2>1. pc = "listed" /\ links' = Adopted
    BY <1>7 DEF LinkGone, WaitHour, Intend, Ready, Listed, At
  <2> QED BY <1>2, <2>1, AdoptedCalm
<1>8. CASE MonthPasses
  BY <1>1, <1>8 DEF MonthPasses, LinksSame, LinkType
<1>9. ~PullLists /\ ~\E l \in Lists : Unlink(l)
  BY DEF PullLists, Unlink, ListsCurrent, Linked
<1>10. CASE LearnId \/ Rename
  BY <1>2, <1>10
<1>11. ASSUME NEW l \in Lists, NEW n \in Names, LinkRepo(l, n)
       PROVE  pc = "idle" /\ pc' = "idle"
  <2>1. pc = "idle"
    BY <1>11, NoneCrossed
  <2> QED BY <1>11, <2>1 DEF LinkRepo, Calm
<1>12. \/ Follow \/ Resume \/ Keep \/ Refused \/ Finish \/ RefusesName \/ LinkGone \/ WaitHour \/ Intend
       \/ MonthPasses \/ PullLists \/ (\E l \in Lists : Unlink(l)) \/ UNCHANGED links
       \/ LearnId \/ Rename \/ \E l \in Lists, n \in Names : LinkRepo(l, n)
  BY DEF Next, RoundStep, FaultStep, UserStep, GithubStep, NotLinked, BeginRound, Look, LookAgain,
     Hold, Fine, ReadIssues, ReadLists, RenameList, RoundLost, RowFails, HourPasses, CallList,
     DeleteList, SetFollow, HubRenames, HubCreates, HubDeletes, HubStep, store, vars
<1> QED BY <1>2, <1>5, <1>6, <1>7, <1>8, <1>9, <1>10, <1>11, <1>12

\* A row is in hand from its look to its end.
LEMMA RowKept ==
  ASSUME Typed, [Next]_vars, pc' \notin {"idle", "look"}, ~Look
  PROVE  row' = row /\ todo' = todo /\ pc \notin {"idle", "look"}
<1>1. ~RowDone /\ ~EndRound
  BY DEF RowDone, EndRound
<1>2. CASE RoundStep
  <2>1. NotLinked => FALSE
    BY DEF NotLinked, vars
  <2>2. ~BeginRound
    BY DEF BeginRound
  <2>3. LookAgain \/ Fine \/ LearnId \/ Rename \/ ReadIssues \/ Follow \/ ReadLists \/ Intend \/ RenameList
          => row' = row /\ todo' = todo /\ pc \notin {"idle", "look"}
    BY <1>1 DEF LookAgain, Fine, LearnId, Rename, ReadIssues, Follow, ReadLists, Intend, RenameList,
       Judged, Ready, Listed, At, round
  <2> QED BY <1>1, <1>2, <2>1, <2>2, <2>3
          DEF RoundStep, Hold, LinkGone, Resume, Keep, WaitHour, Refused, Finish
<1>3. ~FaultStep
  BY <1>1 DEF FaultStep, RoundLost, RowFails, RefusesName
<1>4. CASE UserStep \/ PullLists \/ GithubStep \/ HourPasses \/ MonthPasses \/ UNCHANGED vars
  <2>1. UNCHANGED <<pc, round>>
    BY <1>4 DEF UserStep, PullLists, GithubStep, HourPasses, MonthPasses, LinkRepo, Unlink,
       CallList, DeleteList, SetFollow, Calm, HubRenames, HubCreates, HubDeletes, HubStep, Resting, vars
  <2> QED BY <2>1 DEF round
<1> QED BY <1>2, <1>3, <1>4 DEF Next

\* Each place of a round is come to by one step.
LEMMA RoundEnters ==
  ASSUME [Next]_vars, pc' # pc
  PROVE  /\ pc' \in {"again", "looked"} => Look \/ LookAgain
         /\ pc' = "lists" => Follow
         /\ pc' = "listed" => ReadLists
         /\ pc' = "rename" => Intend
         /\ pc' = "renamed" => RenameList
<1>1. RowDone \/ EndRound => pc' \in {"idle", "look"}
  BY DEF RowDone, EndRound
<1>2. CASE RoundStep
  <2>1. LearnId \/ Rename \/ Fine \/ ReadIssues \/ BeginRound => pc' \in {"issues", "follow", "look", "idle"}
    BY <1>1 DEF LearnId, Rename, Fine, ReadIssues, BeginRound
  <2>2. Hold \/ LinkGone \/ Resume \/ Keep \/ WaitHour \/ Refused \/ Finish => pc' \in {"idle", "look"}
    BY <1>1 DEF Hold, LinkGone, Resume, Keep, WaitHour, Refused, Finish
  <2>3. /\ Follow => pc' \in {"idle", "look", "lists"}
        /\ Look => pc' \in {"again", "looked"}
        /\ ReadLists => pc' = "listed"
        /\ Intend => pc' = "rename"
        /\ RenameList => pc' = "renamed"
    BY <1>1 DEF Follow, Look, ReadLists, Intend, RenameList
  <2>4. LookAgain => pc' = "looked"
    BY DEF LookAgain
  <2>5. NotLinked => pc' = pc
    BY DEF NotLinked, vars
  <2> QED BY <1>2, <2>1, <2>2, <2>3, <2>4, <2>5 DEF RoundStep
<1>3. CASE FaultStep
  BY <1>1, <1>3 DEF FaultStep, RoundLost, RowFails, RefusesName
<1>4. ~(UserStep \/ PullLists \/ GithubStep \/ HourPasses \/ MonthPasses \/ UNCHANGED vars)
  BY DEF UserStep, PullLists, GithubStep, HourPasses, MonthPasses, LinkRepo, Unlink, CallList,
     DeleteList, SetFollow, Calm, HubRenames, HubCreates, HubDeletes, HubStep, Resting, vars
<1> QED BY <1>2, <1>3, <1>4 DEF Next

\* The link with a row's name is the row's.
LEMMA RowsLink ==
  ASSUME Typed, OneLinkPerRepo, RowsCurrent, pc = "looked"
  PROVE  /\ LinkOf(row.repo) = {row.list} /\ row.list \in Lists /\ row.repo \in Names
         /\ links[row.list].repo = row.repo /\ links[row.list].id = row.id
         /\ \A r \in todo : r.list # row.list
<1>1. row \in Ahead /\ row.list \in Lists /\ row.repo \in Names
  BY DEF Ahead, Typed, RoundTyped
<1>2. links[row.list].repo = row.repo /\ links[row.list].id = row.id
  BY <1>1 DEF RowsCurrent
<1>3. LinkOf(row.repo) = {row.list}
  BY <1>1, <1>2, NotNames DEF LinkOf, Linked, OneLinkPerRepo
<1> QED BY <1>1, <1>2, <1>3 DEF RowsCurrent

LEMMA RowsCurrentStep ==
  ASSUME Typed, OneLinkPerRepo, RowsCurrent, ListsCurrent, [Next]_vars, ~meddled', ~crossed'
  PROVE  RowsCurrent'
<1>1. CASE BeginRound
  <2>1. /\ Ahead' = {[list |-> l, repo |-> links[l].repo, id |-> links[l].id] : l \in Linked}
        /\ UNCHANGED links /\ pc' = "look"
    BY <1>1 DEF BeginRound, Ahead, store
  <2> QED BY <2>1 DEF RowsCurrent
<1>2. CASE Look
  <2>1. PICK r \in todo : row' = r /\ todo' = todo \ {r} /\ pc = "look"
    BY <1>2 DEF Look, At
  <2>2. UNCHANGED links
    BY <1>2 DEF Look, store
  <2>3. Ahead' \subseteq Ahead /\ todo \subseteq Ahead
    BY <1>2, AheadShrinks DEF Look, BeginRound, At, Ahead
  <2>4. ASSUME NEW k \in todo \ {r} PROVE k.list # r.list
    <3>1. k \in RowType /\ r \in RowType
      BY DEF Typed, RoundTyped
    <3>2. k.list = r.list => k = r
      BY <2>3, <3>1 DEF RowsCurrent, RowType
    <3> QED BY <2>4, <3>2
  <2> QED BY <2>1, <2>2, <2>3, <2>4 DEF RowsCurrent
<1>3. CASE ~BeginRound /\ ~Look
  <2>1. Ahead' \subseteq Ahead
    BY <1>3, AheadShrinks
  <2>2. pc' \notin {"idle", "look"} => \A r \in todo' : r.list # row'.list
    BY <1>3, RowKept DEF RowsCurrent
  <2>3. ASSUME NEW r \in Ahead'
        PROVE  links'[r.list].repo = r.repo /\ links'[r.list].id = r.id
    <3>1. links[r.list].repo = r.repo /\ links[r.list].id = r.id /\ r.list \in Lists
      BY <2>1 DEF RowsCurrent, Ahead, Typed, RoundTyped
    <3>2. CASE LinksSame
      BY <3>1, <3>2 DEF LinksSame
    <3>3. CASE (LearnId \/ Rename) /\ links' # links
      <4>1. pc = "looked" /\ pc' \notin {"again", "looked"} /\ todo' = todo
        <5>1. ~(RowDone /\ UNCHANGED <<links, since>>)
          BY <3>3
        <5> QED BY <3>3, <5>1, VerdictLinks DEF Typed, LearnId, Rename, Judged, At, round
      <4>2. r \in todo
        BY <4>1 DEF Ahead
      <4>3. r.list \notin LinkOf(row.repo)
        BY <4>1, <4>2, RowsLink
      <4> QED BY <3>1, <3>3, <4>3, JudgedLinks
    <3>4. pc' # "idle"
      <4>1. (pc' = "idle" => todo' = {}) /\ (pc' = "idle" => Ahead' = {})
        BY TypedStep DEF Ahead, Typed, RoundTyped
      <4> QED BY <2>3, <4>1
    <3> QED BY <3>2, <3>3, <3>4, CalmLinks
  <2> QED BY <2>2, <2>3 DEF RowsCurrent
<1> QED BY <1>1, <1>2, <1>3

LEMMA ListsCurrentStep ==
  ASSUME Typed, ListsCurrent, [Next]_vars, ~meddled', ~crossed'
  PROVE  ListsCurrent'
<1>1. CASE RenameList
  <2>1. /\ names' = [names EXCEPT ![row.list] = Short[work.repo]] /\ pc' = "renamed"
        /\ Short[work.repo] \in Labels
    BY <1>1, ShortAssumption DEF RenameList, At, Typed, WorkTyped, Asking
  <2> QED BY <2>1, NotNames DEF ListsCurrent, Typed, StoreTyped
<1>2. ~RenameList => names' = names
  BY DEF Next, RoundStep, FaultStep, UserStep, GithubStep, NotLinked, BeginRound, Look, LookAgain,
     Hold, Fine, LearnId, Rename, ReadIssues, Follow, ReadLists, LinkGone, Resume, Keep, WaitHour,
     Intend, Refused, Finish, RoundLost, RowFails, RefusesName, HourPasses, MonthPasses, PullLists,
     LinkRepo, Unlink, CallList, DeleteList, SetFollow, HubRenames, HubCreates, HubDeletes, HubStep,
     Resting, vars
<1>3. ASSUME pc' \in {"listed", "rename"}, ~RenameList
      PROVE  listing' = names'
  <2>1. CASE pc' = pc
    BY <1>3, <2>1, CalmPause DEF ListsCurrent, round
  <2>2. CASE ReadLists
    BY <1>2, <1>3, <2>2 DEF ReadLists
  <2>3. CASE Intend
    BY <1>2, <1>3, <2>3 DEF ListsCurrent, Intend, Ready, Listed, At
  <2>4. pc' = pc \/ ReadLists \/ Intend
    BY <1>3, RoundEnters
  <2> QED BY <2>1, <2>2, <2>3, <2>4
<1> QED BY <1>1, <1>2, <1>3 DEF ListsCurrent

LEMMA SinceSame ==
  ASSUME [Next]_vars
  PROVE  \/ since' = since \/ LearnId \/ Rename \/ GithubStep
         \/ \E l \in Lists, n \in Names : LinkRepo(l, n)
<1>1. RoundStep => since' = since \/ LearnId \/ Rename
  BY DEF RoundStep, NotLinked, BeginRound, Look, LookAgain, Hold, Fine, ReadIssues, Follow, ReadLists,
     LinkGone, Resume, Keep, WaitHour, Intend, RenameList, Refused, Finish, ghosts, vars
<1>2. FaultStep \/ HourPasses \/ MonthPasses \/ PullLists \/ UNCHANGED vars => since' = since
  BY DEF FaultStep, RoundLost, RowFails, RefusesName, HourPasses, MonthPasses, Resting, PullLists,
     ghosts, vars
<1>3. UserStep => since' = since \/ \E l \in Lists, n \in Names : LinkRepo(l, n)
  BY DEF UserStep, Unlink, CallList, DeleteList, SetFollow, ghosts
<1> QED BY <1>1, <1>2, <1>3 DEF Next

\* What was seen of the row's repo is a name it had.
SeenSince ==
  /\ pc = "looked" /\ row.id # Nobody /\ seen.kind = "record" /\ seen.id = row.id
     => seen.name \in since[row.list]
  /\ pc = "looked" /\ seen.kind = "record" => hub[seen.id] # None

KnownSince == \A l \in Lists : IF links[l].id = Nobody THEN links[l].from = None ELSE LinkSince(l)

LEMMA NamesSinceParts ==
  /\ NamesSince <=> KnownSince /\ SeenSince
  /\ NamesSince' <=> KnownSince' /\ SeenSince'
BY DEF NamesSince, KnownSince, SeenSince

LEMMA SeenSinceStep ==
  ASSUME Typed, RowsCurrent, ListsCurrent, KnownSince, SeenSince, [Next]_vars, ~meddled', ~crossed'
  PROVE  SeenSince'
<1> USE DEF Typed
<1>1. SUFFICES ASSUME pc' = "looked" PROVE SeenSince'
  BY DEF SeenSince
<1>2. CASE Look
  <2>1. PICK r \in todo : row' = r /\ seen' = IF r.id = Nobody THEN ByName(r.repo) ELSE ById(r.id)
    BY <1>2 DEF Look
  <2>2. r.list \in Lists /\ r.repo \in Names /\ r.id \in Repos \cup {Nobody} /\ r \in Ahead
    BY DEF RoundTyped, RowType, Ahead
  <2>3. UNCHANGED <<hub, since>> /\ links[r.list].id = r.id
    BY <1>2, <2>2 DEF Look, At, github, ghosts, RowsCurrent
  <2>4. seen'.kind = "record" => hub[seen'.id] = seen'.name /\ seen'.name \in Names
    BY <2>1, <2>2, ByNameReturns, ByIdReturns
  <2>5. r.id # Nobody => hub[r.id] \in since[r.list] \cup {Gone}
    BY <2>2, <2>3 DEF KnownSince, LinkSince
  <2> QED BY <2>1, <2>3, <2>4, <2>5, NotNames DEF SeenSince
<1>3. CASE LookAgain
  <2>1. /\ row' = row /\ UNCHANGED <<hub, since>> /\ pc = "again"
        /\ seen' = IF row.id = Nobody THEN ById(seen.id) ELSE ByName(row.repo)
    BY <1>3 DEF LookAgain, At, github, ghosts
  <2>2. row \in Ahead /\ row.list \in Lists /\ row.repo \in Names /\ Again(row, seen)
        /\ (seen.kind = "moved" => seen.id \in Repos)
    BY <2>1 DEF Ahead, RoundTyped
  <2>3. seen'.kind = "record" => hub[seen'.id] = seen'.name /\ seen'.name \in Names
    BY <2>1, <2>2, ByNameReturns, ByIdReturns DEF Again
  <2>4. links[row.list].id = row.id
    BY <2>2 DEF RowsCurrent
  <2>5. row.id # Nobody => hub[row.id] \in since[row.list] \cup {Gone}
    BY <2>2, <2>4 DEF KnownSince, LinkSince
  <2> QED BY <2>1, <2>3, <2>5, NotNames DEF SeenSince
<1>4. CASE pc' = pc
  <2>1. row' = row /\ seen' = seen /\ row.list \in Lists
    BY <1>1, <1>4, CalmPause DEF round, RoundTyped
  <2>2. CASE UNCHANGED <<hub, since>>
    BY <1>4, <2>1, <2>2 DEF SeenSince
  <2>3. CASE GithubStep
    <3>1. since[row.list] \subseteq since'[row.list]
      BY <2>1, <2>3 DEF GithubStep, HubRenames, HubCreates, HubDeletes, GhostTyped
    <3>2. \A r \in Repos : hub[r] # None => hub'[r] # None
      BY <2>3, NotNames DEF GithubStep, HubRenames, HubCreates, HubDeletes, HubType
    <3>3. seen.kind = "record" => seen.id \in Repos
      BY DEF RoundTyped
    <3> QED BY <1>4, <2>1, <3>1, <3>2, <3>3 DEF SeenSince
  <2>4. CASE SetFollow
    BY <1>4, <2>1, <2>4 DEF SeenSince, SetFollow, Calm, github, ghosts
  <2> QED BY <1>1, <1>4, <2>2, <2>3, <2>4, CalmPause
<1> QED BY <1>1, <1>2, <1>3, <1>4, RoundEnters

LEMMA KnownSinceStep ==
  ASSUME Typed, OneLinkPerRepo, RowsCurrent, ListsCurrent, KnownSince, SeenSince, [Next]_vars,
         ~meddled', ~crossed'
  PROVE  KnownSince'
<1> USE DEF Typed
<1>1. SUFFICES ASSUME NEW l \in Lists
               PROVE  IF links'[l].id = Nobody THEN links'[l].from = None ELSE LinkSince(l)'
  BY DEF KnownSince
<1>2. links \in [Lists -> LinkType] /\ hub \in [Repos -> Names \cup {None, Gone}]
  BY DEF LinksTyped, HubType
<1>3. ASSUME links'[l].repo = links[l].repo, links'[l].id = links[l].id,
             links'[l].from \in {links[l].from, None}, since[l] \subseteq since'[l],
             links[l].id # Nobody =>
               hub'[links[l].id] = hub[links[l].id] \/ hub'[links[l].id] \in since'[l] \cup {Gone}
      PROVE  IF links'[l].id = Nobody THEN links'[l].from = None ELSE LinkSince(l)'
  <2>1. CASE links[l].id = Nobody
    BY <1>3, <2>1 DEF KnownSince
  <2>2. CASE links[l].id # Nobody
    BY <1>3, <2>2 DEF KnownSince, LinkSince
  <2> QED BY <2>1, <2>2
<1>4. CASE GithubStep
  <2>1. links' = links
    BY <1>4 DEF GithubStep, HubRenames, HubCreates, HubDeletes, HubStep, store
  <2>2. links[l].id \in Repos \cup {Nobody} /\ (links[l].id # Nobody => l \in Linked)
    BY <1>2 DEF LinkType, LinksTyped, NoLink, Linked
  <2>3. since[l] \subseteq since'[l]
    BY <1>4 DEF GithubStep, HubRenames, HubCreates, HubDeletes, GhostTyped
  <2>4. links[l].id # Nobody => hub[links[l].id] # None
    BY <2>2, NotNames DEF KnownSince, LinkSince, GhostTyped
  <2>5. links[l].id # Nobody =>
          hub'[links[l].id] = hub[links[l].id] \/ hub'[links[l].id] \in since'[l] \cup {Gone}
    <3>1. ASSUME NEW r \in Repos, HubDeletes(r) \/ \E n \in Names : HubCreates(r, n), links[l].id # Nobody
          PROVE  hub'[links[l].id] = hub[links[l].id] \/ hub'[links[l].id] \in since'[l] \cup {Gone}
      BY <1>2, <2>2, <2>4, <3>1 DEF HubDeletes, HubCreates
    <3>2. ASSUME NEW r \in Repos, NEW n \in Names, HubRenames(r, n), links[l].id # Nobody
          PROVE  hub'[links[l].id] = hub[links[l].id] \/ hub'[links[l].id] \in since'[l] \cup {Gone}
      <4>1. CASE links[l].id = r
        <5>1. since'[l] = since[l] \cup {n} /\ hub'[r] = n
          BY <1>2, <2>2, <3>2, <4>1 DEF HubRenames
        <5> QED BY <4>1, <5>1
      <4>2. CASE links[l].id # r
        BY <1>2, <2>2, <3>2, <4>2 DEF HubRenames
      <4> QED BY <4>1, <4>2
    <3> QED BY <1>4, <3>1, <3>2 DEF GithubStep
  <2> QED BY <1>3, <2>1, <2>3, <2>5
<1>5. ASSUME NEW i \in Lists, NEW n \in Names, LinkRepo(i, n)
      PROVE  IF links'[l].id = Nobody THEN links'[l].from = None ELSE LinkSince(l)'
  <2>1. links' = [links EXCEPT ![i] = [NoLink EXCEPT !.repo = n]] /\ UNCHANGED hub
        /\ since' = [since EXCEPT ![i] = {}]
    BY <1>5 DEF LinkRepo, Calm, github
  <2>2. CASE l = i
    BY <1>2, <2>1, <2>2 DEF NoLink
  <2>3. CASE l # i
    BY <1>2, <1>3, <2>1, <2>3 DEF GhostTyped
  <2> QED BY <2>2, <2>3
<1>6. CASE (LearnId \/ Rename) /\ ~(RowDone /\ UNCHANGED <<links, since>>)
  <2>1. /\ pc = "looked" /\ seen.kind = "record" /\ UNCHANGED hub
        /\ seen.id \in Repos /\ seen.name \in Names
    BY <1>6, VerdictSeen DEF LearnId, Rename, Judged, At, RoundTyped, github
  <2>2. /\ LinkOf(row.repo) = {row.list} /\ row.list \in Lists /\ row.repo \in Names
        /\ links[row.list].repo = row.repo /\ links[row.list].id = row.id
    BY <2>1, RowsLink
  <2>3. hub[seen.id] \in Names \cup {Gone}
    BY <1>2, <2>1 DEF SeenSince
  <2>4. CASE l # row.list
    <3>1. links'[l] = links[l] /\ since'[l] = since[l]
      BY <1>6, <2>2, <2>4, VerdictLinks
    <3> QED BY <1>3, <2>1, <3>1
  <2>5. CASE l = row.list /\ LearnId
    <3>1. row.id = Nobody /\ seen.name = row.repo
      BY <2>5, VerdictSeen DEF LearnId
    <3>2. links'[l] = [links[l] EXCEPT !.id = seen.id] /\ since'[l] = NamesNow(row.repo)
      BY <1>6, <2>2, <2>5, <3>1, VerdictLinks
    <3>3. links'[l].repo = row.repo /\ links'[l].id = seen.id /\ links'[l].from = None
      BY <1>2, <2>2, <2>5, <3>1, <3>2 DEF LinkType, KnownSince
    <3> QED BY <2>1, <2>2, <2>3, <3>2, <3>3, NotNames DEF LinkSince, NamesNow
  <2>6. CASE l = row.list /\ Rename
    <3>1. row.id \in {Nobody, seen.id} /\ seen.name # row.repo
      BY <2>6, VerdictSeen DEF Rename
    <3>2. /\ links'[l] = Moved(links[l], row.id # Nobody)
          /\ since'[l] = IF row.id = Nobody THEN NamesNow(seen.name) ELSE since[l]
      BY <1>6, <2>2, <2>6, VerdictLinks
    <3>3. /\ links'[l].repo = seen.name
          /\ links'[l].id = IF row.id = Nobody THEN seen.id ELSE row.id
          /\ links'[l].from = IF row.id # Nobody /\ links[l].from = None THEN row.repo ELSE links[l].from
      BY <2>1, <2>2, <2>6, <3>2, MovedReturns
    <3>4. CASE row.id = Nobody
      <4>1. links[l].from = None
        BY <2>2, <2>6, <3>4 DEF KnownSince
      <4> QED BY <2>1, <2>3, <3>2, <3>3, <3>4, <4>1, NotNames DEF LinkSince, NamesNow
    <3>5. CASE row.id # Nobody
      <4>1. seen.name \in since[l] /\ LinkSince(l) /\ seen.id = row.id
        BY <2>1, <2>2, <2>6, <3>1, <3>5 DEF KnownSince, SeenSince
      <4> QED BY <2>1, <2>2, <2>6, <3>2, <3>3, <3>5, <4>1 DEF LinkSince
    <3> QED BY <3>4, <3>5
  <2> QED BY <1>6, <2>4, <2>5, <2>6
<1>7. CASE since' = since /\ hub' = hub /\ LinksSame
  BY <1>3, <1>7 DEF LinksSame
<1>8. UNCHANGED links => LinksSame
  BY DEF LinksSame
<1> QED BY <1>4, <1>5, <1>6, <1>7, <1>8, CalmLinks, SinceSame, HistoryGrows DEF github

LEMMA WorkAllowedStep ==
  ASSUME Typed, ListsCurrent, WorkAllowed, [Next]_vars, ~meddled', ~crossed'
  PROVE  WorkAllowed'
<1>1. SUFFICES ASSUME Asking' PROVE WorkAllowed'
  BY DEF WorkAllowed, Asking
<1>2. CASE pc' = pc
  <2>1. UNCHANGED <<names, links, log, round, meant, deeds>>
    BY <1>1, <1>2, CalmPause DEF Asking
  <2> QED BY <1>2, <2>1 DEF WorkAllowed, Asking, Marker, Linked, Clash, round
<1>3. CASE Follow
  <2>1. ~RowDone
    BY <1>1 DEF RowDone, Asking
  <2>2. /\ Marker(row.list) /\ UNCHANGED <<links, row>> /\ pc' = "lists"
        /\ work'.old = links[row.list].from /\ work'.repo = links[row.list].repo
    BY <1>3, <2>1 DEF Follow
  <2> QED BY <2>2 DEF WorkAllowed, Marker, Linked
<1>4. CASE ReadLists
  <2>1. pc = "lists" /\ pc' = "listed" /\ UNCHANGED <<links, row, work>>
    BY <1>4 DEF ReadLists, At, store
  <2> QED BY <2>1 DEF WorkAllowed, Asking, Marker, Linked
<1>5. CASE Intend
  <2>1. /\ pc = "listed" /\ links' = Adopted /\ UNCHANGED <<row, listing>>
        /\ MayTakeName(Link.repo) /\ Listed
    BY <1>5 DEF Intend, Ready, Listed, At
  <2>2. links' = links /\ Link = links[row.list]
    BY <2>1, AdoptedCalm, LinkTyped DEF Typed
  <2>3. work'.old = work.old /\ work'.repo = Link.repo
    BY <1>5, IntendReturns
  <2>4. /\ Marker(row.list) /\ work.old = links[row.list].from /\ work.repo = links[row.list].repo
    BY <2>1 DEF WorkAllowed, Asking
  <2>5. Marker(row.list)'
    BY <2>1, <2>2, <2>4 DEF Marker, Linked
  <2>6. listing[row.list] = Short[work.old] /\ row.list \notin Fixed /\ ~Clash(Link.repo)
    BY <2>1 DEF MayTakeName
  <2> QED BY <2>1, <2>2, <2>3, <2>4, <2>5, <2>6 DEF WorkAllowed, Clash
<1>6. CASE RenameList
  <2>1. pc = "rename" /\ pc' = "renamed" /\ UNCHANGED <<links, row, work>>
    BY <1>6 DEF RenameList, At, store, round
  <2> QED BY <2>1 DEF WorkAllowed, Asking, Marker, Linked
<1> QED BY <1>1, <1>2, <1>3, <1>4, <1>5, <1>6, RoundEnters DEF Asking

LEMMA CalmStep ==
  ASSUME Typed, OneLinkPerRepo, CalmHolds, [Next]_vars
  PROVE  CalmHolds'
<1>1. SUFFICES ASSUME ~meddled', ~crossed'
               PROVE  RowsCurrent' /\ ListsCurrent' /\ NamesSince' /\ WorkAllowed'
  BY DEF CalmHolds
<1>2. ~meddled /\ ~crossed
  BY <1>1, HistoryGrows
<1>3. RowsCurrent /\ ListsCurrent /\ NamesSince /\ WorkAllowed
  BY <1>2 DEF CalmHolds
<1>4. KnownSince /\ SeenSince
  BY <1>3, NamesSinceParts
<1>5. SeenSince'
  BY <1>1, <1>3, <1>4, SeenSinceStep
<1>6. KnownSince'
  BY <1>1, <1>3, <1>4, KnownSinceStep
<1> QED BY <1>1, <1>3, <1>5, <1>6, RowsCurrentStep, ListsCurrentStep, WorkAllowedStep, NamesSinceParts

-----------------------------------------------------------------------------
(* With one change on GitHub: an intent that was taken is found done. *)

\* The step that tells what became of the intent in hand.
Tells(i, kind) ==
  /\ i = work.intent /\ Asking
  /\ \/ kind = "renamed" /\ (Resume \/ Finish)
     \/ kind = "kept" /\ (Keep \/ Refused \/ RefusesName)

\* A row of the log keeps what it is of; its kind changes when that is told, or when
\* another intent of its list is written.
RowGoesOn(i) ==
  /\ log'[i].list = log[i].list /\ log'[i].repo = log[i].repo
  /\ log'[i].old = log[i].old /\ log'[i].to = log[i].to
  /\ \/ log'[i].kind = log[i].kind
     \/ Tells(i, log'[i].kind)
     \/ Intend /\ work.intent = 0 /\ Begun(i) /\ log[i].list = row.list

LEMMA LogGoesOn ==
  ASSUME Typed, [Next]_vars
  PROVE  /\ \A i \in DOMAIN log : i \in DOMAIN log' /\ RowGoesOn(i)
         /\ \A i \in DOMAIN log' : \/ i \in DOMAIN log
                                   \/ /\ Intend /\ work.intent = 0 /\ i = work'.intent
                                      /\ log'[i] = Intent
<1>1. log \in Seq(LogType) /\ work.intent \in DOMAIN log \cup {0}
  BY DEF Typed, LogTyped
<1>2. CASE UNCHANGED log
  BY <1>2 DEF RowGoesOn
<1>3. ASSUME NEW kind \in {"renamed", "kept"}, log' = Ended(work.intent, kind), Tells(work.intent, kind)
      PROVE  DOMAIN log' = DOMAIN log /\ \A i \in DOMAIN log : RowGoesOn(i)
  <2>1. /\ DOMAIN log' = DOMAIN log
        /\ \A j \in DOMAIN log : log'[j] = IF j = work.intent THEN [log[j] EXCEPT !.kind = kind] ELSE log[j]
    <3>1. kind \in {"renaming", "renamed", "kept"}
      OBVIOUS
    <3>2. /\ DOMAIN Ended(work.intent, kind) = DOMAIN log
          /\ \A j \in DOMAIN log :
               Ended(work.intent, kind)[j] =
                 IF j = work.intent THEN [log[j] EXCEPT !.kind = kind] ELSE log[j]
      BY <1>1, <3>1, EndedReturns, Zenon
    <3> QED BY <1>3, <3>2
  <2>2. ASSUME NEW i \in DOMAIN log PROVE RowGoesOn(i)
    <3>1. log[i] \in LogType
      BY <1>1
    <3>2. CASE i = work.intent
      <4>1. log'[i] = [log[i] EXCEPT !.kind = kind]
        BY <2>1, <3>2
      <4>2. /\ log'[i].list = log[i].list /\ log'[i].repo = log[i].repo /\ log'[i].old = log[i].old
            /\ log'[i].to = log[i].to /\ log'[i].kind = kind
        BY <3>1, <4>1 DEF LogType
      <4> QED BY <1>3, <3>2, <4>2 DEF RowGoesOn
    <3>3. CASE i # work.intent
      BY <2>1, <3>3 DEF RowGoesOn
    <3> QED BY <3>2, <3>3
  <2> QED BY <2>1, <2>2
<1>4. CASE Resume \/ Finish
  <2>1. log' = Ended(work.intent, "renamed") /\ Tells(work.intent, "renamed")
    BY <1>4 DEF Resume, Finish, Listed, At, Tells, Asking
  <2> QED BY <1>3, <2>1
<1>5. CASE Keep \/ Refused \/ RefusesName
  <2>1. log' = log \/ (log' = Ended(work.intent, "kept") /\ Tells(work.intent, "kept"))
    BY <1>5 DEF Keep, Refused, RefusesName, Listed, At, Tells, Asking
  <2> QED BY <1>2, <1>3, <2>1
<1>6. CASE HourPasses \/ MonthPasses
  <2>1. log' = [i \in DOMAIN log |-> [log[i] EXCEPT !.recent = FALSE]]
    BY <1>6 DEF HourPasses, MonthPasses
  <2>2. ASSUME NEW i \in DOMAIN log PROVE RowGoesOn(i)
    <3>1. log[i] \in LogType
      BY <1>1
    <3> QED BY <2>1, <3>1 DEF RowGoesOn, LogType
  <2> QED BY <2>1, <2>2
<1>7. CASE Intend /\ work.intent # 0
  BY <1>2, <1>7, IntendReturns
<1>8. CASE Intend /\ work.intent = 0
  <2>1. /\ Len(log') = Len(log) + 1 /\ log'[Len(log')] = Intent /\ work'.intent = Len(log')
        /\ \A i \in DOMAIN log : log'[i] = Superseded[i]
        /\ log' \in Seq(LogType)
    BY <1>8, IntendReturns
  <2>2. DOMAIN log = 1 .. Len(log) /\ DOMAIN log' = 1 .. (Len(log) + 1) /\ Len(log) \in Nat
    BY <1>1, <2>1
  <2>3. ASSUME NEW i \in DOMAIN log PROVE RowGoesOn(i)
    <3>1. log[i] \in LogType
      BY <1>1
    <3>2. log'[i] = IF log[i].kind = "renaming" /\ log[i].list = row.list
                    THEN [log[i] EXCEPT !.kind = "kept"] ELSE log[i]
      BY <1>1, <2>1, SupersededReturns
    <3>3. CASE log[i].kind = "renaming" /\ log[i].list = row.list
      <4>1. log'[i] = [log[i] EXCEPT !.kind = "kept"]
        BY <3>2, <3>3
      <4> QED BY <1>8, <3>1, <3>3, <4>1 DEF RowGoesOn, LogType, Begun
    <3>4. CASE ~(log[i].kind = "renaming" /\ log[i].list = row.list)
      BY <3>2, <3>4 DEF RowGoesOn
    <3> QED BY <3>3, <3>4
  <2> QED BY <1>8, <2>1, <2>2, <2>3
<1>9. \/ Resume \/ Finish \/ Keep \/ Refused \/ RefusesName \/ HourPasses \/ MonthPasses \/ Intend
      \/ UNCHANGED log
  BY DEF Next, RoundStep, FaultStep, UserStep, GithubStep, NotLinked, BeginRound, Look, LookAgain,
     Hold, Fine, LearnId, Rename, ReadIssues, Follow, ReadLists, LinkGone, WaitHour, RenameList,
     RoundLost, RowFails, PullLists, LinkRepo, Unlink, CallList, DeleteList, SetFollow, HubRenames,
     HubCreates, HubDeletes, HubStep, store, vars
<1> QED BY <1>2, <1>4, <1>5, <1>6, <1>7, <1>8, <1>9

\* Changes on GitHub are counted, and nothing else is.
LEMMA HubStill ==
  ASSUME Typed, [Next]_vars
  PROVE  \/ UNCHANGED github /\ used'.hub = used.hub
         \/ used'.hub = used.hub + 1 /\ UNCHANGED <<names, links, log, pc, round, deeds>>
<1>1. used \in [hub : Nat, user : Nat, fault : Nat]
  BY DEF Typed, GhostTyped
<1>2. CASE GithubStep
  <2>1. Hub /\ UNCHANGED <<names, links, log, pc, round, deeds>>
    BY <1>2 DEF GithubStep, HubRenames, HubCreates, HubDeletes, HubStep, store
  <2> QED BY <1>1, <2>1, UsedTyped
<1>3. CASE UserStep \/ FaultStep
  <2>1. used' = used \/ User \/ Fault
    BY <1>3 DEF UserStep, FaultStep, LinkRepo, Unlink, CallList, DeleteList, SetFollow, RoundLost,
       RowFails, RefusesName
  <2>2. UNCHANGED github
    BY <1>3 DEF UserStep, FaultStep, LinkRepo, Unlink, CallList, DeleteList, SetFollow, RoundLost,
       RowFails, RefusesName, Calm
  <2> QED BY <1>1, <2>1, <2>2, UsedTyped
<1>4. CASE RoundStep \/ PullLists \/ HourPasses \/ MonthPasses \/ UNCHANGED vars
  BY <1>4 DEF RoundStep, NotLinked, BeginRound, Look, LookAgain, Hold, Fine, LearnId, Rename,
     ReadIssues, Follow, ReadLists, LinkGone, Resume, Keep, WaitHour, Intend, RenameList, Refused,
     Finish, Ready, Listed, Judged, At, PullLists, Calm, HourPasses, MonthPasses, Resting, vars
<1> QED BY <1>2, <1>3, <1>4 DEF Next

\* A marker leads from the name the repo had first to the one it has.
LEMMA MarkerKnown ==
  ASSUME Typed, KnownSince, TwoNames, NEW l \in Lists, Marker(l)
  PROVE  /\ links[l].id \in Repos /\ links[l].from = Born[links[l].id]
         /\ links[l].repo = hub[links[l].id]
<1>1. links[l] \in LinkType /\ links[l].from # None
  BY DEF Marker, Typed, LinksTyped
<1>2. links[l].id # Nobody
  BY <1>1 DEF KnownSince
<1> QED BY <1>1, <1>2 DEF TwoNames, LinkType

LEMMA TwoNamesStep ==
  ASSUME Typed, OneLinkPerRepo, RowsCurrent, ListsCurrent, KnownSince, WorkAllowed, TwoNames,
         [Next]_vars, ~meddled', ~crossed', used'.hub <= 1
  PROVE  TwoNames'
<1> USE DEF Typed
<1>1. used.hub \in Nat /\ links \in [Lists -> LinkType]
  BY DEF GhostTyped, LinksTyped
<1>2. CASE used'.hub = used.hub + 1 /\ UNCHANGED <<names, links, log, pc, round, deeds>>
  <2>1. used.hub = 0 /\ used'.hub # 0
    BY <1>1, <1>2
  <2>2. hub = Born /\ Untouched
    BY <2>1 DEF TwoNames
  <2>3. Untouched'
    BY <1>2, <2>2 DEF Untouched
  <2>4. pc' = "looked" /\ seen'.kind = "record" => Untouched' /\ seen'.name = Born[seen'.id]
    BY <1>2, <2>2, <2>3 DEF TwoNames, round
  <2>5. \A l \in Lists : links'[l].from = None
          /\ (links'[l].id # Nobody => links'[l].repo = Born[links'[l].id])
    BY <2>3 DEF Untouched
  <2> QED BY <2>1, <2>4, <2>5 DEF TwoNames
<1>3. CASE UNCHANGED github /\ used'.hub = used.hub
  <2>1. hub' = hub
    BY <1>3 DEF github
  <2>2. pc' = "looked" /\ seen'.kind = "record" =>
          seen'.name = hub[seen'.id] \/ (Untouched' /\ seen'.name = Born[seen'.id])
    <3>1. SUFFICES ASSUME pc' = "looked", seen'.kind = "record"
                   PROVE  seen'.name = hub[seen'.id] \/ (Untouched' /\ seen'.name = Born[seen'.id])
      OBVIOUS
    <3>2. CASE Look
      <4>1. PICK r \in todo : seen' = IF r.id = Nobody THEN ByName(r.repo) ELSE ById(r.id)
        BY <3>2 DEF Look
      <4>2. r.repo \in Names /\ r.id \in Repos \cup {Nobody}
        BY DEF RoundTyped, RowType
      <4> QED BY <3>1, <4>1, <4>2, ByNameReturns, ByIdReturns
    <3>3. CASE LookAgain
      <4>1. /\ row.repo \in Names /\ (row.id = Nobody => seen.id \in Repos)
            /\ seen' = IF row.id = Nobody THEN ById(seen.id) ELSE ByName(row.repo)
        BY <3>3 DEF LookAgain, At, RoundTyped, Again
      <4> QED BY <3>1, <4>1, ByNameReturns, ByIdReturns
    <3>4. CASE pc' = pc
      <4>1. UNCHANGED <<names, links, log, round, meant, deeds>>
        BY <3>1, <3>4, CalmPause
      <4> QED BY <3>1, <3>4, <4>1 DEF TwoNames, Untouched, round
    <3> QED BY <3>1, <3>2, <3>3, <3>4, RoundEnters
  <2>3. ASSUME NEW l \in Lists, links'[l].id # Nobody
        PROVE  /\ links'[l].repo \in {Born[links'[l].id], hub[links'[l].id]}
               /\ links'[l].from # None =>
                    links'[l].from = Born[links'[l].id] /\ links'[l].repo = hub[links'[l].id]
    <3>1. CASE LinksSame
      BY <2>3, <3>1 DEF LinksSame, TwoNames
    <3>2. CASE (LearnId \/ Rename) /\ links' # links
      <4>1. CASE l \notin LinkOf(row.repo)
        BY <2>3, <3>2, <4>1, JudgedLinks DEF TwoNames
      <4>2. CASE l \in LinkOf(row.repo)
        <5>1. /\ pc = "looked" /\ seen.kind = "record"
              /\ seen.name = hub[seen.id] \/ (Untouched /\ seen.name = Born[seen.id])
          BY <3>2, JudgedLinks DEF TwoNames
        <5>2. l = row.list /\ links[l].repo = row.repo /\ links[l].id = row.id
          BY <4>2, <5>1, RowsLink
        <5>3. CASE row.id = Nobody
          <6>1. links[l].from = None
            BY <5>2, <5>3 DEF KnownSince
          <6>2. links'[l].id = seen.id /\ links'[l].repo \in {seen.name, row.repo}
            BY <3>2, <4>2, <5>2, <5>3, JudgedLinks
          <6>3. links'[l].repo = seen.name /\ links'[l].from = None
            <7>1. CASE LearnId
              <8>1. seen.name = row.repo
                BY <7>1, VerdictSeen DEF LearnId
              <8>2. links'[l] = [links[l] EXCEPT !.id = seen.id]
                BY <3>2, <4>2, <5>2, <5>3, <7>1, VerdictLinks
              <8> QED BY <1>1, <5>2, <6>1, <8>1, <8>2 DEF LinkType
            <7>2. CASE Rename
              <8>1. links'[l] = Moved(links[l], row.id # Nobody)
                BY <3>2, <4>2, <7>2, VerdictLinks
              <8> QED BY <3>2, <5>1, <5>3, <6>1, <8>1, JudgedLinks, MovedReturns
            <7> QED BY <3>2, <7>1, <7>2
          <6> QED BY <5>1, <6>2, <6>3
        <5>4. CASE row.id # Nobody
          <6>1. Rename /\ seen.id = row.id /\ seen.name # row.repo
            BY <3>2, <5>4, VerdictSeen DEF LearnId, Rename
          <6>2. links'[l] = Moved(links[l], row.id # Nobody)
            BY <3>2, <4>2, <6>1, VerdictLinks
          <6>3. /\ links'[l].repo = seen.name /\ links'[l].id = seen.id
                /\ links'[l].from = IF links[l].from = None THEN row.repo ELSE links[l].from
            BY <3>2, <5>1, <5>2, <5>4, <6>1, <6>2, JudgedLinks, MovedReturns
          <6>4. seen.name = hub[seen.id]
            BY <5>1, <5>2, <5>4, <6>1 DEF Untouched
          <6>5. links[l].from = None /\ row.repo = Born[row.id]
            BY <5>2, <5>4, <6>1, <6>4 DEF TwoNames
          <6> QED BY <6>1, <6>3, <6>4, <6>5
        <5> QED BY <5>3, <5>4
      <4> QED BY <4>1, <4>2
    <3>3. ASSUME NEW i \in Lists, NEW n \in Names, LinkRepo(i, n)
          PROVE  l # i /\ links'[l] = links[l]
      <4>1. links' = [links EXCEPT ![i] = [NoLink EXCEPT !.repo = n]]
        BY <3>3 DEF LinkRepo
      <4> QED BY <1>1, <2>3, <4>1 DEF NoLink
    <3>4. CASE \E i \in Lists, n \in Names : LinkRepo(i, n)
      BY <2>3, <3>3, <3>4 DEF TwoNames
    <3> QED BY <3>1, <3>2, <3>4, CalmLinks
  <2>4. used.hub = 0 => hub = Born /\ Untouched'
    <3>1. SUFFICES ASSUME used.hub = 0 PROVE hub = Born /\ Untouched'
      OBVIOUS
    <3>2. hub = Born /\ Untouched
      BY <3>1 DEF TwoNames
    <3>3. ~Asking
      BY <3>2 DEF WorkAllowed, Marker, Untouched, Linked
    <3>4. log = <<>> /\ DOMAIN log = {}
      BY <3>2 DEF Untouched
    <3>5. ~Intend /\ ~RenameList
      BY <3>3 DEF Intend, RenameList, Ready, Listed, At, Asking
    <3>6. log' = <<>>
      <4>1. DOMAIN log' = {} /\ log' \in Seq(LogType)
        BY <3>4, <3>5, LogGoesOn, TypedStep DEF LogTyped
      <4> QED BY <4>1
    <3>7. deeds' = {}
      BY <3>4, <3>6, TypedStep DEF LogTyped
    <3>8. ASSUME NEW l \in Lists
          PROVE  links'[l].from = None
                 /\ (links'[l].id # Nobody => links'[l].repo = Born[links'[l].id])
      <4>1. links'[l].id # Nobody => links'[l].repo = Born[links'[l].id]
        BY <2>3, <3>2
      <4>2. links[l].from = None /\ (links[l].id # Nobody => links[l].repo = Born[links[l].id])
        BY <3>2 DEF Untouched
      <4>3. CASE LinksSame
        BY <4>1, <4>2, <4>3 DEF LinksSame
      <4>4. CASE \E i \in Lists, n \in Names : LinkRepo(i, n)
        <5>1. PICK i \in Lists, n \in Names : links' = [links EXCEPT ![i] = [NoLink EXCEPT !.repo = n]]
          BY <4>4 DEF LinkRepo
        <5> QED BY <1>1, <4>1, <4>2, <5>1 DEF NoLink
      <4>5. CASE (LearnId \/ Rename) /\ links' # links /\ l \notin LinkOf(row.repo)
        BY <4>1, <4>2, <4>5, JudgedLinks
      <4>6. CASE (LearnId \/ Rename) /\ links' # links /\ l \in LinkOf(row.repo)
        <5>1. pc = "looked" /\ seen.kind = "record" /\ seen.name = Born[seen.id]
          BY <3>2, <4>6, JudgedLinks DEF TwoNames
        <5>2. l = row.list /\ links[l].repo = row.repo /\ links[l].id = row.id
          BY <4>6, <5>1, RowsLink
        <5>3. CASE LearnId
          <6>1. links'[l] = [links[l] EXCEPT !.id = seen.id] \/ links'[l] = links[l]
            BY <4>6, <5>3, VerdictLinks
          <6> QED BY <1>1, <4>1, <4>2, <6>1 DEF LinkType
        <5>4. CASE Rename
          <6>1. links'[l] = Moved(links[l], row.id # Nobody)
            BY <4>6, <5>4, VerdictLinks
          <6>2. row.id = Nobody
            BY <4>2, <5>1, <5>2, <5>4, VerdictSeen DEF Rename
          <6> QED BY <4>1, <4>2, <4>6, <5>1, <6>1, <6>2, JudgedLinks, MovedReturns
        <5> QED BY <4>6, <5>3, <5>4
      <4> QED BY <4>3, <4>4, <4>5, <4>6, CalmLinks
    <3> QED BY <3>2, <3>6, <3>7, <3>8 DEF Untouched
  <2> QED BY <1>3, <2>1, <2>2, <2>3, <2>4 DEF TwoNames
<1> QED BY <1>2, <1>3, HubStill

\* A link whose repo's id is known keeps it, while nobody interferes.
LEMMA IdKept ==
  ASSUME Typed, ListsCurrent, [Next]_vars, ~meddled', ~crossed', NEW l \in Lists, links[l].id # Nobody
  PROVE  links'[l].id = links[l].id
<1>1. links \in [Lists -> LinkType] /\ links[l].repo # None
  BY DEF Typed, LinksTyped, NoLink
<1>2. CASE LinksSame
  BY <1>2 DEF LinksSame
<1>3. CASE (LearnId \/ Rename) /\ links' # links
  BY <1>3, JudgedLinks
<1>4. CASE \E i \in Lists, n \in Names : LinkRepo(i, n)
  <2>1. PICK i \in Lists, n \in Names : LinkRepo(i, n)
    BY <1>4
  <2>2. i # l
    BY <1>1, <2>1 DEF LinkRepo, Linked
  <2> QED BY <2>1, <2>2 DEF LinkRepo
<1> QED BY <1>2, <1>3, <1>4, CalmLinks

\* What is written with an intent.
LEMMA IntentIsTheMarkers ==
  ASSUME Typed, ListsCurrent, KnownSince, WorkAllowed, TwoNames, Intend
  PROVE  /\ Marker(row.list) /\ row.list \in Lists /\ links' = links
         /\ links[row.list].id \in Repos
         /\ Intent.list = row.list /\ Intent.repo = hub[links[row.list].id]
         /\ Intent.old = Born[links[row.list].id] /\ Intent.to = Short[Intent.repo]
         /\ Intent.kind = "renaming"
<1>1. pc = "listed" /\ Listed /\ links' = Adopted
  BY DEF Intend, Ready, Listed, At
<1>2. row.list \in Lists /\ Marker(row.list) /\ work.old = links[row.list].from
  BY <1>1 DEF WorkAllowed, Asking, Marker, Linked
<1>3. Link = links[row.list] /\ links' = links
  BY <1>1, LinkTyped, AdoptedCalm DEF Typed
<1>4. /\ links[row.list].id \in Repos /\ links[row.list].from = Born[links[row.list].id]
      /\ links[row.list].repo = hub[links[row.list].id]
  BY <1>2, MarkerKnown
<1> QED BY <1>2, <1>3, <1>4 DEF Intent

LEMMA LogKnownStep ==
  ASSUME Typed, ListsCurrent, KnownSince, WorkAllowed, TwoNames, LogKnown,
         [Next]_vars, ~meddled', ~crossed', used'.hub <= 1
  PROVE  LogKnown'
<1>1. used.hub \in Nat /\ log \in Seq(LogType)
  BY DEF Typed, GhostTyped, LogTyped
<1>2. CASE used'.hub = used.hub + 1 /\ UNCHANGED <<names, links, log, pc, round, deeds>>
  <2>1. used.hub = 0
    BY <1>1, <1>2
  <2>2. log = <<>>
    BY <2>1 DEF TwoNames, Untouched
  <2>3. DOMAIN log' = {}
    BY <1>2, <2>2
  <2> QED BY <2>3 DEF LogKnown
<1>3. CASE UNCHANGED github /\ used'.hub = used.hub
  <2>1. hub' = hub
    BY <1>3 DEF github
  <2>2. ASSUME NEW i \in DOMAIN log'
        PROVE  LET id == links'[log'[i].list].id IN
               /\ id # Nobody /\ log'[i].repo = hub[id] /\ log'[i].old = Born[id]
               /\ log'[i].to = Short[log'[i].repo]
    <3>1. CASE i \in DOMAIN log
      <4>1. RowGoesOn(i) /\ log[i].list \in Lists
        <5>1. log[i] \in LogType
          BY <1>1, <3>1
        <5> QED BY <3>1, <5>1, LogGoesOn DEF LogType
      <4>2. links[log[i].list].id # Nobody
        BY <3>1 DEF LogKnown
      <4>3. links'[log[i].list].id = links[log[i].list].id
        BY <4>1, <4>2, IdKept
      <4>4. /\ log'[i].list = log[i].list /\ log'[i].repo = log[i].repo
            /\ log'[i].old = log[i].old /\ log'[i].to = log[i].to
        BY <4>1 DEF RowGoesOn
      <4> QED BY <3>1, <4>3, <4>4 DEF LogKnown
    <3>2. CASE i \notin DOMAIN log
      <4>1. Intend /\ log'[i] = Intent
        BY <3>2, LogGoesOn
      <4> QED BY <4>1, IntentIsTheMarkers, NotNames
    <3> QED BY <3>1, <3>2
  <2> QED BY <2>1, <2>2 DEF LogKnown
<1> QED BY <1>2, <1>3, HubStill

\* A row that is begun was begun before, or is the intent now written.
LEMMA BegunBefore ==
  ASSUME Typed, [Next]_vars, NEW i \in DOMAIN log', Begun(i)'
  PROVE  \/ i \in DOMAIN log /\ Begun(i) /\ log'[i].list = log[i].list
         \/ Intend /\ work.intent = 0 /\ i = work'.intent /\ log'[i] = Intent
<1>1. CASE i \in DOMAIN log
  <2>1. RowGoesOn(i) /\ log'[i].kind = "renaming"
    BY <1>1, LogGoesOn DEF Begun
  <2>2. ~Tells(i, log'[i].kind)
    BY <2>1 DEF Tells
  <2>3. log'[i].kind = log[i].kind \/ Begun(i)
    BY <2>1, <2>2 DEF RowGoesOn
  <2> QED BY <1>1, <2>1, <2>3 DEF RowGoesOn, Begun
<1> QED BY <1>1, LogGoesOn

\* Following a marker takes up the intent that was begun, if there is one.
LEMMA TakesUp ==
  ASSUME Typed, KnownSince, TwoNames, LogKnown, pc = "follow", Marker(row.list)
  PROVE  LET S == Unfinished(links[row.list]) IN
         /\ \A i \in DOMAIN log : Begun(i) /\ log[i].list = row.list => i \in S
         /\ \A i \in S : i \in DOMAIN log /\ Begun(i) /\ log[i].list = row.list
         /\ S = {} => Newest(S) = 0
         /\ S # {} => Newest(S) \in S /\ Newest(S) # 0
<1> DEFINE S == Unfinished(links[row.list])
<1>1. log \in Seq(LogType) /\ row.list \in Lists
  BY DEF Typed, LogTyped, Marker, Linked
<1>2. /\ links[row.list].from = Born[links[row.list].id] /\ links[row.list].repo = hub[links[row.list].id]
  BY <1>1, MarkerKnown
<1>3. \A i \in DOMAIN log : Begun(i) /\ log[i].list = row.list => i \in S
  BY <1>2 DEF Unfinished, LogKnown, Begun
<1>4. S \subseteq DOMAIN log /\ \A i \in S : i \in DOMAIN log /\ Begun(i) /\ log[i].list = row.list
  BY DEF Unfinished, Begun
<1> HIDE DEF S
<1>5. S = {} => Newest(S) = 0
  BY DEF Newest
<1>6. ASSUME S # {} PROVE Newest(S) \in S /\ Newest(S) # 0
  <2>1. \E i \in S : \A j \in S : j <= i
    BY <1>1, <1>4, <1>6, NewestThere
  <2>2. Newest(S) \in S
    BY <1>6, <2>1 DEF Newest
  <2> QED BY <1>1, <1>4, <2>2
<1> USE DEF S
<1> QED BY <1>3, <1>4, <1>5, <1>6

LEMMA OneBegunStep ==
  ASSUME Typed, ListsCurrent, KnownSince, WorkAllowed, TwoNames, LogKnown, OneBegun,
         [Next]_vars, ~meddled', ~crossed'
  PROVE  OneBegun'
<1>1. log \in Seq(LogType) /\ work.intent \in DOMAIN log \cup {0}
  BY DEF Typed, LogTyped
<1>2. ASSUME NEW i \in DOMAIN log', NEW j \in DOMAIN log', Begun(i)', Begun(j)', log'[i].list = log'[j].list
      PROVE  i = j
  <2>1. \/ i \in DOMAIN log /\ Begun(i) /\ log'[i].list = log[i].list
        \/ Intend /\ work.intent = 0 /\ i = work'.intent /\ log'[i] = Intent
    BY <1>2, BegunBefore
  <2>2. \/ j \in DOMAIN log /\ Begun(j) /\ log'[j].list = log[j].list
        \/ Intend /\ work.intent = 0 /\ j = work'.intent /\ log'[j] = Intent
    BY <1>2, BegunBefore
  <2>3. Intend /\ work.intent = 0 => \A k \in DOMAIN log : Begun(k) => log[k].list # Intent.list
    BY DEF OneBegun, Intend, Ready, Listed, At, Asking, Intent
  <2> QED BY <1>2, <2>1, <2>2, <2>3 DEF OneBegun
<1>3. ASSUME Asking'
      PROVE  /\ work'.intent # 0 => Begun(work.intent)' /\ log'[work'.intent].list = row'.list
             /\ work'.intent = 0 => \A i \in DOMAIN log' : Begun(i)' => log'[i].list # row'.list
  <2>1. CASE pc' = pc
    <3>1. UNCHANGED <<names, links, log, round, meant, deeds>>
      BY <1>3, <2>1, CalmPause DEF Asking
    <3> QED BY <1>3, <2>1, <3>1 DEF OneBegun, Begun, round, Asking
  <2>2. CASE Follow
    <3>1. ~RowDone
      BY <1>3 DEF RowDone, Asking
    <3>2. /\ pc = "follow" /\ Marker(row.list) /\ UNCHANGED <<log, row>>
          /\ work'.intent = Newest(Unfinished(links[row.list]))
      BY <2>2, <3>1 DEF Follow, At
    <3>3. CASE Unfinished(links[row.list]) = {}
      BY <3>2, <3>3, TakesUp DEF Begun
    <3>4. CASE Unfinished(links[row.list]) # {}
      BY <3>2, <3>4, TakesUp DEF Begun
    <3> QED BY <3>3, <3>4
  <2>3. CASE ReadLists \/ RenameList
    <3>1. Asking /\ UNCHANGED <<log, row, work>>
      BY <2>3 DEF ReadLists, RenameList, At, store, round, Asking
    <3> QED BY <3>1 DEF OneBegun, Begun
  <2>4. CASE Intend
    <3>1. Asking /\ row' = row
      BY <2>4 DEF Intend, Ready, Listed, At, Asking
    <3>2. CASE work.intent # 0
      BY <2>4, <3>1, <3>2, IntendReturns DEF OneBegun, Begun
    <3>3. CASE work.intent = 0
      <4>1. log'[work'.intent] = Intent /\ work'.intent # 0
        BY <2>4, <3>3, IntendReturns
      <4> QED BY <3>1, <4>1 DEF Begun, Intent
    <3> QED BY <3>2, <3>3
  <2> QED BY <1>3, <2>1, <2>2, <2>3, <2>4, RoundEnters DEF Asking
<1> QED BY <1>2, <1>3 DEF OneBegun

\* While nobody interferes, a marker goes only with what is settled of its own list.
Settles == Follow \/ Resume \/ Keep \/ Refused \/ Finish \/ RefusesName

LEMMA MarkerStays ==
  ASSUME Typed, OneLinkPerRepo, ListsCurrent, WorkAllowed, [Next]_vars, ~meddled', ~crossed',
         NEW l \in Lists, Marker(l), ~(Settles /\ l = row.list)
  PROVE  Marker(l)'
<1> USE DEF Typed
<1>1. links \in [Lists -> LinkType] /\ links[l].repo # None /\ links[l].from # None /\ l \in Linked
  BY DEF LinksTyped, Marker, Linked
<1>2. SUFFICES links'[l].repo # None /\ links'[l].from # None
  BY DEF Marker, Linked
<1>3. CASE links'[l] = links[l]
  BY <1>1, <1>3
<1>4. ASSUME l # row.list, row.list \in Linked PROVE links[row.list].repo # links[l].repo
  BY <1>1, <1>4 DEF OneLinkPerRepo
<1>5. CASE Follow
  <2>1. CASE Marker(row.list)
    <3>1. links' = links \/ links' = Unmarked(links[row.list].repo)
      BY <1>5 DEF Follow
    <3>2. links[row.list].repo # links[l].repo
      BY <1>4, <1>5, <2>1 DEF Settles, Marker
    <3> QED BY <1>1, <1>3, <3>1, <3>2, UnmarkedReturns
  <2>2. CASE ~Marker(row.list)
    BY <1>1, <1>5, <2>2 DEF Follow
  <2> QED BY <2>1, <2>2
<1>6. CASE Resume \/ Keep
  <2>1. Listed /\ links' = ClearedOf(Link.repo) /\ l # row.list /\ pc = "listed"
    BY <1>6 DEF Resume, Keep, Settles, Listed, At
  <2>2. Link = links[row.list] /\ row.list \in Linked /\ Adopted = links
    BY <2>1, LinkTyped, AdoptedCalm
  <2>3. links[l].repo # Link.repo
    BY <1>4, <2>1, <2>2
  <2> QED BY <1>1, <1>3, <2>1, <2>2, <2>3, ClearedOfReturns
<1>7. CASE Refused \/ Finish \/ RefusesName
  <2>1. l # row.list /\ Asking /\ links' = Unmarked(work.repo)
    BY <1>7 DEF Refused, Finish, RefusesName, Settles, At, Asking
  <2>2. row.list \in Linked /\ work.repo = links[row.list].repo
    BY <2>1 DEF WorkAllowed, Marker
  <2> QED BY <1>1, <1>3, <1>4, <2>1, <2>2, UnmarkedReturns
<1>8. CASE LinkGone \/ WaitHour \/ Intend
  <2>1. pc = "listed" /\ links' = Adopted
    BY <1>8 DEF LinkGone, WaitHour, Intend, Ready, Listed, At
  <2> QED BY <1>3, <2>1, AdoptedCalm
<1>9. CASE MonthPasses
  BY <1>1, <1>9 DEF MonthPasses, LinkType
<1>10. ~PullLists /\ ~\E i \in Lists : Unlink(i)
  BY DEF PullLists, Unlink, ListsCurrent, Linked
<1>11. CASE (LearnId \/ Rename) /\ links' # links
  <2>1. seen.kind = "record" /\ seen.name \in Names /\ row.repo \in Names
    BY <1>11, JudgedLinks
  <2>2. CASE LearnId
    <3>1. links'[l] = [links[l] EXCEPT !.id = seen.id] \/ links'[l] = links[l]
      BY <1>11, <2>2, VerdictLinks
    <3> QED BY <1>1, <3>1 DEF LinkType
  <2>3. CASE Rename
    <3>1. links'[l] = Moved(links[l], row.id # Nobody) \/ links'[l] = links[l]
      BY <1>11, <2>3, VerdictLinks
    <3> QED BY <1>1, <2>1, <3>1, MovedReturns, NotNames
  <2> QED BY <1>11, <2>2, <2>3
<1>12. ASSUME NEW i \in Lists, NEW n \in Names, LinkRepo(i, n)
       PROVE  links'[l] = links[l]
  <2>1. l # i
    BY <1>1, <1>12 DEF LinkRepo
  <2> QED BY <1>12, <2>1 DEF LinkRepo
<1>13. \/ Follow \/ Resume \/ Keep \/ Refused \/ Finish \/ RefusesName \/ LinkGone \/ WaitHour \/ Intend
       \/ MonthPasses \/ PullLists \/ (\E i \in Lists : Unlink(i)) \/ UNCHANGED links
       \/ LearnId \/ Rename \/ \E i \in Lists, n \in Names : LinkRepo(i, n)
  BY DEF Next, RoundStep, FaultStep, UserStep, GithubStep, NotLinked, BeginRound, Look, LookAgain,
     Hold, Fine, ReadIssues, ReadLists, RenameList, RoundLost, RowFails, HourPasses, CallList,
     DeleteList, SetFollow, HubRenames, HubCreates, HubDeletes, HubStep, store, vars
<1> QED BY <1>3, <1>5, <1>6, <1>7, <1>8, <1>9, <1>10, <1>11, <1>12, <1>13

\* An intent of the row's own list that was begun is the one in hand.
LEMMA InHand ==
  ASSUME Typed, OneBegun, Asking, NEW i \in DOMAIN log, Begun(i), log[i].list = row.list
  PROVE  i = work.intent
<1>1. work.intent \in DOMAIN log \cup {0}
  BY DEF Typed, LogTyped
<1> QED BY <1>1 DEF OneBegun

LEMMA DeedsFoundStep ==
  ASSUME Typed, OneLinkPerRepo, ListsCurrent, KnownSince, WorkAllowed, TwoNames, LogKnown, OneBegun,
         DeedsFound, [Next]_vars, ~meddled', ~crossed'
  PROVE  DeedsFound'
<1> USE DEF Typed
<1>1. /\ log \in Seq(LogType) /\ deeds \subseteq DOMAIN log /\ work.intent \in DOMAIN log \cup {0}
      /\ names \in [Lists -> Labels \cup {Gone}]
      /\ \A i \in DOMAIN log : log[i] \in LogType /\ log[i].list \in Lists
  <2>1. log \in Seq(LogType) /\ deeds \subseteq DOMAIN log /\ work.intent \in DOMAIN log \cup {0}
    BY DEF LogTyped
  <2>2. \A i \in DOMAIN log : log[i] \in LogType
    BY <2>1
  <2> QED BY <2>1, <2>2 DEF StoreTyped, LogType
<1>2. ASSUME pc' = "rename" PROVE work'.intent \notin deeds'
  <2>1. CASE pc' = pc
    BY <1>2, <2>1, CalmPause DEF DeedsFound, round
  <2>2. CASE Intend
    <3>1. deeds' = deeds /\ pc = "listed" /\ row.list \in Lists /\ ~AlreadyDone
      BY <2>2 DEF Intend, Ready, Listed, At, ghosts, RoundTyped
    <3>2. CASE work.intent = 0
      <4>1. work'.intent = Len(log) + 1
        BY <2>2, <3>2, IntendReturns
      <4>2. DOMAIN log = 1 .. Len(log) /\ Len(log) \in Nat
        BY <1>1
      <4> QED BY <1>1, <3>1, <4>1, <4>2
    <3>3. CASE work.intent # 0
      <4>1. work'.intent = work.intent
        BY <2>2, <3>3, IntendReturns
      <4>2. Begun(work.intent) /\ log[work.intent].list = row.list
        BY <3>1, <3>3 DEF OneBegun, Asking
      <4>3. ASSUME work.intent \in deeds PROVE FALSE
        <5>1. names[row.list] = log[work.intent].to
          BY <4>2, <4>3 DEF DeedsFound, Begun, Done
        <5> QED BY <3>1, <3>3, <5>1 DEF AlreadyDone, ListsCurrent
      <4> QED BY <3>1, <4>1, <4>3
    <3> QED BY <3>2, <3>3
  <2> QED BY <1>2, <2>1, <2>2, RoundEnters
<1>3. CASE RenameList
  <2>1. /\ pc = "rename" /\ pc' = "renamed" /\ names' = [names EXCEPT ![row.list] = Short[work.repo]]
        /\ deeds' = deeds \cup {work.intent} /\ UNCHANGED <<links, log>>
    BY <1>3 DEF RenameList, At, store
  <2>2. /\ Marker(row.list) /\ row.list \in Lists /\ work.repo = links[row.list].repo
        /\ work.intent \in DOMAIN log /\ Begun(work.intent) /\ log[work.intent].list = row.list
    BY <1>1, <2>1 DEF WorkAllowed, Asking, Marker, Linked, OneBegun, WorkTyped
  <2>3. log[work.intent].to = Short[work.repo]
    BY <2>2, MarkerKnown DEF LogKnown
  <2>4. ASSUME NEW i \in deeds', ~Done(i)
        PROVE  Begun(i) /\ Marker(log[i].list) /\ names'[log[i].list] = log[i].to
    <3>1. CASE i = work.intent
      BY <1>1, <2>1, <2>2, <2>3, <3>1
    <3>2. CASE i # work.intent
      <4>1. i \in DOMAIN log /\ Begun(i) /\ Marker(log[i].list) /\ names[log[i].list] = log[i].to
        BY <1>1, <2>1, <2>4, <3>2 DEF DeedsFound
      <4>2. log[i].list # row.list
        BY <2>2, <3>2, <4>1 DEF OneBegun
      <4> QED BY <1>1, <2>1, <4>1, <4>2
    <3> QED BY <3>1, <3>2
  <2> QED BY <1>2, <2>1, <2>4 DEF DeedsFound, Done, Begun, Marker, Linked
<1>4. CASE ~RenameList
  <2>1. names' = names /\ deeds' = deeds
    <3>1. ~(\E l \in Lists : DeleteList(l) \/ \E label \in Labels : CallList(l, label))
      BY DEF DeleteList, CallList
    <3> QED BY <1>4, <3>1 DEF Next, RoundStep, FaultStep, UserStep, GithubStep, NotLinked, BeginRound, Look, LookAgain,
         Hold, Fine, LearnId, Rename, ReadIssues, Follow, ReadLists, LinkGone, Resume, Keep, WaitHour,
         Intend, Refused, Finish, RoundLost, RowFails, RefusesName, HourPasses, MonthPasses, PullLists,
         LinkRepo, Unlink, SetFollow, HubRenames, HubCreates, HubDeletes, HubStep, Resting, ghosts, vars
  <2>2. ASSUME NEW i \in deeds
        PROVE  Done(i)' \/ (Begun(i)' /\ Marker(log[i].list)' /\ names'[log'[i].list] = log'[i].to)
    <3>1. i \in DOMAIN log /\ RowGoesOn(i) /\ i # 0 /\ log[i].list \in Lists
      BY <1>1, LogGoesOn
    <3>2. log'[i].list = log[i].list /\ log'[i].to = log[i].to
      BY <3>1 DEF RowGoesOn
    <3>3. CASE Done(i)
      <4>1. ~Begun(i)
        BY <3>3 DEF Done, Begun
      <4>2. ~Tells(i, log'[i].kind)
        BY <3>1, <4>1 DEF Tells, OneBegun
      <4> QED BY <3>1, <3>3, <4>1, <4>2 DEF RowGoesOn, Done
    <3>4. CASE ~Done(i)
      <4>1. Begun(i) /\ Marker(log[i].list) /\ names[log[i].list] = log[i].to
        BY <3>4 DEF DeedsFound
      <4>2. log[i].list = row.list /\ Asking => i = work.intent
        BY <3>1, <4>1, InHand
      <4>3. CASE log[i].list = row.list /\ Settles
        <5>1. ~Keep
          <6>1. ASSUME Keep PROVE FALSE
            <7>1. pc = "listed" /\ ~AlreadyDone
              BY <6>1 DEF Keep, Listed, At
            <7> QED BY <3>1, <4>1, <4>2, <4>3, <7>1 DEF AlreadyDone, ListsCurrent, Asking
          <6> QED BY <6>1
        <5>2. ~Refused
          BY <3>1, <4>3 DEF Refused, ListsCurrent
        <5>3. ~RefusesName
          BY <4>2, <4>3 DEF RefusesName, DeedsFound, Asking
        <5>4. CASE Resume \/ Finish
          <6>1. i = work.intent /\ log' = Ended(work.intent, "renamed")
            BY <4>2, <4>3, <5>4 DEF Resume, Finish, Listed, At, Asking
          <6>2. "renamed" \in {"renaming", "renamed", "kept"}
            OBVIOUS
          <6>3. log'[i] = [log[i] EXCEPT !.kind = "renamed"]
            BY <1>1, <3>1, <6>1, <6>2, EndedReturns
          <6>4. log[i] \in LogType
            BY <1>1, <3>1
          <6> QED BY <6>3, <6>4 DEF Done, LogType
        <5>5. CASE Follow
          <6>1. pc = "follow" /\ log' = log
            BY <5>5 DEF Follow, At
          <6>2. i \in Unfinished(links[row.list])
            BY <3>1, <4>1, <4>3, <6>1, TakesUp
          <6>3. links' = links
            BY <4>1, <4>3, <5>5, <6>2 DEF Follow, NothingToAsk
          <6> QED BY <2>1, <4>1, <6>1, <6>3 DEF Begun, Marker, Linked
        <5> QED BY <4>3, <5>1, <5>2, <5>3, <5>4, <5>5 DEF Settles
      <4>4. CASE ~(log[i].list = row.list /\ Settles)
        <5>1. Marker(log[i].list)'
          <6>1. PICK l \in Lists : l = log[i].list
            BY <3>1
          <6>2. Marker(l)'
            BY <4>1, <4>4, <6>1, MarkerStays
          <6> QED BY <3>2, <6>1, <6>2 DEF Marker, Linked
        <5>2. ~Tells(i, log'[i].kind)
          BY <3>1, <4>4 DEF Tells, OneBegun, Settles
        <5>3. ~(Intend /\ work.intent = 0 /\ log[i].list = row.list)
          BY <3>1, <4>2 DEF Intend, Ready, Listed, At, Asking
        <5> QED BY <2>1, <3>1, <3>2, <4>1, <5>1, <5>2, <5>3 DEF RowGoesOn, Begun
      <4> QED BY <4>3, <4>4
    <3> QED BY <3>3, <3>4
  <2> QED BY <1>2, <2>1, <2>2 DEF DeedsFound
<1> QED BY <1>3, <1>4

LEMMA OnceStep ==
  ASSUME Typed, OneLinkPerRepo, CalmHolds, OnceHolds, [Next]_vars
  PROVE  OnceHolds'
<1>1. SUFFICES ASSUME ~meddled', ~crossed', used'.hub <= 1
               PROVE  TwoNames' /\ LogKnown' /\ OneBegun' /\ DeedsFound'
  BY DEF OnceHolds
<1>2. ~meddled /\ ~crossed
  BY <1>1, HistoryGrows
<1>3. used.hub <= 1
  <2>1. used.hub \in Nat /\ (used'.hub = used.hub \/ used'.hub = used.hub + 1)
    BY HubStill DEF Typed, GhostTyped
  <2> QED BY <1>1, <2>1
<1>4. RowsCurrent /\ ListsCurrent /\ KnownSince /\ SeenSince /\ WorkAllowed
  BY <1>2, NamesSinceParts DEF CalmHolds
<1>5. TwoNames /\ LogKnown /\ OneBegun /\ DeedsFound
  BY <1>2, <1>3 DEF OnceHolds
<1> QED BY <1>1, <1>4, <1>5, TwoNamesStep, LogKnownStep, OneBegunStep, DeedsFoundStep

-----------------------------------------------------------------------------
(* The theorems. *)

LEMMA FollowInit == Init => FollowInvariant
<1>1. SUFFICES ASSUME Init PROVE FollowInvariant
  OBVIOUS
<1>2. /\ hub = Born /\ redirect = [n \in Names |-> Nobody] /\ names = Called /\ log = <<>>
      /\ links = [l \in Lists |-> NoLink] /\ pc = "idle" /\ todo = {} /\ seen = NoSeen
      /\ work = NoWork /\ deeds = {} /\ used = [hub |-> 0, user |-> 0, fault |-> 0]
  BY <1>1 DEF Init
<1>3. \A l \in Lists : links[l].repo = None /\ links[l].id = Nobody /\ links[l].from = None
  BY <1>2 DEF NoLink
<1>4. Linked = {} /\ Ahead = {} /\ DOMAIN log = {}
  BY <1>2, <1>3 DEF Linked, Ahead
<1>5. TypeOK /\ RoundHolds
  BY <1>1, TypedInit, TypeParts
<1>6. NamesApart
  BY <1>2, BornAssumption, NotNames DEF NamesApart, None
<1>7. OneLinkPerRepo /\ MeantHolds
  BY <1>2, <1>4 DEF OneLinkPerRepo, MeantHolds, LinksMeant, RowsMeant, SeenMeant
<1>8. \A l \in Lists : names[l] # Gone
  BY <1>2, CalledAssumption, NotNames
<1>9. RowsCurrent /\ ListsCurrent /\ NamesSince /\ WorkAllowed
  BY <1>2, <1>3, <1>4, <1>8 DEF RowsCurrent, ListsCurrent, NamesSince, WorkAllowed, Asking
<1>10. Untouched
  BY <1>2, <1>3 DEF Untouched
<1>11. TwoNames /\ LogKnown /\ OneBegun /\ DeedsFound
  BY <1>2, <1>3, <1>4, <1>10 DEF TwoNames, LogKnown, OneBegun, DeedsFound, Asking
<1> QED BY <1>5, <1>6, <1>7, <1>9, <1>11 DEF FollowInvariant, CalmHolds, OnceHolds

LEMMA FollowStep == FollowInvariant /\ [Next]_vars => FollowInvariant'
<1>1. SUFFICES ASSUME FollowInvariant, [Next]_vars PROVE FollowInvariant'
  OBVIOUS
<1>2. Typed /\ NamesApart /\ OneLinkPerRepo /\ MeantHolds /\ CalmHolds /\ OnceHolds
  BY <1>1, TypeParts DEF FollowInvariant
<1>3. TypeOK' /\ RoundHolds'
  BY <1>1, <1>2, TypedStep, TypeParts
<1>4. NamesApart' /\ OneLinkPerRepo' /\ MeantHolds'
  BY <1>1, <1>2, NamesApartStep, OneLinkStep, MeantStep
<1>5. CalmHolds' /\ OnceHolds'
  BY <1>1, <1>2, CalmStep, OnceStep
<1> QED BY <1>3, <1>4, <1>5 DEF FollowInvariant

\* What is true of every state of a round, of the links, of GitHub and of the log, for
\* any repos, lists, bounds and faults.
THEOREM FollowInvariance == Spec => []FollowInvariant
<1>1. Init => FollowInvariant
  BY FollowInit
<1>2. FollowInvariant /\ [Next]_vars => FollowInvariant'
  BY FollowStep
<1> QED BY <1>1, <1>2, PTL DEF Spec

\* Every variable keeps its type, and what a round holds is there when it needs it.
THEOREM FollowTypes == Spec => []TypeOK
<1>1. FollowInvariant => TypeOK
  BY DEF FollowInvariant
<1> QED BY <1>1, FollowInvariance, PTL

\* gh_learn_id and gh_rename, refused where the name or the id is another link's, and
\* Daemon::link keep two lists from following one repo.
THEOREM OneLinkEach == Spec => []OneLinkPerRepo
<1>1. FollowInvariant => OneLinkPerRepo
  BY DEF FollowInvariant
<1> QED BY <1>1, FollowInvariance, PTL

\* The pass over the issues, which asks by name, reads those of the repo the link was
\* made for, whatever repos were renamed, deleted or made since.
THEOREM ReadsTheMeant == Spec => ReadsItsOwn
<1> DEFINE Reads == pc = "issues" /\ pc' = "follow" =>
                      Holder(row.repo) \subseteq {meant[row.list]} \/ shifted \/ crossed
<1>1. ASSUME FollowInvariant, [Next]_vars PROVE [Reads]_vars
  <2>1. SUFFICES ASSUME pc = "issues", ~shifted, ~crossed
                 PROVE  Holder(row.repo) \subseteq {meant[row.list]}
    OBVIOUS
  <2>2. Typed /\ NamesApart /\ SeenMeant
    BY <1>1, <2>1, TypeParts DEF FollowInvariant, MeantHolds
  <2>3. /\ seen.kind = "record" /\ seen.name = row.repo /\ row.repo \in Names
    BY <2>1, <2>2 DEF Typed, RoundTyped
  <2>4. Stands(row.repo) = seen.id /\ seen.id = meant[row.list]
    BY <2>1, <2>2, <2>3 DEF SeenMeant
  <2>5. \A r \in Holder(row.repo) : Stands(row.repo) = r
    BY <2>2, <2>3, StandsForHolder DEF Holder, Typed
  <2> QED BY <2>4, <2>5
<1>2. ReadsItsOwn <=> [][Reads]_vars
  BY DEF ReadsItsOwn
<1> HIDE DEF Reads
<1>3. FollowInvariant /\ [Next]_vars => [Reads]_vars
  BY <1>1
<1> QED BY <1>2, <1>3, FollowInvariance, PTL DEF Spec

\* follow::try_follow gives a list only the name of its own repo, and only where the
\* list is called as that repo was and no other list has the name.
THEOREM RenamesItsOwn == Spec => RenamesOnlyItsOwn
<1> DEFINE Renames ==
      \A l \in Lists :
        names'[l] # names[l] /\ used' = used =>
          \/ meddled
          \/ crossed
          \/ /\ names[l] \in {Short[n] : n \in since[l]} /\ names'[l] \in {Short[n] : n \in since[l]}
             /\ l \notin Fixed
             /\ \A k \in Lists \ {l} : names[k] # names'[l]
<1>1. ASSUME FollowInvariant, [Next]_vars PROVE [Renames]_vars
  <2>1. SUFFICES ASSUME NEW l \in Lists, names'[l] # names[l], used' = used, ~meddled, ~crossed
                 PROVE  /\ names[l] \in {Short[n] : n \in since[l]}
                        /\ names'[l] \in {Short[n] : n \in since[l]}
                        /\ l \notin Fixed
                        /\ \A k \in Lists \ {l} : names[k] # names'[l]
    OBVIOUS
  <2>2. Typed /\ ListsCurrent /\ KnownSince /\ WorkAllowed
    BY <1>1, <2>1, TypeParts, NamesSinceParts DEF FollowInvariant, CalmHolds
  <2>3. RenameList
    <3>1. ~UserStep
      <4>1. ~User
        BY <2>1, <2>2, UsedTyped DEF Typed, GhostTyped
      <4> QED BY <4>1 DEF UserStep, LinkRepo, Unlink, CallList, DeleteList, SetFollow
    <3>2. names' # names
      BY <2>1
    <3> QED BY <1>1, <3>1, <3>2 DEF Next, RoundStep, FaultStep, GithubStep, NotLinked, BeginRound, Look,
         LookAgain, Hold, Fine, LearnId, Rename, ReadIssues, Follow, ReadLists, LinkGone, Resume, Keep,
         WaitHour, Intend, Refused, Finish, RoundLost, RowFails, RefusesName, HourPasses, MonthPasses,
         PullLists, HubRenames, HubCreates, HubDeletes, HubStep, Resting, vars
  <2>4. pc = "rename" /\ names' = [names EXCEPT ![row.list] = Short[work.repo]]
    BY <2>3 DEF RenameList, At
  <2>5. names \in [Lists -> Labels \cup {Gone}] /\ l = row.list /\ names'[l] = Short[work.repo]
    BY <2>1, <2>2, <2>4 DEF Typed, StoreTyped
  <2>6. /\ work.old = links[l].from /\ work.repo = links[l].repo /\ links[l].from # None
        /\ listing[l] = Short[work.old] /\ l \notin Fixed /\ ~Clash(work.repo) /\ listing = names
    BY <2>2, <2>4, <2>5 DEF WorkAllowed, ListsCurrent, Asking, Marker
  <2>7. LinkSince(l)
    BY <2>2, <2>6 DEF KnownSince
  <2>8. work.old \in since[l] /\ work.repo \in since[l]
    BY <2>6, <2>7 DEF LinkSince
  <2> QED BY <2>5, <2>6, <2>8 DEF Clash
<1>2. RenamesOnlyItsOwn <=> [][Renames]_vars
  BY DEF RenamesOnlyItsOwn
<1> HIDE DEF Renames
<1>3. FollowInvariant /\ [Next]_vars => [Renames]_vars
  BY <1>1
<1> QED BY <1>2, <1>3, FollowInvariance, PTL DEF Spec

\* A rename the CalDAV server took is told as done, or its marker is still there: a
\* lost reply and the daemon's death lose none, as the next pass finds the intent in
\* the log and the new name in the listing.
THEOREM TakenTold == Spec => []TakenIsTold
<1>1. FollowInvariant => TakenIsTold
  BY DEF FollowInvariant, OnceHolds, DeedsFound, TakenIsTold
<1> QED BY <1>1, FollowInvariance, PTL

=============================================================================
