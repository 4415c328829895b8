-------------------------------- MODULE Track --------------------------------
(***************************************************************************)
(* Time tracking.  ActivityWatch keeps one log per sensor and one of when  *)
(* somebody was at the machine; an ingest reads them all, tags what they   *)
(* saw, coalesces it into sessions and replaces one day of the `blocks`    *)
(* table (asst-core/src/track.rs, Store::replace_actual_blocks).  The      *)
(* window asks for an ingest each time it loads a day, and `asst track     *)
(* ingest` runs one beside it, in a process of its own.                    *)
(*                                                                         *)
(* Time is counted in ticks; a span is the ticks from `start` up to and    *)
(* without `end`.  A reading is one event of a log, and its fields are     *)
(* what signals_of reads out of the event, or None.  `inCwd` and `inTitle` *)
(* are the projects that its directory and its title imply.                *)
(***************************************************************************)
EXTENDS Integers, Sequences, FiniteSets, TLC

CONSTANTS
  None,        \* a field that is not there
  Days,        \* the days on the calendar, from 0
  DayLen,      \* ticks in a day
  Gap,         \* SESSION_GAP, in ticks
  MinSpan,     \* MIN_SPAN, in ticks
  Sensors,     \* the buckets there are, in the order collect_day reads them
  Histories,   \* what the logs may come to hold, and hold at first: [log, seen]
  Rules,       \* tags.toml: a sequence of rules
  DefaultTag,  \* its default_tag, or None
  MaxReadings, \* bound: readings of one log
  MaxCalls,    \* bound: ingests and loads under way at once
  MaxReloads,  \* bound: loads of the day that no minute asked for
  MaxCommands, \* bound: runs of `asst track ingest`
  MaxFails     \* bound: answers of ActivityWatch or asstd that are an error

SourceKind == [claude |-> 0, neovim |-> 1, obsidian |-> 2, terminal |-> 3,
               web |-> 4, window |-> 5]

ASSUME TrackAssumption ==
  /\ DayLen \in Nat \ {0} /\ Gap \in Nat /\ MinSpan \in Nat
  /\ Days \subseteq Nat /\ 0 \in Days
  /\ Sensors \in Seq(DOMAIN SourceKind)
  /\ {MaxReadings, MaxCalls, MaxReloads, MaxCommands, MaxFails} \subseteq Nat

Logs == {Sensors[i] : i \in DOMAIN Sensors} \cup {"afk"}

-----------------------------------------------------------------------------
(* Spans. *)

Larger(a, b) == IF a < b THEN b ELSE a
Smaller(a, b) == IF a < b THEN a ELSE b
Span(a, b) == [start |-> a, end |-> b]
Outer(s) == Span(s.start, s.end)
Seconds(s) == s.end - s.start
Ticks(s) == s.start .. (s.end - 1)
AllTicks(S) == UNION {Ticks(s) : s \in S}
DaySpan(d) == Span(d * DayLen, (d + 1) * DayLen)
LatestOf(S) == CHOOSE s \in S : \A o \in S : o.start <= s.start
Meet(s, a) == Span(Larger(s.start, a.start), Smaller(s.end, a.end))

ClipToAllowed(span, allowed) ==
  {c \in {Meet(span, a) : a \in allowed} : c.start < c.end}

(* In the order they start, each span is joined to the last or pushed. *)
MergeSpans(spans) ==
  LET Push(out, s) ==
        IF out # {} /\ s.start <= LatestOf(out).end
          THEN (out \ {LatestOf(out)})
               \cup {[LatestOf(out) EXCEPT !.end = Larger(@, s.end)]}
          ELSE out \cup {s}
      merged[S \in SUBSET spans] ==
        IF S = {} THEN {} ELSE Push(merged[S \ {LatestOf(S)}], LatestOf(S))
  IN merged[{s \in spans : s.start < s.end}]

(* What is left of `span` after each taken span is cut out of every hole. *)
SubtractSpans(span, taken) ==
  LET Cut(h, t) ==
        IF t.end <= h.start \/ t.start >= h.end
          THEN {h}
          ELSE {s \in {Span(h.start, t.start), Span(t.end, h.end)} : s.start < s.end}
      holes[T \in SUBSET taken] ==
        IF T = {} THEN {span}
        ELSE LET t == CHOOSE t \in T : TRUE
             IN UNION {Cut(h, t) : h \in holes[T \ {t}]}
  IN holes[taken]

(* The unbroken stretches of a set of ticks. *)
Stretches(S) ==
  {s \in [start : {t \in S : t - 1 \notin S}, end : {t + 1 : t \in S} \ S] :
     s.start < s.end /\ Ticks(s) \subseteq S}

-----------------------------------------------------------------------------
(* Tags. *)

RuleMatches(rule, r) ==
  /\ \E f \in {"project", "cwd", "domain", "app"} : rule[f] # None
  /\ \A f \in {"project", "cwd", "domain", "app"} : rule[f] \in {None, r[f]}

Tag(project, uid, source) == [project |-> project, uid |-> uid, source |-> source]

FirstOf(names) ==
  LET there == {i \in DOMAIN names : names[i] # None}
  IN names[CHOOSE i \in there : \A j \in there : i <= j]

ResolveTag(r) ==
  LET fit == {i \in DOMAIN Rules : RuleMatches(Rules[i], r)}
      rule == Rules[CHOOSE i \in fit : \A j \in fit : i <= j]
  IN CASE r.uid # None -> Tag(FirstOf(<<r.project, r.inCwd, "untagged">>), r.uid, "explicit")
       [] r.uid = None /\ fit # {} -> Tag(rule.tag, rule.uid, "rule")
       [] OTHER ->
            IF <<r.project, r.inCwd, r.inTitle>> # <<None, None, None>>
              THEN Tag(FirstOf(<<r.project, r.inCwd, r.inTitle>>), None, "field")
              ELSE Tag(FirstOf(<<DefaultTag, "untagged">>), None, "untagged")

(* What an untagged reading goes by, and which signal that is. *)
UntaggedKey(r) ==
  LET f == FirstOf(<<IF r.project # None THEN "project" ELSE None,
                     IF r.cwd # None THEN "cwd" ELSE None,
                     IF r.domain # None THEN "domain" ELSE None,
                     IF r.app # None THEN "app" ELSE None, "none">>)
  IN IF f = "none" THEN [kind |-> "project", label |-> "(none)"]
     ELSE [kind |-> f, label |-> r[f]]

(* A reading, tagged, as one clip for each allowed span it is in. *)
ClipsOf(r, allowed) ==
  LET tag == ResolveTag(r)
      loose == tag.source = "untagged"
  IN {[start |-> c.start, end |-> c.end, tag |-> tag.project, uid |-> tag.uid,
       label |-> IF loose THEN UntaggedKey(r).label ELSE tag.project,
       detail |-> r.detail,
       unkind |-> IF loose THEN UntaggedKey(r).kind ELSE None,
       kind |-> SourceKind[r.sensor], explicit |-> tag.source = "explicit"]
       : c \in ClipToAllowed(r, allowed)}

(* Touching clips of one name and one sensor become one, and the earlier   *)
(* one's task stands for both.                                             *)
MergeClips(clips) ==
  LET Before(a, b) == a.start < b.start \/ (a.start = b.start /\ a.kind <= b.kind)
      Last(S) == CHOOSE c \in S : \A o \in S : Before(o, c)
      Push(out, c) ==
        IF out # {} /\ Last(out).kind = c.kind /\ c.start <= Last(out).end
          THEN (out \ {Last(out)}) \cup {[Last(out) EXCEPT !.end = Larger(@, c.end)]}
          ELSE out \cup {c}
      merged[S \in SUBSET clips] ==
        IF S = {} THEN {} ELSE Push(merged[S \ {Last(S)}], Last(S))
      names == {<<c.tag, c.label, c.detail>> : c \in clips}
  IN UNION {merged[{c \in clips : <<c.tag, c.label, c.detail>> = n}] : n \in names}

(* Every identity that covers a slice has it: its slices in a row are one  *)
(* span, named by the lowest sensor that opened it.                        *)
TaggedTimeline(readings, allowed) ==
  LET clips == MergeClips(UNION {ClipsOf(r, allowed) : r \in readings})
      Id(c) == [tag |-> c.tag, uid |-> c.uid, label |-> c.label, detail |-> c.detail]
      Of(id) == {c \in clips : Id(c) = id}
      At(id, t) == {c \in Of(id) : t \in Ticks(c)}
      Names(c, o) == c.kind < o.kind \/ (c.kind = o.kind /\ (c.explicit \/ ~o.explicit))
      Best(id, t) == CHOOSE c \in At(id, t) : \A o \in At(id, t) : Names(c, o)
      SpansOf(id) ==
        {[start |-> s.start, end |-> s.end, tag |-> id.tag, uid |-> id.uid,
          label |-> id.label, detail |-> id.detail, unkind |-> Best(id, s.start).unkind]
          : s \in Stretches(AllTicks(Of(id)))}
  IN UNION {SpansOf(Id(c)) : c \in clips}

-----------------------------------------------------------------------------
(* Sessions. *)

Pieces(s, taken) ==
  {[s EXCEPT !.start = h.start, !.end = h.end] : h \in SubtractSpans(Outer(s), taken)}

DropRedundantWindow(spans) ==
  LET web == MergeSpans({Outer(s) : s \in {s \in spans : s.unkind = "domain"}})
  IN {s \in spans : s.unkind # "app"}
     \cup UNION {Pieces(s, web) : s \in {s \in spans : s.unkind = "app"}}

DropCoveredNoise(spans) ==
  LET named == MergeSpans({Outer(s) : s \in {s \in spans : s.tag # "untagged"}})
  IN {s \in spans : s.tag # "untagged"}
     \cup {p \in UNION {Pieces(s, named) : s \in {s \in spans : s.tag = "untagged"}} :
             Seconds(p) >= MinSpan}

SessionKey(s) == <<s.tag, IF s.tag = "untagged" THEN s.label ELSE s.tag>>

(* One session out of its members: the outer span, the longest detail, the *)
(* first member's task, and the `source` the table tells blocks apart by.  *)
SessionBlock(members) ==
  LET first == CHOOSE m \in members : \A o \in members :
                 m.start < o.start \/ (m.start = o.start /\ m.end <= o.end)
      final == CHOOSE m \in members : \A o \in members : o.end <= m.end
      details == {m.detail : m \in members} \ {None}
      total[M \in SUBSET members] ==
        IF M = {} THEN 0
        ELSE LET m == CHOOSE m \in M : TRUE IN Seconds(m) + total[M \ {m}]
      Lasts(x) == total[{m \in members : m.detail = x}]
  IN [start |-> first.start, end |-> final.end, uid |-> first.uid, label |-> SessionKey(first)[2],
      detail |-> IF details = {} THEN None
                 ELSE CHOOSE x \in details : \A y \in details : Lasts(y) <= Lasts(x),
      source |-> <<first.start, first.tag>>]

(* In the order they start, a span joins its key's open session when it    *)
(* starts no later than Gap after the session's end, and opens one if not. *)
CoalesceSessions(spans) ==
  LET long == {s \in spans : s.start < s.end /\ Seconds(s) >= MinSpan}
      Before(a, b) == a.start < b.start \/ (a.start = b.start /\ a.end <= b.end)
      Last(S) == CHOOSE s \in S : \A o \in S : Before(o, s)
      Open(out) == CHOOSE g \in out : Last(UNION out) \in g
      Reach(g) == (CHOOSE m \in g : \A o \in g : o.end <= m.end).end
      Join(out, s) ==
        IF out # {} /\ s.start <= Reach(Open(out)) + Gap
          THEN (out \ {Open(out)}) \cup {Open(out) \cup {s}}
          ELSE out \cup {{s}}
      runs[S \in SUBSET long] ==
        IF S = {} THEN {} ELSE Join(runs[S \ {Last(S)}], Last(S))
      keys == {SessionKey(s) : s \in long}
  IN {SessionBlock(g) : g \in UNION {runs[{s \in long : SessionKey(s) = k}] : k \in keys}}

SessionsOf(readings, allowed) ==
  CoalesceSessions(DropCoveredNoise(DropRedundantWindow(TaggedTimeline(readings, allowed))))

-----------------------------------------------------------------------------
(* What ActivityWatch answers of day d when it has the first seen[n] of    *)
(* each log n: events cut to the day, and to when somebody was there.      *)

Moments ==
  UNION {{[log |-> h.log, seen |-> n]
            : n \in {n \in [Logs -> 0 .. MaxReadings] :
                       \A l \in Logs : n[l] \in h.seen[l] .. Len(h.log[l])}} : h \in Histories}

NotAfk(m, d) ==
  LET afk == MergeSpans({Outer(m.log["afk"][i]) : i \in 1 .. m.seen["afk"]})
  IN UNION {ClipToAllowed(a, {DaySpan(d)}) : a \in afk}

Joined(m, d) ==
  LET allowed == NotAfk(m, d)
      Cut(r) == {[r EXCEPT !.start = c.start, !.end = c.end] : c \in ClipToAllowed(r, allowed)}
  IN UNION {UNION {Cut(m.log[n][i] @@ [sensor |-> n]) : i \in 1 .. m.seen[n]} : n \in Logs \ {"afk"}}

(* The answers and the sessions in tables, so that TLC works each out once. *)
Answer == [m \in Moments, d \in Days |-> [read |-> Joined(m, d), allowed |-> NotAfk(m, d)]]
Sessions ==
  [p \in UNION {{<<Answer[m, d].read, Answer[k, d].allowed>>
                   : k \in {k \in Moments : k.log = m.log}} : m \in Moments, d \in Days}
     |-> SessionsOf(p[1], p[2])]

-----------------------------------------------------------------------------
VARIABLES
  log,      \* what each log comes to hold
  seen,     \* how many readings of each log ActivityWatch has by now: it only grows
  blocks,   \* the actual rows of the table
  calls,    \* the ingests and loads under way, each in a slot, or None
  onDay,    \* is the Day view on screen?
  viewed,   \* day_day
  shown,    \* the blocks the window holds
  spent,    \* loads no minute asked for, commands and failures so far
  applied   \* what the last ingest of each day had read; no code keeps it

trackVars == <<log, seen, blocks, calls, onDay, viewed, shown, spent, applied>>

Now == [log |-> log, seen |-> seen]

\* Mutant: the rows that only touch the day go too.
ReplacesTouching(d, rows) ==
  {b \in blocks : b.start > DaySpan(d).end \/ b.end < DaySpan(d).start}
  \cup {CHOOSE b \in {b \in rows : b.source = src} :
          \A o \in {o \in rows : o.source = src} : o.end <= b.end
        : src \in {b.source : b \in rows}}

(* The rows of the other days stay, and of two new rows with one source    *)
(* the later, by start and end, is kept.                                   *)
ReplaceActualBlocks(d, rows) ==
  {b \in blocks : b.start >= DaySpan(d).end \/ b.end <= DaySpan(d).start}
  \cup {CHOOSE b \in {b \in rows : b.source = src} :
          \A o \in {o \in rows : o.source = src} : o.end <= b.end
        : src \in {b.source : b \in rows}}

BlocksBetween(d) == {b \in blocks : b.start < DaySpan(d).end /\ b.end > DaySpan(d).start}

TrackTypeOK ==
  /\ seen \in [Logs -> Nat]
  /\ \A n \in Logs : seen[n] <= Len(log[n])
  /\ \A b \in blocks : b.start < b.end
  /\ \A a, b \in blocks : a.source = b.source => a = b
  /\ onDay \in BOOLEAN /\ viewed \in Days

TrackInit ==
  /\ \E h \in Histories : log = h.log /\ seen = h.seen
  /\ blocks = {} /\ calls = [i \in 1 .. MaxCalls |-> None] /\ onDay = FALSE /\ viewed = 0 /\ shown = {}
  /\ spent = [reloads |-> 0, commands |-> 0, fails |-> 0]
  /\ applied = [d \in Days |-> {}]

(* A sensor, or the watch for somebody being there, reports: late or not.  *)
SensorReports(n) ==
  /\ seen[n] < Len(log[n])
  /\ seen' = [seen EXCEPT ![n] = @ + 1]
  /\ UNCHANGED <<log, blocks, calls, onDay, viewed, shown, spent, applied>>

-----------------------------------------------------------------------------
(* The window.  reload_blocks: the newest load is the one whose answer is  *)
(* taken (blocks_generation); the ones before it run on.                   *)

\* Mutant: the day is loaded without an ingest before.
LoadsOnly(d, by) == [day |-> d, by |-> by, current |-> by = "window", at |-> "load",
                     read |-> {}, rows |-> {}]

Call(d, by) == [day |-> d, by |-> by, current |-> by = "window", at |-> "sensors",
                read |-> {}, rows |-> {}]

Free == {i \in DOMAIN calls : calls[i] = None}
FreeCall == CHOOSE i \in Free : \A j \in Free : i <= j

ReloadBlocks(d) ==
  /\ Free # {}
  /\ calls' = [i \in DOMAIN calls |->
                 IF i = FreeCall THEN Call(d, "window")
                 ELSE IF calls[i] = None THEN None
                 ELSE [calls[i] EXCEPT !.current = FALSE]]
  /\ viewed' = d

Spend(what) == spent' = [spent EXCEPT ![what] = @ + 1]

(* Every minute, while the Day view is on screen.                          *)
Tick ==
  /\ onDay /\ \A i \in DOMAIN calls \ Free : ~calls[i].current
  /\ ReloadBlocks(viewed)
  /\ UNCHANGED <<log, seen, blocks, onDay, shown, spent, applied>>

DayStep(d) ==
  /\ onDay /\ d \in Days /\ d \in {viewed - 1, viewed + 1}
  /\ spent.reloads < MaxReloads /\ Spend("reloads")
  /\ ReloadBlocks(d)
  /\ UNCHANGED <<log, seen, blocks, onDay, shown, applied>>

(* To the Day view; away from it nothing is loaded.                        *)
Navigate ==
  /\ spent.reloads < MaxReloads /\ Spend("reloads")
  /\ onDay' = ~onDay
  /\ IF onDay THEN UNCHANGED <<calls, viewed>> ELSE ReloadBlocks(viewed)
  /\ UNCHANGED <<log, seen, blocks, shown, applied>>

(* Refresh, or asstd's Changed.                                            *)
Reload ==
  /\ onDay /\ spent.reloads < MaxReloads /\ Spend("reloads")
  /\ ReloadBlocks(viewed)
  /\ UNCHANGED <<log, seen, blocks, onDay, shown, applied>>

-----------------------------------------------------------------------------
(* An ingest, of asstd or of the command: one query per sensor, then the   *)
(* not-afk spans, and then the rows, in one transaction.                   *)

CommandIngests(d) ==
  /\ spent.commands < MaxCommands /\ Spend("commands")
  /\ Free # {}
  /\ calls' = [calls EXCEPT ![FreeCall] = Call(d, "command")]
  /\ UNCHANGED <<log, seen, blocks, onDay, viewed, shown, applied>>

(* The command is done where the window goes on to what is stored.         *)
Ingested(i) ==
  calls' = [calls EXCEPT ![i] = IF @.by = "window" THEN [@ EXCEPT !.at = "load", !.read = {}, !.rows = {}]
                                ELSE None]

(* The sensors' logs, each joined with not-afk, and then not-afk again.    *)
(* The logs grow apart from each other, so that what is read of them one   *)
(* after the other could also have been read at once.                      *)
QuerySensors(i) ==
  /\ calls[i].at = "sensors"
  /\ calls' = [calls EXCEPT ![i].at = "afk",
                            ![i].read = Answer[Now, calls[i].day].read]
  /\ UNCHANGED <<log, seen, blocks, onDay, viewed, shown, spent, applied>>

QueryAfk(i) ==
  /\ calls[i].at = "afk"
  /\ calls' = [calls EXCEPT ![i].at = "ingest",
        ![i].rows = Sessions[<<calls[i].read, Answer[Now, calls[i].day].allowed>>]]
  /\ UNCHANGED <<log, seen, blocks, onDay, viewed, shown, spent, applied>>

(* A query that fails ends the ingest, and nothing is written.             *)
QueryFails(i) ==
  /\ calls[i].at \in {"sensors", "afk"} /\ spent.fails < MaxFails /\ Spend("fails")
  /\ Ingested(i)
  /\ UNCHANGED <<log, seen, blocks, onDay, viewed, shown, applied>>

IngestSpans(i) ==
  LET c == calls[i] IN
  /\ c.at = "ingest"
  /\ blocks' = ReplaceActualBlocks(c.day, c.rows)
  /\ applied' = [applied EXCEPT ![c.day] = c.read]
  /\ Ingested(i)
  /\ UNCHANGED <<log, seen, onDay, viewed, shown, spent>>

LoadBlocks(i) ==
  /\ calls[i].at = "load"
  /\ calls' = [calls EXCEPT ![i].at = "show", ![i].rows = BlocksBetween(calls[i].day)]
  /\ UNCHANGED <<log, seen, blocks, onDay, viewed, shown, spent, applied>>

(* The blocks cannot be had: a toast says so and the window keeps its own. *)
LoadFails(i) ==
  /\ calls[i].at = "load" /\ spent.fails < MaxFails /\ Spend("fails")
  /\ calls' = [calls EXCEPT ![i] = None]
  /\ UNCHANGED <<log, seen, blocks, onDay, viewed, shown, applied>>

BlocksLoaded(i) ==
  /\ calls[i].at = "show"
  /\ shown' = IF calls[i].current THEN calls[i].rows ELSE shown
  /\ calls' = [calls EXCEPT ![i] = None]
  /\ UNCHANGED <<log, seen, blocks, onDay, viewed, spent, applied>>

CallStep(i) ==
  /\ calls[i] # None
  /\ \/ QuerySensors(i) \/ QueryAfk(i) \/ QueryFails(i) \/ IngestSpans(i)
     \/ LoadBlocks(i) \/ LoadFails(i) \/ BlocksLoaded(i)

TrackNext ==
  \/ \E n \in Logs : SensorReports(n)
  \/ Tick \/ Navigate \/ Reload
  \/ \E d \in Days : DayStep(d) \/ CommandIngests(d)
  \/ \E i \in 1 .. MaxCalls : CallStep(i)

TrackFairness == WF_trackVars(Tick) /\ \A i \in 1 .. MaxCalls : WF_trackVars(CallStep(i))

TrackSpec == TrackInit /\ [][TrackNext]_trackVars /\ TrackFairness

-----------------------------------------------------------------------------
(* What the rows of a day are to be, from the readings that were read.     *)

Loose(r) == ResolveTag(r).source = "untagged"
KeyOf(r) ==
  LET tag == ResolveTag(r).project
  IN <<tag, IF tag = "untagged" /\ Loose(r) THEN UntaggedKey(r).label ELSE tag>>
RowKey(b) == <<b.source[2], b.label>>

(* The minutes, by name, that the sessions have to show: a bare window     *)
(* gives way to a web page, what has no name to what has one, and what is  *)
(* too short for a span is noise.                                          *)
Due(readings) ==
  LET known == {[key |-> KeyOf(r), ticks |-> Ticks(r),
                 signal |-> IF Loose(r) THEN UntaggedKey(r).kind ELSE None] : r \in readings}
      named == UNION {k.ticks : k \in {k \in known : k.key[1] # "untagged"}}
      web == UNION {k.ticks : k \in {k \in known : k.signal = "domain"}}
      Own(k) == (k.ticks \ (IF k.signal = "app" THEN web ELSE {}))
                  \ (IF k.key[1] = "untagged" THEN named ELSE {})
  IN {[key |-> k.key,
       ticks |-> AllTicks({s \in Stretches(Own(k)) : Seconds(s) >= MinSpan})] : k \in known}

DueOf == [readings \in {Answer[m, d].read : m \in Moments, d \in Days} \cup {{}} |-> Due(readings)]

(* Every minute of a reading that is long enough is in a session of its    *)
(* name.  Two untagged names whose sessions start together share a source, *)
(* and one of them is lost: that is as the code is.                        *)
MinutesKept(due, rows) ==
  \A q \in due : \A t \in q.ticks :
    \/ \E b \in rows : RowKey(b) = q.key /\ t \in Ticks(b)
    \/ q.key[1] = "untagged" /\ \E b \in rows : RowKey(b) # q.key /\ b.source[2] = "untagged"

(* A session begins and ends at work of its own name that no other name    *)
(* stands for, and is more than Gap from the next of that name.            *)
SessionsApart(due, rows) ==
  \A b \in rows :
    /\ \A t \in {b.start, b.end - 1} : \E q \in due : q.key = RowKey(b) /\ t \in q.ticks
    /\ \A o \in rows \ {b} : RowKey(o) = RowKey(b) =>
         o.start > b.end + Gap \/ b.start > o.end + Gap

(* The table holds, of each day, the sessions of the last ingest of that   *)
(* day and nothing else, whoever ran it and whatever ran beside it.        *)
DayHolds(d) ==
  LET due == DueOf[applied[d]]
      rows == BlocksBetween(d)
  IN MinutesKept(due, rows) /\ SessionsApart(due, rows)
SessionsHold == [][<<blocks, applied>>' # <<blocks, applied>> => \A d \in Days : DayHolds(d)']_trackVars

(* Once the sensors are quiet and the window stays on a day, it comes to   *)
(* show that day as the logs have it, though a slower ingest wrote an      *)
(* older reading over a newer one.                                         *)
Quiet == \A n \in Logs : seen[n] = Len(log[n])
ShownCatchesUp ==
  (<>[]onDay /\ <>[]Quiet)
    => <>[](/\ applied[viewed] = Answer[Now, viewed].read
            /\ shown = BlocksBetween(viewed))

=============================================================================
