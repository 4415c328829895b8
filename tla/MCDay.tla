-------------------------------- MODULE MCDay --------------------------------
(***************************************************************************)
(* The two halves of the window's Day view: what was tracked (Track) and   *)
(* what is planned (DayPlan).  They share no state but the day on view,    *)
(* which each walks for itself, so a behaviour is of one half or of the    *)
(* other.                                                                  *)
(*                                                                         *)
(* Tracked: two days of eight ticks.  One history arrives reading by       *)
(* reading while days are loaded; the others are over when the window      *)
(* first looks, and are there for what they make of the sessions.          *)
(* Planned: two or three days of eight minutes, on a grid of two.          *)
(***************************************************************************)
EXTENDS Track, DayPlan

MCDays == 0 .. 1
MCSensors == <<"claude", "window", "web">>

There(a, b) == [start |-> a, end |-> b, project |-> None, cwd |-> None, inCwd |-> None,
                inTitle |-> None, domain |-> None, app |-> None, uid |-> None, detail |-> None]
Claude(a, b, p) == [There(a, b) EXCEPT !.project = p]
For(r, task) == [r EXCEPT !.uid = task]
On(r, what) == [r EXCEPT !.detail = what]
In(a, b, dir, p) == [There(a, b) EXCEPT !.cwd = dir, !.inCwd = p]
Web(a, b, site) == [There(a, b) EXCEPT !.domain = site]
Window(a, b, name) == [There(a, b) EXCEPT !.app = name]
Terminal(a, b, p) == [Window(a, b, "kitty") EXCEPT !.inTitle = p]

Rule == [tag |-> None, uid |-> None, project |-> None, cwd |-> None, domain |-> None, app |-> None]
MCRules == <<[Rule EXCEPT !.tag = "nothing"],
             [Rule EXCEPT !.tag = "email", !.uid = "inbox", !.domain = "mail"],
             [Rule EXCEPT !.tag = "lab", !.app = "matlab"]>>

History(claude, window, web, afk) ==
  "claude" :> claude @@ "window" :> window @@ "web" :> web @@ "afk" :> afk
Arriving(h) == [log |-> h, seen |-> [n \in DOMAIN h |-> 0]]
Over(h) == [log |-> h, seen |-> [n \in DOMAIN h |-> Len(h[n])]]

MCHistories == {
  (* work through midnight, and somebody there for longer, both told late *)
  Arriving(History(<<Claude(0, 4, "lab"), Claude(6, 10, "lab")>>, <<>>, <<>>,
                   <<There(0, 8), There(5, 12)>>)),
  (* a page within a page, over the browser's window *)
  Over(History(<<>>, <<Window(0, 8, "firefox")>>,
               <<Web(0, 6, "news"), Web(2, 4, "mail"), Web(6, 7, "blank")>>, <<There(0, 16)>>)),
  (* named work and a page beside it through midnight *)
  Over(History(<<Claude(5, 11, "lab")>>, <<Window(9, 16, "game")>>, <<Web(2, 14, "news")>>,
               <<There(0, 16)>>)),
  (* gaps of two and three, and a sliver *)
  Over(History(<<Claude(0, 2, "lab"), Claude(4, 6, "lab"), Claude(7, 8, "lab")>>, <<>>,
               <<Web(8, 10, "news"), Web(13, 15, "news")>>, <<There(0, 16)>>)),
  (* two sites that start together, when somebody comes back *)
  Over(History(<<>>, <<>>, <<Web(0, 5, "news"), Web(1, 7, "video")>>, <<There(2, 9)>>)),
  (* away in between, for as long as a gap and for longer *)
  Over(History(<<Claude(0, 8, "lab")>>, <<Window(8, 16, "game")>>, <<>>,
               <<There(0, 3), There(5, 10), There(13, 16)>>)),
  (* not-afk spans within one another *)
  Over(History(<<Claude(0, 9, "lab"), Claude(2, 4, "types")>>, <<>>, <<>>,
               <<There(0, 8), There(2, 4), There(3, 6)>>)),
  (* one project by several tasks, notes and sensors *)
  Over(History(<<For(Claude(0, 3, "lab"), "t1"), On(Claude(3, 6, "lab"), "draft"),
                 For(In(6, 8, "lib", "lab"), "t2")>>,
               <<Window(2, 7, "matlab"), Terminal(8, 12, "lab")>>, <<>>, <<There(0, 16)>>)),
  (* a directory that names nothing, a task without a project, a terminal *)
  Over(History(<<In(0, 4, "tmp", None), For(There(3, 7), "t1")>>,
               <<Terminal(1, 9, None), Window(10, 14, "game")>>, <<Web(11, 12, "mail")>>,
               <<There(0, 16)>>))
}

-----------------------------------------------------------------------------
MCUids == 1 .. 3
MCOpenSets == {{1, 2, 3}, {2, 3}}
MCClocks == {5}
MCTimed == [u \in {3} |-> 2]
MCDrags == {[start |-> 7, duration |-> 3]}
Slot(u, d, a, n) == [uid |-> u, date |-> d, start |-> a, duration |-> n]
MCSaved == {{Slot(1, 0, 0, 3), Slot(2, 0, 2, 4), Slot(3, 0, 4, 4), Slot(1, 1, 4, 2)}}

-----------------------------------------------------------------------------
VARIABLE half

dayVars == <<trackVars, planVars, half>>

DayInit ==
  /\ half \in {"tracked", "planned"}
  /\ TrackInit /\ PlanInit
  /\ half = "planned" => log = (CHOOSE h \in Histories : TRUE).log

DayNext ==
  \/ half = "tracked" /\ TrackNext /\ UNCHANGED <<planVars, half>>
  \/ half = "planned" /\ PlanNext /\ UNCHANGED <<trackVars, half>>

DaySpec == DayInit /\ [][DayNext]_dayVars /\ TrackFairness

DayTypeOK == TrackTypeOK /\ PlanTypeOK
=============================================================================
