------------------------------ MODULE TaskData ------------------------------
(***************************************************************************)
(* The data of one task: a server copy, the edits asst queues on top of    *)
(* it, and the two combined.  (asst-core: task.rs, store.rs)               *)
(*                                                                         *)
(* A task is abstracted to what synchronisation tells apart:               *)
(*   kind   "todo", a to-do; "broken", a to-do whose RRULE cannot be read, *)
(*          so that completing it is refused; "other", not a to-do at all; *)
(*   title  the value of any property an edit sets outright (the id of the *)
(*          edit that set it last, so that equal titles mean same edit);   *)
(*   due    how far a repeating task has been advanced;                    *)
(*   seen   which edits, local or the phone's, this copy was made from.    *)
(*          No code reads it: it is how the properties follow an edit.     *)
(* An edit is "title", which sets a property to a value, or "complete",    *)
(* which on a repeating task adds to what is there.                        *)
(***************************************************************************)
EXTENDS Naturals, Sequences, FiniteSets

Kinds == {"todo", "broken", "other"}

Body == [kind : Kinds, title : Nat, due : Nat, seen : SUBSET Nat]

Edit == [id : Nat, op : {"title", "complete"}]

\* What task::new_ical returns: an empty to-do no edit has touched.
NewBody == [kind |-> "todo", title |-> 0, due |-> 0, seen |-> {}]

Positions(es, op) == {i \in 1 .. Len(es) : es[i].op = op}

Ids(es) == {es[i].id : i \in 1 .. Len(es)}

Newest(S) == CHOOSE i \in S : \A j \in S : j <= i

(***************************************************************************)
(* task::apply: edits applied in order.  Setting a property leaves the     *)
(* last value set; each completion of a repeating task advances it once,   *)
(* from wherever it is.                                                    *)
(***************************************************************************)
Combined(b, es) ==
  [kind  |-> b.kind,
   title |-> IF Positions(es, "title") = {}
             THEN b.title
             ELSE es[Newest(Positions(es, "title"))].id,
   due   |-> b.due + Cardinality(Positions(es, "complete")),
   seen  |-> b.seen \cup Ids(es)]

\* task::apply (or reading the task back) fails: there is no VTODO, or a
\* completion meets a rule that cannot be read.
Refuses(b, es) ==
  \/ b.kind = "other"
  \/ b.kind = "broken" /\ Positions(es, "complete") # {}

\* store.rs already_applied: does the server copy show what the edits would do?
AlreadyApplied(expected, server, es) ==
  /\ Positions(es, "title") # {} => expected.title = server.title
  /\ Positions(es, "complete") # {} =>
       expected.due = server.due /\ expected.kind = server.kind

=============================================================================
