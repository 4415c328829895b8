------------------------------- MODULE Rounds -------------------------------
(***************************************************************************)
(* What sync_and_wait promises to who calls it, and no more: rounds are    *)
(* run one after another, and who asks is answered when a round is over    *)
(* that began after they asked.  SyncLoop does this with two counters and  *)
(* a permit (asstd/src/daemon.rs: sync_and_wait, sync_loop).               *)
(***************************************************************************)
CONSTANT Askers

VARIABLES
  asking,   \* who waits for an answer
  running,  \* a round is under way
  counted,  \* who had asked when it began
  answered  \* who had asked when the last one that is over began

vars == <<asking, running, counted, answered>>

Ask(a) ==
  /\ a \notin asking
  /\ asking' = asking \cup {a}
  /\ counted' = counted \ {a} /\ answered' = answered \ {a}
  /\ UNCHANGED running

Begin ==
  /\ ~running /\ running' = TRUE
  /\ counted' = asking
  /\ UNCHANGED <<asking, answered>>

End ==
  /\ running /\ running' = FALSE
  /\ answered' = counted
  /\ UNCHANGED <<asking, counted>>

Leave(a) ==
  /\ a \in asking \cap answered
  /\ asking' = asking \ {a}
  /\ UNCHANGED <<running, counted, answered>>

Init == asking = {} /\ running = FALSE /\ counted = {} /\ answered = {}

Next == Begin \/ End \/ \E a \in Askers : Ask(a) \/ Leave(a)

Spec == Init /\ [][Next]_vars

\* Rounds go on, and who was answered leaves.
FairSpec == Spec /\ WF_vars(Begin) /\ WF_vars(End) /\ \A a \in Askers : WF_vars(Leave(a))

=============================================================================
