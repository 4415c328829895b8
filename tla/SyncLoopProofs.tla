---------------------------- MODULE SyncLoopProofs ----------------------------
(***************************************************************************)
(* What SyncLoop promises of its rounds, answers, clients and signals, for *)
(* every number of calls, accounts, parts and intervals.  Each promise is  *)
(* made inductive by what has to hold while a round is under way.          *)
(***************************************************************************)
EXTENDS SyncLoop, TLAPS

-----------------------------------------------------------------------------
(* The inductive invariant. *)

\* Who saves an interval saves one there is.
IntervalsSet == \A s \in Setters : sets[s].pc = "read" => sets[s].to \in Intervals

\* The generation of the round is between what was answered and what was asked.
Generations ==
  /\ completed <= gen /\ gen <= requested
  /\ pc = "sleep" => completed = gen
  /\ \A a \in Askers : asks[a].pc # "idle" => asks[a].want <= requested

\* Who asked before the round began was counted when it did.
Begun ==
  pc \in {"client", "password", "push", "pull", "drop", "answer"} =>
    \A a \in Askers : asks[a].pc # "idle" /\ asks[a].want <= gen => a \in begun

\* Until the permit is taken for the next round, who waits for that has left one.
Waiters ==
  pc \notin {"debounce", "start"} =>
    \A a \in Askers : asks[a].pc = "waiting" /\ asks[a].want > gen => permit.sync

\* What was edited after the push of a round has left one, too.
Edits ==
  /\ pc \in {"client", "password", "push", "pull", "drop"} => ~went
  /\ pc = "pull" \/ (pc \in {"answer", "sleep"} /\ went) => (unsent /\ ~edit => permit.sync)

\* The account a client is made for is the one signed in, or the client goes.
UsesTheAccount ==
  pc = "password" => using = config.account \/ \E s \in Signers : signs[s].pc = "client"

\* A call of set_settings that is alone has read the interval there is.
OneSets ==
  ~overlaps =>
    /\ \A s, t \in Setters : sets[s].pc = "read" /\ sets[t].pc = "read" => s = t
    /\ \A s \in Setters : sets[s].pc = "read" => sets[s].before = config.interval

LoopInvariant ==
  /\ TypeOK /\ IntervalsSet /\ Generations /\ Begun /\ Waiters /\ Edits /\ UsesTheAccount /\ OneSets
  /\ AnsweredByALaterRound /\ ClientIsTheAccounts /\ SleepsAsSet /\ ChangesAreTold

-----------------------------------------------------------------------------
(* Each part is kept by every step. *)

LoopType ==
  /\ config \in [account : Accounts \cup {None}, interval : Intervals]
  /\ cached \in Accounts \cup {None} /\ mutex \in {None, "loop"}
  /\ pc \in Places /\ (mutex = "loop" <=> pc = "password")
  /\ gen \in Nat /\ using \in Accounts \cup {None} /\ left \subseteq Parts
  /\ changed \in BOOLEAN /\ armed \in Intervals \cup {None} /\ went \in BOOLEAN
CallType ==
  /\ requested \in Nat /\ completed \in Nat
  /\ permit \in [sync : BOOLEAN, settings : BOOLEAN]
  /\ asks \in [Askers -> [pc : {"idle", "asked", "waiting"}, want : Nat]]
  /\ sets \in [Setters -> [pc : {"idle", "read", "saved"}, before : Intervals \cup {None},
                           to : Intervals \cup {None}]]
  /\ signs \in [Signers -> [pc : {"idle", "config", "client", "store", "status"},
                            account : Accounts \cup {None}, reset : BOOLEAN]]
  /\ edit \in BOOLEAN
ToldType ==
  /\ unsent \in BOOLEAN /\ news \subseteq Parts /\ untold \in BOOLEAN
  /\ status \in States /\ heard \in States
  /\ mail \in [changed : BOOLEAN, status : States \cup {None}]
RestType ==
  /\ used \in [events : Nat, faults : Nat]
  /\ begun \subseteq Askers /\ served \subseteq Askers /\ overlaps \in BOOLEAN /\ dropped \in BOOLEAN

LEMMA TypeParts ==
  /\ TypeOK <=> LoopType /\ CallType /\ ToldType /\ RestType
  /\ TypeOK' <=> LoopType' /\ CallType' /\ ToldType' /\ RestType'
BY DEF TypeOK, LoopType, CallType, ToldType, RestType

LEMMA Names == None \notin Accounts /\ None \notin Intervals /\ None \notin Signers /\ None # "loop"
BY AccountsAssumption, WhoAssumption DEF None

LEMMA TypesKept ==
  ASSUME TypeOK, IntervalsSet, Next
  PROVE  TypeOK'
<1>1. ASSUME Begin
      PROVE  TypeOK'
  <2>1. LoopType'
    BY <1>1, TypeParts, Names DEF Begin, LoopAt, account, round, counts, store, told,
       ghosts, States, Places, None, NoAsk, NoSet, NoSign, IntervalsSet, LoopType,
       CallType
  <2>2. CallType'
    BY <1>1, TypeParts, Names DEF Begin, LoopAt, account, round, counts, store, told,
       ghosts, States, Places, None, NoAsk, NoSet, NoSign, IntervalsSet, CallType
  <2>3. ToldType'
    BY <1>1, TypeParts, Names DEF Begin, LoopAt, account, round, counts, store, told,
       ghosts, States, Places, None, NoAsk, NoSet, NoSign, IntervalsSet, ToldType
  <2>4. RestType'
    BY <1>1, TypeParts, Names DEF Begin, LoopAt, account, round, counts, store, told,
       ghosts, States, Places, None, NoAsk, NoSet, NoSign, IntervalsSet, RestType
  <2> QED BY <2>1, <2>2, <2>3, <2>4, TypeParts
<1>2. ASSUME Client
      PROVE  TypeOK'
  <2>1. LoopType'
    BY <1>2, TypeParts, Names DEF Client, LoopAt, Start, NotSignedIn, Fails, Says, account,
       round, counts, store, told, ghosts, States, Places, None, NoAsk, NoSet, NoSign,
       IntervalsSet, LoopType
  <2>2. CallType'
    BY <1>2, TypeParts, Names DEF Client, LoopAt, Start, NotSignedIn, Fails, Says, account,
       round, counts, store, told, ghosts, States, Places, None, NoAsk, NoSet, NoSign,
       IntervalsSet, CallType
  <2>3. ToldType'
    BY <1>2, TypeParts, Names DEF Client, LoopAt, Start, NotSignedIn, Fails, Says, account,
       round, counts, store, told, ghosts, States, Places, None, NoAsk, NoSet, NoSign,
       IntervalsSet, ToldType
  <2>4. RestType'
    BY <1>2, TypeParts, Names DEF Client, LoopAt, Start, NotSignedIn, Fails, Says, account,
       round, counts, store, told, ghosts, States, Places, None, NoAsk, NoSet, NoSign,
       IntervalsSet, RestType
  <2> QED BY <2>1, <2>2, <2>3, <2>4, TypeParts
<1>3. ASSUME Password
      PROVE  TypeOK'
  <2>1. LoopType'
    BY <1>3, TypeParts, Names DEF Password, LoopAt, Start, Fails, Says, Fault, account,
       round, counts, store, told, ghosts, States, Places, None, NoAsk, NoSet, NoSign,
       IntervalsSet, LoopType
  <2>2. CallType'
    BY <1>3, TypeParts, Names DEF Password, LoopAt, Start, Fails, Says, Fault, account,
       round, counts, store, told, ghosts, States, Places, None, NoAsk, NoSet, NoSign,
       IntervalsSet, CallType
  <2>3. ToldType'
    BY <1>3, TypeParts, Names DEF Password, LoopAt, Start, Fails, Says, Fault, account,
       round, counts, store, told, ghosts, States, Places, None, NoAsk, NoSet, NoSign,
       IntervalsSet, ToldType
  <2>4. RestType'
    BY <1>3, TypeParts, Names DEF Password, LoopAt, Start, Fails, Says, Fault, account,
       round, counts, store, told, ghosts, States, Places, None, NoAsk, NoSet, NoSign,
       IntervalsSet, RestType
  <2> QED BY <2>1, <2>2, <2>3, <2>4, TypeParts
<1>4. ASSUME Push
      PROVE  TypeOK'
  <2>1. LoopType'
    BY <1>4, TypeParts, Names DEF Push, LoopAt, account, round, counts, store, told,
       ghosts, States, Places, None, NoAsk, NoSet, NoSign, IntervalsSet, LoopType,
       ToldType
  <2>2. CallType'
    BY <1>4, TypeParts, Names DEF Push, LoopAt, account, round, counts, store, told,
       ghosts, States, Places, None, NoAsk, NoSet, NoSign, IntervalsSet, CallType
  <2>3. ToldType'
    BY <1>4, TypeParts, Names DEF Push, LoopAt, account, round, counts, store, told,
       ghosts, States, Places, None, NoAsk, NoSet, NoSign, IntervalsSet, ToldType
  <2>4. RestType'
    BY <1>4, TypeParts, Names DEF Push, LoopAt, account, round, counts, store, told,
       ghosts, States, Places, None, NoAsk, NoSet, NoSign, IntervalsSet, RestType
  <2> QED BY <2>1, <2>2, <2>3, <2>4, TypeParts
<1>5. ASSUME NEW part \in Parts, Pull(part)
      PROVE  TypeOK'
  BY <1>5, Names DEF Pull, Counts, LoopAt, account, round, counts, store, told, ghosts,
     TypeOK, States, Places, None, NoAsk, NoSet, NoSign, IntervalsSet
<1>6. ASSUME RoundDone
      PROVE  TypeOK'
  <2>1. LoopType'
    BY <1>6, TypeParts, Names DEF RoundDone, LoopAt, Says, SaysBoth, account, round,
       counts, store, told, ghosts, States, Places, None, NoAsk, NoSet, NoSign,
       IntervalsSet, LoopType
  <2>2. CallType'
    BY <1>6, TypeParts, Names DEF RoundDone, LoopAt, Says, SaysBoth, account, round,
       counts, store, told, ghosts, States, Places, None, NoAsk, NoSet, NoSign,
       IntervalsSet, CallType
  <2>3. ToldType'
    <3>1. CASE changed
      <4>1. SaysBoth("Idle") /\ UNCHANGED store
        BY <1>6, <3>1 DEF RoundDone
      <4> QED BY <4>1, TypeParts DEF SaysBoth, store, ToldType, States, None
    <3>2. CASE ~changed
      <4>1. Says("Idle") /\ UNCHANGED store
        BY <1>6, <3>2 DEF RoundDone
      <4> QED BY <4>1, TypeParts DEF Says, store, ToldType, States, None
    <3> QED BY <3>1, <3>2
  <2>4. RestType'
    BY <1>6, TypeParts, Names DEF RoundDone, LoopAt, Says, SaysBoth, account, round,
       counts, store, told, ghosts, States, Places, None, NoAsk, NoSet, NoSign,
       IntervalsSet, RestType
  <2> QED BY <2>1, <2>2, <2>3, <2>4, TypeParts
<1>7. ASSUME RoundFails
      PROVE  TypeOK'
  <2>1. LoopType'
    BY <1>7, TypeParts, Names DEF RoundFails, LoopAt, Fails, Says, Fault, account, round,
       counts, store, told, ghosts, States, Places, None, NoAsk, NoSet, NoSign,
       IntervalsSet, LoopType
  <2>2. CallType'
    BY <1>7, TypeParts, Names DEF RoundFails, LoopAt, Fails, Says, Fault, account, round,
       counts, store, told, ghosts, States, Places, None, NoAsk, NoSet, NoSign,
       IntervalsSet, CallType
  <2>3. ToldType'
    BY <1>7, TypeParts, Names DEF RoundFails, LoopAt, Fails, Says, Fault, account, round,
       counts, store, told, ghosts, States, Places, None, NoAsk, NoSet, NoSign,
       IntervalsSet, ToldType
  <2>4. RestType'
    BY <1>7, TypeParts, Names DEF RoundFails, LoopAt, Fails, Says, Fault, account, round,
       counts, store, told, ghosts, States, Places, None, NoAsk, NoSet, NoSign,
       IntervalsSet, RestType
  <2> QED BY <2>1, <2>2, <2>3, <2>4, TypeParts
<1>8. ASSUME DropClient
      PROVE  TypeOK'
  <2>1. LoopType'
    BY <1>8, TypeParts, Names DEF DropClient, LoopAt, Fails, Says, account, round, counts,
       store, told, ghosts, States, Places, None, NoAsk, NoSet, NoSign, IntervalsSet,
       LoopType
  <2>2. CallType'
    BY <1>8, TypeParts, Names DEF DropClient, LoopAt, Fails, Says, account, round, counts,
       store, told, ghosts, States, Places, None, NoAsk, NoSet, NoSign, IntervalsSet,
       CallType
  <2>3. ToldType'
    BY <1>8, TypeParts, Names DEF DropClient, LoopAt, Fails, Says, account, round, counts,
       store, told, ghosts, States, Places, None, NoAsk, NoSet, NoSign, IntervalsSet,
       ToldType
  <2>4. RestType'
    BY <1>8, TypeParts, Names DEF DropClient, LoopAt, Fails, Says, account, round, counts,
       store, told, ghosts, States, Places, None, NoAsk, NoSet, NoSign, IntervalsSet,
       RestType
  <2> QED BY <2>1, <2>2, <2>3, <2>4, TypeParts
<1>9. ASSUME Answer
      PROVE  TypeOK'
  BY <1>9, Names DEF Answer, Answered, LoopAt, account, round, counts, store, told, ghosts,
     TypeOK, States, Places, None, NoAsk, NoSet, NoSign, IntervalsSet
<1>10. ASSUME Elapses
       PROVE  TypeOK'
  BY <1>10, Names DEF Elapses, Sleeping, LoopAt, account, round, counts, store, told,
     ghosts, TypeOK, States, Places, None, NoAsk, NoSet, NoSign, IntervalsSet
<1>11. ASSUME Woken
       PROVE  TypeOK'
  <2>1. LoopType'
    BY <1>11, TypeParts, Names DEF Woken, Sleeping, LoopAt, account, round, counts, store,
       told, ghosts, States, Places, None, NoAsk, NoSet, NoSign, IntervalsSet, LoopType
  <2>2. CallType'
    BY <1>11, TypeParts, Names DEF Woken, Sleeping, LoopAt, account, round, counts, store,
       told, ghosts, States, Places, None, NoAsk, NoSet, NoSign, IntervalsSet, CallType
  <2>3. ToldType'
    BY <1>11, TypeParts, Names DEF Woken, Sleeping, LoopAt, account, round, counts, store,
       told, ghosts, States, Places, None, NoAsk, NoSet, NoSign, IntervalsSet, ToldType
  <2>4. RestType'
    BY <1>11, TypeParts, Names DEF Woken, Sleeping, LoopAt, account, round, counts, store,
       told, ghosts, States, Places, None, NoAsk, NoSet, NoSign, IntervalsSet, RestType
  <2> QED BY <2>1, <2>2, <2>3, <2>4, TypeParts
<1>12. ASSUME Rearm
       PROVE  TypeOK'
  <2>1. LoopType'
    BY <1>12, TypeParts, Names DEF Rearm, Sleeping, LoopAt, account, round, counts, store,
       told, ghosts, States, Places, None, NoAsk, NoSet, NoSign, IntervalsSet, LoopType
  <2>2. CallType'
    BY <1>12, TypeParts, Names DEF Rearm, Sleeping, LoopAt, account, round, counts, store,
       told, ghosts, States, Places, None, NoAsk, NoSet, NoSign, IntervalsSet, CallType
  <2>3. ToldType'
    BY <1>12, TypeParts, Names DEF Rearm, Sleeping, LoopAt, account, round, counts, store,
       told, ghosts, States, Places, None, NoAsk, NoSet, NoSign, IntervalsSet, ToldType
  <2>4. RestType'
    BY <1>12, TypeParts, Names DEF Rearm, Sleeping, LoopAt, account, round, counts, store,
       told, ghosts, States, Places, None, NoAsk, NoSet, NoSign, IntervalsSet, RestType
  <2> QED BY <2>1, <2>2, <2>3, <2>4, TypeParts
<1>13. ASSUME Debounced
       PROVE  TypeOK'
  BY <1>13, Names DEF Debounced, LoopAt, account, round, counts, store, told, ghosts,
     TypeOK, States, Places, None, NoAsk, NoSet, NoSign, IntervalsSet
<1>14. ASSUME NEW a \in Askers, AskWakes(a)
       PROVE  TypeOK'
  <2>1. LoopType'
    BY <1>14, TypeParts, Names DEF AskWakes, CallOf, Wake, account, round, counts, store,
       told, ghosts, States, Places, None, NoAsk, NoSet, NoSign, IntervalsSet, LoopType
  <2>2. CallType'
    BY <1>14, TypeParts, Names DEF AskWakes, CallOf, Wake, account, round, counts, store,
       told, ghosts, States, Places, None, NoAsk, NoSet, NoSign, IntervalsSet, CallType
  <2>3. ToldType'
    BY <1>14, TypeParts, Names DEF AskWakes, CallOf, Wake, account, round, counts, store,
       told, ghosts, States, Places, None, NoAsk, NoSet, NoSign, IntervalsSet, ToldType
  <2>4. RestType'
    BY <1>14, TypeParts, Names DEF AskWakes, CallOf, Wake, account, round, counts, store,
       told, ghosts, States, Places, None, NoAsk, NoSet, NoSign, IntervalsSet, RestType
  <2> QED BY <2>1, <2>2, <2>3, <2>4, TypeParts
<1>15. ASSUME NEW a \in Askers, AskAnswered(a)
       PROVE  TypeOK'
  BY <1>15, Names DEF AskAnswered, CallOf, account, round, counts, store, told, ghosts,
     TypeOK, States, Places, None, NoAsk, NoSet, NoSign, IntervalsSet
<1>16. ASSUME EditTold
       PROVE  TypeOK'
  <2>1. LoopType'
    BY <1>16, TypeParts, Names DEF EditTold, CallOf, SaysChanged, Wake, account, round,
       counts, store, told, ghosts, States, Places, None, NoAsk, NoSet, NoSign,
       IntervalsSet, LoopType
  <2>2. CallType'
    BY <1>16, TypeParts, Names DEF EditTold, CallOf, SaysChanged, Wake, account, round,
       counts, store, told, ghosts, States, Places, None, NoAsk, NoSet, NoSign,
       IntervalsSet, CallType
  <2>3. ToldType'
    BY <1>16, TypeParts, Names DEF EditTold, CallOf, SaysChanged, Wake, account, round,
       counts, store, told, ghosts, States, Places, None, NoAsk, NoSet, NoSign,
       IntervalsSet, ToldType
  <2>4. RestType'
    BY <1>16, TypeParts, Names DEF EditTold, CallOf, SaysChanged, Wake, account, round,
       counts, store, told, ghosts, States, Places, None, NoAsk, NoSet, NoSign,
       IntervalsSet, RestType
  <2> QED BY <2>1, <2>2, <2>3, <2>4, TypeParts
<1>17. ASSUME NEW s \in Setters, SetSaves(s)
       PROVE  TypeOK'
  BY <1>17, Names DEF SetSaves, Differs, CallOf, account, round, counts, store, told,
     ghosts, TypeOK, States, Places, None, NoAsk, NoSet, NoSign, IntervalsSet
<1>18. ASSUME NEW s \in Setters, SetWakes(s)
       PROVE  TypeOK'
  <2>1. LoopType'
    BY <1>18, TypeParts, Names DEF SetWakes, CallOf, account, round, counts, store, told,
       ghosts, States, Places, None, NoAsk, NoSet, NoSign, IntervalsSet, LoopType
  <2>2. CallType'
    BY <1>18, TypeParts, Names DEF SetWakes, CallOf, account, round, counts, store, told,
       ghosts, States, Places, None, NoAsk, NoSet, NoSign, IntervalsSet, CallType
  <2>3. ToldType'
    BY <1>18, TypeParts, Names DEF SetWakes, CallOf, account, round, counts, store, told,
       ghosts, States, Places, None, NoAsk, NoSet, NoSign, IntervalsSet, ToldType
  <2>4. RestType'
    BY <1>18, TypeParts, Names DEF SetWakes, CallOf, account, round, counts, store, told,
       ghosts, States, Places, None, NoAsk, NoSet, NoSign, IntervalsSet, RestType
  <2> QED BY <2>1, <2>2, <2>3, <2>4, TypeParts
<1>19. ASSUME NEW s \in Signers, SignSaves(s)
       PROVE  TypeOK'
  <2>1. LoopType'
    BY <1>19, TypeParts, Names DEF SignSaves, CallOf, account, round, counts, store, told,
       ghosts, States, Places, None, NoAsk, NoSet, NoSign, IntervalsSet, LoopType,
       CallType
  <2>2. CallType'
    <3>1. Replaces(signs[s].account) \in BOOLEAN
      BY DEF Replaces
    <3> QED BY <1>19, <3>1, TypeParts DEF SignSaves, CallOf, CallType, LoopType, round, counts
  <2>3. ToldType'
    BY <1>19, TypeParts, Names DEF SignSaves, CallOf, account, round, counts, store, told,
       ghosts, States, Places, None, NoAsk, NoSet, NoSign, IntervalsSet, ToldType
  <2>4. RestType'
    BY <1>19, TypeParts, Names DEF SignSaves, CallOf, account, round, counts, store, told,
       ghosts, States, Places, None, NoAsk, NoSet, NoSign, IntervalsSet, RestType
  <2> QED BY <2>1, <2>2, <2>3, <2>4, TypeParts
<1>20. ASSUME NEW s \in Signers, SignDrops(s)
       PROVE  TypeOK'
  BY <1>20, Names DEF SignDrops, ClientFree, CallOf, account, round, counts, store, told,
     ghosts, TypeOK, States, Places, None, NoAsk, NoSet, NoSign, IntervalsSet
<1>21. ASSUME NEW s \in Signers, SignResets(s)
       PROVE  TypeOK'
  <2>1. LoopType'
    BY <1>21, TypeParts, Names DEF SignResets, CallOf, SaysChanged, account, round, counts,
       store, told, ghosts, States, Places, None, NoAsk, NoSet, NoSign, IntervalsSet,
       LoopType
  <2>2. CallType'
    BY <1>21, TypeParts, Names DEF SignResets, CallOf, SaysChanged, account, round, counts,
       store, told, ghosts, States, Places, None, NoAsk, NoSet, NoSign, IntervalsSet,
       CallType
  <2>3. ToldType'
    BY <1>21, TypeParts, Names DEF SignResets, CallOf, SaysChanged, account, round, counts,
       store, told, ghosts, States, Places, None, NoAsk, NoSet, NoSign, IntervalsSet,
       ToldType
  <2>4. RestType'
    BY <1>21, TypeParts, Names DEF SignResets, CallOf, SaysChanged, account, round, counts,
       store, told, ghosts, States, Places, None, NoAsk, NoSet, NoSign, IntervalsSet,
       RestType
  <2> QED BY <2>1, <2>2, <2>3, <2>4, TypeParts
<1>22. ASSUME NEW s \in Signers, SignSays(s)
       PROVE  TypeOK'
  <2>1. LoopType'
    BY <1>22, TypeParts, Names DEF SignSays, CallOf, Says, Wake, account, round, counts,
       store, told, ghosts, States, Places, None, NoAsk, NoSet, NoSign, IntervalsSet,
       LoopType
  <2>2. CallType'
    BY <1>22, TypeParts, Names DEF SignSays, CallOf, Says, Wake, account, round, counts,
       store, told, ghosts, States, Places, None, NoAsk, NoSet, NoSign, IntervalsSet,
       CallType
  <2>3. ToldType'
    BY <1>22, TypeParts, Names DEF SignSays, CallOf, Says, Wake, account, round, counts,
       store, told, ghosts, States, Places, None, NoAsk, NoSet, NoSign, IntervalsSet,
       ToldType
  <2>4. RestType'
    BY <1>22, TypeParts, Names DEF SignSays, CallOf, Says, Wake, account, round, counts,
       store, told, ghosts, States, Places, None, NoAsk, NoSet, NoSign, IntervalsSet,
       RestType
  <2> QED BY <2>1, <2>2, <2>3, <2>4, TypeParts
<1>23. ASSUME NEW a \in Askers, Ask(a)
       PROVE  TypeOK'
  BY <1>23, Names DEF Ask, CallOf, Event, account, round, counts, store, told, ghosts,
     TypeOK, States, Places, None, NoAsk, NoSet, NoSign, IntervalsSet
<1>24. ASSUME EditMade
       PROVE  TypeOK'
  BY <1>24, Names DEF EditMade, CallOf, Event, account, round, counts, store, told, ghosts,
     TypeOK, States, Places, None, NoAsk, NoSet, NoSign, IntervalsSet
<1>25. ASSUME NEW s \in Setters, NEW i \in Intervals, SetReads(s, i)
       PROVE  TypeOK'
  BY <1>25, Names DEF SetReads, CallOf, Event, account, round, counts, store, told, ghosts,
     TypeOK, States, Places, None, NoAsk, NoSet, NoSign, IntervalsSet
<1>26. ASSUME NEW s \in Signers, NEW who \in Accounts \cup {None}, SignBegins(s, who)
       PROVE  TypeOK'
  BY <1>26, Names DEF SignBegins, CallOf, Event, account, round, counts, store, told,
     ghosts, TypeOK, States, Places, None, NoAsk, NoSet, NoSign, IntervalsSet
<1>27. ASSUME Pump
       PROVE  TypeOK'
  BY <1>27, Names DEF Pump, account, round, counts, store, told, ghosts, TypeOK, States,
     Places, None, NoAsk, NoSet, NoSign, IntervalsSet
<1>28. ASSUME MachineWakes
       PROVE  TypeOK'
  <2>1. LoopType'
    BY <1>28, TypeParts, Names DEF MachineWakes, Around, Event, Wake, account, round,
       counts, store, told, ghosts, States, Places, None, NoAsk, NoSet, NoSign,
       IntervalsSet, LoopType
  <2>2. CallType'
    BY <1>28, TypeParts, Names DEF MachineWakes, Around, Event, Wake, account, round,
       counts, store, told, ghosts, States, Places, None, NoAsk, NoSet, NoSign,
       IntervalsSet, CallType
  <2>3. ToldType'
    BY <1>28, TypeParts, Names DEF MachineWakes, Around, Event, Wake, account, round,
       counts, store, told, ghosts, States, Places, None, NoAsk, NoSet, NoSign,
       IntervalsSet, ToldType
  <2>4. RestType'
    BY <1>28, TypeParts, Names DEF MachineWakes, Around, Event, Wake, account, round,
       counts, store, told, ghosts, States, Places, None, NoAsk, NoSet, NoSign,
       IntervalsSet, RestType
  <2> QED BY <2>1, <2>2, <2>3, <2>4, TypeParts
<1>29. ASSUME NEW part \in Parts, ServerChanges(part)
       PROVE  TypeOK'
  BY <1>29, Names DEF ServerChanges, Around, Event, account, round, counts, store, told,
     ghosts, TypeOK, States, Places, None, NoAsk, NoSet, NoSign, IntervalsSet
<1> QED BY <1>1, <1>2, <1>3, <1>4, <1>5, <1>6, <1>7, <1>8, <1>9, <1>10, <1>11, <1>12,
     <1>13, <1>14, <1>15, <1>16, <1>17, <1>18, <1>19, <1>20, <1>21, <1>22, <1>23, <1>24,
     <1>25, <1>26, <1>27, <1>28, <1>29
     DEF Next, LoopStep, CallStep, PeopleStep

LEMMA IntervalsKept ==
  ASSUME TypeOK, IntervalsSet, Next
  PROVE  IntervalsSet'
<1>1. ASSUME Begin
      PROVE  IntervalsSet'
  BY <1>1 DEF Begin, LoopAt, account, round, counts, store, told, ghosts, TypeOK,
     IntervalsSet, NoSet, None
<1>2. ASSUME Client
      PROVE  IntervalsSet'
  BY <1>2 DEF Client, LoopAt, Start, NotSignedIn, Fails, Says, account, round, counts,
     store, told, ghosts, TypeOK, IntervalsSet, NoSet, None
<1>3. ASSUME Password
      PROVE  IntervalsSet'
  BY <1>3 DEF Password, LoopAt, Start, Fails, Says, Fault, account, round, counts, store,
     told, ghosts, TypeOK, IntervalsSet, NoSet, None
<1>4. ASSUME Push
      PROVE  IntervalsSet'
  BY <1>4 DEF Push, LoopAt, account, round, counts, store, told, ghosts, TypeOK,
     IntervalsSet, NoSet, None
<1>5. ASSUME NEW part \in Parts, Pull(part)
      PROVE  IntervalsSet'
  BY <1>5 DEF Pull, Counts, LoopAt, account, round, counts, store, told, ghosts, TypeOK,
     IntervalsSet, NoSet, None
<1>6. ASSUME RoundDone
      PROVE  IntervalsSet'
  BY <1>6 DEF RoundDone, LoopAt, Says, SaysBoth, account, round, counts, store, told,
     ghosts, TypeOK, IntervalsSet, NoSet, None
<1>7. ASSUME RoundFails
      PROVE  IntervalsSet'
  BY <1>7 DEF RoundFails, LoopAt, Fails, Says, Fault, account, round, counts, store, told,
     ghosts, TypeOK, IntervalsSet, NoSet, None
<1>8. ASSUME DropClient
      PROVE  IntervalsSet'
  BY <1>8 DEF DropClient, LoopAt, Fails, Says, account, round, counts, store, told, ghosts,
     TypeOK, IntervalsSet, NoSet, None
<1>9. ASSUME Answer
      PROVE  IntervalsSet'
  BY <1>9 DEF Answer, Answered, LoopAt, account, round, counts, store, told, ghosts,
     TypeOK, IntervalsSet, NoSet, None
<1>10. ASSUME Elapses
       PROVE  IntervalsSet'
  BY <1>10 DEF Elapses, Sleeping, LoopAt, account, round, counts, store, told, ghosts,
     TypeOK, IntervalsSet, NoSet, None
<1>11. ASSUME Woken
       PROVE  IntervalsSet'
  BY <1>11 DEF Woken, Sleeping, LoopAt, account, round, counts, store, told, ghosts,
     TypeOK, IntervalsSet, NoSet, None
<1>12. ASSUME Rearm
       PROVE  IntervalsSet'
  BY <1>12 DEF Rearm, Sleeping, LoopAt, account, round, counts, store, told, ghosts,
     TypeOK, IntervalsSet, NoSet, None
<1>13. ASSUME Debounced
       PROVE  IntervalsSet'
  BY <1>13 DEF Debounced, LoopAt, account, round, counts, store, told, ghosts, TypeOK,
     IntervalsSet, NoSet, None
<1>14. ASSUME NEW a \in Askers, AskWakes(a)
       PROVE  IntervalsSet'
  BY <1>14 DEF AskWakes, CallOf, Wake, account, round, counts, store, told, ghosts, TypeOK,
     IntervalsSet, NoSet, None
<1>15. ASSUME NEW a \in Askers, AskAnswered(a)
       PROVE  IntervalsSet'
  BY <1>15 DEF AskAnswered, CallOf, account, round, counts, store, told, ghosts, TypeOK,
     IntervalsSet, NoSet, None
<1>16. ASSUME EditTold
       PROVE  IntervalsSet'
  BY <1>16 DEF EditTold, CallOf, SaysChanged, Wake, account, round, counts, store, told,
     ghosts, TypeOK, IntervalsSet, NoSet, None
<1>17. ASSUME NEW s \in Setters, SetSaves(s)
       PROVE  IntervalsSet'
  BY <1>17 DEF SetSaves, Differs, CallOf, account, round, counts, store, told, ghosts,
     TypeOK, IntervalsSet, NoSet, None
<1>18. ASSUME NEW s \in Setters, SetWakes(s)
       PROVE  IntervalsSet'
  BY <1>18 DEF SetWakes, CallOf, account, round, counts, store, told, ghosts, TypeOK,
     IntervalsSet, NoSet, None
<1>19. ASSUME NEW s \in Signers, SignSaves(s)
       PROVE  IntervalsSet'
  BY <1>19 DEF SignSaves, CallOf, account, round, counts, store, told, ghosts, TypeOK,
     IntervalsSet, NoSet, None
<1>20. ASSUME NEW s \in Signers, SignDrops(s)
       PROVE  IntervalsSet'
  BY <1>20 DEF SignDrops, ClientFree, CallOf, account, round, counts, store, told, ghosts,
     TypeOK, IntervalsSet, NoSet, None
<1>21. ASSUME NEW s \in Signers, SignResets(s)
       PROVE  IntervalsSet'
  BY <1>21 DEF SignResets, CallOf, SaysChanged, account, round, counts, store, told,
     ghosts, TypeOK, IntervalsSet, NoSet, None
<1>22. ASSUME NEW s \in Signers, SignSays(s)
       PROVE  IntervalsSet'
  BY <1>22 DEF SignSays, CallOf, Says, Wake, account, round, counts, store, told, ghosts,
     TypeOK, IntervalsSet, NoSet, None
<1>23. ASSUME NEW a \in Askers, Ask(a)
       PROVE  IntervalsSet'
  BY <1>23 DEF Ask, CallOf, Event, account, round, counts, store, told, ghosts, TypeOK,
     IntervalsSet, NoSet, None
<1>24. ASSUME EditMade
       PROVE  IntervalsSet'
  BY <1>24 DEF EditMade, CallOf, Event, account, round, counts, store, told, ghosts,
     TypeOK, IntervalsSet, NoSet, None
<1>25. ASSUME NEW s \in Setters, NEW i \in Intervals, SetReads(s, i)
       PROVE  IntervalsSet'
  BY <1>25 DEF SetReads, CallOf, Event, account, round, counts, store, told, ghosts,
     TypeOK, IntervalsSet, NoSet, None
<1>26. ASSUME NEW s \in Signers, NEW who \in Accounts \cup {None}, SignBegins(s, who)
       PROVE  IntervalsSet'
  BY <1>26 DEF SignBegins, CallOf, Event, account, round, counts, store, told, ghosts,
     TypeOK, IntervalsSet, NoSet, None
<1>27. ASSUME Pump
       PROVE  IntervalsSet'
  BY <1>27 DEF Pump, account, round, counts, store, told, ghosts, TypeOK, IntervalsSet,
     NoSet, None
<1>28. ASSUME MachineWakes
       PROVE  IntervalsSet'
  BY <1>28 DEF MachineWakes, Around, Event, Wake, account, round, counts, store, told,
     ghosts, TypeOK, IntervalsSet, NoSet, None
<1>29. ASSUME NEW part \in Parts, ServerChanges(part)
       PROVE  IntervalsSet'
  BY <1>29 DEF ServerChanges, Around, Event, account, round, counts, store, told, ghosts,
     TypeOK, IntervalsSet, NoSet, None
<1> QED BY <1>1, <1>2, <1>3, <1>4, <1>5, <1>6, <1>7, <1>8, <1>9, <1>10, <1>11, <1>12,
     <1>13, <1>14, <1>15, <1>16, <1>17, <1>18, <1>19, <1>20, <1>21, <1>22, <1>23, <1>24,
     <1>25, <1>26, <1>27, <1>28, <1>29
     DEF Next, LoopStep, CallStep, PeopleStep

LEMMA GenerationsKept ==
  ASSUME TypeOK, Generations, Next
  PROVE  Generations'
<1>1. ASSUME Begin
      PROVE  Generations'
  BY <1>1 DEF Begin, LoopAt, account, round, counts, store, told, ghosts, TypeOK,
     Generations, NoAsk, Places
<1>2. ASSUME Client
      PROVE  Generations'
  BY <1>2 DEF Client, LoopAt, Start, NotSignedIn, Fails, Says, account, round, counts,
     store, told, ghosts, TypeOK, Generations, NoAsk, Places
<1>3. ASSUME Password
      PROVE  Generations'
  BY <1>3 DEF Password, LoopAt, Start, Fails, Says, Fault, account, round, counts, store,
     told, ghosts, TypeOK, Generations, NoAsk, Places
<1>4. ASSUME Push
      PROVE  Generations'
  BY <1>4 DEF Push, LoopAt, account, round, counts, store, told, ghosts, TypeOK,
     Generations, NoAsk, Places
<1>5. ASSUME NEW part \in Parts, Pull(part)
      PROVE  Generations'
  BY <1>5 DEF Pull, Counts, LoopAt, account, round, counts, store, told, ghosts, TypeOK,
     Generations, NoAsk, Places
<1>6. ASSUME RoundDone
      PROVE  Generations'
  BY <1>6 DEF RoundDone, LoopAt, Says, SaysBoth, account, round, counts, store, told,
     ghosts, TypeOK, Generations, NoAsk, Places
<1>7. ASSUME RoundFails
      PROVE  Generations'
  BY <1>7 DEF RoundFails, LoopAt, Fails, Says, Fault, account, round, counts, store, told,
     ghosts, TypeOK, Generations, NoAsk, Places
<1>8. ASSUME DropClient
      PROVE  Generations'
  BY <1>8 DEF DropClient, LoopAt, Fails, Says, account, round, counts, store, told, ghosts,
     TypeOK, Generations, NoAsk, Places
<1>9. ASSUME Answer
      PROVE  Generations'
  BY <1>9 DEF Answer, Answered, LoopAt, account, round, counts, store, told, ghosts,
     TypeOK, Generations, NoAsk, Places
<1>10. ASSUME Elapses
       PROVE  Generations'
  BY <1>10 DEF Elapses, Sleeping, LoopAt, account, round, counts, store, told, ghosts,
     TypeOK, Generations, NoAsk, Places
<1>11. ASSUME Woken
       PROVE  Generations'
  BY <1>11 DEF Woken, Sleeping, LoopAt, account, round, counts, store, told, ghosts,
     TypeOK, Generations, NoAsk, Places
<1>12. ASSUME Rearm
       PROVE  Generations'
  BY <1>12 DEF Rearm, Sleeping, LoopAt, account, round, counts, store, told, ghosts,
     TypeOK, Generations, NoAsk, Places
<1>13. ASSUME Debounced
       PROVE  Generations'
  BY <1>13 DEF Debounced, LoopAt, account, round, counts, store, told, ghosts, TypeOK,
     Generations, NoAsk, Places
<1>14. ASSUME NEW a \in Askers, AskWakes(a)
       PROVE  Generations'
  BY <1>14 DEF AskWakes, CallOf, Wake, account, round, counts, store, told, ghosts, TypeOK,
     Generations, NoAsk, Places
<1>15. ASSUME NEW a \in Askers, AskAnswered(a)
       PROVE  Generations'
  BY <1>15 DEF AskAnswered, CallOf, account, round, counts, store, told, ghosts, TypeOK,
     Generations, NoAsk, Places
<1>16. ASSUME EditTold
       PROVE  Generations'
  BY <1>16 DEF EditTold, CallOf, SaysChanged, Wake, account, round, counts, store, told,
     ghosts, TypeOK, Generations, NoAsk, Places
<1>17. ASSUME NEW s \in Setters, SetSaves(s)
       PROVE  Generations'
  BY <1>17 DEF SetSaves, Differs, CallOf, account, round, counts, store, told, ghosts,
     TypeOK, Generations, NoAsk, Places
<1>18. ASSUME NEW s \in Setters, SetWakes(s)
       PROVE  Generations'
  BY <1>18 DEF SetWakes, CallOf, account, round, counts, store, told, ghosts, TypeOK,
     Generations, NoAsk, Places
<1>19. ASSUME NEW s \in Signers, SignSaves(s)
       PROVE  Generations'
  BY <1>19 DEF SignSaves, CallOf, account, round, counts, store, told, ghosts, TypeOK,
     Generations, NoAsk, Places
<1>20. ASSUME NEW s \in Signers, SignDrops(s)
       PROVE  Generations'
  BY <1>20 DEF SignDrops, ClientFree, CallOf, account, round, counts, store, told, ghosts,
     TypeOK, Generations, NoAsk, Places
<1>21. ASSUME NEW s \in Signers, SignResets(s)
       PROVE  Generations'
  BY <1>21 DEF SignResets, CallOf, SaysChanged, account, round, counts, store, told,
     ghosts, TypeOK, Generations, NoAsk, Places
<1>22. ASSUME NEW s \in Signers, SignSays(s)
       PROVE  Generations'
  BY <1>22 DEF SignSays, CallOf, Says, Wake, account, round, counts, store, told, ghosts,
     TypeOK, Generations, NoAsk, Places
<1>23. ASSUME NEW a \in Askers, Ask(a)
       PROVE  Generations'
  BY <1>23 DEF Ask, CallOf, Event, account, round, counts, store, told, ghosts, TypeOK,
     Generations, NoAsk, Places
<1>24. ASSUME EditMade
       PROVE  Generations'
  BY <1>24 DEF EditMade, CallOf, Event, account, round, counts, store, told, ghosts,
     TypeOK, Generations, NoAsk, Places
<1>25. ASSUME NEW s \in Setters, NEW i \in Intervals, SetReads(s, i)
       PROVE  Generations'
  BY <1>25 DEF SetReads, CallOf, Event, account, round, counts, store, told, ghosts,
     TypeOK, Generations, NoAsk, Places
<1>26. ASSUME NEW s \in Signers, NEW who \in Accounts \cup {None}, SignBegins(s, who)
       PROVE  Generations'
  BY <1>26 DEF SignBegins, CallOf, Event, account, round, counts, store, told, ghosts,
     TypeOK, Generations, NoAsk, Places
<1>27. ASSUME Pump
       PROVE  Generations'
  BY <1>27 DEF Pump, account, round, counts, store, told, ghosts, TypeOK, Generations,
     NoAsk, Places
<1>28. ASSUME MachineWakes
       PROVE  Generations'
  BY <1>28 DEF MachineWakes, Around, Event, Wake, account, round, counts, store, told,
     ghosts, TypeOK, Generations, NoAsk, Places
<1>29. ASSUME NEW part \in Parts, ServerChanges(part)
       PROVE  Generations'
  BY <1>29 DEF ServerChanges, Around, Event, account, round, counts, store, told, ghosts,
     TypeOK, Generations, NoAsk, Places
<1> QED BY <1>1, <1>2, <1>3, <1>4, <1>5, <1>6, <1>7, <1>8, <1>9, <1>10, <1>11, <1>12,
     <1>13, <1>14, <1>15, <1>16, <1>17, <1>18, <1>19, <1>20, <1>21, <1>22, <1>23, <1>24,
     <1>25, <1>26, <1>27, <1>28, <1>29
     DEF Next, LoopStep, CallStep, PeopleStep

LEMMA BegunKept ==
  ASSUME TypeOK, Generations, Begun, Next
  PROVE  Begun'
<1>1. ASSUME Begin
      PROVE  Begun'
  BY <1>1 DEF Begin, LoopAt, account, round, counts, store, told, ghosts, TypeOK,
     Generations, Begun, NoAsk, Places
<1>2. ASSUME Client
      PROVE  Begun'
  BY <1>2 DEF Client, LoopAt, Start, NotSignedIn, Fails, Says, account, round, counts,
     store, told, ghosts, TypeOK, Generations, Begun, NoAsk, Places
<1>3. ASSUME Password
      PROVE  Begun'
  BY <1>3 DEF Password, LoopAt, Start, Fails, Says, Fault, account, round, counts, store,
     told, ghosts, TypeOK, Generations, Begun, NoAsk, Places
<1>4. ASSUME Push
      PROVE  Begun'
  BY <1>4 DEF Push, LoopAt, account, round, counts, store, told, ghosts, TypeOK,
     Generations, Begun, NoAsk, Places
<1>5. ASSUME NEW part \in Parts, Pull(part)
      PROVE  Begun'
  BY <1>5 DEF Pull, Counts, LoopAt, account, round, counts, store, told, ghosts, TypeOK,
     Generations, Begun, NoAsk, Places
<1>6. ASSUME RoundDone
      PROVE  Begun'
  BY <1>6 DEF RoundDone, LoopAt, Says, SaysBoth, account, round, counts, store, told,
     ghosts, TypeOK, Generations, Begun, NoAsk, Places
<1>7. ASSUME RoundFails
      PROVE  Begun'
  BY <1>7 DEF RoundFails, LoopAt, Fails, Says, Fault, account, round, counts, store, told,
     ghosts, TypeOK, Generations, Begun, NoAsk, Places
<1>8. ASSUME DropClient
      PROVE  Begun'
  BY <1>8 DEF DropClient, LoopAt, Fails, Says, account, round, counts, store, told, ghosts,
     TypeOK, Generations, Begun, NoAsk, Places
<1>9. ASSUME Answer
      PROVE  Begun'
  BY <1>9 DEF Answer, Answered, LoopAt, account, round, counts, store, told, ghosts,
     TypeOK, Generations, Begun, NoAsk, Places
<1>10. ASSUME Elapses
       PROVE  Begun'
  BY <1>10 DEF Elapses, Sleeping, LoopAt, account, round, counts, store, told, ghosts,
     TypeOK, Generations, Begun, NoAsk, Places
<1>11. ASSUME Woken
       PROVE  Begun'
  BY <1>11 DEF Woken, Sleeping, LoopAt, account, round, counts, store, told, ghosts,
     TypeOK, Generations, Begun, NoAsk, Places
<1>12. ASSUME Rearm
       PROVE  Begun'
  BY <1>12 DEF Rearm, Sleeping, LoopAt, account, round, counts, store, told, ghosts,
     TypeOK, Generations, Begun, NoAsk, Places
<1>13. ASSUME Debounced
       PROVE  Begun'
  BY <1>13 DEF Debounced, LoopAt, account, round, counts, store, told, ghosts, TypeOK,
     Generations, Begun, NoAsk, Places
<1>14. ASSUME NEW a \in Askers, AskWakes(a)
       PROVE  Begun'
  BY <1>14 DEF AskWakes, CallOf, Wake, account, round, counts, store, told, ghosts, TypeOK,
     Generations, Begun, NoAsk, Places
<1>15. ASSUME NEW a \in Askers, AskAnswered(a)
       PROVE  Begun'
  BY <1>15 DEF AskAnswered, CallOf, account, round, counts, store, told, ghosts, TypeOK,
     Generations, Begun, NoAsk, Places
<1>16. ASSUME EditTold
       PROVE  Begun'
  BY <1>16 DEF EditTold, CallOf, SaysChanged, Wake, account, round, counts, store, told,
     ghosts, TypeOK, Generations, Begun, NoAsk, Places
<1>17. ASSUME NEW s \in Setters, SetSaves(s)
       PROVE  Begun'
  BY <1>17 DEF SetSaves, Differs, CallOf, account, round, counts, store, told, ghosts,
     TypeOK, Generations, Begun, NoAsk, Places
<1>18. ASSUME NEW s \in Setters, SetWakes(s)
       PROVE  Begun'
  BY <1>18 DEF SetWakes, CallOf, account, round, counts, store, told, ghosts, TypeOK,
     Generations, Begun, NoAsk, Places
<1>19. ASSUME NEW s \in Signers, SignSaves(s)
       PROVE  Begun'
  BY <1>19 DEF SignSaves, CallOf, account, round, counts, store, told, ghosts, TypeOK,
     Generations, Begun, NoAsk, Places
<1>20. ASSUME NEW s \in Signers, SignDrops(s)
       PROVE  Begun'
  BY <1>20 DEF SignDrops, ClientFree, CallOf, account, round, counts, store, told, ghosts,
     TypeOK, Generations, Begun, NoAsk, Places
<1>21. ASSUME NEW s \in Signers, SignResets(s)
       PROVE  Begun'
  BY <1>21 DEF SignResets, CallOf, SaysChanged, account, round, counts, store, told,
     ghosts, TypeOK, Generations, Begun, NoAsk, Places
<1>22. ASSUME NEW s \in Signers, SignSays(s)
       PROVE  Begun'
  BY <1>22 DEF SignSays, CallOf, Says, Wake, account, round, counts, store, told, ghosts,
     TypeOK, Generations, Begun, NoAsk, Places
<1>23. ASSUME NEW a \in Askers, Ask(a)
       PROVE  Begun'
  BY <1>23 DEF Ask, CallOf, Event, account, round, counts, store, told, ghosts, TypeOK,
     Generations, Begun, NoAsk, Places
<1>24. ASSUME EditMade
       PROVE  Begun'
  BY <1>24 DEF EditMade, CallOf, Event, account, round, counts, store, told, ghosts,
     TypeOK, Generations, Begun, NoAsk, Places
<1>25. ASSUME NEW s \in Setters, NEW i \in Intervals, SetReads(s, i)
       PROVE  Begun'
  BY <1>25 DEF SetReads, CallOf, Event, account, round, counts, store, told, ghosts,
     TypeOK, Generations, Begun, NoAsk, Places
<1>26. ASSUME NEW s \in Signers, NEW who \in Accounts \cup {None}, SignBegins(s, who)
       PROVE  Begun'
  BY <1>26 DEF SignBegins, CallOf, Event, account, round, counts, store, told, ghosts,
     TypeOK, Generations, Begun, NoAsk, Places
<1>27. ASSUME Pump
       PROVE  Begun'
  BY <1>27 DEF Pump, account, round, counts, store, told, ghosts, TypeOK, Generations,
     Begun, NoAsk, Places
<1>28. ASSUME MachineWakes
       PROVE  Begun'
  BY <1>28 DEF MachineWakes, Around, Event, Wake, account, round, counts, store, told,
     ghosts, TypeOK, Generations, Begun, NoAsk, Places
<1>29. ASSUME NEW part \in Parts, ServerChanges(part)
       PROVE  Begun'
  BY <1>29 DEF ServerChanges, Around, Event, account, round, counts, store, told, ghosts,
     TypeOK, Generations, Begun, NoAsk, Places
<1> QED BY <1>1, <1>2, <1>3, <1>4, <1>5, <1>6, <1>7, <1>8, <1>9, <1>10, <1>11, <1>12,
     <1>13, <1>14, <1>15, <1>16, <1>17, <1>18, <1>19, <1>20, <1>21, <1>22, <1>23, <1>24,
     <1>25, <1>26, <1>27, <1>28, <1>29
     DEF Next, LoopStep, CallStep, PeopleStep

LEMMA WaitersKept ==
  ASSUME TypeOK, Generations, Waiters, Next
  PROVE  Waiters'
<1>1. ASSUME Begin
      PROVE  Waiters'
  BY <1>1 DEF Begin, LoopAt, account, round, counts, store, told, ghosts, TypeOK,
     Generations, Waiters, NoAsk, Places
<1>2. ASSUME Client
      PROVE  Waiters'
  BY <1>2 DEF Client, LoopAt, Start, NotSignedIn, Fails, Says, account, round, counts,
     store, told, ghosts, TypeOK, Generations, Waiters, NoAsk, Places
<1>3. ASSUME Password
      PROVE  Waiters'
  BY <1>3 DEF Password, LoopAt, Start, Fails, Says, Fault, account, round, counts, store,
     told, ghosts, TypeOK, Generations, Waiters, NoAsk, Places
<1>4. ASSUME Push
      PROVE  Waiters'
  BY <1>4 DEF Push, LoopAt, account, round, counts, store, told, ghosts, TypeOK,
     Generations, Waiters, NoAsk, Places
<1>5. ASSUME NEW part \in Parts, Pull(part)
      PROVE  Waiters'
  BY <1>5 DEF Pull, Counts, LoopAt, account, round, counts, store, told, ghosts, TypeOK,
     Generations, Waiters, NoAsk, Places
<1>6. ASSUME RoundDone
      PROVE  Waiters'
  BY <1>6 DEF RoundDone, LoopAt, Says, SaysBoth, account, round, counts, store, told,
     ghosts, TypeOK, Generations, Waiters, NoAsk, Places
<1>7. ASSUME RoundFails
      PROVE  Waiters'
  BY <1>7 DEF RoundFails, LoopAt, Fails, Says, Fault, account, round, counts, store, told,
     ghosts, TypeOK, Generations, Waiters, NoAsk, Places
<1>8. ASSUME DropClient
      PROVE  Waiters'
  BY <1>8 DEF DropClient, LoopAt, Fails, Says, account, round, counts, store, told, ghosts,
     TypeOK, Generations, Waiters, NoAsk, Places
<1>9. ASSUME Answer
      PROVE  Waiters'
  BY <1>9 DEF Answer, Answered, LoopAt, account, round, counts, store, told, ghosts,
     TypeOK, Generations, Waiters, NoAsk, Places
<1>10. ASSUME Elapses
       PROVE  Waiters'
  BY <1>10 DEF Elapses, Sleeping, LoopAt, account, round, counts, store, told, ghosts,
     TypeOK, Generations, Waiters, NoAsk, Places
<1>11. ASSUME Woken
       PROVE  Waiters'
  BY <1>11 DEF Woken, Sleeping, LoopAt, account, round, counts, store, told, ghosts,
     TypeOK, Generations, Waiters, NoAsk, Places
<1>12. ASSUME Rearm
       PROVE  Waiters'
  BY <1>12 DEF Rearm, Sleeping, LoopAt, account, round, counts, store, told, ghosts,
     TypeOK, Generations, Waiters, NoAsk, Places
<1>13. ASSUME Debounced
       PROVE  Waiters'
  BY <1>13 DEF Debounced, LoopAt, account, round, counts, store, told, ghosts, TypeOK,
     Generations, Waiters, NoAsk, Places
<1>14. ASSUME NEW a \in Askers, AskWakes(a)
       PROVE  Waiters'
  BY <1>14 DEF AskWakes, CallOf, Wake, account, round, counts, store, told, ghosts, TypeOK,
     Generations, Waiters, NoAsk, Places
<1>15. ASSUME NEW a \in Askers, AskAnswered(a)
       PROVE  Waiters'
  BY <1>15 DEF AskAnswered, CallOf, account, round, counts, store, told, ghosts, TypeOK,
     Generations, Waiters, NoAsk, Places
<1>16. ASSUME EditTold
       PROVE  Waiters'
  BY <1>16 DEF EditTold, CallOf, SaysChanged, Wake, account, round, counts, store, told,
     ghosts, TypeOK, Generations, Waiters, NoAsk, Places
<1>17. ASSUME NEW s \in Setters, SetSaves(s)
       PROVE  Waiters'
  BY <1>17 DEF SetSaves, Differs, CallOf, account, round, counts, store, told, ghosts,
     TypeOK, Generations, Waiters, NoAsk, Places
<1>18. ASSUME NEW s \in Setters, SetWakes(s)
       PROVE  Waiters'
  BY <1>18 DEF SetWakes, CallOf, account, round, counts, store, told, ghosts, TypeOK,
     Generations, Waiters, NoAsk, Places
<1>19. ASSUME NEW s \in Signers, SignSaves(s)
       PROVE  Waiters'
  BY <1>19 DEF SignSaves, CallOf, account, round, counts, store, told, ghosts, TypeOK,
     Generations, Waiters, NoAsk, Places
<1>20. ASSUME NEW s \in Signers, SignDrops(s)
       PROVE  Waiters'
  BY <1>20 DEF SignDrops, ClientFree, CallOf, account, round, counts, store, told, ghosts,
     TypeOK, Generations, Waiters, NoAsk, Places
<1>21. ASSUME NEW s \in Signers, SignResets(s)
       PROVE  Waiters'
  BY <1>21 DEF SignResets, CallOf, SaysChanged, account, round, counts, store, told,
     ghosts, TypeOK, Generations, Waiters, NoAsk, Places
<1>22. ASSUME NEW s \in Signers, SignSays(s)
       PROVE  Waiters'
  BY <1>22 DEF SignSays, CallOf, Says, Wake, account, round, counts, store, told, ghosts,
     TypeOK, Generations, Waiters, NoAsk, Places
<1>23. ASSUME NEW a \in Askers, Ask(a)
       PROVE  Waiters'
  BY <1>23 DEF Ask, CallOf, Event, account, round, counts, store, told, ghosts, TypeOK,
     Generations, Waiters, NoAsk, Places
<1>24. ASSUME EditMade
       PROVE  Waiters'
  BY <1>24 DEF EditMade, CallOf, Event, account, round, counts, store, told, ghosts,
     TypeOK, Generations, Waiters, NoAsk, Places
<1>25. ASSUME NEW s \in Setters, NEW i \in Intervals, SetReads(s, i)
       PROVE  Waiters'
  BY <1>25 DEF SetReads, CallOf, Event, account, round, counts, store, told, ghosts,
     TypeOK, Generations, Waiters, NoAsk, Places
<1>26. ASSUME NEW s \in Signers, NEW who \in Accounts \cup {None}, SignBegins(s, who)
       PROVE  Waiters'
  BY <1>26 DEF SignBegins, CallOf, Event, account, round, counts, store, told, ghosts,
     TypeOK, Generations, Waiters, NoAsk, Places
<1>27. ASSUME Pump
       PROVE  Waiters'
  BY <1>27 DEF Pump, account, round, counts, store, told, ghosts, TypeOK, Generations,
     Waiters, NoAsk, Places
<1>28. ASSUME MachineWakes
       PROVE  Waiters'
  BY <1>28 DEF MachineWakes, Around, Event, Wake, account, round, counts, store, told,
     ghosts, TypeOK, Generations, Waiters, NoAsk, Places
<1>29. ASSUME NEW part \in Parts, ServerChanges(part)
       PROVE  Waiters'
  BY <1>29 DEF ServerChanges, Around, Event, account, round, counts, store, told, ghosts,
     TypeOK, Generations, Waiters, NoAsk, Places
<1> QED BY <1>1, <1>2, <1>3, <1>4, <1>5, <1>6, <1>7, <1>8, <1>9, <1>10, <1>11, <1>12,
     <1>13, <1>14, <1>15, <1>16, <1>17, <1>18, <1>19, <1>20, <1>21, <1>22, <1>23, <1>24,
     <1>25, <1>26, <1>27, <1>28, <1>29
     DEF Next, LoopStep, CallStep, PeopleStep

LEMMA EditsKept ==
  ASSUME TypeOK, Edits, Next
  PROVE  Edits'
<1>1. ASSUME Begin
      PROVE  Edits'
  BY <1>1 DEF Begin, LoopAt, account, round, counts, store, told, ghosts, TypeOK, Edits,
     Places
<1>2. ASSUME Client
      PROVE  Edits'
  BY <1>2 DEF Client, LoopAt, Start, NotSignedIn, Fails, Says, account, round, counts,
     store, told, ghosts, TypeOK, Edits, Places
<1>3. ASSUME Password
      PROVE  Edits'
  BY <1>3 DEF Password, LoopAt, Start, Fails, Says, Fault, account, round, counts, store,
     told, ghosts, TypeOK, Edits, Places
<1>4. ASSUME Push
      PROVE  Edits'
  BY <1>4 DEF Push, LoopAt, account, round, counts, store, told, ghosts, TypeOK, Edits,
     Places
<1>5. ASSUME NEW part \in Parts, Pull(part)
      PROVE  Edits'
  BY <1>5 DEF Pull, Counts, LoopAt, account, round, counts, store, told, ghosts, TypeOK,
     Edits, Places
<1>6. ASSUME RoundDone
      PROVE  Edits'
  BY <1>6 DEF RoundDone, LoopAt, Says, SaysBoth, account, round, counts, store, told,
     ghosts, TypeOK, Edits, Places
<1>7. ASSUME RoundFails
      PROVE  Edits'
  BY <1>7 DEF RoundFails, LoopAt, Fails, Says, Fault, account, round, counts, store, told,
     ghosts, TypeOK, Edits, Places
<1>8. ASSUME DropClient
      PROVE  Edits'
  BY <1>8 DEF DropClient, LoopAt, Fails, Says, account, round, counts, store, told, ghosts,
     TypeOK, Edits, Places
<1>9. ASSUME Answer
      PROVE  Edits'
  BY <1>9 DEF Answer, Answered, LoopAt, account, round, counts, store, told, ghosts,
     TypeOK, Edits, Places
<1>10. ASSUME Elapses
       PROVE  Edits'
  BY <1>10 DEF Elapses, Sleeping, LoopAt, account, round, counts, store, told, ghosts,
     TypeOK, Edits, Places
<1>11. ASSUME Woken
       PROVE  Edits'
  BY <1>11 DEF Woken, Sleeping, LoopAt, account, round, counts, store, told, ghosts,
     TypeOK, Edits, Places
<1>12. ASSUME Rearm
       PROVE  Edits'
  BY <1>12 DEF Rearm, Sleeping, LoopAt, account, round, counts, store, told, ghosts,
     TypeOK, Edits, Places
<1>13. ASSUME Debounced
       PROVE  Edits'
  BY <1>13 DEF Debounced, LoopAt, account, round, counts, store, told, ghosts, TypeOK,
     Edits, Places
<1>14. ASSUME NEW a \in Askers, AskWakes(a)
       PROVE  Edits'
  BY <1>14 DEF AskWakes, CallOf, Wake, account, round, counts, store, told, ghosts, TypeOK,
     Edits, Places
<1>15. ASSUME NEW a \in Askers, AskAnswered(a)
       PROVE  Edits'
  BY <1>15 DEF AskAnswered, CallOf, account, round, counts, store, told, ghosts, TypeOK,
     Edits, Places
<1>16. ASSUME EditTold
       PROVE  Edits'
  BY <1>16 DEF EditTold, CallOf, SaysChanged, Wake, account, round, counts, store, told,
     ghosts, TypeOK, Edits, Places
<1>17. ASSUME NEW s \in Setters, SetSaves(s)
       PROVE  Edits'
  BY <1>17 DEF SetSaves, Differs, CallOf, account, round, counts, store, told, ghosts,
     TypeOK, Edits, Places
<1>18. ASSUME NEW s \in Setters, SetWakes(s)
       PROVE  Edits'
  BY <1>18 DEF SetWakes, CallOf, account, round, counts, store, told, ghosts, TypeOK,
     Edits, Places
<1>19. ASSUME NEW s \in Signers, SignSaves(s)
       PROVE  Edits'
  BY <1>19 DEF SignSaves, CallOf, account, round, counts, store, told, ghosts, TypeOK,
     Edits, Places
<1>20. ASSUME NEW s \in Signers, SignDrops(s)
       PROVE  Edits'
  BY <1>20 DEF SignDrops, ClientFree, CallOf, account, round, counts, store, told, ghosts,
     TypeOK, Edits, Places
<1>21. ASSUME NEW s \in Signers, SignResets(s)
       PROVE  Edits'
  BY <1>21 DEF SignResets, CallOf, SaysChanged, account, round, counts, store, told,
     ghosts, TypeOK, Edits, Places
<1>22. ASSUME NEW s \in Signers, SignSays(s)
       PROVE  Edits'
  BY <1>22 DEF SignSays, CallOf, Says, Wake, account, round, counts, store, told, ghosts,
     TypeOK, Edits, Places
<1>23. ASSUME NEW a \in Askers, Ask(a)
       PROVE  Edits'
  BY <1>23 DEF Ask, CallOf, Event, account, round, counts, store, told, ghosts, TypeOK,
     Edits, Places
<1>24. ASSUME EditMade
       PROVE  Edits'
  BY <1>24 DEF EditMade, CallOf, Event, account, round, counts, store, told, ghosts,
     TypeOK, Edits, Places
<1>25. ASSUME NEW s \in Setters, NEW i \in Intervals, SetReads(s, i)
       PROVE  Edits'
  BY <1>25 DEF SetReads, CallOf, Event, account, round, counts, store, told, ghosts,
     TypeOK, Edits, Places
<1>26. ASSUME NEW s \in Signers, NEW who \in Accounts \cup {None}, SignBegins(s, who)
       PROVE  Edits'
  BY <1>26 DEF SignBegins, CallOf, Event, account, round, counts, store, told, ghosts,
     TypeOK, Edits, Places
<1>27. ASSUME Pump
       PROVE  Edits'
  BY <1>27 DEF Pump, account, round, counts, store, told, ghosts, TypeOK, Edits, Places
<1>28. ASSUME MachineWakes
       PROVE  Edits'
  BY <1>28 DEF MachineWakes, Around, Event, Wake, account, round, counts, store, told,
     ghosts, TypeOK, Edits, Places
<1>29. ASSUME NEW part \in Parts, ServerChanges(part)
       PROVE  Edits'
  BY <1>29 DEF ServerChanges, Around, Event, account, round, counts, store, told, ghosts,
     TypeOK, Edits, Places
<1> QED BY <1>1, <1>2, <1>3, <1>4, <1>5, <1>6, <1>7, <1>8, <1>9, <1>10, <1>11, <1>12,
     <1>13, <1>14, <1>15, <1>16, <1>17, <1>18, <1>19, <1>20, <1>21, <1>22, <1>23, <1>24,
     <1>25, <1>26, <1>27, <1>28, <1>29
     DEF Next, LoopStep, CallStep, PeopleStep

LEMMA UsingKept ==
  ASSUME TypeOK, UsesTheAccount, Next
  PROVE  UsesTheAccount'
<1>1. ASSUME Begin
      PROVE  UsesTheAccount'
  BY <1>1 DEF Begin, LoopAt, account, round, counts, store, told, ghosts, TypeOK,
     UsesTheAccount, None, NoSign
<1>2. ASSUME Client
      PROVE  UsesTheAccount'
  BY <1>2 DEF Client, LoopAt, Start, NotSignedIn, Fails, Says, account, round, counts,
     store, told, ghosts, TypeOK, UsesTheAccount, None, NoSign
<1>3. ASSUME Password
      PROVE  UsesTheAccount'
  BY <1>3 DEF Password, LoopAt, Start, Fails, Says, Fault, account, round, counts, store,
     told, ghosts, TypeOK, UsesTheAccount, None, NoSign
<1>4. ASSUME Push
      PROVE  UsesTheAccount'
  BY <1>4 DEF Push, LoopAt, account, round, counts, store, told, ghosts, TypeOK,
     UsesTheAccount, None, NoSign
<1>5. ASSUME NEW part \in Parts, Pull(part)
      PROVE  UsesTheAccount'
  BY <1>5 DEF Pull, Counts, LoopAt, account, round, counts, store, told, ghosts, TypeOK,
     UsesTheAccount, None, NoSign
<1>6. ASSUME RoundDone
      PROVE  UsesTheAccount'
  BY <1>6 DEF RoundDone, LoopAt, Says, SaysBoth, account, round, counts, store, told,
     ghosts, TypeOK, UsesTheAccount, None, NoSign
<1>7. ASSUME RoundFails
      PROVE  UsesTheAccount'
  BY <1>7 DEF RoundFails, LoopAt, Fails, Says, Fault, account, round, counts, store, told,
     ghosts, TypeOK, UsesTheAccount, None, NoSign
<1>8. ASSUME DropClient
      PROVE  UsesTheAccount'
  BY <1>8 DEF DropClient, LoopAt, Fails, Says, account, round, counts, store, told, ghosts,
     TypeOK, UsesTheAccount, None, NoSign
<1>9. ASSUME Answer
      PROVE  UsesTheAccount'
  BY <1>9 DEF Answer, Answered, LoopAt, account, round, counts, store, told, ghosts,
     TypeOK, UsesTheAccount, None, NoSign
<1>10. ASSUME Elapses
       PROVE  UsesTheAccount'
  BY <1>10 DEF Elapses, Sleeping, LoopAt, account, round, counts, store, told, ghosts,
     TypeOK, UsesTheAccount, None, NoSign
<1>11. ASSUME Woken
       PROVE  UsesTheAccount'
  BY <1>11 DEF Woken, Sleeping, LoopAt, account, round, counts, store, told, ghosts,
     TypeOK, UsesTheAccount, None, NoSign
<1>12. ASSUME Rearm
       PROVE  UsesTheAccount'
  BY <1>12 DEF Rearm, Sleeping, LoopAt, account, round, counts, store, told, ghosts,
     TypeOK, UsesTheAccount, None, NoSign
<1>13. ASSUME Debounced
       PROVE  UsesTheAccount'
  BY <1>13 DEF Debounced, LoopAt, account, round, counts, store, told, ghosts, TypeOK,
     UsesTheAccount, None, NoSign
<1>14. ASSUME NEW a \in Askers, AskWakes(a)
       PROVE  UsesTheAccount'
  BY <1>14 DEF AskWakes, CallOf, Wake, account, round, counts, store, told, ghosts, TypeOK,
     UsesTheAccount, None, NoSign
<1>15. ASSUME NEW a \in Askers, AskAnswered(a)
       PROVE  UsesTheAccount'
  BY <1>15 DEF AskAnswered, CallOf, account, round, counts, store, told, ghosts, TypeOK,
     UsesTheAccount, None, NoSign
<1>16. ASSUME EditTold
       PROVE  UsesTheAccount'
  BY <1>16 DEF EditTold, CallOf, SaysChanged, Wake, account, round, counts, store, told,
     ghosts, TypeOK, UsesTheAccount, None, NoSign
<1>17. ASSUME NEW s \in Setters, SetSaves(s)
       PROVE  UsesTheAccount'
  BY <1>17 DEF SetSaves, Differs, CallOf, account, round, counts, store, told, ghosts,
     TypeOK, UsesTheAccount, None, NoSign
<1>18. ASSUME NEW s \in Setters, SetWakes(s)
       PROVE  UsesTheAccount'
  BY <1>18 DEF SetWakes, CallOf, account, round, counts, store, told, ghosts, TypeOK,
     UsesTheAccount, None, NoSign
<1>19. ASSUME NEW s \in Signers, SignSaves(s)
       PROVE  UsesTheAccount'
  BY <1>19 DEF SignSaves, CallOf, account, round, counts, store, told, ghosts, TypeOK,
     UsesTheAccount, None, NoSign
<1>20. ASSUME NEW s \in Signers, SignDrops(s)
       PROVE  UsesTheAccount'
  BY <1>20 DEF SignDrops, ClientFree, CallOf, account, round, counts, store, told, ghosts,
     TypeOK, UsesTheAccount, None, NoSign
<1>21. ASSUME NEW s \in Signers, SignResets(s)
       PROVE  UsesTheAccount'
  BY <1>21 DEF SignResets, CallOf, SaysChanged, account, round, counts, store, told,
     ghosts, TypeOK, UsesTheAccount, None, NoSign
<1>22. ASSUME NEW s \in Signers, SignSays(s)
       PROVE  UsesTheAccount'
  BY <1>22 DEF SignSays, CallOf, Says, Wake, account, round, counts, store, told, ghosts,
     TypeOK, UsesTheAccount, None, NoSign
<1>23. ASSUME NEW a \in Askers, Ask(a)
       PROVE  UsesTheAccount'
  BY <1>23 DEF Ask, CallOf, Event, account, round, counts, store, told, ghosts, TypeOK,
     UsesTheAccount, None, NoSign
<1>24. ASSUME EditMade
       PROVE  UsesTheAccount'
  BY <1>24 DEF EditMade, CallOf, Event, account, round, counts, store, told, ghosts,
     TypeOK, UsesTheAccount, None, NoSign
<1>25. ASSUME NEW s \in Setters, NEW i \in Intervals, SetReads(s, i)
       PROVE  UsesTheAccount'
  BY <1>25 DEF SetReads, CallOf, Event, account, round, counts, store, told, ghosts,
     TypeOK, UsesTheAccount, None, NoSign
<1>26. ASSUME NEW s \in Signers, NEW who \in Accounts \cup {None}, SignBegins(s, who)
       PROVE  UsesTheAccount'
  BY <1>26 DEF SignBegins, CallOf, Event, account, round, counts, store, told, ghosts,
     TypeOK, UsesTheAccount, None, NoSign
<1>27. ASSUME Pump
       PROVE  UsesTheAccount'
  BY <1>27 DEF Pump, account, round, counts, store, told, ghosts, TypeOK, UsesTheAccount,
     None, NoSign
<1>28. ASSUME MachineWakes
       PROVE  UsesTheAccount'
  BY <1>28 DEF MachineWakes, Around, Event, Wake, account, round, counts, store, told,
     ghosts, TypeOK, UsesTheAccount, None, NoSign
<1>29. ASSUME NEW part \in Parts, ServerChanges(part)
       PROVE  UsesTheAccount'
  BY <1>29 DEF ServerChanges, Around, Event, account, round, counts, store, told, ghosts,
     TypeOK, UsesTheAccount, None, NoSign
<1> QED BY <1>1, <1>2, <1>3, <1>4, <1>5, <1>6, <1>7, <1>8, <1>9, <1>10, <1>11, <1>12,
     <1>13, <1>14, <1>15, <1>16, <1>17, <1>18, <1>19, <1>20, <1>21, <1>22, <1>23, <1>24,
     <1>25, <1>26, <1>27, <1>28, <1>29
     DEF Next, LoopStep, CallStep, PeopleStep

LEMMA OneSetsKept ==
  ASSUME TypeOK, OneSets, Next
  PROVE  OneSets'
<1>1. ASSUME Begin
      PROVE  OneSets'
  BY <1>1 DEF Begin, LoopAt, account, round, counts, store, told, ghosts, TypeOK, OneSets,
     NoSet, None
<1>2. ASSUME Client
      PROVE  OneSets'
  BY <1>2 DEF Client, LoopAt, Start, NotSignedIn, Fails, Says, account, round, counts,
     store, told, ghosts, TypeOK, OneSets, NoSet, None
<1>3. ASSUME Password
      PROVE  OneSets'
  BY <1>3 DEF Password, LoopAt, Start, Fails, Says, Fault, account, round, counts, store,
     told, ghosts, TypeOK, OneSets, NoSet, None
<1>4. ASSUME Push
      PROVE  OneSets'
  BY <1>4 DEF Push, LoopAt, account, round, counts, store, told, ghosts, TypeOK, OneSets,
     NoSet, None
<1>5. ASSUME NEW part \in Parts, Pull(part)
      PROVE  OneSets'
  BY <1>5 DEF Pull, Counts, LoopAt, account, round, counts, store, told, ghosts, TypeOK,
     OneSets, NoSet, None
<1>6. ASSUME RoundDone
      PROVE  OneSets'
  BY <1>6 DEF RoundDone, LoopAt, Says, SaysBoth, account, round, counts, store, told,
     ghosts, TypeOK, OneSets, NoSet, None
<1>7. ASSUME RoundFails
      PROVE  OneSets'
  BY <1>7 DEF RoundFails, LoopAt, Fails, Says, Fault, account, round, counts, store, told,
     ghosts, TypeOK, OneSets, NoSet, None
<1>8. ASSUME DropClient
      PROVE  OneSets'
  BY <1>8 DEF DropClient, LoopAt, Fails, Says, account, round, counts, store, told, ghosts,
     TypeOK, OneSets, NoSet, None
<1>9. ASSUME Answer
      PROVE  OneSets'
  BY <1>9 DEF Answer, Answered, LoopAt, account, round, counts, store, told, ghosts,
     TypeOK, OneSets, NoSet, None
<1>10. ASSUME Elapses
       PROVE  OneSets'
  BY <1>10 DEF Elapses, Sleeping, LoopAt, account, round, counts, store, told, ghosts,
     TypeOK, OneSets, NoSet, None
<1>11. ASSUME Woken
       PROVE  OneSets'
  BY <1>11 DEF Woken, Sleeping, LoopAt, account, round, counts, store, told, ghosts,
     TypeOK, OneSets, NoSet, None
<1>12. ASSUME Rearm
       PROVE  OneSets'
  BY <1>12 DEF Rearm, Sleeping, LoopAt, account, round, counts, store, told, ghosts,
     TypeOK, OneSets, NoSet, None
<1>13. ASSUME Debounced
       PROVE  OneSets'
  BY <1>13 DEF Debounced, LoopAt, account, round, counts, store, told, ghosts, TypeOK,
     OneSets, NoSet, None
<1>14. ASSUME NEW a \in Askers, AskWakes(a)
       PROVE  OneSets'
  BY <1>14 DEF AskWakes, CallOf, Wake, account, round, counts, store, told, ghosts, TypeOK,
     OneSets, NoSet, None
<1>15. ASSUME NEW a \in Askers, AskAnswered(a)
       PROVE  OneSets'
  BY <1>15 DEF AskAnswered, CallOf, account, round, counts, store, told, ghosts, TypeOK,
     OneSets, NoSet, None
<1>16. ASSUME EditTold
       PROVE  OneSets'
  BY <1>16 DEF EditTold, CallOf, SaysChanged, Wake, account, round, counts, store, told,
     ghosts, TypeOK, OneSets, NoSet, None
<1>17. ASSUME NEW s \in Setters, SetSaves(s)
       PROVE  OneSets'
  BY <1>17 DEF SetSaves, Differs, CallOf, account, round, counts, store, told, ghosts,
     TypeOK, OneSets, NoSet, None
<1>18. ASSUME NEW s \in Setters, SetWakes(s)
       PROVE  OneSets'
  BY <1>18 DEF SetWakes, CallOf, account, round, counts, store, told, ghosts, TypeOK,
     OneSets, NoSet, None
<1>19. ASSUME NEW s \in Signers, SignSaves(s)
       PROVE  OneSets'
  BY <1>19 DEF SignSaves, CallOf, account, round, counts, store, told, ghosts, TypeOK,
     OneSets, NoSet, None
<1>20. ASSUME NEW s \in Signers, SignDrops(s)
       PROVE  OneSets'
  BY <1>20 DEF SignDrops, ClientFree, CallOf, account, round, counts, store, told, ghosts,
     TypeOK, OneSets, NoSet, None
<1>21. ASSUME NEW s \in Signers, SignResets(s)
       PROVE  OneSets'
  BY <1>21 DEF SignResets, CallOf, SaysChanged, account, round, counts, store, told,
     ghosts, TypeOK, OneSets, NoSet, None
<1>22. ASSUME NEW s \in Signers, SignSays(s)
       PROVE  OneSets'
  BY <1>22 DEF SignSays, CallOf, Says, Wake, account, round, counts, store, told, ghosts,
     TypeOK, OneSets, NoSet, None
<1>23. ASSUME NEW a \in Askers, Ask(a)
       PROVE  OneSets'
  BY <1>23 DEF Ask, CallOf, Event, account, round, counts, store, told, ghosts, TypeOK,
     OneSets, NoSet, None
<1>24. ASSUME EditMade
       PROVE  OneSets'
  BY <1>24 DEF EditMade, CallOf, Event, account, round, counts, store, told, ghosts,
     TypeOK, OneSets, NoSet, None
<1>25. ASSUME NEW s \in Setters, NEW i \in Intervals, SetReads(s, i)
       PROVE  OneSets'
  <2>1. SUFFICES ASSUME ~overlaps' PROVE OneSets'
    BY DEF OneSets
  <2>2. /\ ~overlaps /\ config' = config
        /\ \A t \in Setters \ {s} : sets[t].pc # "read" /\ sets'[t] = sets[t]
        /\ sets'[s].before = config.interval
    BY <1>25, <2>1 DEF SetReads, CallOf, Event, TypeOK, account
  <2> QED BY <2>2 DEF OneSets
<1>26. ASSUME NEW s \in Signers, NEW who \in Accounts \cup {None}, SignBegins(s, who)
       PROVE  OneSets'
  BY <1>26 DEF SignBegins, CallOf, Event, account, round, counts, store, told, ghosts,
     TypeOK, OneSets, NoSet, None
<1>27. ASSUME Pump
       PROVE  OneSets'
  BY <1>27 DEF Pump, account, round, counts, store, told, ghosts, TypeOK, OneSets, NoSet,
     None
<1>28. ASSUME MachineWakes
       PROVE  OneSets'
  BY <1>28 DEF MachineWakes, Around, Event, Wake, account, round, counts, store, told,
     ghosts, TypeOK, OneSets, NoSet, None
<1>29. ASSUME NEW part \in Parts, ServerChanges(part)
       PROVE  OneSets'
  BY <1>29 DEF ServerChanges, Around, Event, account, round, counts, store, told, ghosts,
     TypeOK, OneSets, NoSet, None
<1> QED BY <1>1, <1>2, <1>3, <1>4, <1>5, <1>6, <1>7, <1>8, <1>9, <1>10, <1>11, <1>12,
     <1>13, <1>14, <1>15, <1>16, <1>17, <1>18, <1>19, <1>20, <1>21, <1>22, <1>23, <1>24,
     <1>25, <1>26, <1>27, <1>28, <1>29
     DEF Next, LoopStep, CallStep, PeopleStep

LEMMA AnsweredKept ==
  ASSUME TypeOK, Generations, Begun, AnsweredByALaterRound, Next
  PROVE  AnsweredByALaterRound'
<1>1. ASSUME Begin
      PROVE  AnsweredByALaterRound'
  BY <1>1 DEF Begin, LoopAt, account, round, counts, store, told, ghosts, TypeOK,
     Generations, Begun, AnsweredByALaterRound, NoAsk
<1>2. ASSUME Client
      PROVE  AnsweredByALaterRound'
  BY <1>2 DEF Client, LoopAt, Start, NotSignedIn, Fails, Says, account, round, counts,
     store, told, ghosts, TypeOK, Generations, Begun, AnsweredByALaterRound, NoAsk
<1>3. ASSUME Password
      PROVE  AnsweredByALaterRound'
  BY <1>3 DEF Password, LoopAt, Start, Fails, Says, Fault, account, round, counts, store,
     told, ghosts, TypeOK, Generations, Begun, AnsweredByALaterRound, NoAsk
<1>4. ASSUME Push
      PROVE  AnsweredByALaterRound'
  BY <1>4 DEF Push, LoopAt, account, round, counts, store, told, ghosts, TypeOK,
     Generations, Begun, AnsweredByALaterRound, NoAsk
<1>5. ASSUME NEW part \in Parts, Pull(part)
      PROVE  AnsweredByALaterRound'
  BY <1>5 DEF Pull, Counts, LoopAt, account, round, counts, store, told, ghosts, TypeOK,
     Generations, Begun, AnsweredByALaterRound, NoAsk
<1>6. ASSUME RoundDone
      PROVE  AnsweredByALaterRound'
  BY <1>6 DEF RoundDone, LoopAt, Says, SaysBoth, account, round, counts, store, told,
     ghosts, TypeOK, Generations, Begun, AnsweredByALaterRound, NoAsk
<1>7. ASSUME RoundFails
      PROVE  AnsweredByALaterRound'
  BY <1>7 DEF RoundFails, LoopAt, Fails, Says, Fault, account, round, counts, store, told,
     ghosts, TypeOK, Generations, Begun, AnsweredByALaterRound, NoAsk
<1>8. ASSUME DropClient
      PROVE  AnsweredByALaterRound'
  BY <1>8 DEF DropClient, LoopAt, Fails, Says, account, round, counts, store, told, ghosts,
     TypeOK, Generations, Begun, AnsweredByALaterRound, NoAsk
<1>9. ASSUME Answer
      PROVE  AnsweredByALaterRound'
  BY <1>9 DEF Answer, Answered, LoopAt, account, round, counts, store, told, ghosts,
     TypeOK, Generations, Begun, AnsweredByALaterRound, NoAsk
<1>10. ASSUME Elapses
       PROVE  AnsweredByALaterRound'
  BY <1>10 DEF Elapses, Sleeping, LoopAt, account, round, counts, store, told, ghosts,
     TypeOK, Generations, Begun, AnsweredByALaterRound, NoAsk
<1>11. ASSUME Woken
       PROVE  AnsweredByALaterRound'
  BY <1>11 DEF Woken, Sleeping, LoopAt, account, round, counts, store, told, ghosts,
     TypeOK, Generations, Begun, AnsweredByALaterRound, NoAsk
<1>12. ASSUME Rearm
       PROVE  AnsweredByALaterRound'
  BY <1>12 DEF Rearm, Sleeping, LoopAt, account, round, counts, store, told, ghosts,
     TypeOK, Generations, Begun, AnsweredByALaterRound, NoAsk
<1>13. ASSUME Debounced
       PROVE  AnsweredByALaterRound'
  BY <1>13 DEF Debounced, LoopAt, account, round, counts, store, told, ghosts, TypeOK,
     Generations, Begun, AnsweredByALaterRound, NoAsk
<1>14. ASSUME NEW a \in Askers, AskWakes(a)
       PROVE  AnsweredByALaterRound'
  BY <1>14 DEF AskWakes, CallOf, Wake, account, round, counts, store, told, ghosts, TypeOK,
     Generations, Begun, AnsweredByALaterRound, NoAsk
<1>15. ASSUME NEW a \in Askers, AskAnswered(a)
       PROVE  AnsweredByALaterRound'
  BY <1>15 DEF AskAnswered, CallOf, account, round, counts, store, told, ghosts, TypeOK,
     Generations, Begun, AnsweredByALaterRound, NoAsk
<1>16. ASSUME EditTold
       PROVE  AnsweredByALaterRound'
  BY <1>16 DEF EditTold, CallOf, SaysChanged, Wake, account, round, counts, store, told,
     ghosts, TypeOK, Generations, Begun, AnsweredByALaterRound, NoAsk
<1>17. ASSUME NEW s \in Setters, SetSaves(s)
       PROVE  AnsweredByALaterRound'
  BY <1>17 DEF SetSaves, Differs, CallOf, account, round, counts, store, told, ghosts,
     TypeOK, Generations, Begun, AnsweredByALaterRound, NoAsk
<1>18. ASSUME NEW s \in Setters, SetWakes(s)
       PROVE  AnsweredByALaterRound'
  BY <1>18 DEF SetWakes, CallOf, account, round, counts, store, told, ghosts, TypeOK,
     Generations, Begun, AnsweredByALaterRound, NoAsk
<1>19. ASSUME NEW s \in Signers, SignSaves(s)
       PROVE  AnsweredByALaterRound'
  BY <1>19 DEF SignSaves, CallOf, account, round, counts, store, told, ghosts, TypeOK,
     Generations, Begun, AnsweredByALaterRound, NoAsk
<1>20. ASSUME NEW s \in Signers, SignDrops(s)
       PROVE  AnsweredByALaterRound'
  BY <1>20 DEF SignDrops, ClientFree, CallOf, account, round, counts, store, told, ghosts,
     TypeOK, Generations, Begun, AnsweredByALaterRound, NoAsk
<1>21. ASSUME NEW s \in Signers, SignResets(s)
       PROVE  AnsweredByALaterRound'
  BY <1>21 DEF SignResets, CallOf, SaysChanged, account, round, counts, store, told,
     ghosts, TypeOK, Generations, Begun, AnsweredByALaterRound, NoAsk
<1>22. ASSUME NEW s \in Signers, SignSays(s)
       PROVE  AnsweredByALaterRound'
  BY <1>22 DEF SignSays, CallOf, Says, Wake, account, round, counts, store, told, ghosts,
     TypeOK, Generations, Begun, AnsweredByALaterRound, NoAsk
<1>23. ASSUME NEW a \in Askers, Ask(a)
       PROVE  AnsweredByALaterRound'
  BY <1>23 DEF Ask, CallOf, Event, account, round, counts, store, told, ghosts, TypeOK,
     Generations, Begun, AnsweredByALaterRound, NoAsk
<1>24. ASSUME EditMade
       PROVE  AnsweredByALaterRound'
  BY <1>24 DEF EditMade, CallOf, Event, account, round, counts, store, told, ghosts,
     TypeOK, Generations, Begun, AnsweredByALaterRound, NoAsk
<1>25. ASSUME NEW s \in Setters, NEW i \in Intervals, SetReads(s, i)
       PROVE  AnsweredByALaterRound'
  BY <1>25 DEF SetReads, CallOf, Event, account, round, counts, store, told, ghosts,
     TypeOK, Generations, Begun, AnsweredByALaterRound, NoAsk
<1>26. ASSUME NEW s \in Signers, NEW who \in Accounts \cup {None}, SignBegins(s, who)
       PROVE  AnsweredByALaterRound'
  BY <1>26 DEF SignBegins, CallOf, Event, account, round, counts, store, told, ghosts,
     TypeOK, Generations, Begun, AnsweredByALaterRound, NoAsk
<1>27. ASSUME Pump
       PROVE  AnsweredByALaterRound'
  BY <1>27 DEF Pump, account, round, counts, store, told, ghosts, TypeOK, Generations,
     Begun, AnsweredByALaterRound, NoAsk
<1>28. ASSUME MachineWakes
       PROVE  AnsweredByALaterRound'
  BY <1>28 DEF MachineWakes, Around, Event, Wake, account, round, counts, store, told,
     ghosts, TypeOK, Generations, Begun, AnsweredByALaterRound, NoAsk
<1>29. ASSUME NEW part \in Parts, ServerChanges(part)
       PROVE  AnsweredByALaterRound'
  BY <1>29 DEF ServerChanges, Around, Event, account, round, counts, store, told, ghosts,
     TypeOK, Generations, Begun, AnsweredByALaterRound, NoAsk
<1> QED BY <1>1, <1>2, <1>3, <1>4, <1>5, <1>6, <1>7, <1>8, <1>9, <1>10, <1>11, <1>12,
     <1>13, <1>14, <1>15, <1>16, <1>17, <1>18, <1>19, <1>20, <1>21, <1>22, <1>23, <1>24,
     <1>25, <1>26, <1>27, <1>28, <1>29
     DEF Next, LoopStep, CallStep, PeopleStep

LEMMA ClientKept ==
  ASSUME TypeOK, UsesTheAccount, ClientIsTheAccounts, Next
  PROVE  ClientIsTheAccounts'
<1>1. ASSUME Begin
      PROVE  ClientIsTheAccounts'
  BY <1>1 DEF Begin, LoopAt, account, round, counts, store, told, ghosts, TypeOK,
     UsesTheAccount, ClientIsTheAccounts, None, NoSign
<1>2. ASSUME Client
      PROVE  ClientIsTheAccounts'
  BY <1>2 DEF Client, LoopAt, Start, NotSignedIn, Fails, Says, account, round, counts,
     store, told, ghosts, TypeOK, UsesTheAccount, ClientIsTheAccounts, None, NoSign
<1>3. ASSUME Password
      PROVE  ClientIsTheAccounts'
  BY <1>3 DEF Password, LoopAt, Start, Fails, Says, Fault, account, round, counts, store,
     told, ghosts, TypeOK, UsesTheAccount, ClientIsTheAccounts, None, NoSign
<1>4. ASSUME Push
      PROVE  ClientIsTheAccounts'
  BY <1>4 DEF Push, LoopAt, account, round, counts, store, told, ghosts, TypeOK,
     UsesTheAccount, ClientIsTheAccounts, None, NoSign
<1>5. ASSUME NEW part \in Parts, Pull(part)
      PROVE  ClientIsTheAccounts'
  BY <1>5 DEF Pull, Counts, LoopAt, account, round, counts, store, told, ghosts, TypeOK,
     UsesTheAccount, ClientIsTheAccounts, None, NoSign
<1>6. ASSUME RoundDone
      PROVE  ClientIsTheAccounts'
  BY <1>6 DEF RoundDone, LoopAt, Says, SaysBoth, account, round, counts, store, told,
     ghosts, TypeOK, UsesTheAccount, ClientIsTheAccounts, None, NoSign
<1>7. ASSUME RoundFails
      PROVE  ClientIsTheAccounts'
  BY <1>7 DEF RoundFails, LoopAt, Fails, Says, Fault, account, round, counts, store, told,
     ghosts, TypeOK, UsesTheAccount, ClientIsTheAccounts, None, NoSign
<1>8. ASSUME DropClient
      PROVE  ClientIsTheAccounts'
  BY <1>8 DEF DropClient, LoopAt, Fails, Says, account, round, counts, store, told, ghosts,
     TypeOK, UsesTheAccount, ClientIsTheAccounts, None, NoSign
<1>9. ASSUME Answer
      PROVE  ClientIsTheAccounts'
  BY <1>9 DEF Answer, Answered, LoopAt, account, round, counts, store, told, ghosts,
     TypeOK, UsesTheAccount, ClientIsTheAccounts, None, NoSign
<1>10. ASSUME Elapses
       PROVE  ClientIsTheAccounts'
  BY <1>10 DEF Elapses, Sleeping, LoopAt, account, round, counts, store, told, ghosts,
     TypeOK, UsesTheAccount, ClientIsTheAccounts, None, NoSign
<1>11. ASSUME Woken
       PROVE  ClientIsTheAccounts'
  BY <1>11 DEF Woken, Sleeping, LoopAt, account, round, counts, store, told, ghosts,
     TypeOK, UsesTheAccount, ClientIsTheAccounts, None, NoSign
<1>12. ASSUME Rearm
       PROVE  ClientIsTheAccounts'
  BY <1>12 DEF Rearm, Sleeping, LoopAt, account, round, counts, store, told, ghosts,
     TypeOK, UsesTheAccount, ClientIsTheAccounts, None, NoSign
<1>13. ASSUME Debounced
       PROVE  ClientIsTheAccounts'
  BY <1>13 DEF Debounced, LoopAt, account, round, counts, store, told, ghosts, TypeOK,
     UsesTheAccount, ClientIsTheAccounts, None, NoSign
<1>14. ASSUME NEW a \in Askers, AskWakes(a)
       PROVE  ClientIsTheAccounts'
  BY <1>14 DEF AskWakes, CallOf, Wake, account, round, counts, store, told, ghosts, TypeOK,
     UsesTheAccount, ClientIsTheAccounts, None, NoSign
<1>15. ASSUME NEW a \in Askers, AskAnswered(a)
       PROVE  ClientIsTheAccounts'
  BY <1>15 DEF AskAnswered, CallOf, account, round, counts, store, told, ghosts, TypeOK,
     UsesTheAccount, ClientIsTheAccounts, None, NoSign
<1>16. ASSUME EditTold
       PROVE  ClientIsTheAccounts'
  BY <1>16 DEF EditTold, CallOf, SaysChanged, Wake, account, round, counts, store, told,
     ghosts, TypeOK, UsesTheAccount, ClientIsTheAccounts, None, NoSign
<1>17. ASSUME NEW s \in Setters, SetSaves(s)
       PROVE  ClientIsTheAccounts'
  BY <1>17 DEF SetSaves, Differs, CallOf, account, round, counts, store, told, ghosts,
     TypeOK, UsesTheAccount, ClientIsTheAccounts, None, NoSign
<1>18. ASSUME NEW s \in Setters, SetWakes(s)
       PROVE  ClientIsTheAccounts'
  BY <1>18 DEF SetWakes, CallOf, account, round, counts, store, told, ghosts, TypeOK,
     UsesTheAccount, ClientIsTheAccounts, None, NoSign
<1>19. ASSUME NEW s \in Signers, SignSaves(s)
       PROVE  ClientIsTheAccounts'
  BY <1>19 DEF SignSaves, CallOf, account, round, counts, store, told, ghosts, TypeOK,
     UsesTheAccount, ClientIsTheAccounts, None, NoSign
<1>20. ASSUME NEW s \in Signers, SignDrops(s)
       PROVE  ClientIsTheAccounts'
  BY <1>20 DEF SignDrops, ClientFree, CallOf, account, round, counts, store, told, ghosts,
     TypeOK, UsesTheAccount, ClientIsTheAccounts, None, NoSign
<1>21. ASSUME NEW s \in Signers, SignResets(s)
       PROVE  ClientIsTheAccounts'
  BY <1>21 DEF SignResets, CallOf, SaysChanged, account, round, counts, store, told,
     ghosts, TypeOK, UsesTheAccount, ClientIsTheAccounts, None, NoSign
<1>22. ASSUME NEW s \in Signers, SignSays(s)
       PROVE  ClientIsTheAccounts'
  BY <1>22 DEF SignSays, CallOf, Says, Wake, account, round, counts, store, told, ghosts,
     TypeOK, UsesTheAccount, ClientIsTheAccounts, None, NoSign
<1>23. ASSUME NEW a \in Askers, Ask(a)
       PROVE  ClientIsTheAccounts'
  BY <1>23 DEF Ask, CallOf, Event, account, round, counts, store, told, ghosts, TypeOK,
     UsesTheAccount, ClientIsTheAccounts, None, NoSign
<1>24. ASSUME EditMade
       PROVE  ClientIsTheAccounts'
  BY <1>24 DEF EditMade, CallOf, Event, account, round, counts, store, told, ghosts,
     TypeOK, UsesTheAccount, ClientIsTheAccounts, None, NoSign
<1>25. ASSUME NEW s \in Setters, NEW i \in Intervals, SetReads(s, i)
       PROVE  ClientIsTheAccounts'
  BY <1>25 DEF SetReads, CallOf, Event, account, round, counts, store, told, ghosts,
     TypeOK, UsesTheAccount, ClientIsTheAccounts, None, NoSign
<1>26. ASSUME NEW s \in Signers, NEW who \in Accounts \cup {None}, SignBegins(s, who)
       PROVE  ClientIsTheAccounts'
  BY <1>26 DEF SignBegins, CallOf, Event, account, round, counts, store, told, ghosts,
     TypeOK, UsesTheAccount, ClientIsTheAccounts, None, NoSign
<1>27. ASSUME Pump
       PROVE  ClientIsTheAccounts'
  BY <1>27 DEF Pump, account, round, counts, store, told, ghosts, TypeOK, UsesTheAccount,
     ClientIsTheAccounts, None, NoSign
<1>28. ASSUME MachineWakes
       PROVE  ClientIsTheAccounts'
  BY <1>28 DEF MachineWakes, Around, Event, Wake, account, round, counts, store, told,
     ghosts, TypeOK, UsesTheAccount, ClientIsTheAccounts, None, NoSign
<1>29. ASSUME NEW part \in Parts, ServerChanges(part)
       PROVE  ClientIsTheAccounts'
  BY <1>29 DEF ServerChanges, Around, Event, account, round, counts, store, told, ghosts,
     TypeOK, UsesTheAccount, ClientIsTheAccounts, None, NoSign
<1> QED BY <1>1, <1>2, <1>3, <1>4, <1>5, <1>6, <1>7, <1>8, <1>9, <1>10, <1>11, <1>12,
     <1>13, <1>14, <1>15, <1>16, <1>17, <1>18, <1>19, <1>20, <1>21, <1>22, <1>23, <1>24,
     <1>25, <1>26, <1>27, <1>28, <1>29
     DEF Next, LoopStep, CallStep, PeopleStep

LEMMA SleepsKept ==
  ASSUME TypeOK, OneSets, SleepsAsSet, Next
  PROVE  SleepsAsSet'
<1>1. ASSUME Begin
      PROVE  SleepsAsSet'
  BY <1>1 DEF Begin, LoopAt, account, round, counts, store, told, ghosts, TypeOK, OneSets,
     SleepsAsSet, NoSet, None
<1>2. ASSUME Client
      PROVE  SleepsAsSet'
  BY <1>2 DEF Client, LoopAt, Start, NotSignedIn, Fails, Says, account, round, counts,
     store, told, ghosts, TypeOK, OneSets, SleepsAsSet, NoSet, None
<1>3. ASSUME Password
      PROVE  SleepsAsSet'
  BY <1>3 DEF Password, LoopAt, Start, Fails, Says, Fault, account, round, counts, store,
     told, ghosts, TypeOK, OneSets, SleepsAsSet, NoSet, None
<1>4. ASSUME Push
      PROVE  SleepsAsSet'
  BY <1>4 DEF Push, LoopAt, account, round, counts, store, told, ghosts, TypeOK, OneSets,
     SleepsAsSet, NoSet, None
<1>5. ASSUME NEW part \in Parts, Pull(part)
      PROVE  SleepsAsSet'
  BY <1>5 DEF Pull, Counts, LoopAt, account, round, counts, store, told, ghosts, TypeOK,
     OneSets, SleepsAsSet, NoSet, None
<1>6. ASSUME RoundDone
      PROVE  SleepsAsSet'
  BY <1>6 DEF RoundDone, LoopAt, Says, SaysBoth, account, round, counts, store, told,
     ghosts, TypeOK, OneSets, SleepsAsSet, NoSet, None
<1>7. ASSUME RoundFails
      PROVE  SleepsAsSet'
  BY <1>7 DEF RoundFails, LoopAt, Fails, Says, Fault, account, round, counts, store, told,
     ghosts, TypeOK, OneSets, SleepsAsSet, NoSet, None
<1>8. ASSUME DropClient
      PROVE  SleepsAsSet'
  BY <1>8 DEF DropClient, LoopAt, Fails, Says, account, round, counts, store, told, ghosts,
     TypeOK, OneSets, SleepsAsSet, NoSet, None
<1>9. ASSUME Answer
      PROVE  SleepsAsSet'
  BY <1>9 DEF Answer, Answered, LoopAt, account, round, counts, store, told, ghosts,
     TypeOK, OneSets, SleepsAsSet, NoSet, None
<1>10. ASSUME Elapses
       PROVE  SleepsAsSet'
  BY <1>10 DEF Elapses, Sleeping, LoopAt, account, round, counts, store, told, ghosts,
     TypeOK, OneSets, SleepsAsSet, NoSet, None
<1>11. ASSUME Woken
       PROVE  SleepsAsSet'
  BY <1>11 DEF Woken, Sleeping, LoopAt, account, round, counts, store, told, ghosts,
     TypeOK, OneSets, SleepsAsSet, NoSet, None
<1>12. ASSUME Rearm
       PROVE  SleepsAsSet'
  BY <1>12 DEF Rearm, Sleeping, LoopAt, account, round, counts, store, told, ghosts,
     TypeOK, OneSets, SleepsAsSet, NoSet, None
<1>13. ASSUME Debounced
       PROVE  SleepsAsSet'
  BY <1>13 DEF Debounced, LoopAt, account, round, counts, store, told, ghosts, TypeOK,
     OneSets, SleepsAsSet, NoSet, None
<1>14. ASSUME NEW a \in Askers, AskWakes(a)
       PROVE  SleepsAsSet'
  BY <1>14 DEF AskWakes, CallOf, Wake, account, round, counts, store, told, ghosts, TypeOK,
     OneSets, SleepsAsSet, NoSet, None
<1>15. ASSUME NEW a \in Askers, AskAnswered(a)
       PROVE  SleepsAsSet'
  BY <1>15 DEF AskAnswered, CallOf, account, round, counts, store, told, ghosts, TypeOK,
     OneSets, SleepsAsSet, NoSet, None
<1>16. ASSUME EditTold
       PROVE  SleepsAsSet'
  BY <1>16 DEF EditTold, CallOf, SaysChanged, Wake, account, round, counts, store, told,
     ghosts, TypeOK, OneSets, SleepsAsSet, NoSet, None
<1>17. ASSUME NEW s \in Setters, SetSaves(s)
       PROVE  SleepsAsSet'
  BY <1>17 DEF SetSaves, Differs, CallOf, account, round, counts, store, told, ghosts,
     TypeOK, OneSets, SleepsAsSet, NoSet, None
<1>18. ASSUME NEW s \in Setters, SetWakes(s)
       PROVE  SleepsAsSet'
  BY <1>18 DEF SetWakes, CallOf, account, round, counts, store, told, ghosts, TypeOK,
     OneSets, SleepsAsSet, NoSet, None
<1>19. ASSUME NEW s \in Signers, SignSaves(s)
       PROVE  SleepsAsSet'
  BY <1>19 DEF SignSaves, CallOf, account, round, counts, store, told, ghosts, TypeOK,
     OneSets, SleepsAsSet, NoSet, None
<1>20. ASSUME NEW s \in Signers, SignDrops(s)
       PROVE  SleepsAsSet'
  BY <1>20 DEF SignDrops, ClientFree, CallOf, account, round, counts, store, told, ghosts,
     TypeOK, OneSets, SleepsAsSet, NoSet, None
<1>21. ASSUME NEW s \in Signers, SignResets(s)
       PROVE  SleepsAsSet'
  BY <1>21 DEF SignResets, CallOf, SaysChanged, account, round, counts, store, told,
     ghosts, TypeOK, OneSets, SleepsAsSet, NoSet, None
<1>22. ASSUME NEW s \in Signers, SignSays(s)
       PROVE  SleepsAsSet'
  BY <1>22 DEF SignSays, CallOf, Says, Wake, account, round, counts, store, told, ghosts,
     TypeOK, OneSets, SleepsAsSet, NoSet, None
<1>23. ASSUME NEW a \in Askers, Ask(a)
       PROVE  SleepsAsSet'
  BY <1>23 DEF Ask, CallOf, Event, account, round, counts, store, told, ghosts, TypeOK,
     OneSets, SleepsAsSet, NoSet, None
<1>24. ASSUME EditMade
       PROVE  SleepsAsSet'
  BY <1>24 DEF EditMade, CallOf, Event, account, round, counts, store, told, ghosts,
     TypeOK, OneSets, SleepsAsSet, NoSet, None
<1>25. ASSUME NEW s \in Setters, NEW i \in Intervals, SetReads(s, i)
       PROVE  SleepsAsSet'
  BY <1>25 DEF SetReads, CallOf, Event, account, round, counts, store, told, ghosts,
     TypeOK, OneSets, SleepsAsSet, NoSet, None
<1>26. ASSUME NEW s \in Signers, NEW who \in Accounts \cup {None}, SignBegins(s, who)
       PROVE  SleepsAsSet'
  BY <1>26 DEF SignBegins, CallOf, Event, account, round, counts, store, told, ghosts,
     TypeOK, OneSets, SleepsAsSet, NoSet, None
<1>27. ASSUME Pump
       PROVE  SleepsAsSet'
  BY <1>27 DEF Pump, account, round, counts, store, told, ghosts, TypeOK, OneSets,
     SleepsAsSet, NoSet, None
<1>28. ASSUME MachineWakes
       PROVE  SleepsAsSet'
  BY <1>28 DEF MachineWakes, Around, Event, Wake, account, round, counts, store, told,
     ghosts, TypeOK, OneSets, SleepsAsSet, NoSet, None
<1>29. ASSUME NEW part \in Parts, ServerChanges(part)
       PROVE  SleepsAsSet'
  BY <1>29 DEF ServerChanges, Around, Event, account, round, counts, store, told, ghosts,
     TypeOK, OneSets, SleepsAsSet, NoSet, None
<1> QED BY <1>1, <1>2, <1>3, <1>4, <1>5, <1>6, <1>7, <1>8, <1>9, <1>10, <1>11, <1>12,
     <1>13, <1>14, <1>15, <1>16, <1>17, <1>18, <1>19, <1>20, <1>21, <1>22, <1>23, <1>24,
     <1>25, <1>26, <1>27, <1>28, <1>29
     DEF Next, LoopStep, CallStep, PeopleStep

LEMMA ToldKept ==
  ASSUME TypeOK, ChangesAreTold, Next
  PROVE  ChangesAreTold'
<1>1. ASSUME Begin
      PROVE  ChangesAreTold'
  BY <1>1 DEF Begin, LoopAt, account, round, counts, store, told, ghosts, TypeOK,
     ChangesAreTold, None
<1>2. ASSUME Client
      PROVE  ChangesAreTold'
  BY <1>2 DEF Client, LoopAt, Start, NotSignedIn, Fails, Says, account, round, counts,
     store, told, ghosts, TypeOK, ChangesAreTold, None
<1>3. ASSUME Password
      PROVE  ChangesAreTold'
  BY <1>3 DEF Password, LoopAt, Start, Fails, Says, Fault, account, round, counts, store,
     told, ghosts, TypeOK, ChangesAreTold, None
<1>4. ASSUME Push
      PROVE  ChangesAreTold'
  BY <1>4 DEF Push, LoopAt, account, round, counts, store, told, ghosts, TypeOK,
     ChangesAreTold, None
<1>5. ASSUME NEW part \in Parts, Pull(part)
      PROVE  ChangesAreTold'
  BY <1>5 DEF Pull, Counts, LoopAt, account, round, counts, store, told, ghosts, TypeOK,
     ChangesAreTold, None
<1>6. ASSUME RoundDone
      PROVE  ChangesAreTold'
  BY <1>6 DEF RoundDone, LoopAt, Says, SaysBoth, account, round, counts, store, told,
     ghosts, TypeOK, ChangesAreTold, None
<1>7. ASSUME RoundFails
      PROVE  ChangesAreTold'
  BY <1>7 DEF RoundFails, LoopAt, Fails, Says, Fault, account, round, counts, store, told,
     ghosts, TypeOK, ChangesAreTold, None
<1>8. ASSUME DropClient
      PROVE  ChangesAreTold'
  BY <1>8 DEF DropClient, LoopAt, Fails, Says, account, round, counts, store, told, ghosts,
     TypeOK, ChangesAreTold, None
<1>9. ASSUME Answer
      PROVE  ChangesAreTold'
  BY <1>9 DEF Answer, Answered, LoopAt, account, round, counts, store, told, ghosts,
     TypeOK, ChangesAreTold, None
<1>10. ASSUME Elapses
       PROVE  ChangesAreTold'
  BY <1>10 DEF Elapses, Sleeping, LoopAt, account, round, counts, store, told, ghosts,
     TypeOK, ChangesAreTold, None
<1>11. ASSUME Woken
       PROVE  ChangesAreTold'
  BY <1>11 DEF Woken, Sleeping, LoopAt, account, round, counts, store, told, ghosts,
     TypeOK, ChangesAreTold, None
<1>12. ASSUME Rearm
       PROVE  ChangesAreTold'
  BY <1>12 DEF Rearm, Sleeping, LoopAt, account, round, counts, store, told, ghosts,
     TypeOK, ChangesAreTold, None
<1>13. ASSUME Debounced
       PROVE  ChangesAreTold'
  BY <1>13 DEF Debounced, LoopAt, account, round, counts, store, told, ghosts, TypeOK,
     ChangesAreTold, None
<1>14. ASSUME NEW a \in Askers, AskWakes(a)
       PROVE  ChangesAreTold'
  BY <1>14 DEF AskWakes, CallOf, Wake, account, round, counts, store, told, ghosts, TypeOK,
     ChangesAreTold, None
<1>15. ASSUME NEW a \in Askers, AskAnswered(a)
       PROVE  ChangesAreTold'
  BY <1>15 DEF AskAnswered, CallOf, account, round, counts, store, told, ghosts, TypeOK,
     ChangesAreTold, None
<1>16. ASSUME EditTold
       PROVE  ChangesAreTold'
  BY <1>16 DEF EditTold, CallOf, SaysChanged, Wake, account, round, counts, store, told,
     ghosts, TypeOK, ChangesAreTold, None
<1>17. ASSUME NEW s \in Setters, SetSaves(s)
       PROVE  ChangesAreTold'
  BY <1>17 DEF SetSaves, Differs, CallOf, account, round, counts, store, told, ghosts,
     TypeOK, ChangesAreTold, None
<1>18. ASSUME NEW s \in Setters, SetWakes(s)
       PROVE  ChangesAreTold'
  BY <1>18 DEF SetWakes, CallOf, account, round, counts, store, told, ghosts, TypeOK,
     ChangesAreTold, None
<1>19. ASSUME NEW s \in Signers, SignSaves(s)
       PROVE  ChangesAreTold'
  BY <1>19 DEF SignSaves, CallOf, account, round, counts, store, told, ghosts, TypeOK,
     ChangesAreTold, None
<1>20. ASSUME NEW s \in Signers, SignDrops(s)
       PROVE  ChangesAreTold'
  BY <1>20 DEF SignDrops, ClientFree, CallOf, account, round, counts, store, told, ghosts,
     TypeOK, ChangesAreTold, None
<1>21. ASSUME NEW s \in Signers, SignResets(s)
       PROVE  ChangesAreTold'
  BY <1>21 DEF SignResets, CallOf, SaysChanged, account, round, counts, store, told,
     ghosts, TypeOK, ChangesAreTold, None
<1>22. ASSUME NEW s \in Signers, SignSays(s)
       PROVE  ChangesAreTold'
  BY <1>22 DEF SignSays, CallOf, Says, Wake, account, round, counts, store, told, ghosts,
     TypeOK, ChangesAreTold, None
<1>23. ASSUME NEW a \in Askers, Ask(a)
       PROVE  ChangesAreTold'
  BY <1>23 DEF Ask, CallOf, Event, account, round, counts, store, told, ghosts, TypeOK,
     ChangesAreTold, None
<1>24. ASSUME EditMade
       PROVE  ChangesAreTold'
  BY <1>24 DEF EditMade, CallOf, Event, account, round, counts, store, told, ghosts,
     TypeOK, ChangesAreTold, None
<1>25. ASSUME NEW s \in Setters, NEW i \in Intervals, SetReads(s, i)
       PROVE  ChangesAreTold'
  BY <1>25 DEF SetReads, CallOf, Event, account, round, counts, store, told, ghosts,
     TypeOK, ChangesAreTold, None
<1>26. ASSUME NEW s \in Signers, NEW who \in Accounts \cup {None}, SignBegins(s, who)
       PROVE  ChangesAreTold'
  BY <1>26 DEF SignBegins, CallOf, Event, account, round, counts, store, told, ghosts,
     TypeOK, ChangesAreTold, None
<1>27. ASSUME Pump
       PROVE  ChangesAreTold'
  BY <1>27 DEF Pump, account, round, counts, store, told, ghosts, TypeOK, ChangesAreTold,
     None
<1>28. ASSUME MachineWakes
       PROVE  ChangesAreTold'
  BY <1>28 DEF MachineWakes, Around, Event, Wake, account, round, counts, store, told,
     ghosts, TypeOK, ChangesAreTold, None
<1>29. ASSUME NEW part \in Parts, ServerChanges(part)
       PROVE  ChangesAreTold'
  BY <1>29 DEF ServerChanges, Around, Event, account, round, counts, store, told, ghosts,
     TypeOK, ChangesAreTold, None
<1> QED BY <1>1, <1>2, <1>3, <1>4, <1>5, <1>6, <1>7, <1>8, <1>9, <1>10, <1>11, <1>12,
     <1>13, <1>14, <1>15, <1>16, <1>17, <1>18, <1>19, <1>20, <1>21, <1>22, <1>23, <1>24,
     <1>25, <1>26, <1>27, <1>28, <1>29
     DEF Next, LoopStep, CallStep, PeopleStep

-----------------------------------------------------------------------------
(* Every step is a step of Rounds, or none. *)

LEMMA StepsOfRounds ==
  ASSUME TypeOK, Generations, AnsweredByALaterRound, Next
  PROVE  [Promise!Next]_(Promise!vars)
<1>1. ASSUME Begin
      PROVE  [Promise!Next]_(Promise!vars)
  <2>1. Promise!Begin
    BY <1>1 DEF Begin, LoopAt, account, round, counts, store, told, ghosts, TypeOK,
       AnsweredByALaterRound, NoAsk, Places, Asking, InRound, Promise!Begin
  <2> QED BY <2>1 DEF Promise!Next
<1>2. ASSUME Client
      PROVE  [Promise!Next]_(Promise!vars)
  <2>1. Asking' = Asking /\ InRound' = InRound /\ begun' = begun /\ served' = served
    BY <1>2 DEF Client, LoopAt, Start, NotSignedIn, Fails, Says, account, round, counts,
       store, told, ghosts, TypeOK, Places, Asking, InRound
  <2> QED BY <2>1 DEF Promise!vars
<1>3. ASSUME Password
      PROVE  [Promise!Next]_(Promise!vars)
  <2>1. Asking' = Asking /\ InRound' = InRound /\ begun' = begun /\ served' = served
    BY <1>3 DEF Password, LoopAt, Start, Fails, Says, Fault, account, round, counts, store,
       told, ghosts, TypeOK, Places, Asking, InRound
  <2> QED BY <2>1 DEF Promise!vars
<1>4. ASSUME Push
      PROVE  [Promise!Next]_(Promise!vars)
  <2>1. Asking' = Asking /\ InRound' = InRound /\ begun' = begun /\ served' = served
    BY <1>4 DEF Push, LoopAt, account, round, counts, store, told, ghosts, TypeOK, Places,
       Asking, InRound
  <2> QED BY <2>1 DEF Promise!vars
<1>5. ASSUME NEW part \in Parts, Pull(part)
      PROVE  [Promise!Next]_(Promise!vars)
  <2>1. Asking' = Asking /\ InRound' = InRound /\ begun' = begun /\ served' = served
    BY <1>5 DEF Pull, Counts, LoopAt, account, round, counts, store, told, ghosts, TypeOK,
       Places, Asking, InRound
  <2> QED BY <2>1 DEF Promise!vars
<1>6. ASSUME RoundDone
      PROVE  [Promise!Next]_(Promise!vars)
  <2>1. Asking' = Asking /\ InRound' = InRound /\ begun' = begun /\ served' = served
    BY <1>6 DEF RoundDone, LoopAt, Says, SaysBoth, account, round, counts, store, told,
       ghosts, TypeOK, Places, Asking, InRound
  <2> QED BY <2>1 DEF Promise!vars
<1>7. ASSUME RoundFails
      PROVE  [Promise!Next]_(Promise!vars)
  <2>1. Asking' = Asking /\ InRound' = InRound /\ begun' = begun /\ served' = served
    BY <1>7 DEF RoundFails, LoopAt, Fails, Says, Fault, account, round, counts, store,
       told, ghosts, TypeOK, Places, Asking, InRound
  <2> QED BY <2>1 DEF Promise!vars
<1>8. ASSUME DropClient
      PROVE  [Promise!Next]_(Promise!vars)
  <2>1. Asking' = Asking /\ InRound' = InRound /\ begun' = begun /\ served' = served
    BY <1>8 DEF DropClient, LoopAt, Fails, Says, account, round, counts, store, told,
       ghosts, TypeOK, Places, Asking, InRound
  <2> QED BY <2>1 DEF Promise!vars
<1>9. ASSUME Answer
      PROVE  [Promise!Next]_(Promise!vars)
  <2>1. Promise!End
    BY <1>9 DEF Answer, Answered, LoopAt, account, round, counts, store, told, ghosts,
       TypeOK, AnsweredByALaterRound, NoAsk, Places, Asking, InRound, Promise!End
  <2> QED BY <2>1 DEF Promise!Next
<1>10. ASSUME Elapses
       PROVE  [Promise!Next]_(Promise!vars)
  <2>1. Asking' = Asking /\ InRound' = InRound /\ begun' = begun /\ served' = served
    BY <1>10 DEF Elapses, Sleeping, LoopAt, account, round, counts, store, told, ghosts,
       TypeOK, Places, Asking, InRound
  <2> QED BY <2>1 DEF Promise!vars
<1>11. ASSUME Woken
       PROVE  [Promise!Next]_(Promise!vars)
  <2>1. Asking' = Asking /\ InRound' = InRound /\ begun' = begun /\ served' = served
    BY <1>11 DEF Woken, Sleeping, LoopAt, account, round, counts, store, told, ghosts,
       TypeOK, Places, Asking, InRound
  <2> QED BY <2>1 DEF Promise!vars
<1>12. ASSUME Rearm
       PROVE  [Promise!Next]_(Promise!vars)
  <2>1. Asking' = Asking /\ InRound' = InRound /\ begun' = begun /\ served' = served
    BY <1>12 DEF Rearm, Sleeping, LoopAt, account, round, counts, store, told, ghosts,
       TypeOK, Places, Asking, InRound
  <2> QED BY <2>1 DEF Promise!vars
<1>13. ASSUME Debounced
       PROVE  [Promise!Next]_(Promise!vars)
  <2>1. Asking' = Asking /\ InRound' = InRound /\ begun' = begun /\ served' = served
    BY <1>13 DEF Debounced, LoopAt, account, round, counts, store, told, ghosts, TypeOK,
       Places, Asking, InRound
  <2> QED BY <2>1 DEF Promise!vars
<1>14. ASSUME NEW a \in Askers, AskWakes(a)
       PROVE  [Promise!Next]_(Promise!vars)
  <2>1. Asking' = Asking /\ InRound' = InRound /\ begun' = begun /\ served' = served
    BY <1>14 DEF AskWakes, CallOf, Wake, account, round, counts, store, told, ghosts,
       TypeOK, Places, Asking, InRound
  <2> QED BY <2>1 DEF Promise!vars
<1>15. ASSUME NEW a \in Askers, AskAnswered(a)
       PROVE  [Promise!Next]_(Promise!vars)
  <2>1. Promise!Leave(a)
    BY <1>15 DEF AskAnswered, CallOf, account, round, counts, store, told, ghosts, TypeOK,
       AnsweredByALaterRound, NoAsk, Places, Asking, InRound, Promise!Leave
  <2> QED BY <2>1 DEF Promise!Next
<1>16. ASSUME EditTold
       PROVE  [Promise!Next]_(Promise!vars)
  <2>1. Asking' = Asking /\ InRound' = InRound /\ begun' = begun /\ served' = served
    BY <1>16 DEF EditTold, CallOf, SaysChanged, Wake, account, round, counts, store, told,
       ghosts, TypeOK, Places, Asking, InRound
  <2> QED BY <2>1 DEF Promise!vars
<1>17. ASSUME NEW s \in Setters, SetSaves(s)
       PROVE  [Promise!Next]_(Promise!vars)
  <2>1. Asking' = Asking /\ InRound' = InRound /\ begun' = begun /\ served' = served
    BY <1>17 DEF SetSaves, Differs, CallOf, account, round, counts, store, told, ghosts,
       TypeOK, Places, Asking, InRound
  <2> QED BY <2>1 DEF Promise!vars
<1>18. ASSUME NEW s \in Setters, SetWakes(s)
       PROVE  [Promise!Next]_(Promise!vars)
  <2>1. Asking' = Asking /\ InRound' = InRound /\ begun' = begun /\ served' = served
    BY <1>18 DEF SetWakes, CallOf, account, round, counts, store, told, ghosts, TypeOK,
       Places, Asking, InRound
  <2> QED BY <2>1 DEF Promise!vars
<1>19. ASSUME NEW s \in Signers, SignSaves(s)
       PROVE  [Promise!Next]_(Promise!vars)
  <2>1. Asking' = Asking /\ InRound' = InRound /\ begun' = begun /\ served' = served
    BY <1>19 DEF SignSaves, CallOf, account, round, counts, store, told, ghosts, TypeOK,
       Places, Asking, InRound
  <2> QED BY <2>1 DEF Promise!vars
<1>20. ASSUME NEW s \in Signers, SignDrops(s)
       PROVE  [Promise!Next]_(Promise!vars)
  <2>1. Asking' = Asking /\ InRound' = InRound /\ begun' = begun /\ served' = served
    BY <1>20 DEF SignDrops, ClientFree, CallOf, account, round, counts, store, told,
       ghosts, TypeOK, Places, Asking, InRound
  <2> QED BY <2>1 DEF Promise!vars
<1>21. ASSUME NEW s \in Signers, SignResets(s)
       PROVE  [Promise!Next]_(Promise!vars)
  <2>1. Asking' = Asking /\ InRound' = InRound /\ begun' = begun /\ served' = served
    BY <1>21 DEF SignResets, CallOf, SaysChanged, account, round, counts, store, told,
       ghosts, TypeOK, Places, Asking, InRound
  <2> QED BY <2>1 DEF Promise!vars
<1>22. ASSUME NEW s \in Signers, SignSays(s)
       PROVE  [Promise!Next]_(Promise!vars)
  <2>1. Asking' = Asking /\ InRound' = InRound /\ begun' = begun /\ served' = served
    BY <1>22 DEF SignSays, CallOf, Says, Wake, account, round, counts, store, told, ghosts,
       TypeOK, Places, Asking, InRound
  <2> QED BY <2>1 DEF Promise!vars
<1>23. ASSUME NEW a \in Askers, Ask(a)
       PROVE  [Promise!Next]_(Promise!vars)
  <2>1. Promise!Ask(a)
    BY <1>23 DEF Ask, CallOf, Event, account, round, counts, store, told, ghosts, TypeOK,
       AnsweredByALaterRound, NoAsk, Places, Asking, InRound, Promise!Ask
  <2> QED BY <2>1 DEF Promise!Next
<1>24. ASSUME EditMade
       PROVE  [Promise!Next]_(Promise!vars)
  <2>1. Asking' = Asking /\ InRound' = InRound /\ begun' = begun /\ served' = served
    BY <1>24 DEF EditMade, CallOf, Event, account, round, counts, store, told, ghosts,
       TypeOK, Places, Asking, InRound
  <2> QED BY <2>1 DEF Promise!vars
<1>25. ASSUME NEW s \in Setters, NEW i \in Intervals, SetReads(s, i)
       PROVE  [Promise!Next]_(Promise!vars)
  <2>1. Asking' = Asking /\ InRound' = InRound /\ begun' = begun /\ served' = served
    BY <1>25 DEF SetReads, CallOf, Event, account, round, counts, store, told, ghosts,
       TypeOK, Places, Asking, InRound
  <2> QED BY <2>1 DEF Promise!vars
<1>26. ASSUME NEW s \in Signers, NEW who \in Accounts \cup {None}, SignBegins(s, who)
       PROVE  [Promise!Next]_(Promise!vars)
  <2>1. Asking' = Asking /\ InRound' = InRound /\ begun' = begun /\ served' = served
    BY <1>26 DEF SignBegins, CallOf, Event, account, round, counts, store, told, ghosts,
       TypeOK, Places, Asking, InRound
  <2> QED BY <2>1 DEF Promise!vars
<1>27. ASSUME Pump
       PROVE  [Promise!Next]_(Promise!vars)
  <2>1. Asking' = Asking /\ InRound' = InRound /\ begun' = begun /\ served' = served
    BY <1>27 DEF Pump, account, round, counts, store, told, ghosts, TypeOK, Places, Asking,
       InRound
  <2> QED BY <2>1 DEF Promise!vars
<1>28. ASSUME MachineWakes
       PROVE  [Promise!Next]_(Promise!vars)
  <2>1. Asking' = Asking /\ InRound' = InRound /\ begun' = begun /\ served' = served
    BY <1>28 DEF MachineWakes, Around, Event, Wake, account, round, counts, store, told,
       ghosts, TypeOK, Places, Asking, InRound
  <2> QED BY <2>1 DEF Promise!vars
<1>29. ASSUME NEW part \in Parts, ServerChanges(part)
       PROVE  [Promise!Next]_(Promise!vars)
  <2>1. Asking' = Asking /\ InRound' = InRound /\ begun' = begun /\ served' = served
    BY <1>29 DEF ServerChanges, Around, Event, account, round, counts, store, told, ghosts,
       TypeOK, Places, Asking, InRound
  <2> QED BY <2>1 DEF Promise!vars
<1> QED BY <1>1, <1>2, <1>3, <1>4, <1>5, <1>6, <1>7, <1>8, <1>9, <1>10, <1>11, <1>12,
     <1>13, <1>14, <1>15, <1>16, <1>17, <1>18, <1>19, <1>20, <1>21, <1>22, <1>23, <1>24,
     <1>25, <1>26, <1>27, <1>28, <1>29
     DEF Next, LoopStep, CallStep, PeopleStep

-----------------------------------------------------------------------------

LEMMA LoopInit == Init => LoopInvariant
<1>1. SUFFICES ASSUME Init PROVE LoopInvariant
  OBVIOUS
<1>2. TypeOK
  BY <1>1, FirstAssumption DEF Init, TypeOK, States, Places, None, NoAsk, NoSet, NoSign
<1>3. IntervalsSet /\ Generations /\ Begun /\ Waiters /\ Edits /\ UsesTheAccount /\ OneSets
  BY <1>1 DEF Init, IntervalsSet, Generations, Begun, Waiters, Edits, UsesTheAccount, OneSets,
     NoAsk, NoSet
<1>4. AnsweredByALaterRound /\ ClientIsTheAccounts /\ SleepsAsSet /\ ChangesAreTold
  BY <1>1 DEF Init, AnsweredByALaterRound, ClientIsTheAccounts, SleepsAsSet, ChangesAreTold, NoAsk
<1> QED BY <1>2, <1>3, <1>4 DEF LoopInvariant

LEMMA LoopStutter ==
  ASSUME LoopInvariant, UNCHANGED vars
  PROVE  LoopInvariant'
<1> USE DEF vars, account, round, counts, store, told, ghosts
<1>1. TypeOK'
  BY DEF LoopInvariant, TypeOK
<1>2. IntervalsSet' /\ Generations' /\ Begun' /\ Waiters' /\ Edits' /\ UsesTheAccount' /\ OneSets'
  BY DEF LoopInvariant, IntervalsSet, Generations, Begun, Waiters, Edits, UsesTheAccount, OneSets
<1>3. AnsweredByALaterRound' /\ ClientIsTheAccounts' /\ SleepsAsSet' /\ ChangesAreTold'
  BY DEF LoopInvariant, AnsweredByALaterRound, ClientIsTheAccounts, SleepsAsSet, ChangesAreTold
<1> QED BY <1>1, <1>2, <1>3 DEF LoopInvariant

LEMMA LoopKept == LoopInvariant /\ [Next]_vars => LoopInvariant'
<1>1. ASSUME LoopInvariant, Next PROVE LoopInvariant'
  <2>1. TypeOK' /\ IntervalsSet' /\ Generations' /\ Begun'
    BY <1>1, TypesKept, IntervalsKept, GenerationsKept, BegunKept DEF LoopInvariant
  <2>2. Waiters' /\ Edits' /\ UsesTheAccount' /\ OneSets'
    BY <1>1, WaitersKept, EditsKept, UsingKept, OneSetsKept DEF LoopInvariant
  <2>3. AnsweredByALaterRound' /\ ClientIsTheAccounts' /\ SleepsAsSet' /\ ChangesAreTold'
    BY <1>1, AnsweredKept, ClientKept, SleepsKept, ToldKept DEF LoopInvariant
  <2> QED BY <2>1, <2>2, <2>3 DEF LoopInvariant
<1> QED BY <1>1, LoopStutter

\* The inductive invariant holds in every state the loop and the calls reach.
THEOREM LoopInvariance == Spec => []LoopInvariant
BY LoopInit, LoopKept, PTL DEF Spec

\* Every variable of the loop keeps its type, and the lock of the client is held for
\* the password only.
THEOREM LoopTypes == Spec => []TypeOK
<1>1. LoopInvariant => TypeOK
  BY DEF LoopInvariant
<1> QED BY <1>1, LoopInvariance, PTL

\* Who waits in sync_and_wait is answered by a round that began after they asked.
THEOREM AnswersAreLater == Spec => []AnsweredByALaterRound
<1>1. LoopInvariant => AnsweredByALaterRound
  BY DEF LoopInvariant
<1> QED BY <1>1, LoopInvariance, PTL

\* sync_loop does not sleep while somebody waits for a round or an edit waits to be
\* sent that has left no permit.
THEOREM SleepsWithoutWork == Spec => []NeverSleepsOnWork
<1>1. LoopInvariant => NeverSleepsOnWork
  BY DEF LoopInvariant, TypeOK, Generations, Waiters, Edits, NeverSleepsOnWork
<1> QED BY <1>1, LoopInvariance, PTL

\* The cached client is the signed-in account's, or adopt_account or logout is about
\* to drop it.
THEOREM ClientsAreTheAccounts == Spec => []ClientIsTheAccounts
<1>1. LoopInvariant => ClientIsTheAccounts
  BY DEF LoopInvariant
<1> QED BY <1>1, LoopInvariance, PTL

\* The loop sleeps for the interval set_settings set.
THEOREM SleepIsTheSettings == Spec => []SleepsAsSet
<1>1. LoopInvariant => SleepsAsSet
  BY DEF LoopInvariant
<1> QED BY <1>1, LoopInvariance, PTL

\* What changed in the store is told to clients, but for a failed round's.
THEOREM ChangesTold == Spec => []ChangesAreTold
<1>1. LoopInvariant => ChangesAreTold
  BY DEF LoopInvariant
<1> QED BY <1>1, LoopInvariance, PTL

\* The loop, its counters and its permit implement Rounds.
THEOREM ImplementsRounds == Spec => Promise!Spec
<1>1. Init => Promise!Init
  BY DEF Init, Promise!Init, Asking, InRound, NoAsk
<1>2. LoopInvariant /\ [Next]_vars => [Promise!Next]_(Promise!vars)
  <2>1. CASE Next
    BY <2>1, StepsOfRounds DEF LoopInvariant
  <2>2. CASE UNCHANGED vars
    BY <2>2 DEF vars, round, ghosts, Promise!vars, Asking, InRound
  <2> QED BY <2>1, <2>2
<1> QED BY <1>1, <1>2, LoopInvariance, PTL DEF Spec, Promise!Spec

=============================================================================
