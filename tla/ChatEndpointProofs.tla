--------------------------- MODULE ChatEndpointProofs ---------------------------
(* Proofs about ChatEndpoint: however handlers, clients and the expiry loop *)
(* interleave, they use the runtime as ChatRuntime allows, and the hub and  *)
(* the pending calls of mark_disconnected agree with the sockets there are. *)
EXTENDS ChatEndpoint, ChatRuntimeProofs, FiniteSetTheorems

--------------------------------------------------------------------------------
(* Every step of the endpoint is a step of the runtime, or none.           *)

(* A handler holds the id of a session. *)
LEMMA TabFacts == ASSUME NEW t \in Tab PROVE SessionOf[t] \in Session
  BY TabAssumption

LEMMA Calls ==
  ASSUME NEW s \in Session
  PROVE  /\ CreateSession(s) => Next
         /\ Register(s) => Next
         /\ LoadOrCreate(s) => Next
         /\ EnterQueue(s) => Next
         /\ (\E id \in MessageId \cup {NoId} : RecordMessage(s, id)) => Next
         /\ Disconnect(s) => Next
         /\ MarkDisconnected(s) => Next
         /\ StillConnected(s) => Next
         /\ DropSocket(s) => Next
         /\ Lapse(s) => Next
         /\ ExpireOne(s) => Next
         /\ TryMatch => Next
         /\ BeginExpiry => Next
  BY DEF Next, Expire

LEMMA TurnCalls == ASSUME NEW t \in Tab, Turn(t) PROVE [Next]_vars
<1> DEFINE s == SessionOf[t]
<1>0. s \in Session
  BY TabFacts
<1> HIDE DEF s
<1>1. CASE Connect(t)
  <2>1. Register(s)
    BY <1>1 DEF Connect, s
  <2> QED
    BY <2>1, <1>0, Calls
<1>2. CASE Load(t)
  <2>1. Fetch(s)
    BY <1>2 DEF Load, s
  <2> QED
    BY <2>1, <1>0, Calls DEF Fetch
<1>3. CASE Look(t) \/ Refused(t) \/ Announce(t) \/ HoldBack(t)
             \/ Undeliverable(t) \/ BlankMessage(t) \/ Type(t) \/ Check(t)
  BY <1>3 DEF Look, Refused, Announce, HoldBack, Undeliverable, BlankMessage,
              Type, Check
<1>4. CASE EndMatch(t) \/ Part(t)
  <2>1. UNCHANGED vars \/ Disconnect(s)
    BY <1>4 DEF EndMatch, Part, s
  <2> QED
    BY <2>1, <1>0, Calls
<1>5. CASE Enqueue(t)
  <2>1. UNCHANGED vars \/ EnterQueue(s)
    BY <1>5 DEF Enqueue, s
  <2> QED
    BY <2>1, <1>0, Calls
<1>6. CASE Search(t) \/ SearchOn(t) \/ SearchInVain(t) \/ SearchWithSuccess(t)
  <2>1. TryMatch
    BY <1>6 DEF Search, SearchOn, SearchInVain, SearchWithSuccess, TryMatch
  <2> QED
    BY <2>1, <1>0, Calls
<1>7. CASE Deliver(t)
  <2>1. \E id \in MessageId \cup {NoId} : RecordMessage(s, id)
    BY <1>7 DEF Deliver, s
  <2> QED
    BY <2>1, <1>0, Calls
<1>8. CASE Leave(t)
  <2>1. UNCHANGED vars \/ MarkDisconnected(s) \/ StillConnected(s)
    BY <1>8 DEF Leave, s
  <2> QED
    BY <2>1, <1>0, Calls
<1> QED
  BY <1>1, <1>2, <1>3, <1>4, <1>5, <1>6, <1>7, <1>8 DEF Turn

LEMMA EndpointCalls == [ENext]_evars => [Next]_vars
<1> SUFFICES ASSUME [ENext]_evars PROVE [Next]_vars
  OBVIOUS
<1>1. ASSUME NEW t \in Tab, Turn(t) PROVE [Next]_vars
  BY <1>1, TurnCalls
<1>2. ASSUME NEW t \in Tab, Network(t) PROVE [Next]_vars
  <2>1. UNCHANGED vars \/ DropSocket(SessionOf[t])
    BY <1>2 DEF Network, Accept, Close, Vanish, Sweep, Unregister
  <2> QED
    BY <2>1, TabFacts, Calls
<1>3. ASSUME NEW t \in Tab, Client(t) PROVE [Next]_vars
  BY <1>3 DEF Client, Click, Write, StopTyping
<1>4. CASE CallExpiry
  <2>1. BeginExpiry
    BY <1>4 DEF CallExpiry
  <2> QED
    BY <2>1 DEF Next, Expire
<1>5. CASE ExpireNext
  BY <1>5, Calls DEF ExpireNext
<1>6. ASSUME NEW p \in Session, TellExpired(p) PROVE [Next]_vars
  BY <1>6 DEF TellExpired
<1>7. CASE Environment
  BY <1>7, Calls DEF Environment
<1>8. CASE UNCHANGED evars
  BY <1>8 DEF evars
<1> QED
  BY <1>1, <1>2, <1>3, <1>4, <1>5, <1>6, <1>7, <1>8 DEF ENext

(* Handlers, clients and the expiry loop of chat_endpoint.py and           *)
(* lifespan.py call the runtime only as ChatRuntime lets them, whatever    *)
(* the number of sessions and tabs: so the endpoint inherits all that is   *)
(* proved of the runtime.                                                  *)
THEOREM Usage == ESpec => UsesRuntime
<1>1. EInit => Init
  BY DEF EInit
<1> QED
  BY <1>1, EndpointCalls, PTL DEF ESpec, UsesRuntime, Spec

(* In particular, the pairs stay mutual, durable and known to Redis and    *)
(* PostgreSQL alike while handlers act on what they were told before.      *)
THEOREM RuntimeHolds == ESpec => []Inv
  BY Usage, Inductive, PTL DEF UsesRuntime

--------------------------------------------------------------------------------
(* What the tabs show is well-formed.                                      *)

View == [state : {"unknown", "idle", "searching", "connected"},
         stranger : Session \cup {NoSession}]

Message == [type : {"user_info", "match", "disconnect"},
            state : {"idle", "searching", "connected"},
            stranger : Session \cup {NoSession}]

News == [type : {"user_info", "match"}, state : {"connected"},
         stranger : Session \cup {NoSession}]

LEMMA MessageTypes ==
  /\ Blank \in View
  /\ Bye \in Message
  /\ \A st \in {"idle", "searching", "connected"} : UserInfo(st) \in Message
  /\ UserInfo("connected") \in News
  /\ \A p \in Session : MatchWith(p) \in News
  /\ News \subseteq Message
  BY DEF Blank, View, Bye, Message, UserInfo, MatchWith, News

LEMMA AfterType ==
  ASSUME NEW view \in View, NEW m \in Message
  PROVE  After(view, m) \in View
  BY DEF After, View, Message

LEMMA BroadcastType ==
  ASSUME shown \in [Tab -> View], NEW s, NEW m \in Message, Broadcast(s, m)
  PROVE  shown' \in [Tab -> View]
  BY AfterType DEF Broadcast

(* ETypeOK without the part that is the runtime's own.                     *)
EndpointTypes ==
  /\ at \in [Tab -> {"closed", "accepted", "loading", "looking", "receiving",
                     "queueing", "matching", "searching", "announcing",
                     "checking", "parting", "leaving", "dead"}]
  /\ asked \in [Tab -> {"nothing", "queue", "message", "typing"}]
  /\ typing \in SUBSET Tab
  /\ open \in SUBSET Tab
  /\ shown \in [Tab -> View]
  /\ outbox \in [Tab -> Seq(Session \X News)]
  /\ farewell \in SUBSET Session

LEMMA TypesSplit == ETypeOK <=> TypeOK /\ EndpointTypes
  BY DEF ETypeOK, EndpointTypes, View, News

(* The runtime's invariant says whom a handler writes about.               *)
LEMMA StoredState ==
  ASSUME PairInv, NEW s \in Session, Stored(s)
  PROVE  state[s] \in {"idle", "searching", "connected"}
  BY DEF PairInv, TypeOK, Stored

LEMMA TurnTypes ==
  ASSUME PairInv, EndpointTypes, Announcers, NEW t \in Tab, Turn(t)
  PROVE  EndpointTypes'
<1> DEFINE s == SessionOf[t]
<1>0. s \in Session /\ TypeOK
  BY TabFacts DEF PairInv
<1> HIDE DEF s
<1>1. CASE Connect(t)
  BY <1>1 DEF Connect, Moves, EndpointTypes
<1>2. CASE Load(t)
  <2>1. state'[s] \in {"idle", "searching", "connected"}
    <3>1. CASE Stored(s)
      BY <1>2, <1>0, <3>1, StoredState DEF Load, Fetch, vars, s
    <3>2. CASE ~Stored(s)
      BY <1>2, <1>0, <3>2 DEF Load, Fetch, LoadOrCreate, TypeOK, s
    <3> QED
      BY <3>1, <3>2
  <2>2. After(shown[t], UserInfo(state'[s])) \in View
    BY <2>1, MessageTypes, AfterType DEF EndpointTypes
  <2>3. shown' = [shown EXCEPT ![t] = After(@, UserInfo(state'[s]))]
    BY <1>2 DEF Load, s
  <2> QED
    BY <1>2, <2>2, <2>3 DEF Load, Moves, EndpointTypes
<1>3. CASE Look(t)
  <2>1. ASSUME partner[s] # NoSession
        PROVE  After(shown[t], MatchWith(partner[s])) \in View
    <3>1. partner[s] \in Session
      BY <1>0, <2>1 DEF TypeOK
    <3> QED
      BY <3>1, MessageTypes, AfterType DEF EndpointTypes
  <2>2. shown' \in [Tab -> View]
    BY <1>3, <2>1 DEF Look, EndpointTypes, s
  <2> QED
    BY <1>3, <2>2 DEF Look, Moves, EndpointTypes
<1>4. CASE EndMatch(t)
  <2>1. UNCHANGED shown \/ Broadcast(partner[s], Bye)
    BY <1>4 DEF EndMatch, s
  <2>2. shown' \in [Tab -> View]
    BY <2>1, MessageTypes, BroadcastType DEF EndpointTypes
  <2> QED
    BY <1>4, <2>2 DEF EndMatch, Moves, Answered, EndpointTypes
<1>5. CASE Enqueue(t)
  <2>1. state'[s] \in {"idle", "searching", "connected"}
    <3>1. CASE partner[s] = NoSession
      BY <1>5, <1>0, <3>1 DEF Enqueue, EnterQueue, TypeOK, s
    <3>2. CASE partner[s] # NoSession
      <4>1. Stored(s)
        BY <1>0, <3>2 DEF PairInv, AbsentIsBlank
      <4> QED
        BY <1>5, <1>0, <3>2, <4>1, StoredState DEF Enqueue, vars, s
    <3> QED
      BY <3>1, <3>2
  <2>2. Broadcast(s, UserInfo(state'[s]))
    BY <1>5 DEF Enqueue, s
  <2>3. shown' \in [Tab -> View]
    BY <2>1, <2>2, MessageTypes, BroadcastType DEF EndpointTypes
  <2> QED
    BY <1>5, <2>3 DEF Enqueue, Moves, EndpointTypes
<1>6. CASE Refused(t)
  BY <1>6 DEF Refused, Moves, Answered, EndpointTypes
<1>7. CASE Search(t)
  BY <1>7 DEF Search, Moves, EndpointTypes
<1>8. CASE SearchOn(t)
  BY <1>8 DEF SearchOn, endpoint, EndpointTypes
<1>9. CASE SearchInVain(t)
  BY <1>9 DEF SearchInVain, Moves, EndpointTypes
<1>10. CASE SearchWithSuccess(t)
  <2> DEFINE right == Head(queue)
             news == << <<left, MatchWith(right)>>,
                        <<right, UserInfo("connected")>>,
                        <<right, MatchWith(left)>> >>
  <2>1. left \in Session /\ right \in Session
    BY <1>10, PairJoinsSearchers DEF SearchWithSuccess
  <2>2. news \in Seq(Session \X News)
    BY <2>1, MessageTypes
  <2>3. Broadcast(left, UserInfo("connected"))
    BY <1>10 DEF SearchWithSuccess
  <2>4. shown' \in [Tab -> View]
    BY <2>3, MessageTypes, BroadcastType DEF EndpointTypes
  <2>5. outbox' = [outbox EXCEPT ![t] = news]
    BY <1>10 DEF SearchWithSuccess
  <2> HIDE DEF news
  <2> QED
    BY <1>10, <2>2, <2>4, <2>5 DEF SearchWithSuccess, Moves, EndpointTypes
<1>11. CASE Announce(t)
  <2>1. outbox[t] \in Seq(Session \X News) /\ outbox[t] # << >>
    BY <1>11 DEF Announce, Moves, Announcers, EndpointTypes
  <2>2. /\ Head(outbox[t]) \in Session \X News
        /\ Tail(outbox[t]) \in Seq(Session \X News)
    BY <2>1
  <2>3. Broadcast(Head(outbox[t])[1], Head(outbox[t])[2])
    BY <1>11 DEF Announce
  <2>4. shown' \in [Tab -> View]
    BY <2>2, <2>3, MessageTypes, BroadcastType DEF EndpointTypes
  <2> QED
    BY <1>11, <2>2, <2>4 DEF Announce, Moves, EndpointTypes
<1>12. CASE Deliver(t)
  BY <1>12 DEF Deliver, Answered, EndpointTypes
<1>13. CASE HoldBack(t)
  BY <1>13 DEF HoldBack, Answered, EndpointTypes
<1>14. CASE Undeliverable(t) \/ BlankMessage(t)
  BY <1>14 DEF Undeliverable, BlankMessage, Moves, Answered, EndpointTypes
<1>15. CASE Type(t)
  BY <1>15 DEF Type, Moves, Answered, EndpointTypes
<1>16. CASE Check(t)
  BY <1>16 DEF Check, Moves, EndpointTypes
<1>17. CASE Part(t)
  <2>1. shown' \in [Tab -> View]
    BY <1>17, MessageTypes, BroadcastType DEF Part, EndpointTypes
  <2> QED
    BY <1>17, <2>1 DEF Part, Moves, EndpointTypes
<1>18. CASE Leave(t)
  BY <1>18 DEF Leave, Moves, EndpointTypes
<1> QED
  BY <1>1, <1>2, <1>3, <1>4, <1>5, <1>6, <1>7, <1>8, <1>9, <1>10, <1>11, <1>12,
     <1>13, <1>14, <1>15, <1>16, <1>17, <1>18 DEF Turn

(* Every step keeps what the tabs show, and what waits, well-formed.       *)
LEMMA TypesStep ==
  ASSUME PairInv, EndpointTypes, Announcers, [ENext]_evars
  PROVE  EndpointTypes'
<1> TypeOK
  BY DEF PairInv
<1>1. ASSUME NEW t \in Tab, Turn(t) PROVE EndpointTypes'
  BY <1>1, TurnTypes
<1>2. ASSUME NEW t \in Tab, Network(t) PROVE EndpointTypes'
  <2>1. CASE Accept(t)
    BY <2>1, MessageTypes DEF Accept, Moves, EndpointTypes
  <2>2. CASE Vanish(t)
    BY <2>2 DEF Vanish, Answered, EndpointTypes
  <2>3. CASE Unregister(t, "receiving") \/ Unregister(t, "dead")
    BY <2>3 DEF Unregister, Moves, Answered, EndpointTypes
  <2> QED
    BY <1>2, <2>1, <2>2, <2>3 DEF Network, Close, Sweep
<1>3. ASSUME NEW t \in Tab, Client(t) PROVE EndpointTypes'
  <2>1. CASE Click(t)
    <3>1. [shown[t] EXCEPT !.stranger = NoSession] \in View
      BY DEF EndpointTypes, View
    <3>2. shown' = [shown EXCEPT ![t] =
                     [shown[t] EXCEPT !.stranger = NoSession]]
      BY <2>1 DEF Click
    <3>3. shown' \in [Tab -> View]
      BY <3>1, <3>2, Zenon DEF EndpointTypes
    <3>4. /\ asked' = [asked EXCEPT ![t] = "queue"]
          /\ UNCHANGED <<at, typing, open, outbox, farewell>>
      BY <2>1 DEF Click
    <3> QED
      BY <3>3, <3>4 DEF EndpointTypes
  <2>2. CASE Write(t)
    BY <2>2 DEF Write, EndpointTypes
  <2>3. CASE StopTyping(t)
    BY <2>3 DEF StopTyping, EndpointTypes
  <2> QED
    BY <1>3, <2>1, <2>2, <2>3 DEF Client
<1>4. CASE CallExpiry
  BY <1>4 DEF CallExpiry, endpoint, EndpointTypes
<1>5. CASE ExpireNext
  BY <1>5 DEF ExpireNext, Told, EndpointTypes, TypeOK
<1>6. ASSUME NEW p \in Session, TellExpired(p) PROVE EndpointTypes'
  <2>1. shown' = shown
        \/ \E t \in TabsOf(p) : shown' = [shown EXCEPT ![t] = After(@, Bye)]
    BY <1>6 DEF TellExpired
  <2>2. shown' \in [Tab -> View]
    <3>1. ASSUME NEW t \in TabsOf(p), shown' = [shown EXCEPT ![t] = After(@, Bye)]
          PROVE  shown' \in [Tab -> View]
      <4>1. t \in Tab
        BY DEF TabsOf, EndpointTypes
      <4>2. After(shown[t], Bye) \in View
        BY <4>1, MessageTypes, AfterType DEF EndpointTypes
      <4> QED
        BY <3>1, <4>2 DEF EndpointTypes
    <3> QED
      BY <2>1, <3>1 DEF EndpointTypes
  <2> QED
    BY <1>6, <2>2 DEF TellExpired, EndpointTypes
<1>7. CASE Environment
  BY <1>7 DEF Environment, endpoint, EndpointTypes
<1>8. CASE UNCHANGED evars
  BY <1>8 DEF evars, endpoint, EndpointTypes
<1> QED
  BY <1>1, <1>2, <1>3, <1>4, <1>5, <1>6, <1>7, <1>8 DEF ENext

(* A handler announces until its outbox is empty.                          *)
LEMMA AnnouncersStep ==
  ASSUME EndpointTypes, Announcers, [ENext]_evars
  PROVE  Announcers'
<1>1. ASSUME UNCHANGED outbox,
             \A t \in Tab : at'[t] = "announcing" <=> at[t] = "announcing"
      PROVE  Announcers'
  BY <1>1 DEF Announcers
<1>2. ASSUME NEW t \in Tab, SearchWithSuccess(t) PROVE Announcers'
  <2>1. outbox'[t] # << >> /\ at'[t] = "announcing"
    BY <1>2 DEF SearchWithSuccess, Moves, EndpointTypes
  <2>2. \A u \in Tab : u # t => outbox'[u] = outbox[u] /\ at'[u] = at[u]
    BY <1>2 DEF SearchWithSuccess, Moves, EndpointTypes
  <2> QED
    BY <2>1, <2>2 DEF Announcers
<1>3. ASSUME NEW t \in Tab, Announce(t) PROVE Announcers'
  <2>1. outbox[t] \in Seq(Session \X News) /\ outbox[t] # << >>
    BY <1>3 DEF Announce, Moves, Announcers, EndpointTypes
  <2>2. Len(outbox[t]) = 1 <=> Tail(outbox[t]) = << >>
    <3>1. /\ Tail(outbox[t]) \in Seq(Session \X News)
          /\ Len(Tail(outbox[t])) = Len(outbox[t]) - 1
      BY <2>1, HeadTailProperties
    <3>2. Len(outbox[t]) \in Nat
      BY <2>1
    <3>3. Len(Tail(outbox[t])) = 0 <=> Tail(outbox[t]) = << >>
      BY <3>1, EmptySeq
    <3> QED
      BY <3>1, <3>2, <3>3
  <2>3. /\ outbox'[t] = Tail(outbox[t])
        /\ at'[t] = IF Len(outbox[t]) = 1 THEN "receiving" ELSE "announcing"
    BY <1>3 DEF Announce, Moves, EndpointTypes
  <2>4. \A u \in Tab : u # t => outbox'[u] = outbox[u] /\ at'[u] = at[u]
    BY <1>3 DEF Announce, Moves, EndpointTypes
  <2> QED
    BY <2>2, <2>3, <2>4 DEF Announcers
<1>4. ASSUME NEW t \in Tab,
             Connect(t) \/ Load(t) \/ Look(t) \/ EndMatch(t) \/ Enqueue(t)
               \/ Refused(t) \/ Search(t) \/ SearchOn(t) \/ SearchInVain(t)
      PROVE  Announcers'
  BY <1>4, <1>1 DEF Connect, Load, Look, EndMatch, Enqueue, Refused, Search,
                    SearchOn, SearchInVain, Moves, EndpointTypes, endpoint
<1>5. ASSUME NEW t \in Tab,
             Deliver(t) \/ HoldBack(t) \/ Undeliverable(t)
               \/ BlankMessage(t) \/ Type(t) \/ Check(t) \/ Part(t) \/ Leave(t)
      PROVE  Announcers'
  BY <1>5, <1>1 DEF Deliver, HoldBack, Undeliverable, BlankMessage, Type, Check,
                    Part, Leave, Moves, EndpointTypes
<1>6. ASSUME NEW t \in Tab, Network(t) PROVE Announcers'
  BY <1>6, <1>1 DEF Network, Accept, Close, Vanish, Sweep, Unregister, Moves,
                    EndpointTypes
<1>7. ASSUME NEW t \in Tab, Client(t) PROVE Announcers'
  BY <1>7, <1>1 DEF Client, Click, Write, StopTyping
<1>8. CASE CallExpiry \/ ExpireNext \/ Environment \/ UNCHANGED evars
           \/ \E p \in Session : TellExpired(p)
  BY <1>8, <1>1 DEF CallExpiry, ExpireNext, Environment, TellExpired, evars,
                    endpoint
<1> QED
  BY <1>2, <1>3, <1>4, <1>5, <1>6, <1>7, <1>8 DEF ENext, Turn

--------------------------------------------------------------------------------
(* The hub, and those on their way to mark_disconnected.                   *)

Gone == {"closed", "accepted", "leaving"}

(* What all steps do but the three that touch the hub: no handler          *)
(* registers or unregisters, and one that leaves has seen to               *)
(* mark_disconnected.                                                      *)
Passive ==
  /\ UNCHANGED <<hub, open>>
  /\ dropping' \subseteq dropping
  /\ \A u \in Tab :
       /\ at'[u] \in Gone <=> at[u] \in Gone
       /\ at[u] = "leaving" =>
            at'[u] = "leaving" \/ SessionOf[u] \notin dropping'

LEMMA PassiveTurns ==
  ASSUME EndpointTypes, TypeOK, NEW t \in Tab, Turn(t), ~Connect(t)
  PROVE  Passive
<1> DEFINE s == SessionOf[t]
<1>0. s \in Session
  BY TabFacts
<1> HIDE DEF s
<1>1. CASE Load(t)
  <2>1. Fetch(s)
    BY <1>1 DEF Load, s
  <2>2. UNCHANGED <<hub, dropping>>
    BY <2>1 DEF Fetch, LoadOrCreate, method, vars
  <2> QED
    BY <1>1, <2>2 DEF Load, Moves, Passive, Gone, EndpointTypes
<1>2. CASE Look(t) \/ Refused(t)
  BY <1>2 DEF Look, Refused, Moves, Passive, Gone, EndpointTypes, vars
<1>3. CASE EndMatch(t)
  <2>1. UNCHANGED vars \/ Disconnect(s)
    BY <1>3 DEF EndMatch, s
  <2>2. UNCHANGED <<hub, dropping>>
    BY <2>1 DEF Disconnect, method, vars
  <2> QED
    BY <1>3, <2>2 DEF EndMatch, Moves, Passive, Gone, EndpointTypes
<1>4. CASE Enqueue(t)
  <2>1. UNCHANGED vars \/ EnterQueue(s)
    BY <1>4 DEF Enqueue, s
  <2>2. UNCHANGED <<hub, dropping>>
    BY <2>1 DEF EnterQueue, method, vars
  <2> QED
    BY <1>4, <2>2 DEF Enqueue, Moves, Passive, Gone, EndpointTypes
<1>5. CASE Search(t)
  BY <1>5 DEF Search, BeginMatch, Moves, Passive, Gone, EndpointTypes
<1>6. CASE SearchOn(t)
  BY <1>6 DEF SearchOn, SkipCandidate, TakeLeft, DeferCandidate, endpoint,
              method, Passive
<1>7. CASE SearchInVain(t)
  BY <1>7 DEF SearchInVain, GiveUp, Moves, Passive, Gone, EndpointTypes
<1>8. CASE SearchWithSuccess(t)
  BY <1>8 DEF SearchWithSuccess, Pair, Moves, Passive, Gone, EndpointTypes
<1>9. CASE Announce(t)
  BY <1>9 DEF Announce, Moves, Passive, Gone, EndpointTypes, vars
<1>10. CASE Deliver(t)
  <2>1. UNCHANGED <<hub, dropping>>
    BY <1>10 DEF Deliver, RecordMessage, method
  <2> QED
    BY <1>10, <2>1 DEF Deliver, Passive
<1>11. CASE \/ HoldBack(t) \/ Undeliverable(t) \/ BlankMessage(t)
            \/ Type(t) \/ Check(t)
  BY <1>11 DEF HoldBack, Undeliverable, BlankMessage, Type, Check, Moves,
               Passive, Gone, EndpointTypes, vars
<1>12. CASE Part(t)
  <2>1. UNCHANGED vars \/ Disconnect(s)
    BY <1>12 DEF Part, s
  <2>2. UNCHANGED <<hub, dropping>>
    BY <2>1 DEF Disconnect, method, vars
  <2> QED
    BY <1>12, <2>2 DEF Part, Moves, Passive, Gone, EndpointTypes
<1>13. CASE Leave(t)
  <2>1. \/ MarkDisconnected(s)
        \/ StillConnected(s)
        \/ lock = "free" /\ hub[s] > 0 /\ s \notin dropping /\ UNCHANGED vars
    BY <1>13 DEF Leave, s
  <2>2. /\ UNCHANGED hub
        /\ dropping' \subseteq dropping /\ s \notin dropping'
    BY <2>1 DEF MarkDisconnected, StillConnected, method, vars
  <2>3. at[t] = "leaving" /\ at' = [at EXCEPT ![t] = "closed"] /\ open' = open
    BY <1>13 DEF Leave, Moves
  <2> QED
    BY <2>2, <2>3 DEF Passive, Gone, EndpointTypes, s
<1> QED
  BY <1>1, <1>2, <1>3, <1>4, <1>5, <1>6, <1>7, <1>8, <1>9, <1>10, <1>11, <1>12,
     <1>13 DEF Turn

(* Every step but those three is passive. *)
LEMMA ActiveSteps ==
  ASSUME EndpointTypes, TypeOK, [ENext]_evars
  PROVE  \/ Passive
         \/ ExpireNext
         \/ \E t \in Tab : \/ Connect(t)
                           \/ Unregister(t, "receiving")
                           \/ Unregister(t, "dead")
<1>1. ASSUME NEW t \in Tab, Turn(t), ~Connect(t) PROVE Passive
  BY <1>1, PassiveTurns
<1>2. ASSUME NEW t \in Tab, Accept(t) \/ Vanish(t) PROVE Passive
  BY <1>2 DEF Accept, Vanish, Moves, Passive, Gone, EndpointTypes, vars
<1>3. ASSUME NEW t \in Tab, Client(t) PROVE Passive
  BY <1>3 DEF Client, Click, Write, StopTyping, Passive, vars
<1>4. ASSUME NEW p \in Session, TellExpired(p) PROVE Passive
  BY <1>4 DEF TellExpired, Passive, vars
<1>5. CASE Environment
  <2>1. UNCHANGED endpoint /\ \E s \in Session : CreateSession(s) \/ Lapse(s)
    BY <1>5 DEF Environment
  <2>2. UNCHANGED <<hub, dropping>>
    BY <2>1 DEF CreateSession, Lapse, method
  <2> QED
    BY <2>1, <2>2 DEF endpoint, Passive
<1>6. CASE CallExpiry
  BY <1>6 DEF CallExpiry, BeginExpiry, endpoint, Passive
<1>7. CASE UNCHANGED evars
  BY <1>7 DEF evars, vars, endpoint, Passive
<1> QED
  BY <1>1, <1>2, <1>3, <1>4, <1>5, <1>6, <1>7 DEF ENext, Network, Close, Sweep

SocketInv == OpenHandlers /\ HubCounts /\ DroppingHandled

(* The tabs of a session are finitely many.                                *)
LEMMA TabsFinite ==
  ASSUME EndpointTypes, NEW s PROVE IsFiniteSet(TabsOf(s))
<1>1. TabsOf(s) \in SUBSET Tab
  BY DEF TabsOf, EndpointTypes
<1> QED
  BY <1>1, TabAssumption, FS_Subset

LEMMA PassiveStep == ASSUME SocketInv, Passive PROVE SocketInv'
<1>1. OpenHandlers'
  BY DEF SocketInv, OpenHandlers, Passive, Gone
<1>2. HubCounts'
  BY DEF SocketInv, HubCounts, TabsOf, Passive
<1>3. DroppingHandled'
  <2> SUFFICES ASSUME NEW s \in dropping'
               PROVE  \E t \in Tab : SessionOf[t] = s /\ at'[t] = "leaving"
    BY DEF DroppingHandled
  <2>1. PICK t \in Tab : SessionOf[t] = s /\ at[t] = "leaving"
    BY DEF SocketInv, DroppingHandled, Passive
  <2>2. at'[t] = "leaving"
    BY <2>1 DEF Passive
  <2> QED
    BY <2>1, <2>2
<1> QED
  BY <1>1, <1>2, <1>3 DEF SocketInv

(* register_connection adds this handler's socket to the hub's.            *)
LEMMA ConnectStep ==
  ASSUME TypeOK, EndpointTypes, SocketInv, NEW t \in Tab, Connect(t)
  PROVE  SocketInv'
<1> DEFINE s == SessionOf[t]
<1>0. s \in Session
  BY TabFacts
<1> HIDE DEF s
<1>1. /\ lock' = "free"
      /\ hub' = [hub EXCEPT ![s] = @ + 1]
      /\ dropping' = dropping
      /\ open' = open \cup {t}
      /\ at[t] = "accepted"
      /\ at' = [at EXCEPT ![t] = "loading"]
  BY DEF Connect, Register, Moves, method, s
<1>2. t \notin open
  BY <1>1 DEF SocketInv, OpenHandlers
<1>3. OpenHandlers'
  BY <1>1 DEF SocketInv, OpenHandlers, EndpointTypes
<1>4. HubCounts'
  <2> SUFFICES ASSUME NEW r \in Session
               PROVE  hub'[r] = Cardinality(TabsOf(r)')
    BY DEF HubCounts
  <2>1. hub[r] = Cardinality(TabsOf(r)) /\ IsFiniteSet(TabsOf(r))
    BY TabsFinite DEF SocketInv, HubCounts
  <2>2. CASE r = s
    <3>1. TabsOf(r)' = TabsOf(r) \cup {t} /\ t \notin TabsOf(r)
      BY <1>1, <1>2, <2>2 DEF TabsOf, s
    <3>2. Cardinality(TabsOf(r) \cup {t}) = Cardinality(TabsOf(r)) + 1
      BY <2>1, <3>1, FS_AddElement
    <3>3. hub'[r] = hub[r] + 1
      BY <1>1, <2>2 DEF TypeOK
    <3> QED
      BY <2>1, <3>1, <3>2, <3>3
  <2>3. CASE r # s
    <3>1. TabsOf(r)' = TabsOf(r)
      BY <1>1, <2>3 DEF TabsOf, s
    <3>2. hub'[r] = hub[r]
      BY <1>1, <2>3 DEF TypeOK
    <3> QED
      BY <2>1, <3>1, <3>2
  <2> QED
    BY <2>2, <2>3
<1>5. DroppingHandled'
  <2> SUFFICES ASSUME NEW r \in dropping
               PROVE  \E u \in Tab : SessionOf[u] = r /\ at'[u] = "leaving"
    BY <1>1 DEF DroppingHandled
  <2>1. PICK u \in Tab : SessionOf[u] = r /\ at[u] = "leaving"
    BY DEF SocketInv, DroppingHandled
  <2>2. at'[u] = "leaving"
    BY <1>1, <2>1 DEF EndpointTypes
  <2> QED
    BY <2>1, <2>2
<1> QED
  BY <1>3, <1>4, <1>5 DEF SocketInv

(* unregister_ws takes it away, and leaves a handler behind if it was the  *)
(* last.                                                                   *)
LEMMA UnregisterStep ==
  ASSUME TypeOK, EndpointTypes, SocketInv, NEW t \in Tab,
         NEW from \in {"receiving", "dead"}, Unregister(t, from)
  PROVE  SocketInv'
<1> DEFINE s == SessionOf[t]
<1>0. s \in Session /\ hub[s] \in Nat
  BY TabFacts DEF TypeOK
<1> HIDE DEF s
<1>1. /\ hub[s] > 0
      /\ UNCHANGED <<lock, expiring>>
      /\ hub' = [hub EXCEPT ![s] = @ - 1]
      /\ dropping' = IF hub[s] = 1 THEN dropping \cup {s} ELSE dropping
      /\ open' = open \ {t}
      /\ at[t] = from
      /\ at' = [at EXCEPT ![t] =
                  IF Remaining(s) = 0 THEN "leaving" ELSE "closed"]
  BY DEF Unregister, DropSocket, Moves, method, s
<1>2. t \in open
  BY <1>1 DEF SocketInv, OpenHandlers
<1>3. OpenHandlers'
  BY <1>1 DEF SocketInv, OpenHandlers, EndpointTypes
<1>4. HubCounts'
  <2> SUFFICES ASSUME NEW r \in Session
               PROVE  hub'[r] = Cardinality(TabsOf(r)')
    BY DEF HubCounts
  <2>1. hub[r] = Cardinality(TabsOf(r)) /\ IsFiniteSet(TabsOf(r))
    BY TabsFinite DEF SocketInv, HubCounts
  <2>2. CASE r = s
    <3>1. TabsOf(r)' = TabsOf(r) \ {t} /\ t \in TabsOf(r)
      BY <1>1, <1>2, <2>2 DEF TabsOf, s
    <3>2. Cardinality(TabsOf(r) \ {t}) = Cardinality(TabsOf(r)) - 1
      BY <2>1, <3>1, FS_RemoveElement
    <3>3. hub'[r] = hub[r] - 1
      BY <1>1, <2>2 DEF TypeOK
    <3> QED
      BY <2>1, <3>1, <3>2, <3>3
  <2>3. CASE r # s
    <3>1. TabsOf(r)' = TabsOf(r)
      BY <1>1, <2>3 DEF TabsOf, s
    <3>2. hub'[r] = hub[r]
      BY <1>1, <2>3 DEF TypeOK
    <3> QED
      BY <2>1, <3>1, <3>2
  <2> QED
    BY <2>2, <2>3
<1>5. DroppingHandled'
  <2> SUFFICES ASSUME NEW r \in dropping'
               PROVE  \E u \in Tab : SessionOf[u] = r /\ at'[u] = "leaving"
    BY DEF DroppingHandled
  <2>1. CASE r \in dropping
    <3>1. PICK u \in Tab : SessionOf[u] = r /\ at[u] = "leaving"
      BY <2>1 DEF SocketInv, DroppingHandled
    <3>2. at'[u] = "leaving"
      BY <1>1, <3>1 DEF EndpointTypes
    <3> QED
      BY <3>1, <3>2
  <2>2. CASE r \notin dropping
    <3>1. hub[s] = 1 /\ r = s
      BY <2>2, <1>1
    <3>2. Remaining(s) = 0
      BY <3>1 DEF Remaining
    <3>3. at'[t] = "leaving"
      BY <1>1, <3>2 DEF EndpointTypes
    <3> QED
      BY <3>1, <3>3 DEF s
  <2> QED
    BY <2>1, <2>2
<1> QED
  BY <1>3, <1>4, <1>5 DEF SocketInv

(* Whoever expire_stale_sessions removes has no socket, so emptying the    *)
(* hub's entry changes nothing.                                            *)
LEMMA ExpireNextStep ==
  ASSUME TypeOK, ExpiryInHand, SocketInv, ExpireNext
  PROVE  SocketInv'
<1>1. PICK s \in Session : ExpireOne(s) /\ UNCHANGED <<at, open>>
  BY DEF ExpireNext
<1>2. /\ s \in expiring
      /\ hub' = [hub EXCEPT ![s] = 0] /\ dropping' = dropping
  BY <1>1 DEF ExpireOne, RemoveSession
<1>3. hub[s] = 0
  BY <1>2 DEF ExpiryInHand
<1>4. hub' = hub
  BY <1>2, <1>3 DEF TypeOK
<1> QED
  BY <1>1, <1>2, <1>4
     DEF SocketInv, OpenHandlers, HubCounts, TabsOf, DroppingHandled

LEMMA SocketsStep ==
  ASSUME Inv, EndpointTypes, SocketInv, [ENext]_evars
  PROVE  SocketInv'
<1>1. TypeOK /\ ExpiryInHand
  BY DEF Inv, PairInv, ClockInv
<1> QED
  BY <1>1, ActiveSteps, PassiveStep, ConnectStep, UnregisterStep,
     ExpireNextStep

--------------------------------------------------------------------------------
(* EInv as a whole. *)

LEMMA EndpointInit == EInit => EndpointTypes /\ Announcers /\ SocketInv
<1> SUFFICES ASSUME EInit PROVE EndpointTypes /\ Announcers /\ SocketInv
  OBVIOUS
<1>1. EndpointTypes
  BY MessageTypes, EmptySeq DEF EInit, EndpointTypes
<1>2. Announcers
  BY DEF EInit, Announcers
<1>3. \A s \in Session : TabsOf(s) = {}
  BY DEF EInit, TabsOf
<1>4. SocketInv
  BY <1>3, FS_EmptySet DEF EInit, Init, SocketInv, OpenHandlers,
                           HubCounts, DroppingHandled
<1> QED
  BY <1>1, <1>2, <1>4

(* Everything the endpoint's safety rests on holds in every reachable      *)
(* state, for any number of sessions and tabs: the runtime's invariant,    *)
(* and that handlers, hub and pending calls agree.                         *)
THEOREM EndpointInductive == ESpec => []EInv
<1>1. EInit => EndpointTypes /\ Announcers /\ SocketInv
  BY EndpointInit
<1>2. Inv /\ (EndpointTypes /\ Announcers /\ SocketInv) /\ [ENext]_evars
        => (EndpointTypes /\ Announcers /\ SocketInv)'
  <2>1. Inv => PairInv
    BY DEF Inv
  <2> QED
    BY <2>1, TypesStep, AnnouncersStep, SocketsStep
<1>3. Inv /\ EndpointTypes /\ Announcers /\ SocketInv => EInv
  <2>1. Inv => TypeOK
    BY DEF Inv, PairInv
  <2> QED
    BY <2>1, TypesSplit DEF EInv, SocketInv
<1>4. ESpec => []Inv
  BY RuntimeHolds
<1> QED
  BY <1>1, <1>2, <1>3, <1>4, PTL DEF ESpec

(* The hub counts exactly the sockets whose handlers have registered and   *)
(* not unregistered: what expire_stale_sessions does to the hub never      *)
(* takes a live socket's entry away.                                       *)
THEOREM SocketsCounted == ESpec => []HubCounts
<1>1. EInv => HubCounts
  BY DEF EInv
<1> QED
  BY <1>1, EndpointInductive, PTL

(* A session that has lost its last socket and still counts as online has  *)
(* a handler on its way to mark_disconnected.                              *)
THEOREM DropsHandled == ESpec => []DropHasHandler
<1>1. EInv => DropHasHandler
  <2> SUFFICES ASSUME EInv, NEW s \in Session,
                      s \in dropping \/ (hub[s] = 0 /\ s \in online)
               PROVE  \E t \in Tab : SessionOf[t] = s /\ at[t] = "leaving"
    BY DEF DropHasHandler
  <2>1. PresenceExact
    BY DEF EInv, Inv, ClockInv
  <2>2. s \in dropping
    BY <2>1 DEF PresenceExact
  <2> QED
    BY <2>2 DEF EInv, DroppingHandled
<1> QED
  BY <1>1, EndpointInductive, PTL

(* Tabs, handlers and what they have yet to send stay well-formed: a        *)
(* handler sends only messages of a shape its clients know.                *)
THEOREM TabsTyped == ESpec => []ETypeOK
<1>1. EInv => ETypeOK
  BY DEF EInv
<1> QED
  BY <1>1, EndpointInductive, PTL

(* Seen from far enough away, the whole endpoint is Pairing ...            *)
THEOREM EndpointPairs == ESpec => Refines
  BY Usage, Implements, PTL DEF UsesRuntime

(* ... and whoever waits is served in turn, however the handlers that      *)
(* search for them interleave.                                             *)
THEOREM ServedInTurn == ESpec => KeepsOrder
  BY Usage, FirstComeFirst, PTL DEF UsesRuntime

================================================================================
