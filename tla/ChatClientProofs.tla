---------------------------- MODULE ChatClientProofs ----------------------------
(* Proofs about ChatClient, for any number of tabs, sessions and events:    *)
(* its types, and that nothing an earlier login, session or page has asked *)
(* for takes effect later.                                                 *)
EXTENDS ChatClient, TLAPS

--------------------------------------------------------------------------------
(* The types, in the parts that steps change together.                     *)
PageOK ==
  /\ open \subseteq Tab
  /\ enabled \in [Tab -> BOOLEAN]
  /\ seen \in [Tab -> [enabled : BOOLEAN, held : SessionOrNone]]
  /\ dirty \in [Tab -> BOOLEAN]
  /\ status \in [Tab -> {"bootstrapping", "ready", "error"}]
IdentityOK ==
  /\ stored \in [Tab -> SessionOrNone]
  /\ held \in [Tab -> SessionOrNone]
RunsOK ==
  /\ runs \in [Tab -> SUBSET RunRecord]
  /\ \A t \in Tab : \A r \in runs[t] : r.at \in Claiming \cup {"created"} => r.id # NoSession
TransportOK ==
  /\ tokens \in [Tab -> SUBSET [id : Session, live : BOOLEAN]]
  /\ url \in [Tab -> SessionOrNone]
  /\ socket \in [Tab -> [id : SessionOrNone, state : {"closed", "connecting", "open"}]]
  /\ hasConnected \in [Tab -> BOOLEAN]
StoreOK == store \in [Tab -> [me : SessionOrNone, stranger : BOOLEAN, messages : BOOLEAN]]
ServerOK ==
  /\ active \in SessionOrNone /\ given \in 0..MaxSessions
  /\ events \in 0..MaxEvents

LEMMA TypeParts ==
  TypeOK <=> PageOK /\ IdentityOK /\ RunsOK /\ TransportOK /\ StoreOK /\ ServerOK
BY DEF TypeOK, PageOK, IdentityOK, RunsOK, TransportOK, StoreOK, ServerOK

(* What keeps LateAnswersIgnored: only an enabled tab that has noticed it   *)
(* holds an id or has a live run; a live claim is for the stored id; a     *)
(* token asked for is for the id last noticed; a closed tab has nothing.   *)
TabInv(t) ==
  /\ held[t] # NoSession => seen[t].enabled
  /\ held[t] # NoSession /\ stored[t] # NoSession => stored[t] = held[t]
  /\ \A r \in runs[t] :
       r.live => /\ seen[t].enabled /\ held[t] = NoSession
                 /\ r.at \in Claiming => stored[t] \in {NoSession, r.id}
  /\ \A r, q \in runs[t] : r.live /\ q.live => r = q
  /\ \A k \in tokens[t] : k.live => k.id = seen[t].held
  /\ url[t] # NoSession => url[t] = seen[t].held
  /\ t \notin open => runs[t] = {} /\ held[t] = NoSession

Inv == TypeOK /\ \A t \in Tab : TabInv(t)

LEMMA InvHolds == Inv => TypeOK /\ LateAnswersIgnored
BY DEF Inv, TabInv, LateAnswersIgnored

LEMMA InitInv == Init => Inv
<1> SUFFICES ASSUME Init PROVE Inv
  OBVIOUS
<1> USE BoundAssumption, TabAssumption
<1>1. PageOK
  BY DEF Init, PageOK, SessionOrNone
<1>2. IdentityOK /\ RunsOK /\ ServerOK
  BY DEF Init, IdentityOK, RunsOK, ServerOK, SessionOrNone, NoSession
<1>3. TransportOK
  BY DEF Init, TransportOK, NoSocket, SessionOrNone
<1>4. StoreOK
  BY DEF Init, StoreOK, NoChat, SessionOrNone
<1>5. \A t \in Tab : TabInv(t)
  BY DEF Init, TabInv
<1> QED
  BY <1>1, <1>2, <1>3, <1>4, <1>5, TypeParts DEF Inv

--------------------------------------------------------------------------------
(* Runs that are cancelled, or whose resolver is gone, are runs.           *)
LEMMA RunsCancelled ==
  ASSUME NEW R \in SUBSET RunRecord,
         \A r \in R : r.at \in Claiming \cup {"created"} => r.id # NoSession
  PROVE  /\ Deaf(R) \in SUBSET RunRecord /\ Cancelled(R) \in SUBSET RunRecord
         /\ \A r \in Deaf(R) \cup Cancelled(R) : r.at \in Claiming \cup {"created"} => r.id # NoSession
<1>1. ASSUME NEW r \in R
      PROVE  /\ [r EXCEPT !.live = FALSE] \in RunRecord
             /\ [r EXCEPT !.live = FALSE].at = r.at /\ [r EXCEPT !.live = FALSE].id = r.id
  BY DEF RunRecord
<1>2. ASSUME NEW r \in R, NEW at \in Claiming \cup {r.at}
      PROVE  /\ [r EXCEPT !.at = at] \in RunRecord
             /\ [r EXCEPT !.at = at].at = at /\ [r EXCEPT !.at = at].id = r.id
  BY DEF RunRecord
<1>3. \A r \in R : (IF r.at \in Claiming THEN "deaf" ELSE r.at) \in Claiming \cup {r.at}
  BY DEF Claiming
<1>4. \A r \in Deaf(R) : \E q \in R : \E at \in Claiming \cup {q.at} :
        r = [q EXCEPT !.at = at] /\ at = IF q.at \in Claiming THEN "deaf" ELSE q.at
  BY <1>3 DEF Deaf
<1>5. \A r \in Cancelled(R) : \E q \in R : r = [q EXCEPT !.live = FALSE]
  BY DEF Cancelled
<1>6. ASSUME NEW r \in Deaf(R)
      PROVE r \in RunRecord /\ (r.at \in Claiming \cup {"created"} => r.id # NoSession)
  <2>0. PICK q \in R : \E at \in Claiming \cup {q.at} :
          r = [q EXCEPT !.at = at] /\ at = IF q.at \in Claiming THEN "deaf" ELSE q.at
    BY <1>4
  <2>1. PICK at \in Claiming \cup {q.at} :
          r = [q EXCEPT !.at = at] /\ at = IF q.at \in Claiming THEN "deaf" ELSE q.at
    BY <2>0
  <2>2. r \in RunRecord /\ r.at = at /\ r.id = q.id
    BY <1>2, <2>1
  <2>3. r.at \in Claiming \cup {"created"} => q.at \in Claiming \cup {"created"}
    BY <2>1, <2>2
  <2> QED
    BY <2>2, <2>3
<1>7. ASSUME NEW r \in Cancelled(R)
      PROVE r \in RunRecord /\ (r.at \in Claiming \cup {"created"} => r.id # NoSession)
  <2>1. PICK q \in R : r = [q EXCEPT !.live = FALSE]
    BY <1>5
  <2> QED
    BY <1>1, <2>1
<1> QED
  BY <1>6, <1>7

LEMMA PageKept == ASSUME PageOK, IdentityOK, [Next]_vars PROVE PageOK'
<1>1. CASE EndSession \/ UNCHANGED vars
  BY <1>1 DEF EndSession, vars, page, identity, effects, PageOK
<1>2. ASSUME NEW t \in Tab, Step(t) PROVE PageOK'
  <2>1. CASE Effects(t)
    BY <2>1 DEF Effects, MissingId, TurnedOff, PageOK, IdentityOK
  <2>2. CASE RunStep(t)
    BY <2>2 DEF RunStep, ClaimOwned, ClaimTimeout, ServeCreate, Created, CreateFailed, Replace,
                page, identity, effects, PageOK
  <2>3. CASE (\E k \in tokens[t] : TokenResolved(t, k)) \/ FollowUrl(t) \/ SocketOpened(t)
    BY <2>3 DEF TokenResolved, FollowUrl, SocketOpened, page, identity, effects, PageOK
  <2> QED
    BY <1>2, <2>1, <2>2, <2>3 DEF Step
<1>3. ASSUME NEW t \in Tab, Happens(t) PROVE PageOK'
  <2>1. CASE \E r \in runs[t] : Reply(t, r) \/ LoseCreate(t, r)
    BY <2>1 DEF Reply, LoseCreate, page, identity, effects, PageOK
  <2>2. CASE \/ \E final \in BOOLEAN : SocketClosed(t, final)
             \/ \E on \in BOOLEAN : Authenticated(t, on)
             \/ Logout(t) \/ SendMessage(t) \/ Open(t)
    BY <2>2 DEF SocketClosed, Authenticated, Logout, SendMessage, Open, page, identity, effects,
                PageOK
  <2>3. CASE (\E frame \in Frame : Receive(t, frame)) \/ Retry(t) \/ Connect(t)
    BY <2>3 DEF Receive, Retry, Connect, Rendered, page, identity, effects, PageOK
  <2>4. CASE Reload(t) \/ ChangeRoute(t) \/ Close(t)
    <3>1. [enabled |-> FALSE, held |-> NoSession] \in [enabled : BOOLEAN, held : SessionOrNone]
      BY DEF SessionOrNone
    <3>2. /\ open' \subseteq open
          /\ enabled' = [enabled EXCEPT ![t] = FALSE]
          /\ seen' = [seen EXCEPT ![t] = [enabled |-> FALSE, held |-> NoSession]]
          /\ dirty' = [dirty EXCEPT ![t] = FALSE]
          /\ status' = [status EXCEPT ![t] = "bootstrapping"]
      BY <2>4 DEF Reload, ChangeRoute, Close, Mount
    <3> QED
      BY <3>1, <3>2 DEF PageOK
  <2> QED
    BY <1>3, <2>1, <2>2, <2>3, <2>4 DEF Happens
<1> QED
  BY <1>1, <1>2, <1>3 DEF Next

LEMMA IdentityKept == ASSUME PageOK, IdentityOK, RunsOK, [Next]_vars PROVE IdentityOK'
<1>0. NoSession \in SessionOrNone
  BY DEF SessionOrNone
<1>r. \A t \in Tab : \A r \in runs[t] : r.id \in SessionOrNone
  BY DEF RunsOK, RunRecord
<1>1. CASE EndSession \/ UNCHANGED vars
  BY <1>1 DEF EndSession, vars, identity, IdentityOK
<1>2. ASSUME NEW t \in Tab, Step(t) PROVE IdentityOK'
  <2>1. CASE Effects(t)
    BY <2>1, <1>0 DEF Effects, IdentityOK
  <2>2. ASSUME NEW r \in runs[t], ClaimOwned(t, r) \/ ClaimTimeout(t, r) \/ Created(t, r)
        PROVE  IdentityOK'
    BY <2>2, <1>0, <1>r DEF ClaimOwned, ClaimTimeout, Created, IdentityOK
  <2>3. ASSUME NEW r \in runs[t], ServeCreate(t, r) \/ CreateFailed(t, r) PROVE IdentityOK'
    BY <2>3 DEF ServeCreate, CreateFailed, identity, IdentityOK
  <2>4. CASE (\E k \in tokens[t] : TokenResolved(t, k)) \/ FollowUrl(t) \/ SocketOpened(t)
    BY <2>4 DEF TokenResolved, FollowUrl, SocketOpened, identity, IdentityOK
  <2> QED
    BY <1>2, <2>1, <2>2, <2>3, <2>4 DEF Step, RunStep
<1>3. ASSUME NEW t \in Tab, Happens(t) PROVE IdentityOK'
  <2>1. CASE Open(t)
    BY <2>1, <1>0 DEF Open, PageOK, IdentityOK
  <2>2. CASE ~Open(t)
    BY <1>0, <1>3, <2>2 DEF Happens, Reply, LoseCreate, SocketClosed, Receive, Authenticated, Logout, Retry,
                Connect, SendMessage, Reload, ChangeRoute, Close, Mount, identity, IdentityOK
  <2> QED
    BY <2>1, <2>2
<1> QED
  BY <1>1, <1>2, <1>3 DEF Next

LEMMA RunsKept ==
  ASSUME PageOK, IdentityOK, RunsOK, ServerOK, ServerOK', [Next]_vars
  PROVE  RunsOK'
<1> DEFINE Fine(R) == /\ R \in SUBSET RunRecord
                      /\ \A r \in R : r.at \in Claiming \cup {"created"} => r.id # NoSession
<1>0. runs \in [Tab -> SUBSET RunRecord] /\ (\A t \in Tab : Fine(runs[t])) /\ Fine({})
  BY DEF RunsOK
<1>r. ASSUME NEW t \in Tab, NEW R, Fine(R), runs' = [runs EXCEPT ![t] = R] PROVE RunsOK'
  BY <1>r, <1>0 DEF RunsOK
<1>k. ASSUME NEW t \in Tab, NEW r \in runs[t], NEW S, Fine(S), Replace(t, r, S) PROVE RunsOK'
  <2>1. Fine((runs[t] \ {r}) \cup S)
    BY <1>0, <1>k
  <2> QED
    BY <1>k, <1>r, <2>1 DEF Replace
<1>u. CASE UNCHANGED runs
  BY <1>u DEF RunsOK
<1>1. ASSUME NEW t \in Tab, Effects(t) PROVE RunsOK'
  <2> DEFINE C == Cancelled(Deaf(runs[t]))
  <2>1. Fine(C)
    <3>1. Fine(Deaf(runs[t]))
      BY <1>0, RunsCancelled
    <3> HIDE DEF C
    <3>2. \A R : Fine(R) => Fine(Cancelled(R))
      BY RunsCancelled
    <3> QED
      BY <3>1, <3>2 DEF C
  <2>2. Fine(NewRun(t))
    <3>1. stored[t] \in SessionOrNone /\ NoSession \in SessionOrNone
      BY DEF IdentityOK, SessionOrNone
    <3>2. CASE ~MissingId(t)
      BY <3>2 DEF NewRun
    <3>3. CASE MissingId(t) /\ stored[t] # NoSession
      <4>1. NewRun(t) = {Run("claim", stored[t])}
        BY <3>3 DEF NewRun
      <4> QED
        BY <3>1, <3>3, <4>1 DEF Run, RunRecord, Claiming
    <3>4. CASE MissingId(t) /\ stored[t] = NoSession
      <4>1. NewRun(t) = {Run("create", NoSession)}
        BY <3>4 DEF NewRun
      <4> QED
        BY <3>1, <4>1 DEF Run, RunRecord, Claiming
    <3> QED
      BY <3>2, <3>3, <3>4
  <2>3. runs' = [runs EXCEPT ![t] = C \cup NewRun(t)]
    BY <1>1 DEF Effects
  <2>4. Fine(C \cup NewRun(t))
    BY <2>1, <2>2
  <2> QED
    BY <1>r, <2>3, <2>4
<1>2. ASSUME NEW t \in Tab, NEW r \in runs[t], Reply(t, r) PROVE RunsOK'
  <2>1. Fine({[r EXCEPT !.at = "owned"]})
    BY <1>2, <1>0 DEF Reply, RunRecord, Claiming
  <2> QED
    BY <1>2, <1>k, <2>1 DEF Reply
<1>3. ASSUME NEW t \in Tab, NEW r \in runs[t], LoseCreate(t, r) PROVE RunsOK'
  <2>1. Fine({[r EXCEPT !.at = "failed"]})
    BY <1>3, <1>0 DEF LoseCreate, RunRecord, Claiming
  <2> QED
    BY <1>3, <1>k, <2>1 DEF LoseCreate
<1>4. ASSUME NEW t \in Tab, NEW r \in runs[t], ServeCreate(t, r) PROVE RunsOK'
  <2>1. active' \in SessionOrNone /\ active' # NoSession
    BY <1>4 DEF ServeCreate, server, ServerOK, NoSession
  <2>2. Fine({[r EXCEPT !.at = "created", !.id = active']})
    BY <2>1, <1>0 DEF RunRecord
  <2> QED
    BY <1>4, <1>k, <2>2 DEF ServeCreate
<1>5. ASSUME NEW t \in Tab, NEW r \in runs[t], ClaimOwned(t, r) PROVE RunsOK'
  <2>1. Fine({Run("create", NoSession)})
    BY DEF Run, RunRecord, Claiming, SessionOrNone
  <2>2. Replace(t, r, IF r.live THEN {Run("create", NoSession)} ELSE {})
    BY <1>5 DEF ClaimOwned
  <2> QED
    BY <1>0, <1>k, <2>1, <2>2
<1>6. ASSUME NEW t \in Tab, NEW r \in runs[t], ClaimTimeout(t, r) \/ Created(t, r) \/ CreateFailed(t, r)
      PROVE  RunsOK'
  BY <1>0, <1>6, <1>k DEF ClaimTimeout, Created, CreateFailed
<1>7. ASSUME NEW t \in Tab, Retry(t) PROVE RunsOK'
  BY <1>0, <1>7, <1>r, RunsCancelled DEF Retry
<1>8. ASSUME NEW t \in Tab, Reload(t) \/ Close(t) PROVE RunsOK'
  BY <1>0, <1>8, <1>r DEF Reload, Close, Mount
<1>9. ASSUME NEW t \in Tab, ChangeRoute(t) PROVE RunsOK'
  <2>1. Fine(Deaf(runs[t]))
    BY <1>0, RunsCancelled
  <2>2. \A R : Fine(R) => Fine(Cancelled(R))
    BY RunsCancelled
  <2>3. Fine(Cancelled(Deaf(runs[t])))
    BY <2>1, <2>2
  <2> QED
    BY <1>9, <2>3, <1>r DEF ChangeRoute, Mount
<1>10. CASE EndSession
  BY <1>10, <1>u DEF EndSession
<1>11. ASSUME NEW t \in Tab, Step(t) PROVE RunsOK'
  <2>1. CASE (\E k \in tokens[t] : TokenResolved(t, k)) \/ FollowUrl(t) \/ SocketOpened(t)
    BY <2>1, <1>u DEF TokenResolved, FollowUrl, SocketOpened
  <2> QED
    BY <1>11, <2>1, <1>1, <1>4, <1>5, <1>6 DEF Step, RunStep
<1>12. ASSUME NEW t \in Tab, Happens(t) PROVE RunsOK'
  <2>1. ASSUME UNCHANGED runs PROVE RunsOK'
    BY <1>u, <2>1
  <2>2. \/ \E r \in runs[t] : Reply(t, r) \/ LoseCreate(t, r)
        \/ Retry(t) \/ Reload(t) \/ ChangeRoute(t) \/ Close(t)
        \/ UNCHANGED runs
    BY <1>12 DEF Happens, SocketClosed, Receive, Authenticated, Logout, Connect, SendMessage, Open
  <2> QED
    BY <2>1, <2>2, <1>2, <1>3, <1>7, <1>8, <1>9
<1>13. CASE UNCHANGED vars
  BY <1>13, <1>u DEF vars
<1> QED
  BY <1>10, <1>11, <1>12, <1>13 DEF Next

LEMMA ServerKept == ASSUME ServerOK, [Next]_vars PROVE ServerOK'
<1>0. active \in SessionOrNone /\ given \in 0..MaxSessions /\ events \in 0..MaxEvents
  BY DEF ServerOK
<1>e. Event \/ UNCHANGED events => events' \in 0..MaxEvents
  BY <1>0, BoundAssumption DEF Event
<1>u. ASSUME UNCHANGED server, Event \/ UNCHANGED events PROVE ServerOK'
  BY <1>u, <1>0, <1>e DEF server, ServerOK
<1>1. CASE EndSession
  BY <1>1, <1>0, <1>e DEF EndSession, ServerOK, SessionOrNone
<1>2. ASSUME NEW t \in Tab, NEW r \in runs[t], ServeCreate(t, r) PROVE ServerOK'
  <2>1. CASE active # NoSession
    BY <1>2, <2>1, <1>u DEF ServeCreate
  <2>2. CASE active = NoSession
    <3>1. given < MaxSessions /\ given' = given + 1 /\ active' = given' /\ events' = events
      BY <1>2, <2>2 DEF ServeCreate
    <3> QED
      BY <3>1, <1>0, BoundAssumption DEF ServerOK, SessionOrNone, Session
  <2> QED
    BY <2>1, <2>2
<1>3. ASSUME NEW t \in Tab, Step(t) PROVE ServerOK'
  <2>1. (\E r \in runs[t] : ServeCreate(t, r)) \/ UNCHANGED <<server, events>>
    BY <1>3 DEF Step, Effects, RunStep, ClaimOwned, ClaimTimeout, Created, CreateFailed,
                TokenResolved, FollowUrl, SocketOpened
  <2> QED
    BY <2>1, <1>2, <1>u
<1>4. ASSUME NEW t \in Tab, Happens(t) PROVE ServerOK'
  <2>1. UNCHANGED server /\ (Event \/ UNCHANGED events)
    BY <1>4 DEF Happens, Reply, LoseCreate, SocketClosed, Receive, Authenticated, Logout, Retry,
                Connect, SendMessage, Reload, ChangeRoute, Close, Open
  <2> QED
    BY <2>1, <1>u
<1>5. CASE UNCHANGED vars
  BY <1>5, <1>u DEF vars
<1> QED
  BY <1>1, <1>3, <1>4, <1>5 DEF Next

LEMMA StoreKept == ASSUME StoreOK, TransportOK, [Next]_vars PROVE StoreOK'
<1> DEFINE Chat == [me : SessionOrNone, stranger : BOOLEAN, messages : BOOLEAN]
<1>0. NoChat \in Chat /\ store \in [Tab -> Chat]
  BY DEF NoChat, StoreOK, SessionOrNone
<1>s. ASSUME NEW t \in Tab, NEW s \in Chat, store' = [store EXCEPT ![t] = s] PROVE StoreOK'
  BY <1>s, <1>0 DEF StoreOK
<1>u. ASSUME UNCHANGED store PROVE StoreOK'
  BY <1>u DEF StoreOK
<1>1. ASSUME NEW t \in Tab, Effects(t) PROVE StoreOK'
  <2>1. store' = [store EXCEPT ![t] = IF TurnedOff(t) THEN NoChat ELSE store[t]]
    BY <1>1 DEF Effects
  <2>2. (IF TurnedOff(t) THEN NoChat ELSE store[t]) \in Chat
    BY <1>0
  <2> HIDE DEF Chat
  <2> QED
    BY <2>1, <2>2, <1>s
<1>2. ASSUME NEW t \in Tab, NEW frame \in Frame, Receive(t, frame) PROVE StoreOK'
  <2>1. Shown(store[t], socket[t].id, frame) \in Chat
    <3>1. socket[t].id \in SessionOrNone /\ store[t] \in Chat
      BY <1>0 DEF TransportOK
    <3>2. ASSUME NEW s \in Chat, NEW id \in SessionOrNone
          PROVE  /\ [s EXCEPT !.me = id] \in Chat
                 /\ [s EXCEPT !.stranger = TRUE] \in Chat
                 /\ [s EXCEPT !.messages = TRUE] \in Chat
                 /\ [s EXCEPT !.stranger = FALSE, !.messages = TRUE] \in Chat
      OBVIOUS
    <3>3. [NoChat EXCEPT !.me = socket[t].id] \in Chat
      BY <3>1, <3>2, <1>0
    <3> HIDE DEF Chat
    <3> QED
      BY <3>1, <3>2, <3>3 DEF Shown, Frame
  <2> QED
    BY <1>2, <2>1, <1>s DEF Receive
<1>3. ASSUME NEW t \in Tab, Connect(t) PROVE StoreOK'
  <2> DEFINE s == IF Ready(t) THEN [store[t] EXCEPT !.stranger = FALSE, !.messages = FALSE]
                  ELSE store[t]
  <2>1. s \in Chat
    BY <1>0
  <2>2. store' = [store EXCEPT ![t] = s]
    BY <1>3 DEF Connect
  <2> QED
    BY <2>1, <2>2, <1>s
<1>4. ASSUME NEW t \in Tab, SendMessage(t) PROVE StoreOK'
  BY <1>4, <1>0 DEF SendMessage, StoreOK
<1>5. ASSUME NEW t \in Tab, Logout(t) \/ Reload(t) \/ Close(t) PROVE StoreOK'
  BY <1>5, <1>0, <1>s DEF Logout, Reload, Close, Mount
<1>6. ASSUME NEW t \in Tab, ChangeRoute(t) PROVE StoreOK'
  BY <1>6, <1>0, <1>s DEF ChangeRoute, Mount
<1>7. ASSUME NEW t \in Tab, Step(t) PROVE StoreOK'
  <2>1. Effects(t) \/ UNCHANGED store
    BY <1>7 DEF Step, RunStep, ClaimOwned, ClaimTimeout, ServeCreate, Created, CreateFailed,
                TokenResolved, FollowUrl, SocketOpened
  <2> QED
    BY <2>1, <1>1, <1>u
<1>8. ASSUME NEW t \in Tab, Happens(t) PROVE StoreOK'
  <2>1. \/ \E frame \in Frame : Receive(t, frame)
        \/ Connect(t) \/ SendMessage(t) \/ Logout(t) \/ Reload(t) \/ Close(t) \/ ChangeRoute(t)
        \/ UNCHANGED store
    BY <1>8 DEF Happens, Reply, LoseCreate, SocketClosed, Authenticated, Retry, Open
  <2> QED
    BY <2>1, <1>2, <1>3, <1>4, <1>5, <1>6, <1>u
<1>9. CASE EndSession \/ UNCHANGED vars
  BY <1>9, <1>u DEF EndSession, vars
<1> QED
  BY <1>7, <1>8, <1>9 DEF Next

LEMMA TransportKept ==
  ASSUME IdentityOK, TransportOK, [Next]_vars PROVE TransportOK'
<1> DEFINE Token == [id : Session, live : BOOLEAN]
           Socket == [id : SessionOrNone, state : {"closed", "connecting", "open"}]
<1>0. /\ tokens \in [Tab -> SUBSET Token] /\ url \in [Tab -> SessionOrNone]
      /\ socket \in [Tab -> Socket] /\ hasConnected \in [Tab -> BOOLEAN]
      /\ NoSession \in SessionOrNone
  BY DEF TransportOK, SessionOrNone
<1>c. ASSUME NEW K \in SUBSET Token PROVE Cancelled(K) \in SUBSET Token
  <2>1. \A k \in K : [k EXCEPT !.live = FALSE] \in Token
    OBVIOUS
  <2> QED
    BY <2>1 DEF Cancelled
<1>u. ASSUME UNCHANGED transport PROVE TransportOK'
  BY <1>u DEF transport, TransportOK
<1>1. ASSUME NEW t \in Tab, Effects(t) PROVE TransportOK'
  <2>1. hasConnected' \in [Tab -> BOOLEAN] /\ socket' = socket
    BY <1>1, <1>0 DEF Effects
  <2>2. tokens' \in [Tab -> SUBSET Token] /\ url' \in [Tab -> SessionOrNone]
    <3>1. CASE held[t] = seen[t].held
      BY <1>0, <1>1, <3>1 DEF Effects, UrlEffect
    <3>2. CASE held[t] # seen[t].held
      <4> DEFINE N == IF held[t] = NoSession THEN {} ELSE {[id |-> held[t], live |-> TRUE]}
      <4>1. N \in SUBSET Token
        BY DEF IdentityOK, SessionOrNone
      <4>2. Cancelled(tokens[t]) \in SUBSET Token
        BY <1>0, <1>c
      <4>3. /\ tokens' = [tokens EXCEPT ![t] = Cancelled(tokens[t]) \cup N]
            /\ url' = [url EXCEPT ![t] = NoSession]
        BY <1>1, <3>2 DEF Effects, UrlEffect
      <4> HIDE DEF N, Token
      <4> QED
        BY <4>1, <4>2, <4>3, <1>0
    <3> QED
      BY <3>1, <3>2
  <2> QED
    BY <2>1, <2>2 DEF TransportOK
<1>2. ASSUME NEW t \in Tab, NEW k \in tokens[t], TokenResolved(t, k) PROVE TransportOK'
  <2>1. k.id \in SessionOrNone /\ url[t] \in SessionOrNone
    BY <1>0 DEF SessionOrNone
  <2>2. url' \in [Tab -> SessionOrNone]
    BY <1>2, <2>1, <1>0 DEF TokenResolved
  <2>3. tokens' \in [Tab -> SUBSET Token]
    BY <1>2, <1>0 DEF TokenResolved
  <2> QED
    BY <1>2, <2>2, <2>3, <1>0 DEF TokenResolved, TransportOK
<1>3. ASSUME NEW t \in Tab, FollowUrl(t) PROVE TransportOK'
  <2> DEFINE s == [id |-> url[t], state |-> IF url[t] = NoSession THEN "closed" ELSE "connecting"]
  <2>1. s \in Socket
    BY <1>0
  <2>2. socket' = [socket EXCEPT ![t] = s]
    BY <1>3 DEF FollowUrl
  <2> HIDE DEF s
  <2>3. socket' \in [Tab -> Socket]
    BY <2>1, <2>2, <1>0
  <2> QED
    BY <1>3, <2>3, <1>0 DEF FollowUrl, TransportOK
<1>4. ASSUME NEW t \in Tab, SocketOpened(t) PROVE TransportOK'
  <2>1. [socket[t] EXCEPT !.state = "open"] \in Socket
    BY <1>0
  <2>2. socket' = [socket EXCEPT ![t] = [socket[t] EXCEPT !.state = "open"]]
    BY <1>4 DEF SocketOpened
  <2>3. socket' \in [Tab -> Socket]
    BY <2>1, <2>2, <1>0
  <2> QED
    BY <1>4, <2>3, <1>0 DEF SocketOpened, TransportOK
<1>5. ASSUME NEW t \in Tab, NEW final \in BOOLEAN, SocketClosed(t, final) PROVE TransportOK'
  <2> DEFINE s == [socket[t] EXCEPT !.state = IF final THEN "closed" ELSE "connecting"]
  <2>1. s \in Socket
    BY <1>0
  <2>2. socket' = [socket EXCEPT ![t] = s]
    BY <1>5 DEF SocketClosed
  <2> HIDE DEF s
  <2>3. socket' \in [Tab -> Socket]
    BY <2>1, <2>2, <1>0
  <2> QED
    BY <1>5, <2>3, <1>0 DEF SocketClosed, TransportOK
<1>6. ASSUME NEW t \in Tab, Reload(t) \/ ChangeRoute(t) \/ Close(t) PROVE TransportOK'
  <2>1. PICK K \in SUBSET Token : tokens' = [tokens EXCEPT ![t] = K]
    <3>1. Cancelled(tokens[t]) \in SUBSET Token
      BY <1>0, <1>c
    <3> QED
      BY <3>1, <1>6 DEF Reload, ChangeRoute, Close, Mount
  <2>2. NoSocket \in Socket
    BY <1>0 DEF NoSocket
  <2>3. /\ url' = [url EXCEPT ![t] = NoSession]
        /\ socket' = [socket EXCEPT ![t] = NoSocket]
        /\ hasConnected' = [hasConnected EXCEPT ![t] = FALSE]
    BY <1>6 DEF Reload, ChangeRoute, Close, Mount
  <2> QED
    BY <2>1, <2>2, <2>3, <1>0 DEF TransportOK
<1>7. ASSUME NEW t \in Tab, Step(t) PROVE TransportOK'
  <2>1. \/ Effects(t) \/ FollowUrl(t) \/ SocketOpened(t)
        \/ \E k \in tokens[t] : TokenResolved(t, k)
        \/ UNCHANGED transport
    BY <1>7 DEF Step, RunStep, ClaimOwned, ClaimTimeout, ServeCreate, Created, CreateFailed
  <2> QED
    BY <2>1, <1>1, <1>2, <1>3, <1>4, <1>u
<1>8. ASSUME NEW t \in Tab, Happens(t) PROVE TransportOK'
  <2>1. \/ \E final \in BOOLEAN : SocketClosed(t, final)
        \/ Reload(t) \/ ChangeRoute(t) \/ Close(t)
        \/ UNCHANGED transport
    BY <1>8 DEF Happens, Reply, LoseCreate, Receive, Authenticated, Logout, Retry, Connect,
                SendMessage, Open
  <2> QED
    BY <2>1, <1>5, <1>6, <1>u
<1>9. CASE EndSession \/ UNCHANGED vars
  BY <1>9, <1>u DEF EndSession, vars
<1> QED
  BY <1>7, <1>8, <1>9 DEF Next

LEMMA TypeKept == TypeOK /\ [Next]_vars => TypeOK'
BY PageKept, IdentityKept, RunsKept, TransportKept, StoreKept, ServerKept, TypeParts
   DEF TypeOK, PageOK, IdentityOK, RunsOK, TransportOK, StoreOK, ServerOK

--------------------------------------------------------------------------------
(* Each step concerns one tab, or none.                                    *)
SameTab(u) ==
  /\ held'[u] = held[u] /\ stored'[u] = stored[u] /\ seen'[u] = seen[u]
  /\ runs'[u] = runs[u] /\ tokens'[u] = tokens[u] /\ url'[u] = url[u]
  /\ (u \in open' <=> u \in open)

LEMMA TabUnchanged == ASSUME NEW u \in Tab, TabInv(u), SameTab(u) PROVE TabInv(u)'
BY DEF SameTab, TabInv

LEMMA OtherTabs ==
  ASSUME TypeOK, NEW t \in Tab, Step(t) \/ Happens(t), NEW u \in Tab, u # t
  PROVE  SameTab(u)
<1> USE DEF SameTab
<1>1. CASE Effects(t)
  BY <1>1 DEF Effects, UrlEffect, TypeOK
<1>2. CASE RunStep(t)
  BY <1>2 DEF RunStep, ClaimOwned, ClaimTimeout, ServeCreate, Created, CreateFailed, Replace,
              page, identity, effects, transport, TypeOK
<1>3. CASE (\E k \in tokens[t] : TokenResolved(t, k)) \/ FollowUrl(t) \/ SocketOpened(t)
  BY <1>3 DEF TokenResolved, FollowUrl, SocketOpened, page, identity, effects, TypeOK
<1>4. CASE \E r \in runs[t] : Reply(t, r) \/ LoseCreate(t, r)
  BY <1>4 DEF Reply, LoseCreate, Replace, page, identity, effects, transport, TypeOK
<1>5. CASE \/ \E final \in BOOLEAN : SocketClosed(t, final)
           \/ \E frame \in Frame : Receive(t, frame)
           \/ \E on \in BOOLEAN : Authenticated(t, on)
           \/ Logout(t) \/ Connect(t) \/ SendMessage(t)
  BY <1>5 DEF SocketClosed, Receive, Authenticated, Logout, Connect, SendMessage, page, identity,
              effects, transport, TypeOK
<1>6. CASE Retry(t)
  BY <1>6 DEF Retry, page, transport, TypeOK
<1>7. CASE Reload(t) \/ ChangeRoute(t) \/ Close(t)
  BY <1>7 DEF Reload, ChangeRoute, Close, Mount, TypeOK
<1>8. CASE Open(t)
  BY <1>8 DEF Open, effects, transport, TypeOK
<1> QED
  BY <1>1, <1>2, <1>3, <1>4, <1>5, <1>6, <1>7, <1>8 DEF Step, Happens

--------------------------------------------------------------------------------
(* The tab concerned.  First what cancelling does.                         *)
LEMMA Dead == \A R : \A r \in Cancelled(R) : \E q \in R : r = [q EXCEPT !.live = FALSE]
BY DEF Cancelled

LEMMA CancelledRuns == ASSUME NEW R \in SUBSET RunRecord PROVE \A r \in Cancelled(R) : ~r.live
BY Dead DEF RunRecord

LEMMA CancelledTokens ==
  ASSUME NEW K \in SUBSET [id : Session, live : BOOLEAN] PROVE \A k \in Cancelled(K) : ~k.live
BY Dead

LEMMA DeafRuns ==
  ASSUME NEW R \in SUBSET RunRecord
  PROVE  \A r \in Deaf(R) : \E q \in R : r = [q EXCEPT !.at = IF q.at \in Claiming THEN "deaf" ELSE q.at]
BY DEF Deaf

(* A run of tab t takes its step: what it is replaced by is live only if   *)
(* it was.                                                                 *)
LEMMA Replaced ==
  ASSUME TypeOK, NEW t \in Tab, TabInv(t), NEW r \in runs[t], NEW S, Replace(t, r, S),
         \A q \in S : q.live => /\ r.live
                                /\ q.at \in Claiming => r.at \in Claiming /\ q.id = r.id,
         \A q, p \in S : q = p,
         held'[t] = held[t], seen'[t] = seen[t], t \in open' <=> t \in open,
         stored'[t] \in {stored[t], NoSession},
         tokens'[t] = tokens[t], url'[t] = url[t]
  PROVE  TabInv(t)'
<1>1. runs'[t] = (runs[t] \ {r}) \cup S
  BY DEF Replace, TypeOK
<1>2. \A q \in runs'[t] : q.live =>
        /\ seen[t].enabled /\ held[t] = NoSession
        /\ q.at \in Claiming => stored[t] \in {NoSession, q.id}
  BY <1>1 DEF TabInv
<1>3. \A q, p \in runs'[t] : q.live /\ p.live => q = p
  BY <1>1 DEF TabInv
<1>4. t \in open
  BY DEF TabInv
<1> QED
  BY <1>2, <1>3, <1>4 DEF TabInv

(* A live run sets the id and is the last one.                             *)
LEMMA Settled ==
  ASSUME TypeOK, NEW t \in Tab, TabInv(t), NEW r \in runs[t], Replace(t, r, {}),
         seen'[t] = seen[t], open' = open, tokens'[t] = tokens[t], url'[t] = url[t],
         ~r.live => held'[t] = held[t] /\ stored'[t] = stored[t],
         r.live => held'[t] = r.id /\ stored'[t] \in {NoSession, r.id}
  PROVE  TabInv(t)'
<1>1. runs'[t] = runs[t] \ {r}
  BY DEF Replace, TypeOK
<1>2. t \in open
  BY DEF TabInv
<1>3. CASE r.live
  <2>1. \A q \in runs'[t] : ~q.live
    BY <1>1, <1>3 DEF TabInv
  <2> QED
    BY <1>2, <1>3, <2>1 DEF TabInv
<1>4. CASE ~r.live
  BY <1>1, <1>2, <1>4 DEF TabInv
<1> QED
  BY <1>3, <1>4

LEMMA EffectsKeep == ASSUME TypeOK, NEW t \in Tab, TabInv(t), Effects(t) PROVE TabInv(t)'
<1>1. /\ seen'[t] = [enabled |-> enabled[t], held |-> held[t]]
      /\ held'[t] = IF TurnedOff(t) THEN NoSession ELSE held[t]
      /\ stored'[t] = IF TurnedOff(t) THEN NoSession ELSE stored[t]
      /\ runs'[t] = Cancelled(Deaf(runs[t])) \cup NewRun(t)
      /\ t \in open /\ open' = open
  BY DEF Effects, TypeOK
<1>2. \A r \in Cancelled(Deaf(runs[t])) : ~r.live
  <2>1. runs[t] \in SUBSET RunRecord /\ \A r \in runs[t] : r.at \in Claiming \cup {"created"} => r.id # NoSession
    BY DEF TypeOK
  <2>2. Deaf(runs[t]) \in SUBSET RunRecord
    BY <2>1, RunsCancelled
  <2> QED
    BY <2>2, CancelledRuns
<1>3. NewRun(t) # {} => enabled[t] /\ held[t] = NoSession /\ ~TurnedOff(t)
  BY DEF NewRun, MissingId, TurnedOff
<1>4. \A r, q \in NewRun(t) : r = q /\ (r.at \in Claiming => r.id = stored[t])
  <2>1. \/ NewRun(t) = {} \/ NewRun(t) = {Run("claim", stored[t])}
        \/ NewRun(t) = {Run("create", NoSession)}
    BY DEF NewRun
  <2>2. Run("claim", stored[t]).id = stored[t] /\ Run("create", NoSession).at \notin Claiming
    BY DEF Run, Claiming
  <2> QED
    BY <2>1, <2>2
<1>5. held'[t] # NoSession => seen'[t].enabled
  BY <1>1 DEF TabInv, TurnedOff, TypeOK
<1>6. held'[t] # NoSession /\ stored'[t] # NoSession => stored'[t] = held'[t]
  BY <1>1 DEF TabInv
<1>7. \A r \in runs'[t] :
       r.live => /\ seen'[t].enabled /\ held'[t] = NoSession
                 /\ r.at \in Claiming => stored'[t] \in {NoSession, r.id}
  BY <1>1, <1>2, <1>3, <1>4
<1>8. \A r, q \in runs'[t] : r.live /\ q.live => r = q
  BY <1>1, <1>2, <1>4
<1>9. (\A k \in tokens'[t] : k.live => k.id = seen'[t].held)
      /\ (url'[t] # NoSession => url'[t] = seen'[t].held)
  <2>1. CASE held[t] = seen[t].held
    <3>1. tokens' = tokens /\ url' = url
      BY <2>1 DEF Effects, UrlEffect
    <3> QED
      BY <1>1, <2>1, <3>1 DEF TabInv
  <2>2. CASE held[t] # seen[t].held
    <3> DEFINE N == IF held[t] = NoSession THEN {} ELSE {[id |-> held[t], live |-> TRUE]}
    <3>1. /\ tokens' = [tokens EXCEPT ![t] = Cancelled(tokens[t]) \cup N]
          /\ url' = [url EXCEPT ![t] = NoSession]
      BY <2>2 DEF Effects, UrlEffect
    <3>2. tokens'[t] = Cancelled(tokens[t]) \cup N /\ url'[t] = NoSession
      BY <3>1 DEF TypeOK
    <3>3. \A k \in N : k.id = held[t]
      OBVIOUS
    <3>4. \A k \in Cancelled(tokens[t]) : ~k.live
      BY CancelledTokens DEF TypeOK
    <3> HIDE DEF N
    <3> QED
      BY <1>1, <3>2, <3>3, <3>4
  <2> QED
    BY <2>1, <2>2
<1> QED
  BY <1>1, <1>5, <1>6, <1>7, <1>8, <1>9 DEF TabInv

LEMMA RunsKeep ==
  ASSUME TypeOK, NEW t \in Tab, TabInv(t), NEW r \in runs[t],
         \/ Reply(t, r) \/ ClaimOwned(t, r) \/ ClaimTimeout(t, r) \/ ServeCreate(t, r)
         \/ LoseCreate(t, r) \/ Created(t, r) \/ CreateFailed(t, r)
  PROVE  TabInv(t)'
<1>r. r \in RunRecord
  BY DEF TypeOK
<1>1. CASE Reply(t, r)
  <2> DEFINE q == [r EXCEPT !.at = "owned"]
  <2>1. q.live = r.live /\ q.id = r.id /\ r.at \in Claiming
    BY <1>r, <1>1 DEF RunRecord, Claiming, Reply
  <2> HIDE DEF q
  <2>2. Replace(t, r, {q})
    BY <1>1 DEF Reply, q
  <2> QED
    BY <1>1, <2>1, <2>2, Replaced DEF Reply, page, identity, effects, transport
<1>2. CASE LoseCreate(t, r)
  <2> DEFINE q == [r EXCEPT !.at = "failed"]
  <2>1. q.live = r.live /\ q.at \notin Claiming
    BY <1>r, <1>2 DEF RunRecord, Claiming, LoseCreate
  <2> HIDE DEF q
  <2>2. Replace(t, r, {q})
    BY <1>2 DEF LoseCreate, q
  <2> QED
    BY <1>2, <2>1, <2>2, Replaced DEF LoseCreate, page, identity, effects, transport
<1>3. CASE ServeCreate(t, r)
  <2> DEFINE q == [r EXCEPT !.at = "created", !.id = active']
  <2>1. q.live = r.live /\ q.at \notin Claiming
    BY <1>r DEF RunRecord, Claiming
  <2> HIDE DEF q
  <2>2. Replace(t, r, {q})
    BY <1>3 DEF ServeCreate, q
  <2> QED
    BY <1>3, <2>1, <2>2, Replaced DEF ServeCreate, page, identity, effects, transport
<1>4. CASE ClaimOwned(t, r)
  <2> DEFINE S == IF r.live THEN {Run("create", NoSession)} ELSE {}
  <2>1. \A q \in S : r.live /\ q.at \notin Claiming
    BY DEF Run, Claiming
  <2>2. \A q, p \in S : q = p
    OBVIOUS
  <2> HIDE DEF S
  <2>3. Replace(t, r, S)
    BY <1>4 DEF ClaimOwned, S
  <2>4. stored'[t] \in {stored[t], NoSession}
    BY <1>4 DEF ClaimOwned, TypeOK
  <2> QED
    BY <1>4, <2>1, <2>2, <2>3, <2>4, Replaced DEF ClaimOwned, page, effects, transport
<1>5. CASE CreateFailed(t, r)
  BY <1>5, Replaced DEF CreateFailed, page, transport
<1>6. CASE ClaimTimeout(t, r)
  <2>1. r.live => stored[t] \in {NoSession, r.id}
    BY <1>6 DEF ClaimTimeout, TabInv
  <2>2. held'[t] = IF r.live THEN r.id ELSE held[t]
    BY <1>6 DEF ClaimTimeout, TypeOK
  <2> QED
    BY <1>6, <2>1, <2>2, Settled DEF ClaimTimeout, page, effects, transport
<1>7. CASE Created(t, r)
  <2>1. /\ held'[t] = IF r.live THEN r.id ELSE held[t]
        /\ stored'[t] = IF r.live THEN r.id ELSE stored[t]
    BY <1>7 DEF Created, TypeOK
  <2> QED
    BY <1>7, <2>1, Settled DEF Created, page, effects, transport
<1> QED
  BY <1>1, <1>2, <1>3, <1>4, <1>5, <1>6, <1>7

LEMMA RetryKeeps == ASSUME TypeOK, NEW t \in Tab, TabInv(t), Retry(t) PROVE TabInv(t)'
<1>1. /\ runs'[t] = Deaf(runs[t]) /\ t \in open /\ open' = open
      /\ held' = held /\ stored' = stored /\ seen' = seen /\ tokens' = tokens /\ url' = url
  BY DEF Retry, page, transport, TypeOK
<1>2. ASSUME NEW r \in Deaf(runs[t])
      PROVE  \E q \in runs[t] :
               /\ r = [q EXCEPT !.at = IF q.at \in Claiming THEN "deaf" ELSE q.at]
               /\ r.live = q.live /\ r.id = q.id /\ (r.at \in Claiming => q.at \in Claiming)
  <2>1. PICK q \in runs[t] : r = [q EXCEPT !.at = IF q.at \in Claiming THEN "deaf" ELSE q.at]
    BY DeafRuns DEF TypeOK
  <2>2. q \in RunRecord
    BY DEF TypeOK
  <2> QED
    BY <2>1, <2>2 DEF RunRecord
<1>3. \A r \in runs'[t] :
       r.live => /\ seen[t].enabled /\ held[t] = NoSession
                 /\ r.at \in Claiming => stored[t] \in {NoSession, r.id}
  BY <1>1, <1>2 DEF TabInv
<1>4. \A r, q \in runs'[t] : r.live /\ q.live => r = q
  BY <1>1, <1>2 DEF TabInv
<1> QED
  BY <1>1, <1>3, <1>4 DEF TabInv

LEMMA MountKeeps ==
  ASSUME TypeOK, NEW t \in Tab, NEW shown, NEW R, NEW K, Mount(t, shown, R, K),
         \A r \in R : ~r.live, \A k \in K : ~k.live,
         t \notin open' => R = {}
  PROVE  TabInv(t)'
<1>1. /\ held'[t] = NoSession /\ seen'[t] = [enabled |-> FALSE, held |-> NoSession]
      /\ runs'[t] = R /\ tokens'[t] = K /\ url'[t] = NoSession
  BY DEF Mount, TypeOK
<1> QED
  BY <1>1 DEF TabInv

LEMMA HappensKeeps == ASSUME TypeOK, NEW t \in Tab, TabInv(t), Happens(t) PROVE TabInv(t)'
<1>1. CASE \E r \in runs[t] : Reply(t, r) \/ LoseCreate(t, r)
  BY <1>1, RunsKeep
<1>2. CASE Retry(t)
  BY <1>2, RetryKeeps
<1>3. CASE Reload(t) \/ Close(t)
  BY <1>3, MountKeeps DEF Reload, Close
<1>4. CASE ChangeRoute(t)
  <2>1. runs[t] \in SUBSET RunRecord /\ \A r \in runs[t] : r.at \in Claiming \cup {"created"} => r.id # NoSession
    BY DEF TypeOK
  <2>2. \A r \in Cancelled(Deaf(runs[t])) : ~r.live
    BY <2>1, RunsCancelled, CancelledRuns
  <2>3. \A k \in Cancelled(tokens[t]) : ~k.live
    BY CancelledTokens DEF TypeOK
  <2> QED
    BY <1>4, <2>2, <2>3, MountKeeps DEF ChangeRoute
<1>5. CASE Logout(t)
  <2>1. stored'[t] = NoSession /\ UNCHANGED <<open, held, seen, runs, tokens, url>>
    BY <1>5 DEF Logout, effects, transport, TypeOK
  <2> QED
    BY <2>1 DEF TabInv
<1>6. CASE Open(t)
  <2>1. UNCHANGED <<held, seen, runs, tokens, url>> /\ t \notin open /\ t \in open'
    BY <1>6 DEF Open, effects, transport
  <2> QED
    BY <2>1 DEF TabInv
<1>7. CASE \/ \E final \in BOOLEAN : SocketClosed(t, final)
           \/ \E frame \in Frame : Receive(t, frame)
           \/ \E on \in BOOLEAN : Authenticated(t, on)
           \/ Connect(t) \/ SendMessage(t)
  <2>1. SameTab(t)
    BY <1>7 DEF SocketClosed, Receive, Authenticated, Connect, SendMessage, page, identity,
                effects, transport, SameTab
  <2> QED
    BY <2>1, TabUnchanged
<1> QED
  BY <1>1, <1>2, <1>3, <1>4, <1>5, <1>6, <1>7 DEF Happens

LEMMA StepKeeps == ASSUME TypeOK, NEW t \in Tab, TabInv(t), Step(t) PROVE TabInv(t)'
<1>1. CASE Effects(t)
  BY <1>1, EffectsKeep
<1>2. CASE RunStep(t)
  BY <1>2, RunsKeep DEF RunStep
<1>3. ASSUME NEW k \in tokens[t], TokenResolved(t, k) PROVE TabInv(t)'
  <2>1. /\ tokens'[t] = tokens[t] \ {k}
        /\ url'[t] = IF k.live THEN k.id ELSE url[t]
        /\ UNCHANGED <<open, held, stored, seen, runs>>
    BY <1>3 DEF TokenResolved, page, identity, effects, TypeOK
  <2> QED
    BY <2>1 DEF TabInv
<1>4. CASE FollowUrl(t) \/ SocketOpened(t)
  <2>1. SameTab(t)
    BY <1>4 DEF FollowUrl, SocketOpened, page, identity, effects, SameTab
  <2> QED
    BY <2>1, TabUnchanged
<1> QED
  BY <1>1, <1>2, <1>3, <1>4 DEF Step

LEMMA InvKept == Inv /\ [Next]_vars => Inv'
<1> SUFFICES ASSUME Inv, [Next]_vars, NEW u \in Tab PROVE TabInv(u)'
  BY TypeKept DEF Inv
<1>0. TypeOK /\ TabInv(u)
  BY DEF Inv
<1>1. CASE EndSession \/ UNCHANGED vars
  <2>1. SameTab(u)
    BY <1>1 DEF EndSession, vars, page, identity, effects, transport, SameTab
  <2> QED
    BY <1>0, <2>1, TabUnchanged
<1>2. ASSUME NEW t \in Tab, Step(t) \/ Happens(t) PROVE TabInv(u)'
  <2>1. CASE u = t
    BY <1>0, <1>2, <2>1, StepKeeps, HappensKeeps
  <2>2. CASE u # t
    BY <1>0, <1>2, <2>2, OtherTabs, TabUnchanged
  <2> QED
    BY <2>1, <2>2
<1> QED
  BY <1>1, <1>2 DEF Next

(* The invariant the others follow from.                                   *)
THEOREM InvariantHolds == Spec => []Inv
BY InitInv, InvKept, PTL DEF Spec

(* Every tab, its runs, tokens and socket are in states the program has.   *)
THEOREM TypeCorrect == Spec => []TypeOK
BY InvariantHolds, InvHolds, PTL

(* Whatever answers come late, and however runs are cancelled and started  *)
(* again, no id of an earlier login or session is taken: one run at a time *)
(* may set the id, and socket and storage agree with it.                   *)
THEOREM LateAnswersDropped == Spec => []LateAnswersIgnored
BY InvariantHolds, InvHolds, PTL

================================================================================
