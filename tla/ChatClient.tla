------------------------------- MODULE ChatClient -------------------------------
(***************************************************************************)
(* The chat runtime of the browser: the tabs of one account.               *)
(*                                                                         *)
(* A tab keeps a session id in its sessionStorage and in React state.  An  *)
(* effect starts a bootstrap run while the tab may chat and holds no id:   *)
(* it asks the other tabs whether they hold the stored id, and asks the    *)
(* server for a session if there is none to take.  Runs are async          *)
(* functions: an effect that runs again only marks the ones before as      *)
(* cancelled.  Effects run some time after the render that changed what    *)
(* they depend on, and answers and frames may come in between.             *)
(***************************************************************************)
EXTENDS Naturals, FiniteSets

CONSTANTS
  Tab,          \* tabs of the browser, open or not
  FirstTabs,    \* the tabs that are open at first
  MaxSessions,  \* sessions the server gives out (bounds the model)
  MaxEvents     \* clicks, sign-ins, faults and reloads (bounds the model)

ASSUME TabAssumption == FirstTabs \subseteq Tab
ASSUME BoundAssumption == MaxSessions \in Nat /\ MaxEvents \in Nat

VARIABLES
  open,         \* tabs that show a page
  enabled,      \* signed in, verified and not restricted, as rendered
  stored,       \* the id in sessionStorage
  held,         \* the id in React state
  status,       \* of the bootstrap
  seen,         \* enabled (wasEnabledRef) and held when the effects last ran
  dirty,        \* rendered since then: onError is another function
  runs,         \* bootstrap runs under way
  tokens,       \* socket URLs waiting for the access token
  url,          \* session of the socket URL
  socket,       \* the socket react-use-websocket keeps
  hasConnected, \* hasConnectedRef
  store,        \* me, and whether a stranger and messages are shown
  active,       \* server: the account's active session
  given,        \* server: sessions given out
  events        \* events so far

page == <<open, enabled>>
identity == <<stored, held, status>>
effects == <<seen, dirty>>
transport == <<tokens, url, socket, hasConnected>>
server == <<active, given>>
vars == <<page, identity, effects, runs, transport, store, server, events>>

--------------------------------------------------------------------------------
NoSession == 0
Session == 1..MaxSessions
SessionOrNone == {NoSession} \cup Session

(* A run waits for the other tabs ("claim"; "deaf" once its resolver is    *)
(* gone; "owned" when another tab has replied), or for the server.         *)
Claiming == {"claim", "deaf", "owned"}
Run(at, id) == [at |-> at, id |-> id, live |-> TRUE]
Cancelled(R) == {[r EXCEPT !.live = FALSE] : r \in R}
Deaf(R) == {[r EXCEPT !.at = IF @ \in Claiming THEN "deaf" ELSE @] : r \in R}

NoSocket == [id |-> NoSession, state |-> "closed"]
NoChat == [me |-> NoSession, stranger |-> FALSE, messages |-> FALSE]

(* getChatRuntimeAvailability and transportStatus.                         *)
Availability(t) ==
  CASE ~enabled[t] -> "disabled"
    [] enabled[t] /\ status[t] = "error" -> "error"
    [] enabled[t] /\ status[t] = "bootstrapping" -> "bootstrapping"
    [] OTHER -> "ready"
TransportStatus(t) ==
  CASE held[t] = NoSession -> "idle"
    [] held[t] # NoSession /\ url[t] = NoSession -> "connecting"
    [] held[t] # NoSession /\ url[t] # NoSession /\ socket[t].state = "open" -> "connected"
    [] OTHER -> IF hasConnected[t] THEN "reconnecting" ELSE "connecting"

Init ==
  /\ open = FirstTabs
  /\ enabled = [t \in Tab |-> FALSE]
  /\ stored = [t \in Tab |-> NoSession]
  /\ held = [t \in Tab |-> NoSession]
  /\ status = [t \in Tab |-> "bootstrapping"]
  /\ seen = [t \in Tab |-> [enabled |-> FALSE, held |-> NoSession]]
  /\ dirty = [t \in Tab |-> FALSE]
  /\ runs = [t \in Tab |-> {}]
  /\ tokens = [t \in Tab |-> {}]
  /\ url = [t \in Tab |-> NoSession]
  /\ socket = [t \in Tab |-> NoSocket]
  /\ hasConnected = [t \in Tab |-> FALSE]
  /\ store = [t \in Tab |-> NoChat]
  /\ active = NoSession
  /\ given = 0
  /\ events = 0

Event == events < MaxEvents /\ events' = events + 1

(* A render of ChatProvider passes another onError, which runs the         *)
(* bootstrap effect again; it returns at once unless an id is missing.     *)
Rendered(t) ==
  dirty' = [dirty EXCEPT ![t] = @ \/ (enabled[t] /\ held[t] = NoSession)]

--------------------------------------------------------------------------------
(* The effects of one flush, in the order of the hooks.  The first drops   *)
(* the id of a tab that may not chat any more; the third cancels the runs  *)
(* and starts one; the fourth tears down what a tab that was enabled       *)
(* leaves behind; the last asks for the token of another socket URL.       *)
MissingId(t) == enabled[t] /\ held[t] = NoSession
TurnedOff(t) == ~enabled[t] /\ seen[t].enabled
(* Slip: the other tabs are asked although no id is stored.                *)
NewRunUnchecked(t) ==
  IF ~MissingId(t) THEN {} ELSE {Run("claim", stored[t])}
NewRun(t) ==
  IF ~MissingId(t) THEN {}
  ELSE {IF stored[t] # NoSession THEN Run("claim", stored[t]) ELSE Run("create", NoSession)}
UrlEffect(t) ==
  IF held[t] = seen[t].held THEN UNCHANGED <<tokens, url>>
  ELSE /\ tokens' = [tokens EXCEPT ![t] = Cancelled(@) \cup
                       IF held[t] = NoSession THEN {}
                       ELSE {[id |-> held[t], live |-> TRUE]}]
       /\ url' = [url EXCEPT ![t] = NoSession]
Effects(t) ==
  /\ t \in open
  /\ dirty[t] \/ seen[t] # [enabled |-> enabled[t], held |-> held[t]]
  /\ seen' = [seen EXCEPT ![t] = [enabled |-> enabled[t], held |-> held[t]]]
  /\ dirty' = [dirty EXCEPT ![t] = MissingId(t) /\ status[t] # "bootstrapping"]
  /\ runs' = [runs EXCEPT ![t] = Cancelled(Deaf(@)) \cup NewRun(t)]
  /\ held' = [held EXCEPT ![t] = IF TurnedOff(t) THEN NoSession ELSE @]
  /\ status' = [status EXCEPT ![t] = IF TurnedOff(t) \/ MissingId(t) THEN "bootstrapping" ELSE @]
  /\ stored' = [stored EXCEPT ![t] = IF TurnedOff(t) THEN NoSession ELSE @]
  /\ store' = [store EXCEPT ![t] = IF TurnedOff(t) THEN NoChat ELSE @]
  /\ UrlEffect(t)
  /\ hasConnected' = [hasConnected EXCEPT ![t] = @ /\ held[t] # NoSession]
  /\ UNCHANGED <<open, enabled, socket, server, events>>

--------------------------------------------------------------------------------
(* A bootstrap run of tab t.                                               *)
Replace(t, r, S) == runs' = [runs EXCEPT ![t] = (@ \ {r}) \cup S]

(* Another tab holds the id asked for, and its listener says so.           *)
Reply(t, r) ==
  /\ r.at = "claim"
  /\ \E u \in open \ {t} : seen[u].held = r.id
  /\ Replace(t, r, {[r EXCEPT !.at = "owned"]})
  /\ UNCHANGED <<page, identity, effects, transport, store, server, events>>

(* The reply arrives: the stored id is given up.                           *)
ClaimOwned(t, r) ==
  /\ r.at = "owned"
  /\ stored' = [stored EXCEPT ![t] = IF r.live THEN NoSession ELSE @]
  /\ Replace(t, r, IF r.live THEN {Run("create", NoSession)} ELSE {})
  /\ UNCHANGED <<page, held, status, effects, transport, store, server, events>>

(* No reply for 160 ms, or no channel to ask on: the stored id is taken.   *)
ClaimTimeout(t, r) ==
  /\ r.at \in Claiming
  /\ held' = [held EXCEPT ![t] = IF r.live THEN r.id ELSE @]
  /\ status' = [status EXCEPT ![t] = IF r.live THEN "ready" ELSE @]
  /\ Replace(t, r, {})
  /\ UNCHANGED <<page, stored, effects, transport, store, server, events>>

(* POST /api/session: the account's active session, or a new one.          *)
ServeCreate(t, r) ==
  /\ r.at = "create"
  /\ IF active # NoSession THEN UNCHANGED server
     ELSE given < MaxSessions /\ given' = given + 1 /\ active' = given'
  /\ Replace(t, r, {[r EXCEPT !.at = "created", !.id = active']})
  /\ UNCHANGED <<page, identity, effects, transport, store, events>>
LoseCreate(t, r) ==
  /\ r.at = "create"
  /\ Event
  /\ Replace(t, r, {[r EXCEPT !.at = "failed"]})
  /\ UNCHANGED <<page, identity, effects, transport, store, server>>

(* Slip: the answer is taken by a run that was cancelled meanwhile.        *)
CreatedAnyhow(t, r) ==
  /\ r.at = "created"
  /\ stored' = [stored EXCEPT ![t] = r.id]
  /\ held' = [held EXCEPT ![t] = r.id]
  /\ status' = [status EXCEPT ![t] = "ready"]
  /\ Replace(t, r, {})
  /\ UNCHANGED <<page, effects, transport, store, server, events>>
(* The answer is stored and held, unless the run was cancelled.            *)
Created(t, r) ==
  /\ r.at = "created"
  /\ stored' = [stored EXCEPT ![t] = IF r.live THEN r.id ELSE @]
  /\ held' = [held EXCEPT ![t] = IF r.live THEN r.id ELSE @]
  /\ status' = [status EXCEPT ![t] = IF r.live THEN "ready" ELSE @]
  /\ Replace(t, r, {})
  /\ UNCHANGED <<page, effects, transport, store, server, events>>

(* Slip: with onError kept between renders, the error starts no other run. *)
CreateFailedQuietly(t, r) ==
  /\ r.at = "failed"
  /\ status' = [status EXCEPT ![t] = IF r.live THEN "error" ELSE @]
  /\ Replace(t, r, {})
  /\ UNCHANGED <<page, stored, held, effects, transport, store, server, events>>
(* The error is rendered, which runs the effect again at once.             *)
CreateFailed(t, r) ==
  /\ r.at = "failed"
  /\ status' = [status EXCEPT ![t] = IF r.live THEN "error" ELSE @]
  /\ dirty' = [dirty EXCEPT ![t] = @ \/ r.live]
  /\ Replace(t, r, {})
  /\ UNCHANGED <<page, stored, held, seen, transport, store, server, events>>

RunStep(t) ==
  \E r \in runs[t] :
    \/ ClaimOwned(t, r)
    \/ ClaimTimeout(t, r)
    \/ ServeCreate(t, r)
    \/ Created(t, r)
    \/ CreateFailed(t, r)

(* The retry button of the error notice.                                   *)
Retry(t) ==
  /\ t \in open /\ Availability(t) = "error"
  /\ Event
  /\ runs' = [runs EXCEPT ![t] = Deaf(@)]
  /\ status' = [status EXCEPT ![t] = "bootstrapping"]
  /\ dirty' = [dirty EXCEPT ![t] = TRUE]
  /\ UNCHANGED <<page, stored, held, seen, transport, store, server>>

--------------------------------------------------------------------------------
(* The access token is there, or has timed out.                            *)
TokenResolved(t, k) ==
  /\ url' = [url EXCEPT ![t] = IF k.live THEN k.id ELSE @]
  /\ tokens' = [tokens EXCEPT ![t] = @ \ {k}]
  /\ UNCHANGED <<page, identity, effects, runs, socket, hasConnected, store, server, events>>

(* react-use-websocket follows the URL: another URL closes the socket and  *)
(* opens the next one.                                                     *)
FollowUrl(t) ==
  /\ t \in open /\ socket[t].id # url[t]
  /\ socket' = [socket EXCEPT ![t] =
       [id |-> url[t], state |-> IF url[t] = NoSession THEN "closed" ELSE "connecting"]]
  /\ UNCHANGED <<page, identity, effects, runs, tokens, url, hasConnected, store, server, events>>

(* The server accepts the socket of the active session only.               *)
SocketOpened(t) ==
  /\ socket[t].state = "connecting" /\ socket[t].id = active
  /\ socket' = [socket EXCEPT ![t].state = "open"]
  /\ hasConnected' = [hasConnected EXCEPT ![t] = TRUE]
  /\ UNCHANGED <<page, identity, effects, runs, tokens, url, store, server, events>>

(* The socket closes.  It is opened again, unless the server said that     *)
(* nobody is signed in or the account is restricted (shouldReconnect).     *)
SocketClosed(t, final) ==
  /\ socket[t].state \in {"connecting", "open"}
  /\ Event
  /\ socket' = [socket EXCEPT ![t].state = IF final THEN "closed" ELSE "connecting"]
  /\ UNCHANGED <<page, identity, effects, runs, tokens, url, hasConnected, store, server>>

(* A frame of the server; an error makes a toast, the others go to the     *)
(* store.                                                                  *)
Frame == {"idle", "searching", "match", "message", "gone", "error"}
Shown(s, id, frame) ==
  CASE frame = "idle" -> [NoChat EXCEPT !.me = id]
    [] frame = "searching" -> [s EXCEPT !.me = id]
    [] frame = "match" -> [s EXCEPT !.stranger = TRUE]
    [] frame = "message" -> [s EXCEPT !.messages = TRUE]
    [] frame = "gone" -> [s EXCEPT !.stranger = FALSE, !.messages = TRUE]
    [] OTHER -> s
Receive(t, frame) ==
  /\ socket[t].state = "open"
  /\ Event
  /\ store' = [store EXCEPT ![t] = Shown(@, socket[t].id, frame)]
  /\ Rendered(t)
  /\ UNCHANGED <<page, identity, seen, runs, transport, server>>

(* connect: whatever keeps it from queueing is only told in a toast.       *)
Ready(t) ==
  /\ Availability(t) # "error" /\ Availability(t) # "bootstrapping"
  /\ TransportStatus(t) \notin {"connecting", "reconnecting"}
  /\ store[t].me # NoSession
Connect(t) ==
  /\ t \in open
  /\ Event
  /\ store' = [store EXCEPT ![t] =
       IF Ready(t) THEN [@ EXCEPT !.stranger = FALSE, !.messages = FALSE] ELSE @]
  /\ Rendered(t)
  /\ UNCHANGED <<page, identity, seen, runs, transport, server>>

(* sendMessage: sent and shown at once, or neither.                        *)
SendMessage(t) ==
  /\ t \in open /\ store[t].stranger /\ TransportStatus(t) = "connected"
  /\ Event
  /\ store' = [store EXCEPT ![t].messages = TRUE]
  /\ UNCHANGED <<page, identity, effects, runs, transport, server>>

--------------------------------------------------------------------------------
(* An answer about the login lets the tab chat, or not any more.           *)
Authenticated(t, on) ==
  /\ t \in open /\ enabled[t] # on
  /\ Event
  /\ enabled' = [enabled EXCEPT ![t] = on]
  /\ UNCHANGED <<open, identity, effects, runs, transport, store, server>>

(* logout, answered: it clears what it shares with the chat itself.        *)
Logout(t) ==
  /\ t \in open /\ enabled[t]
  /\ Event
  /\ enabled' = [enabled EXCEPT ![t] = FALSE]
  /\ stored' = [stored EXCEPT ![t] = NoSession]
  /\ store' = [store EXCEPT ![t] = NoChat]
  /\ UNCHANGED <<open, held, status, effects, runs, transport, server>>

(* A page that is mounted anew remembers what is in sessionStorage and, if *)
(* only the route changed, what is in the store; runs under way are        *)
(* cancelled.  A page that goes sends a beacon and clears nothing; what    *)
(* the server does with it leaves the session active.                      *)
Mount(t, shown, R, K) ==
  /\ enabled' = [enabled EXCEPT ![t] = FALSE]
  /\ held' = [held EXCEPT ![t] = NoSession]
  /\ status' = [status EXCEPT ![t] = "bootstrapping"]
  /\ seen' = [seen EXCEPT ![t] = [enabled |-> FALSE, held |-> NoSession]]
  /\ dirty' = [dirty EXCEPT ![t] = FALSE]
  /\ runs' = [runs EXCEPT ![t] = R]
  /\ tokens' = [tokens EXCEPT ![t] = K]
  /\ url' = [url EXCEPT ![t] = NoSession]
  /\ socket' = [socket EXCEPT ![t] = NoSocket]
  /\ hasConnected' = [hasConnected EXCEPT ![t] = FALSE]
  /\ store' = [store EXCEPT ![t] = shown]
Reload(t) ==
  /\ t \in open
  /\ Event
  /\ Mount(t, NoChat, {}, {})
  /\ UNCHANGED <<open, stored, server>>
ChangeRoute(t) ==
  /\ t \in open
  /\ Event
  /\ Mount(t, store[t], Cancelled(Deaf(runs[t])), Cancelled(tokens[t]))
  /\ UNCHANGED <<open, stored, server>>
Close(t) ==
  /\ t \in open
  /\ Event
  /\ Mount(t, NoChat, {}, {})
  /\ open' = open \ {t}
  /\ stored' = [stored EXCEPT ![t] = NoSession]
  /\ UNCHANGED server

(* A tab is duplicated, with its sessionStorage, or opened empty.          *)
Open(t) ==
  /\ t \in Tab \ open
  /\ Event
  /\ open' = open \cup {t}
  /\ \E id \in {NoSession} \cup {stored[u] : u \in open} : stored' = [stored EXCEPT ![t] = id]
  /\ UNCHANGED <<enabled, held, status, effects, runs, transport, store, server>>

(* The server closes the active session: expiry, or a restriction.  The    *)
(* bound leaves it one to give out.                                        *)
EndSession ==
  /\ active # NoSession /\ given < MaxSessions
  /\ Event
  /\ active' = NoSession
  /\ UNCHANGED <<page, identity, effects, runs, transport, store, given>>

Step(t) ==
  \/ Effects(t)
  \/ RunStep(t)
  \/ \E k \in tokens[t] : TokenResolved(t, k)
  \/ FollowUrl(t)
  \/ SocketOpened(t)

Happens(t) ==
  \/ \E r \in runs[t] : Reply(t, r) \/ LoseCreate(t, r)
  \/ \E final \in BOOLEAN : SocketClosed(t, final)
  \/ \E frame \in Frame : Receive(t, frame)
  \/ \E on \in BOOLEAN : Authenticated(t, on)
  \/ Logout(t)
  \/ Retry(t)
  \/ Connect(t)
  \/ SendMessage(t)
  \/ Reload(t)
  \/ ChangeRoute(t)
  \/ Close(t)
  \/ Open(t)

Next == EndSession \/ \E t \in Tab : Step(t) \/ Happens(t)

(* React runs effects in the end, timers fire, and the server answers.     *)
Fairness == \A t \in Tab : WF_vars(Effects(t)) /\ WF_vars(RunStep(t))

Spec == Init /\ [][Next]_vars
LiveSpec == Spec /\ Fairness

--------------------------------------------------------------------------------
RunRecord ==
  [at : Claiming \cup {"create", "created", "failed"}, id : SessionOrNone, live : BOOLEAN]

(* Every tab, and what it waits for, is in a state the program has: a run  *)
(* that claims or has created knows an id, and at most one run is live.    *)
TypeOK ==
  /\ open \subseteq Tab
  /\ enabled \in [Tab -> BOOLEAN]
  /\ stored \in [Tab -> SessionOrNone] /\ held \in [Tab -> SessionOrNone]
  /\ status \in [Tab -> {"bootstrapping", "ready", "error"}]
  /\ seen \in [Tab -> [enabled : BOOLEAN, held : SessionOrNone]]
  /\ dirty \in [Tab -> BOOLEAN]
  /\ runs \in [Tab -> SUBSET RunRecord]
  /\ \A t \in Tab : \A r \in runs[t] : r.at \in Claiming \cup {"created"} => r.id # NoSession
  /\ tokens \in [Tab -> SUBSET [id : Session, live : BOOLEAN]]
  /\ url \in [Tab -> SessionOrNone]
  /\ socket \in [Tab -> [id : SessionOrNone, state : {"closed", "connecting", "open"}]]
  /\ hasConnected \in [Tab -> BOOLEAN]
  /\ store \in [Tab -> [me : SessionOrNone, stranger : BOOLEAN, messages : BOOLEAN]]
  /\ active \in SessionOrNone /\ given \in 0..MaxSessions
  /\ events \in 0..MaxEvents

(* Nothing an earlier login, session or page has asked for takes effect    *)
(* later: a tab that was torn down holds no id and nobody works on one,    *)
(* the id it holds is the one it would come back with, one run at a time   *)
(* may set it, and the socket is for that id or for none.                  *)
LateAnswersIgnored ==
  \A t \in Tab :
    /\ ~seen[t].enabled /\ ~enabled[t] => held[t] = NoSession
    /\ held[t] # NoSession /\ stored[t] # NoSession => stored[t] = held[t]
    /\ \A r, q \in {x \in runs[t] : x.live} : r = q /\ seen[t].enabled /\ held[t] = NoSession
    /\ url[t] # NoSession => url[t] = seen[t].held

(* A tab that may chat gets a session id in the end, although renders and  *)
(* errors throw its runs away, if the server answers.                      *)
GetsSession ==
  \A t \in Tab :
    t \in open /\ enabled[t] /\ held[t] = NoSession ~>
      t \notin open \/ ~enabled[t] \/ held[t] # NoSession

================================================================================
