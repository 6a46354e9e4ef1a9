------------------------------ MODULE ChatEndpoint ------------------------------
(***************************************************************************)
(* The WebSocket endpoint on top of the chat runtime: one handler per      *)
(* socket, from its acceptance to mark_disconnected, and what the client   *)
(* at the other end shows.  A handler calls the runtime several times; it  *)
(* may lose the processor whenever it waits for the lock or for a send.    *)
(* After a locked call it runs on until its first message is written, so   *)
(* the call and that message are one step.                                 *)
(*                                                                         *)
(* A socket is named by the tab that opens it.  A tab has one request on   *)
(* its way to the server at most, and what the server sends arrives at     *)
(* once: delays of answers are delays of the tab's next request.           *)
(***************************************************************************)
EXTENDS ChatRuntime, FiniteSets

CONSTANTS
  Tab,       \* browser tabs
  SessionOf, \* the session whose id a tab holds; tabs of one account share it
  BlankSent  \* users send what the client's trim() leaves and strip() does not

ASSUME TabAssumption == IsFiniteSet(Tab) /\ SessionOf \in [Tab -> Session]
ASSUME BlankAssumption == BlankSent \in BOOLEAN

VARIABLES
  at,      \* what the tab's handler does next
  asked,   \* the request of the tab that is on its way
  typing,  \* tabs that have yet to report that their user stopped typing
  open,    \* tabs whose sockets are in the hub
  shown,   \* me.state, "unknown" without me, and stranger in the tab's store
  outbox,  \* messages a handler has still to send: <<session, message>>
  farewell \* sessions the expiry loop has still to tell

endpoint == <<at, asked, typing, open, shown, outbox, farewell>>
evars == <<vars, endpoint>>

--------------------------------------------------------------------------------
(* Messages to a tab, and what it shows once it has received one.          *)

Blank == [state |-> "unknown", stranger |-> NoSession]

UserInfo(st) == [type |-> "user_info", state |-> st, stranger |-> NoSession]
MatchWith(p) == [type |-> "match", state |-> "connected", stranger |-> p]
Bye == [type |-> "disconnect", state |-> "idle", stranger |-> NoSession]

(* USER_INFO sets me, and clears the stranger if the session is idle;      *)
(* MATCH sets the stranger; DISCONNECT clears it and leaves me alone.      *)
After(view, m) ==
  [state |-> IF m.type = "user_info" THEN m.state ELSE view.state,
   stranger |-> IF m.type = "match" THEN m.stranger
                ELSE IF m.state = "idle" THEN NoSession
                ELSE view.stranger]

TabsOf(s) == {t \in open : SessionOf[t] = s}

(* _broadcast_to_session, to all tabs at once. *)
Broadcast(s, m) ==
  shown' = [t \in Tab |-> IF t \in TabsOf(s) THEN After(shown[t], m) ELSE shown[t]]

(* The composer is enabled. *)
Composer(t) == shown[t].state = "connected" /\ shown[t].stranger # NoSession

(* The tab's end of the socket is open. *)
Connected(t) == at[t] \notin {"closed", "leaving", "dead"}

Moves(t, from, to) == at[t] = from /\ at' = [at EXCEPT ![t] = to]

Answered(t) == asked' = [asked EXCEPT ![t] = "nothing"]

--------------------------------------------------------------------------------
EInit ==
  /\ Init
  /\ at = [t \in Tab |-> "closed"]
  /\ asked = [t \in Tab |-> "nothing"]
  /\ typing = {}
  /\ open = {}
  /\ shown = [t \in Tab |-> Blank]
  /\ outbox = [t \in Tab |-> << >>]
  /\ farewell = {}

(* The handler of a new socket: the row is active, the socket is accepted. *)
(* A page that has been loaded afresh knows nothing; a page that has only  *)
(* lost its socket shows what it showed.                                   *)
Accept(t) ==
  /\ Moves(t, "closed", "accepted")
  /\ status[SessionOf[t]] = "active"
  /\ \/ shown' = [shown EXCEPT ![t] = Blank] /\ typing' = typing \ {t}
     \/ UNCHANGED <<shown, typing>>
  /\ UNCHANGED <<vars, asked, open, outbox, farewell>>

Connect(t) ==
  /\ Moves(t, "accepted", "loading")
  /\ Register(SessionOf[t])
  /\ open' = open \cup {t}
  /\ UNCHANGED <<asked, typing, shown, outbox, farewell>>

FetchAfresh(s) ==
  /\ lock = "free"
  /\ state' = [state EXCEPT ![s] = "idle"]
  /\ UNCHANGED <<postgres, partner, deadline, queue, online, history, hub,
                 dropping, served, method>>

(* get_or_create_session, bootstrap_connection's second call. *)
Fetch(s) ==
  /\ lock = "free"
  /\ IF Stored(s) THEN UNCHANGED vars ELSE LoadOrCreate(s)

(* It, and USER_INFO to this tab.  A session that has a partner looks it   *)
(* up next.                                                                *)
Load(t) ==
  LET s == SessionOf[t]
  IN /\ Moves(t, "loading",
              IF partner[s] = NoSession THEN "receiving" ELSE "looking")
     /\ Fetch(s)
     /\ shown' = [shown EXCEPT ![t] = After(@, UserInfo(state'[s]))]
     /\ UNCHANGED <<asked, typing, open, outbox, farewell>>

(* lookup_partner, and MATCH to this tab if there is still a partner.      *)
Look(t) ==
  LET p == partner[SessionOf[t]]
  IN /\ lock = "free"
     /\ Moves(t, "looking", "receiving")
     /\ shown' = IF p = NoSession THEN shown
                 ELSE [shown EXCEPT ![t] = After(@, MatchWith(p))]
     /\ UNCHANGED <<vars, asked, typing, open, outbox, farewell>>

(* The client: a click on the button that asks for a partner, which is     *)
(* hidden while the tab shows a search.                                    *)
Click(t) ==
  /\ Connected(t)
  /\ asked[t] = "nothing"
  /\ shown[t].state \notin {"unknown", "searching"}
  /\ asked' = [asked EXCEPT ![t] = "queue"]
  /\ shown' = [shown EXCEPT ![t].stranger = NoSession]
  /\ UNCHANGED <<vars, at, typing, open, outbox, farewell>>

(* A message, or the first key of one.  The report that the user stopped   *)
(* typing follows: at once, or when a timer fires ...                      *)
Write(t) ==
  /\ Connected(t)
  /\ asked[t] = "nothing"
  /\ Composer(t)
  /\ \/ asked' = [asked EXCEPT ![t] = "message"]
     \/ t \notin typing /\ asked' = [asked EXCEPT ![t] = "typing"]
  /\ typing' = typing \cup {t}
  /\ UNCHANGED <<vars, at, open, shown, outbox, farewell>>

(* ... though the composer may be disabled by then; it is not sent if the  *)
(* tab shows no stranger.                                                  *)
StopTyping(t) ==
  /\ Connected(t)
  /\ asked[t] = "nothing"
  /\ t \in typing
  /\ typing' = typing \ {t}
  /\ asked' = IF shown[t].stranger = NoSession THEN asked
              ELSE [asked EXCEPT ![t] = "typing"]
  /\ UNCHANGED <<vars, at, open, shown, outbox, farewell>>

(* _handle_queue: end the current match and tell the partner ...           *)
EndMatch(t) ==
  LET s == SessionOf[t]
      p == partner[s]
      told == p # NoSession /\ Stored(p) /\ partner[p] \in {s, NoSession}
  IN /\ lock = "free"
     /\ asked[t] = "queue"
     /\ Moves(t, "receiving", "queueing")
     /\ Answered(t)
     /\ IF Stored(s) THEN Disconnect(s) ELSE UNCHANGED vars
     /\ IF told THEN Broadcast(p, Bye) ELSE UNCHANGED shown
     /\ UNCHANGED <<typing, open, outbox, farewell>>

(* ... enter the queue, unless a partner has turned up meanwhile, and tell *)
(* every tab of the session ...                                            *)
Enqueue(t) ==
  LET s == SessionOf[t]
  IN /\ lock = "free"
     /\ status[s] = "active"
     /\ Moves(t, "queueing", "matching")
     /\ IF partner[s] = NoSession THEN EnterQueue(s) ELSE UNCHANGED vars
     /\ Broadcast(s, UserInfo(state'[s]))
     /\ UNCHANGED <<asked, typing, open, outbox, farewell>>

(* (the permission gate raises, and the handler dies without a word) ...   *)
Refused(t) ==
  /\ lock = "free"
  /\ status[SessionOf[t]] # "active"
  /\ Moves(t, "queueing", "dead")
  /\ Answered(t)
  /\ UNCHANGED <<vars, typing, open, shown, outbox, farewell>>

(* ... search ...                                                          *)
Search(t) ==
  /\ Moves(t, "matching", "searching")
  /\ BeginMatch
  /\ UNCHANGED <<asked, typing, open, shown, outbox, farewell>>

SearchOn(t) ==
  /\ at[t] = "searching"
  /\ SkipCandidate \/ TakeLeft \/ DeferCandidate
  /\ UNCHANGED endpoint

SearchInVain(t) ==
  /\ Moves(t, "searching", "receiving")
  /\ GiveUp
  /\ UNCHANGED <<asked, typing, open, shown, outbox, farewell>>

(* ... and tell both sides of the match that was found, which need not be  *)
(* this handler's session.                                                 *)
SearchWithSuccess(t) ==
  LET right == Head(queue)
  IN /\ Moves(t, "searching", "announcing")
     /\ Pair
     /\ Broadcast(left, UserInfo("connected"))
     /\ outbox' = [outbox EXCEPT ![t] =
                     << <<left, MatchWith(right)>>,
                        <<right, UserInfo("connected")>>,
                        <<right, MatchWith(left)>> >>]
     /\ UNCHANGED <<asked, typing, open, farewell>>

Announce(t) ==
  LET next == Head(outbox[t])
  IN /\ Moves(t, "announcing",
              IF Len(outbox[t]) = 1 THEN "receiving" ELSE "announcing")
     /\ Broadcast(next[1], next[2])
     /\ outbox' = [outbox EXCEPT ![t] = Tail(@)]
     /\ UNCHANGED <<vars, asked, typing, open, farewell>>

(* _handle_message: delivered to the partner ...                           *)
Deliver(t) ==
  /\ asked[t] = "message"
  /\ Answered(t)
  /\ at[t] = "receiving"
  /\ \E id \in MessageId \cup {NoId} : RecordMessage(SessionOf[t], id)
  /\ UNCHANGED <<at, typing, open, shown, outbox, farewell>>

(* The partner has a record, but no socket: it is waited for while it has  *)
(* a reconnect deadline.                                                   *)
Away(p) == p # NoSession /\ Stored(p) /\ hub[p] = 0

(* ... or held back, as the partner may return ...                         *)
HoldBack(t) ==
  LET p == partner[SessionOf[t]]
  IN /\ lock = "free"
     /\ at[t] = "receiving"
     /\ asked[t] = "message"
     /\ Away(p) /\ deadline[p] # "none"
     /\ Answered(t)
     /\ UNCHANGED <<vars, at, typing, open, shown, outbox, farewell>>

Lost(p) == p # NoSession => ~Stored(p)

(* ... or the partner counts as gone.                                      *)
Undeliverable(t) ==
  LET p == partner[SessionOf[t]]
  IN /\ lock = "free"
     /\ asked[t] = "message"
     /\ Lost(p) \/ (Away(p) /\ deadline[p] = "none")
     /\ Moves(t, "receiving", "parting")
     /\ Answered(t)
     /\ UNCHANGED <<vars, typing, open, shown, outbox, farewell>>

(* A message that strip() leaves nothing of is answered in the same way,   *)
(* whatever the partner, before the lock is asked for.                     *)
BlankMessage(t) ==
  /\ BlankSent
  /\ asked[t] = "message"
  /\ Moves(t, "receiving", "parting")
  /\ Answered(t)
  /\ UNCHANGED <<vars, typing, open, shown, outbox, farewell>>

(* _handle_typing: passed on; or the partner is gone; or it has no socket, *)
(* and is looked up again.                                                 *)
Type(t) ==
  LET p == partner[SessionOf[t]]
  IN /\ lock = "free"
     /\ asked[t] = "typing"
     /\ Moves(t, "receiving",
              IF Lost(p) THEN "parting"
              ELSE IF Away(p) THEN "checking" ELSE "receiving")
     /\ Answered(t)
     /\ UNCHANGED <<vars, typing, open, shown, outbox, farewell>>

Check(t) ==
  LET p == partner[SessionOf[t]]
  IN /\ lock = "free"
     /\ Moves(t, "checking",
              IF Lost(p) \/ deadline[p] = "none" THEN "parting" ELSE "receiving")
     /\ UNCHANGED <<vars, asked, typing, open, shown, outbox, farewell>>

(* _disconnect_current_chat: only the session's own tabs are told. *)
Part(t) ==
  LET s == SessionOf[t]
  IN /\ lock = "free"
     /\ Moves(t, "parting", "receiving")
     /\ IF Stored(s) THEN Disconnect(s) ELSE UNCHANGED vars
     /\ Broadcast(s, Bye)
     /\ UNCHANGED <<asked, typing, open, outbox, farewell>>

RemainingBefore(s) == hub[s]

(* What unregister_ws returns: the sockets that are left. *)
Remaining(s) == hub[s] - 1

(* unregister_ws, by the handler that reads the end of its socket or by    *)
(* the presence broadcast that cannot send to it.  The last tab's goes on  *)
(* to mark_disconnected.                                                   *)
Unregister(t, from) ==
  LET s == SessionOf[t]
  IN /\ Moves(t, from, IF Remaining(s) = 0 THEN "leaving" ELSE "closed")
     /\ DropSocket(s)
     /\ open' = open \ {t}
     /\ Answered(t)
     /\ UNCHANGED <<typing, shown, outbox, farewell>>

Close(t) == Unregister(t, "receiving")

(* A socket that ends before its handler receives: the exception passes    *)
(* by the handler's except clause, and the socket stays in the hub.        *)
Vanish(t) ==
  /\ at[t] \in {"loading", "looking"}
  /\ at' = [at EXCEPT ![t] = "dead"]
  /\ Answered(t)
  /\ UNCHANGED <<vars, typing, open, shown, outbox, farewell>>

Sweep(t) == Unregister(t, "dead")

Leave(t) ==
  LET s == SessionOf[t]
  IN /\ Moves(t, "leaving", "closed")
     /\ \/ MarkDisconnected(s)
        \/ StillConnected(s)
        \/ lock = "free" /\ hub[s] > 0 /\ s \notin dropping /\ UNCHANGED vars
     /\ UNCHANGED <<asked, typing, open, shown, outbox, farewell>>

ToldAnyone(p) == {p}

(* Whom expire_stale_sessions names: partners, never None. *)
Told(p) == {p} \ {NoSession}

(* The expiry loop, which tells everyone before it calls again ...         *)
CallExpiry ==
  /\ farewell = {}
  /\ BeginExpiry
  /\ UNCHANGED endpoint

ExpireNext ==
  \E s \in Session :
    /\ ExpireOne(s)
    /\ farewell' = farewell \cup Told(partner[s])
    /\ UNCHANGED <<at, asked, typing, open, shown, outbox>>

(* ... once the lock is free, one tab of each partner.                     *)
TellExpired(p) ==
  /\ lock # "expire"
  /\ p \in farewell
  /\ farewell' = farewell \ {p}
  /\ \/ TabsOf(p) = {} /\ UNCHANGED shown
     \/ \E t \in TabsOf(p) : shown' = [shown EXCEPT ![t] = After(@, Bye)]
  /\ UNCHANGED <<vars, at, asked, typing, open, outbox>>

Environment ==
  \E s \in Session : (CreateSession(s) \/ Lapse(s)) /\ UNCHANGED endpoint

(* What a handler does ... *)
Turn(t) ==
  \/ Connect(t) \/ Load(t) \/ Look(t)
  \/ EndMatch(t) \/ Enqueue(t) \/ Refused(t) \/ Search(t) \/ SearchOn(t)
  \/ SearchInVain(t) \/ SearchWithSuccess(t) \/ Announce(t)
  \/ Deliver(t) \/ HoldBack(t) \/ Undeliverable(t)
  \/ BlankMessage(t) \/ Type(t) \/ Check(t) \/ Part(t) \/ Leave(t)

(* ... and what the network does to it. *)
Network(t) == Accept(t) \/ Close(t) \/ Vanish(t) \/ Sweep(t)

Client(t) == Click(t) \/ Write(t) \/ StopTyping(t)

ENext ==
  \/ \E t \in Tab : Turn(t) \/ Network(t) \/ Client(t)
  \/ CallExpiry
  \/ ExpireNext
  \/ \E p \in Session : TellExpired(p)
  \/ Environment

ESpec == EInit /\ [][ENext]_evars

--------------------------------------------------------------------------------
(* Properties *)

(* Type invariant. *)
ETypeOK ==
  /\ TypeOK
  /\ at \in [Tab -> {"closed", "accepted", "loading", "looking", "receiving",
                     "queueing", "matching", "searching", "announcing",
                     "checking", "parting", "leaving", "dead"}]
  /\ asked \in [Tab -> {"nothing", "queue", "message", "typing"}]
  /\ typing \in SUBSET Tab
  /\ open \in SUBSET Tab
  /\ shown \in [Tab -> [state : {"unknown", "idle", "searching", "connected"},
                        stranger : Session \cup {NoSession}]]
  /\ outbox \in [Tab -> Seq(Session \X
       [type : {"user_info", "match"}, state : {"connected"},
        stranger : Session \cup {NoSession}])]
  /\ farewell \in SUBSET Session

(* The hub knows the sockets there are: what it counts for a session are   *)
(* the tabs whose handlers have registered and not yet unregistered.  So   *)
(* _remove_session_unlocked, which empties the hub's entry, never takes a  *)
(* live socket's entry away because an old deadline has passed, although   *)
(* the session may have come back while expire_stale_sessions waited.      *)
HubCounts == \A s \in Session : hub[s] = Cardinality(TabsOf(s))

(* A session without sockets that still counts as online is looked after:  *)
(* some handler, or the presence broadcast, is on its way to               *)
(* mark_disconnected, however many tabs come and go and fail at once.      *)
DropHasHandler ==
  \A s \in Session :
    s \in dropping \/ (hub[s] = 0 /\ s \in online) =>
      \E t \in Tab : SessionOf[t] = s /\ at[t] = "leaving"

(* Handlers use the runtime as ChatRuntime says it may be used, however    *)
(* their steps interleave, so all that is shown there holds here.          *)
UsesRuntime == Spec

(* The inductive invariant behind them.  A socket is in the hub from       *)
(* register_connection to unregister_ws ...                                *)
OpenHandlers ==
  \A t \in Tab : t \in open <=> at[t] \notin {"closed", "accepted", "leaving"}

(* ... and a handler announces as long as it has something to announce.    *)
Announcers == \A t \in Tab : at[t] = "announcing" <=> outbox[t] # << >>

DroppingHandled ==
  \A s \in dropping : \E t \in Tab : SessionOf[t] = s /\ at[t] = "leaving"

EInv ==
  Inv /\ ETypeOK /\ OpenHandlers /\ Announcers /\ HubCounts /\ DroppingHandled

Clicked(s) ==
  \E t \in Tab : SessionOf[t] = s /\ asked[t] = "queue" /\ asked'[t] = "nothing"

(* What the comment in disconnect_partner is after: a session that waits   *)
(* in the queue is not reset to IDLE, which would silently invalidate its  *)
(* entry, unless its own user asks again.                                  *)
QueueEntryStands ==
  [][\A s \in Waiting :
       state[s] = "searching" /\ hub[s] > 0 /\ state'[s] = "idle"
         => Clicked(s)]_evars

(* What use-page-close-signal.ts says of a refresh: while a session has no *)
(* socket, its match is kept for it, unless its partner asks for another.  *)
BlipKeepsMatch ==
  [][\A s \in Session :
       partner[s] # NoSession /\ hub[s] = 0 /\ hub[partner[s]] > 0 =>
         partner'[s] = partner[s] \/ Clicked(partner[s]) \/ ~Stored(s)']_evars

================================================================================
