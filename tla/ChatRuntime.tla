------------------------------ MODULE ChatRuntime ------------------------------
(***************************************************************************)
(* The chat runtime of the server: ChatRuntimeService together with the    *)
(* stores it keeps consistent.  Every method of the service runs under one *)
(* asyncio.Lock, so a method is one action; the two methods that loop,     *)
(* try_match and expire_stale_sessions, are one action per turn of the     *)
(* loop, taken while the lock is held.  Three things move without the      *)
(* lock: sockets leaving the connection hub, time, and a crash.            *)
(*                                                                         *)
(* Stores: PostgreSQL (status, matches, recorded), Redis (state, partner,  *)
(* deadline, queue, online, history), the server process (hub, dropping,   *)
(* served, lock, left, deferred, expiring).                                *)
(***************************************************************************)
EXTENDS Integers, Sequences

CONSTANTS
  Session,       \* ids of chat sessions, as rows of chat_sessions carry them
  Account,       \* accounts that own them
  AccountOf,     \* the owner of each session; a row never changes owner
  NoSession,     \* Python's None where a session id may stand
  MessageId,     \* the client_message_id values senders use
  NoId,          \* a message sent without a client_message_id
  HistoryLimit,  \* entries of recent history kept per session
  MaxTabs,       \* sockets one session may have at once (bounds the model)
  OnePerAccount  \* TRUE once migration 0002 has created the unique index
                 \* on active chat_sessions; FALSE for the schema before it

ASSUME NoSessionAssumption == NoSession \notin Session
ASSUME AccountAssumption == AccountOf \in [Session -> Account]
ASSUME HistoryLimitAssumption == HistoryLimit \in Nat \ {0}
ASSUME MaxTabsAssumption == MaxTabs \in Nat \ {0}
ASSUME OnePerAccountAssumption == OnePerAccount \in BOOLEAN

VARIABLES
  status,    \* chat_sessions.status; closed and expired rows behave alike
  matches,   \* chat_matches with ended_at NULL: <<left, right>>
  recorded,  \* client message ids stored with an active match
  state,     \* UserState of a stored session, "absent" when none is stored
  partner,   \* partner_id of a stored session
  deadline,  \* reconnect_deadline: none, still running, or in the past
  queue,     \* chat:queue, the waiting list
  online,    \* presence:online:sessions
  history,   \* chat:history:<session>, the entries replayed on reconnect
  hub,       \* number of sockets InMemoryConnectionHub holds per session
  dropping,  \* lost their last socket; mark_disconnected not yet run
  served,    \* sessions some handler of this process may still act for
  lock,      \* "free", or the looping method that holds the lock
  left,      \* try_match: left_id
  deferred,  \* try_match: deferred_session_ids
  expiring   \* expire_stale_sessions: ids listed and not yet removed

postgres == <<status, matches, recorded>>
fields   == <<state, partner, deadline>>
method   == <<lock, left, deferred, expiring>>
vars == <<status, matches, recorded, state, partner, deadline, queue, online,
          history, hub, dropping, served, lock, left, deferred, expiring>>

--------------------------------------------------------------------------------
(* Helpers, some with a variant that has one slip in it: PROJECT.json puts *)
(* each variant in the place of its original, and a run must notice.       *)

Entry == [type : {"message", "disconnect"},
          from : Session,
          id   : MessageId \cup {NoId}]

(* load_session finds the key. *)
Stored(s) == state[s] # "absent"

Elements(q) == {q[i] : i \in DOMAIN q}

NoDuplicates(q) == \A i, j \in DOMAIN q : q[i] = q[j] => i = j

WithoutForgotten(q, s) == q

(* LREM of s from a list that holds it at most once. *)
Without(q, s) ==
  IF s \in Elements(q)
  THEN LET k == CHOOSE i \in DOMAIN q : q[i] = s
       IN  [i \in 1 .. Len(q) - 1 |-> IF i < k THEN q[i] ELSE q[i + 1]]
  ELSE q

RememberOldest(h, e) == IF Len(h) < HistoryLimit THEN Append(h, e) ELSE h

(* RPUSH, then LTRIM to the newest HistoryLimit entries. *)
Remember(h, e) ==
  IF Len(h) < HistoryLimit
  THEN Append(h, e)
  ELSE Append(SubSeq(h, Len(h) - HistoryLimit + 2, Len(h)), e)

Farewell(s) == [type |-> "disconnect", from |-> s, id |-> NoId]

ClearedNever(S) == history

(* clear_history of every member of S. *)
Cleared(S) == [s \in Session |-> IF s \in S THEN << >> ELSE history[s]]

PointsBackNever(p, s) == FALSE

(* disconnect_partner's question to the partner it read before. *)
PointsBack(p, s) == p # NoSession /\ Stored(p) /\ partner[p] = s

SameSession(a, b) == a = b

SameAccount(a, b) == AccountOf[a] = AccountOf[b]

ActiveMatch(a, b) == <<a, b>> \in matches \/ <<b, a>> \in matches

MatchesNotLeftOf(S) == {m \in matches : m[1] \notin S}

(* The active matches once every one that involves a member of S is ended. *)
MatchesWithout(S) == {m \in matches : m[1] \notin S /\ m[2] \notin S}

(* Message ids are unique per match, so ending a match forgets its ids. *)
RecordedIn(active) == {r \in recorded : r[1] \in active}

AcceptedAlways(active, id) == active # {}

(* append_message stores the message: the pair has an active match, which  *)
(* has no message of this id yet.                                          *)
Accepted(active, id) ==
  active # {} /\ \A m \in active : <<m, id>> \notin recorded

(* The code defers a candidate of left_id's own account; this drops it.    *)
MatchableStranger(s) ==
  /\ state[s] = "searching" /\ partner[s] = NoSession /\ deadline[s] = "none"
  /\ hub[s] > 0 /\ s \in online
  /\ left # NoSession => ~SameAccount(left, s)

(* _can_participate_in_match_unlocked *)
Matchable(s) ==
  /\ state[s] = "searching"
  /\ partner[s] = NoSession
  /\ deadline[s] = "none"
  /\ hub[s] > 0
  /\ s \in online

--------------------------------------------------------------------------------
Init ==
  /\ status = [s \in Session |-> "unissued"]
  /\ matches = {}
  /\ recorded = {}
  /\ state = [s \in Session |-> "absent"]
  /\ partner = [s \in Session |-> NoSession]
  /\ deadline = [s \in Session |-> "none"]
  /\ queue = << >>
  /\ online = {}
  /\ history = [s \in Session |-> << >>]
  /\ hub = [s \in Session |-> 0]
  /\ dropping = {}
  /\ served = {}
  /\ lock = "free"
  /\ left = NoSession
  /\ deferred = << >>
  /\ expiring = {}

(* Actions, some preceded by a variant as above. *)

(* POST /api/session inserts a row; it does not take the runtime's lock.   *)
CreateSession(s) ==
  /\ status[s] = "unissued"
  /\ OnePerAccount =>
       \A t \in Session : SameAccount(s, t) => status[t] # "active"
  /\ status' = [status EXCEPT ![s] = "active"]
  /\ UNCHANGED <<matches, recorded, fields, queue, online, history, hub,
                 dropping, served, method>>

RegisterKeepsDeadline(s) ==
  /\ lock = "free" /\ status[s] # "unissued" /\ hub[s] < MaxTabs
  /\ hub' = [hub EXCEPT ![s] = @ + 1]
  /\ online' = online \cup {s}
  /\ state' = [state EXCEPT ![s] = IF Stored(s) THEN @ ELSE "idle"]
  /\ served' = served \cup {s}
  /\ UNCHANGED <<postgres, partner, deadline, queue, history, dropping, method>>

(* register_connection.  The handler checked the row's status before it    *)
(* waited for the lock, so any issued session may arrive here.             *)
Register(s) ==
  /\ lock = "free"
  /\ status[s] # "unissued"
  /\ hub[s] < MaxTabs
  /\ hub' = [hub EXCEPT ![s] = @ + 1]
  /\ online' = online \cup {s}
  /\ state' = [state EXCEPT ![s] =
                 IF ~Stored(s) \/ (hub[s] = 0 /\ partner[s] = NoSession)
                 THEN "idle" ELSE @]
  /\ deadline' = [deadline EXCEPT ![s] = "none"]
  /\ served' = served \cup {s}
  /\ UNCHANGED <<postgres, partner, queue, history, dropping, method>>

(* get_or_create_session and update_user_info: they may find the session   *)
(* removed since the handler registered, and then store a fresh one.       *)
LoadOrCreate(s) ==
  /\ lock = "free"
  /\ s \in served
  /\ ~Stored(s)
  /\ state' = [state EXCEPT ![s] = "idle"]
  /\ UNCHANGED <<postgres, partner, deadline, queue, online, history, hub,
                 dropping, served, method>>

EnterQueueUnchecked(s) ==
  /\ lock = "free" /\ s \in served /\ partner[s] = NoSession
  /\ state' = [state EXCEPT ![s] = "searching"]
  /\ deadline' = [deadline EXCEPT ![s] = "none"]
  /\ queue' = Append(Without(queue, s), s)
  /\ UNCHANGED <<postgres, partner, online, history, hub, dropping, served,
                 method>>

(* enter_queue.  A refusal by the permission gate, and a session that has  *)
(* a partner, change nothing.                                              *)
EnterQueue(s) ==
  /\ lock = "free"
  /\ s \in served
  /\ status[s] = "active"
  /\ partner[s] = NoSession
  /\ state' = [state EXCEPT ![s] = "searching"]
  /\ deadline' = [deadline EXCEPT ![s] = "none"]
  /\ queue' = Append(Without(queue, s), s)
  /\ UNCHANGED <<postgres, partner, online, history, hub, dropping, served,
                 method>>

(* record_message, when it delivers.  An absent partner, a partner without *)
(* a socket, and a message refused as a duplicate change nothing.          *)
RecordMessage(s, id) ==
  LET p == partner[s]
      active == {m \in matches : m \in {<<s, p>>, <<p, s>>}}
      e == [type |-> "message", from |-> s, id |-> id]
  IN /\ lock = "free"
     /\ s \in served
     /\ p # NoSession
     /\ Stored(p)
     /\ hub[p] > 0
     /\ Accepted(active, id) \/ id = NoId
     /\ recorded' = IF id = NoId THEN recorded
                    ELSE recorded \cup {<<m, id>> : m \in active}
     /\ history' = [history EXCEPT ![s] = Remember(@, e),
                                   ![p] = Remember(@, e)]
     /\ UNCHANGED <<status, matches, fields, queue, online, hub, dropping,
                    served, method>>

(* disconnect_partner, called by a handler or by a close notice.  The      *)
(* partner is reset only if it still points back, and told unless it has   *)
(* another partner.  Neither session is taken out of the queue.            *)
Disconnect(s) ==
  LET p == partner[s]
      told == p # NoSession /\ Stored(p) /\ partner[p] \in {s, NoSession}
      reset == IF PointsBack(p, s) THEN {s, p} ELSE {s}
  IN /\ lock = "free"
     /\ Stored(s)
     /\ partner' = [t \in Session |->
                      IF t \in reset THEN NoSession ELSE partner[t]]
     /\ state' = [t \in Session |->
                    IF t \in reset THEN "idle" ELSE state[t]]
     /\ deadline' = [t \in Session |->
                       IF t \in reset \ {s} THEN "none" ELSE deadline[t]]
     /\ history' = IF told
                   THEN [Cleared(reset) EXCEPT ![p] = Remember(@, Farewell(s))]
                   ELSE Cleared(reset)
     /\ matches' = MatchesWithout({s})
     /\ recorded' = RecordedIn(matches')
     /\ UNCHANGED <<status, queue, online, hub, dropping, served, method>>

MarkDisconnectedForever(s) ==
  /\ lock = "free" /\ status[s] # "unissued" /\ hub[s] = 0
  /\ online' = online \ {s}
  /\ queue' = Without(queue, s)
  /\ dropping' = dropping \ {s}
  /\ UNCHANGED <<postgres, fields, history, hub, served, method>>

(* mark_disconnected: by the handler of a session's last socket, by the    *)
(* presence broadcast that found it dead, or by POST /api/session/close.   *)
(* It finds the session gone for good unless a socket came back meanwhile. *)
MarkDisconnected(s) ==
  /\ lock = "free"
  /\ status[s] # "unissued"
  /\ hub[s] = 0
  /\ online' = online \ {s}
  /\ queue' = Without(queue, s)
  /\ deadline' = [deadline EXCEPT ![s] = IF Stored(s) THEN "running" ELSE @]
  /\ dropping' = dropping \ {s}
  /\ UNCHANGED <<postgres, state, partner, history, hub, served, method>>

(* The early return of mark_disconnected: other tabs are connected. *)
StillConnected(s) ==
  /\ lock = "free"
  /\ s \in dropping
  /\ hub[s] > 0
  /\ dropping' = dropping \ {s}
  /\ UNCHANGED <<postgres, fields, queue, online, history, hub, served, method>>

(* _remove_session_unlocked.  It resets the partner it reads from the      *)
(* removed session without asking whether the partner points back.        *)
RemoveSession(s) ==
  LET p == partner[s]
      told == p # NoSession /\ p # s /\ Stored(p)
      reset == IF told THEN {p} ELSE {}
  IN /\ hub' = [hub EXCEPT ![s] = 0]
     /\ online' = online \ {s}
     /\ queue' = Without(queue, s)
     /\ status' = [status EXCEPT ![s] = IF @ = "active" THEN "closed" ELSE @]
     /\ matches' = MatchesWithout({s})
     /\ recorded' = RecordedIn(matches')
     /\ state' = [t \in Session |-> IF t = s THEN "absent"
                                    ELSE IF t \in reset THEN "idle"
                                    ELSE state[t]]
     /\ partner' = [t \in Session |->
                      IF t \in reset \cup {s} THEN NoSession ELSE partner[t]]
     /\ deadline' = [t \in Session |->
                       IF t \in reset \cup {s} THEN "none" ELSE deadline[t]]
     /\ history' = IF told
                   THEN [Cleared({s, p}) EXCEPT ![p] = Remember(@, Farewell(s))]
                   ELSE Cleared({s})
     /\ UNCHANGED <<dropping, served>>

(* revoke_session, on behalf of an administrator. *)
Revoke(s) ==
  /\ lock = "free"
  /\ status[s] # "unissued"
  /\ RemoveSession(s)
  /\ UNCHANGED method

(* expire_stale_sessions takes the lock and lists what has expired ...     *)
BeginExpiry ==
  LET expired == {s \in Session : deadline[s] = "lapsed"}
  IN /\ lock = "free"
     /\ expired # {}
     /\ lock' = "expire"
     /\ expiring' = expired
     /\ UNCHANGED <<postgres, fields, queue, online, history, hub, dropping,
                    served, left, deferred>>

(* ... and removes each listed session, whatever happened to it since.     *)
ExpireOne(s) ==
  /\ lock = "expire"
  /\ s \in expiring
  /\ RemoveSession(s)
  /\ expiring' = expiring \ {s}
  /\ lock' = IF expiring = {s} THEN "free" ELSE lock
  /\ UNCHANGED <<left, deferred>>

(* try_match takes the lock. *)
BeginMatch ==
  /\ lock = "free"
  /\ served # {}
  /\ lock' = "match"
  /\ UNCHANGED <<postgres, fields, queue, online, history, hub, dropping,
                 served, left, deferred, expiring>>

SkipToEnd ==
  /\ lock = "match" /\ queue # << >>
  /\ Head(queue) = left \/ ~Matchable(Head(queue))
  /\ queue' = Append(Tail(queue), Head(queue))
  /\ UNCHANGED <<postgres, fields, online, history, hub, dropping, served,
                 method>>

(* LPOP; an id that can no longer be matched is dropped.  The same loop    *)
(* drops left_id itself, should the list hold it twice.                    *)
SkipCandidate ==
  /\ lock = "match"
  /\ queue # << >>
  /\ Head(queue) = left \/ ~Matchable(Head(queue))
  /\ queue' = Tail(queue)
  /\ UNCHANGED <<postgres, fields, online, history, hub, dropping, served,
                 method>>

TakeLeft ==
  /\ lock = "match"
  /\ queue # << >>
  /\ left = NoSession
  /\ Matchable(Head(queue))
  /\ left' = Head(queue)
  /\ queue' = Tail(queue)
  /\ UNCHANGED <<postgres, fields, online, history, hub, dropping, served,
                 lock, deferred, expiring>>

DeferAnyone ==
  /\ lock = "match" /\ queue # << >> /\ left \notin {NoSession, Head(queue)}
  /\ Matchable(Head(queue))
  /\ deferred' = Append(deferred, Head(queue))
  /\ queue' = Tail(queue)
  /\ UNCHANGED <<postgres, fields, online, history, hub, dropping, served,
                 lock, left, expiring>>

(* A candidate of the same account is put aside until the search is over.  *)
DeferCandidate ==
  /\ lock = "match"
  /\ queue # << >>
  /\ left \notin {NoSession, Head(queue)}
  /\ Matchable(Head(queue))
  /\ SameAccount(left, Head(queue))
  /\ deferred' = Append(deferred, Head(queue))
  /\ queue' = Tail(queue)
  /\ UNCHANGED <<postgres, fields, online, history, hub, dropping, served,
                 lock, left, expiring>>

(* The rest of try_match: the deferred ids go back to the front in their   *)
(* order (LREM finds none of them), both sessions are saved as partners,   *)
(* and create_match supersedes every active match of either.               *)
Pair ==
  LET right == Head(queue)
  IN /\ lock = "match"
     /\ queue # << >>
     /\ left \notin {NoSession, right}
     /\ Matchable(right)
     /\ ~SameAccount(left, right)
     /\ queue' = deferred \o Tail(queue)
     /\ state' = [state EXCEPT ![left] = "connected", ![right] = "connected"]
     /\ partner' = [partner EXCEPT ![left] = right, ![right] = left]
     /\ deadline' = [deadline EXCEPT ![left] = "none", ![right] = "none"]
     /\ matches' = MatchesWithout({left, right}) \cup {<<left, right>>}
     /\ recorded' = RecordedIn(MatchesWithout({left, right}))
     /\ lock' = "free"
     /\ left' = NoSession
     /\ deferred' = << >>
     /\ UNCHANGED <<status, online, history, hub, dropping, served, expiring>>

GiveUpSwapped ==
  /\ lock = "match" /\ queue = << >>
  /\ queue' = deferred \o (IF left = NoSession THEN << >> ELSE <<left>>)
  /\ lock' = "free" /\ left' = NoSession /\ deferred' = << >>
  /\ UNCHANGED <<postgres, fields, online, history, hub, dropping, served,
                 expiring>>

(* The list ran out: whoever was taken from it goes back to its front.     *)
GiveUp ==
  /\ lock = "match"
  /\ queue = << >>
  /\ queue' = (IF left = NoSession THEN << >> ELSE <<left>>) \o deferred
  /\ lock' = "free"
  /\ left' = NoSession
  /\ deferred' = << >>
  /\ UNCHANGED <<postgres, fields, online, history, hub, dropping, served,
                 expiring>>

DropSocketTwice(s) ==
  /\ status[s] # "unissued"
  /\ hub' = [hub EXCEPT ![s] = @ - 1]
  /\ dropping' = IF hub[s] = 1 THEN dropping \cup {s} ELSE dropping
  /\ UNCHANGED <<postgres, fields, queue, online, history, served, method>>

DropSocketMiscounted(s) ==
  /\ hub[s] > 0
  /\ hub' = [hub EXCEPT ![s] = @ - 1]
  /\ dropping' = IF hub[s] > 1 THEN dropping \cup {s} ELSE dropping
  /\ UNCHANGED <<postgres, fields, queue, online, history, served, method>>

(* unregister_ws, outside the lock: by the socket's handler or by the      *)
(* presence broadcast.  mark_disconnected still has to get the lock.       *)
DropSocket(s) ==
  /\ hub[s] > 0
  /\ hub' = [hub EXCEPT ![s] = @ - 1]
  /\ dropping' = IF hub[s] = 1 THEN dropping \cup {s} ELSE dropping
  /\ UNCHANGED <<postgres, fields, queue, online, history, served, method>>

(* A reconnect deadline passes. *)
Lapse(s) ==
  /\ deadline[s] = "running"
  /\ deadline' = [deadline EXCEPT ![s] = "lapsed"]
  /\ UNCHANGED <<postgres, state, partner, queue, online, history, hub,
                 dropping, served, method>>

(* The process dies and comes back: reset_online and prepare_for_startup.  *)
Restart ==
  /\ queue' = << >>
  /\ online' = {}
  /\ state' = [s \in Session |-> IF ~Stored(s) THEN "absent"
                                 ELSE IF partner[s] = NoSession THEN "idle"
                                 ELSE "connected"]
  /\ deadline' = [s \in Session |->
                    IF partner[s] = NoSession THEN "none" ELSE "running"]
  /\ hub' = [s \in Session |-> 0]
  /\ dropping' = {}
  /\ served' = {}
  /\ lock' = "free"
  /\ left' = NoSession
  /\ deferred' = << >>
  /\ expiring' = {}
  /\ UNCHANGED <<postgres, partner, history>>

TryMatch == BeginMatch \/ SkipCandidate \/ TakeLeft \/ DeferCandidate \/ Pair
              \/ GiveUp

Expire == BeginExpiry \/ \E s \in Session : ExpireOne(s)

Next ==
  \/ \E s \in Session :
       \/ CreateSession(s)
       \/ Register(s)
       \/ LoadOrCreate(s)
       \/ EnterQueue(s)
       \/ \E id \in MessageId \cup {NoId} : RecordMessage(s, id)
       \/ Disconnect(s)
       \/ MarkDisconnected(s)
       \/ StillConnected(s)
       \/ Revoke(s)
       \/ DropSocket(s)
       \/ Lapse(s)
  \/ TryMatch
  \/ Expire
  \/ Restart

Spec == Init /\ [][Next]_vars

--------------------------------------------------------------------------------
(* Properties *)

(* Type invariant. *)
TypeOK ==
  /\ status \in [Session -> {"unissued", "active", "closed"}]
  /\ matches \in SUBSET (Session \X Session)
  /\ recorded \in SUBSET ((Session \X Session) \X MessageId)
  /\ state \in [Session -> {"absent", "idle", "searching", "connected"}]
  /\ partner \in [Session -> Session \cup {NoSession}]
  /\ deadline \in [Session -> {"none", "running", "lapsed"}]
  /\ queue \in Seq(Session)
  /\ online \in SUBSET Session
  /\ history \in [Session -> Seq(Entry)]
  /\ hub \in [Session -> Nat]
  /\ dropping \in SUBSET Session
  /\ served \in SUBSET Session
  /\ lock \in {"free", "match", "expire"}
  /\ left \in Session \cup {NoSession}
  /\ deferred \in Seq(Session)
  /\ expiring \in SUBSET Session

(* Partners are mutual: whoever a session is matched with is matched with  *)
(* it, is another session of another account, and both are CONNECTED; and  *)
(* CONNECTED sessions have partners.  disconnect_partner and               *)
(* _remove_session_unlocked write the two records one after the other.     *)
PartnersMutual ==
  \A s \in Session :
    /\ state[s] = "connected" <=> partner[s] # NoSession
    /\ partner[s] # NoSession =>
         /\ partner[partner[s]] = s
         /\ partner[s] # s
         /\ ~SameAccount(s, partner[s])

(* The pairs Redis holds are exactly the active matches PostgreSQL holds,  *)
(* one row each: otherwise append_message refuses what is sent, and the    *)
(* report service finds no match to report.                                *)
DurableMatchesAgree ==
  /\ \A s, t \in Session : partner[s] = t <=> ActiveMatch(s, t)
  /\ \A s, t \in Session : <<s, t>> \in matches => <<t, s>> \notin matches

(* Everyone on the waiting list: in the queue, or taken from it by the     *)
(* search that is running.                                                 *)
Line == (IF left = NoSession THEN << >> ELSE <<left>>) \o deferred \o queue
Waiting == Elements(queue) \cup Elements(deferred) \cup ({left} \ {NoSession})

(* A connected session that is SEARCHING is somewhere try_match will look. *)
NoLostSearcher ==
  \A s \in Session : state[s] = "searching" /\ hub[s] > 0 => s \in Waiting

(* No id waits twice, in the queue or in the hands of a search.            *)
WaitsOnce == NoDuplicates(Line)

(* A search overlooks nobody: whoever could be matched now is still to be  *)
(* reached, or is of left_id's account.  So a search that finds nobody     *)
(* leaves no two who could be matched with each other.                     *)
NobodyOverlooked ==
  \A s \in Session : lock = "match" /\ Matchable(s) =>
    \/ s \in Elements(queue)
    \/ left # NoSession /\ SameAccount(left, s)

(* Presence tells the truth: a session with a socket is online, and an     *)
(* online session without one is about to be marked offline.               *)
PresenceExact ==
  \A s \in Session :
    /\ hub[s] > 0 => s \in online /\ deadline[s] = "none"
    /\ s \in online => hub[s] > 0 \/ s \in dropping

(* A matched session without a socket has a reconnect deadline, or will be *)
(* given one by a handler on its way: its partner cannot wait forever.     *)
AbandonedMatchHasClock ==
  \A s \in Session :
    partner[s] # NoSession /\ hub[s] = 0 =>
      deadline[s] # "none" \/ s \in dropping

(* What a session would be shown again on reconnect was said by itself or  *)
(* by its current partner: the transcript of a match never outlives it.    *)
TranscriptPrivate ==
  \A s \in Session : \A i \in DOMAIN history[s] :
    history[s][i].type = "message" =>
      /\ partner[s] # NoSession
      /\ history[s][i].from \in {s, partner[s]}

(* Only rows that are still active wait or are matched: a revoked or       *)
(* expired session has been taken out of every list and match.             *)
OnlyActiveMatched ==
  \A s \in Session :
    partner[s] # NoSession \/ s \in Waiting => status[s] = "active"

(* Within a match a client message id is delivered once.                   *)
DeliveredOnce ==
  \A s \in Session : \A i, j \in DOMAIN history[s] :
    history[s][i].id = history[s][j].id /\ history[s][i].id # NoId => i = j

(* The conversation a history holds: what follows the notice, if there is  *)
(* one, that the match before it ended.                                    *)
Conversation(h) ==
  IF h # << >> /\ h[1].type = "disconnect" THEN Tail(h) ELSE h

EndsWith(q, r) ==
  /\ Len(r) <= Len(q)
  /\ \A i \in DOMAIN r : r[i] = q[Len(q) - Len(r) + i]

(* The two sides of a match keep the same conversation, and nothing but    *)
(* its messages: one side's is the end of the other's, and a side that has *)
(* room for more has lost nothing.                                         *)
TranscriptsMirror ==
  \A s \in Session : partner[s] # NoSession =>
    LET mine == Conversation(history[s])
        theirs == Conversation(history[partner[s]])
    IN /\ \A i \in DOMAIN mine : mine[i].type = "message"
       /\ EndsWith(mine, theirs) \/ EndsWith(theirs, mine)
       /\ Len(history[s]) < HistoryLimit => EndsWith(mine, theirs)

Before(a, b, q) == \E i, j \in DOMAIN q : i < j /\ q[i] = a /\ q[j] = b

(* Nobody is overtaken: of two sessions that go on waiting, the one that   *)
(* came first stays first, through every search and requeue; it goes to    *)
(* the end only by entering the queue again.                               *)
OrderKept ==
  \A a, b \in Waiting :
    Before(a, b, Line) /\ {a, b} \subseteq Waiting' =>
      Before(a, b, Line') \/ (lock = "free" /\ Line'[Len(Line')] = a)
KeepsOrder == [][OrderKept]_vars

(* The runtime implements Pairing: whoever is SEARCHING is seeking, and    *)
(* every method is one step of Pairing or none, however many records it    *)
(* writes.                                                                 *)
Promise == INSTANCE Pairing
             WITH seeking <- {s \in Session : state[s] = "searching"}
Refines == Promise!Spec

--------------------------------------------------------------------------------
(* The inductive invariant behind the safety properties above: they refer  *)
(* to what a search holds in its hands between two turns of its loop, and  *)
(* to records that are not stored.                                         *)

(* A key that does not exist is read as a fresh record would be. *)
AbsentIsBlank ==
  \A s \in Session : ~Stored(s) => partner[s] = NoSession /\ deadline[s] = "none"

(* left_id stays fit to be matched while the lock is held; only its socket *)
(* may go meanwhile, and then mark_disconnected waits for the lock.        *)
(* Candidates are put aside only for its sake.                             *)
SearchInHand ==
  /\ lock # "match" => left = NoSession
  /\ left = NoSession => deferred = << >>
  /\ left # NoSession => /\ state[left] = "searching"
                         /\ hub[left] > 0 \/ left \in dropping

(* WaitsOnce, part by part. *)
LineParts ==
  /\ NoDuplicates(queue) /\ NoDuplicates(deferred)
  /\ Elements(queue) \cap Elements(deferred) = {}
  /\ left \notin Elements(queue) \cup Elements(deferred)

(* The pairs, in both stores. *)
PairInv ==
  TypeOK /\ AbsentIsBlank /\ SearchInHand /\ PartnersMutual
    /\ DurableMatchesAgree

(* The expiry has listed somebody as long as it holds the lock.  Whoever   *)
(* is listed has no socket, and gets none before it is removed, since      *)
(* register_connection waits for the lock: nobody connected is expired.    *)
ExpiryInHand ==
  /\ lock = "expire" <=> expiring # {}
  /\ \A s \in expiring : hub[s] = 0

(* Presence and reconnect deadlines. *)
ClockInv == PresenceExact /\ AbandonedMatchHasClock /\ ExpiryInHand

(* Only candidates of left_id's account are put aside. *)
DeferredShare == \A s \in Elements(deferred) : SameAccount(left, s)

(* The waiting list. *)
LineInv == LineParts /\ DeferredShare /\ NoLostSearcher /\ OnlyActiveMatched

(* Only the first entry of a history may be a notice. *)
NoticeFirst ==
  \A s \in Session : \A i \in DOMAIN history[s] :
    i > 1 => history[s][i].type = "message"

(* Every id a history shows is recorded with the match it is the history   *)
(* of, so that the unique index has its say about the next message.        *)
IdsRecorded ==
  \A s \in Session : \A i \in DOMAIN history[s] :
    history[s][i].id # NoId =>
      \E m \in matches : /\ m \in {<<s, partner[s]>>, <<partner[s], s>>}
                         /\ <<m, history[s][i].id>> \in recorded

(* The transcripts. *)
TranscriptInv ==
  TranscriptPrivate /\ NoticeFirst /\ TranscriptsMirror /\ IdsRecorded
    /\ DeliveredOnce

(* All of it: inductive, and the reason for every safety property.         *)
Inv == PairInv /\ ClockInv /\ LineInv /\ TranscriptInv

--------------------------------------------------------------------------------
(* Liveness.  The lock is FIFO and every holder releases it, so a waiter   *)
(* gets it even though others take it in between: strong fairness.  The    *)
(* expiry loop calls every second.  The process does not crash for ever.   *)
Fairness ==
  /\ WF_vars(TryMatch)
  /\ WF_vars(\E s \in Session : ExpireOne(s))
  /\ \A s \in Session :
       /\ WF_vars(Lapse(s))
       /\ SF_vars(BeginExpiry /\ deadline[s] = "lapsed")
       /\ SF_vars(MarkDisconnected(s) /\ s \in dropping)
  /\ <>[][~Restart]_vars

LiveSpec == Spec /\ Fairness

(* The two loops end: whoever holds the lock gives it back.                *)
LockReleased == lock # "free" ~> lock = "free"

(* A session whose partner has lost its last socket is not left matched    *)
(* with nobody: the partner returns or the match ends.                     *)
AbandonedMatchEnds ==
  \A s \in Session :
    (partner[s] # NoSession /\ hub[s] = 0)
      ~> (partner[s] = NoSession \/ hub[s] > 0)

(* What use-page-close-signal.ts says of the reconnect window, "the real   *)
(* source of truth for session expiry": once it runs for a matched session *)
(* that has no socket, the session comes back or is removed.               *)
WindowDecides ==
  \A s \in Session :
    (partner[s] # NoSession /\ hub[s] = 0 /\ deadline[s] = "running")
      ~> (~Stored(s) \/ hub[s] > 0)

================================================================================
