# SKLinkChat, specified

TLA+ models of SKLinkChat's server and client, TLC configurations that check
them on small instances, and TLAPS proofs about them for instances of any size.
Paths are relative to the repository; `app/` stands for `server-py/app/`.

## The system

SKLinkChat pairs strangers for a text chat. A browser logs in, asks for a chat
session, opens a WebSocket for it, asks to be queued, is matched with a session
of another account, exchanges messages, and leaves or asks for the next partner.

| Component | State it keeps | Operations | Where |
| --- | --- | --- | --- |
| Chat runtime service | one `asyncio.Lock` | register, profile, enter queue, match, message, typing, disconnect, mark disconnected, expire, revoke | `app/application/chat/runtime_service.py` |
| Redis session store | a record per session (state, partner, reconnect deadline), the waiting list, the deadlines by time, a short history per session | load, save, delete, list expired, queue, history, repair at startup | `app/infrastructure/redis/session_repository.py` |
| Redis presence store | the set of online sessions | mark, reset, count | `app/infrastructure/redis/presence_repository.py` |
| Connection hub | the sockets of each session, in memory | register, drop one, drop all | `app/infrastructure/realtime/in_memory_connection_hub.py` |
| Durable repository | PostgreSQL rows: accounts, login sessions, chat sessions, matches, messages, reports, audit events | one transaction per call | `app/infrastructure/postgres/` |
| WebSocket endpoint | per socket, a handler between two awaits | connect, replay, dispatch, disconnect | `app/presentation/ws/chat_endpoint.py` |
| Disconnect notices | a pending task per session | schedule, cancel, fire | `app/presentation/ws/disconnect_notices.py`, `routes/session.py` |
| Presence broadcast | the pending broadcast task | schedule, cancel, send, drop dead sockets | `app/presentation/ws/presence_updates.py` |
| Background loops | two tasks | expire every second, purge old rows, startup and shutdown | `app/bootstrap/lifespan.py` |
| Access, administration, reports | rows only | authorize, restrict, restore, review, report | `app/application/admin`, `app/application/chat/{access,report}_service.py` |
| Accounts and login | rows only | resolve and bind an identity, allocate a name, fix the gender | `app/application/{auth,account}` |
| Retention | none | delete rows by age | `app/application/retention` |
| Chat client | a store and effects per tab, bootstrap runs, a socket | bootstrap, connect, reconnect, send, receive, tear down | `client/src/features/chat/{chat-provider.tsx,hooks,model,services}`, `client/src/app/store.ts` |
| Session ownership | the session id a tab stores, claims in flight | claim, answer, time out | `client/src/features/chat/api/session-ownership.ts` |
| Client login state | `authSession` and the flags of the pages that depend on it | boot, refresh, poll, guard, sign in and out, save a profile | `client/src/features/{auth,settings,gender-select}`, `client/src/pages` |
| Online count | a query and the last pushed count | poll, push | `client/src/features/presence` |
| Chat screen | composer, list, sidebar, report dialog, toasts, keyboard | type, send, scroll, collapse, report, dismiss | `client/src/features/chat/ui`, `client/src/app/layout.tsx` |
| Admin console | lists, a selected report and its detail, flags, drafts | load, filter, select, review, restrict, restore | `client/src/features/admin` |

How they interact. Handlers of all sockets, the HTTP routes and the background
loops are coroutines of one process. They meet in the runtime service, whose
every method holds the one lock from its first read to its last write, so that
its methods are atomic to each other; but a *handler* makes several such calls,
with awaits between them. Some things happen without the lock: a handler or the
presence broadcast takes a socket out of the hub, HTTP handlers write rows of
PostgreSQL, a task is cancelled, time passes, the process dies. A match is
recorded in three places: `partner_id` in two Redis records, one row of
`chat_matches`, and what the two browsers show.

What is hard here: the two records of a pair and the row must agree although
they are written one by one; a search takes people out of the waiting list
before it knows whether it can pair them; sockets go away in the middle of
everything, and a session without sockets must be kept for a while and then not
for ever; an account may have several sessions, and a session several tabs; the
process restarts with Redis as it was. In the browser nothing is ever cancelled
for real: a request that was asked for an earlier login, page, selection or run
is answered some time, and only flags decide whether the answer still counts;
React runs effects some time after the render that called for them, and an effect
that depends on a function made anew by each render runs at each render. `PROJECT.json` lists each hazard with the
line where it bites and the properties that watch it.

What makes each component correct:

- *runtime and stores*: partners are mutual strangers; Redis and PostgreSQL agree;
  nobody who searches is lost, stands in the list twice or is overtaken; a
  history never outlives its match; an abandoned match ends;
- *endpoint*: a client is told of every match and of every end of one, in order;
  a short loss of connection does not end a match; what a handler decided
  under the lock still holds when it acts on it;
- *disconnect notices*: a client that returns within the grace period keeps its
  match; at most one notice is pending per session;
- *moderation*: a restricted account has no live session and gets none; who was
  revoked does not come back; every decision that stands is audited as it was
  made; a report is about a match of its reporter;
- *accounts*: one identity, one account; a gender once fixed stays;
- *presence broadcast*: after the last change the right count is sent;
- *client*: what a cancelled run still awaits has no effect on a later session, and
  a tab that may chat ends up with one;
- *login state*: no page waits for something that is not under way, and a login
  that has ended is noticed;
- *chat screen*: a partner who was told of typing is told of its end, and the count
  shown is not older than the one pushed;
- *admin console*: a flag that locks a button comes down on every path, and a
  selected report is never an empty panel.

## Modules

| Module | Models |
| --- | --- |
| `Pairing` | what matching promises, as an abstract specification: sessions seek, are coupled two at a time, part two at a time |
| `ChatRuntime` | the runtime service with the stores it keeps consistent, the hub, time and restarts; implements `Pairing` |
| `MCChatRuntime` | instances of `ChatRuntime` for TLC, and a property that needs the community modules |
| `ChatEndpoint` | the WebSocket handlers between their calls of the runtime, what each tab shows and asks for, lost sockets and the expiry loop's messages; its runtime part is `ChatRuntime` |
| `MCChatEndpoint` | instances of `ChatEndpoint` for TLC |
| `Moderation` | who may chat and what administrators do about it: creation and authorization of sessions, reports, review, restriction, restoration; the runtime appears in it as `Pairing` |
| `MCModeration` | instances of `Moderation` for TLC |
| `ChatClient` | the tabs of one browser: bootstrap runs, session ownership, socket URL and socket, store, teardown, reload |
| `ClientAuth` | the login as the browser knows it, and the pages and dialogs that depend on it |
| `ChatScreen` | the chat page around the runtime of `ChatClient`, and the online count |
| `AdminConsole` | the administrators' pages of reports, restricted accounts and audit events |
| `MCChatClient`, `MCClientAuth`, `MCChatScreen`, `MCAdminConsole` | an instance of each for TLC |
| `PairingProofs`, `ChatRuntimeProofs`, `ChatEndpointProofs`, `ModerationProofs`, `ChatClientProofs`, `ClientAuthProofs`, `ChatScreenProofs`, `AdminConsoleProofs` | the proofs |

How they compose: `ChatRuntime` implements `Pairing` (`Refines`), `ChatEndpoint`
extends `ChatRuntime` and uses nothing but its actions (`UsesRuntime`), and
`Moderation` runs beside a runtime of which it assumes what `Pairing` says
(`KeepsPairing`). The client's modules stand each for itself: `ChatClient` takes
the server as a row that is active or not and as frames in any order,
`ClientAuth` as a login that may change at any time; `ChatScreen` takes what
`ChatClient` renders, and `AdminConsole` the transactions of `Moderation` by their
effects alone. Each assumes less of its neighbour than the neighbour does.

### ChatRuntime and the code

PostgreSQL: `status` (a `chat_sessions` row: not created, active, closed; closed
and expired rows are refused alike and are one value), `matches` (rows of
`chat_matches` with `ended_at` NULL), `recorded` (the client message ids of
active matches, on which the unique index of `chat_messages` acts; a match that
ended gets no more messages, so its ids are forgotten). Redis: `state`,
`partner` and `deadline` are the fields of a record, `queue`, `online` and
`history` the other keys. `chat:sessions` and `chat:reconnect_deadlines` repeat
what the records say after each method, and are not kept apart. The process:
`hub` counts a session's sockets, `dropping` are sessions whose last socket is
gone and whose `mark_disconnected` has not yet run, `served` are sessions some
handler may still call the runtime for, and `lock`, `left`, `deferred` and
`expiring` are the two looping methods' own variables.

A method of the service is one action. It is atomic because of the lock: between
its reads and its writes no other method runs. `try_match` and
`expire_stale_sessions` loop, so they take the lock (`BeginMatch`,
`BeginExpiry`), make one turn at a time (`SkipCandidate`, `TakeLeft`,
`DeferCandidate`, `Pair`, `GiveUp`, `ExpireOne`), and the last turn gives the
lock back; between two turns sockets may drop, rows be created, deadlines run
out and the process die. `DropSocket`, `Lapse`, `CreateSession` and `Restart`
need no lock. Handlers may call the methods in any order for any session they
have registered: the handlers' own order only removes behaviours, so what is
shown here holds for every handler.

Left out of `ChatRuntime`, and why: `is_typing`, which is written and never read;
names, genders and message bodies, which decide nothing; the permission gate,
whose refusal is an action that is not taken; the force flag of
`mark_disconnected`, which no caller sets; the `continue` of `try_match` at line
154, which cannot be reached, since nobody deletes a record while the lock is
held; the deletion of messages by age (a message id could be reused a month later);
a single call to Redis or PostgreSQL that fails, and a task cancelled inside a
method (see Not modelled).

### ChatEndpoint and the code

`ChatEndpoint` extends `ChatRuntime` and calls its actions. A handler is named by
the tab at the other end of its socket, and `at` says where it stands in
`websocket_endpoint`: `Accept` (authorized and accepted), `Connect` and `Load`
(the two calls of `bootstrap_connection`, and USER_INFO), `Look` (the partner, and
MATCH), then the receive loop: `EndMatch`, `Enqueue`, `Search`... for a queue request,
`Deliver`, `HoldBack`, `Undeliverable` and `BlankMessage` for a message, `Type` and `Check` for
typing, `Part` for `_disconnect_current_chat`; `Unregister` and `Leave` at the
end. `open` are the tabs whose sockets the hub holds, `outbox` what a handler still
has to announce of a match it found, `farewell` whom the expiry loop still has to
tell. Of a client, `shown` is `me.state` and the stranger in the store of a tab,
`asked` the request on its way, `typing` the report it owes two seconds after
a key.

*The grain.* After a method of the runtime returns, a handler runs until it
waits again: neither releasing an uncontended lock nor the first write to a
socket gives up the processor before the message is handed to the transport. So
a call and the first message after it are one step, and later messages, each
after an await, are steps of their own (`Announce`). `_broadcast_to_session` to several tabs
is one step. What the server sends arrives at once, and a tab has one request on
its way at a time: a late answer and an early request are the same to both ends,
and a request that is written while another is on its way is written later.
A socket that is lost and opened again is the same tab only once the old handler
has unregistered; before that it is another tab, of which a session may have several.

*A socket that dies unnoticed.* The `except WebSocketDisconnect` clause covers
the receive loop only. A socket that ends during the replay (`Vanish`), and a
handler that the permission gate ends (`Refused`), leave the socket in the hub
until a presence broadcast fails to send to it (`Sweep`).

*Left out:* revocation and restarts (`ChatRuntime` has both), the profile request
and the replay of history, malformed, over-long and duplicate payloads, whose
answers change nothing (a *blank* message changes something: `BlankMessage`), a failing Redis or PostgreSQL call, and a presence
broadcast that unregisters a socket whose handler is doing so too.

### Moderation and the code

PostgreSQL: `restriction` (the restriction fields of an account; the report it
names, 0 without one), `status` (as in `ChatRuntime`), `met` (`chat_matches`,
ended or not), `reports` (`chat_reports`), `audit` (`audit_events`). The runtime:
`seeking` and `partner` are the variables of `Pairing`, `stored` the sessions with a
record, `hub` their sockets by the request that opened them. `call` says where each
request of a user stands and what it remembers, `task` the same for
administrators. `lost` is no state of the program: it collects the events that
were due when a request died.

Every transaction of PostgreSQL (READ COMMITTED, one per repository call) and
every call of the runtime is one action, and anything may happen between two.
`create_chat_session` is `StartCreate`, `LookForActive`, `Insert` or
`InsertConflict`; a socket is `Authorize`, `Register`, `EnterQueue`, `Close`;
`submit_report` is `StartReport`, `Locate`, `File`; `review_report` is
`StartReview`, `WriteReview`, `WriteAudit`; `restrict_account` is `StartRestrict`,
`FindSession`, `SetRestriction`, `WriteAudit`, and then `_force_revoke_chat_session`:
`Revoke`, `CloseSockets`; `restore_account` is `Restore`, `WriteAudit`. `Fail` is an
exception in any of the administrators' transactions or calls, `Restart` the end of
the process.

Some calls are taken together because nobody can tell. `authorize_chat_session`
asks for the account, for the row, and writes the row: the id comes from a row
that existed before the request, and a row that is active at the end was active
all the time, so the three are the first. `get_active_match` finds nothing that
`get_active_match_for_account` would not. The reads that precede the restriction
(`get_report_detail`) give fields that never change. The audit event and
`get_all` of the hub are one step, since what happens between them happens to
sockets that are gone or not yet there. `unregister_ws` and `mark_disconnected`
are one step here; `ChatEndpoint` keeps them apart.

An account is one from the moment its e-mail address is verified; verification
itself is left to `AuthAccount`. A handler that the gate of the waiting list
has refused is over and its socket is found dead later; here it stays `open`
until `Close`.

Left out: the lists and pages administrators read, the words of reasons, notes and
details, rows deleted by age, and administrators who chat.

### ChatClient and the code

A tab keeps `stored` (its sessionStorage), `held` and `status` (the React state of
`useSessionBootstrap`), `url` and `socket` (`useChatSocket` and react-use-websocket),
`store` (the slices). `runs` are the bootstrap runs under way, dead ones
included: `Run(at, id)` with `live` for the flag each effect closes over. `tokens`
are socket URLs that wait for an access token. `seen` and `dirty` say whether the
effects have to run: what they depended on when they last ran, and whether a
render has passed another `onError` since.

`Effects` is one flush: the effects of the hooks in their order, so that the id of
a tab that may not chat any more is dropped, runs are cancelled, one is started,
and the URL of another id is asked for in one step. A run is `ClaimOwned`
or `ClaimTimeout` after the broadcast, then `ServeCreate`, and `Created` or
`CreateFailed`; cancelling deletes the resolver of its claim (`Deaf`), so that only
the timeout answers it. `Reply` is another tab that holds the id. The server is `active`,
the account's active row, which `POST /api/session` gives back if there is one,
and `EndSession`. `Mount` is a page that starts anew: `Reload` kills what was under way,
`ChangeRoute` only cancels it and keeps the store.

### ClientAuth and the code

`login` and `stack` are what the server and the Stack SDK would say; `auth` and
`ready` are the state of `AuthProvider`. Every question in flight is a member of
`calls`, with what becomes of its answer (`kind`), for whom it was asked (`key`,
`n`) and whether the component that asked still wants it (`live`). The server
answers with what it holds then (`Serve`), and the answer is applied when it comes
(`Booted`, `Probed`, `Guarded`, `Synced`, `SignedOut`, `LoggedOut`, `ProfileSaved`). `polling`,
`wasIn`, `expired` belong to the chat page, `validated` and `revalidating` to the
administrators' guard, `syncing` and `syncFailed` to the sign-in page, `gender` and
`settings` to the dialogs. `pending` says that effects have yet to run; `leaving` is the
page a `Navigate` has asked for. The gender dialog goes with its condition
(`GenderKept`). `Show` is another page: the layout keeps its `AuthProvider`, the
sign-in page has one of its own.

### ChatScreen and the code

A frame or a click changes a store that React renders at once
(`useSyncExternalStore`), effects included: each is one action, and `Show` is what the
store's change does to the sidebar, the list, the typing timer and the report
dialog. Timers, animation frames and HTTP answers are actions of their own.
`emitTyping` is another function at each render of the provider, so each render
restarts the typing timer with the partner of that render (`RearmTimer`); `said`
is no state of the page: it says whether the partner was last told that the user
types. The soft keyboard's heights are steps of more than the threshold. `count` is
the query of the online count, `online` how often the real one has changed.

### AdminConsole and the code

A button starts an async function that awaits one request after the other. A
task is such a function: its `kind` and the requests it has left, fixed at the click
by the closure (`ListReports(filter, detail.id)` keeps the filter and the report of
the click). `Serve`, `Refuse` and `Forbid` are the server, and the retry of
`runWithAdminRetry`; `ReportsLoaded`, `ReportsFailed`, `RestrictedLoaded`,
`DetailLoaded`, `ActionDone`, `ActionFailed` and `AuditLoaded` what the function does up
to its next await, the flag of the next load included. `Selects` is the effect on
`selectedReportId`. A function that ends puts its own flag down (`Finished`, the
`finally`). The other page unmounts everything (`Navigate`); what was under way then is
among `OtherAdmin`, who may do whatever the server accepts.

A definition of the form `<Name><Slip>` that stands before `<Name>`, such as
`PointsBackNever` before `PointsBack` (or, in `Moderation`, a short form of the same such
as `LocateAny` before `Locate`), is a variant with one slip in it (a check
or a step forgotten, an order swapped). Nothing uses it. `PROJECT.json`, under
`mutants`, says which run notices when it takes the original's place, and so that
every property checked depends on the code.

## Runs

| Run | Instance | Shows |
| --- | --- | --- |
| `pairing` | three sessions, two of them of one account, no unique index, one tab each, no messages | the type invariant, `PartnersMutual`, `DurableMatchesAgree`, `NoLostSearcher`, `WaitsOnce`, `NobodyOverlooked`, `PresenceExact`, `AbandonedMatchHasClock`, `OnlyActiveMatched`, `KeepsOrder`, and that the runtime implements `Pairing` |
| `transcripts` | two sessions of two accounts, two tabs each, a message id and messages without one, histories of three entries | under fairness: `TranscriptPrivate`, `TranscriptsMirror`, `DeliveredOnce`, the inductive invariant `Inv`, `LockReleased` and `AbandonedMatchEnds` |
| `window` | two sessions, one tab each, under fairness | `WindowDecides` does not hold: see Findings |
| `endpoint` | two sessions of two accounts, one tab each | the inductive invariant `EInv` (the types `ETypeOK` among its parts), that the endpoint's steps are steps of `ChatRuntime` (`UsesRuntime`), `HubCounts`, `DropHasHandler` |
| `nudge` | as `endpoint`, without blank messages | `QueueEntryStands` does not hold: see Findings |
| `blip` | as `endpoint`, without blank messages | `BlipKeepsMatch` does not hold: see Findings |
| `moderation` | two administrators' requests, any of which may die, restarts; a user with two requests at a time and a stranger with one, a session each, one report, two verdicts | `TypeOK`, `ReportsPartners`, `ReviewAudited`, `RestrictionAudited`, `RevokedForGood`, `OnlyActiveChat`, `StaysOut`, `KeepsPairing` |
| `loophole` | one administrator; a user with two sessions and two requests at a time, a stranger; nothing fails | `RestrictedAreOut` does not hold: see Findings |
| `tabs` | two tabs, one of them open at first, two sessions, six events, under fairness | `TypeOK`, `LateAnswersIgnored`, `GetsSession` |
| `auth` | two attempts of the sign-in page, four events, under fairness | `TypeOK`, `WaitsForSomething`, `EndNoticed` |
| `screen` | two partners, two messages, six events | `TypingTakenBack`, `CountFresh` |
| `console` | two reports about one account, restricted for one of them; three functions under way, two clicks | `TypeOK`, `FlagsOwned`, `NoBlankDetail` |

The bounds. Three sessions are the fewest in which a pair, a third who waits, a
candidate of the searcher's own account and a partner who was matched again all
occur; the shared account needs the schema before migration 0002 or rows created
before it, so `pairing` lets an account own two active sessions
(`OnePerAccount = FALSE`), which is the more general case, while the others use the
index. Two tabs are the fewest for which "the last socket" differs from "a
socket". A history of three entries is trimmed after a farewell of the match
before and three messages; an id that comes again is a duplicate, and messages without
one are never.
In `endpoint` two
handlers of two sessions interleave with each other, with both clients and with
the expiry loop; that is where one handler ends the match another one is about to
act on. Handlers of three sessions, and several tabs of one session, are beyond TLC
here; the proofs cover them for any number (`SocketsCounted`, `DropsHandled`). There is no
restart, and the sessions may all be removed in the end, so deadlock is not
an error there.
In `moderation` the two administrators race (two reviews, two restrictions, or
one of each), or one undoes what the other did; both verdicts differ,
so that an event with the other's verdict shows. The two requests of a user are
two creations at once, or a socket and a creation after it, or two sockets of which
one was authorized before a revocation. In `loophole` the second session is the one that is
created when the first is closed. One report is enough for a restriction to name one.
The names of administrators, verdicts and the user's requests and sessions are
interchangeable, hence the symmetry; none of these properties is a liveness property.
`MaxTabs` and `MaxReports` are the only bounds in a guard of the server's modules. The code's history limit is 20 and
its windows are 180 s and 5 s: only the order of events matters, so a deadline is
none, running or lapsed.

The client's modules bound what comes from outside (`Event`: clicks, frames, faults, changes
of the login); requests, answers, timers and effects are free. When the events are
used up they stop, so deadlock is no error in these runs. In `tabs` six events
are a sign-in of both tabs, the opening of the second, a lost request and a sign-out
with one to spare (127,356 states); a second session is one that was created after the first
ended. In `auth` four events are the end of a login, a lost answer, a visit to another page
and a way back (345,760 states); two attempts tell the last from the others, five
repeat the middle. In `screen` six are the three
frames of a match, a key, a lost socket and another partner, or a change of the
count, a poll and the pushes around it (2,714,673 states); the partners are
interchangeable, and neither property is a liveness property. In `console` three functions are the most that overlap in one panel: an action,
a detail and a list; two reports tell a selection from another (219,676 states). What the
bounds exclude is covered by the proofs of each module, which hold for any number of
events, tabs, reports and tasks.

Fairness (`Fairness` in `ChatRuntime`). The holder of the lock goes on: weak
fairness of the turns of both loops. `asyncio.Lock` serves waiters in the order they
came, so who waits gets it although it is taken in between: strong fairness of
`mark_disconnected` for a session whose last socket was dropped (the handler
calls it next, `chat_endpoint.py:264`). The expiry loop calls once a second
(`lifespan.py:40-52`), so it too competes for the lock for ever: strong fairness
of `BeginExpiry` while a given deadline is in the past. Time passes: weak fairness
of `Lapse`. The process does not restart for ever. Nothing is assumed of clients:
no fairness on connecting, queueing, messages or leaving.

In `ChatClient` React runs effects that are due, and each tab's runs go on: a claim
ends after 160 ms, the server answers what it is asked (weak fairness of `Effects`
and `RunStep`). In `ClientAuth` a request is answered or aborted after its timeout,
what has come is applied, effects run and the interval of the chat page fires (weak
fairness of `Serve`, `Settle`, `Effects`, `Poll`). Lost requests are events: only finitely
many. `ChatScreen` and `AdminConsole` state no liveness property.

## Findings

`window`: a session that loses its connection while matched is given 180 seconds,
after which it is removed and its row is closed; the client's documentation calls
this window the source of truth for session expiry. When its *partner* leaves
during the window, `disconnect_partner` and `_remove_session_unlocked` reset the
absent session's record, deadline included, as if it were connected. Nothing
expires it afterwards: the record and the active row stay until the client
returns. One way there is: two sessions are matched; one drops and
`mark_disconnected` runs; the other disconnects. The counterexample TLC prints
gets there by a restart, after which the partner is revoked.

`nudge`: `disconnect_partner` takes care not to reset a partner that has gone to
the queue, because its entry would be silently invalidated. Its caller's own
session gets no such care. A tab may send a message for a match that has ended:
MATCH of an earlier search arrives after its user has asked for the next partner,
so the tab shows a stranger and `me.state` is still connected. When the handler
gets to the message, the session is SEARCHING in the queue; having no partner
is taken for "the partner is gone", and `_disconnect_current_chat` makes it IDLE.
The entry left behind is dropped by the next search, DISCONNECT does not change
`me.state`, so the tab shows a search that nobody makes, with the button that
would start another hidden. A stopped-typing report does the same from another
tab of the session.

`blip`: a client that refreshes is meant to come back to its match. Between
`unregister_ws` and the moment `mark_disconnected` gets the lock, the session
has neither a socket nor a deadline. A message or typing notice of the partner
that arrives in between is answered by ending the match, as if the session
were gone for good; a moment later it would be held back.

`loophole`: "Restricted accounts blocked from creating or using chat sessions", says
the plan of this part. `restrict_account` looks for a session to revoke before it
writes the restriction, and a creation checks the account before it inserts the
row. A creation that has passed the check may insert its row after the search found
none; its socket is authorized before the restriction is stored. Then the
restriction is in force, nobody revokes the session, and neither a search nor a
message asks for the account again: the restricted account waits, is matched and
chats until its socket closes. `StaysOut` is what does hold: a restricted account that is out,
with no creation under way, stays out.

## Observed

Some behaviours came up while the modules were written. Nothing in
the repository promises otherwise, so they are no findings, and the models have
them:

- A message that `strip()` leaves nothing of ends the match, as if the partner were gone
  (`runtime_service.py:194`, `chat_endpoint.py:133`). The composer trims what it sends, but
  JavaScript's `trim()` keeps U+001C to U+001F and U+0085, which Python's `strip()` takes
  away; other clients need not trim at all. `BlankSent` says whether users send such
  messages: they do in `endpoint`, and not in `nudge` and `blip`, whose matches must end
  for another reason.
- The detail of a report that was selected before is shown when its answer comes last,
  under the selection of another; drafts of notes stay with the panel, not the report.
- `submitReview` and `submitAccountAction` reload the list with the filter of the click.
  The success message of an action is wiped by the detail it loads next. An older list of
  restricted accounts may replace a newer one.
- `createSession` gives back the account's active session: a duplicated tab that was told
  that its id is taken gets the same id from the server. Two tabs that start at once both
  take the stored id. The server counts sockets per session, so this is safe there.
- An error of the bootstrap renders, the render makes another `onError`, and the effect
  tries again at once, without a pause; so does every frame that renders the provider.
- A socket refused with `CHAT_SESSION_FORBIDDEN` is tried again with the same id.
- A refresh that was asked before a logout and is answered after it signs the page in
  again; a refresh that was asked before a gender was saved shows the dialog again.
- The chat page's comments expect the notice that the login has ended; the render
  before `setSessionExpired` already mounts the `<Navigate>` to the sign-in page.
- If Stack's sign-out fails, the sign-in page shows its card without buttons.
- A settings form that was made before the gender was fixed sends `unknown` and is
  refused (409); the rejection is not caught and the dialog stays open.
- A report dialog that is closed while its report is under way and opened again may be
  closed or unlocked by the answer to the first.
- The list stays where it was if a chat is cleared while its user was not at the end.
- Polling of the online count resumes only with a render or an answer.
- A phone that is turned looks like an open keyboard for 300 ms.

## Proofs

`ChatRuntimeProofs` proves about `ChatRuntime`, for any set of sessions and
accounts, any history limit, any number of tabs and either schema:

| Theorem | States |
| --- | --- |
| `TypeCorrect` | `Spec => []TypeOK` |
| `Mutuality` | `Spec => []PartnersMutual` |
| `DurableAgreement` | `Spec => []DurableMatchesAgree` |
| `Presence`, `Clocks` | `Spec => []PresenceExact`, `Spec => []AbandonedMatchHasClock` |
| `LoopsEnd` | `Spec => [][LoopsGoOn]_vars`: each turn of a loop shortens what it goes through, or is the last |
| `NobodyForgotten` | `Spec => []NoLostSearcher` |
| `WaitingOnce` | `Spec => []WaitsOnce` |
| `SearchesAll` | `Spec => []NobodyOverlooked` |
| `ActiveOnly` | `Spec => []OnlyActiveMatched` |
| `FirstComeFirst` | `Spec => KeepsOrder` |
| `FirstFit` | `Spec => [][FirstWhoFits]_vars`: whoever is passed over by a match is of left_id's account |
| `Privacy` | `Spec => []TranscriptPrivate` |
| `Delivery` | `Spec => []DeliveredOnce` |
| `Mirrors` | `Spec => []TranscriptsMirror` |
| `Implements` | `Spec => Refines`: every step of the runtime is a step of `Pairing` or stutters |
| `MatchedByConsent` | `Spec => [][MatchesSearchers]_vars`, by `Implements` from a theorem about `Pairing` |
| `Inductive` | `Spec => []Inv`, all of it |
| `StartupRepairs` | `Durable /\ Restart => Inv'`: what the startup needs to find, to bring back all of it |

They rest on the assumptions on constants that `ChatRuntime` names: None is no
session, every session has an owner, the limits are positive. `PairingProofs`
proves `CouplesAlways` and `Consent` about the abstract specification: partners are mutual
strangers, and are found only by two who both seek.

`ChatEndpointProofs` proves about `ChatEndpoint`, for any sessions, any finite set of
tabs and any assignment of tabs to sessions:

| Theorem | States |
| --- | --- |
| `Usage` | `ESpec => UsesRuntime`: every step of the endpoint is a step of the runtime or none |
| `RuntimeHolds` | `ESpec => []Inv`: what is proved of the runtime holds under the endpoint |
| `EndpointInductive` | `ESpec => []EInv` |
| `SocketsCounted` | `ESpec => []HubCounts` |
| `DropsHandled` | `ESpec => []DropHasHandler` |
| `TabsTyped` | `ESpec => []ETypeOK` |
| `EndpointPairs`, `ServedInTurn` | `ESpec => Refines`, `ESpec => KeepsOrder`: the runtime's promises, kept by all its callers together |

Beyond the runtime's assumptions they need `TabAssumption`: finitely many tabs,
each with a session's id.

`ModerationProofs` proves about `Moderation`, for any accounts, sessions, requests,
administrators and verdicts, with or without failures:

| Theorem | States |
| --- | --- |
| `Typed` | `Spec => []TypeOK` |
| `ActiveChat` | `Spec => []OnlyActiveChat` |
| `PairingKept` | `Spec => KeepsPairing` |
| `Revoked` | `Spec => []RevokedForGood` |
| `Excluded` | `Spec => StaysOut` |
| `ReviewsAudited` | `Spec => []ReviewAudited` |
| `RestrictionsAudited` | `Spec => []RestrictionAudited` |
| `PartnersReported` | `Spec => []ReportsPartners` |

They rest on the assumptions `Moderation` names: the None values are outside the
sets they stand beside, every session and request has an account, and "open" is no
verdict.

The client's modules are proved about for any tabs, sessions, partners, reports,
accounts, messages and events:

| Theorem | States |
| --- | --- |
| `ChatClientProofs`: `TypeCorrect`, `LateAnswersDropped` | `Spec => []TypeOK`, `Spec => []LateAnswersIgnored` |
| `ClientAuthProofs`: `TypeCorrect`, `NoVainWait` | `Spec => []TypeOK`, `Spec => []WaitsForSomething`, for any number of attempts |
| `ChatScreenProofs`: `TypeCorrect`, `TypingEnds`, `FreshCount`, `Unlocked` | `Spec => []TypeOK`, `Spec => []TypingTakenBack`, `Spec => []CountFresh`, `Spec => []NeverLocked` |
| `AdminConsoleProofs`: `TypeCorrect`, `FlagsDown`, `PanelShown` | `Spec => []TypeOK`, `Spec => []FlagsOwned`, `Spec => []NoBlankDetail` |

They assume the bounds to be numbers, the tabs that are open at first to be tabs, at least one
attempt of the sign-in page, and of the console that every report is about an account and has
a reason, that there are no more reports than a page of its lists has, and room for
three functions, as two start when a page is mounted.

The argument for the runtime. None of the properties is inductive alone. `PartnersMutual` fails
after a step that resets "the partner" unless the partner's record exists, which
needs `AbsentIsBlank` (a record that is not stored has no partner and no deadline);
after `Pair` unless what the search holds in its hands is still fit to be matched,
which needs `SearchInHand` (while the lock is held for a search, `left_id` is
SEARCHING, and connected unless its `mark_disconnected` waits for the lock).
`DurableMatchesAgree` needs mutuality: ending every match that involves one session
ends exactly the pair in Redis. These five form `PairInv`, which is inductive.
`ClockInv` is inductive given the types; its third part, `ExpiryInHand`, says that
whoever `expire_stale_sessions` has listed has no socket, and that the list is empty exactly
when the loop does not hold the lock. `LineInv` splits `WaitsOnce` into
statements about the queue, the deferred list and `left_id` (`LineParts`), because
a turn of the search moves one id between them; `NoLostSearcher` holds because an
id is only dropped when it cannot be matched, and a session that is SEARCHING and
connected always can be unless it stands in the line elsewhere, which is where
`ClockInv` comes in; the case of left_id popped again is excluded by
`LineParts`. `NobodyOverlooked` needs `DeferredShare`: only candidates of left_id's account
are put aside, so a stranger who could be matched is still in the queue. `Privacy` needs mutuality to know that the farewell goes to a
history that was cleared. `Implements` uses `PairInv`: a reset of two records
is `Part` only since the partner points back.

`KeepsOrder` is an action property of `Line`, the deferred list, left_id and the
queue in the order in which they stand once the search has given back what it holds.
Its proof is a lemma about `Before` for each operation on sequences that the code uses
(taking the head, `LREM`, concatenation, appending), and one step per action: a turn of the search moves an
id from one part of `Line` to the next without changing the whole, `GiveUp` puts the
parts together again, and it matters there that nothing is deferred while left_id is
free (`SearchInHand`). `FirstFit` reads the same order at the moment of a match.

The transcripts. `TranscriptsMirror` compares what two bounded lists show, each trimmed on its own and one of
them perhaps headed by the notice of an earlier match. It is inductive
once the notice is known to be the first entry or gone (`NoticeFirst`), because
a history is cleared before a notice is written, and nothing but messages follows: then the two
conversations end with the same entries, the shorter is a suffix of the longer, and an append to both and a trim
of either keep that. The lemmas (`RememberNewest`, `ConversationNewest`, `EndsWithAligned`,
`ConversationGrows`) count positions from the newest entry, since trimming renumbers them from the oldest;
no induction over the lists is needed. `DeliveredOnce` needs `IdsRecorded`: an id that a history
shows is recorded with the match the history is of, so a second message with it is
a duplicate, also after the first has been trimmed from one side.

Restart. `Restart` is one of the steps that keep `Inv`, but it needs far less than
`Inv`: `StartupRepairs` assumes `Durable`, the pairs in Redis, their rows and
their transcripts, and nothing of states, deadlines, the waiting list or presence. Whatever a
method had in its hands or had written of those when the process died is
repaired. What `Durable` does ask, that the two records of a pair and the row agree, is what a crash
between two of a method's writes of *those* can break: the repair
looks at each record alone.

The argument for the endpoint. `Usage` goes action by action: each is a call of the
runtime or leaves it alone; `ENext` never adds a conjunct that changes a
variable of the runtime. With it `Inv` is available in every state. `HubCounts`
is not inductive: `ExpireOne` empties the hub's entry of the session it removes,
whatever is in it. It needs the runtime's `ExpiryInHand`: a session that
`expire_stale_sessions` has listed has no socket, by `PresenceExact` when the list is
made (a session with a socket has no deadline), and gets none while the loop holds
the lock, since `register_connection` waits for it. `OpenHandlers` ties the hub to
where the handlers stand, so that a handler that unregisters finds its socket.
`DropHasHandler` is `DroppingHandled` with `PresenceExact`; it rests on
the count that `unregister_ws` returns. `Announcers` is what makes `Announce` safe to
take the head of its outbox.

The argument for moderation. The types alone are not inductive: a request's
`account`, `report` and `found` must be real ones exactly when it stands where it
uses them. `Locals` says so (`CallOK`, `TaskOK`, `RecordsOK`, `RuntimeOK`). `ChatInv` adds
that partners are mutual (`Couples`) and `OnlyActiveChat`: a removal clears the
partner on both sides only since they point at each other, and a couple of active
sessions stays one until a removal. `Revoked` needs one more fact, `FoundClosed`: once
a row has been active and is closed it never becomes active again, since only
`Insert` activates and takes unissued rows. The audit properties go by two
observations about any step: `DueMoves` (an event that was due is still due,
written, or lost) and `TrailGrows`; `OwnSteps` says that only a task's own steps and a
restart change its event. Two reviews of one report overwrite each other in `reports`; the
event due to the earlier reviewer then carries the later verdict, but the decision that
stands has its own reviewer's event, which is what `ReviewAudited` asks.
`PartnersReported` needs `ReportInv`: what a request has located is in `met`, which
only grows.

The argument for the client. `LateAnswersIgnored` holds because of `TabInv`: only a tab whose
effects have seen that it may chat holds an id or has a live run; a live claim is for the
stored id, or for one that has been cleared since; there is one live run; the live token
and the URL are for the id the effects last saw; a tab that is closed has nothing.
Without the second fact a claim that times out could leave `held` and `stored` with
different ids. Logging out clears `stored` before the effects have run, which is why
the fact allows none.

The argument for the login. Each flag has an invariant of its own (`BootInv`, `GuardInv`,
`SyncInv`, `GenderInv`): it belongs to a call that is in flight and, where the component that
asked may go, live: the `finally` of an orphaned call does nothing, so an orphaned call
is nothing to wait for. At most one loop of the sign-in page is live since the effect that starts one
orphans the others; a gender phase other than idle needs the dialog's condition to hold
(`GenderAsked`), since otherwise the dialog has gone, and its call with it.

The argument for the screen. `TypingTakenBack` is inductive beside the types: every
render that changes the partner also forgets what was said and rearms the timer for the
new one. `CountFresh` needs that an answer under way is not older than the last push,
which holds as a push cancels the query, and that no push is ahead of the server
(`CountOK`). The report dialog is open on the page of a partner only (`ReportOK`), so that
every report is about one, and toasts are numbered (`ToastOK`), so that a timeout of
an old one removes no newer one.

The argument for the console. `Shape` says what a task looks like: an action comes first and
a load follows, so that a function never ends with an action and its `finally` is reached
by a load or by the catch. `ViewOwned` ties the loading flags and the panel to the heads of
the tasks, `ButtonsOwned` the submitting flags to their kinds. One lemma per way to change a task
(`Starting`, `Stepping`, `Finishing`, `Selecting`) says what it does to both, and each
action uses one or two of them.

Every safety property that a passing run checks is also proved. Only model-checked are the liveness
properties `LockReleased`, `AbandonedMatchEnds`, `GetsSession` and `EndNoticed`: liveness under fairness and
ENABLED are out of the prover's reach. Of the first, `LoopsEnd` proves what does
not need fairness (each turn takes something away, so a list of any length comes
to its end); of the second, `Clocks` proves that something is always under way that
will end the match. The four violations under Findings are TLC's counterexamples.

## Not modelled

`PROJECT.json` lists each component with its state and each hazard with what covers it.

- *Disconnect notices* (`disconnect_notices.py`): the pending task per session, its grace
  period, and its cancellation, which may land inside a method of the runtime. The calls
  a notice makes are among those `ChatRuntime` allows at any moment, so its invariants hold
  for notices that are not cancelled inside `disconnect_partner`; what a cancellation there
  leaves is not shown.
- *Single calls that fail, and crashes inside a method* of the runtime: each method of
  `ChatRuntime` is atomic apart from its loops. A restart between two steps is modelled.
  `StartupRepairs` shows that a crash inside a method is repaired unless it comes
  between the writes of a pair's two records, its row and its histories; which of those a
  method may be cut off between would take a module in which each write is a step.
- *The presence broadcast's debounce* and the cancellation of its pending task. Its
  removal of dead sockets is `Sweep`, what a pushed count does is in `ChatScreen`.
- *Creation and binding of accounts* by Stack identities, display names, tokens and cookies.
  Login is `ClientAuth`'s `login`, an account in `Moderation` is a verified one.
- *Retention* deletes rows by age, which no decision depends on.
- *The user interface without state that others read*: animation, canvas and the landing
  page's drawing, translations, styles; the classic chat variants and the measured list,
  which no route uses; Stack's own pages.
- *Configuration, health routes, deployment*, and ports without behaviour (moderation gateway,
  feature flags, event bus, job dispatcher, audit sink).
