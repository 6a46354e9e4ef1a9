------------------------------ MODULE Moderation ------------------------------
(***************************************************************************)
(* Who may chat, and what administrators do about it: creation and         *)
(* authorization of chat sessions, the gate of the waiting list, reports,  *)
(* their review, restriction of an account and its restoration.            *)
(*                                                                         *)
(* A request is a sequence of short PostgreSQL transactions (READ          *)
(* COMMITTED) and of calls of the chat runtime; others run between any two *)
(* of them, so each is one step.  The runtime appears as what it promises, *)
(* Pairing, which ChatRuntime implements.                                  *)
(***************************************************************************)
EXTENDS Integers, Sequences, FiniteSets

CONSTANTS
  Session,     \* ids of chat sessions
  Account,     \* accounts that chat: those with a verified e-mail address;
               \* an account is none before it is verified, and stays one
  NoAccount,   \* a task that is about no account
  AccountOf,   \* the owner of each session; a row never changes owner
  NoSession,   \* None where a session id may stand
  Request,     \* requests of users: HTTP calls, or a socket and its handler
  UserOf,      \* the account each request is authenticated as
  Admin,       \* requests of administrators, one each; they do not chat
  NoAdmin,     \* a report nobody has reviewed
  Verdict,     \* what a review may decide
  MaxReports,  \* reports filed or under way (bounds the model)
  MayFail      \* TRUE: a request of an administrator may die half-way

ASSUME NoSessionAssumption == NoSession \notin Session
ASSUME NoAccountAssumption == NoAccount \notin Account
ASSUME NoAdminAssumption == NoAdmin \notin Admin
ASSUME AccountAssumption == AccountOf \in [Session -> Account]
ASSUME UserAssumption == UserOf \in [Request -> Account]
ASSUME VerdictAssumption == "open" \notin Verdict
ASSUME MaxReportsAssumption == MaxReports \in Nat
ASSUME MayFailAssumption == MayFail \in BOOLEAN

VARIABLES
  restriction, \* the report an account is restricted for; 0 if it is not
  status,      \* chat_sessions.status; closed and expired rows behave alike
  met,         \* chat_matches, ended or not, as sets of two sessions
  reports,     \* chat_reports; an id is a position
  audit,       \* audit_events the administrators' requests have written
  lost,        \* audit events never written, because their request died
  seeking,     \* runtime: sessions that wait for a partner
  partner,     \* runtime: the partner of each session
  stored,      \* runtime: sessions with a record in Redis
  hub,         \* runtime: the sockets of each session
  call,        \* what each request of a user does next, and its locals
  task         \* the same for the requests of administrators

durable == <<restriction, status, met, reports, audit, lost>>
runtime == <<seeking, partner, stored, hub>>
vars == <<restriction, status, met, reports, audit, lost, seeking,
          partner, stored, hub, call, task>>

Runtime == INSTANCE Pairing

--------------------------------------------------------------------------------
ReportId == 1 .. Len(reports)

Issued == {s \in Session : status[s] # "unissued"}

(* _require_chat_enabled_account. *)
ChatEnabled(a) == restriction[a] = 0

ActiveSessions(a) == {s \in Session : AccountOf[s] = a /\ status[s] = "active"}

(* owns_chat_session and touch_chat_session.  The second asks what the     *)
(* first asked, and an owner never changes, nor does a row become active   *)
(* again: the two are one step, the second.                                *)
Owned(r, s) == s \in ActiveSessions(UserOf[r])

ReportedAccount(n) == AccountOf[reports[n].reported]

NoCall == [at |-> "none", session |-> NoSession, other |-> NoSession,
           match |-> {}, retried |-> FALSE]

NoTask == [at |-> "none", account |-> NoAccount, report |-> 0, verdict |-> "open",
           found |-> NoSession, sockets |-> {}]

Done == [NoTask EXCEPT !.at = "done"]

(* A socket that is closed is not one a later socket can be taken for.     *)
Forgetting(R) == [d \in Admin |-> [task[d] EXCEPT !.sockets = @ \ R]]

Moves(r, from, to) == call[r].at = from /\ call' = [call EXCEPT ![r].at = to]

Ends(r, from) == call[r].at = from /\ call' = [call EXCEPT ![r] = NoCall]

(* The events a task writes to the audit trail once its effect is stored.  *)
ReviewedEvent(d, v, n) ==
  [event |-> "reviewed", actor |-> d, report |-> n, verdict |-> v]
RestrictedEvent(d) ==
  [event |-> "restricted", actor |-> d, account |-> task[d].account,
   report |-> task[d].report, session |-> task[d].found]
RestoredEvent(d) ==
  [event |-> "restored", actor |-> d, account |-> task[d].account]

(* The event a task has yet to write.  review_report loads the report      *)
(* again after its commit: verdict and all are those of the row by now.    *)
Due(d) ==
  CASE task[d].at = "audit review" ->
         {ReviewedEvent(d, reports[task[d].report].status, task[d].report)}
    [] task[d].at = "audit restriction" -> {RestrictedEvent(d)}
    [] task[d].at = "audit restoration" -> {RestoredEvent(d)}
    [] OTHER -> {}

Init ==
  /\ restriction = [a \in Account |-> 0]
  /\ status = [s \in Session |-> "unissued"]
  /\ met = {}
  /\ reports = << >>
  /\ audit = {}
  /\ lost = {}
  /\ Runtime!Init
  /\ stored = {}
  /\ hub = [s \in Session |-> {}]
  /\ call = [r \in Request |-> NoCall]
  /\ task = [d \in Admin |-> NoTask]

--------------------------------------------------------------------------------
(* POST /api/session: create_chat_session.                                 *)

StartCreateUnchecked(r) ==
  /\ Moves(r, "none", "looking")
  /\ UNCHANGED <<durable, runtime, task>>

StartCreate(r) ==
  /\ ChatEnabled(UserOf[r])
  /\ Moves(r, "none", "looking")
  /\ UNCHANGED <<durable, runtime, task>>

(* The active row is reused; without one the request goes on to insert.    *)
LookForActive(r) ==
  /\ IF ActiveSessions(UserOf[r]) = {} THEN Moves(r, "looking", "inserting")
     ELSE Ends(r, "looking")
  /\ UNCHANGED <<durable, runtime, task>>

(* The insert of a new row, which the unique index admits. *)
Insert(r, s) ==
  /\ Ends(r, "inserting")
  /\ AccountOf[s] = UserOf[r]
  /\ status[s] = "unissued"
  /\ ActiveSessions(UserOf[r]) = {}
  /\ status' = [status EXCEPT ![s] = "active"]
  /\ UNCHANGED <<restriction, met, reports, audit, lost, runtime, task>>

(* IntegrityError: all over again, once; the account is not checked anew.  *)
InsertConflict(r) ==
  /\ call[r].at = "inserting"
  /\ ActiveSessions(UserOf[r]) # {}
  /\ call' = [call EXCEPT ![r] =
                IF @.retried THEN NoCall
                ELSE [@ EXCEPT !.at = "looking", !.retried = TRUE]]
  /\ UNCHANGED <<durable, runtime, task>>

--------------------------------------------------------------------------------
(* /ws: a socket from its authorization to its end.  The session id comes  *)
(* from the browser's storage and may be another account's.                *)

(* authorize_chat_session: the account, then its row.  A row that is       *)
(* active when it is touched was so when the account was read: one step.   *)
Authorize(r, s) ==
  /\ call[r].at = "none"
  /\ ChatEnabled(UserOf[r])
  /\ Owned(r, s)
  /\ call' = [call EXCEPT ![r] = [NoCall EXCEPT !.at = "accepted", !.session = s]]
  /\ UNCHANGED <<durable, runtime, task>>

(* bootstrap_connection.  The row may have been closed since.              *)
Register(r) ==
  LET s == call[r].session
  IN /\ Moves(r, "accepted", "open")
     /\ stored' = stored \cup {s}
     /\ hub' = [hub EXCEPT ![s] = @ \cup {r}]
     /\ seeking' = IF hub[s] = {} THEN seeking \ {s} ELSE seeking
     /\ UNCHANGED <<durable, partner, task>>

QueueUnlessClosed(r) ==
  LET s == call[r].session
  IN /\ call[r].at = "open"
     /\ ChatEnabled(AccountOf[s])
     /\ Runtime!Seek(s)
     /\ UNCHANGED <<durable, stored, hub, call, task>>

(* enter_queue, whose gate is is_verified_chat_session.                    *)
EnterQueue(r) ==
  LET s == call[r].session
  IN /\ call[r].at = "open"
     /\ status[s] = "active"
     /\ ChatEnabled(AccountOf[s])
     /\ Runtime!Seek(s)
     /\ UNCHANGED <<durable, stored, hub, call, task>>

(* The socket leaves the hub.  The last one takes the session off the      *)
(* list.  A handler that the gate has refused is over, and its socket is   *)
(* found dead later: until then it is one more socket that is open here.   *)
Close(r) ==
  LET s == call[r].session
  IN /\ call[r].at = "open"
     /\ call' = [call EXCEPT ![r] = NoCall]
     /\ hub' = [hub EXCEPT ![s] = @ \ {r}]
     /\ seeking' = IF hub'[s] = {} THEN seeking \ {s} ELSE seeking
     /\ task' = Forgetting({r})
     /\ UNCHANGED <<durable, partner, stored>>

(* try_match. *)
Match(s, t) ==
  /\ hub[s] # {}
  /\ hub[t] # {}
  /\ Runtime!Couple(s, t)
  /\ met' = met \cup {{s, t}}
  /\ UNCHANGED <<restriction, status, reports, audit, lost, stored, hub, call,
                 task>>

(* disconnect_partner. *)
Part(s) ==
  /\ partner[s] # NoSession
  /\ Runtime!Part(s, partner[s])
  /\ UNCHANGED <<durable, stored, hub, call, task>>

RemoveOneSided(s) ==
  /\ hub' = [hub EXCEPT ![s] = {}]
  /\ stored' = stored \ {s}
  /\ seeking' = seeking \ {s}
  /\ partner' = [partner EXCEPT ![s] = NoSession]
  /\ status' = [status EXCEPT ![s] = "closed"]
  /\ UNCHANGED <<restriction, met, reports, audit, lost>>

RemoveWaits(s) ==
  /\ hub' = [hub EXCEPT ![s] = {}]
  /\ stored' = stored \ {s}
  /\ seeking' = seeking
  /\ partner' = [t \in Session |->
                   IF t = s \/ partner[t] = s THEN NoSession ELSE partner[t]]
  /\ status' = [status EXCEPT ![s] = "closed"]
  /\ UNCHANGED <<restriction, met, reports, audit, lost>>

RemoveMislabelled(s) ==
  /\ hub' = [hub EXCEPT ![s] = {}]
  /\ stored' = stored \ {s}
  /\ seeking' = seeking \ {s}
  /\ partner' = [t \in Session |->
                   IF t = s \/ partner[t] = s THEN NoSession ELSE partner[t]]
  /\ status' = [status EXCEPT ![s] = "restricted"]
  /\ UNCHANGED <<restriction, met, reports, audit, lost>>

(* _remove_session_unlocked, on any row. *)
Remove(s) ==
  /\ hub' = [hub EXCEPT ![s] = {}]
  /\ stored' = stored \ {s}
  /\ seeking' = seeking \ {s}
  /\ partner' = [t \in Session |->
                   IF t = s \/ partner[t] = s THEN NoSession ELSE partner[t]]
  /\ status' = [status EXCEPT ![s] = "closed"]
  /\ UNCHANGED <<restriction, met, reports, audit, lost>>

(* expire_stale_sessions. *)
Expire(s) ==
  /\ s \in stored
  /\ hub[s] = {}
  /\ Remove(s)
  /\ UNCHANGED <<call, task>>

--------------------------------------------------------------------------------
(* POST /api/chat/reports: submit_report of session t.                     *)

UnderWay == {r \in Request : call[r].at \in {"locating", "filing"}}

StartReport(r, t) ==
  /\ call[r].at = "none"
  /\ Len(reports) + Cardinality(UnderWay) < MaxReports
  /\ ChatEnabled(UserOf[r])
  /\ call' = [call EXCEPT ![r] = [NoCall EXCEPT !.at = "locating", !.other = t]]
  /\ UNCHANGED <<durable, runtime, task>>

LocateAny(r) ==
  LET t == call[r].other
      own == {s \in Issued : partner[s] = t}
  IN /\ call[r].at = "locating"
     /\ \/ own = {} /\ call' = [call EXCEPT ![r] = NoCall]
        \/ \E s \in own : call' = [call EXCEPT ![r].at = "filing",
                                               ![r].match = {s, t}]
     /\ UNCHANGED <<durable, runtime, task>>

(* get_active_match_for_account: any session of the user's that is matched *)
(* with t.  It comes second, after get_active_match of t and the session   *)
(* the request names; but a match that finds, of a session the user owns,  *)
(* is one this finds as well.                                              *)
Locate(r) ==
  LET t == call[r].other
      own == {s \in ActiveSessions(UserOf[r]) :
                partner[s] = t /\ status[t] = "active"}
  IN /\ call[r].at = "locating"
     /\ \/ own = {} /\ call' = [call EXCEPT ![r] = NoCall]
        \/ \E s \in own : call' = [call EXCEPT ![r].at = "filing",
                                               ![r].match = {s, t}]
     /\ UNCHANGED <<durable, runtime, task>>

(* create_report; the match may be over by now. *)
File(r) ==
  /\ Ends(r, "filing")
  /\ reports' = Append(reports,
                  [reporter |-> UserOf[r], reported |-> call[r].other,
                   match |-> call[r].match, status |-> "open",
                   reviewer |-> NoAdmin])
  /\ UNCHANGED <<restriction, status, met, audit, lost, runtime, task>>

--------------------------------------------------------------------------------
(* Administrators: review_report.                                          *)

StartReview(d, n, v) ==
  /\ task[d].at = "none"
  /\ reports[n].status = "open"
  /\ task' = [task EXCEPT ![d] = [NoTask EXCEPT !.at = "write review",
                                    !.report = n, !.verdict = v]]
  /\ UNCHANGED <<durable, runtime, call>>

(* The row is locked and written; its status is not looked at again.       *)
WriteReview(d) ==
  LET n == task[d].report
  IN /\ task[d].at = "write review"
     /\ reports' = [reports EXCEPT ![n].status = task[d].verdict,
                                   ![n].reviewer = d]
     /\ task' = [task EXCEPT ![d].at = "audit review"]
     /\ UNCHANGED <<restriction, status, met, audit, lost, runtime, call>>

WriteAuditBlindly(d) ==
  /\ task[d].at \in {"audit review", "audit restriction", "audit restoration"}
  /\ audit' = audit
  /\ task' = [task EXCEPT ![d] =
                IF @.found = NoSession THEN Done
                ELSE [@ EXCEPT !.at = "revoke", !.sockets = hub[task[d].found]]]
  /\ UNCHANGED <<restriction, status, met, reports, lost, runtime, call>>

(* AuditEventRepository.record, a transaction of its own, after each of    *)
(* the three effects.  A restriction that found a session goes on at once: *)
(* _force_revoke_chat_session remembers the sockets the session has.       *)
WriteAudit(d) ==
  /\ Due(d) # {}
  /\ audit' = audit \cup Due(d)
  /\ task' = [task EXCEPT ![d] =
                IF @.found = NoSession THEN Done
                ELSE [@ EXCEPT !.at = "revoke", !.sockets = hub[task[d].found]]]
  /\ UNCHANGED <<restriction, status, met, reports, lost, runtime, call>>

--------------------------------------------------------------------------------
(* Administrators: restrict_account and restore_account.                   *)

StartRestrictUnmatched(d, a, n) ==
  /\ task[d].at = "none"
  /\ task' = [task EXCEPT ![d] = [NoTask EXCEPT !.at = "find session",
                                    !.account = a, !.report = n]]
  /\ UNCHANGED <<durable, runtime, call>>

(* The source report has to be one about a session of the account. *)
StartRestrict(d, a, n) ==
  /\ task[d].at = "none"
  /\ ReportedAccount(n) = a
  /\ task' = [task EXCEPT ![d] = [NoTask EXCEPT !.at = "find session",
                                    !.account = a, !.report = n]]
  /\ UNCHANGED <<durable, runtime, call>>

(* get_active_chat_session_id_for_account, before anything is written.     *)
FindSession(d) ==
  /\ task[d].at = "find session"
  /\ LET active == ActiveSessions(task[d].account)
     IN \/ /\ active = {}
           /\ task' = [task EXCEPT ![d].at = "restrict"]
        \/ \E s \in active :
             task' = [task EXCEPT ![d].at = "restrict", ![d].found = s]
  /\ UNCHANGED <<durable, runtime, call>>

(* set_chat_access_restriction. *)
SetRestriction(d) ==
  /\ task[d].at = "restrict"
  /\ restriction' = [restriction EXCEPT ![task[d].account] = task[d].report]
  /\ task' = [task EXCEPT ![d].at = "audit restriction"]
  /\ UNCHANGED <<status, met, reports, audit, lost, runtime, call>>

(* _force_revoke_chat_session waits for the runtime to remove the session  *)
(* ...                                                                     *)
Revoke(d) ==
  /\ task[d].at = "revoke"
  /\ Remove(task[d].found)
  /\ task' = [task EXCEPT ![d].at = "close sockets"]
  /\ UNCHANGED call

(* ... and closes the sockets it remembered, which ends their handlers.    *)
CloseSockets(d) ==
  LET closed == {r \in task[d].sockets : call[r].at = "open"}
  IN /\ task[d].at = "close sockets"
     /\ call' = [r \in Request |-> IF r \in closed THEN NoCall ELSE call[r]]
     /\ task' = [Forgetting(closed) EXCEPT ![d] = Done]
     /\ UNCHANGED <<durable, runtime>>

(* restore_account asks nothing first. *)
Restore(d, a) ==
  /\ task[d].at = "none"
  /\ restriction' = [restriction EXCEPT ![a] = 0]
  /\ task' = [task EXCEPT ![d] = [NoTask EXCEPT !.at = "audit restoration",
                                    !.account = a]]
  /\ UNCHANGED <<status, met, reports, audit, lost, runtime, call>>

(* A transaction fails, or a call of the runtime: what has been committed  *)
(* stays, and the rest of the request is not done.                         *)
Fail(d) ==
  /\ MayFail
  /\ task[d].at \notin {"none", "done"}
  /\ lost' = lost \cup Due(d)
  /\ task' = [task EXCEPT ![d] = Done]
  /\ UNCHANGED <<restriction, status, met, reports, audit, runtime, call>>

(* The server process dies and comes back.                                *)
Restart ==
  /\ MayFail
  /\ lost' = lost \cup UNION {Due(d) : d \in Admin}
  /\ seeking' = {}
  /\ hub' = [s \in Session |-> {}]
  /\ call' = [r \in Request |-> NoCall]
  /\ task' = [d \in Admin |-> IF task[d].at = "none" THEN NoTask ELSE Done]
  /\ UNCHANGED <<restriction, status, met, reports, audit, partner, stored>>

--------------------------------------------------------------------------------
UserStep(r) ==
  \/ StartCreate(r)
  \/ LookForActive(r)
  \/ \E s \in Session : Insert(r, s)
  \/ InsertConflict(r)
  \/ \E s \in Issued : Authorize(r, s)
  \/ Register(r)
  \/ EnterQueue(r)
  \/ Close(r)
  \/ \E t \in Issued : StartReport(r, t)
  \/ Locate(r)
  \/ File(r)

AdminStep(d) ==
  \/ \E n \in ReportId, v \in Verdict : StartReview(d, n, v)
  \/ WriteReview(d)
  \/ WriteAudit(d)
  \/ \E a \in Account, n \in ReportId : StartRestrict(d, a, n)
  \/ FindSession(d)
  \/ SetRestriction(d)
  \/ Revoke(d)
  \/ CloseSockets(d)
  \/ \E a \in Account : Restore(d, a)
  \/ Fail(d)

Next ==
  \/ \E r \in Request : UserStep(r)
  \/ \E s, t \in Session : Match(s, t)
  \/ \E s \in Session : Part(s) \/ Expire(s)
  \/ \E d \in Admin : AdminStep(d)
  \/ Restart

Spec == Init /\ [][Next]_vars

--------------------------------------------------------------------------------
(* Properties *)

CallAt == {"none", "looking", "inserting", "accepted", "open",
           "locating", "filing"}

TaskAt == {"none", "write review", "audit review", "find session", "restrict",
           "audit restriction", "revoke", "close sockets",
           "audit restoration", "done"}

(* Type invariant. *)
TypeOK ==
  /\ restriction \in [Account -> 0 .. Len(reports)]
  /\ status \in [Session -> {"unissued", "active", "closed"}]
  /\ met \in SUBSET SUBSET Session
  /\ reports \in Seq([reporter : Account, reported : Session,
                      match : SUBSET Session, status : Verdict \cup {"open"},
                      reviewer : Admin \cup {NoAdmin}])
  /\ seeking \in SUBSET Session
  /\ partner \in [Session -> Session \cup {NoSession}]
  /\ stored \in SUBSET Session
  /\ hub \in [Session -> SUBSET Request]
  /\ call \in [Request -> [at : CallAt, session : Session \cup {NoSession},
                           other : Session \cup {NoSession},
                           match : SUBSET Session, retried : BOOLEAN]]
  /\ task \in [Admin -> [at : TaskAt, account : Account \cup {NoAccount},
                         report : 0 .. Len(reports),
                         verdict : Verdict \cup {"open"},
                         found : Session \cup {NoSession},
                         sockets : SUBSET Request]]

(* Whoever waits or is matched has an active row: a session that has been  *)
(* revoked or has expired does not come back, although a socket may still  *)
(* register under its id, authorized before the row was closed.            *)
OnlyActiveChat ==
  \A s \in Session :
    s \in seeking \/ partner[s] # NoSession => status[s] = "active"

(* Every report is about a match that took place: the reported session was *)
(* one side of it, a session of the reporter's account the other.  The     *)
(* request names the reported session itself, and the match may be over    *)
(* when the report is stored.                                              *)
ReportsPartners ==
  \A n \in ReportId :
    \E s \in Session :
      /\ AccountOf[s] = reports[n].reporter
      /\ reports[n].match = {s, reports[n].reported}
      /\ reports[n].match \in met

(* Every decision on record has an audit event by the same reviewer with   *)
(* the same verdict, written, about to be written, or lost because the     *)
(* request died in between, also when several decide on one report at once.*)
ReviewAudited ==
  \A n \in ReportId : reports[n].status # "open" =>
    ReviewedEvent(reports[n].reviewer, reports[n].status, n)
      \in audit \cup lost \cup Due(reports[n].reviewer)

(* Every restriction in force names a report about a session of the very   *)
(* account, and has an audit event that does, written, due or lost.        *)
RestrictionAudited ==
  \A a \in Account : restriction[a] # 0 =>
    /\ ReportedAccount(restriction[a]) = a
    /\ \E e \in audit \cup lost \cup UNION {Due(d) : d \in Admin} :
         e.event = "restricted" /\ e.account = a /\ e.report = restriction[a]

(* When a restriction closes the sockets it found, the session it found is *)
(* out: closed, off the waiting list and without a partner, although its   *)
(* sockets, other administrators and the expiry worked on it meanwhile.    *)
RevokedForGood ==
  \A d \in Admin : task[d].at = "close sockets" =>
    LET s == task[d].found
    IN status[s] = "closed" /\ s \notin seeking /\ partner[s] = NoSession

(* The account has no session, and no request on its way to one. *)
Out(a) ==
  /\ ActiveSessions(a) = {}
  /\ \A r \in Request :
       UserOf[r] = a => call[r].at \notin {"looking", "inserting"}

(* A restricted account that is out stays out until it is restored.        *)
StaysOut ==
  [][\A a \in Account :
       restriction[a] # 0 /\ restriction'[a] # 0 /\ Out(a) => Out(a)']_vars

(* All of this is a use of the runtime as Pairing describes it.            *)
KeepsPairing == Runtime!Spec

(* The plan of this part of the system: "Restricted accounts blocked from  *)
(* creating or using chat sessions".  When no administrator's request is   *)
(* at work on it, a restricted account neither waits nor has a partner.    *)
RestrictedAreOut ==
  \A s \in Session :
    (/\ restriction[AccountOf[s]] # 0
     /\ \A d \in Admin : task[d].account # AccountOf[s])
      => s \notin seeking /\ partner[s] = NoSession

================================================================================
