---------------------------- MODULE ModerationProofs ----------------------------
(* Proofs about Moderation, for any number of accounts, sessions, requests, *)
(* administrators and reports.                                              *)
EXTENDS Moderation, SequenceTheorems, TLAPS

--------------------------------------------------------------------------------
(* Types, and what a request under way knows.                               *)

Report == [reporter : Account, reported : Session, match : SUBSET Session,
           status : Verdict \cup {"open"}, reviewer : Admin \cup {NoAdmin}]

CallLocals == [at : CallAt, session : Session \cup {NoSession},
               other : Session \cup {NoSession}, match : SUBSET Session,
               retried : BOOLEAN]

TaskLocals == [at : TaskAt, account : Account \cup {NoAccount},
               report : ReportId \cup {0}, verdict : Verdict \cup {"open"},
               found : Session \cup {NoSession}, sockets : SUBSET Request]

RuntimeOK ==
  /\ status \in [Session -> {"unissued", "active", "closed"}]
  /\ seeking \subseteq Session
  /\ partner \in [Session -> Session \cup {NoSession}]
  /\ stored \subseteq Session
  /\ hub \in [Session -> SUBSET Request]
  /\ met \subseteq SUBSET Session

(* A report about a session of a named account stays one: rows keep their   *)
(* owners and reports the session they are about.                           *)
RecordsOK ==
  /\ reports \in Seq(Report)
  /\ restriction \in [Account -> ReportId \cup {0}]
  /\ \A a \in Account : restriction[a] # 0 => ReportedAccount(restriction[a]) = a

CallOK ==
  /\ call \in [Request -> CallLocals]
  /\ \A r \in Request :
       /\ call[r].at \in {"accepted", "open"} => call[r].session \in Session
       /\ call[r].at \in {"locating", "filing"} => call[r].other \in Session

Restricting == {"find session", "restrict", "audit restriction", "revoke",
                "close sockets"}

(* Tasks that know no session: only a restriction looks for one.            *)
Unfound == {"write review", "audit review", "audit restoration"}

TaskOK ==
  /\ task \in [Admin -> TaskLocals]
  /\ \A d \in Admin :
       /\ task[d].at \in {"write review", "audit review"} =>
            /\ task[d].report \in ReportId
            /\ task[d].verdict \in Verdict
       /\ task[d].at \in Restricting =>
            /\ task[d].report \in ReportId
            /\ task[d].account \in Account
            /\ ReportedAccount(task[d].report) = task[d].account
       /\ task[d].at \in {"revoke", "close sockets"} => task[d].found \in Session
       /\ task[d].at \in Unfound => task[d].found = NoSession

Locals == RuntimeOK /\ RecordsOK /\ CallOK /\ TaskOK

LEMMA ReportIds ==
  ASSUME RecordsOK
  PROVE  /\ Len(reports) \in Nat
         /\ ReportId \cup {0} = 0 .. Len(reports)
  BY DEF RecordsOK, ReportId

LEMMA LocalsType == Locals => TypeOK
  BY ReportIds DEF Locals, TypeOK, RuntimeOK, RecordsOK, CallOK, TaskOK, Report,
                   CallLocals, TaskLocals

LEMMA LocalsInit == Init => Locals
<1> SUFFICES ASSUME Init PROVE Locals
  OBVIOUS
<1>1. RecordsOK
  BY DEF Init, RecordsOK
<1>2. NoCall \in CallLocals
  BY DEF NoCall, CallLocals, CallAt
<1>3. NoTask \in TaskLocals
  BY DEF NoTask, TaskLocals, TaskAt
<1> QED
  BY <1>1, <1>2, <1>3
  DEF Locals, RuntimeOK, CallOK, TaskOK, Init, Runtime!Init, NoCall, NoTask,
      Restricting, Unfound

(* _remove_session_unlocked.                                                *)
LEMMA RemoveOK ==
  ASSUME RuntimeOK, NEW s \in Session, Remove(s)
  PROVE  RuntimeOK'
  BY DEF RuntimeOK, Remove

(* What the runtime and the match rows hold.                                *)
LEMMA RuntimeStep ==
  ASSUME Locals, [Next]_vars
  PROVE  RuntimeOK'
<1> USE DEF Locals
<1>1. ASSUME NEW r \in Request, NEW s \in Session, Insert(r, s)
      PROVE  RuntimeOK'
  BY <1>1 DEF RuntimeOK, Insert, runtime
<1>2. ASSUME NEW r \in Request, Register(r) \/ EnterQueue(r) \/ Close(r)
      PROVE  RuntimeOK'
  <2>1. call[r].session \in Session
    BY <1>2 DEF CallOK, Register, EnterQueue, Close, Moves
  <2> QED
    BY <1>2, <2>1 DEF RuntimeOK, Register, EnterQueue, Close, Moves, durable, Runtime!Seek
<1>3. ASSUME NEW s \in Session, NEW t \in Session, Match(s, t)
      PROVE  RuntimeOK'
  BY <1>3 DEF RuntimeOK, Match, Runtime!Couple
<1>4. ASSUME NEW s \in Session, Part(s)
      PROVE  RuntimeOK'
  BY <1>4 DEF RuntimeOK, Part, Runtime!Part, durable
<1>5. ASSUME NEW s \in Session, Expire(s)
      PROVE  RuntimeOK'
  BY <1>5, RemoveOK DEF Expire
<1>6. ASSUME NEW d \in Admin, Revoke(d)
      PROVE  RuntimeOK'
  BY <1>6, RemoveOK DEF Revoke, TaskOK
<1>7. CASE Restart
  BY <1>7 DEF Restart, RuntimeOK
<1>8. CASE UNCHANGED <<status, seeking, partner, stored, hub, met>>
  BY <1>8 DEF RuntimeOK
<1>9. ASSUME NEW r \in Request, UserStep(r)
      PROVE  RuntimeOK'
  BY <1>1, <1>2, <1>8, <1>9
  DEF UserStep, StartCreate, LookForActive, InsertConflict, Authorize,
      StartReport, Locate, File, durable, runtime
<1>10. ASSUME NEW d \in Admin, AdminStep(d)
      PROVE  RuntimeOK'
  BY <1>6, <1>8, <1>10
  DEF AdminStep, StartReview, WriteReview, WriteAudit, StartRestrict, FindSession,
      SetRestriction, CloseSockets, Restore, Fail, durable, runtime
<1> QED
  BY <1>3, <1>4, <1>5, <1>7, <1>8, <1>9, <1>10 DEF Next, vars

(* A report is as it was, or has just been decided on or stored.            *)
FiledBy(r) ==
  [reporter |-> UserOf[r], reported |-> call[r].other, match |-> call[r].match,
   status |-> "open", reviewer |-> NoAdmin]

Decided(d) ==
  [reports[task[d].report] EXCEPT !.status = task[d].verdict, !.reviewer = d]

ReportsMove ==
  /\ reports' \in Seq(Report)
  /\ ReportId \subseteq ReportId'
  /\ \A n \in ReportId' :
       \/ n \in ReportId /\ reports'[n] = reports[n]
       \/ \E d \in Admin : /\ WriteReview(d)
                          /\ n \in ReportId
                          /\ n = task[d].report
                          /\ reports'[n] = Decided(d)
       \/ \E r \in Request : /\ File(r)
                            /\ n \notin ReportId
                            /\ reports'[n] = FiledBy(r)

LEMMA ReportsStep ==
  ASSUME Locals, [Next]_vars
  PROVE  ReportsMove
<1> USE DEF Locals
<1>0. reports \in Seq(Report) /\ Len(reports) \in Nat
  BY DEF RecordsOK
<1>1. CASE UNCHANGED reports
  BY <1>0, <1>1 DEF ReportId, ReportsMove
<1>2. ASSUME NEW r \in Request, File(r)
      PROVE  ReportsMove
  <2> DEFINE new == FiledBy(r)
  <2>1. reports' = Append(reports, new)
    BY <1>2 DEF File, FiledBy
  <2>2. call[r] \in CallLocals /\ call[r].other \in Session
    BY <1>2 DEF File, Ends, CallOK
  <2>3. new \in Report
    BY <2>2, UserAssumption DEF Report, CallLocals, FiledBy
  <2>4. /\ reports' \in Seq(Report)
        /\ Len(reports') = Len(reports) + 1
        /\ \A n \in 1 .. Len(reports) : reports'[n] = reports[n]
        /\ reports'[Len(reports) + 1] = new
    <3> HIDE DEF new
    <3> QED
      BY <1>0, <2>1, <2>3, AppendProperties
  <2>5. ReportId' = ReportId \cup {Len(reports) + 1} /\ Len(reports) + 1 \notin ReportId
    BY <1>0, <2>4 DEF ReportId
  <2> QED
    BY <1>2, <2>4, <2>5 DEF ReportsMove, ReportId
<1>3. ASSUME NEW d \in Admin, WriteReview(d)
      PROVE  ReportsMove
  <2> DEFINE n == task[d].report
             new == Decided(d)
  <2>1. n \in 1 .. Len(reports) /\ task[d].verdict \in Verdict
    BY <1>3 DEF WriteReview, TaskOK, ReportId
  <2>2. reports[n] \in Report
    BY <1>0, <2>1, ElementOfSeq
  <2>3. new \in Report
    BY <2>1, <2>2 DEF Report, Decided
  <2>4. reports' = [reports EXCEPT ![n] = new]
    BY <1>0, <1>3, <2>1, <2>2 DEF WriteReview, Report, Decided
  <2>5. /\ reports' \in Seq(Report)
        /\ Len(reports') = Len(reports)
        /\ \A m \in 1 .. Len(reports) : reports'[m] = IF m = n THEN new ELSE reports[m]
    <3> HIDE DEF new, n
    <3> QED
      BY <1>0, <2>1, <2>3, <2>4, ExceptSeq
  <2> QED
    BY <1>3, <2>5 DEF ReportId, ReportsMove
<1>4. ASSUME NEW r \in Request, UserStep(r)
      PROVE  (\E q \in Request : File(q)) \/ UNCHANGED reports
  BY <1>4
  DEF UserStep, StartCreate, LookForActive, Insert, InsertConflict, Authorize,
      Register, EnterQueue, Close, StartReport, Locate, durable
<1>5. ASSUME NEW d \in Admin, AdminStep(d)
      PROVE  (\E e \in Admin : WriteReview(e)) \/ UNCHANGED reports
  BY <1>5
  DEF AdminStep, StartReview, WriteAudit, StartRestrict, FindSession,
      SetRestriction, Revoke, Remove, CloseSockets, Restore, Fail, durable
<1>6. CASE (\E s, t \in Session : Match(s, t))
             \/ (\E s \in Session : Part(s) \/ Expire(s))
             \/ Restart \/ UNCHANGED vars
  BY <1>1, <1>6 DEF Match, Part, Expire, Remove, Restart, vars, durable
<1> QED
  BY <1>1, <1>2, <1>3, <1>4, <1>5, <1>6 DEF Next

(* Whom a report is about never changes, nor by whom and about which match  *)
(* it is.                                                                   *)
LEMMA ReportsKept ==
  ASSUME Locals, [Next]_vars
  PROVE  /\ reports' \in Seq(Report)
         /\ ReportId \subseteq ReportId'
         /\ \A n \in ReportId : /\ ReportedAccount(n)' = ReportedAccount(n)
                               /\ reports'[n].reported = reports[n].reported
                               /\ reports'[n].reporter = reports[n].reporter
                               /\ reports'[n].match = reports[n].match
<1>1. ReportsMove
  BY ReportsStep
<1>2. ASSUME NEW n \in ReportId
      PROVE  /\ reports'[n].reported = reports[n].reported
             /\ reports'[n].reporter = reports[n].reporter
             /\ reports'[n].match = reports[n].match
  <2>1. reports[n] \in Report
    BY ElementOfSeq DEF Locals, RecordsOK, ReportId
  <2>2. CASE reports'[n] = reports[n]
    BY <2>2
  <2>3. ASSUME NEW d \in Admin, n = task[d].report, reports'[n] = Decided(d)
        PROVE  /\ reports'[n].reported = reports[n].reported
               /\ reports'[n].reporter = reports[n].reporter
               /\ reports'[n].match = reports[n].match
    BY <2>1, <2>3 DEF Decided, Report
  <2> QED
    BY <1>1, <2>2, <2>3 DEF ReportsMove
<1> QED
  BY <1>1, <1>2 DEF ReportsMove, ReportedAccount

LEMMA RecordsStep ==
  ASSUME Locals, [Next]_vars
  PROVE  RecordsOK'
<1> USE DEF Locals
<1>1. /\ reports' \in Seq(Report)
      /\ ReportId \subseteq ReportId'
      /\ \A n \in ReportId : ReportedAccount(n)' = ReportedAccount(n)
  BY ReportsKept
<1>2. CASE UNCHANGED restriction
  BY <1>1, <1>2 DEF RecordsOK
<1>3. ASSUME NEW d \in Admin, SetRestriction(d)
      PROVE  RecordsOK'
  <2>1. /\ task[d].account \in Account
        /\ task[d].report \in ReportId
        /\ ReportedAccount(task[d].report) = task[d].account
    BY <1>3 DEF SetRestriction, TaskOK, Restricting, Unfound
  <2> QED
    BY <1>1, <1>3, <2>1 DEF RecordsOK, SetRestriction
<1>4. ASSUME NEW d \in Admin, NEW a \in Account, Restore(d, a)
      PROVE  RecordsOK'
  BY <1>1, <1>4 DEF RecordsOK, Restore
<1>5. ASSUME NEW r \in Request, UserStep(r)
      PROVE  UNCHANGED restriction
  BY <1>5
  DEF UserStep, StartCreate, LookForActive, Insert, InsertConflict, Authorize,
      Register, EnterQueue, Close, StartReport, Locate, File, durable
<1>6. ASSUME NEW d \in Admin, AdminStep(d)
      PROVE  SetRestriction(d) \/ (\E a \in Account : Restore(d, a))
               \/ UNCHANGED restriction
  BY <1>6
  DEF AdminStep, StartReview, WriteReview, WriteAudit, StartRestrict, FindSession,
      Revoke, Remove, CloseSockets, Fail, durable
<1>7. CASE (\E s, t \in Session : Match(s, t))
             \/ (\E s \in Session : Part(s) \/ Expire(s))
             \/ Restart \/ UNCHANGED vars
  BY <1>2, <1>7 DEF Match, Part, Expire, Remove, Restart, vars, durable
<1> QED
  BY <1>2, <1>3, <1>4, <1>5, <1>6, <1>7 DEF Next

(* Requests of users.                                                       *)
LEMMA CallStep ==
  ASSUME Locals, [Next]_vars
  PROVE  CallOK'
<1> USE DEF Locals
<1>0. NoCall \in CallLocals /\ NoCall.at = "none"
  BY DEF NoCall, CallLocals, CallAt
<1>1. CASE UNCHANGED call
  BY <1>1 DEF CallOK
<1>2. ASSUME NEW r \in Request, NEW l \in CallLocals, call' = [call EXCEPT ![r] = l],
             l.at \in {"accepted", "open"} => l.session \in Session,
             l.at \in {"locating", "filing"} => l.other \in Session
      PROVE  CallOK'
  BY <1>2 DEF CallOK
<1>3. ASSUME NEW r \in Request, UserStep(r)
      PROVE  CallOK'
  <2>0. /\ call[r] \in CallLocals
        /\ call[r].at \in {"accepted", "open"} => call[r].session \in Session
        /\ call[r].at \in {"locating", "filing"} => call[r].other \in Session
    BY DEF CallOK
  <2>1. CASE StartCreate(r) \/ LookForActive(r) \/ InsertConflict(r)
    <3>1. CASE call' = [call EXCEPT ![r] = NoCall]
      BY <1>0, <1>2, <3>1
    <3>2. ASSUME NEW at \in {"looking", "inserting"}, NEW again \in BOOLEAN,
                 call' = [call EXCEPT ![r] = [call[r] EXCEPT !.at = at, !.retried = again]]
          PROVE  CallOK'
      <4> DEFINE l == [call[r] EXCEPT !.at = at, !.retried = again]
      <4>1. l \in CallLocals /\ l.at = at
        BY <2>0 DEF CallLocals, CallAt
      <4> HIDE DEF l
      <4> QED
        BY <1>2, <3>2, <4>1 DEF l
    <3>3. ASSUME NEW at \in {"looking", "inserting"}, call' = [call EXCEPT ![r].at = at]
          PROVE  CallOK'
      <4>1. call' = [call EXCEPT ![r] = [call[r] EXCEPT !.at = at, !.retried = call[r].retried]]
        BY <2>0, <3>3 DEF CallOK, CallLocals
      <4>2. call[r].retried \in BOOLEAN
        BY <2>0 DEF CallLocals
      <4> QED
        BY <3>2, <4>1, <4>2
    <3>4. CASE StartCreate(r)
      BY <3>3, <3>4 DEF StartCreate, Moves
    <3>5. CASE LookForActive(r)
      BY <3>1, <3>3, <3>5 DEF LookForActive, Moves, Ends
    <3>6. CASE InsertConflict(r)
      <4>1. CASE call[r].retried
        BY <3>1, <3>6, <4>1 DEF InsertConflict, CallOK
      <4>2. CASE ~call[r].retried
        <5>1. call' = [call EXCEPT ![r] = [call[r] EXCEPT !.at = "looking", !.retried = TRUE]]
          BY <3>6, <4>2 DEF InsertConflict, CallOK
        <5> QED
          BY <3>2, <5>1
      <4> QED
        BY <4>1, <4>2
    <3> QED
      BY <2>1, <3>4, <3>5, <3>6
  <2>2. CASE (\E s \in Session : Insert(r, s)) \/ Close(r) \/ File(r)
    <3>1. call' = [call EXCEPT ![r] = NoCall]
      BY <2>2 DEF Insert, Close, File, Ends
    <3> QED
      BY <1>0, <1>2, <3>1
  <2>3. ASSUME NEW s \in Issued, Authorize(r, s)
        PROVE  CallOK'
    <3> DEFINE l == [NoCall EXCEPT !.at = "accepted", !.session = s]
    <3>1. l \in CallLocals /\ l.at = "accepted" /\ l.session \in Session
      BY DEF Issued, NoCall, CallLocals, CallAt
    <3>2. call' = [call EXCEPT ![r] = l]
      BY <2>3 DEF Authorize
    <3> HIDE DEF l
    <3> QED
      BY <1>2, <3>1, <3>2
  <2>4. CASE Register(r)
    <3> DEFINE l == [call[r] EXCEPT !.at = "open"]
    <3>1. l \in CallLocals /\ l.at = "open" /\ l.session \in Session
      BY <2>0, <2>4 DEF Register, Moves, CallLocals, CallAt
    <3>2. call' = [call EXCEPT ![r] = l]
      BY <2>0, <2>4 DEF Register, Moves, CallOK, CallLocals
    <3> HIDE DEF l
    <3> QED
      BY <1>2, <3>1, <3>2
  <2>5. CASE EnterQueue(r)
    BY <1>1, <2>5 DEF EnterQueue
  <2>6. ASSUME NEW t \in Issued, StartReport(r, t)
        PROVE  CallOK'
    <3> DEFINE l == [NoCall EXCEPT !.at = "locating", !.other = t]
    <3>1. l \in CallLocals /\ l.at = "locating" /\ l.other \in Session
      BY DEF Issued, NoCall, CallLocals, CallAt
    <3>2. call' = [call EXCEPT ![r] = l]
      BY <2>6 DEF StartReport
    <3> HIDE DEF l
    <3> QED
      BY <1>2, <3>1, <3>2
  <2>7. CASE Locate(r)
    <3>1. CASE call' = [call EXCEPT ![r] = NoCall]
      BY <1>0, <1>2, <3>1
    <3>2. ASSUME NEW s \in Session,
                 call' = [call EXCEPT ![r].at = "filing", ![r].match = {s, call[r].other}]
          PROVE  CallOK'
      <4> DEFINE l == [call[r] EXCEPT !.at = "filing", !.match = {s, call[r].other}]
      <4>1. call[r].other \in Session
        BY <2>0, <2>7 DEF Locate
      <4>2. l \in CallLocals /\ l.at = "filing" /\ l.other \in Session
        BY <2>0, <4>1 DEF CallLocals, CallAt
      <4>3. call' = [call EXCEPT ![r] = l]
        BY <2>0, <3>2 DEF CallOK, CallLocals
      <4> HIDE DEF l
      <4> QED
        BY <1>2, <4>2, <4>3
    <3> QED
      BY <2>7, <3>1, <3>2 DEF Locate, ActiveSessions
  <2> QED
    BY <1>3, <2>1, <2>2, <2>3, <2>4, <2>5, <2>6, <2>7 DEF UserStep
<1>4. ASSUME NEW d \in Admin, AdminStep(d)
      PROVE  CallOK'
  <2>1. CASE CloseSockets(d)
    BY <1>0, <2>1 DEF CloseSockets, CallOK
  <2> QED
    BY <1>1, <1>4, <2>1
    DEF AdminStep, StartReview, WriteReview, WriteAudit, StartRestrict, FindSession,
        SetRestriction, Revoke, Restore, Fail
<1>5. CASE Restart
  BY <1>0, <1>5 DEF Restart, CallOK
<1>6. CASE (\E s, t \in Session : Match(s, t))
             \/ (\E s \in Session : Part(s) \/ Expire(s))
             \/ UNCHANGED vars
  BY <1>1, <1>6 DEF Match, Part, Expire, vars
<1> QED
  BY <1>3, <1>4, <1>5, <1>6 DEF Next

(* A step of an administrator's request, in terms of its locals only.       *)
LEMMA TaskStep ==
  ASSUME Locals, [Next]_vars
  PROVE  TaskOK'
<1> USE DEF Locals
<1>0. /\ ReportId \subseteq ReportId'
      /\ \A n \in ReportId : ReportedAccount(n)' = ReportedAccount(n)
  BY ReportsKept
<1>1. /\ NoTask \in TaskLocals' /\ NoTask.at = "none"
      /\ Done \in TaskLocals' /\ Done.at = "done"
  BY DEF NoTask, Done, TaskLocals, TaskAt
<1>2. TaskLocals \subseteq TaskLocals'
  BY <1>0 DEF TaskLocals
<1> DEFINE Fits(l) ==
      /\ l \in TaskLocals'
      /\ l.at \in {"write review", "audit review"} =>
           l.report \in ReportId' /\ l.verdict \in Verdict
      /\ l.at \in Restricting =>
           /\ l.report \in ReportId'
           /\ l.account \in Account
           /\ AccountOf[reports'[l.report].reported] = l.account
      /\ l.at \in {"revoke", "close sockets"} => l.found \in Session
      /\ l.at \in Unfound => l.found = NoSession
<1>3. ASSUME NEW d \in Admin PROVE Fits(task[d])
  BY <1>0, <1>2 DEF TaskOK, Restricting, Unfound, ReportedAccount
<1>4. Fits(NoTask) /\ Fits(Done)
  BY <1>1 DEF Restricting, Unfound
<1>5. ASSUME task' \in [Admin -> TaskLocals'], \A d \in Admin : Fits(task'[d])
      PROVE  TaskOK'
  BY <1>5 DEF TaskOK, ReportedAccount
<1>6. ASSUME NEW d \in Admin, NEW l, Fits(l), task' = [task EXCEPT ![d] = l]
      PROVE  TaskOK'
  <2>1. task \in [Admin -> TaskLocals]
    BY DEF TaskOK
  <2> HIDE DEF Fits
  <2>2. \A e \in Admin : task'[e] = IF e = d THEN l ELSE task[e]
    BY <1>6, <2>1
  <2>3. l \in TaskLocals'
    BY <1>6 DEF Fits
  <2> QED
    BY <1>2, <1>3, <1>5, <1>6, <2>1, <2>2, <2>3
<1>7. CASE UNCHANGED task
  <2>1. task' \in [Admin -> TaskLocals']
    BY <1>2, <1>7 DEF TaskOK
  <2> HIDE DEF Fits
  <2> QED
    BY <1>3, <1>5, <1>7, <2>1
(* A socket that closes is forgotten, and nothing else. *)
<1>8. ASSUME NEW R PROVE /\ Forgetting(R) \in [Admin -> TaskLocals']
                         /\ \A d \in Admin : Fits(Forgetting(R)[d])
  <2>1. ASSUME NEW d \in Admin PROVE Fits([task[d] EXCEPT !.sockets = @ \ R])
    <3>1. task[d] \in TaskLocals' /\ Fits(task[d])
      BY <1>3
    <3>2. [task[d] EXCEPT !.sockets = @ \ R] \in TaskLocals'
      BY <3>1 DEF TaskLocals
    <3> DEFINE l == [task[d] EXCEPT !.sockets = @ \ R]
    <3>3. /\ l.at = task[d].at /\ l.report = task[d].report
          /\ l.verdict = task[d].verdict /\ l.account = task[d].account
          /\ l.found = task[d].found
      BY <3>1 DEF TaskLocals
    <3> HIDE DEF l
    <3> QED
      BY <3>1, <3>2, <3>3 DEF l
  <2> QED
    BY <2>1 DEF Forgetting
<1>9. ASSUME NEW d \in Admin, AdminStep(d)
      PROVE  TaskOK'
  <2>0. /\ Fits(task[d]) /\ task[d] \in TaskLocals'
        /\ task \in [Admin -> TaskLocals]
    BY <1>3 DEF TaskOK
  <2>1. ASSUME NEW n \in ReportId, NEW v \in Verdict, StartReview(d, n, v)
        PROVE  TaskOK'
    <3> DEFINE l == [NoTask EXCEPT !.at = "write review", !.report = n, !.verdict = v]
    <3>1. Fits(l)
      BY <1>0, <1>1 DEF NoTask, TaskLocals, TaskAt, Restricting, Unfound
    <3>2. task' = [task EXCEPT ![d] = l]
      BY <2>1 DEF StartReview
    <3> HIDE DEF l, Fits
    <3> QED
      BY <1>6, <3>1, <3>2
  <2>2. CASE WriteReview(d)
    <3> DEFINE l == [task[d] EXCEPT !.at = "audit review"]
    <3>1. Fits(l)
      BY <2>0, <2>2 DEF WriteReview, TaskLocals, TaskAt, Restricting, Unfound
    <3>2. task' = [task EXCEPT ![d] = l]
      BY <2>2, <2>0 DEF WriteReview, TaskLocals
    <3> HIDE DEF l, Fits
    <3> QED
      BY <1>6, <3>1, <3>2
  <2>3. CASE WriteAudit(d)
    <3>1. CASE task[d].found = NoSession
      <4>1. task' = [task EXCEPT ![d] = Done]
        BY <2>0, <2>3, <3>1 DEF WriteAudit
      <4> HIDE DEF Fits
      <4> QED
        BY <1>4, <1>6, <4>1
    <3>2. CASE task[d].found # NoSession
      <4> DEFINE l == [task[d] EXCEPT !.at = "revoke", !.sockets = hub[task[d].found]]
      <4>1. task[d].found \in Session
        BY <2>0, <3>2 DEF TaskLocals
      <4>2. hub[task[d].found] \subseteq Request
        BY <4>1 DEF RuntimeOK
      <4>3. task[d].at = "audit restriction"
        <5>1. task[d].at \in {"audit review", "audit restriction", "audit restoration"}
          BY <2>3 DEF WriteAudit, Due
        <5> QED
          BY <2>0, <3>2, <5>1 DEF Unfound
      <4>4. Fits(l)
        BY <2>0, <4>1, <4>2, <4>3 DEF TaskLocals, TaskAt, Restricting, Unfound
      <4>5. task' = [task EXCEPT ![d] = l]
        BY <2>0, <2>3, <3>2 DEF WriteAudit
      <4> HIDE DEF l, Fits
      <4> QED
        BY <1>6, <4>4, <4>5
    <3> QED
      BY <3>1, <3>2
  <2>4. ASSUME NEW a \in Account, NEW n \in ReportId, StartRestrict(d, a, n)
        PROVE  TaskOK'
    <3> DEFINE l == [NoTask EXCEPT !.at = "find session", !.account = a, !.report = n]
    <3>1. Fits(l)
      BY <1>0, <1>1, <2>4
      DEF StartRestrict, NoTask, TaskLocals, TaskAt, Restricting, Unfound, ReportedAccount
    <3>2. task' = [task EXCEPT ![d] = l]
      BY <2>4 DEF StartRestrict
    <3> HIDE DEF l, Fits
    <3> QED
      BY <1>6, <3>1, <3>2
  <2>5. CASE FindSession(d)
    <3>1. ASSUME NEW s \in Session \cup {NoSession},
                 task' = [task EXCEPT ![d].at = "restrict", ![d].found = s]
          PROVE  TaskOK'
      <4> DEFINE l == [task[d] EXCEPT !.at = "restrict", !.found = s]
      <4>1. Fits(l)
        BY <2>0, <2>5 DEF FindSession, TaskLocals, TaskAt, Restricting, Unfound
      <4>2. task' = [task EXCEPT ![d] = l]
        BY <2>0, <3>1 DEF TaskLocals
      <4> HIDE DEF l, Fits
      <4> QED
        BY <1>6, <4>1, <4>2
    <3>2. CASE task' = [task EXCEPT ![d].at = "restrict"]
      <4>1. task' = [task EXCEPT ![d].at = "restrict", ![d].found = task[d].found]
        BY <2>0, <3>2 DEF TaskLocals
      <4>2. task[d].found \in Session \cup {NoSession}
        BY <2>0 DEF TaskLocals
      <4> QED
        BY <3>1, <4>1, <4>2
    <3> QED
      BY <2>5, <3>1, <3>2 DEF FindSession, ActiveSessions
  <2>6. CASE SetRestriction(d) \/ Revoke(d)
    <3>1. ASSUME NEW at \in {"audit restriction", "close sockets"},
                 task' = [task EXCEPT ![d].at = at],
                 task[d].at \in Restricting,
                 at = "close sockets" => task[d].found \in Session
          PROVE  TaskOK'
      <4> DEFINE l == [task[d] EXCEPT !.at = at]
      <4>1. Fits(l)
        BY <2>0, <3>1 DEF TaskLocals, TaskAt, Restricting, Unfound
      <4>2. task' = [task EXCEPT ![d] = l]
        BY <2>0, <3>1 DEF TaskLocals
      <4> HIDE DEF l, Fits
      <4> QED
        BY <1>6, <4>1, <4>2
    <3> QED
      BY <2>0, <2>6, <3>1 DEF SetRestriction, Revoke, Restricting, Unfound
  <2>7. CASE CloseSockets(d)
    <3> DEFINE R == {r \in task[d].sockets : call[r].at = "open"}
    <3>1. task' = [Forgetting(R) EXCEPT ![d] = Done]
      BY <2>7 DEF CloseSockets
    <3> HIDE DEF R, Fits
    <3>2. /\ Forgetting(R) \in [Admin -> TaskLocals']
          /\ \A e \in Admin : Fits(Forgetting(R)[e])
      BY <1>8
    <3> QED
      BY <1>1, <1>4, <1>5, <3>1, <3>2
  <2>8. ASSUME NEW a \in Account, Restore(d, a)
        PROVE  TaskOK'
    <3> DEFINE l == [NoTask EXCEPT !.at = "audit restoration", !.account = a]
    <3>1. Fits(l)
      BY <1>1 DEF NoTask, TaskLocals, TaskAt, Restricting, Unfound
    <3>2. task' = [task EXCEPT ![d] = l]
      BY <2>8 DEF Restore
    <3> HIDE DEF l, Fits
    <3> QED
      BY <1>6, <3>1, <3>2
  <2>9. CASE Fail(d)
    <3>1. task' = [task EXCEPT ![d] = Done]
      BY <2>9 DEF Fail
    <3> HIDE DEF Fits
    <3> QED
      BY <1>4, <1>6, <3>1
  <2> QED
    BY <1>9, <2>1, <2>2, <2>3, <2>4, <2>5, <2>6, <2>7, <2>8, <2>9 DEF AdminStep
<1>10. ASSUME NEW r \in Request, Close(r)
       PROVE  TaskOK'
  <2> HIDE DEF Fits
  <2> QED
    BY <1>5, <1>8, <1>10 DEF Close
<1>11. CASE Restart
  <2> HIDE DEF Fits
  <2> QED
    BY <1>1, <1>4, <1>5, <1>11 DEF Restart
<1>12. ASSUME NEW r \in Request, UserStep(r)
       PROVE  Close(r) \/ UNCHANGED task
  BY <1>12
  DEF UserStep, StartCreate, LookForActive, Insert, InsertConflict, Authorize,
      Register, EnterQueue, StartReport, Locate, File
<1>13. CASE (\E s, t \in Session : Match(s, t))
             \/ (\E s \in Session : Part(s) \/ Expire(s))
              \/ UNCHANGED vars
  BY <1>7, <1>13 DEF Match, Part, Expire, vars
<1> QED
  BY <1>7, <1>9, <1>10, <1>11, <1>12, <1>13 DEF Next

LEMMA LocalsStep == Locals /\ [Next]_vars => Locals'
  BY RuntimeStep, RecordsStep, CallStep, TaskStep DEF Locals

(* Every request of an administrator goes its own way: others may take a    *)
(* socket out of what it remembers, and a restart ends it.                  *)
Same(d) ==
  /\ task'[d].at = task[d].at
  /\ task'[d].account = task[d].account
  /\ task'[d].report = task[d].report
  /\ task'[d].found = task[d].found

LEMMA ForgettingSame ==
  ASSUME TaskOK, NEW R, NEW d \in Admin, task'[d] = Forgetting(R)[d]
  PROVE  Same(d)
<1>1. task'[d] = [task[d] EXCEPT !.sockets = @ \ R] /\ task[d] \in TaskLocals
  BY DEF Forgetting, TaskOK
<1> QED
  BY <1>1 DEF Same, TaskLocals

LEMMA OwnSteps ==
  ASSUME TaskOK, [Next]_vars, NEW d \in Admin
  PROVE  Same(d) \/ AdminStep(d) \/ Restart
<1>0. task \in [Admin -> TaskLocals]
  BY DEF TaskOK
<1>1. ASSUME UNCHANGED task PROVE Same(d)
  BY <1>1 DEF Same
<1>2. ASSUME NEW r \in Request, UserStep(r)
      PROVE  Same(d)
  <2>1. CASE Close(r)
    <3>1. task'[d] = Forgetting({r})[d]
      BY <2>1 DEF Close
    <3> QED
      BY <3>1, ForgettingSame
  <2>2. Close(r) \/ UNCHANGED task
    BY <1>2
    DEF UserStep, StartCreate, LookForActive, Insert, InsertConflict, Authorize,
        Register, EnterQueue, StartReport, Locate, File
  <2> QED
    BY <1>1, <2>1, <2>2
<1>3. ASSUME NEW e \in Admin \ {d}, AdminStep(e)
      PROVE  Same(d)
  <2>1. CASE CloseSockets(e)
    <3>1. PICK R : task' = [Forgetting(R) EXCEPT ![e] = Done]
      BY <2>1 DEF CloseSockets
    <3>2. task'[d] = Forgetting(R)[d]
      BY <1>0, <1>3, <3>1 DEF Forgetting
    <3> QED
      BY <3>2, ForgettingSame
  <2>2. CASE task'[d] = task[d]
    BY <2>2 DEF Same
  <2>3. ASSUME NEW n \in ReportId, NEW v \in Verdict, StartReview(e, n, v)
        PROVE  task'[d] = task[d]
    BY <1>0, <1>3, <2>3 DEF StartReview
  <2>4. ASSUME NEW a \in Account, NEW n \in ReportId, StartRestrict(e, a, n)
        PROVE  task'[d] = task[d]
    BY <1>0, <1>3, <2>4 DEF StartRestrict
  <2>5. ASSUME NEW a \in Account, Restore(e, a)
        PROVE  task'[d] = task[d]
    BY <1>0, <1>3, <2>5 DEF Restore
  <2>6. CASE WriteReview(e) \/ WriteAudit(e) \/ Fail(e)
    BY <1>0, <1>3, <2>2, <2>6 DEF WriteReview, WriteAudit, Fail
  <2>7. CASE FindSession(e) \/ SetRestriction(e) \/ Revoke(e)
    BY <1>0, <1>3, <2>2, <2>7 DEF FindSession, SetRestriction, Revoke
  <2> QED
    BY <1>3, <2>1, <2>2, <2>3, <2>4, <2>5, <2>6, <2>7 DEF AdminStep
<1> QED
  BY <1>1, <1>2, <1>3 DEF Next, Match, Part, Expire, vars

(* Type correctness: every request knows sessions, accounts and reports     *)
(* there are, also after others have worked on the same rows.               *)
THEOREM Typed == Spec => []TypeOK
  BY LocalsInit, LocalsStep, LocalsType, PTL DEF Spec

--------------------------------------------------------------------------------
(* Who waits and who is matched.                                            *)

Couplings == INSTANCE PairingProofs

(* What users' and administrators' requests leave alone.                    *)
LEMMA UserFrame ==
  ASSUME NEW r \in Request, UserStep(r)
  PROVE  \/ \E s \in Session : Insert(r, s)
         \/ Register(r) \/ Close(r) \/ EnterQueue(r)
         \/ UNCHANGED <<status, seeking, partner>>
  BY DEF UserStep, StartCreate, LookForActive, InsertConflict, Authorize,
         StartReport, Locate, File, durable, runtime

LEMMA AdminFrame ==
  ASSUME Locals, NEW d \in Admin, AdminStep(d)
  PROVE  (\E s \in Session : Remove(s)) \/ UNCHANGED <<status, seeking, partner>>
  BY DEF AdminStep, StartReview, WriteReview, WriteAudit, StartRestrict, FindSession,
         SetRestriction, Revoke, CloseSockets, Restore, Fail, durable, runtime,
         Locals, TaskOK

(* Removing a session parts it from its partner, if it has one.             *)
LEMMA RemoveParts ==
  ASSUME RuntimeOK, Runtime!Couples, NEW s \in Session, Remove(s)
  PROVE  Runtime!Next
<1>1. CASE partner[s] = NoSession
  <2>1. partner' = partner
    BY <1>1, NoSessionAssumption DEF Remove, RuntimeOK, Runtime!Couples
  <2> QED
    BY <2>1 DEF Remove, Runtime!Next, Runtime!Quit
<1>2. CASE partner[s] # NoSession
  <2> DEFINE t == partner[s]
  <2>1. t \in Session /\ partner[t] = s /\ s \notin seeking
    BY <1>2 DEF Runtime!Couples
  <2>2. \A u \in Session : partner[u] = s => u = t
    BY NoSessionAssumption DEF Runtime!Couples
  <2>3. partner' = [partner EXCEPT ![s] = NoSession, ![t] = NoSession]
    BY <2>1, <2>2 DEF Remove, RuntimeOK
  <2>4. Runtime!Part(s, t)
    BY <2>1, <2>3 DEF Remove, Runtime!Part
  <2> QED
    BY <2>1, <2>4 DEF Runtime!Next
<1> QED
  BY <1>1, <1>2

LEMMA PairingStep ==
  ASSUME Locals, Runtime!Couples, [Next]_vars
  PROVE  [Runtime!Next]_(Runtime!pairing)
<1> USE DEF Locals
<1>1. CASE UNCHANGED <<seeking, partner>>
  BY <1>1 DEF Runtime!pairing
<1>2. ASSUME NEW r \in Request, Register(r) \/ Close(r)
      PROVE  Runtime!Next
  BY <1>2 DEF Register, Close, Runtime!Next, Runtime!Quit
<1>3. ASSUME NEW r \in Request, EnterQueue(r)
      PROVE  Runtime!Next
  <2>1. call[r].session \in Session
    BY <1>3 DEF CallOK, EnterQueue
  <2> QED
    BY <1>3, <2>1 DEF EnterQueue, Runtime!Next
<1>4. ASSUME NEW s \in Session, NEW t \in Session, Match(s, t)
      PROVE  Runtime!Next
  BY <1>4 DEF Match, Runtime!Next
<1>5. ASSUME NEW s \in Session, Part(s)
      PROVE  Runtime!Next
  <2>1. partner[s] \in Session
    BY <1>5 DEF Part, RuntimeOK
  <2> QED
    BY <1>5, <2>1 DEF Part, Runtime!Next
<1>6. ASSUME NEW s \in Session, Expire(s)
      PROVE  Runtime!Next
  BY <1>6, RemoveParts DEF Expire
<1>7. ASSUME NEW d \in Admin, Revoke(d)
      PROVE  Runtime!Next
  BY <1>7, RemoveParts DEF Revoke, TaskOK
<1>8. CASE Restart
  BY <1>8 DEF Restart, Runtime!Next, Runtime!Quit
<1>9. ASSUME NEW r \in Request, UserStep(r)
      PROVE  Register(r) \/ Close(r) \/ EnterQueue(r) \/ UNCHANGED <<seeking, partner>>
  BY <1>9, UserFrame DEF Insert, runtime
<1>10. ASSUME NEW d \in Admin, AdminStep(d)
      PROVE  Revoke(d) \/ UNCHANGED <<seeking, partner>>
  BY <1>10
  DEF AdminStep, StartReview, WriteReview, WriteAudit, StartRestrict, FindSession,
      SetRestriction, CloseSockets, Restore, Fail, runtime
<1>11. CASE UNCHANGED vars
  BY <1>1, <1>11 DEF vars
<1> QED
  BY <1>1, <1>2, <1>3, <1>4, <1>5, <1>6, <1>7, <1>8, <1>9, <1>10, <1>11 DEF Next

(* Who waits or is matched has an active row, and a row that is closed      *)
(* stays so.                                                                *)
LEMMA ActiveStep ==
  ASSUME Locals, OnlyActiveChat, [Next]_vars
  PROVE  /\ OnlyActiveChat'
         /\ \A s \in Session : status[s] = "closed" => status'[s] = "closed"
<1> USE DEF Locals, RuntimeOK, OnlyActiveChat
<1> DEFINE Holds == /\ OnlyActiveChat'
                    /\ \A s \in Session : status[s] = "closed" => status'[s] = "closed"
<1>1. CASE UNCHANGED <<status, seeking, partner>>
  BY <1>1
<1>2. ASSUME NEW r \in Request, NEW s \in Session, Insert(r, s)
      PROVE  Holds
  BY <1>2 DEF Insert, runtime
<1>3. ASSUME NEW r \in Request, Register(r) \/ Close(r)
      PROVE  Holds
  BY <1>3 DEF Register, Close, durable
<1>4. ASSUME NEW r \in Request, EnterQueue(r)
      PROVE  Holds
  BY <1>4 DEF EnterQueue, Runtime!Seek, durable
<1>5. ASSUME NEW s \in Session, NEW t \in Session, Match(s, t)
      PROVE  Holds
  BY <1>5 DEF Match, Runtime!Couple
<1>6. ASSUME NEW s \in Session, Part(s)
      PROVE  Holds
  BY <1>6 DEF Part, Runtime!Part, durable
<1>7. ASSUME NEW s \in Session, Remove(s)
      PROVE  Holds
  BY <1>7 DEF Remove
<1>8. CASE Restart
  BY <1>8 DEF Restart
<1>9. ASSUME NEW r \in Request, UserStep(r)
      PROVE  \/ \E s \in Session : Insert(r, s)
             \/ Register(r) \/ Close(r) \/ EnterQueue(r)
             \/ UNCHANGED <<status, seeking, partner>>
  BY <1>9, UserFrame
<1>10. ASSUME NEW d \in Admin, AdminStep(d)
      PROVE  (\E s \in Session : Remove(s)) \/ UNCHANGED <<status, seeking, partner>>
  BY <1>10, AdminFrame
<1>11. CASE UNCHANGED vars
  BY <1>1, <1>11 DEF vars
<1> HIDE DEF Holds
<1>12. Holds
  <2>1. CASE UNCHANGED <<status, seeking, partner>>
    BY <1>1, <2>1 DEF Holds
  <2>2. CASE UNCHANGED vars
    BY <1>11, <2>2 DEF Holds
  <2>3. CASE Restart
    BY <1>8, <2>3 DEF Holds
  <2> QED
    BY <1>2, <1>3, <1>4, <1>5, <1>6, <1>7, <1>9, <1>10, <2>1, <2>2, <2>3
    DEF Next, Expire
<1> QED
  BY <1>12 DEF Holds

(* Types, couples and active rows together are inductive: that only active  *)
(* rows chat needs the gate of the queue and both halves of a removal.      *)
ChatInv == Locals /\ Runtime!Couples /\ OnlyActiveChat

LEMMA ChatInvInit == Init => ChatInv
  BY LocalsInit DEF ChatInv, Init, Runtime!Init, Runtime!Couples, OnlyActiveChat

LEMMA ChatInvStep == ChatInv /\ [Next]_vars => ChatInv'
<1> SUFFICES ASSUME ChatInv, [Next]_vars PROVE ChatInv'
  OBVIOUS
<1>1. Locals'
  BY LocalsStep DEF ChatInv
<1>2. [Runtime!Next]_(Runtime!pairing)
  BY PairingStep DEF ChatInv
<1>3. Runtime!Couples'
  <2>1. Couplings!CInv
    BY DEF ChatInv, Couplings!CInv, Couplings!Couples, Runtime!Couples, Locals, RuntimeOK
  <2>2. [Couplings!Next]_(Couplings!pairing)
    BY <1>2
    DEF Couplings!Next, Couplings!pairing, Couplings!Seek, Couplings!Quit,
        Couplings!Couple, Couplings!Part, Runtime!Next, Runtime!pairing,
        Runtime!Seek, Runtime!Quit, Runtime!Couple, Runtime!Part
  <2>3. Couplings!CInv'
    BY <2>1, <2>2, NoSessionAssumption, Couplings!CoupleStep
  <2> QED
    BY <2>3 DEF Couplings!CInv, Couplings!Couples, Runtime!Couples
<1>4. OnlyActiveChat'
  BY ActiveStep DEF ChatInv
<1> QED
  BY <1>1, <1>3, <1>4 DEF ChatInv

LEMMA ChatInvAlways == Spec => []ChatInv
  BY ChatInvInit, ChatInvStep, PTL DEF Spec

(* A session whose row is not active neither waits nor has a partner: it    *)
(* was revoked or has expired, and a socket that registers late under its   *)
(* id does not bring it back.                                               *)
THEOREM ActiveChat == Spec => []OnlyActiveChat
  BY ChatInvAlways, PTL DEF ChatInv

(* However requests interleave, the runtime is used as Pairing describes    *)
(* it: revocation and expiry part couples on both sides.                    *)
THEOREM PairingKept == Spec => KeepsPairing
<1>1. Init => Runtime!Init
  BY DEF Init
<1>2. ChatInv /\ [Next]_vars => [Runtime!Next]_(Runtime!pairing)
  BY PairingStep DEF ChatInv
<1> QED
  BY <1>1, <1>2, ChatInvAlways, PTL DEF Spec, KeepsPairing, Runtime!Spec

--------------------------------------------------------------------------------
(* Restricted accounts.                                                     *)

(* An administrator's request that is about to close sockets has had the    *)
(* session it found removed, and a row once closed is not active again.     *)
FoundClosed ==
  \A d \in Admin :
    task[d].at = "close sockets" => status[task[d].found] = "closed"

LEMMA FoundClosedStep ==
  ASSUME Locals, OnlyActiveChat, FoundClosed, [Next]_vars
  PROVE  FoundClosed'
<1> USE DEF Locals
<1> SUFFICES ASSUME NEW d \in Admin, task'[d].at = "close sockets"
             PROVE  status'[task'[d].found] = "closed"
  BY DEF FoundClosed
<1>0. task \in [Admin -> TaskLocals]
  BY DEF TaskOK
<1>1. CASE task[d].at = "close sockets" /\ task'[d].found = task[d].found
  <2>1. task[d].found \in Session /\ status[task[d].found] = "closed"
    BY <1>1 DEF FoundClosed, TaskOK
  <2> QED
    BY <1>1, <2>1, ActiveStep
<1>2. CASE Revoke(d)
  <2>1. task'[d].found = task[d].found /\ task[d].found \in Session
    BY <1>0, <1>2 DEF Revoke, TaskOK, TaskLocals
  <2> QED
    BY <1>2, <2>1 DEF Revoke, Remove, RuntimeOK
<1>3. Revoke(d) \/ (task[d].at = "close sockets" /\ task'[d].found = task[d].found)
  <2>1. CASE Same(d)
    BY <2>1 DEF Same
  <2>2. CASE Restart
    BY <2>2 DEF Restart, Done, NoTask
  <2>3. CASE AdminStep(d)
    <3>1. CASE CloseSockets(d)
      BY <1>0, <3>1 DEF CloseSockets, Forgetting, Done, NoTask
    <3>2. ASSUME NEW l, task' = [task EXCEPT ![d] = l], l.at # "close sockets"
          PROVE  FALSE
      BY <1>0, <3>2
    <3>3. CASE WriteAudit(d) \/ Fail(d)
      BY <1>0, <3>3 DEF WriteAudit, Fail, Done, NoTask, TaskLocals
    <3>4. CASE FindSession(d) \/ SetRestriction(d) \/ WriteReview(d)
      BY <1>0, <3>4 DEF FindSession, SetRestriction, WriteReview, TaskLocals
    <3>5. ASSUME NEW n \in ReportId, NEW v \in Verdict, StartReview(d, n, v)
          PROVE  FALSE
      <4> DEFINE l == [NoTask EXCEPT !.at = "write review", !.report = n, !.verdict = v]
      <4>1. task' = [task EXCEPT ![d] = l]
        BY <3>5 DEF StartReview
      <4>2. l.at = "write review"
        BY DEF NoTask
      <4> HIDE DEF l
      <4> QED
        BY <3>2, <4>1, <4>2
    <3>6. ASSUME NEW a \in Account, NEW n \in ReportId, StartRestrict(d, a, n)
          PROVE  FALSE
      <4> DEFINE l == [NoTask EXCEPT !.at = "find session", !.account = a, !.report = n]
      <4>1. task' = [task EXCEPT ![d] = l]
        BY <3>6 DEF StartRestrict
      <4>2. l.at = "find session"
        BY DEF NoTask
      <4> HIDE DEF l
      <4> QED
        BY <3>2, <4>1, <4>2
    <3>7. ASSUME NEW a \in Account, Restore(d, a)
          PROVE  FALSE
      <4> DEFINE l == [NoTask EXCEPT !.at = "audit restoration", !.account = a]
      <4>1. task' = [task EXCEPT ![d] = l]
        BY <3>7 DEF Restore
      <4>2. l.at = "audit restoration"
        BY DEF NoTask
      <4> HIDE DEF l
      <4> QED
        BY <3>2, <4>1, <4>2
    <3> QED
      BY <2>3, <3>1, <3>3, <3>4, <3>5, <3>6, <3>7 DEF AdminStep
  <2> QED
    BY <2>1, <2>2, <2>3, OwnSteps
<1> QED
  BY <1>1, <1>2, <1>3

(* Once the sockets are closed the session that was found is out for good,  *)
(* whatever its sockets, other administrators and the expiry did meanwhile. *)
THEOREM Revoked == Spec => []RevokedForGood
<1>1. Init => FoundClosed
  <2>1. NoTask.at = "none"
    BY DEF NoTask
  <2> QED
    BY <2>1 DEF Init, FoundClosed
<1>2. ChatInv /\ FoundClosed /\ [Next]_vars => FoundClosed'
  BY FoundClosedStep DEF ChatInv
<1>3. ChatInv /\ FoundClosed => RevokedForGood
  BY DEF ChatInv, FoundClosed, RevokedForGood, OnlyActiveChat, Locals, TaskOK
<1> QED
  BY <1>1, <1>2, <1>3, ChatInvAlways, PTL DEF Spec

(* Only an insert makes a row active.                                       *)
LEMMA BecomesActive ==
  ASSUME Locals, [Next]_vars, NEW s \in Session, status'[s] = "active"
  PROVE  status[s] = "active" \/ \E r \in Request : Insert(r, s)
<1>0. status \in [Session -> {"unissued", "active", "closed"}]
  BY DEF Locals, RuntimeOK
<1>1. ASSUME NEW t \in Session, Remove(t) PROVE status[s] = "active"
  BY <1>0, <1>1 DEF Remove
<1>2. ASSUME NEW r \in Request, NEW t \in Session, Insert(r, t)
      PROVE  status[s] = "active" \/ Insert(r, s)
  BY <1>0, <1>2 DEF Insert
<1>3. ASSUME NEW r \in Request, UserStep(r)
      PROVE  status[s] = "active" \/ Insert(r, s)
  <2>1. CASE Register(r) \/ Close(r) \/ EnterQueue(r)
    BY <2>1 DEF Register, Close, EnterQueue, durable
  <2> QED
    BY <1>2, <1>3, <2>1, UserFrame
<1>4. ASSUME NEW d \in Admin, AdminStep(d) PROVE status[s] = "active"
  BY <1>1, <1>4, AdminFrame
<1>5. CASE (\E x, t \in Session : Match(x, t)) \/ (\E x \in Session : Part(x))
             \/ Restart \/ UNCHANGED vars
  BY <1>5 DEF Match, Part, Restart, vars, durable
<1>6. ASSUME NEW t \in Session, Expire(t) PROVE status[s] = "active"
  BY <1>1, <1>6 DEF Expire
<1> QED
  BY <1>3, <1>4, <1>5, <1>6 DEF Next

(* What a user's request does next is up to that request; others can only   *)
(* end it.                                                                  *)
LEMMA CallMoves ==
  ASSUME Locals, [Next]_vars, NEW r \in Request
  PROVE  call'[r] = call[r] \/ call'[r].at = "none" \/ UserStep(r)
<1>0. call \in [Request -> CallLocals] /\ NoCall.at = "none"
  BY DEF Locals, CallOK, NoCall
<1>1. ASSUME NEW q \in Request \ {r}, UserStep(q)
      PROVE  call'[r] = call[r]
  <2>1. CASE StartCreate(q) \/ LookForActive(q) \/ InsertConflict(q) \/ Register(q)
    BY <1>0, <1>1, <2>1
    DEF StartCreate, LookForActive, InsertConflict, Register, Moves, Ends
  <2>2. CASE (\E s \in Session : Insert(q, s)) \/ EnterQueue(q) \/ Close(q) \/ File(q)
    BY <1>0, <1>1, <2>2 DEF Insert, EnterQueue, Close, File, Ends
  <2>3. ASSUME NEW s \in Issued, Authorize(q, s) \/ StartReport(q, s)
        PROVE  call'[r] = call[r]
    BY <1>0, <1>1, <2>3 DEF Authorize, StartReport
  <2>4. CASE Locate(q)
    BY <1>0, <1>1, <2>4 DEF Locate
  <2> QED
    BY <1>1, <2>1, <2>2, <2>3, <2>4 DEF UserStep
<1>2. ASSUME NEW d \in Admin, AdminStep(d)
      PROVE  call'[r] = call[r] \/ call'[r].at = "none"
  <2>1. CASE CloseSockets(d)
    BY <1>0, <2>1 DEF CloseSockets
  <2>2. CASE UNCHANGED call
    BY <2>2
  <2>3. CloseSockets(d) \/ UNCHANGED call
    BY <1>2
    DEF AdminStep, StartReview, WriteReview, WriteAudit, StartRestrict, FindSession,
        SetRestriction, Revoke, Restore, Fail
  <2> QED
    BY <2>1, <2>2, <2>3
<1>3. CASE Restart
  BY <1>0, <1>3 DEF Restart
<1>4. CASE (\E x, t \in Session : Match(x, t))
             \/ (\E x \in Session : Part(x) \/ Expire(x)) \/ UNCHANGED vars
  BY <1>4 DEF Match, Part, Expire, vars
<1> QED
  BY <1>1, <1>2, <1>3, <1>4 DEF Next

(* Where the steps of a request lead.                                       *)
LEMMA CallGoes ==
  ASSUME Locals, NEW r \in Request, UserStep(r)
  PROVE  /\ call'[r].at \in {"looking", "inserting"} =>
              call[r].at \in {"looking", "inserting"} \/ ChatEnabled(UserOf[r])
         /\ call'[r].at = "filing" => call'[r] = call[r] \/ Locate(r)
<1>0. call \in [Request -> CallLocals] /\ NoCall.at = "none"
  BY DEF Locals, CallOK, NoCall
<1>1. CASE StartCreate(r)
  BY <1>0, <1>1 DEF StartCreate, Moves, CallLocals
<1>2. CASE LookForActive(r) \/ InsertConflict(r)
  <2>1. call[r].at \in {"looking", "inserting"}
    BY <1>2 DEF LookForActive, InsertConflict, Moves, Ends
  <2>2. call'[r].at \in {"none", "looking", "inserting"}
    BY <1>0, <1>2 DEF LookForActive, InsertConflict, Moves, Ends, CallLocals
  <2> QED
    BY <2>1, <2>2
<1>3. CASE (\E s \in Session : Insert(r, s)) \/ Close(r) \/ File(r)
  BY <1>0, <1>3 DEF Insert, Close, File, Ends
<1>4. ASSUME NEW s \in Issued, Authorize(r, s) \/ StartReport(r, s)
      PROVE  ChatEnabled(UserOf[r]) /\ call'[r].at # "filing"
  BY <1>0, <1>4 DEF Authorize, StartReport, NoCall
<1>5. CASE Register(r)
  BY <1>0, <1>5 DEF Register, Moves, CallLocals
<1>6. CASE Locate(r)
  <2>1. call'[r].at \in {"none", "filing"}
    BY <1>0, <1>6 DEF Locate, CallLocals
  <2> QED
    BY <1>6, <2>1
<1>7. CASE EnterQueue(r)
  BY <1>7 DEF EnterQueue
<1> QED
  BY <1>1, <1>2, <1>3, <1>4, <1>5, <1>6, <1>7 DEF UserStep

(* A restricted account that has no session and no request on its way to    *)
(* one gets none, whatever it asks for, until it is restored.               *)
THEOREM Excluded == Spec => StaysOut
<1> DEFINE Stays(a) == restriction[a] # 0 /\ restriction'[a] # 0 /\ Out(a) => Out(a)'
<1>1. ASSUME Locals, [Next]_vars, NEW a \in Account PROVE Stays(a)
  <2> SUFFICES ASSUME restriction[a] # 0, Out(a) PROVE Out(a)'
    OBVIOUS
  <2>1. ASSUME NEW s \in Session, AccountOf[s] = a, status'[s] = "active"
        PROVE  FALSE
    <3>1. PICK r \in Request : Insert(r, s)
      BY <1>1, <2>1, BecomesActive DEF Out, ActiveSessions
    <3>2. UserOf[r] = a /\ call[r].at = "inserting"
      BY <2>1, <3>1 DEF Insert, Ends
    <3> QED
      BY <3>2 DEF Out
  <2>2. ASSUME NEW r \in Request, UserOf[r] = a, call'[r].at \in {"looking", "inserting"}
        PROVE  FALSE
    BY <1>1, <2>2, CallMoves, CallGoes DEF Out, ChatEnabled
  <2> QED
    BY <2>1, <2>2 DEF Out, ActiveSessions
<1>2. Locals /\ [Next]_vars => [\A a \in Account : Stays(a)]_vars
  BY <1>1
<1>3. Spec => []Locals
  BY LocalsInit, LocalsStep, PTL DEF Spec
<1> QED
  BY <1>2, <1>3, PTL DEF Spec, StaysOut

--------------------------------------------------------------------------------
(* The audit trail.                                                         *)

Auditing == {"audit review", "audit restriction", "audit restoration"}

(* Nothing leaves the trail, and what is due stays due or enters it.        *)
LEMMA TrailGrows ==
  ASSUME Locals, [Next]_vars
  PROVE  audit \subseteq audit' /\ lost \subseteq lost'
<1>1. ASSUME NEW r \in Request, UserStep(r)
      PROVE  UNCHANGED <<audit, lost>>
  BY <1>1
  DEF UserStep, StartCreate, LookForActive, Insert, InsertConflict, Authorize,
      Register, EnterQueue, Close, StartReport, Locate, File, durable
<1>2. ASSUME NEW d \in Admin, AdminStep(d)
      PROVE  WriteAudit(d) \/ Fail(d) \/ UNCHANGED <<audit, lost>>
  BY <1>2
  DEF AdminStep, StartReview, WriteReview, StartRestrict, FindSession,
      SetRestriction, Revoke, Remove, CloseSockets, Restore, durable
<1>3. ASSUME NEW d \in Admin, WriteAudit(d) \/ Fail(d)
      PROVE  audit \subseteq audit' /\ lost \subseteq lost'
  BY <1>3 DEF WriteAudit, Fail
<1>4. CASE (\E s, t \in Session : Match(s, t))
             \/ (\E s \in Session : Part(s) \/ Expire(s))
             \/ Restart \/ UNCHANGED vars
  BY <1>4 DEF Match, Part, Expire, Remove, Restart, vars, durable
<1> QED
  BY <1>1, <1>2, <1>3, <1>4 DEF Next

LEMMA DueMoves ==
  ASSUME Locals, [Next]_vars, NEW d \in Admin, task[d].at \in Auditing
  PROVE  Same(d) \/ Due(d) \subseteq audit' \cup lost'
<1>1. CASE Restart
  BY <1>1 DEF Restart
<1>2. CASE AdminStep(d)
  <2>1. WriteAudit(d) \/ Fail(d)
    BY <1>2
    DEF AdminStep, StartReview, WriteReview, StartRestrict, FindSession,
        SetRestriction, Revoke, CloseSockets, Restore, Auditing
  <2> QED
    BY <2>1 DEF WriteAudit, Fail
<1> QED
  BY <1>1, <1>2, OwnSteps DEF Locals

(* What Due says, task by task.                                             *)
LEMMA DueEvents ==
  ASSUME NEW d
  PROVE  /\ task[d].at = "audit review" =>
              Due(d) = {ReviewedEvent(d, reports[task[d].report].status, task[d].report)}
         /\ task[d].at = "audit restriction" => Due(d) = {RestrictedEvent(d)}
         /\ task[d].at = "audit restoration" => Due(d) = {RestoredEvent(d)}
         /\ task[d].at \notin Auditing => Due(d) = {}
  BY DEF Due, Auditing

--------------------------------------------------------------------------------
(* Reviews.                                                                 *)

ReviewInv ==
  \A n \in ReportId : reports[n].status # "open" =>
    \E d \in Admin :
      /\ reports[n].reviewer = d
      /\ ReviewedEvent(d, reports[n].status, n) \in audit \cup lost \cup Due(d)

LEMMA ReviewStep ==
  ASSUME Locals, ReviewInv, [Next]_vars
  PROVE  ReviewInv'
<1> DEFINE Audited(n) == \E d \in Admin :
      /\ reports'[n].reviewer = d
      /\ ReviewedEvent(d, reports'[n].status, n) \in audit' \cup lost' \cup Due(d)'
<1> SUFFICES ASSUME NEW n \in ReportId', reports'[n].status # "open"
             PROVE  Audited(n)
  BY DEF ReviewInv, ReviewedEvent
<1>1. ASSUME n \in ReportId, reports'[n] = reports[n]
      PROVE  Audited(n)
  <2>1. PICK d \in Admin :
          /\ reports[n].reviewer = d
          /\ ReviewedEvent(d, reports[n].status, n) \in audit \cup lost \cup Due(d)
    BY <1>1 DEF ReviewInv
  <2> DEFINE e == ReviewedEvent(d, reports'[n].status, n)
  <2>2. e \in audit \cup lost \cup Due(d)
    BY <1>1, <2>1
  <2>3. e.event = "reviewed" /\ e.report = n
    BY DEF ReviewedEvent
  <2> HIDE DEF e
  <2>4. CASE e \in audit \cup lost
    <3>1. e \in audit' \cup lost'
      BY <2>4, TrailGrows
    <3> QED
      BY <1>1, <2>1, <3>1 DEF e
  <2>5. CASE e \in Due(d)
    <3>1. task[d].at \in Auditing
      BY <2>5, DueEvents
    <3>2. task[d].at # "audit restriction"
      <4>1. RestrictedEvent(d).event = "restricted"
        BY DEF RestrictedEvent
      <4> QED
        BY <2>3, <2>5, <4>1, DueEvents
    <3>3. task[d].at # "audit restoration"
      <4>1. RestoredEvent(d).event = "restored"
        BY DEF RestoredEvent
      <4> QED
        BY <2>3, <2>5, <4>1, DueEvents
    <3>4. task[d].at = "audit review"
      BY <3>1, <3>2, <3>3 DEF Auditing
    <3>5. task[d].report = n
      <4> DEFINE m == task[d].report
      <4>1. e = ReviewedEvent(d, reports[m].status, m)
        BY <2>5, <3>4, DueEvents
      <4> QED
        BY <2>3, <4>1 DEF ReviewedEvent
    <3>6. CASE Same(d)
      <4>1. task'[d].at = "audit review" /\ task'[d].report = n
        BY <3>4, <3>5, <3>6 DEF Same
      <4>2. e \in Due(d)'
        BY <4>1 DEF Due, ReviewedEvent, e
      <4> QED
        BY <1>1, <2>1, <4>2 DEF e
    <3>7. CASE Due(d) \subseteq audit' \cup lost'
      BY <1>1, <2>1, <2>5, <3>7 DEF e
    <3> QED
      BY <3>1, <3>6, <3>7, DueMoves
  <2> QED
    BY <2>2, <2>4, <2>5
<1>2. ASSUME NEW d \in Admin, WriteReview(d), n = task[d].report,
             n \in ReportId, reports'[n] = Decided(d)
      PROVE  Audited(n)
  <2>1. reports[n] \in Report
    BY <1>2, ElementOfSeq DEF Locals, RecordsOK, ReportId
  <2>2. reports'[n].reviewer = d
    BY <1>2, <2>1 DEF Decided, Report
  <2>3. task'[d].at = "audit review" /\ task'[d].report = n
    BY <1>2 DEF WriteReview, Locals, TaskOK, TaskLocals
  <2>4. ReviewedEvent(d, reports'[n].status, n) \in Due(d)'
    BY <2>3 DEF Due, ReviewedEvent
  <2> QED
    BY <2>2, <2>4
<1>3. ASSUME NEW r \in Request, reports'[n] = FiledBy(r)
      PROVE  FALSE
  BY <1>3 DEF FiledBy
<1> QED
  BY <1>1, <1>2, <1>3, ReportsStep DEF ReportsMove

(* Every decision on a report is audited with its reviewer and verdict,     *)
(* unless the request died between the two, for any number of reviewers     *)
(* who decide on the same reports at once.                                  *)
THEOREM ReviewsAudited == Spec => []ReviewAudited
<1>1. Init => ReviewInv
  BY DEF Init, ReviewInv, ReportId
<1>2. Locals /\ ReviewInv /\ [Next]_vars => ReviewInv'
  BY ReviewStep
<1>3. ReviewInv => ReviewAudited
  BY DEF ReviewInv, ReviewAudited
<1>4. Spec => []Locals
  BY LocalsInit, LocalsStep, PTL DEF Spec
<1> QED
  BY <1>1, <1>2, <1>3, <1>4, PTL DEF Spec

--------------------------------------------------------------------------------
(* Restrictions.                                                            *)

Trail == audit \cup lost \cup UNION {Due(d) : d \in Admin}

RestrictionInv ==
  \A a \in Account : restriction[a] # 0 =>
    \E e \in Trail :
      e.event = "restricted" /\ e.account = a /\ e.report = restriction[a]

(* The event of a restriction stays in the trail. *)
LEMMA RestrictedStays ==
  ASSUME Locals, [Next]_vars, NEW e \in Trail, e.event = "restricted"
  PROVE  e \in Trail'
<1>1. CASE e \in audit \cup lost
  BY <1>1, TrailGrows DEF Trail
<1>2. ASSUME NEW d \in Admin, e \in Due(d)
      PROVE  e \in Trail'
  <2>1. task[d].at \in Auditing
    BY <1>2, DueEvents
  <2>2. task[d].at # "audit review"
    <3>1. \A v, n : ReviewedEvent(d, v, n).event = "reviewed"
      BY DEF ReviewedEvent
    <3> QED
      BY <1>2, <3>1, DueEvents
  <2>3. task[d].at # "audit restoration"
    <3>1. RestoredEvent(d).event = "restored"
      BY DEF RestoredEvent
    <3> QED
      BY <1>2, <3>1, DueEvents
  <2>4. task[d].at = "audit restriction"
    BY <2>1, <2>2, <2>3 DEF Auditing
  <2>5. CASE Same(d)
    <3>1. RestrictedEvent(d)' = RestrictedEvent(d) /\ task'[d].at = "audit restriction"
      BY <2>4, <2>5 DEF Same, RestrictedEvent
    <3>2. e \in Due(d)'
      BY <1>2, <2>4, <3>1, DueEvents DEF Due
    <3> QED
      BY <3>2 DEF Trail
  <2>6. CASE Due(d) \subseteq audit' \cup lost'
    BY <1>2, <2>6 DEF Trail
  <2> QED
    BY <2>1, <2>5, <2>6, DueMoves
<1> QED
  BY <1>1, <1>2 DEF Trail

LEMMA RestrictionStep ==
  ASSUME Locals, RestrictionInv, [Next]_vars
  PROVE  RestrictionInv'
<1> SUFFICES ASSUME NEW a \in Account, restriction'[a] # 0
             PROVE  \E e \in Trail' : /\ e.event = "restricted"
                                     /\ e.account = a
                                     /\ e.report = restriction'[a]
  BY DEF RestrictionInv
<1>0. restriction \in [Account -> ReportId \cup {0}]
  BY DEF Locals, RecordsOK
<1>1. CASE restriction'[a] = restriction[a]
  <2>1. PICK e \in Trail : e.event = "restricted" /\ e.account = a /\ e.report = restriction[a]
    BY <1>1 DEF RestrictionInv
  <2> QED
    BY <1>1, <2>1, RestrictedStays
<1>2. ASSUME NEW d \in Admin, SetRestriction(d), task[d].account = a
      PROVE  \E e \in Trail' : /\ e.event = "restricted"
                              /\ e.account = a
                              /\ e.report = restriction'[a]
  <2>1. task[d] \in TaskLocals /\ task \in [Admin -> TaskLocals]
    BY DEF Locals, TaskOK
  <2>2. /\ task'[d].at = "audit restriction"
        /\ task'[d].account = a
        /\ task'[d].report = task[d].report
        /\ restriction'[a] = task[d].report
    BY <1>0, <1>2, <2>1 DEF SetRestriction, TaskLocals
  <2>3. RestrictedEvent(d)' \in Due(d)'
    BY <2>2 DEF Due
  <2>4. /\ RestrictedEvent(d)'.event = "restricted"
        /\ RestrictedEvent(d)'.account = a
        /\ RestrictedEvent(d)'.report = restriction'[a]
    BY <2>2 DEF RestrictedEvent
  <2> QED
    BY <2>3, <2>4 DEF Trail
<1>3. ASSUME NEW r \in Request, UserStep(r)
      PROVE  UNCHANGED restriction
  BY <1>3
  DEF UserStep, StartCreate, LookForActive, Insert, InsertConflict, Authorize,
      Register, EnterQueue, Close, StartReport, Locate, File, durable
<1>4. ASSUME NEW d \in Admin, AdminStep(d)
      PROVE  SetRestriction(d) \/ (\E b \in Account : Restore(d, b))
               \/ UNCHANGED restriction
  BY <1>4
  DEF AdminStep, StartReview, WriteReview, WriteAudit, StartRestrict, FindSession,
      Revoke, Remove, CloseSockets, Fail, durable
<1>5. ASSUME NEW d \in Admin, NEW b \in Account, Restore(d, b)
      PROVE  restriction'[a] = restriction[a]
  BY <1>0, <1>5 DEF Restore
<1>6. ASSUME NEW d \in Admin, SetRestriction(d), task[d].account # a
      PROVE  restriction'[a] = restriction[a]
  BY <1>0, <1>6 DEF SetRestriction
<1>7. CASE (\E s, t \in Session : Match(s, t))
             \/ (\E s \in Session : Part(s) \/ Expire(s))
             \/ Restart \/ UNCHANGED vars
  BY <1>1, <1>7 DEF Match, Part, Expire, Remove, Restart, vars, durable
<1> QED
  BY <1>1, <1>2, <1>3, <1>4, <1>5, <1>6, <1>7 DEF Next

(* Every restriction in force names a report about the very account and is  *)
(* audited, or its request died before it could be.                         *)
THEOREM RestrictionsAudited == Spec => []RestrictionAudited
<1>1. Init => RestrictionInv
  BY DEF Init, RestrictionInv
<1>2. Locals /\ RestrictionInv /\ [Next]_vars => RestrictionInv'
  BY RestrictionStep
<1>3. Locals /\ RestrictionInv => RestrictionAudited
  BY DEF RestrictionInv, RestrictionAudited, Trail, Locals, RecordsOK
<1>4. Spec => []Locals
  BY LocalsInit, LocalsStep, PTL DEF Spec
<1> QED
  BY <1>1, <1>2, <1>3, <1>4, PTL DEF Spec

--------------------------------------------------------------------------------
(* Reports.                                                                 *)

(* A couple has met; so have the sides of a report that is about to be      *)
(* stored, and of every report that has been.                               *)
MetBy(a, t, match) ==
  \E s \in Session : AccountOf[s] = a /\ match = {s, t} /\ match \in met

ReportInv ==
  /\ \A s \in Session : partner[s] # NoSession => {s, partner[s]} \in met
  /\ \A r \in Request : call[r].at = "filing" =>
       MetBy(UserOf[r], call[r].other, call[r].match)
  /\ \A n \in ReportId :
       MetBy(reports[n].reporter, reports[n].reported, reports[n].match)

LEMMA MetGrows == ASSUME [Next]_vars PROVE met \subseteq met'
<1>1. ASSUME NEW r \in Request, UserStep(r)
      PROVE  UNCHANGED met
  BY <1>1
  DEF UserStep, StartCreate, LookForActive, Insert, InsertConflict, Authorize,
      Register, EnterQueue, Close, StartReport, Locate, File, durable
<1>2. ASSUME NEW d \in Admin, AdminStep(d)
      PROVE  UNCHANGED met
  BY <1>2
  DEF AdminStep, StartReview, WriteReview, WriteAudit, StartRestrict, FindSession,
      SetRestriction, Revoke, Remove, CloseSockets, Restore, Fail, durable
<1>3. CASE (\E s, t \in Session : Match(s, t))
             \/ (\E s \in Session : Part(s) \/ Expire(s))
             \/ Restart \/ UNCHANGED vars
  BY <1>3 DEF Match, Part, Expire, Remove, Restart, vars, durable
<1> QED
  BY <1>1, <1>2, <1>3 DEF Next

(* Only try_match makes partners, and it records the match first.           *)
LEMMA PartnersMet ==
  ASSUME Locals, [Next]_vars, NEW s \in Session,
         partner[s] # NoSession => {s, partner[s]} \in met,
         partner'[s] # NoSession
  PROVE  {s, partner'[s]} \in met'
<1>0. partner \in [Session -> Session \cup {NoSession}]
  BY DEF Locals, RuntimeOK
<1>1. CASE partner'[s] = partner[s]
  BY <1>1, MetGrows
<1>2. ASSUME NEW x \in Session, NEW t \in Session, Match(x, t)
      PROVE  {s, partner'[s]} \in met'
  <2>1. {x, t} = {t, x}
    OBVIOUS
  <2> QED
    BY <1>0, <1>1, <1>2, <2>1 DEF Match, Runtime!Couple
<1>3. ASSUME NEW x \in Session, Part(x)
      PROVE  partner'[s] = partner[s]
  BY <1>0, <1>3 DEF Part, Runtime!Part
<1>4. ASSUME NEW x \in Session, Remove(x)
      PROVE  partner'[s] = partner[s]
  BY <1>0, <1>4 DEF Remove
<1>5. ASSUME NEW r \in Request, UserStep(r)
      PROVE  partner' = partner
  BY <1>5, UserFrame DEF Insert, runtime, Register, Close, EnterQueue, Runtime!Seek
<1>6. ASSUME NEW d \in Admin, AdminStep(d)
      PROVE  partner'[s] = partner[s]
  BY <1>4, <1>6, AdminFrame
<1>7. CASE Restart \/ UNCHANGED vars
  BY <1>1, <1>7 DEF Restart, vars
<1> QED
  BY <1>1, <1>2, <1>3, <1>4, <1>5, <1>6, <1>7 DEF Next, Expire

LEMMA ReportInvStep ==
  ASSUME Locals, ReportInv, [Next]_vars
  PROVE  ReportInv'
<1>0. met \subseteq met'
  BY MetGrows
<1>1. ASSUME NEW s \in Session, partner'[s] # NoSession
      PROVE  {s, partner'[s]} \in met'
  BY <1>1, PartnersMet DEF ReportInv
<1>2. ASSUME NEW r \in Request, call'[r].at = "filing"
      PROVE  \E s \in Session : /\ AccountOf[s] = UserOf[r]
                               /\ call'[r].match = {s, call'[r].other}
                               /\ call'[r].match \in met'
  <2>1. CASE call'[r] = call[r]
    BY <1>0, <1>2, <2>1 DEF ReportInv, MetBy
  <2>2. CASE Locate(r)
    <3>1. call \in [Request -> CallLocals] /\ NoCall.at # "filing"
      BY DEF Locals, CallOK, NoCall
    <3>2. PICK s \in ActiveSessions(UserOf[r]) :
            /\ partner[s] = call[r].other
            /\ call' = [call EXCEPT ![r].at = "filing", ![r].match = {s, call[r].other}]
      BY <1>2, <2>2, <3>1 DEF Locate
    <3>3. call'[r].match = {s, call[r].other} /\ call'[r].other = call[r].other
      BY <3>1, <3>2 DEF CallLocals
    <3>4. s \in Session /\ AccountOf[s] = UserOf[r]
      BY DEF ActiveSessions
    <3>5. call[r].other # NoSession
      BY <2>2, NoSessionAssumption DEF Locate, Locals, CallOK
    <3>6. {s, call[r].other} \in met
      BY <3>2, <3>4, <3>5 DEF ReportInv
    <3> QED
      BY <1>0, <3>3, <3>4, <3>6
  <2> QED
    BY <1>2, <2>1, <2>2, CallMoves, CallGoes
<1>3. ASSUME NEW n \in ReportId'
      PROVE  \E s \in Session : /\ AccountOf[s] = reports'[n].reporter
                               /\ reports'[n].match = {s, reports'[n].reported}
                               /\ reports'[n].match \in met'
  <2>1. CASE n \in ReportId
    <3>1. /\ reports'[n].reporter = reports[n].reporter
          /\ reports'[n].reported = reports[n].reported
          /\ reports'[n].match = reports[n].match
      BY <2>1, ReportsKept
    <3>2. MetBy(reports[n].reporter, reports[n].reported, reports[n].match)
      BY <2>1 DEF ReportInv
    <3> QED
      BY <1>0, <3>1, <3>2 DEF MetBy
  <2>2. ASSUME NEW r \in Request, File(r), reports'[n] = FiledBy(r)
        PROVE  \E s \in Session : /\ AccountOf[s] = reports'[n].reporter
                                 /\ reports'[n].match = {s, reports'[n].reported}
                                 /\ reports'[n].match \in met'
    <3>1. /\ reports'[n].reporter = UserOf[r]
          /\ reports'[n].reported = call[r].other
          /\ reports'[n].match = call[r].match
      BY <2>2 DEF FiledBy
    <3>2. MetBy(UserOf[r], call[r].other, call[r].match)
      BY <2>2 DEF ReportInv, File, Ends
    <3> QED
      BY <1>0, <3>1, <3>2 DEF MetBy
  <2> QED
    BY <2>1, <2>2, ReportsStep DEF ReportsMove
<1> QED
  BY <1>1, <1>2, <1>3 DEF ReportInv, MetBy

(* Every report is about a match that took place between a session of the   *)
(* reporter and the reported one, also when that match, or the sessions, or *)
(* a later match are over by the time it is stored.                         *)
THEOREM PartnersReported == Spec => []ReportsPartners
<1>1. Init => ReportInv
  BY DEF Init, Runtime!Init, ReportInv, ReportId, NoCall
<1>2. Locals /\ ReportInv /\ [Next]_vars => ReportInv'
  BY ReportInvStep
<1>3. ReportInv => ReportsPartners
  BY DEF ReportInv, ReportsPartners, MetBy
<1>4. Spec => []Locals
  BY LocalsInit, LocalsStep, PTL DEF Spec
<1> QED
  BY <1>1, <1>2, <1>3, <1>4, PTL DEF Spec
================================================================================
