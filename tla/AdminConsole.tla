------------------------------ MODULE AdminConsole ------------------------------
(***************************************************************************)
(* The administrators' console: the page of reports and restricted         *)
(* accounts, and the page of audit events.                                 *)
(*                                                                         *)
(* Every button starts an async function that awaits one request after     *)
(* the other.  Nothing cancels a function that has started, nothing ties   *)
(* an answer to what is selected by then, and what a function read when it *)
(* was clicked (its closure) is what it uses to the end.  A function is a  *)
(* task here: the requests it has yet to finish, fixed at the click.       *)
(***************************************************************************)
EXTENDS Naturals, Sequences, FiniteSets

CONSTANTS
  Report,     \* ids of chat_reports, newest last; no more than a page of them
  Account,    \* accounts that are reported
  ReportedOf, \* the account each report is about
  Reason,     \* reasons of reports
  ReasonOf,   \* the reason of each report
  Verdict,    \* what a review may decide
  NoAccount,  \* a request that names no account
  FirstStatus,      \* what the database holds when the console is opened
  FirstRestriction, \* the same of the accounts
  MaxTasks,   \* async functions under way (bounds the model)
  MaxClicks   \* clicks of the administrator (bounds the model)

PageLimit == 20  \* the limit of the console's lists
ASSUME ReportAssumption == Report \subseteq 1..PageLimit
ASSUME ReportedAssumption == ReportedOf \in [Report -> Account]
ASSUME ReasonAssumption == ReasonOf \in [Report -> Reason] /\ "any" \notin Reason
ASSUME VerdictAssumption == "open" \notin Verdict
ASSUME AccountAssumption == NoAccount \notin Account
ASSUME FirstAssumption ==
  /\ FirstStatus \in [Report -> {"open"} \cup Verdict]
  /\ FirstRestriction \in [Account -> {0} \cup Report]
ASSUME BoundAssumption == MaxTasks \in Nat \ {0, 1, 2} /\ MaxClicks \in Nat

VARIABLES
  status,      \* server: the status of each report
  restriction, \* server: the report an account is restricted for, 0 if it is not
  page,        \* the route: the page that is mounted
  filter,      \* statusFilter and reasonFilter
  list,        \* reports: the ids of the rows shown
  restricted,  \* restrictedAccounts: what each account is shown restricted for
  selected,    \* selectedReportId, 0 for null
  detail,      \* reportDetail, id 0 for null
  loading,     \* listLoading, restrictedLoading, detailLoading, and the audit page's
  failed,      \* listError, restrictedError, detailError, actionError, and the audit page's
  success,     \* actionSuccessMessage
  submitting,  \* submittingReview, submittingAccountAction
  restoring,   \* restoringAccountId
  tasks,       \* async functions under way
  clicks       \* clicks so far

server == <<status, restriction>>
view == <<filter, list, restricted, selected, detail, loading, failed, success,
          submitting, restoring>>
vars == <<status, restriction, page, filter, list, restricted, selected, detail,
          loading, failed, success, submitting, restoring, tasks, clicks>>

--------------------------------------------------------------------------------
Status == {"open"} \cup Verdict
Filter == [status : Status \cup {"any"}, reason : Reason \cup {"any"}]
Slot == 1..MaxTasks

NoReport == 0
NoDetail == [id |-> NoReport, status |-> "open", source |-> NoReport]
Unrestricted == [a \in Account |-> NoReport]
FirstFilter == [status |-> "open", reason |-> "any"]

(* What a request of the console asks for, one operator per function of    *)
(* admin-client.                                                           *)
Blank == [op |-> "none", report |-> NoReport, account |-> NoAccount,
          verdict |-> "open", filter |-> FirstFilter]
ListReports(f, prefer) ==
  [Blank EXCEPT !.op = "list", !.filter = f, !.report = prefer]
GetDetail(r) == [Blank EXCEPT !.op = "detail", !.report = r]
ListRestricted == [Blank EXCEPT !.op = "restricted"]
ListAudit == [Blank EXCEPT !.op = "audit"]
Review(r, v) == [Blank EXCEPT !.op = "review", !.report = r, !.verdict = v]
RestrictAccount(a, r) == [Blank EXCEPT !.op = "restrict", !.account = a, !.report = r]
Restore(a) == [Blank EXCEPT !.op = "restore", !.account = a]

Load == {"list", "detail", "restricted", "audit"}

(* A task: what it is, the requests it has left, whether the first one may *)
(* not be sent again, where that stands, and what the server held when it  *)
(* answered.                                                               *)
Unseen == [status |-> [r \in Report |-> "open"], restriction |-> Unrestricted]
Idle == [kind |-> "idle", todo |-> << >>, again |-> FALSE, at |-> "sent", seen |-> Unseen]
Begun(kind, todo) == [Idle EXCEPT !.kind = kind, !.todo = todo]

FreeSlots == {k \in Slot : tasks[k] = Idle}
AnySlot(S) == CHOOSE k \in S : \A j \in S : k <= j
Head1(k) == Head(tasks[k].todo)

(* The start of a load: its flag goes up, its error is cleared.            *)
Raised(L, op) == IF op \in Load THEN [L EXCEPT ![op] = TRUE] ELSE L
Cleared(F, op) == IF op \in Load THEN [F EXCEPT ![op] = FALSE] ELSE F

(* The view of a page that has just been mounted: its effects have started *)
(* the first loads.                                                        *)
MountedLoading(p) ==
  [op \in Load |-> IF p = "audit" THEN op = "audit" ELSE op \in {"list", "restricted"}]
MountedTasks(p) ==
  [k \in Slot |->
     CASE p = "audit" /\ k = 1 -> Begun("load", <<ListAudit>>)
       [] p = "reports" /\ k = 1 -> Begun("load", <<ListReports(FirstFilter, NoReport)>>)
       [] p = "reports" /\ k = 2 -> Begun("load", <<ListRestricted>>)
       [] OTHER -> Idle]
Mounted(p) ==
  /\ page' = p
  /\ filter' = FirstFilter
  /\ list' = {}
  /\ restricted' = Unrestricted
  /\ selected' = NoReport
  /\ detail' = NoDetail
  /\ loading' = MountedLoading(p)
  /\ failed' = [op \in Load \cup {"action"} |-> FALSE]
  /\ success' = FALSE
  /\ submitting' = [f \in {"review", "act"} |-> FALSE]
  /\ restoring' = NoAccount
  /\ tasks' = MountedTasks(p)

Init ==
  /\ status = FirstStatus
  /\ restriction = FirstRestriction
  /\ page = "reports"
  /\ filter = FirstFilter
  /\ list = {}
  /\ restricted = Unrestricted
  /\ selected = NoReport
  /\ detail = NoDetail
  /\ loading = MountedLoading("reports")
  /\ failed = [op \in Load \cup {"action"} |-> FALSE]
  /\ success = FALSE
  /\ submitting = [f \in {"review", "act"} |-> FALSE]
  /\ restoring = NoAccount
  /\ tasks = MountedTasks("reports")
  /\ clicks = 0

--------------------------------------------------------------------------------
(* What the server answers.                                                *)
Shown(f, S) ==
  {r \in Report : /\ f.status \in {"any", S.status[r]}
                  /\ f.reason \in {"any", ReasonOf[r]}}
DetailOf(r, S) ==
  [id |-> r, status |-> S.status[r], source |-> S.restriction[ReportedOf[r]]]

(* review_report refuses what is not open; restrict_account a report about *)
(* another account.  Nothing else keeps a request from its effect.         *)
Accepted(q) ==
  CASE q.op = "review" -> status[q.report] = "open"
    [] q.op = "restrict" -> ReportedOf[q.report] = q.account
    [] OTHER -> TRUE
StatusAfter(q) ==
  IF q.op = "review" THEN [status EXCEPT ![q.report] = q.verdict] ELSE status
RestrictionAfter(q) ==
  CASE q.op = "restrict" -> [restriction EXCEPT ![q.account] = q.report]
    [] q.op = "restore" -> [restriction EXCEPT ![q.account] = NoReport]
    [] OTHER -> restriction

(* The server carries out a request; the answer is on its way, or lost.    *)
Serve(k) ==
  /\ tasks[k] # Idle /\ tasks[k].at = "sent"
  /\ Accepted(Head1(k))
  /\ status' = StatusAfter(Head1(k))
  /\ restriction' = RestrictionAfter(Head1(k))
  /\ \/ tasks' = [tasks EXCEPT ![k].at = "ok", ![k].again = TRUE,
                    ![k].seen = [status |-> status', restriction |-> restriction']]
     \/ tasks' = [tasks EXCEPT ![k].at = "error", ![k].again = TRUE]
  /\ UNCHANGED <<page, view, clicks>>

(* The request fails and has no effect.                                    *)
Refuse(k) ==
  /\ tasks[k] # Idle /\ tasks[k].at = "sent"
  /\ tasks' = [tasks EXCEPT ![k].at = "error", ![k].again = TRUE]
  /\ UNCHANGED <<server, page, view, clicks>>

(* runWithAdminRetry: a request answered with 401 or 403 has had no effect *)
(* and is sent once more, after refreshSession, whose own failure is       *)
(* swallowed; the second answer counts, whatever it is.                    *)
Forbid(k) ==
  /\ tasks[k] # Idle /\ tasks[k].at = "sent" /\ ~tasks[k].again
  /\ tasks' = [tasks EXCEPT ![k].again = TRUE]
  /\ UNCHANGED <<server, page, view, clicks>>

(* Other administrators, other windows, and requests of a page that was    *)
(* left meanwhile.                                                         *)
OtherAdmin ==
  /\ \E r \in Report, v \in Verdict, q \in {"review", "restrict", "restore"} :
       LET req == CASE q = "review" -> Review(r, v)
                    [] q = "restrict" -> RestrictAccount(ReportedOf[r], r)
                    [] OTHER -> Restore(ReportedOf[r])
       IN /\ Accepted(req)
          /\ status' = StatusAfter(req)
          /\ restriction' = RestrictionAfter(req)
          /\ server' # server
  /\ clicks < MaxClicks
  /\ clicks' = clicks + 1
  /\ UNCHANGED <<page, view, tasks>>

--------------------------------------------------------------------------------
Answered(k, op) ==
  tasks[k] # Idle /\ Head1(k).op = op /\ tasks[k].at = "ok"
Failed(k, op) ==
  tasks[k] # Idle /\ Head1(k).op = op /\ tasks[k].at = "error"

(* What is left of a task once its first request is done, and the load     *)
(* that starts at once, if one is left.                                    *)
Rest(k) ==
  IF Len(tasks[k].todo) = 1 THEN Idle
  ELSE Begun(tasks[k].kind, Tail(tasks[k].todo))
NextOp(k) == IF Rest(k) = Idle THEN "none" ELSE Head(Rest(k).todo).op
Stepped(k) == [tasks EXCEPT ![k] = Rest(k)]

(* Slip: flags put down after the last await instead of in a finally.      *)
FinishedUnlessFailed(k, T) ==
  /\ submitting' = IF T[k] = Idle /\ tasks[k].kind \in DOMAIN submitting /\ tasks[k].at = "ok"
                   THEN [submitting EXCEPT ![tasks[k].kind] = FALSE] ELSE submitting
  /\ restoring' = IF T[k] = Idle /\ tasks[k].kind = "restore" /\ tasks[k].at = "ok"
                  THEN NoAccount ELSE restoring
(* The finally of each function puts its flag down.                        *)
Finished(k, T) ==
  /\ submitting' = IF T[k] = Idle /\ tasks[k].kind \in DOMAIN submitting
                   THEN [submitting EXCEPT ![tasks[k].kind] = FALSE] ELSE submitting
  /\ restoring' = IF T[k] = Idle /\ tasks[k].kind = "restore"
                  THEN NoAccount ELSE restoring

LoadingNext(k) == Raised([loading EXCEPT ![Head1(k).op] = FALSE], NextOp(k))
FailedNext(k) == Cleared(failed, NextOp(k))

(* Slip: the effect loads a detail when nothing is selected any more.      *)
SelectsAlways(r, T, L, F, D) ==
  /\ selected' = r
  /\ IF r = selected
     THEN tasks' = T /\ loading' = L /\ failed' = F /\ detail' = D
     ELSE LET free == {j \in Slot : T[j] = Idle}
          IN /\ free # {}
             /\ tasks' = [T EXCEPT ![AnySlot(free)] = Begun("load", <<GetDetail(r)>>)]
             /\ loading' = Raised(L, "detail")
             /\ failed' = Cleared(F, "detail")
             /\ detail' = D
(* The effect on selectedReportId: no report, no detail; another one is    *)
(* loaded by a function of its own, which nothing waits for.  T, L, F and  *)
(* D are the tasks, flags, errors and detail without the effect.           *)
Selects(r, T, L, F, D) ==
  /\ selected' = r
  /\ IF r = selected \/ r = NoReport
     THEN /\ tasks' = T /\ loading' = L /\ failed' = F
          /\ detail' = IF r = selected THEN D ELSE NoDetail
     ELSE LET free == {j \in Slot : T[j] = Idle}
          IN /\ free # {}
             /\ tasks' = [T EXCEPT ![AnySlot(free)] = Begun("load", <<GetDetail(r)>>)]
             /\ loading' = Raised(L, "detail")
             /\ failed' = Cleared(F, "detail")
             /\ detail' = D

(* loadReports, answered: the preferred report stays selected if it is     *)
(* listed, else the newest is.                                             *)
Preferred(q, ids) ==
  CASE q.report \in ids -> q.report
    [] q.report \notin ids /\ ids # {} -> CHOOSE r \in ids : \A n \in ids : n <= r
    [] OTHER -> NoReport
ReportsLoaded(k) ==
  /\ Answered(k, "list")
  /\ list' = Shown(Head1(k).filter, tasks[k].seen)
  /\ Selects(Preferred(Head1(k), list'), Stepped(k), LoadingNext(k), FailedNext(k), detail)
  /\ Finished(k, Stepped(k))
  /\ UNCHANGED <<server, page, filter, restricted, success, clicks>>
ReportsFailed(k) ==
  /\ Failed(k, "list")
  /\ list' = {}
  /\ Selects(NoReport, Stepped(k), LoadingNext(k),
             [FailedNext(k) EXCEPT !["list"] = TRUE], detail)
  /\ Finished(k, Stepped(k))
  /\ UNCHANGED <<server, page, filter, restricted, success, clicks>>

(* loadRestrictedAccounts.                                                 *)
RestrictedLoaded(k) ==
  /\ \/ /\ Answered(k, "restricted")
        /\ restricted' = tasks[k].seen.restriction
        /\ failed' = FailedNext(k)
     \/ /\ Failed(k, "restricted")
        /\ restricted' = Unrestricted
        /\ failed' = [FailedNext(k) EXCEPT !["restricted"] = TRUE]
  /\ loading' = LoadingNext(k)
  /\ tasks' = Stepped(k)
  /\ Finished(k, Stepped(k))
  /\ UNCHANGED <<server, page, filter, list, selected, detail, success, clicks>>

(* Slip: an answer for a report that is no longer selected also clears     *)
(* what the panel shows.                                                   *)
DetailLoadedOrDropped(k) ==
  /\ \/ /\ Answered(k, "detail")
        /\ detail' = IF Head1(k).report = selected
                     THEN DetailOf(Head1(k).report, tasks[k].seen) ELSE NoDetail
        /\ failed' = [FailedNext(k) EXCEPT !["action"] = FALSE]
        /\ success' = FALSE
     \/ /\ Failed(k, "detail")
        /\ detail' = NoDetail
        /\ failed' = [FailedNext(k) EXCEPT !["detail"] = TRUE]
        /\ UNCHANGED success
  /\ loading' = LoadingNext(k)
  /\ tasks' = Stepped(k)
  /\ Finished(k, Stepped(k))
  /\ UNCHANGED <<server, page, filter, list, restricted, selected, clicks>>
(* loadReportDetail: the answer is shown whatever is selected by now.      *)
DetailLoaded(k) ==
  /\ \/ /\ Answered(k, "detail")
        /\ detail' = DetailOf(Head1(k).report, tasks[k].seen)
        /\ failed' = [FailedNext(k) EXCEPT !["action"] = FALSE]
        /\ success' = FALSE
     \/ /\ Failed(k, "detail")
        /\ detail' = NoDetail
        /\ failed' = [FailedNext(k) EXCEPT !["detail"] = TRUE]
        /\ UNCHANGED success
  /\ loading' = LoadingNext(k)
  /\ tasks' = Stepped(k)
  /\ Finished(k, Stepped(k))
  /\ UNCHANGED <<server, page, filter, list, restricted, selected, clicks>>

(* A review, restriction or restoration has been answered.                 *)
ActionDone(k) ==
  /\ \E op \in {"review", "restrict", "restore"} : Answered(k, op)
  /\ detail' = IF Head1(k).op = "review"
               THEN DetailOf(Head1(k).report, tasks[k].seen) ELSE detail
  /\ success' = TRUE
  /\ loading' = Raised(loading, NextOp(k))
  /\ failed' = FailedNext(k)
  /\ tasks' = Stepped(k)
  /\ UNCHANGED <<server, page, filter, list, restricted, selected, submitting,
                 restoring, clicks>>
(* The catch: the rest of the function is skipped.                         *)
ActionFailed(k) ==
  /\ \E op \in {"review", "restrict", "restore"} : Failed(k, op)
  /\ failed' = [failed EXCEPT !["action"] = TRUE]
  /\ tasks' = [tasks EXCEPT ![k] = Idle]
  /\ Finished(k, tasks')
  /\ UNCHANGED <<server, page, filter, list, restricted, selected, detail, loading,
                 success, clicks>>

(* loadEvents of the audit page.                                           *)
AuditLoaded(k) ==
  /\ \/ Answered(k, "audit") /\ failed' = failed
     \/ Failed(k, "audit") /\ failed' = [failed EXCEPT !["audit"] = TRUE]
  /\ loading' = LoadingNext(k)
  /\ tasks' = Stepped(k)
  /\ UNCHANGED <<server, page, filter, list, restricted, selected, detail, success,
                 submitting, restoring, clicks>>

Settle(k) ==
  \/ ReportsLoaded(k)
  \/ ReportsFailed(k)
  \/ RestrictedLoaded(k)
  \/ DetailLoaded(k)
  \/ ActionDone(k)
  \/ ActionFailed(k)
  \/ AuditLoaded(k)

--------------------------------------------------------------------------------
(* A click, with room for the function it starts and for one more that an  *)
(* effect may start later.                                                 *)
Click(p) ==
  /\ page = p
  /\ clicks < MaxClicks
  /\ clicks' = clicks + 1
  /\ Cardinality(FreeSlots) >= 2

Spawned(kind, todo) == [tasks EXCEPT ![AnySlot(FreeSlots)] = Begun(kind, todo)]

(* Another filter: the effect reloads the list and would keep the report   *)
(* that is selected.                                                       *)
SetFilter(f) ==
  /\ Click("reports")
  /\ f # filter
  /\ filter' = f
  /\ tasks' = Spawned("load", <<ListReports(f, selected)>>)
  /\ loading' = Raised(loading, "list")
  /\ failed' = Cleared(failed, "list")
  /\ UNCHANGED <<server, page, list, restricted, selected, detail, success,
                 submitting, restoring>>

(* A row of the list, or the source report of a restricted account, which  *)
(* need not be listed.                                                     *)
Selectable == (list \cup {restricted[a] : a \in Account}) \ {NoReport}
SelectReport(r) ==
  /\ Click("reports")
  /\ r \in Selectable /\ r # selected
  /\ Selects(r, tasks, loading, failed, detail)
  /\ UNCHANGED <<server, page, filter, list, restricted, success, submitting, restoring>>

RefreshRestricted ==
  /\ Click("reports")
  /\ ~loading["restricted"]
  /\ tasks' = Spawned("load", <<ListRestricted>>)
  /\ loading' = Raised(loading, "restricted")
  /\ failed' = Cleared(failed, "restricted")
  /\ UNCHANGED <<server, page, filter, list, restricted, selected, detail, success,
                 submitting, restoring>>

(* submitReview, with a note: the list it will reload is that of the       *)
(* filter at the click.                                                    *)
SubmitReview(v) ==
  /\ Click("reports")
  /\ detail # NoDetail /\ detail.status = "open" /\ ~submitting.review
  /\ tasks' = Spawned("review", <<Review(detail.id, v),
                                  ListReports(filter, detail.id), ListRestricted>>)
  /\ submitting' = [submitting EXCEPT !.review = TRUE]
  /\ failed' = [failed EXCEPT !["action"] = FALSE]
  /\ success' = FALSE
  /\ UNCHANGED <<server, page, filter, list, restricted, selected, detail, loading,
                 restoring>>

(* submitAccountAction: restrict what is shown unrestricted, restore what  *)
(* is shown restricted.                                                    *)
ActionOn(d) ==
  IF d.source = NoReport THEN RestrictAccount(ReportedOf[d.id], d.id)
  ELSE Restore(ReportedOf[d.id])
SubmitAction ==
  /\ Click("reports")
  /\ detail # NoDetail /\ ~submitting.act
  /\ tasks' = Spawned("act", <<ActionOn(detail), GetDetail(detail.id),
                               ListReports(filter, detail.id), ListRestricted>>)
  /\ submitting' = [submitting EXCEPT !.act = TRUE]
  /\ failed' = [failed EXCEPT !["action"] = FALSE]
  /\ success' = FALSE
  /\ UNCHANGED <<server, page, filter, list, restricted, selected, detail, loading,
                 restoring>>

(* restoreRestrictedAccount: the detail is loaded again if it was about    *)
(* the account at the click.                                               *)
RestoreListed(a) ==
  /\ Click("reports")
  /\ restricted[a] # NoReport /\ restoring # a
  /\ tasks' = Spawned("restore",
       <<Restore(a), ListRestricted, ListReports(filter, selected)>>
         \o IF detail # NoDetail /\ ReportedOf[detail.id] = a
            THEN <<GetDetail(detail.id)>> ELSE << >>)
  /\ restoring' = a
  /\ failed' = [failed EXCEPT !["action"] = FALSE]
  /\ success' = FALSE
  /\ UNCHANGED <<server, page, filter, list, restricted, selected, detail, loading,
                 submitting>>

(* A submission without a note or reason is refused on the spot.           *)
SubmitBlank ==
  /\ Click("reports")
  /\ \/ detail # NoDetail /\ detail.status = "open" /\ ~submitting.review
     \/ detail # NoDetail /\ ~submitting.act
     \/ \E a \in Account : restricted[a] # NoReport /\ restoring # a
  /\ failed' = [failed EXCEPT !["action"] = TRUE]
  /\ UNCHANGED <<server, page, filter, list, restricted, selected, detail, loading,
                 success, submitting, restoring, tasks>>

RefreshAudit ==
  /\ Click("audit")
  /\ ~loading["audit"]
  /\ tasks' = Spawned("load", <<ListAudit>>)
  /\ loading' = Raised(loading, "audit")
  /\ failed' = Cleared(failed, "audit")
  /\ UNCHANGED <<server, page, filter, list, restricted, selected, detail, success,
                 submitting, restoring>>

(* The links of AdminLayout: a page that is left keeps nothing; its        *)
(* requests go on (OtherAdmin), but their answers find no page.            *)
Navigate(p) ==
  /\ p # page
  /\ clicks < MaxClicks
  /\ clicks' = clicks + 1
  /\ Mounted(p)
  /\ UNCHANGED server

User ==
  \/ \E f \in Filter : SetFilter(f)
  \/ \E r \in Report : SelectReport(r)
  \/ RefreshRestricted
  \/ \E v \in Verdict : SubmitReview(v)
  \/ SubmitAction
  \/ \E a \in Account : RestoreListed(a)
  \/ SubmitBlank
  \/ RefreshAudit
  \/ \E p \in {"reports", "audit"} : Navigate(p)

Work(k) == Serve(k) \/ Refuse(k) \/ Forbid(k) \/ Settle(k)

Next == User \/ OtherAdmin \/ \E k \in Slot : Work(k)

Spec == Init /\ [][Next]_vars

--------------------------------------------------------------------------------
Op == Load \cup {"review", "restrict", "restore"}
Requests ==
  [op : Op, report : {NoReport} \cup Report, account : {NoAccount} \cup Account,
   verdict : Status, filter : Filter]
Kind == {"load", "review", "act", "restore"}

(* What each kind of request names, and the shapes of tasks.               *)
WellFormed(q) ==
  /\ q.op \in {"detail", "review", "restrict"} => q.report # NoReport
  /\ q.op \in {"restrict", "restore"} => q.account # NoAccount
Running == {k \in Slot : tasks[k] # Idle}

(* The page is in a state its code knows, and every request under way     *)
(* names the report or account it is about, whatever selections, reloads   *)
(* and refused requests came before it.                                    *)
TypeOK ==
  /\ status \in [Report -> Status]
  /\ restriction \in [Account -> {NoReport} \cup Report]
  /\ page \in {"reports", "audit"}
  /\ filter \in Filter
  /\ list \subseteq Report
  /\ restricted \in [Account -> {NoReport} \cup Report]
  /\ selected \in {NoReport} \cup Report
  /\ detail \in [id : {NoReport} \cup Report, status : Status, source : {NoReport} \cup Report]
  /\ detail.id = NoReport => detail = NoDetail
  /\ loading \in [Load -> BOOLEAN]
  /\ failed \in [Load \cup {"action"} -> BOOLEAN]
  /\ success \in BOOLEAN
  /\ submitting \in [{"review", "act"} -> BOOLEAN]
  /\ restoring \in {NoAccount} \cup Account
  /\ \A k \in Running :
       /\ tasks[k].kind \in Kind
       /\ tasks[k].again \in BOOLEAN
       /\ tasks[k].at \in {"sent", "ok", "error"}
       /\ tasks[k].todo # << >>
       /\ \A i \in 1..Len(tasks[k].todo) :
            tasks[k].todo[i] \in Requests /\ WellFormed(tasks[k].todo[i])
  /\ clicks \in 0..MaxClicks

(* No flag is left up: whatever fails, is refused twice or is overtaken,   *)
(* a button that is disabled and a line that says "loading" belong to a    *)
(* function that is still under way; and the buttons keep the console from *)
(* sending two reviews, or two restrictions, at once.                      *)
FlagsOwned ==
  /\ \A op \in Load : loading[op] => \E k \in Running : Head1(k).op = op
  /\ \A f \in {"review", "act"} :
       LET own == {k \in Running : tasks[k].kind = f}
       IN /\ submitting[f] <=> own # {}
          /\ \A j, k \in own : j = k
  /\ restoring # NoAccount => \E k \in Running : tasks[k].kind = "restore"

(* A selected report is never shown as an empty panel: either some detail  *)
(* is there, or a request for one is under way, or its error is.           *)
NoBlankDetail ==
  selected # NoReport /\ detail = NoDetail =>
    \/ failed["detail"]
    \/ \E k \in Running : Head1(k).op = "detail"

================================================================================
