--------------------------- MODULE AdminConsoleProofs ---------------------------
(* Proofs about AdminConsole, for any reports, accounts and clicks: its     *)
(* types, the flags that never stay up, and the selected report that is    *)
(* never an empty panel.                                                   *)
EXTENDS AdminConsole, WellFoundedInduction, FiniteSetTheorems, TLAPS

USE DEF NoReport

--------------------------------------------------------------------------------
(* Choices.  A set of slots has a first one, a list of reports a newest.   *)
LEMMA LeastNat == ASSUME NEW S \in SUBSET Nat, S # {} PROVE \E k \in S : \A j \in S : k <= j
<1>1. PICK k \in S : \A j \in S : ~(<<j, k>> \in OpToRel(<, Nat))
  BY NatLessThanWellFounded, WFMin
<1>2. \A j \in S : ~(j < k)
  BY <1>1 DEF OpToRel
<1> QED
  BY <1>2

LEMMA AnySlotIn == ASSUME NEW S \in SUBSET Slot, S # {} PROVE AnySlot(S) \in S
<1>1. \E k \in S : \A j \in S : k <= j
  BY LeastNat, BoundAssumption DEF Slot
<1> QED
  BY <1>1 DEF AnySlot

LEMMA PreferredIn ==
  ASSUME NEW q, NEW ids \in SUBSET Report
  PROVE  Preferred(q, ids) \in ids \cup {NoReport}
<1>1. ASSUME ids # {} PROVE \E r \in ids : \A n \in ids : n <= r
  <2> DEFINE S == {PageLimit - r : r \in ids}
  <2>1. S \in SUBSET Nat /\ S # {}
    <3>1. \A r \in ids : PageLimit - r \in Nat
      BY ReportAssumption DEF PageLimit
    <3> QED
      BY <1>1, <3>1
  <2>2. PICK k \in S : \A j \in S : k <= j
    BY <2>1, LeastNat
  <2>3. PICK r \in ids : k = PageLimit - r
    BY <2>2
  <2>4. \A n \in ids : PageLimit - r <= PageLimit - n
    BY <2>2, <2>3
  <2> QED
    BY <2>4, ReportAssumption DEF PageLimit
<1> QED
  BY <1>1 DEF Preferred

LEMMA FreeSlot == ASSUME Cardinality(FreeSlots) >= 2 PROVE FreeSlots # {}
BY FS_EmptySet

--------------------------------------------------------------------------------
(* Tasks: the record, and the shape of what each has to do.  Only the first *)
(* request may be an action, and then a load follows; an audit page's task *)
(* has nothing else to do.                                                 *)
ReportOrNone == {NoReport} \cup Report
Seen == [status : [Report -> Status], restriction : [Account -> ReportOrNone]]
At == {"sent", "ok", "error"}
TaskRecord ==
  [kind : Kind \cup {"idle"}, todo : Seq(Requests), again : BOOLEAN, at : At, seen : Seen]
Shape(kind, todo) ==
  /\ todo # << >>
  /\ \A i \in 1..Len(todo) : WellFormed(todo[i])
  /\ \A i \in 2..Len(todo) : todo[i].op \in Load
  /\ todo[1].op \notin Load => Len(todo) >= 2
  /\ \A i \in 1..Len(todo) : todo[i].op = "audit" => kind = "load"
TaskOK(x) ==
  /\ x \in TaskRecord
  /\ x # Idle => x.kind \in Kind /\ Shape(x.kind, x.todo)

LEMMA UnseenType == Unseen \in Seen
BY DEF Unseen, Seen, Unrestricted, Status, ReportOrNone

LEMMA IdleType == Idle \in TaskRecord /\ Idle.kind = "idle"
BY UnseenType DEF Idle, TaskRecord, At

LEMMA BegunOK ==
  ASSUME NEW kind \in Kind, NEW todo \in Seq(Requests), Shape(kind, todo)
  PROVE  /\ TaskOK(Begun(kind, todo)) /\ Begun(kind, todo) # Idle
         /\ Begun(kind, todo).kind = kind /\ Begun(kind, todo).todo = todo
<1>1. /\ Begun(kind, todo) \in TaskRecord
      /\ Begun(kind, todo).kind = kind /\ Begun(kind, todo).todo = todo
  BY IdleType DEF Begun, TaskRecord
<1>2. kind # "idle"
  BY DEF Kind
<1> QED
  BY <1>1, <1>2, IdleType DEF TaskOK

(* The requests are what admin-client can ask for.                         *)
LEMMA BlankType == Blank \in [op : Op \cup {"none"}, report : ReportOrNone, account : {NoAccount} \cup Account,
                              verdict : Status, filter : Filter]
                   /\ FirstFilter \in Filter
BY DEF Blank, FirstFilter, Filter, Status, ReportOrNone

LEMMA ListReportsType ==
  ASSUME NEW f \in Filter, NEW r \in ReportOrNone
  PROVE  /\ ListReports(f, r) \in Requests /\ ListReports(f, r).op = "list"
         /\ WellFormed(ListReports(f, r))
BY BlankType DEF ListReports, Requests, Op, Load, ReportOrNone, WellFormed

LEMMA GetDetailType ==
  ASSUME NEW r \in Report
  PROVE  /\ GetDetail(r) \in Requests /\ GetDetail(r).op = "detail" /\ WellFormed(GetDetail(r))
<1>1. r # NoReport /\ r \in ReportOrNone
  BY ReportAssumption DEF ReportOrNone
<1> QED
  BY <1>1, BlankType DEF GetDetail, Requests, Op, Load, ReportOrNone, WellFormed

LEMMA ListsType ==
  /\ ListRestricted \in Requests /\ ListRestricted.op = "restricted" /\ WellFormed(ListRestricted)
  /\ ListAudit \in Requests /\ ListAudit.op = "audit" /\ WellFormed(ListAudit)
BY BlankType DEF ListRestricted, ListAudit, Requests, Op, Load, ReportOrNone, WellFormed

LEMMA ReviewType ==
  ASSUME NEW r \in Report, NEW v \in Verdict
  PROVE  /\ Review(r, v) \in Requests /\ Review(r, v).op = "review" /\ WellFormed(Review(r, v))
<1>1. r # NoReport /\ r \in ReportOrNone /\ v \in Status
  BY ReportAssumption DEF ReportOrNone, Status
<1> QED
  BY <1>1, BlankType DEF Review, Requests, Op, Load, ReportOrNone, WellFormed

LEMMA RestrictType ==
  ASSUME NEW a \in Account, NEW r \in Report
  PROVE  /\ RestrictAccount(a, r) \in Requests /\ RestrictAccount(a, r).op = "restrict"
         /\ WellFormed(RestrictAccount(a, r))
<1>1. r # NoReport /\ r \in ReportOrNone /\ a # NoAccount
  BY ReportAssumption, AccountAssumption DEF ReportOrNone
<1>2. /\ RestrictAccount(a, r).op = "restrict"
      /\ RestrictAccount(a, r).account = a /\ RestrictAccount(a, r).report = r
  BY BlankType DEF RestrictAccount
<1>3. RestrictAccount(a, r) \in Requests
  BY <1>1, BlankType DEF RestrictAccount, Requests, Op, Load, ReportOrNone
<1> QED
  BY <1>1, <1>2, <1>3 DEF WellFormed

LEMMA RestoreType ==
  ASSUME NEW a \in Account
  PROVE  Restore(a) \in Requests /\ Restore(a).op = "restore" /\ WellFormed(Restore(a))
<1>1. a # NoAccount
  BY AccountAssumption
<1> QED
  BY <1>1, BlankType DEF Restore, Requests, Op, Load, ReportOrNone, WellFormed

(* What a task has to do, by the length of it.                             *)
LEMMA Shape1 ==
  ASSUME NEW kind \in Kind, NEW p \in Requests, WellFormed(p), p.op \in Load,
         p.op = "audit" => kind = "load"
  PROVE  <<p>> \in Seq(Requests) /\ Shape(kind, <<p>>)
BY DEF Shape

LEMMA Shape3 ==
  ASSUME NEW kind \in Kind, NEW p \in Requests, NEW q \in Requests, NEW r \in Requests,
         WellFormed(p), WellFormed(q), WellFormed(r), q.op \in Load, r.op \in Load,
         "audit" \notin {p.op, q.op, r.op}
  PROVE  <<p, q, r>> \in Seq(Requests) /\ Shape(kind, <<p, q, r>>)
BY DEF Shape

LEMMA Shape4 ==
  ASSUME NEW kind \in Kind, NEW p \in Requests, NEW q \in Requests, NEW r \in Requests,
         NEW s \in Requests, WellFormed(p), WellFormed(q), WellFormed(r), WellFormed(s),
         q.op \in Load, r.op \in Load, s.op \in Load, "audit" \notin {p.op, q.op, r.op, s.op}
  PROVE  <<p, q, r, s>> \in Seq(Requests) /\ Shape(kind, <<p, q, r, s>>)
BY DEF Shape

--------------------------------------------------------------------------------
(* What a family T of tasks owes to the flags L, S and R, and to the panel *)
(* of report s that shows d under the errors F.                            *)
TaskSet == {x \in TaskRecord : x # Idle => x.kind \in Kind /\ Shape(x.kind, x.todo)}
Tasks == [Slot -> TaskSet]
Heads(T, op) == \E k \in Slot : T[k] # Idle /\ Head(T[k].todo).op = op
Kinds(T, f) == {k \in Slot : T[k] # Idle /\ T[k].kind = f}
SameKinds(T, U) == \A f \in {"review", "act", "restore"} : Kinds(T, f) = Kinds(U, f)

OwnedLoads(T, L) == \A op \in Load : L[op] => Heads(T, op)
OwnedSubmits(T, S) ==
  \A f \in {"review", "act"} :
    /\ S[f] <=> Kinds(T, f) # {}
    /\ \A j, k \in Kinds(T, f) : j = k
OwnedRestore(T, R) == R # NoAccount => Kinds(T, "restore") # {}
Panel(T, s, d, F) == s # NoReport /\ d = NoDetail => F["detail"] \/ Heads(T, "detail")

Loading == [Load -> BOOLEAN]
Errors == [Load \cup {"action"} -> BOOLEAN]
Submitting == [{"review", "act"} -> BOOLEAN]
Detail ==
  {d \in [id : ReportOrNone, status : Status, source : ReportOrNone] :
     d.id = NoReport => d = NoDetail}

LEMMA TaskSetOK == \A x : x \in TaskSet <=> TaskOK(x)
BY DEF TaskSet, TaskOK

(* A request at the head of a task.                                        *)
LEMMA HeadOK ==
  ASSUME NEW x \in TaskSet, x # Idle
  PROVE  /\ x.todo \in Seq(Requests) /\ x.todo # << >> /\ Len(x.todo) \in Nat \ {0}
         /\ Head(x.todo) \in Requests /\ WellFormed(Head(x.todo)) /\ Head(x.todo) = x.todo[1]
         /\ Head(x.todo).op \in Op
<1>1. x.todo \in Seq(Requests) /\ Shape(x.kind, x.todo)
  BY DEF TaskSet, TaskRecord
<1>2. x.todo # << >> /\ Len(x.todo) \in Nat \ {0} /\ Head(x.todo) = x.todo[1]
  BY <1>1 DEF Shape
<1>3. x.todo[1] \in Requests /\ WellFormed(x.todo[1])
  BY <1>1, <1>2 DEF Shape
<1> QED
  BY <1>1, <1>2, <1>3 DEF Requests

(* A function starts in a slot that is free.                               *)
Started(T, k, kind, todo) == [T EXCEPT ![k] = Begun(kind, todo)]
LEMMA Spawning ==
  ASSUME NEW T \in Tasks, NEW k \in Slot, T[k] = Idle,
         NEW kind \in Kind, NEW todo \in Seq(Requests), Shape(kind, todo),
         NEW U, U = Started(T, k, kind, todo)
  PROVE  /\ U \in Tasks
         /\ Heads(U, Head(todo).op)
         /\ \A op : Heads(T, op) => Heads(U, op)
         /\ \A f : Kinds(U, f) = IF f = kind THEN Kinds(T, f) \cup {k} ELSE Kinds(T, f)
         /\ k \notin Kinds(T, kind)
<1>1. /\ Begun(kind, todo) \in TaskSet /\ Begun(kind, todo) # Idle
      /\ Begun(kind, todo).kind = kind /\ Begun(kind, todo).todo = todo
  BY BegunOK, TaskSetOK
<1> DEFINE b == Begun(kind, todo)
<1> HIDE DEF b
<1>2. U \in Tasks /\ U[k] = b /\ \A j \in Slot : j # k => U[j] = T[j]
  BY <1>1 DEF b, Tasks, Started
<1>3. b # Idle /\ b.kind = kind /\ b.todo = todo
  BY <1>1 DEF b
<1>4. Heads(U, Head(todo).op)
  BY <1>2, <1>3 DEF Heads
<1>5. ASSUME NEW op, Heads(T, op) PROVE Heads(U, op)
  <2>1. PICK j \in Slot : T[j] # Idle /\ Head(T[j].todo).op = op
    BY <1>5 DEF Heads
  <2>2. j # k
    BY <2>1
  <2> QED
    BY <2>1, <2>2, <1>2 DEF Heads
<1>6. ASSUME NEW f
      PROVE  Kinds(U, f) = IF f = kind THEN Kinds(T, f) \cup {k} ELSE Kinds(T, f)
  BY <1>2, <1>3 DEF Kinds
<1> QED
  BY <1>2, <1>4, <1>5, <1>6 DEF Kinds

LEMMA TailOf ==
  ASSUME NEW s \in Seq(Requests), Len(s) # 1, Len(s) \in Nat \ {0}
  PROVE  /\ Tail(s) \in Seq(Requests)
         /\ Len(Tail(s)) = Len(s) - 1 /\ Len(Tail(s)) >= 1
         /\ \A i \in 1..Len(Tail(s)) : Tail(s)[i] = s[i + 1]
<1>1. s # << >>
  OBVIOUS
<1>2. Tail(s) \in Seq(Requests) /\ Len(Tail(s)) = Len(s) - 1
  BY <1>1
<1>3. Len(Tail(s)) >= 1
  BY <1>2
<1>4. \A i \in 1..Len(Tail(s)) : Tail(s)[i] = s[i + 1]
  BY <1>1
<1> QED
  BY <1>2, <1>3, <1>4

(* A function has one request less to do, and may end by it.               *)
LEMMA RestOK ==
  ASSUME NEW k \in Slot, tasks \in Tasks, tasks[k] # Idle
  PROVE  /\ Rest(k) \in TaskSet
         /\ Rest(k) # Idle => /\ Rest(k).kind = tasks[k].kind
                              /\ NextOp(k) = Head(Rest(k).todo).op
                              /\ NextOp(k) \in Load
         /\ Rest(k) = Idle => NextOp(k) = "none"
         /\ Head1(k).op \notin Load => NextOp(k) \in Load
         /\ Head1(k).op = "audit" => tasks[k].kind = "load"
<1> DEFINE x == tasks[k]
<1>1. x \in TaskSet /\ x # Idle
  BY DEF Tasks
<1>2. /\ x.todo \in Seq(Requests) /\ Len(x.todo) \in Nat \ {0}
      /\ Head(x.todo) = x.todo[1] /\ x.kind \in Kind /\ Shape(x.kind, x.todo)
  BY <1>1, HeadOK DEF TaskSet
<1>3. ASSUME Len(x.todo) = 1
      PROVE  Rest(k) = Idle /\ x.todo[1].op \in Load
  BY <1>2, <1>3 DEF Rest, Shape
<1>4. ASSUME Len(x.todo) # 1
      PROVE  /\ Rest(k) \in TaskSet /\ Rest(k) # Idle /\ Rest(k).kind = x.kind
             /\ Head(Rest(k).todo).op \in Load
  <2> DEFINE t == Tail(x.todo)
  <2>1. t \in Seq(Requests) /\ Len(t) = Len(x.todo) - 1 /\ Len(t) >= 1
        /\ \A i \in 1..Len(t) : t[i] = x.todo[i + 1]
    BY <1>2, <1>4, TailOf
  <2>2. \A i \in 1..Len(t) : i + 1 \in 2..Len(x.todo) /\ i + 1 \in 1..Len(x.todo)
    BY <2>1, <1>2
  <2>3. \A i \in 1..Len(t) : /\ WellFormed(t[i]) /\ t[i].op \in Load
                             /\ (t[i].op = "audit" => x.kind = "load")
    BY <2>1, <2>2, <1>2 DEF Shape
  <2> HIDE DEF t
  <2>4. Shape(x.kind, t)
    <3>1. \A i \in 2..Len(t) : i \in 1..Len(t)
      BY <2>1, <1>2
    <3>2. t # << >> /\ 1 \in 1..Len(t)
      BY <2>1, <1>2
    <3> QED
      BY <2>3, <3>1, <3>2 DEF Shape
  <2>5. Rest(k) = Begun(x.kind, t)
    BY <1>4 DEF Rest, t
  <2>6. Head(t).op \in Load
    BY <2>1, <2>3, <1>2
  <2> HIDE DEF x
  <2>7. x.kind \in Kind
    BY <1>2
  <2> QED
    BY <2>1, <2>4, <2>5, <2>6, <2>7, BegunOK, TaskSetOK
<1>5. Idle \in TaskSet
  BY IdleType DEF TaskSet
<1>6. Head1(k).op = "audit" => x.kind = "load"
  BY <1>2 DEF Head1, Shape
<1>7. "none" \notin Load
  BY DEF Load
<1>8. CASE Len(x.todo) = 1
  BY <1>8, <1>2, <1>3, <1>5, <1>6 DEF NextOp, Head1
<1>9. CASE Len(x.todo) # 1
  BY <1>9, <1>4, <1>6 DEF NextOp
<1> QED
  BY <1>8, <1>9

LEMMA Stepping ==
  ASSUME NEW k \in Slot, tasks \in Tasks, tasks[k] # Idle,
         NEW T, T = Stepped(k)
  PROVE  /\ T \in Tasks
         /\ \A op : Heads(tasks, op) /\ op # Head1(k).op => Heads(T, op)
         /\ NextOp(k) # "none" => NextOp(k) \in Load /\ Heads(T, NextOp(k))
         /\ \A f : Kinds(T, f) = IF T[k] = Idle THEN Kinds(tasks, f) \ {k} ELSE Kinds(tasks, f)
         /\ k \in Kinds(tasks, tasks[k].kind)
<1>1. T \in Tasks /\ T[k] = Rest(k) /\ \A j \in Slot : j # k => T[j] = tasks[j]
  BY RestOK DEF Stepped, Tasks
<1>2. ASSUME NEW op, Heads(tasks, op), op # Head1(k).op PROVE Heads(T, op)
  <2>1. PICK j \in Slot : tasks[j] # Idle /\ Head(tasks[j].todo).op = op
    BY <1>2 DEF Heads
  <2>2. j # k
    BY <2>1, <1>2 DEF Head1
  <2> QED
    BY <2>1, <2>2, <1>1 DEF Heads
<1>3. NextOp(k) # "none" => NextOp(k) \in Load /\ Heads(T, NextOp(k))
  BY <1>1, RestOK DEF Heads
<1>4. ASSUME NEW f
      PROVE  Kinds(T, f) = IF T[k] = Idle THEN Kinds(tasks, f) \ {k} ELSE Kinds(tasks, f)
  BY <1>1, RestOK DEF Kinds
<1>5. k \in Kinds(tasks, tasks[k].kind)
  BY DEF Kinds
<1> QED
  BY <1>1, <1>2, <1>3, <1>4, <1>5

--------------------------------------------------------------------------------
(* The view that tasks T load, and the buttons that tasks T hold down.     *)
ViewOwned(T, L, F, s, d) ==
  /\ T \in Tasks /\ L \in Loading /\ F \in Errors /\ s \in ReportOrNone /\ d \in Detail
  /\ OwnedLoads(T, L)
  /\ Panel(T, s, d, F)
ButtonsOwned(T, S, R) ==
  /\ S \in Submitting /\ R \in {NoAccount} \cup Account
  /\ OwnedSubmits(T, S)
  /\ OwnedRestore(T, R)

LEMMA ButtonsSame ==
  ASSUME NEW T, NEW U, NEW S, NEW R, ButtonsOwned(T, S, R), SameKinds(T, U)
  PROVE  ButtonsOwned(U, S, R)
BY DEF ButtonsOwned, SameKinds, OwnedSubmits, OwnedRestore

(* A request that starts raises its own flag, and clears its own error.    *)
LEMMA Starting ==
  ASSUME NEW T, NEW L, NEW F, NEW s, NEW d, ViewOwned(T, L, F, s, d),
         NEW U \in Tasks, \A op : Heads(T, op) => Heads(U, op),
         NEW op, op \in Load => Heads(U, op)
  PROVE  ViewOwned(U, Raised(L, op), Cleared(F, op), s, d)
<1>1. Raised(L, op) \in Loading /\ Cleared(F, op) \in Errors
  BY DEF Raised, Cleared, Loading, Errors, ViewOwned
<1>2. OwnedLoads(U, Raised(L, op))
  <2> SUFFICES ASSUME NEW o \in Load, Raised(L, op)[o] PROVE Heads(U, o)
    BY DEF OwnedLoads
  <2>1. CASE o = op
    BY <2>1
  <2>2. CASE o # op
    <3>1. L[o]
      BY <2>2 DEF Raised, ViewOwned, Loading
    <3> QED
      BY <3>1 DEF ViewOwned, OwnedLoads
  <2> QED
    BY <2>1, <2>2
<1>3. Panel(U, s, d, Cleared(F, op))
  <2>1. CASE op = "detail"
    BY <2>1 DEF Panel, Load
  <2>2. CASE op # "detail"
    <3>1. Cleared(F, op)["detail"] = F["detail"]
      BY <2>2 DEF Cleared, ViewOwned, Errors, Load
    <3> QED
      BY <3>1 DEF ViewOwned, Panel
  <2> QED
    BY <2>1, <2>2
<1> QED
  BY <1>1, <1>2, <1>3 DEF ViewOwned

(* Errors other than the detail's say nothing about the panel.             *)
LEMMA OtherError ==
  ASSUME NEW T, NEW L, NEW F, NEW s, NEW d, ViewOwned(T, L, F, s, d),
         NEW e \in {"list", "restricted", "audit", "action"}, NEW v \in BOOLEAN
  PROVE  ViewOwned(T, L, [F EXCEPT ![e] = v], s, d)
<1>1. [F EXCEPT ![e] = v] \in Errors /\ [F EXCEPT ![e] = v]["detail"] = F["detail"]
  BY DEF ViewOwned, Errors, Load
<1> QED
  BY <1>1 DEF ViewOwned, Panel

(* Answering a load puts its flag down and starts what comes next.         *)
LEMMA Loads ==
  ASSUME NEW k \in Slot, ViewOwned(tasks, loading, failed, selected, detail),
         tasks[k] # Idle, Head1(k).op \in Load
  PROVE  /\ Stepped(k) \in Tasks
         /\ LoadingNext(k) \in Loading /\ FailedNext(k) \in Errors
         /\ OwnedLoads(Stepped(k), LoadingNext(k))
         /\ Head1(k).op # "detail" =>
              ViewOwned(Stepped(k), LoadingNext(k), FailedNext(k), selected, detail)
<1> DEFINE h == Head1(k).op
           T == Stepped(k)
           L == [loading EXCEPT ![h] = FALSE]
<1>1. tasks \in Tasks /\ loading \in Loading /\ failed \in Errors
  BY DEF ViewOwned
<1>2. /\ T \in Tasks
      /\ \A op : Heads(tasks, op) /\ op # h => Heads(T, op)
      /\ NextOp(k) # "none" => NextOp(k) \in Load /\ Heads(T, NextOp(k))
  BY <1>1, Stepping
<1>3. "none" \notin Load
  BY DEF Load
<1> HIDE DEF T, h
<1>4. L \in Loading /\ \A op \in Load : L[op] => op # h /\ loading[op]
  BY <1>1 DEF Loading
<1>5. OwnedLoads(T, L)
  BY <1>2, <1>4 DEF OwnedLoads, ViewOwned
<1> HIDE DEF L
<1>6. ViewOwned(T, L, failed, NoReport, detail)
  BY <1>1, <1>2, <1>4, <1>5 DEF ViewOwned, Panel, ReportOrNone
<1>7. ViewOwned(T, Raised(L, NextOp(k)), Cleared(failed, NextOp(k)), NoReport, detail)
  BY <1>6, <1>2, <1>3, Starting
<1>8. ASSUME h # "detail"
      PROVE  ViewOwned(T, Raised(L, NextOp(k)), Cleared(failed, NextOp(k)), selected, detail)
  <2>1. Panel(T, selected, detail, failed)
    BY <1>2, <1>8 DEF ViewOwned, Panel
  <2>2. ViewOwned(T, L, failed, selected, detail)
    BY <1>6, <2>1 DEF ViewOwned
  <2> QED
    BY <2>2, <1>2, <1>3, Starting
<1>9. LoadingNext(k) = Raised(L, NextOp(k)) /\ FailedNext(k) = Cleared(failed, NextOp(k))
  BY DEF LoadingNext, FailedNext, L, h
<1> QED
  BY <1>2, <1>7, <1>8, <1>9 DEF ViewOwned, T, h

(* The finally of a function that ends puts its own flag down.             *)
LEMMA Finishing ==
  ASSUME NEW k \in Slot, ButtonsOwned(tasks, submitting, restoring), NEW T,
         \A f : Kinds(T, f) = IF T[k] = Idle THEN Kinds(tasks, f) \ {k} ELSE Kinds(tasks, f),
         k \in Kinds(tasks, tasks[k].kind), Finished(k, T)
  PROVE  ButtonsOwned(T, submitting', restoring')
<1>1. DOMAIN submitting = {"review", "act"} /\ submitting \in Submitting
  BY DEF ButtonsOwned, Submitting
<1>2. submitting' \in Submitting /\ restoring' \in {NoAccount} \cup Account
  BY <1>1 DEF Finished, ButtonsOwned, Submitting
<1>3. ASSUME NEW f, f # tasks[k].kind PROVE Kinds(T, f) = Kinds(tasks, f)
  BY <1>3 DEF Kinds
<1>4. ASSUME NEW f \in {"review", "act"}
      PROVE  /\ submitting'[f] <=> Kinds(T, f) # {}
             /\ \A i, j \in Kinds(T, f) : i = j
  <2>1. /\ submitting[f] <=> Kinds(tasks, f) # {}
        /\ \A i, j \in Kinds(tasks, f) : i = j
    BY DEF ButtonsOwned, OwnedSubmits
  <2>2. CASE T[k] = Idle /\ tasks[k].kind = f
    <3>1. Kinds(T, f) = {}
      BY <2>1, <2>2
    <3>2. submitting' = [submitting EXCEPT ![f] = FALSE]
      BY <1>1, <2>2 DEF Finished
    <3>3. ~submitting'[f]
      BY <3>2, <1>1
    <3> QED
      BY <3>1, <3>3
  <2>3. CASE ~(T[k] = Idle /\ tasks[k].kind = f)
    <3>1. Kinds(T, f) = Kinds(tasks, f)
      BY <2>3, <1>3
    <3>2. submitting'[f] = submitting[f]
      BY <1>1, <2>3 DEF Finished
    <3> QED
      BY <2>1, <3>1, <3>2
  <2> QED
    BY <2>2, <2>3
<1>5. restoring' # NoAccount => Kinds(T, "restore") # {}
  <2>1. CASE T[k] = Idle /\ tasks[k].kind = "restore"
    BY <2>1 DEF Finished
  <2>2. CASE ~(T[k] = Idle /\ tasks[k].kind = "restore")
    <3>1. Kinds(T, "restore") = Kinds(tasks, "restore")
      BY <2>2, <1>3
    <3>2. restoring' = restoring
      BY <2>2 DEF Finished
    <3> QED
      BY <3>1, <3>2 DEF ButtonsOwned, OwnedRestore
  <2> QED
    BY <2>1, <2>2
<1> QED
  BY <1>2, <1>4, <1>5 DEF ButtonsOwned, OwnedSubmits, OwnedRestore

(* The effect on the selected report.                                      *)
LEMMA Selecting ==
  ASSUME NEW T, NEW L, NEW F, NEW D, ViewOwned(T, L, F, selected, D),
         NEW r \in ReportOrNone, Selects(r, T, L, F, D)
  PROVE  /\ ViewOwned(tasks', loading', failed', selected', detail')
         /\ SameKinds(T, tasks')
<1>1. selected' = r
  BY DEF Selects
<1>2. CASE r = selected
  <2>1. tasks' = T /\ loading' = L /\ failed' = F /\ detail' = D
    BY <1>2 DEF Selects
  <2> QED
    BY <1>1, <1>2, <2>1 DEF SameKinds
<1>3. CASE r # selected /\ r = NoReport
  <2>1. tasks' = T /\ loading' = L /\ failed' = F /\ detail' = NoDetail
    BY <1>3 DEF Selects
  <2>2. NoDetail \in Detail
    BY DEF NoDetail, Detail, ReportOrNone, Status
  <2>3. Panel(T, NoReport, NoDetail, F)
    BY DEF Panel
  <2> QED
    BY <1>1, <1>3, <2>1, <2>2, <2>3 DEF SameKinds, ViewOwned
<1>4. CASE r # selected /\ r # NoReport
  <2> DEFINE free == {j \in Slot : T[j] = Idle}
             s == AnySlot(free)
             todo == <<GetDetail(r)>>
  <2>1. /\ free # {}
        /\ tasks' = [T EXCEPT ![s] = Begun("load", todo)]
        /\ loading' = Raised(L, "detail")
        /\ failed' = Cleared(F, "detail")
        /\ detail' = D
    BY <1>4 DEF Selects
  <2>2. s \in free
    BY <2>1, AnySlotIn
  <2>3. s \in Slot /\ T[s] = Idle
    BY <2>2
  <2>4. r \in Report
    BY <1>4 DEF ReportOrNone
  <2>5. GetDetail(r) \in Requests /\ GetDetail(r).op = "detail" /\ WellFormed(GetDetail(r))
    BY <2>4, GetDetailType
  <2>6. todo \in Seq(Requests) /\ Shape("load", todo) /\ Head(todo).op = "detail"
    BY <2>5, Shape1 DEF Kind, Load
  <2>7. T \in Tasks
    BY DEF ViewOwned
  <2> HIDE DEF s, todo, free
  <2>8. /\ tasks' \in Tasks
        /\ Heads(tasks', "detail")
        /\ \A op : Heads(T, op) => Heads(tasks', op)
        /\ \A f : Kinds(tasks', f) = IF f = "load" THEN Kinds(T, f) \cup {s} ELSE Kinds(T, f)
    <3>1. "load" \in Kind
      BY DEF Kind
    <3>2. tasks' = Started(T, s, "load", todo)
      BY <2>1 DEF Started
    <3> QED
      BY <3>1, <3>2, <2>3, <2>6, <2>7, Spawning
  <2>9. ViewOwned(tasks', loading', failed', selected, detail')
    BY <2>1, <2>8, Starting
  <2>10. Panel(tasks', r, detail', failed')
    BY <2>8 DEF Panel
  <2> QED
    BY <1>1, <2>8, <2>9, <2>10 DEF ViewOwned, SameKinds
<1> QED
  BY <1>2, <1>3, <1>4

--------------------------------------------------------------------------------
(* The invariant: the server's records, the page, and what the tasks owe.  *)
ServerOK ==
  /\ status \in [Report -> Status]
  /\ restriction \in [Account -> ReportOrNone]
PageOK ==
  /\ page \in {"reports", "audit"}
  /\ filter \in Filter
  /\ list \subseteq Report
  /\ restricted \in [Account -> ReportOrNone]
  /\ success \in BOOLEAN
  /\ clicks \in 0..MaxClicks
Inv ==
  /\ ServerOK
  /\ PageOK
  /\ ViewOwned(tasks, loading, failed, selected, detail)
  /\ ButtonsOwned(tasks, submitting, restoring)

(* A request changes the task it belongs to, but neither what the task is  *)
(* nor what it has to do.                                                  *)
LEMMA Touching ==
  ASSUME NEW k \in Slot, tasks \in Tasks, tasks[k] # Idle, NEW x \in TaskRecord,
         x.kind = tasks[k].kind, x.todo = tasks[k].todo,
         tasks' = [tasks EXCEPT ![k] = x],
         ViewOwned(tasks, loading, failed, selected, detail),
         ButtonsOwned(tasks, submitting, restoring), UNCHANGED view
  PROVE  /\ ViewOwned(tasks, loading, failed, selected, detail)'
         /\ ButtonsOwned(tasks, submitting, restoring)'
<1>1. tasks[k].kind \in Kind /\ Shape(tasks[k].kind, tasks[k].todo)
  BY DEF Tasks, TaskSet
<1>2. "idle" \notin Kind
  BY DEF Kind
<1>3. x \in TaskSet /\ x # Idle
  BY <1>1, <1>2, IdleType DEF TaskSet
<1>4. tasks' \in Tasks /\ tasks'[k] = x /\ \A j \in Slot : j # k => tasks'[j] = tasks[j]
  BY <1>3 DEF Tasks
<1>5. \A op : Heads(tasks, op) => Heads(tasks', op)
  BY <1>3, <1>4 DEF Heads
<1>6. SameKinds(tasks, tasks')
  BY <1>3, <1>4 DEF SameKinds, Kinds
<1>7. "none" \notin Load
  BY DEF Load
<1>8. ViewOwned(tasks', Raised(loading, "none"), Cleared(failed, "none"), selected, detail)
  BY <1>4, <1>5, <1>7, Starting
<1>9. Raised(loading, "none") = loading /\ Cleared(failed, "none") = failed
  BY <1>7 DEF Raised, Cleared
<1>10. ButtonsOwned(tasks', submitting, restoring)
  BY <1>6, ButtonsSame
<1> QED
  BY <1>8, <1>9, <1>10 DEF view

LEMMA AfterOK ==
  ASSUME ServerOK, NEW q \in Requests
  PROVE  /\ StatusAfter(q) \in [Report -> Status]
         /\ RestrictionAfter(q) \in [Account -> ReportOrNone]
<1>1. q.verdict \in Status /\ q.report \in ReportOrNone
  BY DEF Requests, ReportOrNone
<1>2. StatusAfter(q) \in [Report -> Status]
  BY <1>1 DEF StatusAfter, ServerOK
<1>3. RestrictionAfter(q) \in [Account -> ReportOrNone]
  BY <1>1 DEF RestrictionAfter, ServerOK, ReportOrNone
<1> QED
  BY <1>2, <1>3

LEMMA RunningTask ==
  ASSUME NEW k \in Slot, Inv, tasks[k] # Idle
  PROVE  /\ tasks \in Tasks /\ tasks[k] \in TaskSet /\ tasks[k] \in TaskRecord
         /\ Head1(k) \in Requests /\ WellFormed(Head1(k)) /\ Head1(k).op \in Op
         /\ tasks[k].seen \in Seen
<1>1. tasks \in Tasks /\ tasks[k] \in TaskSet /\ tasks[k] \in TaskRecord
  BY DEF Inv, ViewOwned, Tasks, TaskSet
<1>2. tasks[k].seen \in Seen
  BY <1>1 DEF TaskRecord
<1> QED
  BY <1>1, <1>2, HeadOK DEF Head1

LEMMA ServeInv == ASSUME NEW k \in Slot, Inv, Serve(k) PROVE Inv'
<1>1. tasks[k] # Idle /\ UNCHANGED <<page, view, clicks>>
  BY DEF Serve
<1>2. status' = StatusAfter(Head1(k)) /\ restriction' = RestrictionAfter(Head1(k))
  BY DEF Serve
<1>3. ServerOK'
  BY <1>1, <1>2, AfterOK, RunningTask DEF ServerOK, Inv
<1>4. PICK x \in TaskRecord :
        /\ tasks' = [tasks EXCEPT ![k] = x]
        /\ x.kind = tasks[k].kind /\ x.todo = tasks[k].todo
  <2> DEFINE seen == [status |-> status', restriction |-> restriction']
             y == [tasks[k] EXCEPT !.at = "ok", !.again = TRUE, !.seen = seen]
             z == [tasks[k] EXCEPT !.at = "error", !.again = TRUE]
  <2>1. seen \in Seen
    BY <1>3 DEF Seen, ServerOK
  <2>2. tasks[k] \in TaskRecord /\ tasks \in [Slot -> TaskSet]
    BY <1>1, RunningTask DEF Tasks
  <2> HIDE DEF seen
  <2>3. y \in TaskRecord /\ y.kind = tasks[k].kind /\ y.todo = tasks[k].todo
    BY <2>1, <2>2 DEF TaskRecord, At
  <2>4. z \in TaskRecord /\ z.kind = tasks[k].kind /\ z.todo = tasks[k].todo
    BY <2>2 DEF TaskRecord, At
  <2>5. \/ tasks' = [tasks EXCEPT ![k] = y]
        \/ tasks' = [tasks EXCEPT ![k] = z]
    BY <2>2 DEF Serve, seen
  <2> QED
    BY <2>3, <2>4, <2>5
<1> QED
  BY <1>1, <1>3, <1>4, Touching, RunningTask DEF Inv, PageOK, view

LEMMA RefuseInv == ASSUME NEW k \in Slot, Inv, Refuse(k) PROVE Inv'
<1> DEFINE x == [tasks[k] EXCEPT !.at = "error", !.again = TRUE]
<1>1. tasks[k] # Idle /\ UNCHANGED <<server, page, view, clicks>>
  BY DEF Refuse
<1>2. tasks[k] \in TaskRecord /\ tasks \in [Slot -> TaskSet]
  BY <1>1, RunningTask DEF Tasks
<1>3. x \in TaskRecord /\ x.kind = tasks[k].kind /\ x.todo = tasks[k].todo
  BY <1>2 DEF TaskRecord, At
<1>4. tasks' = [tasks EXCEPT ![k] = x]
  BY <1>2 DEF Refuse
<1> QED
  BY <1>1, <1>3, <1>4, Touching, RunningTask DEF Inv, ServerOK, PageOK, server, view

LEMMA ForbidInv == ASSUME NEW k \in Slot, Inv, Forbid(k) PROVE Inv'
<1> DEFINE x == [tasks[k] EXCEPT !.again = TRUE]
<1>1. tasks[k] # Idle /\ UNCHANGED <<server, page, view, clicks>>
  BY DEF Forbid
<1>2. tasks[k] \in TaskRecord /\ tasks \in [Slot -> TaskSet]
  BY <1>1, RunningTask DEF Tasks
<1>3. x \in TaskRecord /\ x.kind = tasks[k].kind /\ x.todo = tasks[k].todo
  BY <1>2 DEF TaskRecord, At
<1>4. tasks' = [tasks EXCEPT ![k] = x]
  BY <1>2 DEF Forbid
<1> QED
  BY <1>1, <1>3, <1>4, Touching, RunningTask DEF Inv, ServerOK, PageOK, server, view

LEMMA OtherAdminInv == ASSUME Inv, OtherAdmin PROVE Inv'
<1>1. PICK r \in Report, v \in Verdict, q \in {"review", "restrict", "restore"} :
        LET req == CASE q = "review" -> Review(r, v)
                     [] q = "restrict" -> RestrictAccount(ReportedOf[r], r)
                     [] OTHER -> Restore(ReportedOf[r])
        IN status' = StatusAfter(req) /\ restriction' = RestrictionAfter(req)
  BY DEF OtherAdmin
<1>2. ReportedOf[r] \in Account
  BY ReportedAssumption
<1>3. /\ Review(r, v) \in Requests
      /\ RestrictAccount(ReportedOf[r], r) \in Requests
      /\ Restore(ReportedOf[r]) \in Requests
  BY <1>2, ReviewType, RestrictType, RestoreType
<1>4. \E req \in Requests : status' = StatusAfter(req) /\ restriction' = RestrictionAfter(req)
  BY <1>1, <1>3
<1>5. ServerOK'
  BY <1>4, AfterOK DEF ServerOK, Inv
<1>6. clicks' \in 0..MaxClicks
  BY BoundAssumption DEF OtherAdmin, Inv, PageOK
<1>7. UNCHANGED <<page, view, tasks>>
  BY DEF OtherAdmin
<1> QED
  BY <1>5, <1>6, <1>7 DEF Inv, PageOK, view

--------------------------------------------------------------------------------
(* Answers.                                                                *)
LEMMA FinishingStep ==
  ASSUME NEW k \in Slot, Inv, tasks[k] # Idle, Finished(k, Stepped(k))
  PROVE  ButtonsOwned(Stepped(k), submitting', restoring')
<1>1. tasks \in Tasks /\ ButtonsOwned(tasks, submitting, restoring)
  BY RunningTask DEF Inv
<1> DEFINE T == Stepped(k)
<1>2. /\ \A f : Kinds(T, f) = IF T[k] = Idle THEN Kinds(tasks, f) \ {k} ELSE Kinds(tasks, f)
      /\ k \in Kinds(tasks, tasks[k].kind)
  BY <1>1, Stepping
<1>3. Finished(k, T)
  OBVIOUS
<1> HIDE DEF T
<1>4. ButtonsOwned(T, submitting', restoring')
  BY <1>1, <1>2, <1>3, Finishing
<1> QED
  BY <1>4 DEF T

LEMMA ReportsLoadedInv == ASSUME NEW k \in Slot, Inv, ReportsLoaded(k) PROVE Inv'
<1> DEFINE T == Stepped(k)
           r == Preferred(Head1(k), list')
<1>1. /\ tasks[k] # Idle /\ Head1(k).op = "list"
      /\ list' \subseteq Report
      /\ Selects(r, T, LoadingNext(k), FailedNext(k), detail)
      /\ Finished(k, T)
      /\ UNCHANGED <<server, page, filter, restricted, success, clicks>>
  BY DEF ReportsLoaded, Answered, Shown
<1>2. ViewOwned(T, LoadingNext(k), FailedNext(k), selected, detail)
  BY <1>1, Loads DEF Inv, Load
<1>3. ButtonsOwned(T, submitting', restoring')
  BY <1>1, FinishingStep
<1>4. r \in ReportOrNone
  BY <1>1, PreferredIn DEF ReportOrNone
<1> HIDE DEF T, r
<1>5. ViewOwned(tasks', loading', failed', selected', detail') /\ SameKinds(T, tasks')
  BY <1>1, <1>2, <1>4, Selecting
<1>6. ButtonsOwned(tasks', submitting', restoring')
  BY <1>3, <1>5, ButtonsSame
<1> QED
  BY <1>1, <1>5, <1>6 DEF Inv, ServerOK, PageOK, server

LEMMA ReportsFailedInv == ASSUME NEW k \in Slot, Inv, ReportsFailed(k) PROVE Inv'
<1> DEFINE T == Stepped(k)
           F == [FailedNext(k) EXCEPT !["list"] = TRUE]
<1>1. /\ tasks[k] # Idle /\ Head1(k).op = "list"
      /\ list' \subseteq Report
      /\ Selects(NoReport, T, LoadingNext(k), F, detail)
      /\ Finished(k, T)
      /\ UNCHANGED <<server, page, filter, restricted, success, clicks>>
  BY DEF ReportsFailed, Failed
<1>2. ViewOwned(T, LoadingNext(k), FailedNext(k), selected, detail)
  BY <1>1, Loads DEF Inv, Load
<1>3. ButtonsOwned(T, submitting', restoring')
  BY <1>1, FinishingStep
<1>4. NoReport \in ReportOrNone
  BY DEF ReportOrNone
<1> HIDE DEF T
<1>5. ViewOwned(T, LoadingNext(k), F, selected, detail)
  BY <1>2, OtherError
<1> HIDE DEF F
<1>6. ViewOwned(tasks', loading', failed', selected', detail') /\ SameKinds(T, tasks')
  BY <1>1, <1>4, <1>5, Selecting
<1>7. ButtonsOwned(tasks', submitting', restoring')
  BY <1>3, <1>6, ButtonsSame
<1> QED
  BY <1>1, <1>6, <1>7 DEF Inv, ServerOK, PageOK, server

LEMMA RestrictedLoadedInv == ASSUME NEW k \in Slot, Inv, RestrictedLoaded(k) PROVE Inv'
<1>1. /\ tasks[k] # Idle /\ Head1(k).op = "restricted"
      /\ restricted' = tasks[k].seen.restriction \/ restricted' = Unrestricted
      /\ failed' = FailedNext(k) \/ failed' = [FailedNext(k) EXCEPT !["restricted"] = TRUE]
      /\ loading' = LoadingNext(k)
      /\ tasks' = Stepped(k)
      /\ Finished(k, Stepped(k))
      /\ UNCHANGED <<server, page, filter, list, selected, detail, success, clicks>>
  BY DEF RestrictedLoaded, Answered, Failed
<1>2. ViewOwned(tasks', loading', FailedNext(k), selected, detail)
  BY <1>1, Loads DEF Inv, Load
<1>3. ViewOwned(tasks', loading', [FailedNext(k) EXCEPT !["restricted"] = TRUE], selected, detail)
  BY <1>2, OtherError
<1>4. ViewOwned(tasks', loading', failed', selected', detail')
  BY <1>1, <1>2, <1>3
<1>5. ButtonsOwned(tasks', submitting', restoring')
  BY <1>1, FinishingStep
<1>6. restricted' \in [Account -> ReportOrNone]
  BY <1>1, RunningTask DEF Seen, Unrestricted, ReportOrNone
<1> QED
  BY <1>1, <1>4, <1>5, <1>6 DEF Inv, ServerOK, PageOK, server

LEMMA DetailOfType ==
  ASSUME NEW r \in Report, NEW S \in Seen
  PROVE  DetailOf(r, S) \in Detail /\ DetailOf(r, S) # NoDetail
<1>1. r # NoReport
  BY ReportAssumption
<1>2. S.status[r] \in Status /\ S.restriction[ReportedOf[r]] \in ReportOrNone
  BY ReportedAssumption DEF Seen
<1> QED
  BY <1>1, <1>2 DEF DetailOf, Detail, NoDetail, ReportOrNone

LEMMA DetailLoadedInv == ASSUME NEW k \in Slot, Inv, DetailLoaded(k) PROVE Inv'
<1> DEFINE F == FailedNext(k)
<1>1. /\ tasks[k] # Idle /\ Head1(k).op = "detail"
      /\ \/ /\ detail' = DetailOf(Head1(k).report, tasks[k].seen)
            /\ failed' = [F EXCEPT !["action"] = FALSE]
            /\ success' = FALSE
         \/ /\ detail' = NoDetail
            /\ failed' = [F EXCEPT !["detail"] = TRUE]
            /\ success' = success
      /\ loading' = LoadingNext(k)
      /\ tasks' = Stepped(k)
      /\ Finished(k, Stepped(k))
      /\ UNCHANGED <<server, page, filter, list, restricted, selected, clicks>>
  BY DEF DetailLoaded, Answered, Failed
<1>2. /\ tasks' \in Tasks /\ loading' \in Loading /\ F \in Errors
      /\ OwnedLoads(tasks', loading')
  BY <1>1, Loads DEF Inv, Load
<1>3. Head1(k).report \in Report
  BY <1>1, RunningTask DEF WellFormed, Requests
<1> HIDE DEF F
<1>4. selected' \in ReportOrNone
  BY <1>1 DEF Inv, ViewOwned
<1>5. ASSUME detail' = DetailOf(Head1(k).report, tasks[k].seen),
             failed' = [F EXCEPT !["action"] = FALSE]
      PROVE  ViewOwned(tasks', loading', failed', selected', detail')
  <2>1. detail' \in Detail /\ detail' # NoDetail
    BY <1>1, <1>3, <1>5, RunningTask, DetailOfType
  <2>2. failed' \in Errors
    BY <1>2, <1>5 DEF Errors
  <2> QED
    BY <1>2, <1>4, <2>1, <2>2 DEF ViewOwned, Panel
<1>6. ASSUME detail' = NoDetail, failed' = [F EXCEPT !["detail"] = TRUE]
      PROVE  ViewOwned(tasks', loading', failed', selected', detail')
  <2>1. NoDetail \in Detail
    BY DEF NoDetail, Detail, ReportOrNone, Status
  <2>2. failed' \in Errors /\ failed'["detail"]
    BY <1>2, <1>6 DEF Errors, Load
  <2> QED
    BY <1>2, <1>4, <1>6, <2>1, <2>2 DEF ViewOwned, Panel
<1>7. ViewOwned(tasks', loading', failed', selected', detail')
  BY <1>1, <1>5, <1>6
<1>8. ButtonsOwned(tasks', submitting', restoring')
  BY <1>1, FinishingStep
<1>9. success' \in BOOLEAN
  BY <1>1 DEF Inv, PageOK
<1> QED
  BY <1>1, <1>7, <1>8, <1>9 DEF Inv, ServerOK, PageOK, server

(* An action that is done goes on with a load, so no button comes back.    *)
LEMMA ActionDoneInv == ASSUME NEW k \in Slot, Inv, ActionDone(k) PROVE Inv'
<1> DEFINE T == Stepped(k)
<1>1. /\ tasks[k] # Idle /\ Head1(k).op \in {"review", "restrict", "restore"}
      /\ detail' = IF Head1(k).op = "review"
                   THEN DetailOf(Head1(k).report, tasks[k].seen) ELSE detail
      /\ success' = TRUE
      /\ loading' = Raised(loading, NextOp(k))
      /\ failed' = FailedNext(k)
      /\ tasks' = T
      /\ UNCHANGED <<server, page, filter, list, restricted, selected, submitting,
                     restoring, clicks>>
  BY DEF ActionDone, Answered
<1>2. Head1(k).op \notin Load
  BY <1>1 DEF Load
<1>3. tasks \in Tasks
  BY <1>1, RunningTask
<1>4. NextOp(k) \in Load /\ "none" \notin Load
  BY <1>1, <1>2, <1>3, RestOK DEF Load
<1>5. /\ T \in Tasks
      /\ \A op : Heads(tasks, op) /\ op # Head1(k).op => Heads(T, op)
      /\ Heads(T, NextOp(k))
      /\ \A f : Kinds(T, f) = IF T[k] = Idle THEN Kinds(tasks, f) \ {k} ELSE Kinds(tasks, f)
  BY <1>1, <1>3, <1>4, Stepping
<1>6. T[k] # Idle
  <2>1. T[k] = Rest(k)
    BY <1>3 DEF Stepped, Tasks
  <2> QED
    BY <2>1, <1>1, <1>3, <1>4, RestOK
<1> HIDE DEF T
<1>7. ViewOwned(T, loading, failed, selected, detail)
  <2>1. OwnedLoads(T, loading)
    BY <1>2, <1>5 DEF Inv, ViewOwned, OwnedLoads
  <2>2. "detail" \in Load
    BY DEF Load
  <2>3. Panel(T, selected, detail, failed)
    BY <1>2, <1>5, <2>2 DEF Inv, ViewOwned, Panel
  <2> QED
    BY <1>5, <2>1, <2>3 DEF Inv, ViewOwned
<1>8. ViewOwned(T, Raised(loading, NextOp(k)), Cleared(failed, NextOp(k)), selected, detail)
  BY <1>5, <1>7, Starting
<1>9. ViewOwned(tasks', loading', failed', selected', detail)
  BY <1>1, <1>8 DEF FailedNext
<1>10. ViewOwned(tasks', loading', failed', selected', detail')
  <2>1. CASE Head1(k).op = "review"
    <3>1. Head1(k).report \in Report
      BY <1>1, <2>1, RunningTask DEF WellFormed, Requests
    <3>2. detail' \in Detail /\ detail' # NoDetail
      BY <1>1, <2>1, <3>1, RunningTask, DetailOfType
    <3> QED
      BY <1>9, <3>2 DEF ViewOwned, Panel
  <2>2. CASE Head1(k).op # "review"
    BY <1>1, <1>9, <2>2
  <2> QED
    BY <2>1, <2>2
<1>11. SameKinds(tasks, T)
  BY <1>5, <1>6 DEF SameKinds
<1>12. ButtonsOwned(tasks', submitting', restoring')
  BY <1>1, <1>11, ButtonsSame DEF Inv
<1> QED
  BY <1>1, <1>10, <1>12 DEF Inv, ServerOK, PageOK, server

LEMMA ActionFailedInv == ASSUME NEW k \in Slot, Inv, ActionFailed(k) PROVE Inv'
<1> DEFINE T == [tasks EXCEPT ![k] = Idle]
<1>1. /\ tasks[k] # Idle /\ Head1(k).op \in {"review", "restrict", "restore"}
      /\ failed' = [failed EXCEPT !["action"] = TRUE]
      /\ tasks' = T
      /\ Finished(k, T)
      /\ UNCHANGED <<server, page, filter, list, restricted, selected, detail, loading,
                     success, clicks>>
  BY DEF ActionFailed, Failed
<1>2. Head1(k).op \notin Load /\ "detail" \in Load
  BY <1>1 DEF Load
<1>3. tasks \in Tasks /\ Idle \in TaskSet
  BY <1>1, RunningTask, IdleType DEF TaskSet
<1>4. T \in Tasks /\ T[k] = Idle /\ \A j \in Slot : j # k => T[j] = tasks[j]
  BY <1>3 DEF Tasks
<1> HIDE DEF T
<1>5. ASSUME NEW op \in Load, Heads(tasks, op) PROVE Heads(T, op)
  <2>1. PICK j \in Slot : tasks[j] # Idle /\ Head(tasks[j].todo).op = op
    BY <1>5 DEF Heads
  <2>2. j # k
    BY <2>1, <1>2 DEF Head1
  <2> QED
    BY <2>1, <2>2, <1>4 DEF Heads
<1>6. \A f : Kinds(T, f) = Kinds(tasks, f) \ {k}
  BY <1>4 DEF Kinds
<1>7. k \in Kinds(tasks, tasks[k].kind)
  BY <1>1 DEF Kinds
<1>8. ButtonsOwned(T, submitting', restoring')
  BY <1>1, <1>4, <1>6, <1>7, Finishing DEF Inv
<1>9. ViewOwned(T, loading, failed, selected, detail)
  BY <1>2, <1>4, <1>5 DEF Inv, ViewOwned, OwnedLoads, Panel
<1>10. ViewOwned(T, loading, [failed EXCEPT !["action"] = TRUE], selected, detail)
  BY <1>9, OtherError
<1> QED
  BY <1>1, <1>8, <1>10 DEF Inv, ServerOK, PageOK, server

LEMMA AuditLoadedInv == ASSUME NEW k \in Slot, Inv, AuditLoaded(k) PROVE Inv'
<1> DEFINE T == Stepped(k)
<1>1. /\ tasks[k] # Idle /\ Head1(k).op = "audit"
      /\ failed' = failed \/ failed' = [failed EXCEPT !["audit"] = TRUE]
      /\ loading' = LoadingNext(k)
      /\ tasks' = T
      /\ UNCHANGED <<server, page, filter, list, restricted, selected, detail, success,
                     submitting, restoring, clicks>>
  BY DEF AuditLoaded, Answered, Failed
<1>2. tasks \in Tasks /\ ViewOwned(tasks, loading, failed, selected, detail)
  BY <1>1, RunningTask DEF Inv
<1>3. /\ T \in Tasks
      /\ \A op : Heads(tasks, op) /\ op # Head1(k).op => Heads(T, op)
      /\ \A f : Kinds(T, f) = IF T[k] = Idle THEN Kinds(tasks, f) \ {k} ELSE Kinds(tasks, f)
  BY <1>1, <1>2, Stepping
<1>4. loading' \in Loading /\ OwnedLoads(T, loading')
  BY <1>1, <1>2, Loads DEF Load
<1>5. tasks[k].kind = "load"
  BY <1>1, <1>2, RestOK
<1> HIDE DEF T
<1>6. ViewOwned(T, loading', failed, selected, detail)
  BY <1>1, <1>2, <1>3, <1>4 DEF ViewOwned, Panel
<1>7. ViewOwned(T, loading', [failed EXCEPT !["audit"] = TRUE], selected, detail)
  BY <1>6, OtherError
<1>8. SameKinds(tasks, T)
  BY <1>3, <1>5 DEF SameKinds, Kinds
<1>9. ButtonsOwned(T, submitting, restoring)
  BY <1>8, ButtonsSame DEF Inv
<1> QED
  BY <1>1, <1>6, <1>7, <1>9 DEF Inv, ServerOK, PageOK, server

--------------------------------------------------------------------------------
(* Clicks.                                                                 *)
LEMMA Clicked ==
  ASSUME NEW p, Click(p), Inv
  PROVE  /\ tasks \in Tasks
         /\ AnySlot(FreeSlots) \in Slot /\ tasks[AnySlot(FreeSlots)] = Idle
         /\ page = p /\ clicks' \in 0..MaxClicks
<1>1. FreeSlots # {} /\ FreeSlots \subseteq Slot
  BY FreeSlot DEF Click, FreeSlots
<1>2. AnySlot(FreeSlots) \in FreeSlots
  BY <1>1, AnySlotIn
<1>3. clicks' \in 0..MaxClicks
  BY BoundAssumption DEF Click, Inv, PageOK
<1> QED
  BY <1>2, <1>3 DEF Click, FreeSlots, Inv, ViewOwned

LEMMA ClickSpawns ==
  ASSUME NEW p, Click(p), Inv,
         NEW kind \in Kind, NEW todo \in Seq(Requests), Shape(kind, todo),
         NEW U, U = Spawned(kind, todo)
  PROVE  /\ U \in Tasks
         /\ Heads(U, Head(todo).op)
         /\ \A op : Heads(tasks, op) => Heads(U, op)
         /\ \A f : f # kind => Kinds(U, f) = Kinds(tasks, f)
         /\ Kinds(U, kind) = Kinds(tasks, kind) \cup {AnySlot(FreeSlots)}
<1> DEFINE k == AnySlot(FreeSlots)
<1>1. tasks \in Tasks /\ k \in Slot /\ tasks[k] = Idle
  BY Clicked
<1> HIDE DEF k
<1>2. U = Started(tasks, k, kind, todo)
  BY DEF Spawned, Started, k
<1>3. /\ U \in Tasks
      /\ Heads(U, Head(todo).op)
      /\ \A op : Heads(tasks, op) => Heads(U, op)
      /\ \A f : Kinds(U, f) = IF f = kind THEN Kinds(tasks, f) \cup {k} ELSE Kinds(tasks, f)
  BY <1>1, <1>2, Spawning
<1> QED
  BY <1>3 DEF k

(* A click that loads one thing.                                           *)
LEMMA ClickLoads ==
  ASSUME NEW p, Click(p), Inv, NEW q \in Requests, WellFormed(q), q.op \in Load,
         NEW U, U = Spawned("load", <<q>>)
  PROVE  /\ ViewOwned(U, Raised(loading, q.op), Cleared(failed, q.op), selected, detail)
         /\ ButtonsOwned(U, submitting, restoring)
<1> DEFINE todo == <<q>>
<1>1. "load" \in Kind
  BY DEF Kind
<1>2. todo \in Seq(Requests) /\ Shape("load", todo) /\ Head(todo).op = q.op
  BY <1>1, Shape1
<1> HIDE DEF todo
<1>3. U = Spawned("load", todo)
  BY DEF todo
<1>4. /\ U \in Tasks
      /\ Heads(U, q.op)
      /\ \A op : Heads(tasks, op) => Heads(U, op)
      /\ \A f : f # "load" => Kinds(U, f) = Kinds(tasks, f)
  BY <1>1, <1>2, <1>3, ClickSpawns
<1>5. SameKinds(tasks, U)
  BY <1>4 DEF SameKinds
<1> QED
  BY <1>4, <1>5, Starting, ButtonsSame DEF Inv

(* A click that starts an action: its error is cleared, its flag goes up.  *)
LEMMA ClickActs ==
  ASSUME NEW p, Click(p), Inv,
         NEW kind \in Kind, NEW todo \in Seq(Requests), Shape(kind, todo),
         NEW U, U = Spawned(kind, todo)
  PROVE  /\ ViewOwned(U, loading, [failed EXCEPT !["action"] = FALSE], selected, detail)
         /\ kind \in {"review", "act"} /\ ~submitting[kind] =>
              ButtonsOwned(U, [submitting EXCEPT ![kind] = TRUE], restoring)
         /\ kind = "restore" => \A a \in Account : ButtonsOwned(U, submitting, a)
<1>1. /\ U \in Tasks
      /\ \A op : Heads(tasks, op) => Heads(U, op)
      /\ \A f : f # kind => Kinds(U, f) = Kinds(tasks, f)
      /\ Kinds(U, kind) = Kinds(tasks, kind) \cup {AnySlot(FreeSlots)}
  BY ClickSpawns
<1>2. ViewOwned(tasks, loading, failed, selected, detail)
      /\ ButtonsOwned(tasks, submitting, restoring)
  BY DEF Inv
<1>3. ViewOwned(U, loading, [failed EXCEPT !["action"] = FALSE], selected, detail)
  <2>1. "none" \notin Load
    BY DEF Load
  <2>2. ViewOwned(U, Raised(loading, "none"), Cleared(failed, "none"), selected, detail)
    BY <1>1, <1>2, <2>1, Starting
  <2>3. Raised(loading, "none") = loading /\ Cleared(failed, "none") = failed
    BY <2>1 DEF Raised, Cleared
  <2> QED
    BY <2>2, <2>3, OtherError
<1>4. ASSUME kind \in {"review", "act"}, ~submitting[kind]
      PROVE  ButtonsOwned(U, [submitting EXCEPT ![kind] = TRUE], restoring)
  <2> DEFINE S == [submitting EXCEPT ![kind] = TRUE]
  <2>1. S \in Submitting /\ S[kind] /\ \A f \in {"review", "act"} : f # kind => S[f] = submitting[f]
    BY <1>2, <1>4 DEF ButtonsOwned, Submitting
  <2> HIDE DEF S
  <2>2. Kinds(tasks, kind) = {}
    BY <1>2, <1>4 DEF ButtonsOwned, OwnedSubmits
  <2>3. PICK k : Kinds(U, kind) = {k}
    BY <1>1, <2>2
  <2>4. OwnedSubmits(U, S)
    <3>1. ASSUME NEW f \in {"review", "act"}
          PROVE  (S[f] <=> Kinds(U, f) # {}) /\ \A i, j \in Kinds(U, f) : i = j
      <4>1. CASE f = kind
        BY <4>1, <2>1, <2>3
      <4>2. CASE f # kind
        BY <4>2, <2>1, <1>1, <1>2 DEF ButtonsOwned, OwnedSubmits
      <4> QED
        BY <4>1, <4>2
    <3> QED
      BY <3>1 DEF OwnedSubmits
  <2>5. OwnedRestore(U, restoring)
    <3>1. kind # "restore"
      BY <1>4
    <3> QED
      BY <1>1, <1>2, <3>1 DEF ButtonsOwned, OwnedRestore
  <2>6. ButtonsOwned(U, S, restoring)
    BY <1>2, <2>1, <2>4, <2>5 DEF ButtonsOwned
  <2> QED
    BY <2>6 DEF S
<1>5. ASSUME kind = "restore", NEW a \in Account PROVE ButtonsOwned(U, submitting, a)
  <2>1. Kinds(U, "restore") # {}
    BY <1>1, <1>5
  <2>2. \A f \in {"review", "act"} : Kinds(U, f) = Kinds(tasks, f)
    BY <1>1, <1>5
  <2> QED
    BY <1>2, <2>1, <2>2 DEF ButtonsOwned, OwnedSubmits, OwnedRestore
<1> QED
  BY <1>3, <1>4, <1>5

LEMMA DetailShown ==
  ASSUME Inv, detail # NoDetail
  PROVE  detail.id \in Report /\ ReportedOf[detail.id] \in Account
<1>1. detail.id \in Report
  BY DEF Inv, ViewOwned, Detail, ReportOrNone
<1> QED
  BY <1>1, ReportedAssumption

LEMMA SetFilterInv == ASSUME NEW f \in Filter, Inv, SetFilter(f) PROVE Inv'
<1> DEFINE q == ListReports(f, selected)
<1>1. /\ Click("reports") /\ filter' = f
      /\ tasks' = Spawned("load", <<q>>)
      /\ loading' = Raised(loading, "list") /\ failed' = Cleared(failed, "list")
      /\ UNCHANGED <<server, page, list, restricted, selected, detail, success,
                     submitting, restoring>>
  BY DEF SetFilter
<1>2. selected \in ReportOrNone
  BY DEF Inv, ViewOwned
<1>3. q \in Requests /\ q.op = "list" /\ WellFormed(q) /\ "list" \in Load
  BY <1>2, ListReportsType DEF Load
<1> HIDE DEF q
<1>4. /\ ViewOwned(tasks', loading', failed', selected, detail)
      /\ ButtonsOwned(tasks', submitting, restoring)
  BY <1>1, <1>3, ClickLoads
<1> QED
  BY <1>1, <1>4, Clicked DEF Inv, ServerOK, PageOK, server

LEMMA SelectReportInv == ASSUME NEW r \in Report, Inv, SelectReport(r) PROVE Inv'
<1>1. /\ Click("reports") /\ Selects(r, tasks, loading, failed, detail)
      /\ UNCHANGED <<server, page, filter, list, restricted, success, submitting, restoring>>
  BY DEF SelectReport
<1>2. r \in ReportOrNone
  BY DEF ReportOrNone
<1>3. ViewOwned(tasks', loading', failed', selected', detail') /\ SameKinds(tasks, tasks')
  BY <1>1, <1>2, Selecting DEF Inv
<1>4. ButtonsOwned(tasks', submitting, restoring)
  BY <1>3, ButtonsSame DEF Inv
<1> QED
  BY <1>1, <1>3, <1>4, Clicked DEF Inv, ServerOK, PageOK, server

LEMMA RefreshRestrictedInv == ASSUME Inv, RefreshRestricted PROVE Inv'
<1>1. /\ Click("reports") /\ tasks' = Spawned("load", <<ListRestricted>>)
      /\ loading' = Raised(loading, "restricted") /\ failed' = Cleared(failed, "restricted")
      /\ UNCHANGED <<server, page, filter, list, restricted, selected, detail, success,
                     submitting, restoring>>
  BY DEF RefreshRestricted
<1>2. "restricted" \in Load
  BY DEF Load
<1>3. /\ ViewOwned(tasks', loading', failed', selected, detail)
      /\ ButtonsOwned(tasks', submitting, restoring)
  BY <1>1, <1>2, ListsType, ClickLoads
<1> QED
  BY <1>1, <1>3, Clicked DEF Inv, ServerOK, PageOK, server

LEMMA RefreshAuditInv == ASSUME Inv, RefreshAudit PROVE Inv'
<1>1. /\ Click("audit") /\ tasks' = Spawned("load", <<ListAudit>>)
      /\ loading' = Raised(loading, "audit") /\ failed' = Cleared(failed, "audit")
      /\ UNCHANGED <<server, page, filter, list, restricted, selected, detail, success,
                     submitting, restoring>>
  BY DEF RefreshAudit
<1>2. "audit" \in Load
  BY DEF Load
<1>3. /\ ViewOwned(tasks', loading', failed', selected, detail)
      /\ ButtonsOwned(tasks', submitting, restoring)
  BY <1>1, <1>2, ListsType, ClickLoads
<1> QED
  BY <1>1, <1>3, Clicked DEF Inv, ServerOK, PageOK, server

LEMMA SubmitReviewInv == ASSUME NEW v \in Verdict, Inv, SubmitReview(v) PROVE Inv'
<1> DEFINE todo == <<Review(detail.id, v), ListReports(filter, detail.id), ListRestricted>>
<1>1. /\ Click("reports") /\ detail # NoDetail /\ ~submitting["review"]
      /\ tasks' = Spawned("review", todo)
      /\ submitting' = [submitting EXCEPT !["review"] = TRUE]
      /\ failed' = [failed EXCEPT !["action"] = FALSE] /\ success' = FALSE
      /\ UNCHANGED <<server, page, filter, list, restricted, selected, detail, loading,
                     restoring>>
  BY DEF SubmitReview
<1>2. detail.id \in Report /\ filter \in Filter /\ detail.id \in ReportOrNone
  BY <1>1, DetailShown DEF Inv, PageOK, ReportOrNone
<1>3. "review" \in Kind /\ {"list", "restricted"} \subseteq Load
  BY DEF Kind, Load
<1>4. todo \in Seq(Requests) /\ Shape("review", todo)
  BY <1>2, <1>3, ReviewType, ListReportsType, ListsType, Shape3
<1> HIDE DEF todo
<1>5. /\ ViewOwned(tasks', loading, failed', selected, detail)
      /\ ButtonsOwned(tasks', submitting', restoring)
  BY <1>1, <1>3, <1>4, ClickActs
<1> QED
  BY <1>1, <1>5, Clicked DEF Inv, ServerOK, PageOK, server

LEMMA SubmitActionInv == ASSUME Inv, SubmitAction PROVE Inv'
<1> DEFINE q == ActionOn(detail)
           todo == <<q, GetDetail(detail.id), ListReports(filter, detail.id), ListRestricted>>
<1>1. /\ Click("reports") /\ detail # NoDetail /\ ~submitting["act"]
      /\ tasks' = Spawned("act", todo)
      /\ submitting' = [submitting EXCEPT !["act"] = TRUE]
      /\ failed' = [failed EXCEPT !["action"] = FALSE] /\ success' = FALSE
      /\ UNCHANGED <<server, page, filter, list, restricted, selected, detail, loading,
                     restoring>>
  BY DEF SubmitAction
<1>2. /\ detail.id \in Report /\ ReportedOf[detail.id] \in Account
      /\ filter \in Filter /\ detail.id \in ReportOrNone
  BY <1>1, DetailShown DEF Inv, PageOK, ReportOrNone
<1>3. "act" \in Kind /\ {"detail", "list", "restricted"} \subseteq Load
  BY DEF Kind, Load
<1>4. q \in Requests /\ WellFormed(q) /\ q.op # "audit"
  <2>1. CASE detail.source = NoReport
    BY <1>2, <2>1, RestrictType DEF ActionOn
  <2>2. CASE detail.source # NoReport
    BY <1>2, <2>2, RestoreType DEF ActionOn
  <2> QED
    BY <2>1, <2>2
<1> HIDE DEF q
<1>5. todo \in Seq(Requests) /\ Shape("act", todo)
  BY <1>2, <1>3, <1>4, GetDetailType, ListReportsType, ListsType, Shape4
<1> HIDE DEF todo
<1>6. /\ ViewOwned(tasks', loading, failed', selected, detail)
      /\ ButtonsOwned(tasks', submitting', restoring)
  BY <1>1, <1>3, <1>5, ClickActs
<1> QED
  BY <1>1, <1>6, Clicked DEF Inv, ServerOK, PageOK, server

LEMMA Joined ==
  ASSUME NEW kind \in Kind, NEW p \in Requests, NEW q \in Requests, NEW r \in Requests,
         NEW s \in Requests, WellFormed(p), WellFormed(q), WellFormed(r), WellFormed(s),
         q.op \in Load, r.op \in Load, s.op \in Load, "audit" \notin {p.op, q.op, r.op, s.op}
  PROVE  /\ <<p, q, r>> \o <<s>> \in Seq(Requests)
         /\ Shape(kind, <<p, q, r>> \o <<s>>)
<1> DEFINE t == <<p, q, r>> \o <<s>>
<1>1. t \in Seq(Requests) /\ Len(t) = 4
  OBVIOUS
<1>2. \A i \in 1..3 : t[i] = <<p, q, r>>[i]
  OBVIOUS
<1>3. t[1] = p /\ t[2] = q /\ t[3] = r
  BY <1>2
<1>4. t[4] = s
  OBVIOUS
<1> HIDE DEF t
<1>5. \A i \in 1..Len(t) : t[i] \in {p, q, r, s}
  BY <1>1, <1>3, <1>4
<1>6. \A i \in 2..Len(t) : t[i] \in {q, r, s}
  BY <1>1, <1>3, <1>4
<1>7. t # << >>
  <2>1. Len(<< >>) = 0
    OBVIOUS
  <2>2. Len(t) # 0
    BY <1>1
  <2> QED
    BY <2>1, <2>2
<1> QED
  BY <1>1, <1>3, <1>5, <1>6, <1>7 DEF Shape, t

LEMMA RestoreListedInv == ASSUME NEW a \in Account, Inv, RestoreListed(a) PROVE Inv'
<1> DEFINE p == Restore(a)
           q == ListReports(filter, selected)
           g == GetDetail(detail.id)
           about == detail # NoDetail /\ ReportedOf[detail.id] = a
           todo == <<p, ListRestricted, q>> \o IF about THEN <<g>> ELSE << >>
<1>1. /\ Click("reports")
      /\ tasks' = Spawned("restore", todo)
      /\ restoring' = a
      /\ failed' = [failed EXCEPT !["action"] = FALSE] /\ success' = FALSE
      /\ UNCHANGED <<server, page, filter, list, restricted, selected, detail, loading,
                     submitting>>
  BY DEF RestoreListed
<1>2. filter \in Filter /\ selected \in ReportOrNone
  BY DEF Inv, PageOK, ViewOwned
<1>3. "restore" \in Kind /\ {"detail", "list", "restricted"} \subseteq Load
  BY DEF Kind, Load
<1>4. /\ p \in Requests /\ WellFormed(p) /\ p.op = "restore"
      /\ q \in Requests /\ WellFormed(q) /\ q.op = "list"
      /\ ListRestricted \in Requests /\ WellFormed(ListRestricted)
      /\ ListRestricted.op = "restricted"
  BY <1>2, RestoreType, ListReportsType, ListsType
<1>5. about => g \in Requests /\ WellFormed(g) /\ g.op = "detail"
  BY DetailShown, GetDetailType
<1> HIDE DEF p, q, g, about
<1>6. todo \in Seq(Requests) /\ Shape("restore", todo)
  <2>1. CASE about
    <3>1. todo = <<p, ListRestricted, q>> \o <<g>>
      BY <2>1
    <3> QED
      BY <3>1, <1>3, <1>4, <1>5, <2>1, Joined
  <2>2. CASE ~about
    <3>1. todo = <<p, ListRestricted, q>>
      BY <2>2
    <3>2. <<p, ListRestricted, q>> \in Seq(Requests) /\ Shape("restore", <<p, ListRestricted, q>>)
      BY <1>3, <1>4, Shape3
    <3> QED
      BY <3>1, <3>2
  <2> QED
    BY <2>1, <2>2
<1> HIDE DEF todo
<1>7. /\ ViewOwned(tasks', loading, failed', selected, detail)
      /\ ButtonsOwned(tasks', submitting, restoring')
  BY <1>1, <1>3, <1>6, ClickActs
<1> QED
  BY <1>1, <1>7, Clicked DEF Inv, ServerOK, PageOK, server

LEMMA SubmitBlankInv == ASSUME Inv, SubmitBlank PROVE Inv'
<1>1. /\ Click("reports")
      /\ failed' = [failed EXCEPT !["action"] = TRUE]
      /\ UNCHANGED <<server, page, filter, list, restricted, selected, detail, loading,
                     success, submitting, restoring, tasks>>
  BY DEF SubmitBlank
<1>2. ViewOwned(tasks, loading, [failed EXCEPT !["action"] = TRUE], selected, detail)
  BY OtherError DEF Inv
<1> QED
  BY <1>1, <1>2, Clicked DEF Inv, ServerOK, PageOK, server

--------------------------------------------------------------------------------
(* A page that has just been mounted has nothing but its own loads.        *)
LEMMA MountedOK ==
  ASSUME NEW p \in {"reports", "audit"}
  PROVE  /\ ViewOwned(MountedTasks(p), MountedLoading(p),
                      [op \in Load \cup {"action"} |-> FALSE], NoReport, NoDetail)
         /\ ButtonsOwned(MountedTasks(p), [f \in {"review", "act"} |-> FALSE], NoAccount)
<1> DEFINE T == MountedTasks(p)
           L == MountedLoading(p)
           F == [op \in Load \cup {"action"} |-> FALSE]
           S == [f \in {"review", "act"} |-> FALSE]
           q == ListReports(FirstFilter, NoReport)
<1>1. 1 \in Slot /\ 2 \in Slot
  BY BoundAssumption DEF Slot
<1>2. /\ q \in Requests /\ WellFormed(q) /\ q.op = "list"
      /\ ListRestricted \in Requests /\ WellFormed(ListRestricted)
      /\ ListRestricted.op = "restricted"
      /\ ListAudit \in Requests /\ WellFormed(ListAudit) /\ ListAudit.op = "audit"
  BY BlankType, ListReportsType, ListsType DEF ReportOrNone
<1>3. "load" \in Kind /\ {"list", "restricted", "audit"} \subseteq Load
  BY DEF Kind, Load
<1> HIDE DEF q
<1>4. ASSUME NEW r \in {q, ListRestricted, ListAudit}
      PROVE  /\ <<r>> \in Seq(Requests) /\ Shape("load", <<r>>) /\ Head(<<r>>) = r
             /\ Begun("load", <<r>>) \in TaskSet /\ Begun("load", <<r>>) # Idle
             /\ Begun("load", <<r>>).kind = "load" /\ Begun("load", <<r>>).todo = <<r>>
  <2>1. r \in Requests /\ WellFormed(r) /\ r.op \in Load
    BY <1>2, <1>3
  <2>2. <<r>> \in Seq(Requests) /\ Shape("load", <<r>>) /\ Head(<<r>>) = r
    BY <2>1, <1>3, Shape1
  <2> QED
    BY <2>2, <1>3, BegunOK, TaskSetOK
<1>5. Idle \in TaskSet /\ Idle.kind = "idle"
  BY IdleType DEF TaskSet
<1>6. /\ p = "audit" => T[1] = Begun("load", <<ListAudit>>)
      /\ p = "reports" => /\ T[1] = Begun("load", <<q>>)
                          /\ T[2] = Begun("load", <<ListRestricted>>)
  BY <1>1 DEF MountedTasks, q
<1>7. \A k \in Slot : T[k] \in {Begun("load", <<q>>), Begun("load", <<ListRestricted>>),
                                 Begun("load", <<ListAudit>>), Idle}
  BY DEF MountedTasks, q
<1>8. T \in Tasks
  <2>1. T = [k \in Slot |-> T[k]]
    BY DEF MountedTasks
  <2>2. \A k \in Slot : T[k] \in TaskSet
    BY <1>4, <1>5, <1>7
  <2> QED
    BY <2>1, <2>2 DEF Tasks
<1>9. \A k \in Slot : T[k].kind \in {"load", "idle"}
  BY <1>4, <1>5, <1>7
<1> HIDE DEF T
<1>10. \A f \in {"review", "act", "restore"} : Kinds(T, f) = {}
  BY <1>9 DEF Kinds
<1>11. OwnedLoads(T, L)
  <2> SUFFICES ASSUME NEW op \in Load, L[op] PROVE Heads(T, op)
    BY DEF OwnedLoads
  <2>1. CASE p = "audit"
    <3>1. op = "audit"
      BY <2>1 DEF MountedLoading
    <3> QED
      BY <2>1, <3>1, <1>1, <1>2, <1>4, <1>6 DEF Heads
  <2>2. CASE p = "reports"
    <3>1. op = "list" \/ op = "restricted"
      BY <2>2 DEF MountedLoading
    <3>2. Heads(T, "list")
      BY <2>2, <1>1, <1>2, <1>4, <1>6 DEF Heads
    <3>3. Heads(T, "restricted")
      BY <2>2, <1>1, <1>2, <1>4, <1>6 DEF Heads
    <3> QED
      BY <3>1, <3>2, <3>3
  <2> QED
    BY <2>1, <2>2
<1>12. L \in Loading /\ F \in Errors
  <2>1. L \in Loading
    <3>1. CASE p = "audit"
      <4>1. L = [op \in Load |-> op = "audit"]
        BY <3>1 DEF MountedLoading
      <4> QED
        BY <4>1 DEF Loading
    <3>2. CASE p # "audit"
      <4>1. L = [op \in Load |-> op \in {"list", "restricted"}]
        BY <3>2 DEF MountedLoading
      <4> QED
        BY <4>1 DEF Loading
    <3> QED
      BY <3>1, <3>2
  <2>2. F \in Errors
    BY DEF Errors
  <2> QED
    BY <2>1, <2>2
<1>13. NoReport \in ReportOrNone /\ NoDetail \in Detail
  BY DEF NoDetail, Detail, ReportOrNone, Status
<1>14. ViewOwned(T, L, F, NoReport, NoDetail)
  BY <1>8, <1>11, <1>12, <1>13 DEF ViewOwned, Panel
<1>15. S \in Submitting /\ ~S["review"] /\ ~S["act"]
  BY DEF Submitting
<1>16. ButtonsOwned(T, S, NoAccount)
  BY <1>10, <1>15 DEF ButtonsOwned, OwnedSubmits, OwnedRestore
<1> QED
  BY <1>14, <1>16 DEF T

LEMMA NavigateInv == ASSUME NEW p \in {"reports", "audit"}, Inv, Navigate(p) PROVE Inv'
<1>1. /\ Mounted(p) /\ UNCHANGED server
      /\ clicks' \in 0..MaxClicks
  BY BoundAssumption DEF Navigate, Inv, PageOK
<1>2. /\ page' = p /\ filter' = FirstFilter /\ list' = {} /\ restricted' = Unrestricted
      /\ success' = FALSE
      /\ tasks' = MountedTasks(p) /\ loading' = MountedLoading(p)
      /\ failed' = [op \in Load \cup {"action"} |-> FALSE]
      /\ selected' = NoReport /\ detail' = NoDetail
      /\ submitting' = [f \in {"review", "act"} |-> FALSE] /\ restoring' = NoAccount
  BY <1>1 DEF Mounted
<1>3. /\ ViewOwned(tasks', loading', failed', selected', detail')
      /\ ButtonsOwned(tasks', submitting', restoring')
  BY <1>2, MountedOK
<1>4. PageOK'
  BY <1>1, <1>2, BlankType DEF PageOK, Unrestricted, ReportOrNone
<1> QED
  BY <1>1, <1>3, <1>4 DEF Inv, ServerOK, server

LEMMA InitInv == Init => Inv
<1> SUFFICES ASSUME Init PROVE Inv
  OBVIOUS
<1>1. /\ ViewOwned(tasks, loading, failed, selected, detail)
      /\ ButtonsOwned(tasks, submitting, restoring)
  BY MountedOK DEF Init
<1>2. ServerOK
  BY FirstAssumption DEF Init, ServerOK, Status, ReportOrNone
<1>3. PageOK
  <2>1. clicks \in 0..MaxClicks
    BY BoundAssumption DEF Init
  <2>2. restricted \in [Account -> ReportOrNone]
    BY DEF Init, Unrestricted, ReportOrNone
  <2>3. page \in {"reports", "audit"} /\ filter \in Filter /\ list \subseteq Report
        /\ success \in BOOLEAN
    BY BlankType DEF Init
  <2> QED
    BY <2>1, <2>2, <2>3 DEF PageOK
<1> QED
  BY <1>1, <1>2, <1>3 DEF Inv

LEMMA NextInv == Inv /\ [Next]_vars => Inv'
<1> SUFFICES ASSUME Inv, [Next]_vars PROVE Inv'
  OBVIOUS
<1>1. CASE User
  BY <1>1, SetFilterInv, SelectReportInv, RefreshRestrictedInv, SubmitReviewInv,
     SubmitActionInv, RestoreListedInv, SubmitBlankInv, RefreshAuditInv, NavigateInv DEF User
<1>2. CASE OtherAdmin
  BY <1>2, OtherAdminInv
<1>3. CASE \E k \in Slot : Work(k)
  BY <1>3, ServeInv, RefuseInv, ForbidInv, ReportsLoadedInv, ReportsFailedInv,
     RestrictedLoadedInv, DetailLoadedInv, ActionDoneInv, ActionFailedInv, AuditLoadedInv
     DEF Work, Settle
<1>4. CASE UNCHANGED vars
  BY <1>4 DEF vars, Inv, ServerOK, PageOK
<1> QED
  BY <1>1, <1>2, <1>3, <1>4 DEF Next

LEMMA Always == Spec => []Inv
BY InitInv, NextInv, PTL DEF Spec

--------------------------------------------------------------------------------
LEMMA InvType == Inv => TypeOK
<1> SUFFICES ASSUME Inv PROVE TypeOK
  OBVIOUS
<1>1. ASSUME NEW k \in Running
      PROVE  /\ tasks[k].kind \in Kind
             /\ tasks[k].again \in BOOLEAN
             /\ tasks[k].at \in {"sent", "ok", "error"}
             /\ tasks[k].todo # << >>
             /\ \A i \in 1..Len(tasks[k].todo) :
                  tasks[k].todo[i] \in Requests /\ WellFormed(tasks[k].todo[i])
  <2>1. k \in Slot /\ tasks[k] # Idle
    BY DEF Running
  <2>2. tasks[k] \in TaskSet /\ tasks[k] \in TaskRecord
    BY <2>1, RunningTask
  <2>3. /\ tasks[k].kind \in Kind /\ tasks[k].again \in BOOLEAN
        /\ tasks[k].at \in {"sent", "ok", "error"}
        /\ tasks[k].todo \in Seq(Requests)
        /\ Shape(tasks[k].kind, tasks[k].todo)
    BY <2>1, <2>2 DEF TaskSet, TaskRecord, At
  <2> QED
    BY <2>3 DEF Shape
<1> QED
  BY <1>1 DEF Inv, ServerOK, PageOK, ViewOwned, ButtonsOwned, ReportOrNone, Detail,
              Loading, Errors, Submitting, TypeOK

LEMMA InvFlags == Inv => FlagsOwned
<1> SUFFICES ASSUME Inv PROVE FlagsOwned
  OBVIOUS
<1>1. \A op \in Load : loading[op] => \E k \in Running : Head1(k).op = op
  BY DEF Inv, ViewOwned, OwnedLoads, Heads, Running, Head1
<1>2. \A f : Kinds(tasks, f) = {k \in Running : tasks[k].kind = f}
  BY DEF Kinds, Running
<1>3. /\ \A f \in {"review", "act"} : /\ submitting[f] <=> Kinds(tasks, f) # {}
                                      /\ \A j, k \in Kinds(tasks, f) : j = k
      /\ restoring # NoAccount => Kinds(tasks, "restore") # {}
  BY DEF Inv, ButtonsOwned, OwnedSubmits, OwnedRestore
<1>4. restoring # NoAccount => \E k \in Running : tasks[k].kind = "restore"
  BY <1>2, <1>3
<1> QED
  BY <1>1, <1>2, <1>3, <1>4 DEF FlagsOwned

LEMMA InvPanel == Inv => NoBlankDetail
BY DEF Inv, ViewOwned, Panel, Heads, Running, Head1, NoBlankDetail

(* The console is always in a state its code knows, and a request under    *)
(* way names the report or account it is about (admin-reports-page.tsx).   *)
THEOREM TypeCorrect == Spec => []TypeOK
BY Always, InvType, PTL

(* However requests fail, are sent again or overtake each other, and       *)
(* however the administrator clicks in between, a flag that disables a     *)
(* button or shows a load belongs to a function that is under way, and no  *)
(* two reviews or two restrictions are.                                    *)
THEOREM FlagsDown == Spec => []FlagsOwned
BY Always, InvFlags, PTL

(* A selected report has its detail, an error, or a request under way, in  *)
(* whatever order lists, details and actions are answered.                 *)
THEOREM PanelShown == Spec => []NoBlankDetail
BY Always, InvPanel, PTL

================================================================================
