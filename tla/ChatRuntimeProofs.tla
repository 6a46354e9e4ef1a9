--------------------------- MODULE ChatRuntimeProofs ---------------------------
(* Theorems about ChatRuntime, for any sessions, accounts and bounds. *)
EXTENDS ChatRuntime, SequenceTheorems, TLAPS

(* LREM leaves a list of the same ids without s, in the same order.        *)
LEMMA WithoutProperties ==
  ASSUME NEW q \in Seq(Session), NEW s \in Session
  PROVE  /\ Without(q, s) \in Seq(Session)
         /\ Elements(Without(q, s)) \subseteq Elements(q)
         /\ Elements(q) \ {s} \subseteq Elements(Without(q, s))
         /\ NoDuplicates(q) => /\ s \notin Elements(Without(q, s))
                               /\ NoDuplicates(Without(q, s))
                               /\ Elements(Without(q, s)) = Elements(q) \ {s}
<1>1. CASE s \notin Elements(q)
  <2>1. Without(q, s) = q
    BY <1>1 DEF Without
  <2> QED
    BY <1>1, <2>1
<1>2. CASE s \in Elements(q)
  <2> DEFINE k == CHOOSE i \in DOMAIN q : q[i] = s
             r == [i \in 1 .. Len(q) - 1 |-> IF i < k THEN q[i] ELSE q[i + 1]]
  <2>1. k \in 1 .. Len(q) /\ q[k] = s
    BY <1>2 DEF Elements
  <2>2. Without(q, s) = r
    BY <1>2 DEF Without
  <2>3. Len(q) - 1 \in Nat
    BY <2>1
  <2>4. r \in Seq(Session) /\ DOMAIN r = 1 .. Len(q) - 1
    BY <2>1, <2>3
  <2> HIDE DEF k
  <2>5. \A i \in DOMAIN r : r[i] = IF i < k THEN q[i] ELSE q[i + 1]
    BY <2>4
  <2>6. Elements(r) \subseteq Elements(q)
    BY <2>1, <2>4, <2>5 DEF Elements
  <2>7. Elements(q) \ {s} \subseteq Elements(r)
    <3> SUFFICES ASSUME NEW i \in 1 .. Len(q), q[i] # s
                 PROVE  q[i] \in Elements(r)
      BY DEF Elements
    <3>1. CASE i < k
      <4>1. i \in DOMAIN r /\ r[i] = q[i]
        BY <3>1, <2>1, <2>4, <2>5
      <4> QED
        BY <4>1 DEF Elements
    <3>2. CASE i > k
      <4>1. i - 1 \in DOMAIN r /\ r[i - 1] = q[i]
        BY <3>2, <2>1, <2>4, <2>5
      <4> QED
        BY <4>1 DEF Elements
    <3> QED
      BY <3>1, <3>2, <2>1
  <2>8. ASSUME NoDuplicates(q) PROVE s \notin Elements(r) /\ NoDuplicates(r)
    <3>1. \A i, j \in 1 .. Len(q) : q[i] = q[j] => i = j
      BY <2>8 DEF NoDuplicates
    <3>2. s \notin Elements(r)
      BY <3>1, <2>1, <2>4, <2>5 DEF Elements
    <3>3. ASSUME NEW i \in DOMAIN r, NEW j \in DOMAIN r, r[i] = r[j]
          PROVE  i = j
      BY <3>1, <3>3, <2>1, <2>4, <2>5
    <3> QED
      BY <3>2, <3>3 DEF NoDuplicates
  <2> HIDE DEF r
  <2> QED
    BY <2>2, <2>4, <2>6, <2>7, <2>8
<1> QED
  BY <1>1, <1>2

(* Appending to recent history adds the entry and keeps or trims the rest. *)
LEMMA RememberProperties ==
  ASSUME NEW h \in Seq(Entry), NEW e \in Entry
  PROVE  /\ Remember(h, e) \in Seq(Entry)
         /\ \A i \in DOMAIN Remember(h, e) :
              Remember(h, e)[i] = e \/ \E j \in DOMAIN h : Remember(h, e)[i] = h[j]
<1>1. CASE Len(h) < HistoryLimit
  BY <1>1 DEF Remember
<1>2. CASE ~(Len(h) < HistoryLimit)
  <2> DEFINE m == Len(h) - HistoryLimit + 2
             t == SubSeq(h, m, Len(h))
  <2>1. m \in Int /\ m >= 2 /\ Len(h) \in Nat
    BY <1>2, HistoryLimitAssumption
  <2>2. \A i \in m .. Len(h) : h[i] \in Entry
    BY <2>1
  <2>3. /\ t \in Seq(Entry)
        /\ \A i \in 1 .. Len(h) - m + 1 : t[i] = h[m + i - 1]
        /\ Len(t) = IF m <= Len(h) THEN Len(h) - m + 1 ELSE 0
    BY <2>1, <2>2, SubSeqProperties
  <2>4. Remember(h, e) = Append(t, e)
    BY <1>2 DEF Remember
  <2> HIDE DEF t
  <2>5. /\ Append(t, e) \in Seq(Entry)
        /\ DOMAIN Append(t, e) = 1 .. Len(t) + 1
        /\ Append(t, e)[Len(t) + 1] = e
        /\ \A i \in 1 .. Len(t) : Append(t, e)[i] = t[i]
    BY <2>3
  <2>6. \A i \in 1 .. Len(t) : \E j \in DOMAIN h : t[i] = h[j]
    <3> TAKE i \in 1 .. Len(t)
    <3>1. m <= Len(h) /\ m + i - 1 \in 1 .. Len(h) /\ i \in 1 .. Len(h) - m + 1
      BY <2>1, <2>3
    <3> QED
      BY <3>1, <2>3
  <2> QED
    BY <2>3, <2>4, <2>5, <2>6
<1> QED
  BY <1>1, <1>2

(* A cleared history with a disconnect notice holds that notice alone.     *)
LEMMA FarewellAlone ==
  ASSUME NEW s \in Session
  PROVE  /\ Farewell(s) \in Entry /\ Farewell(s).type = "disconnect"
         /\ Remember(<< >>, Farewell(s)) = <<Farewell(s)>>
<1>1. Farewell(s) \in Entry /\ Farewell(s).type = "disconnect"
  BY DEF Farewell, Entry
<1>2. Len(<< >>) < HistoryLimit
  BY HistoryLimitAssumption
<1>3. Remember(<< >>, Farewell(s)) = Append(<< >>, Farewell(s))
  BY <1>2 DEF Remember
<1> HIDE DEF Farewell
<1>4. Append(<< >>, Farewell(s)) = <<Farewell(s)>>
  BY <1>1
<1> QED
  BY <1>1, <1>3, <1>4

--------------------------------------------------------------------------------
(* Type correctness. *)

(* The initial state is well typed.                                        *)
LEMMA TypeInit == Init => TypeOK
BY DEF Init, TypeOK, Entry

(* The first of a non-empty queue is a session, the rest a queue.          *)
LEMMA QueueParts ==
  ASSUME TypeOK, queue # << >>
  PROVE  Head(queue) \in Session /\ Tail(queue) \in Seq(Session)
BY HeadTailProperties DEF TypeOK

(* _remove_session_unlocked keeps the types of everything it writes.       *)
LEMMA RemoveSessionType ==
  ASSUME TypeOK, NEW s \in Session, RemoveSession(s)
  PROVE  /\ hub' \in [Session -> Nat]
         /\ online' \in SUBSET Session
         /\ queue' \in Seq(Session)
         /\ status' \in [Session -> {"unissued", "active", "closed"}]
         /\ matches' \in SUBSET (Session \X Session)
         /\ recorded' \in SUBSET ((Session \X Session) \X MessageId)
         /\ state' \in [Session -> {"absent", "idle", "searching", "connected"}]
         /\ partner' \in [Session -> Session \cup {NoSession}]
         /\ deadline' \in [Session -> {"none", "running", "lapsed"}]
         /\ history' \in [Session -> Seq(Entry)]
         /\ dropping' \in SUBSET Session
         /\ served' \in SUBSET Session
<1>1. Without(queue, s) \in Seq(Session)
  BY WithoutProperties DEF TypeOK
<1>2. \A S : Cleared(S) \in [Session -> Seq(Entry)]
  BY DEF Cleared, TypeOK
<1>3. \A h \in Seq(Entry) : Remember(h, Farewell(s)) \in Seq(Entry)
  BY FarewellAlone, RememberProperties
<1>4. history' \in [Session -> Seq(Entry)]
  BY <1>2, <1>3 DEF RemoveSession, TypeOK
<1>5. matches' \in SUBSET (Session \X Session)
  BY DEF RemoveSession, TypeOK, MatchesWithout
<1>6. recorded' \in SUBSET ((Session \X Session) \X MessageId)
  BY DEF RemoveSession, TypeOK, RecordedIn
<1> QED
  BY <1>1, <1>4, <1>5, <1>6 DEF RemoveSession, TypeOK

(* Every method, turn of a loop and event keeps the types.                 *)
LEMMA TypeStep == TypeOK /\ [Next]_vars => TypeOK'
<1> SUFFICES ASSUME TypeOK, [Next]_vars PROVE TypeOK'
  OBVIOUS
<1>1. ASSUME NEW s \in Session, CreateSession(s) PROVE TypeOK'
  BY <1>1 DEF CreateSession, TypeOK, fields, method
<1>2. ASSUME NEW s \in Session, Register(s) PROVE TypeOK'
  <2>1. hub' \in [Session -> Nat]
    BY <1>2 DEF Register, TypeOK
  <2>2. state' \in [Session -> {"absent", "idle", "searching", "connected"}]
    BY <1>2 DEF Register, TypeOK
  <2> QED
    BY <1>2, <2>1, <2>2 DEF Register, TypeOK, postgres, method
<1>3. ASSUME NEW s \in Session, LoadOrCreate(s) PROVE TypeOK'
  BY <1>3 DEF LoadOrCreate, TypeOK, postgres, method
<1>4. ASSUME NEW s \in Session, EnterQueue(s) PROVE TypeOK'
  <2>1. Without(queue, s) \in Seq(Session)
    BY WithoutProperties DEF TypeOK
  <2>2. queue' \in Seq(Session)
    BY <1>4, <2>1 DEF EnterQueue
  <2> QED
    BY <1>4, <2>2 DEF EnterQueue, TypeOK, postgres, method
<1>5. ASSUME NEW s \in Session, NEW id \in MessageId \cup {NoId},
             RecordMessage(s, id)
      PROVE  TypeOK'
  <2> DEFINE e == [type |-> "message", from |-> s, id |-> id]
  <2>1. e \in Entry
    BY DEF Entry
  <2>2. history' \in [Session -> Seq(Entry)]
    <3>1. \A h \in Seq(Entry) : Remember(h, e) \in Seq(Entry)
      BY <2>1, RememberProperties
    <3>2. history' = [history EXCEPT ![s] = Remember(@, e),
                                     ![partner[s]] = Remember(@, e)]
      BY <1>5 DEF RecordMessage
    <3> HIDE DEF e
    <3> QED
      BY <3>1, <3>2 DEF TypeOK
  <2>3. recorded' \in SUBSET ((Session \X Session) \X MessageId)
    BY <1>5 DEF RecordMessage, TypeOK
  <2> QED
    BY <1>5, <2>2, <2>3 DEF RecordMessage, TypeOK, fields, method
<1>6. ASSUME NEW s \in Session, Disconnect(s) PROVE TypeOK'
  <2>1. \A S : Cleared(S) \in [Session -> Seq(Entry)]
    BY DEF Cleared, TypeOK
  <2>2. \A h \in Seq(Entry) : Remember(h, Farewell(s)) \in Seq(Entry)
    BY FarewellAlone, RememberProperties
  <2>3. history' \in [Session -> Seq(Entry)]
    BY <1>6, <2>1, <2>2 DEF Disconnect, TypeOK
  <2>4. matches' \in SUBSET (Session \X Session)
    BY <1>6 DEF Disconnect, MatchesWithout, TypeOK
  <2>5. recorded' \in SUBSET ((Session \X Session) \X MessageId)
    BY <1>6 DEF Disconnect, RecordedIn, TypeOK
  <2> QED
    BY <1>6, <2>3, <2>4, <2>5 DEF Disconnect, TypeOK, method
<1>7. ASSUME NEW s \in Session, MarkDisconnected(s) PROVE TypeOK'
  BY <1>7, WithoutProperties DEF MarkDisconnected, TypeOK, postgres, method
<1>8. ASSUME NEW s \in Session, StillConnected(s) PROVE TypeOK'
  BY <1>8 DEF StillConnected, TypeOK, postgres, fields, method
<1>9. ASSUME NEW s \in Session, Revoke(s) PROVE TypeOK'
  BY <1>9, RemoveSessionType DEF Revoke, TypeOK, method
<1>10. ASSUME NEW s \in Session, DropSocket(s) PROVE TypeOK'
  BY <1>10 DEF DropSocket, TypeOK, postgres, fields, method
<1>11. ASSUME NEW s \in Session, Lapse(s) PROVE TypeOK'
  BY <1>11 DEF Lapse, TypeOK, postgres, method
<1>12. ASSUME BeginMatch PROVE TypeOK'
  BY <1>12 DEF BeginMatch, TypeOK, postgres, fields
<1>13. ASSUME SkipCandidate PROVE TypeOK'
  BY <1>13, QueueParts DEF SkipCandidate, TypeOK, postgres, fields, method
<1>14. ASSUME TakeLeft PROVE TypeOK'
  BY <1>14, QueueParts DEF TakeLeft, TypeOK, postgres, fields
<1>15. ASSUME DeferCandidate PROVE TypeOK'
  <2>1. Append(deferred, Head(queue)) \in Seq(Session)
    BY <1>15, QueueParts, AppendProperties DEF DeferCandidate, TypeOK
  <2> QED
    BY <1>15, <2>1, QueueParts DEF DeferCandidate, TypeOK, postgres, fields
<1>16. ASSUME Pair PROVE TypeOK'
  <2>1. /\ Head(queue) \in Session
        /\ deferred \o Tail(queue) \in Seq(Session)
        /\ left \in Session
    BY <1>16, QueueParts DEF Pair, TypeOK
  <2>2. matches' \in SUBSET (Session \X Session)
    BY <1>16, <2>1 DEF Pair, TypeOK, MatchesWithout
  <2>3. recorded' \in SUBSET ((Session \X Session) \X MessageId)
    BY <1>16 DEF Pair, TypeOK, RecordedIn
  <2>4. /\ state' \in [Session -> {"absent", "idle", "searching", "connected"}]
        /\ partner' \in [Session -> Session \cup {NoSession}]
        /\ deadline' \in [Session -> {"none", "running", "lapsed"}]
    BY <1>16, <2>1 DEF Pair, TypeOK
  <2>5. /\ queue' \in Seq(Session)
        /\ lock' = "free" /\ left' = NoSession /\ deferred' = << >>
        /\ UNCHANGED <<status, online, history, hub, dropping, served, expiring>>
    BY <1>16, <2>1 DEF Pair
  <2> QED
    BY <2>2, <2>3, <2>4, <2>5 DEF TypeOK
<1>17. ASSUME GiveUp PROVE TypeOK'
  BY <1>17 DEF GiveUp, TypeOK, postgres, fields
<1>18. ASSUME BeginExpiry PROVE TypeOK'
  BY <1>18 DEF BeginExpiry, TypeOK, postgres, fields
<1>19. ASSUME NEW s \in Session, ExpireOne(s) PROVE TypeOK'
  BY <1>19, RemoveSessionType DEF ExpireOne, TypeOK
<1>20. ASSUME Restart PROVE TypeOK'
  BY <1>20 DEF Restart, TypeOK, postgres
<1>21. ASSUME UNCHANGED vars PROVE TypeOK'
  BY <1>21 DEF vars, TypeOK
<1> QED
  BY <1>1, <1>2, <1>3, <1>4, <1>5, <1>6, <1>7, <1>8, <1>9, <1>10, <1>11, <1>12,
     <1>13, <1>14, <1>15, <1>16, <1>17, <1>18, <1>19, <1>20, <1>21
     DEF Next, TryMatch, Expire

(* Every state the runtime reaches is well typed. *)
THEOREM TypeCorrect == Spec => []TypeOK
  BY TypeInit, TypeStep, PTL DEF Spec

--------------------------------------------------------------------------------
(* Pairs: Redis and PostgreSQL. *)

(* Nobody is paired at first.                                              *)
LEMMA PairInit == Init => PairInv
<1> SUFFICES ASSUME Init PROVE PairInv
  OBVIOUS
<1>1. TypeOK
  BY TypeInit
<1>2. PartnersMutual /\ AbsentIsBlank /\ SearchInHand
  BY DEF Init, AbsentIsBlank, SearchInHand, PartnersMutual, Stored
<1>3. DurableMatchesAgree
  BY NoSessionAssumption DEF Init, DurableMatchesAgree, ActiveMatch
<1> QED
  BY <1>1, <1>2, <1>3 DEF PairInv

(* A session's partner is a stored session that points back.               *)
LEMMA PartnerFacts ==
  ASSUME PairInv, NEW s \in Session, partner[s] # NoSession
  PROVE  /\ partner[s] \in Session /\ partner[s] # s
         /\ partner[partner[s]] = s /\ Stored(partner[s])
<1>1. partner[s] \in Session
  BY DEF PairInv, TypeOK
<1>2. partner[s] # s /\ partner[partner[s]] = s
  BY DEF PairInv, PartnersMutual
<1>3. state[partner[s]] = "connected" <=> partner[partner[s]] # NoSession
  BY <1>1 DEF PairInv, PartnersMutual
<1> QED
  BY <1>1, <1>2, <1>3, NoSessionAssumption DEF Stored

(* Clearing a session and its partner leaves all other pairs as they were. *)
LEMMA PartingKeepsMutual ==
  ASSUME PairInv, NEW s \in Session,
         \A t \in Session : partner'[t] = IF t = s \/ t = partner[s]
                                         THEN NoSession ELSE partner[t],
         \A t \in Session : IF t = s \/ t = partner[s]
                            THEN state'[t] # "connected"
                            ELSE state'[t] = state[t]
  PROVE  PartnersMutual'
<1> USE NoSessionAssumption
<1> SUFFICES ASSUME NEW t \in Session
             PROVE  /\ state'[t] = "connected" <=> partner'[t] # NoSession
                    /\ partner'[t] # NoSession =>
                         /\ partner'[partner'[t]] = t
                         /\ partner'[t] # t
                         /\ ~SameAccount(t, partner'[t])
  BY DEF PartnersMutual, SameAccount
<1>1. CASE t = s \/ t = partner[s]
  BY <1>1
<1>2. CASE ~(t = s \/ t = partner[s])
  <2>1. /\ state[t] = "connected" <=> partner[t] # NoSession
        /\ partner[t] # NoSession => ~SameAccount(t, partner[t])
    BY DEF PairInv, PartnersMutual
  <2>2. partner'[t] = partner[t] /\ state'[t] = state[t]
    BY <1>2
  <2>3. ASSUME partner[t] # NoSession
        PROVE  partner'[partner[t]] = t /\ partner[t] # t
    <3>1. /\ partner[t] \in Session /\ partner[t] # t
          /\ partner[partner[t]] = t
      BY <2>3, PartnerFacts
    <3>2. partner[t] # s
      BY <1>2, <3>1
    <3>3. partner[s] # NoSession => partner[partner[s]] = s
      BY PartnerFacts
    <3>4. partner[t] # partner[s]
      BY <1>2, <2>3, <3>1, <3>3
    <3> QED
      BY <3>1, <3>2, <3>4
  <2> QED
    BY <2>1, <2>2, <2>3
<1> QED
  BY <1>1, <1>2

(* Removing a session unmatches its partner too, in both stores.           *)
LEMMA RemoveSessionPairs ==
  ASSUME PairInv, NEW s \in Session, RemoveSession(s)
  PROVE  /\ AbsentIsBlank' /\ PartnersMutual' /\ DurableMatchesAgree'
         /\ \A t \in Session : t # s /\ t # partner[s] =>
              /\ state'[t] = state[t] /\ partner'[t] = partner[t]
              /\ deadline'[t] = deadline[t] /\ history'[t] = history[t]
         /\ \A t \in Session : t = s \/ t = partner[s] =>
              partner'[t] = NoSession /\ deadline'[t] = "none"
         /\ state'[s] = "absent"
         /\ partner[s] # NoSession => state'[partner[s]] = "idle"
<1> USE NoSessionAssumption
<1>1. /\ partner[s] # NoSession =>
           /\ partner[s] \in Session /\ partner[s] # s
           /\ partner[partner[s]] = s /\ Stored(partner[s])
  BY PartnerFacts
<1>2. \A t \in Session : partner'[t] = IF t = s \/ t = partner[s]
                                       THEN NoSession ELSE partner[t]
  BY <1>1 DEF RemoveSession
<1>3. \A t \in Session : state'[t] = IF t = s THEN "absent"
                                     ELSE IF t = partner[s] THEN "idle"
                                     ELSE state[t]
  BY <1>1 DEF RemoveSession
<1>4. \A t \in Session : deadline'[t] = IF t = s \/ t = partner[s]
                                        THEN "none" ELSE deadline[t]
  BY <1>1 DEF RemoveSession
<1>5. \A t \in Session : t # s /\ t # partner[s] => history'[t] = history[t]
  BY <1>1 DEF RemoveSession, Cleared
<1>6. \A a, b \in Session :
        <<a, b>> \in matches' <=> <<a, b>> \in matches /\ a # s /\ b # s
  BY DEF RemoveSession, MatchesWithout
<1>7. PartnersMutual'
  BY <1>2, <1>3, PartingKeepsMutual
<1>8. AbsentIsBlank'
  BY <1>1, <1>2, <1>3, <1>4 DEF PairInv, AbsentIsBlank, Stored
<1>9. DurableMatchesAgree'
  BY <1>1, <1>2, <1>6, NoSessionAssumption
     DEF PairInv, DurableMatchesAgree, ActiveMatch
<1> QED
  BY <1>1, <1>2, <1>3, <1>4, <1>5, <1>7, <1>8, <1>9

(* PairInv is inductive: both sides of a pair, and the row of their        *)
(* match, are written by the same step, whichever it is.                   *)
LEMMA PairStep == PairInv /\ [Next]_vars => PairInv'
<1> SUFFICES ASSUME PairInv, [Next]_vars PROVE PairInv'
  OBVIOUS
<1> USE NoSessionAssumption
<1> TypeOK /\ TypeOK'
  BY TypeStep DEF PairInv
<1>0. ASSUME UNCHANGED <<matches, state, partner, deadline, lock, left, deferred>>,
             UNCHANGED <<hub, dropping>>
      PROVE  PairInv'
  BY <1>0 DEF PairInv, AbsentIsBlank, SearchInHand, PartnersMutual,
    DurableMatchesAgree, ActiveMatch, Stored
<1>1. ASSUME NEW s \in Session, CreateSession(s) PROVE PairInv'
  BY <1>1, <1>0 DEF CreateSession, fields, method
<1>2. ASSUME NEW s \in Session, Register(s) PROVE PairInv'
  <2>1. \A t \in Session :
          /\ state'[t] = "connected" <=> state[t] = "connected"
          /\ state'[t] = "absent" => t # s /\ state[t] = "absent"
          /\ deadline'[t] = IF t = s THEN "none" ELSE deadline[t]
    <3>1. \A t \in Session :
            /\ state'[t] = IF t = s /\ (~Stored(s) \/ (hub[s] = 0 /\ partner[s] = NoSession))
                            THEN "idle" ELSE state[t]
            /\ deadline'[t] = IF t = s THEN "none" ELSE deadline[t]
      <4>1. /\ state \in [Session -> {"absent", "idle", "searching", "connected"}]
            /\ deadline \in [Session -> {"none", "running", "lapsed"}]
        BY DEF TypeOK
      <4>2. /\ state' = [state EXCEPT ![s] =
                           IF ~Stored(s) \/ (hub[s] = 0 /\ partner[s] = NoSession)
                           THEN "idle" ELSE state[s]]
            /\ deadline' = [deadline EXCEPT ![s] = "none"]
        BY <1>2 DEF Register
      <4> QED
        BY <4>1, <4>2
    <3>2. partner[s] = NoSession => state[s] # "connected"
      BY DEF PairInv, PartnersMutual
    <3>3. state[s] = "absent" => partner[s] = NoSession
      BY DEF PairInv, AbsentIsBlank, Stored
    <3>4. ASSUME NEW t \in Session
          PROVE  /\ state'[t] = "connected" <=> state[t] = "connected"
                 /\ state'[t] = "absent" => t # s /\ state[t] = "absent"
      <4>1. CASE t = s
        <5>1. state[s] = "absent" \/ partner[s] = NoSession \/ state'[s] = state[s]
          BY <3>1 DEF Stored
        <5>2. state'[s] \in {"idle", state[s]}
          BY <3>1
        <5>3. state[s] = "absent" => state'[s] = "idle"
          BY <3>1 DEF Stored
        <5> QED
          BY <4>1, <3>2, <3>3, <5>1, <5>2, <5>3
      <4>2. CASE t # s
        BY <4>2, <3>1
      <4> QED
        BY <4>1, <4>2
    <3> QED
      BY <3>1, <3>4
  <2>2. PartnersMutual' /\ AbsentIsBlank'
    BY <1>2, <2>1 DEF Register, PairInv, PartnersMutual, AbsentIsBlank, Stored
  <2>3. SearchInHand' /\ DurableMatchesAgree'
    BY <1>2 DEF Register, PairInv, SearchInHand, DurableMatchesAgree,
      ActiveMatch, postgres, method
  <2> QED
    BY <2>2, <2>3 DEF PairInv
<1>3. ASSUME NEW s \in Session, LoadOrCreate(s) PROVE PairInv'
  BY <1>3 DEF LoadOrCreate, PairInv, AbsentIsBlank, SearchInHand,
    PartnersMutual, DurableMatchesAgree, ActiveMatch, Stored, postgres, method,
    TypeOK
<1>4. ASSUME NEW s \in Session, EnterQueue(s) PROVE PairInv'
  <2>1. \A t \in Session :
          /\ state'[t] = "connected" <=> state[t] = "connected"
          /\ state'[t] = "absent" => t # s /\ state[t] = "absent"
          /\ deadline'[t] = IF t = s THEN "none" ELSE deadline[t]
    <3>1. \A t \in Session :
            /\ state'[t] = IF t = s THEN "searching" ELSE state[t]
            /\ deadline'[t] = IF t = s THEN "none" ELSE deadline[t]
      BY <1>4 DEF EnterQueue, TypeOK
    <3>2. partner[s] = NoSession => state[s] # "connected"
      BY DEF PairInv, PartnersMutual
    <3>3. state[s] = "absent" => partner[s] = NoSession
      BY DEF PairInv, AbsentIsBlank, Stored
    <3>4. ASSUME NEW t \in Session
          PROVE  /\ state'[t] = "connected" <=> state[t] = "connected"
                 /\ state'[t] = "absent" => t # s /\ state[t] = "absent"
      <4>1. CASE t = s
        <5>1. state[s] # "connected"
          BY <1>4, <3>2 DEF EnterQueue
        <5>2. state'[s] = "searching"
          BY <3>1
        <5> QED
          BY <4>1, <5>1, <5>2
      <4>2. CASE t # s
        BY <4>2, <3>1
      <4> QED
        BY <4>1, <4>2
    <3> QED
      BY <3>1, <3>4
  <2>2. PartnersMutual' /\ AbsentIsBlank'
    BY <1>4, <2>1 DEF EnterQueue, PairInv, PartnersMutual, AbsentIsBlank, Stored
  <2>3. SearchInHand' /\ DurableMatchesAgree'
    BY <1>4 DEF EnterQueue, PairInv, SearchInHand, DurableMatchesAgree,
      ActiveMatch, postgres, method
  <2> QED
    BY <2>2, <2>3 DEF PairInv
<1>5. ASSUME NEW s \in Session, NEW id \in MessageId \cup {NoId},
             RecordMessage(s, id)
      PROVE  PairInv'
  BY <1>5, <1>0 DEF RecordMessage, fields, method
<1>6. ASSUME NEW s \in Session, Disconnect(s) PROVE PairInv'
  <2>1. partner[s] # NoSession =>
          /\ partner[s] \in Session /\ partner[s] # s
          /\ partner[partner[s]] = s /\ Stored(partner[s])
    BY PartnerFacts
  <2>2. \A t \in Session : partner'[t] = IF t = s \/ t = partner[s]
                                         THEN NoSession ELSE partner[t]
    BY <1>6, <2>1 DEF Disconnect, PointsBack
  <2>3. \A t \in Session : state'[t] = IF t = s \/ t = partner[s]
                                       THEN "idle" ELSE state[t]
    BY <1>6, <2>1 DEF Disconnect, PointsBack
  <2>4. \A t \in Session : deadline'[t] = IF t = partner[s] THEN "none"
                                          ELSE deadline[t]
    BY <1>6, <2>1 DEF Disconnect, PointsBack
  <2>5. \A a, b \in Session :
          <<a, b>> \in matches' <=> <<a, b>> \in matches /\ a # s /\ b # s
    BY <1>6 DEF Disconnect, MatchesWithout
  <2>6. PartnersMutual'
    BY <2>2, <2>3, PartingKeepsMutual
  <2>7. AbsentIsBlank'
    BY <1>6, <2>1, <2>2, <2>3, <2>4
       DEF Disconnect, PairInv, AbsentIsBlank, Stored
  <2>8. DurableMatchesAgree'
    BY <2>1, <2>2, <2>5 DEF PairInv, DurableMatchesAgree, ActiveMatch
  <2>9. SearchInHand'
    BY <1>6 DEF Disconnect, PairInv, SearchInHand, method
  <2> QED
    BY <2>6, <2>7, <2>8, <2>9 DEF PairInv
<1>7. ASSUME NEW s \in Session, MarkDisconnected(s) PROVE PairInv'
  BY <1>7 DEF MarkDisconnected, PairInv, AbsentIsBlank, SearchInHand,
    PartnersMutual, DurableMatchesAgree, ActiveMatch, Stored, postgres, method,
    TypeOK
<1>8. ASSUME NEW s \in Session, StillConnected(s) PROVE PairInv'
  BY <1>8 DEF StillConnected, PairInv, AbsentIsBlank, SearchInHand,
    PartnersMutual, DurableMatchesAgree, ActiveMatch, Stored, postgres, fields,
    method
<1>9. ASSUME NEW s \in Session, Revoke(s) PROVE PairInv'
  <2>1. SearchInHand'
    BY <1>9 DEF Revoke, PairInv, SearchInHand, method
  <2> QED
    BY <1>9, <2>1, RemoveSessionPairs DEF Revoke, PairInv
<1>10. ASSUME NEW s \in Session, DropSocket(s) PROVE PairInv'
  <2>1. SearchInHand'
    BY <1>10 DEF DropSocket, PairInv, SearchInHand, fields, method, TypeOK
  <2> QED
    BY <1>10, <2>1 DEF DropSocket, PairInv, AbsentIsBlank, PartnersMutual,
      DurableMatchesAgree, ActiveMatch, Stored, postgres, fields
<1>11. ASSUME NEW s \in Session, Lapse(s) PROVE PairInv'
  BY <1>11 DEF Lapse, PairInv, AbsentIsBlank, SearchInHand, PartnersMutual,
    DurableMatchesAgree, ActiveMatch, Stored, postgres, method, TypeOK
<1>12. ASSUME BeginMatch PROVE PairInv'
  BY <1>12 DEF BeginMatch, PairInv, AbsentIsBlank, SearchInHand,
    PartnersMutual, DurableMatchesAgree, ActiveMatch, Stored, postgres, fields
<1>13. ASSUME SkipCandidate PROVE PairInv'
  BY <1>13, <1>0 DEF SkipCandidate, postgres, fields, method
<1>14. ASSUME TakeLeft PROVE PairInv'
  BY <1>14, QueueParts DEF TakeLeft, PairInv, AbsentIsBlank, SearchInHand,
    PartnersMutual, DurableMatchesAgree, ActiveMatch, Stored, postgres, fields,
    Matchable
<1>15. ASSUME DeferCandidate PROVE PairInv'
  BY <1>15 DEF DeferCandidate, PairInv, AbsentIsBlank, SearchInHand,
    PartnersMutual, DurableMatchesAgree, ActiveMatch, Stored, postgres, fields
<1>16. ASSUME Pair PROVE PairInv'
  <2> DEFINE right == Head(queue)
  <2>1. /\ left \in Session /\ right \in Session /\ left # right
        /\ ~SameAccount(left, right)
        /\ partner[left] = NoSession /\ partner[right] = NoSession
        /\ state[left] = "searching" /\ state[right] = "searching"
    BY <1>16, QueueParts DEF Pair, Matchable, PairInv, SearchInHand,
      PartnersMutual, TypeOK
  <2> HIDE DEF right
  <2>2. /\ state' = [state EXCEPT ![left] = "connected", ![right] = "connected"]
        /\ partner' = [partner EXCEPT ![left] = right, ![right] = left]
        /\ deadline' = [deadline EXCEPT ![left] = "none", ![right] = "none"]
        /\ matches' = MatchesWithout({left, right}) \cup {<<left, right>>}
        /\ lock' = "free" /\ left' = NoSession /\ deferred' = << >>
    BY <1>16 DEF Pair, right
  <2>3. \A a, b \in Session :
          <<a, b>> \in matches' <=>
            \/ <<a, b>> \in matches /\ {a, b} \cap {left, right} = {}
            \/ a = left /\ b = right
    BY <2>2 DEF MatchesWithout
  <2>10. \A t \in Session :
           /\ partner'[t] = IF t = left THEN right
                            ELSE IF t = right THEN left ELSE partner[t]
           /\ state'[t] = IF t \in {left, right} THEN "connected" ELSE state[t]
           /\ deadline'[t] = IF t \in {left, right} THEN "none" ELSE deadline[t]
    BY <2>1, <2>2 DEF TypeOK
  <2>4. PartnersMutual'
    <3> SUFFICES ASSUME NEW t \in Session
                 PROVE  /\ state'[t] = "connected" <=> partner'[t] # NoSession
                        /\ partner'[t] # NoSession =>
                             /\ partner'[partner'[t]] = t
                             /\ partner'[t] # t
                             /\ ~SameAccount(t, partner'[t])
      BY DEF PartnersMutual, SameAccount
    <3>1. CASE t \in {left, right}
      BY <2>1, <2>2, <2>10, <3>1 DEF SameAccount
    <3>2. CASE t \notin {left, right}
      <4>1. state'[t] = state[t] /\ partner'[t] = partner[t]
        BY <2>10, <3>2
      <4>2. /\ state[t] = "connected" <=> partner[t] # NoSession
            /\ partner[t] # NoSession => ~SameAccount(t, partner[t])
        BY DEF PairInv, PartnersMutual
      <4>3. partner[t] # NoSession =>
              /\ partner[t] \in Session /\ partner[t] # t
              /\ partner[partner[t]] = t
        BY PartnerFacts
      <4>4. partner[t] # NoSession => partner[t] \notin {left, right}
        BY <2>1, <4>3
      <4> QED
        BY <2>10, <4>1, <4>2, <4>3, <4>4
    <3> QED
      BY <3>1, <3>2
  <2>5. AbsentIsBlank'
    BY <2>10 DEF PairInv, AbsentIsBlank, Stored
  <2>6. DurableMatchesAgree'
    BY <2>1, <2>3, <2>10 DEF PairInv, DurableMatchesAgree, ActiveMatch
  <2>7. SearchInHand'
    BY <2>2 DEF SearchInHand
  <2> QED
    BY <2>4, <2>5, <2>6, <2>7 DEF PairInv
<1>17. ASSUME GiveUp PROVE PairInv'
  BY <1>17 DEF GiveUp, PairInv, AbsentIsBlank, SearchInHand, PartnersMutual,
    DurableMatchesAgree, ActiveMatch, Stored, postgres, fields
<1>18. ASSUME BeginExpiry PROVE PairInv'
  BY <1>18 DEF BeginExpiry, PairInv, AbsentIsBlank, SearchInHand,
    PartnersMutual, DurableMatchesAgree, ActiveMatch, Stored, postgres, fields
<1>19. ASSUME NEW s \in Session, ExpireOne(s) PROVE PairInv'
  <2>1. SearchInHand'
    BY <1>19 DEF ExpireOne, PairInv, SearchInHand
  <2> QED
    BY <1>19, <2>1, RemoveSessionPairs DEF ExpireOne, PairInv
<1>20. ASSUME Restart PROVE PairInv'
  BY <1>20 DEF Restart, PairInv, AbsentIsBlank, SearchInHand, PartnersMutual,
    DurableMatchesAgree, ActiveMatch, Stored, SameAccount, postgres, TypeOK
<1>21. ASSUME UNCHANGED vars PROVE PairInv'
  BY <1>21, <1>0 DEF vars
<1> QED
  BY <1>1, <1>2, <1>3, <1>4, <1>5, <1>6, <1>7, <1>8, <1>9, <1>10, <1>11, <1>12,
     <1>13, <1>14, <1>15, <1>16, <1>17, <1>18, <1>19, <1>20, <1>21
     DEF Next, TryMatch, Expire

(* Partners are mutual strangers in every reachable state, whatever the    *)
(* interleaving of handlers, expiries, revocations and restarts.           *)
THEOREM Mutuality == Spec => []PartnersMutual
<1>1. Spec => []PairInv
  BY PairInit, PairStep, PTL DEF Spec
<1> QED
  BY <1>1, PTL DEF PairInv

(* Redis and PostgreSQL agree on who is matched with whom. *)
THEOREM DurableAgreement == Spec => []DurableMatchesAgree
<1>1. Spec => []PairInv
  BY PairInit, PairStep, PTL DEF Spec
<1> QED
  BY <1>1, PTL DEF PairInv

(* With its partner, disconnect_partner parts a session; without one it    *)
(* only stops its search.                                                  *)
LEMMA DisconnectParts ==
  ASSUME PairInv, NEW s \in Session, Disconnect(s)
  PROVE  /\ \A t \in Session :
              partner'[t] = IF t = s \/ t = partner[s] THEN NoSession ELSE partner[t]
         /\ \A t \in Session :
              state'[t] = IF t = s \/ t = partner[s] THEN "idle" ELSE state[t]
<1> USE NoSessionAssumption
<1>1. partner[s] # NoSession => /\ partner[s] \in Session
                                /\ partner[partner[s]] = s /\ Stored(partner[s])
  BY PartnerFacts
<1> QED
  BY <1>1 DEF Disconnect, PointsBack

(* Whoever try_match holds is still searching, and has no partner.         *)
LEMMA PairJoinsSearchers ==
  ASSUME PairInv, Pair
  PROVE  /\ left \in Session /\ Head(queue) \in Session /\ left # Head(queue)
         /\ state[left] = "searching" /\ state[Head(queue)] = "searching"
         /\ partner[left] = NoSession /\ partner[Head(queue)] = NoSession
<1> USE NoSessionAssumption
<1>1. left \in Session /\ state[left] = "searching"
  BY DEF Pair, PairInv, SearchInHand, TypeOK
<1>2. Head(queue) \in Session
  BY QueueParts DEF Pair, PairInv
<1> QED
  BY <1>1, <1>2 DEF Pair, Matchable, PairInv, PartnersMutual

--------------------------------------------------------------------------------
(* Sockets, presence and reconnect deadlines. *)

(* Nobody is connected at first.                                           *)
LEMMA ClockInit == Init => ClockInv
BY DEF Init, ClockInv, PresenceExact, AbandonedMatchHasClock, ExpiryInHand

(* Presence and clocks, without what the expiry has in its hands.          *)
PresenceInv == PresenceExact /\ AbandonedMatchHasClock

(* A removed session leaves hub and presence together.                     *)
LEMMA RemoveSessionPresence ==
  ASSUME PairInv, PresenceInv, NEW s \in Session, RemoveSession(s)
  PROVE  PresenceInv'
<1>1. \A t \in Session : /\ hub'[t] = IF t = s THEN 0 ELSE hub[t]
                         /\ t \in online' <=> t \in online /\ t # s
  BY DEF RemoveSession, PairInv, TypeOK
<1>2. \A t \in Session :
        /\ partner'[t] = NoSession \/ partner'[t] = partner[t]
        /\ deadline'[t] = deadline[t]
             \/ (deadline'[t] = "none" /\ partner'[t] = NoSession)
  BY RemoveSessionPairs
<1>3. dropping' = dropping
  BY DEF RemoveSession
<1>4. PresenceExact'
  BY <1>1, <1>2, <1>3 DEF PresenceInv, PresenceExact
<1>5. AbandonedMatchHasClock'
  <2> SUFFICES ASSUME NEW t \in Session, partner'[t] # NoSession, hub'[t] = 0
               PROVE  deadline'[t] # "none" \/ t \in dropping'
    BY DEF AbandonedMatchHasClock
  <2>1. t # s
    BY RemoveSessionPairs
  <2> QED
    BY <2>1, <1>1, <1>2, <1>3 DEF PresenceInv, AbandonedMatchHasClock
<1> QED
  BY <1>4, <1>5 DEF PresenceInv

(* The last socket of a session takes its presence with it, or leaves a    *)
(* handler behind that will.                                               *)
LEMMA PresenceStep == PairInv /\ PresenceInv /\ [Next]_vars => PresenceInv'
<1> SUFFICES ASSUME PairInv, PresenceInv, [Next]_vars PROVE PresenceInv'
  OBVIOUS
<1> USE NoSessionAssumption DEF PresenceInv
<1> TypeOK
  BY DEF PairInv
<1>0. ASSUME UNCHANGED <<partner, deadline, hub, online, dropping>>
      PROVE  PresenceInv'
  BY <1>0 DEF PresenceExact, AbandonedMatchHasClock
<1>1. ASSUME NEW s \in Session, CreateSession(s) PROVE PresenceInv'
  BY <1>1, <1>0 DEF CreateSession, fields
<1>2. ASSUME NEW s \in Session, Register(s) PROVE PresenceInv'
  <2>1. \A t \in Session :
          /\ hub'[t] = IF t = s THEN hub[t] + 1 ELSE hub[t]
          /\ deadline'[t] = IF t = s THEN "none" ELSE deadline[t]
          /\ t \in online' <=> t = s \/ t \in online
          /\ hub[t] \in Nat
    BY <1>2 DEF Register, TypeOK
  <2>2. hub'[s] > 0
    BY <2>1
  <2> QED
    BY <1>2, <2>1, <2>2 DEF Register, PresenceExact, AbandonedMatchHasClock
<1>3. ASSUME NEW s \in Session, LoadOrCreate(s) PROVE PresenceInv'
  BY <1>3, <1>0 DEF LoadOrCreate
<1>4. ASSUME NEW s \in Session, EnterQueue(s) PROVE PresenceInv'
  BY <1>4 DEF EnterQueue, PresenceExact, AbandonedMatchHasClock, TypeOK
<1>5. ASSUME NEW s \in Session, NEW id \in MessageId \cup {NoId},
             RecordMessage(s, id)
      PROVE  PresenceInv'
  BY <1>5, <1>0 DEF RecordMessage, fields
<1>6. ASSUME NEW s \in Session, Disconnect(s) PROVE PresenceInv'
  <2>1. \A t \in Session :
          /\ partner'[t] = NoSession \/ partner'[t] = partner[t]
          /\ \/ deadline'[t] = deadline[t]
             \/ deadline'[t] = "none" /\ partner'[t] = NoSession
    BY <1>6 DEF Disconnect
  <2> QED
    BY <1>6, <2>1 DEF Disconnect, PresenceExact, AbandonedMatchHasClock
<1>7. ASSUME NEW s \in Session, MarkDisconnected(s) PROVE PresenceInv'
  <2>1. partner[s] # NoSession => Stored(s)
    BY DEF PairInv, PartnersMutual, Stored
  <2>2. \A t \in Session :
          deadline'[t] = IF t = s /\ Stored(s) THEN "running" ELSE deadline[t]
    BY <1>7 DEF MarkDisconnected, TypeOK
  <2>3. \A t \in Session : /\ t \in online' <=> t \in online /\ t # s
                           /\ t \in dropping' <=> t \in dropping /\ t # s
    BY <1>7 DEF MarkDisconnected
  <2>4. hub[s] = 0 /\ hub' = hub /\ partner' = partner
    BY <1>7 DEF MarkDisconnected
  <2>5. PresenceExact'
    BY <2>2, <2>3, <2>4 DEF PresenceExact, TypeOK
  <2>6. AbandonedMatchHasClock'
    BY <2>1, <2>2, <2>3, <2>4 DEF AbandonedMatchHasClock
  <2> QED
    BY <2>5, <2>6
<1>8. ASSUME NEW s \in Session, StillConnected(s) PROVE PresenceInv'
  BY <1>8 DEF StillConnected, PresenceExact, AbandonedMatchHasClock, fields,
    TypeOK
<1>9. ASSUME NEW s \in Session, Revoke(s) PROVE PresenceInv'
  BY <1>9, RemoveSessionPresence DEF Revoke
<1>10. ASSUME NEW s \in Session, DropSocket(s) PROVE PresenceInv'
  <2>1. \A t \in Session : /\ hub'[t] = IF t = s THEN hub[t] - 1 ELSE hub[t]
                           /\ hub[t] \in Nat
    BY <1>10 DEF DropSocket, TypeOK
  <2>2. \A t \in Session :
          t \in dropping' <=> t \in dropping \/ (t = s /\ hub[s] = 1)
    BY <1>10 DEF DropSocket
  <2>3. hub[s] > 0 /\ online' = online /\ deadline' = deadline
        /\ partner' = partner
    BY <1>10 DEF DropSocket, fields
  <2>4. hub'[s] > 0 \/ s \in dropping'
    BY <2>1, <2>2, <2>3
  <2> QED
    BY <2>1, <2>2, <2>3, <2>4 DEF PresenceExact, AbandonedMatchHasClock
<1>11. ASSUME NEW s \in Session, Lapse(s) PROVE PresenceInv'
  BY <1>11 DEF Lapse, PresenceExact, AbandonedMatchHasClock, TypeOK
<1>12. ASSUME BeginMatch PROVE PresenceInv'
  BY <1>12, <1>0 DEF BeginMatch, fields
<1>13. ASSUME SkipCandidate PROVE PresenceInv'
  BY <1>13, <1>0 DEF SkipCandidate, fields
<1>14. ASSUME TakeLeft PROVE PresenceInv'
  BY <1>14, <1>0 DEF TakeLeft, fields
<1>15. ASSUME DeferCandidate PROVE PresenceInv'
  BY <1>15, <1>0 DEF DeferCandidate, fields
<1>16. ASSUME Pair PROVE PresenceInv'
  <2> DEFINE right == Head(queue)
  <2>1. /\ left \in Session /\ right \in Session
        /\ hub[left] > 0 \/ left \in dropping
        /\ hub[right] > 0
    BY <1>16, QueueParts DEF Pair, Matchable, PairInv, SearchInHand, TypeOK
  <2>2. \A t \in Session :
          /\ partner'[t] = partner[t] \/ t \in {left, right}
          /\ deadline'[t] = IF t \in {left, right} THEN "none" ELSE deadline[t]
    BY <1>16, <2>1 DEF Pair, TypeOK
  <2>3. UNCHANGED <<hub, online, dropping>>
    BY <1>16 DEF Pair
  <2>4. \A t \in Session : hub[t] = 0 => t # right
    BY <2>1
  <2> HIDE DEF right
  <2>5. PresenceExact'
    BY <2>2, <2>3 DEF PresenceExact
  <2>6. AbandonedMatchHasClock'
    <3> SUFFICES ASSUME NEW t \in Session, partner'[t] # NoSession, hub[t] = 0
                 PROVE  deadline'[t] # "none" \/ t \in dropping
      BY <2>3 DEF AbandonedMatchHasClock
    <3>1. CASE t = left
      BY <2>1, <3>1
    <3>2. CASE t # left
      BY <2>2, <2>4, <3>2 DEF AbandonedMatchHasClock
    <3> QED
      BY <3>1, <3>2
  <2> QED
    BY <2>5, <2>6
<1>17. ASSUME GiveUp PROVE PresenceInv'
  BY <1>17, <1>0 DEF GiveUp, fields
<1>18. ASSUME BeginExpiry PROVE PresenceInv'
  BY <1>18, <1>0 DEF BeginExpiry, fields
<1>19. ASSUME NEW s \in Session, ExpireOne(s) PROVE PresenceInv'
  BY <1>19, RemoveSessionPresence DEF ExpireOne
<1>20. ASSUME Restart PROVE PresenceInv'
  BY <1>20 DEF Restart, PresenceExact, AbandonedMatchHasClock
<1>21. ASSUME UNCHANGED vars PROVE PresenceInv'
  BY <1>21, <1>0 DEF vars
<1> QED
  BY <1>1, <1>2, <1>3, <1>4, <1>5, <1>6, <1>7, <1>8, <1>9, <1>10, <1>11, <1>12,
     <1>13, <1>14, <1>15, <1>16, <1>17, <1>18, <1>19, <1>20, <1>21
     DEF Next, TryMatch, Expire

(* Nobody gets a socket while the expiry holds the lock, and nobody who    *)
(* has one is listed: such a session has no deadline that could be past.   *)
LEMMA ExpiryStep ==
  TypeOK /\ PresenceExact /\ ExpiryInHand /\ [Next]_vars => ExpiryInHand'
<1> SUFFICES ASSUME TypeOK, PresenceExact, ExpiryInHand, [Next]_vars
             PROVE  ExpiryInHand'
  OBVIOUS
<1>0. ASSUME UNCHANGED <<lock, expiring, hub>> PROVE ExpiryInHand'
  BY <1>0 DEF ExpiryInHand
<1>1. ASSUME NEW s \in Session,
             \/ CreateSession(s) \/ LoadOrCreate(s) \/ EnterQueue(s)
             \/ Disconnect(s) \/ MarkDisconnected(s) \/ StillConnected(s)
             \/ Lapse(s) \/ \E id \in MessageId \cup {NoId} : RecordMessage(s, id)
      PROVE  ExpiryInHand'
  BY <1>1, <1>0 DEF CreateSession, LoadOrCreate, EnterQueue, Disconnect,
     MarkDisconnected, StillConnected, Lapse, RecordMessage, method
<1>2. ASSUME NEW s \in Session, Register(s) \/ Revoke(s) PROVE ExpiryInHand'
  <2>1. lock = "free" /\ UNCHANGED <<lock, expiring>>
    BY <1>2 DEF Register, Revoke, method
  <2> QED
    BY <2>1 DEF ExpiryInHand
<1>3. ASSUME NEW s \in Session, DropSocket(s) PROVE ExpiryInHand'
  <2>1. hub[s] > 0 /\ hub' = [hub EXCEPT ![s] = @ - 1] /\ UNCHANGED <<lock, expiring>>
    BY <1>3 DEF DropSocket, method
  <2>2. \A t \in Session : t # s => hub'[t] = hub[t]
    BY <2>1 DEF TypeOK
  <2>3. \A t \in expiring : t \in Session /\ t # s
    BY <2>1 DEF ExpiryInHand, TypeOK
  <2> QED
    BY <2>1, <2>2, <2>3 DEF ExpiryInHand
<1>4. ASSUME BeginMatch \/ SkipCandidate \/ TakeLeft \/ DeferCandidate \/ Pair \/ GiveUp
      PROVE  ExpiryInHand'
  <2>1. /\ lock # "expire" /\ lock' # "expire"
        /\ UNCHANGED <<expiring, hub>>
    BY <1>4 DEF BeginMatch, SkipCandidate, TakeLeft, DeferCandidate, Pair,
       GiveUp, method
  <2> QED
    BY <2>1 DEF ExpiryInHand
<1>5. ASSUME BeginExpiry PROVE ExpiryInHand'
  <2>1. /\ lock' = "expire" /\ hub' = hub
        /\ expiring' = {s \in Session : deadline[s] = "lapsed"} /\ expiring' # {}
    BY <1>5 DEF BeginExpiry
  <2>2. \A s \in Session : deadline[s] = "lapsed" => ~(hub[s] > 0)
    BY DEF PresenceExact
  <2>3. \A s \in Session : ~(hub[s] > 0) => hub[s] = 0
    BY DEF TypeOK
  <2> QED
    BY <2>1, <2>2, <2>3 DEF ExpiryInHand
<1>6. ASSUME NEW s \in Session, ExpireOne(s) PROVE ExpiryInHand'
  <2>1. /\ lock = "expire" /\ s \in expiring /\ expiring' = expiring \ {s}
        /\ lock' = IF expiring = {s} THEN "free" ELSE lock
        /\ hub' = [hub EXCEPT ![s] = 0]
    BY <1>6 DEF ExpireOne, RemoveSession
  <2>2. expiring' = {} <=> expiring = {s}
    BY <2>1
  <2>3. \A t \in expiring' : hub'[t] = 0
    BY <2>1 DEF ExpiryInHand, TypeOK
  <2> QED
    BY <2>1, <2>2, <2>3 DEF ExpiryInHand
<1>7. ASSUME Restart PROVE ExpiryInHand'
  BY <1>7 DEF Restart, ExpiryInHand
<1>8. ASSUME UNCHANGED vars PROVE ExpiryInHand'
  BY <1>8, <1>0 DEF vars
<1> QED
  BY <1>1, <1>2, <1>3, <1>4, <1>5, <1>6, <1>7, <1>8 DEF Next, TryMatch, Expire

LEMMA ClockStep == PairInv /\ ClockInv /\ [Next]_vars => ClockInv'
<1>1. PairInv => TypeOK
  BY DEF PairInv
<1>2. ClockInv <=> PresenceInv /\ ExpiryInHand
  BY DEF ClockInv, PresenceInv
<1>3. ClockInv' <=> PresenceInv' /\ ExpiryInHand'
  BY DEF ClockInv, PresenceInv
<1>4. PresenceInv => PresenceExact
  BY DEF PresenceInv
<1> QED
  BY <1>1, <1>2, <1>3, <1>4, PresenceStep, ExpiryStep

LEMMA ClockInvariant == Spec => [](PairInv /\ ClockInv)
<1>1. Init => PairInv /\ ClockInv
  BY PairInit, ClockInit
<1>2. PairInv /\ ClockInv /\ [Next]_vars => (PairInv /\ ClockInv)'
  BY PairStep, ClockStep
<1> QED
  BY <1>1, <1>2, PTL DEF Spec

(* The count of online sessions is never stale for longer than a handler   *)
(* that left waits for the lock.                                           *)
THEOREM Presence == Spec => []PresenceExact
<1>1. ClockInv => PresenceExact
  BY DEF ClockInv
<1> QED
  BY <1>1, ClockInvariant, PTL

(* A matched session without a socket always has a deadline, or a handler  *)
(* on its way to set one.                                                  *)
THEOREM Clocks == Spec => []AbandonedMatchHasClock
<1>1. ClockInv => AbandonedMatchHasClock
  BY DEF ClockInv
<1> QED
  BY <1>1, ClockInvariant, PTL

(* The loops go on towards their end: while a search holds the lock nobody *)
(* lengthens the list, and each of its turns takes one from it or is the   *)
(* last; while the expiry holds it nobody is added to those listed, and    *)
(* each of its turns removes one.                                          *)
LoopsGoOn ==
  /\ lock = "match" => lock' = "free" \/ queue' \in {queue, Tail(queue)}
  /\ lock = "match" /\ TryMatch =>
       lock' = "free" \/ (queue # << >> /\ queue' = Tail(queue))
  /\ lock = "expire" =>
       /\ expiring # {} /\ expiring' \subseteq expiring
       /\ lock' = "expire" \/ expiring' = {}
       /\ \A s \in Session : ExpireOne(s) => s \in expiring \ expiring'

(* The safety half of the lock's release: no loop turns in place.          *)
THEOREM LoopsEnd == Spec => [][LoopsGoOn]_vars
<1>1. ASSUME ExpiryInHand, Next PROVE LoopsGoOn
  <2>1. \A s \in Session : ExpireOne(s) =>
          /\ lock = "expire" /\ s \in expiring /\ expiring' = expiring \ {s}
          /\ lock' = IF expiring = {s} THEN "free" ELSE lock
    BY DEF ExpireOne
  <2>2. TryMatch =>
          \/ lock = "free" /\ lock' = "match" /\ UNCHANGED expiring
          \/ lock = "match" /\ UNCHANGED expiring /\ lock' = "free"
          \/ lock = "match" /\ UNCHANGED <<expiring, lock>>
               /\ queue # << >> /\ queue' = Tail(queue)
    BY DEF TryMatch, BeginMatch, SkipCandidate, TakeLeft, DeferCandidate, Pair,
       GiveUp, method
  <2>3. \/ TryMatch
        \/ lock = "free"
        \/ \E s \in Session : ExpireOne(s)
        \/ UNCHANGED <<lock, queue, expiring>>
        \/ Restart
    BY <1>1 DEF Next, Expire, CreateSession, Register, LoadOrCreate, EnterQueue,
       RecordMessage, Disconnect, MarkDisconnected, StillConnected, Revoke,
       DropSocket, Lapse, BeginExpiry, method
  <2>4. Restart => lock' = "free" /\ expiring' = {}
    BY DEF Restart
  <2>5. lock = "expire" => expiring # {}
    BY <1>1 DEF ExpiryInHand
  <2> QED
    BY <2>1, <2>2, <2>3, <2>4, <2>5 DEF LoopsGoOn
<1>2. PairInv /\ ClockInv /\ [Next]_vars => [LoopsGoOn]_vars
  BY <1>1 DEF ClockInv
<1> QED
  BY <1>2, ClockInvariant, PTL DEF Spec

--------------------------------------------------------------------------------
(* The waiting list. *)

(* What a queue of sessions holds are sessions.                            *)
LEMMA ElementsType ==
  ASSUME NEW q \in Seq(Session)
  PROVE  Elements(q) \subseteq Session
BY DEF Elements

(* The empty queue holds nobody.                                           *)
LEMMA EmptyParts == Elements(<< >>) = {} /\ NoDuplicates(<< >>)
BY DEF Elements, NoDuplicates

(* LPOP takes the first id out of the list, and only that.                 *)
LEMMA TailParts ==
  ASSUME NEW q \in Seq(Session), q # << >>
  PROVE  /\ Elements(q) = {Head(q)} \cup Elements(Tail(q))
         /\ NoDuplicates(q) => /\ Head(q) \notin Elements(Tail(q))
                               /\ NoDuplicates(Tail(q))
<1>1. /\ Len(q) \in Nat /\ Len(q) > 0 /\ DOMAIN q = 1 .. Len(q)
      /\ Head(q) = q[1]
      /\ Tail(q) \in Seq(Session) /\ DOMAIN Tail(q) = 1 .. Len(q) - 1
      /\ \A i \in 1 .. Len(q) - 1 : Tail(q)[i] = q[i + 1]
  BY HeadTailProperties, EmptySeq
<1>2. Elements(Tail(q)) = {q[i] : i \in 2 .. Len(q)}
  <2>1. ASSUME NEW i \in 2 .. Len(q) PROVE q[i] \in Elements(Tail(q))
    <3>1. i - 1 \in DOMAIN Tail(q) /\ Tail(q)[i - 1] = q[i]
      BY <1>1
    <3> QED
      BY <3>1 DEF Elements
  <2>2. ASSUME NEW i \in DOMAIN Tail(q)
        PROVE  Tail(q)[i] = q[i + 1] /\ i + 1 \in 2 .. Len(q)
    BY <1>1
  <2> QED
    BY <2>1, <2>2 DEF Elements
<1>3. Elements(q) = {Head(q)} \cup Elements(Tail(q))
  <2>1. Elements(q) = {q[i] : i \in 1 .. Len(q)}
    BY <1>1 DEF Elements
  <2>2. \A i \in 1 .. Len(q) : i = 1 \/ i \in 2 .. Len(q)
    BY <1>1
  <2>3. 1 \in 1 .. Len(q) /\ \A i \in 2 .. Len(q) : i \in 1 .. Len(q)
    BY <1>1
  <2> QED
    BY <1>1, <1>2, <2>1, <2>2, <2>3
<1>4. ASSUME NoDuplicates(q)
      PROVE  Head(q) \notin Elements(Tail(q)) /\ NoDuplicates(Tail(q))
  BY <1>1, <1>2, <1>4 DEF NoDuplicates
<1> QED
  BY <1>3, <1>4

(* Lists put together hold what each holds; without duplicates, if they    *)
(* have nobody in common.                                                  *)
LEMMA ConcatParts ==
  ASSUME NEW q \in Seq(Session), NEW r \in Seq(Session)
  PROVE  /\ Elements(q \o r) = Elements(q) \cup Elements(r)
         /\ (/\ NoDuplicates(q) /\ NoDuplicates(r)
             /\ Elements(q) \cap Elements(r) = {}) => NoDuplicates(q \o r)
<1>1. /\ Len(q) \in Nat /\ DOMAIN q = 1 .. Len(q)
      /\ Len(r) \in Nat /\ DOMAIN r = 1 .. Len(r)
      /\ DOMAIN (q \o r) = 1 .. Len(q) + Len(r)
      /\ \A i \in 1 .. Len(q) + Len(r) :
           (q \o r)[i] = IF i <= Len(q) THEN q[i] ELSE r[i - Len(q)]
  BY ConcatProperties, LenProperties
<1>2. Elements(q \o r) \subseteq Elements(q) \cup Elements(r)
  <2> SUFFICES ASSUME NEW i \in 1 .. Len(q) + Len(r)
               PROVE  (q \o r)[i] \in Elements(q) \cup Elements(r)
    BY <1>1 DEF Elements
  <2>1. CASE i <= Len(q)
    BY <2>1, <1>1 DEF Elements
  <2>2. CASE i > Len(q)
    <3>1. i - Len(q) \in DOMAIN r
      BY <2>2, <1>1
    <3> QED
      BY <2>2, <3>1, <1>1 DEF Elements
  <2> QED
    BY <2>1, <2>2, <1>1
<1>3. Elements(q) \subseteq Elements(q \o r)
  <2> SUFFICES ASSUME NEW i \in 1 .. Len(q) PROVE q[i] \in Elements(q \o r)
    BY <1>1 DEF Elements
  <2>1. i \in DOMAIN (q \o r) /\ (q \o r)[i] = q[i]
    BY <1>1
  <2> QED
    BY <2>1 DEF Elements
<1>4. Elements(r) \subseteq Elements(q \o r)
  <2> SUFFICES ASSUME NEW i \in 1 .. Len(r) PROVE r[i] \in Elements(q \o r)
    BY <1>1 DEF Elements
  <2>1. /\ i + Len(q) \in DOMAIN (q \o r)
        /\ (q \o r)[i + Len(q)] = r[i]
    BY <1>1
  <2> QED
    BY <2>1 DEF Elements
<1>5. ASSUME NoDuplicates(q), NoDuplicates(r), Elements(q) \cap Elements(r) = {},
             NEW i \in 1 .. Len(q) + Len(r), NEW j \in 1 .. Len(q) + Len(r),
             (q \o r)[i] = (q \o r)[j]
      PROVE  i = j
  <2>1. \A k, l \in 1 .. Len(q) : q[k] = q[l] => k = l
    BY <1>1, <1>5 DEF NoDuplicates
  <2>2. \A k, l \in 1 .. Len(r) : r[k] = r[l] => k = l
    BY <1>1, <1>5 DEF NoDuplicates
  <2>3. \A k \in 1 .. Len(q), l \in 1 .. Len(r) : q[k] # r[l]
    BY <1>1, <1>5 DEF Elements
  <2>4. CASE i <= Len(q) /\ j <= Len(q)
    BY <1>1, <1>5, <2>1, <2>4
  <2>5. CASE i > Len(q) /\ j > Len(q)
    <3>1. i - Len(q) \in 1 .. Len(r) /\ j - Len(q) \in 1 .. Len(r)
      BY <1>1, <2>5
    <3>2. r[i - Len(q)] = r[j - Len(q)]
      BY <1>1, <1>5, <2>5
    <3>3. i - Len(q) = j - Len(q)
      BY <3>1, <3>2, <2>2
    <3> QED
      BY <1>1, <3>3
  <2>6. CASE i <= Len(q) /\ j > Len(q)
    <3>1. j - Len(q) \in 1 .. Len(r) /\ i \in 1 .. Len(q)
      BY <1>1, <2>6
    <3>2. q[i] = r[j - Len(q)]
      BY <1>1, <1>5, <2>6
    <3> QED
      BY <3>1, <3>2, <2>3
  <2>7. CASE i > Len(q) /\ j <= Len(q)
    <3>1. i - Len(q) \in 1 .. Len(r) /\ j \in 1 .. Len(q)
      BY <1>1, <2>7
    <3>2. r[i - Len(q)] = q[j]
      BY <1>1, <1>5, <2>7
    <3> QED
      BY <3>1, <3>2, <2>3
  <2> QED
    BY <1>1, <2>4, <2>5, <2>6, <2>7
<1>6. (/\ NoDuplicates(q) /\ NoDuplicates(r)
       /\ Elements(q) \cap Elements(r) = {}) => NoDuplicates(q \o r)
  BY <1>1, <1>5 DEF NoDuplicates
<1> QED
  BY <1>2, <1>3, <1>4, <1>6

(* A list of one.                                                          *)
LEMMA SingletonParts ==
  ASSUME NEW s \in Session
  PROVE  /\ <<s>> \in Seq(Session) /\ Elements(<<s>>) = {s}
         /\ NoDuplicates(<<s>>)
BY DEF Elements, NoDuplicates

(* RPUSH adds one id.                                                      *)
LEMMA AppendParts ==
  ASSUME NEW q \in Seq(Session), NEW s \in Session
  PROVE  /\ Elements(Append(q, s)) = Elements(q) \cup {s}
         /\ NoDuplicates(q) /\ s \notin Elements(q)
              => NoDuplicates(Append(q, s))
<1>1. Append(q, s) = q \o <<s>>
  BY AppendIsConcat
<1>2. Elements(q) \cap {s} = {} <=> s \notin Elements(q)
  OBVIOUS
<1> QED
  BY <1>1, <1>2, ConcatParts, SingletonParts

(* Nobody waits at first.                                                  *)
LEMMA LineInit == Init => LineInv
BY EmptyParts, NoSessionAssumption
   DEF Init, LineInv, LineParts, DeferredShare, NoLostSearcher,
       OnlyActiveMatched, Waiting

(* Who waits where, without the reason some are put aside.                 *)
PlacesInv == LineParts /\ NoLostSearcher /\ OnlyActiveMatched

(* A removed session is off the list; everybody else keeps their place.    *)
LEMMA RemoveSessionPlaces ==
  ASSUME PairInv, PlacesInv, NEW s \in Session, RemoveSession(s), lock # "match",
         UNCHANGED <<left, deferred>>
  PROVE  PlacesInv'
<1> USE NoSessionAssumption DEF PlacesInv
<1>1. left = NoSession /\ Elements(deferred) = {}
  BY EmptyParts DEF PairInv, SearchInHand
<1>2. Elements(queue') = Elements(queue) \ {s} /\ NoDuplicates(queue')
  BY WithoutProperties DEF RemoveSession, PairInv, TypeOK, LineParts
<1>3. LineParts'
  BY <1>1, <1>2 DEF LineParts
<1>4. NoLostSearcher'
  <2>1. \A t \in Session : t # s => hub'[t] = hub[t]
    BY DEF RemoveSession
  <2>2. \A t \in Session : state'[t] = "searching" =>
          t # s /\ state[t] = "searching"
    BY RemoveSessionPairs
  <2> QED
    BY <1>1, <1>2, <2>1, <2>2 DEF NoLostSearcher, Waiting
<1>5. OnlyActiveMatched'
  <2>1. \A t \in Session : t # s => status'[t] = status[t]
    BY DEF RemoveSession, PairInv, TypeOK
  <2>2. \A t \in Session : partner'[t] # NoSession =>
          t # s /\ partner[t] # NoSession
    BY RemoveSessionPairs
  <2>3. \A t \in Session : t \in Waiting' => t # s /\ t \in Waiting
    BY <1>1, <1>2 DEF Waiting
  <2> QED
    BY <2>1, <2>2, <2>3 DEF OnlyActiveMatched
<1> QED
  BY <1>3, <1>4, <1>5

(* No turn of the search loses, repeats or invents a waiting id.           *)
LEMMA PlacesStep == PairInv /\ ClockInv /\ PlacesInv /\ [Next]_vars => PlacesInv'
<1> SUFFICES ASSUME PairInv, ClockInv, PlacesInv, [Next]_vars PROVE PlacesInv'
  OBVIOUS
<1> USE NoSessionAssumption DEF PlacesInv
<1> TypeOK
  BY DEF PairInv
<1>0. ASSUME UNCHANGED <<status, state, partner, hub, queue, left, deferred>>
      PROVE  PlacesInv'
  BY <1>0 DEF LineParts, NoLostSearcher, OnlyActiveMatched, Waiting
<1>1. ASSUME NEW s \in Session, CreateSession(s) PROVE PlacesInv'
  <2>1. \A t \in Session : status[t] = "active" => status'[t] = "active"
    BY <1>1 DEF CreateSession, TypeOK
  <2> QED
    BY <1>1, <2>1 DEF CreateSession, fields, method, LineParts, NoLostSearcher,
      OnlyActiveMatched, Waiting
<1>2. ASSUME NEW s \in Session, Register(s) PROVE PlacesInv'
  <2>1. \A t \in Session : t # s => state'[t] = state[t] /\ hub'[t] = hub[t]
    BY <1>2 DEF Register, TypeOK
  <2>2. state'[s] = IF ~Stored(s) \/ (hub[s] = 0 /\ partner[s] = NoSession)
                    THEN "idle" ELSE state[s]
    BY <1>2 DEF Register, TypeOK
  <2>3. state[s] = "searching" => partner[s] = NoSession
    BY DEF PairInv, PartnersMutual
  <2>4. state'[s] = "searching" => state[s] = "searching" /\ hub[s] > 0
    <3>1. hub[s] \in Nat
      BY DEF TypeOK
    <3> QED
      BY <2>2, <2>3, <3>1
  <2>5. UNCHANGED <<status, partner, queue, left, deferred>>
    BY <1>2 DEF Register, postgres, method
  <2> QED
    BY <2>1, <2>4, <2>5 DEF LineParts, NoLostSearcher, OnlyActiveMatched, Waiting
<1>3. ASSUME NEW s \in Session, LoadOrCreate(s) PROVE PlacesInv'
  <2>1. \A t \in Session : state'[t] = "searching" => state[t] = "searching"
    BY <1>3 DEF LoadOrCreate, TypeOK
  <2> QED
    BY <1>3, <2>1 DEF LoadOrCreate, postgres, method, LineParts, NoLostSearcher,
      OnlyActiveMatched, Waiting
<1>4. ASSUME NEW s \in Session, EnterQueue(s) PROVE PlacesInv'
  <2>1. left = NoSession /\ Elements(deferred) = {} /\ UNCHANGED <<left, deferred>>
    BY <1>4, EmptyParts DEF EnterQueue, PairInv, SearchInHand, method
  <2>2. Elements(queue') = Elements(queue) \cup {s} /\ NoDuplicates(queue')
    <3>1. /\ Without(queue, s) \in Seq(Session)
          /\ Elements(Without(queue, s)) = Elements(queue) \ {s}
          /\ NoDuplicates(Without(queue, s))
      BY WithoutProperties DEF TypeOK, LineParts
    <3> QED
      BY <1>4, <3>1, AppendParts DEF EnterQueue
  <2>3. Waiting' = Waiting \cup {s}
    BY <2>1, <2>2 DEF Waiting
  <2>4. \A t \in Session : t # s => state'[t] = state[t]
    BY <1>4 DEF EnterQueue
  <2>5. UNCHANGED <<status, partner, hub>> /\ status[s] = "active"
    BY <1>4 DEF EnterQueue, postgres
  <2>6. LineParts'
    BY <2>1, <2>2 DEF LineParts
  <2> QED
    BY <2>3, <2>4, <2>5, <2>6 DEF NoLostSearcher, OnlyActiveMatched
<1>5. ASSUME NEW s \in Session, NEW id \in MessageId \cup {NoId},
             RecordMessage(s, id)
      PROVE  PlacesInv'
  BY <1>5, <1>0 DEF RecordMessage, fields, method
<1>6. ASSUME NEW s \in Session, Disconnect(s) PROVE PlacesInv'
  <2>1. \A t \in Session :
          /\ state'[t] = "searching" => state[t] = "searching"
          /\ partner'[t] # NoSession => partner[t] # NoSession
    BY <1>6 DEF Disconnect
  <2> QED
    BY <1>6, <2>1 DEF Disconnect, method, LineParts, NoLostSearcher,
      OnlyActiveMatched, Waiting
<1>7. ASSUME NEW s \in Session, MarkDisconnected(s) PROVE PlacesInv'
  <2>1. left = NoSession /\ Elements(deferred) = {} /\ UNCHANGED <<left, deferred>>
    BY <1>7, EmptyParts DEF MarkDisconnected, PairInv, SearchInHand, method
  <2>2. Elements(queue') = Elements(queue) \ {s} /\ NoDuplicates(queue')
    BY <1>7, WithoutProperties DEF MarkDisconnected, TypeOK, LineParts
  <2>3. Waiting' = Waiting \ {s}
    BY <2>1, <2>2 DEF Waiting
  <2>4. UNCHANGED <<status, state, partner, hub>> /\ hub[s] = 0
    BY <1>7 DEF MarkDisconnected, postgres
  <2>5. LineParts'
    BY <2>1, <2>2 DEF LineParts
  <2> QED
    BY <2>3, <2>4, <2>5 DEF NoLostSearcher, OnlyActiveMatched
<1>8. ASSUME NEW s \in Session, StillConnected(s) PROVE PlacesInv'
  BY <1>8, <1>0 DEF StillConnected, postgres, fields, method
<1>9. ASSUME NEW s \in Session, Revoke(s) PROVE PlacesInv'
  BY <1>9, RemoveSessionPlaces DEF Revoke, method
<1>10. ASSUME NEW s \in Session, DropSocket(s) PROVE PlacesInv'
  <2>1. \A t \in Session : hub'[t] > 0 => hub[t] > 0
    BY <1>10 DEF DropSocket, TypeOK
  <2> QED
    BY <1>10, <2>1 DEF DropSocket, postgres, fields, method, LineParts,
      NoLostSearcher, OnlyActiveMatched, Waiting
<1>11. ASSUME NEW s \in Session, Lapse(s) PROVE PlacesInv'
  BY <1>11, <1>0 DEF Lapse, postgres, method
<1>12. ASSUME BeginMatch PROVE PlacesInv'
  BY <1>12, <1>0 DEF BeginMatch, postgres, fields
<1>13. ASSUME SkipCandidate PROVE PlacesInv'
  <2> DEFINE c == Head(queue)
  <2>1. /\ Elements(queue) = {c} \cup Elements(queue')
        /\ NoDuplicates(queue') /\ c \notin Elements(queue') /\ c \in Session
    BY <1>13, TailParts, QueueParts DEF SkipCandidate, TypeOK, LineParts
  <2>2. UNCHANGED <<status, state, partner, hub, left, deferred>>
    BY <1>13 DEF SkipCandidate, postgres, fields, method
  <2>3. c # left
    BY <2>1 DEF LineParts
  <2>4. ~Matchable(c)
    BY <1>13, <2>3 DEF SkipCandidate
  <2>5. ~(state[c] = "searching" /\ hub[c] > 0)
    BY <2>1, <2>4 DEF Matchable, PairInv, PartnersMutual, ClockInv, PresenceExact
  <2> HIDE DEF c
  <2>6. LineParts'
    BY <2>1, <2>2 DEF LineParts
  <2>7. \A t \in Session : t # c => (t \in Waiting <=> t \in Waiting')
    BY <2>1, <2>2 DEF Waiting
  <2>8. c \notin Waiting'
    BY <2>1, <2>2, <2>3 DEF Waiting, LineParts
  <2> QED
    BY <2>2, <2>5, <2>6, <2>7, <2>8 DEF NoLostSearcher, OnlyActiveMatched
<1>14. ASSUME TakeLeft PROVE PlacesInv'
  <2>1. /\ Elements(queue) = {left'} \cup Elements(queue')
        /\ NoDuplicates(queue') /\ left' \notin Elements(queue')
        /\ left' \in Session
    BY <1>14, TailParts, QueueParts DEF TakeLeft, TypeOK, LineParts
  <2>2. UNCHANGED <<status, state, partner, hub, deferred>> /\ left = NoSession
    BY <1>14 DEF TakeLeft, postgres, fields
  <2>3. Waiting' = Waiting
    BY <2>1, <2>2 DEF Waiting
  <2>4. LineParts'
    BY <2>1, <2>2 DEF LineParts
  <2> QED
    BY <2>2, <2>3, <2>4 DEF NoLostSearcher, OnlyActiveMatched
<1>15. ASSUME DeferCandidate PROVE PlacesInv'
  <2> DEFINE c == Head(queue)
  <2>1. /\ Elements(queue) = {c} \cup Elements(queue')
        /\ NoDuplicates(queue') /\ c \notin Elements(queue') /\ c \in Session
        /\ c # left
    BY <1>15, TailParts, QueueParts DEF DeferCandidate, TypeOK, LineParts
  <2>2. /\ Elements(deferred') = Elements(deferred) \cup {c}
        /\ NoDuplicates(deferred')
    BY <1>15, <2>1, AppendParts DEF DeferCandidate, TypeOK, LineParts
  <2>3. UNCHANGED <<status, state, partner, hub, left>>
    BY <1>15 DEF DeferCandidate, postgres, fields
  <2> HIDE DEF c
  <2>4. Waiting' = Waiting
    BY <2>1, <2>2, <2>3 DEF Waiting
  <2>5. LineParts'
    BY <2>1, <2>2, <2>3 DEF LineParts
  <2> QED
    BY <2>3, <2>4, <2>5 DEF NoLostSearcher, OnlyActiveMatched
<1>16. ASSUME Pair PROVE PlacesInv'
  <2> DEFINE right == Head(queue)
             rest == Tail(queue)
  <2>1. /\ Elements(queue) = {right} \cup Elements(rest) /\ rest \in Seq(Session)
        /\ NoDuplicates(rest) /\ right \notin Elements(rest)
        /\ right \in Session /\ left \in Session /\ left # right
    BY <1>16, TailParts, QueueParts DEF Pair, TypeOK, LineParts
  <2> HIDE DEF right, rest
  <2>2. queue' = deferred \o rest /\ left' = NoSession /\ deferred' = << >>
    BY <1>16 DEF Pair, rest
  <2>3. Elements(deferred) \cap Elements(rest) = {}
    BY <2>1 DEF LineParts
  <2>4. /\ Elements(queue') = Elements(deferred) \cup Elements(rest)
        /\ NoDuplicates(queue')
    BY <2>1, <2>2, <2>3, ConcatParts DEF TypeOK, LineParts
  <2>5. LineParts'
    <3>1. NoSession \notin Elements(queue')
      BY <2>1, <2>4, ElementsType DEF TypeOK
    <3> QED
      BY <2>2, <2>4, <3>1, EmptyParts DEF LineParts
  <2>6. Waiting = Waiting' \cup {left, right} /\ {left, right} \subseteq Waiting
    BY <2>1, <2>2, <2>4, EmptyParts DEF Waiting
  <2>7. \A t \in Session :
          /\ state'[t] = IF t \in {left, right} THEN "connected" ELSE state[t]
          /\ t \notin {left, right} => partner'[t] = partner[t]
    BY <1>16, <2>1 DEF Pair, TypeOK, right
  <2>8. UNCHANGED <<status, hub>>
    BY <1>16 DEF Pair
  <2>9. NoLostSearcher'
    BY <2>6, <2>7, <2>8 DEF NoLostSearcher
  <2>10. OnlyActiveMatched'
    BY <2>6, <2>7, <2>8 DEF OnlyActiveMatched
  <2> QED
    BY <2>5, <2>9, <2>10
<1>17. ASSUME GiveUp PROVE PlacesInv'
  <2> DEFINE front == IF left = NoSession THEN << >> ELSE <<left>>
  <2>1. /\ front \in Seq(Session) /\ NoDuplicates(front)
        /\ Elements(front) = {left} \ {NoSession}
    BY SingletonParts, EmptyParts DEF TypeOK
  <2>2. queue = << >> /\ queue' = front \o deferred
    BY <1>17 DEF GiveUp
  <2> HIDE DEF front
  <2>3. /\ left' = NoSession /\ deferred' = << >>
        /\ UNCHANGED <<status, state, partner, hub>>
    BY <1>17 DEF GiveUp, postgres, fields
  <2>4. Elements(front) \cap Elements(deferred) = {}
    BY <2>1 DEF LineParts
  <2>5. /\ Elements(queue') = Elements(front) \cup Elements(deferred)
        /\ NoDuplicates(queue')
    BY <2>1, <2>2, <2>4, ConcatParts DEF TypeOK, LineParts
  <2>6. Waiting' = Waiting
    BY <2>1, <2>2, <2>3, <2>5, EmptyParts DEF Waiting
  <2>7. NoSession \notin Elements(queue')
    BY <2>1, <2>5, ElementsType DEF TypeOK
  <2>8. LineParts'
    BY <2>3, <2>5, <2>7, EmptyParts DEF LineParts
  <2> QED
    BY <2>3, <2>6, <2>8 DEF NoLostSearcher, OnlyActiveMatched
<1>18. ASSUME BeginExpiry PROVE PlacesInv'
  BY <1>18, <1>0 DEF BeginExpiry, postgres, fields
<1>19. ASSUME NEW s \in Session, ExpireOne(s) PROVE PlacesInv'
  BY <1>19, RemoveSessionPlaces DEF ExpireOne
<1>20. ASSUME Restart PROVE PlacesInv'
  <2>1. Waiting' = {}
    BY <1>20, EmptyParts DEF Restart, Waiting
  <2> QED
    BY <1>20, <2>1, EmptyParts DEF Restart, LineParts, NoLostSearcher,
      OnlyActiveMatched, postgres
<1>21. ASSUME UNCHANGED vars PROVE PlacesInv'
  BY <1>21, <1>0 DEF vars
<1> QED
  BY <1>1, <1>2, <1>3, <1>4, <1>5, <1>6, <1>7, <1>8, <1>9, <1>10, <1>11, <1>12,
     <1>13, <1>14, <1>15, <1>16, <1>17, <1>18, <1>19, <1>20, <1>21
     DEF Next, TryMatch, Expire

(* Who is put aside is of left_id's account; the list of those who are is  *)
(* empty when the search is over, or has no left_id yet.                   *)
LEMMA DeferredStep ==
  PairInv /\ DeferredShare /\ [Next]_vars => DeferredShare'
<1> SUFFICES ASSUME PairInv, DeferredShare, [Next]_vars PROVE DeferredShare'
  OBVIOUS
<1> TypeOK
  BY DEF PairInv
<1>0. ASSUME UNCHANGED <<left, deferred>> PROVE DeferredShare'
  BY <1>0 DEF DeferredShare
<1>1. ASSUME deferred' = << >> PROVE DeferredShare'
  BY <1>1, EmptyParts DEF DeferredShare
<1>2. ASSUME NEW s \in Session,
             \/ CreateSession(s) \/ Register(s) \/ LoadOrCreate(s)
             \/ EnterQueue(s) \/ Disconnect(s) \/ MarkDisconnected(s)
             \/ StillConnected(s) \/ Revoke(s) \/ DropSocket(s) \/ Lapse(s)
             \/ ExpireOne(s)
             \/ \E id \in MessageId \cup {NoId} : RecordMessage(s, id)
      PROVE  DeferredShare'
  BY <1>2, <1>0 DEF CreateSession, Register, LoadOrCreate, EnterQueue,
     Disconnect, MarkDisconnected, StillConnected, Revoke, DropSocket, Lapse,
     ExpireOne, RecordMessage, method
<1>3. ASSUME BeginMatch \/ BeginExpiry \/ SkipCandidate PROVE DeferredShare'
  BY <1>3, <1>0 DEF BeginMatch, BeginExpiry, SkipCandidate, method
<1>4. ASSUME TakeLeft PROVE DeferredShare'
  <2>1. deferred' = << >>
    BY <1>4 DEF TakeLeft, PairInv, SearchInHand
  <2> QED
    BY <2>1, <1>1
<1>5. ASSUME DeferCandidate PROVE DeferredShare'
  <2> DEFINE c == Head(queue)
  <2>1. c \in Session /\ SameAccount(left, c)
    BY <1>5, QueueParts DEF DeferCandidate
  <2>2. deferred' = Append(deferred, c) /\ left' = left
    BY <1>5 DEF DeferCandidate
  <2> HIDE DEF c
  <2>3. Elements(deferred') = Elements(deferred) \cup {c}
    BY <2>1, <2>2, AppendParts DEF TypeOK
  <2> QED
    BY <2>1, <2>2, <2>3 DEF DeferredShare, SameAccount
<1>6. ASSUME Pair \/ GiveUp \/ Restart PROVE DeferredShare'
  BY <1>6, <1>1 DEF Pair, GiveUp, Restart
<1>7. ASSUME UNCHANGED vars PROVE DeferredShare'
  BY <1>7, <1>0 DEF vars
<1> QED
  BY <1>2, <1>3, <1>4, <1>5, <1>6, <1>7 DEF Next, TryMatch, Expire

LEMMA LineStep == PairInv /\ ClockInv /\ LineInv /\ [Next]_vars => LineInv'
<1>1. LineInv <=> PlacesInv /\ DeferredShare
  BY DEF LineInv, PlacesInv
<1>2. LineInv' <=> PlacesInv' /\ DeferredShare'
  BY DEF LineInv, PlacesInv
<1> QED
  BY <1>1, <1>2, PlacesStep, DeferredStep

(* The parts of the line, put together, still hold everybody once.         *)
LEMMA PartsMakeLine == TypeOK /\ LineParts => WaitsOnce
<1> SUFFICES ASSUME TypeOK, LineParts PROVE WaitsOnce
  OBVIOUS
<1> DEFINE front == IF left = NoSession THEN << >> ELSE <<left>>
<1>1. /\ front \in Seq(Session) /\ NoDuplicates(front)
      /\ Elements(front) = {left} \ {NoSession}
  BY SingletonParts, EmptyParts DEF TypeOK
<1> Line = (front \o deferred) \o queue
  BY DEF Line
<1> HIDE DEF front
<1>2. deferred \in Seq(Session) /\ queue \in Seq(Session)
  BY DEF TypeOK
<1>3. /\ front \o deferred \in Seq(Session)
      /\ Elements(front \o deferred) = Elements(front) \cup Elements(deferred)
      /\ NoDuplicates(front \o deferred)
  <2>1. Elements(front) \cap Elements(deferred) = {}
    BY <1>1 DEF LineParts
  <2>2. front \o deferred \in Seq(Session)
    BY <1>1, <1>2, ConcatProperties
  <2> QED
    BY <1>1, <1>2, <2>1, <2>2, ConcatParts DEF LineParts
<1>4. Elements(front \o deferred) \cap Elements(queue) = {}
  BY <1>1, <1>3 DEF LineParts
<1> QED
  BY <1>2, <1>3, <1>4, ConcatParts DEF LineParts, WaitsOnce

LEMMA LineInvariant == Spec => [](PairInv /\ ClockInv /\ LineInv)
<1>1. Init => PairInv /\ ClockInv /\ LineInv
  BY PairInit, ClockInit, LineInit
<1>2. PairInv /\ ClockInv /\ LineInv /\ [Next]_vars
        => (PairInv /\ ClockInv /\ LineInv)'
  BY PairStep, ClockStep, LineStep
<1> QED
  BY <1>1, <1>2, PTL DEF Spec

(* Nobody who is connected and SEARCHING is forgotten by the search,       *)
(* however many sessions, accounts and interleavings there are ...         *)
THEOREM NobodyForgotten == Spec => []NoLostSearcher
<1>1. LineInv => NoLostSearcher
  BY DEF LineInv
<1> QED
  BY <1>1, LineInvariant, PTL

(* ... nobody waits twice, in the list or in the hands of a search ...     *)
THEOREM WaitingOnce == Spec => []WaitsOnce
<1>1. PairInv /\ LineInv => WaitsOnce
  BY PartsMakeLine DEF PairInv, LineInv
<1> QED
  BY <1>1, LineInvariant, PTL

(* ... a search finds a match if there is one to be found ...              *)
THEOREM SearchesAll == Spec => []NobodyOverlooked
<1>1. PairInv /\ LineInv => NobodyOverlooked
  <2> SUFFICES ASSUME PairInv, LineInv, NEW s \in Session, Matchable(s)
               PROVE  \/ s \in Elements(queue)
                      \/ left # NoSession /\ SameAccount(left, s)
    BY DEF NobodyOverlooked
  <2>1. s \in Waiting
    BY DEF LineInv, NoLostSearcher, Matchable
  <2>2. CASE s \in Elements(deferred)
    <3>1. left # NoSession
      BY <2>2, EmptyParts DEF PairInv, SearchInHand
    <3> QED
      BY <2>2, <3>1 DEF LineInv, DeferredShare
  <2>3. CASE s \notin Elements(deferred)
    BY <2>1, <2>3 DEF Waiting, SameAccount
  <2> QED
    BY <2>2, <2>3
<1> QED
  BY <1>1, LineInvariant, PTL

(* ... and only sessions with an active row wait or are matched: a session *)
(* that was revoked or has expired is out of every list and match.         *)
THEOREM ActiveOnly == Spec => []OnlyActiveMatched
<1>1. LineInv => OnlyActiveMatched
  BY DEF LineInv
<1> QED
  BY <1>1, LineInvariant, PTL

--------------------------------------------------------------------------------
(* The order of the waiting list. *)

(* Who stands before somebody is on the list, and so is the other.         *)
LEMMA BeforeElements ==
  ASSUME NEW q \in Seq(Session), NEW a, NEW b, Before(a, b, q)
  PROVE  a \in Elements(q) /\ b \in Elements(q)
BY DEF Before, Elements

(* A list of at most one has no order.                                     *)
LEMMA BeforeShort ==
  ASSUME NEW a, NEW b
  PROVE  ~Before(a, b, << >>) /\ \A s \in Session : ~Before(a, b, <<s>>)
<1>1. DOMAIN << >> = {}
  OBVIOUS
<1>2. \A s \in Session : DOMAIN <<s>> = {1}
  OBVIOUS
<1> QED
  BY <1>1, <1>2 DEF Before

(* Without duplicates nobody stands before itself.                         *)
LEMMA BeforeOther ==
  ASSUME NEW q \in Seq(Session), NEW a, NEW b, NoDuplicates(q), Before(a, b, q)
  PROVE  a # b
BY DEF Before, NoDuplicates

(* In two lists put together, whoever is in the first comes before whoever *)
(* is in the second.                                                       *)
LEMMA BeforeConcat ==
  ASSUME NEW q \in Seq(Session), NEW r \in Seq(Session), NEW a, NEW b
  PROVE  Before(a, b, q \o r) <=> \/ Before(a, b, q) \/ Before(a, b, r)
                                  \/ a \in Elements(q) /\ b \in Elements(r)
<1>1. /\ Len(q) \in Nat /\ DOMAIN q = 1 .. Len(q)
      /\ Len(r) \in Nat /\ DOMAIN r = 1 .. Len(r)
      /\ DOMAIN (q \o r) = 1 .. Len(q) + Len(r)
      /\ \A i \in 1 .. Len(q) + Len(r) :
           (q \o r)[i] = IF i <= Len(q) THEN q[i] ELSE r[i - Len(q)]
  BY ConcatProperties, LenProperties
<1>2. ASSUME NEW i \in 1 .. Len(q) + Len(r), NEW j \in 1 .. Len(q) + Len(r),
             i < j, (q \o r)[i] = a, (q \o r)[j] = b
      PROVE  \/ Before(a, b, q) \/ Before(a, b, r)
             \/ a \in Elements(q) /\ b \in Elements(r)
  <2>1. CASE j <= Len(q)
    <3>1. i \in DOMAIN q /\ j \in DOMAIN q /\ q[i] = a /\ q[j] = b
      BY <1>1, <1>2, <2>1
    <3> QED
      BY <3>1, <1>2 DEF Before
  <2>2. CASE i > Len(q)
    <3>1. /\ i - Len(q) \in DOMAIN r /\ j - Len(q) \in DOMAIN r
          /\ i - Len(q) < j - Len(q)
          /\ r[i - Len(q)] = a /\ r[j - Len(q)] = b
      BY <1>1, <1>2, <2>2
    <3> QED
      BY <3>1 DEF Before
  <2>3. CASE i <= Len(q) /\ j > Len(q)
    <3>1. /\ i \in DOMAIN q /\ q[i] = a
          /\ j - Len(q) \in DOMAIN r /\ r[j - Len(q)] = b
      BY <1>1, <1>2, <2>3
    <3> QED
      BY <3>1 DEF Elements
  <2> QED
    BY <1>1, <1>2, <2>1, <2>2, <2>3
<1>3. ASSUME Before(a, b, q) PROVE Before(a, b, q \o r)
  <2>1. PICK i \in 1 .. Len(q), j \in 1 .. Len(q) : i < j /\ q[i] = a /\ q[j] = b
    BY <1>1, <1>3 DEF Before
  <2>2. /\ i \in DOMAIN (q \o r) /\ j \in DOMAIN (q \o r)
        /\ (q \o r)[i] = a /\ (q \o r)[j] = b
    BY <1>1, <2>1
  <2> QED
    BY <2>1, <2>2 DEF Before
<1>4. ASSUME Before(a, b, r) PROVE Before(a, b, q \o r)
  <2>1. PICK i \in 1 .. Len(r), j \in 1 .. Len(r) : i < j /\ r[i] = a /\ r[j] = b
    BY <1>1, <1>4 DEF Before
  <2>2. /\ i + Len(q) \in DOMAIN (q \o r) /\ j + Len(q) \in DOMAIN (q \o r)
        /\ i + Len(q) < j + Len(q)
        /\ (q \o r)[i + Len(q)] = a /\ (q \o r)[j + Len(q)] = b
    BY <1>1, <2>1
  <2> QED
    BY <2>2 DEF Before
<1>5. ASSUME a \in Elements(q), b \in Elements(r) PROVE Before(a, b, q \o r)
  <2>1. PICK i \in 1 .. Len(q), j \in 1 .. Len(r) : q[i] = a /\ r[j] = b
    BY <1>1, <1>5 DEF Elements
  <2>2. /\ i \in DOMAIN (q \o r) /\ j + Len(q) \in DOMAIN (q \o r)
        /\ i < j + Len(q)
        /\ (q \o r)[i] = a /\ (q \o r)[j + Len(q)] = b
    BY <1>1, <2>1
  <2> QED
    BY <2>2 DEF Before
<1>6. Before(a, b, q \o r) => \/ Before(a, b, q) \/ Before(a, b, r)
                              \/ a \in Elements(q) /\ b \in Elements(r)
  BY <1>1, <1>2 DEF Before
<1> QED
  BY <1>3, <1>4, <1>5, <1>6

(* A list is its first and the rest.                                       *)
LEMMA HeadFirst ==
  ASSUME NEW q \in Seq(Session), q # << >>
  PROVE  /\ Head(q) \in Session /\ Tail(q) \in Seq(Session)
         /\ q = <<Head(q)>> \o Tail(q)
<1>1. /\ Head(q) \in Session /\ Tail(q) \in Seq(Session)
      /\ Len(q) \in Nat /\ Len(q) > 0 /\ DOMAIN q = 1 .. Len(q)
      /\ Head(q) = q[1] /\ Len(Tail(q)) = Len(q) - 1
      /\ \A i \in 1 .. Len(q) - 1 : Tail(q)[i] = q[i + 1]
  BY HeadTailProperties, EmptySeq
<1> DEFINE h == <<Head(q)>>
           t == Tail(q)
<1>2. h \in Seq(Session) /\ Len(h) = 1 /\ h[1] = Head(q)
  BY <1>1
<1>3. t \in Seq(Session) /\ Len(t) = Len(q) - 1
  BY <1>1
<1> HIDE DEF h, t
<1>4. /\ h \o t \in Seq(Session) /\ Len(h \o t) = Len(q)
      /\ \A i \in 1 .. Len(q) :
           (h \o t)[i] = IF i <= 1 THEN h[i] ELSE t[i - 1]
  <2>1. /\ h \o t \in Seq(Session) /\ Len(h \o t) = Len(h) + Len(t)
        /\ \A i \in 1 .. Len(h) + Len(t) :
             (h \o t)[i] = IF i <= Len(h) THEN h[i] ELSE t[i - Len(h)]
    BY <1>2, <1>3, ConcatProperties
  <2>2. Len(h) + Len(t) = Len(q)
    BY <1>1, <1>2, <1>3
  <2> QED
    BY <2>1, <2>2, <1>2
<1>5. \A i \in 1 .. Len(q) : (h \o t)[i] = q[i]
  <2> TAKE i \in 1 .. Len(q)
  <2>1. CASE i = 1
    BY <2>1, <1>1, <1>2, <1>4
  <2>2. CASE i # 1
    <3>1. i - 1 \in 1 .. Len(q) - 1 /\ (i - 1) + 1 = i
      BY <2>2, <1>1
    <3>2. t[i - 1] = q[i]
      BY <3>1, <1>1 DEF t
    <3> QED
      BY <3>1, <3>2, <2>2, <1>1, <1>4
  <2> QED
    BY <2>1, <2>2
<1>6. h \o t = q
  BY <1>1, <1>4, <1>5, SeqEqual
<1> QED
  BY <1>1, <1>6 DEF h, t

(* LREM leaves those who stay in their order.                              *)
LEMMA BeforeWithout ==
  ASSUME NEW q \in Seq(Session), NEW s \in Session, NEW a, NEW b,
         Before(a, b, q), a # s, b # s
  PROVE  Before(a, b, Without(q, s))
<1>1. CASE s \notin Elements(q)
  BY <1>1 DEF Without
<1>2. CASE s \in Elements(q)
  <2> DEFINE k == CHOOSE i \in DOMAIN q : q[i] = s
             r == [i \in 1 .. Len(q) - 1 |-> IF i < k THEN q[i] ELSE q[i + 1]]
  <2>1. k \in 1 .. Len(q) /\ q[k] = s
    BY <1>2 DEF Elements
  <2>2. Without(q, s) = r
    BY <1>2 DEF Without
  <2> HIDE DEF k
  <2>3. DOMAIN r = 1 .. Len(q) - 1
        /\ \A i \in 1 .. Len(q) - 1 : r[i] = IF i < k THEN q[i] ELSE q[i + 1]
    OBVIOUS
  <2> HIDE DEF r
  <2>4. PICK i \in 1 .. Len(q), j \in 1 .. Len(q) : i < j /\ q[i] = a /\ q[j] = b
    BY DEF Before
  <2> DEFINE shift(n) == IF n < k THEN n ELSE n - 1
  <2>5. i # k /\ j # k /\ Len(q) \in Nat
    BY <2>1, <2>4
  <2>6. /\ shift(i) \in DOMAIN r /\ r[shift(i)] = a
        /\ shift(j) \in DOMAIN r /\ r[shift(j)] = b
    BY <2>1, <2>3, <2>4, <2>5
  <2>7. shift(i) < shift(j)
    BY <2>1, <2>4, <2>5
  <2> QED
    BY <2>2, <2>6, <2>7 DEF Before
<1> QED
  BY <1>1, <1>2

(* Who comes before whom on the list: left_id before everybody, then the   *)
(* deferred, then the queue.                                               *)
LineOrdered ==
  \A a, b : Before(a, b, Line) <=>
    \/ Before(a, b, deferred) \/ Before(a, b, queue)
    \/ a \in Elements(deferred) /\ b \in Elements(queue)
    \/ /\ a = left /\ left # NoSession
       /\ b \in Elements(deferred) \cup Elements(queue)

LEMMA LineOrder == TypeOK => LineOrdered
<1> SUFFICES ASSUME TypeOK, NEW a, NEW b
             PROVE  Before(a, b, Line) <=>
                      \/ Before(a, b, deferred) \/ Before(a, b, queue)
                      \/ a \in Elements(deferred) /\ b \in Elements(queue)
                      \/ /\ a = left /\ left # NoSession
                         /\ b \in Elements(deferred) \cup Elements(queue)
  BY DEF LineOrdered
<1> DEFINE front == IF left = NoSession THEN << >> ELSE <<left>>
<1>1. front \in Seq(Session) /\ deferred \in Seq(Session) /\ queue \in Seq(Session)
  BY SingletonParts DEF TypeOK
<1>2. ~Before(a, b, front)
  BY BeforeShort DEF TypeOK
<1>3. a \in Elements(front) <=> a = left /\ left # NoSession
  BY SingletonParts, EmptyParts DEF TypeOK
<1>4. Line = (front \o deferred) \o queue
  BY DEF Line
<1> HIDE DEF front
<1>5. front \o deferred \in Seq(Session)
  BY <1>1, ConcatProperties
<1>6. Elements(front \o deferred) = Elements(front) \cup Elements(deferred)
  BY <1>1, ConcatParts
<1>7. Before(a, b, front \o deferred) <=>
        \/ Before(a, b, front) \/ Before(a, b, deferred)
        \/ a \in Elements(front) /\ b \in Elements(deferred)
  BY <1>1, BeforeConcat
<1>8. Before(a, b, (front \o deferred) \o queue) <=>
        \/ Before(a, b, front \o deferred) \/ Before(a, b, queue)
        \/ a \in Elements(front \o deferred) /\ b \in Elements(queue)
  BY <1>1, <1>5, BeforeConcat
<1> QED
  BY <1>2, <1>3, <1>4, <1>6, <1>7, <1>8

LEMMA LineOrderNext == TypeOK' => LineOrdered'
BY LineOrder, PTL

(* Steps that leave the list alone.                                        *)
LEMMA OrderIdle ==
  ASSUME UNCHANGED <<queue, left, deferred>>
  PROVE  OrderKept
BY DEF OrderKept, Line

(* Who is taken out of the queue between two searches takes nobody's turn. *)
LEMMA OrderWithout ==
  ASSUME PairInv, TypeOK', LineInv, NEW s \in Session, queue' = Without(queue, s),
         lock # "match", UNCHANGED <<left, deferred>>
  PROVE  OrderKept
<1> TypeOK
  BY DEF PairInv
<1>1. left = NoSession /\ deferred = << >> /\ Elements(deferred) = {}
  BY EmptyParts DEF PairInv, SearchInHand
<1>2. queue \in Seq(Session) /\ NoDuplicates(queue)
  BY DEF TypeOK, LineInv, LineParts
<1>3. s \notin Elements(queue')
  BY <1>2, WithoutProperties
<1> SUFFICES ASSUME NEW a, NEW b, Before(a, b, Line), a \in Waiting', b \in Waiting'
             PROVE  Before(a, b, Line')
  BY DEF OrderKept
<1>4. Before(a, b, queue)
  BY <1>1, LineOrder, BeforeShort DEF LineOrdered
<1>5. a \in Elements(queue') /\ b \in Elements(queue')
  BY <1>1 DEF Waiting
<1>6. Before(a, b, queue')
  BY <1>2, <1>3, <1>4, <1>5, BeforeWithout
<1> QED
  BY <1>6, LineOrderNext DEF LineOrdered

(* No step lets anybody overtake.                                          *)
LEMMA OrderStep ==
  PairInv /\ LineInv /\ TypeOK' /\ [Next]_vars => OrderKept \/ UNCHANGED vars
<1> SUFFICES ASSUME PairInv, LineInv, TypeOK', [Next]_vars, ~UNCHANGED vars
             PROVE  OrderKept
  OBVIOUS
<1> USE NoSessionAssumption
<1> TypeOK
  BY DEF PairInv
<1>0. LineOrdered /\ LineOrdered'
  BY LineOrder, LineOrderNext
<1>1. ASSUME NEW s \in Session,
             \/ CreateSession(s) \/ Register(s) \/ LoadOrCreate(s)
             \/ \E id \in MessageId \cup {NoId} : RecordMessage(s, id)
             \/ Disconnect(s) \/ StillConnected(s) \/ DropSocket(s) \/ Lapse(s)
      PROVE  OrderKept
  BY <1>1, OrderIdle
     DEF CreateSession, Register, LoadOrCreate, RecordMessage, Disconnect,
         StillConnected, DropSocket, Lapse, method
<1>2. ASSUME NEW s \in Session, EnterQueue(s) PROVE OrderKept
  <2>1. left = NoSession /\ deferred = << >> /\ Elements(deferred) = {}
        /\ UNCHANGED <<left, deferred>> /\ lock = "free"
    BY <1>2, EmptyParts DEF EnterQueue, PairInv, SearchInHand, method
  <2> DEFINE rest == Without(queue, s)
  <2>2. /\ rest \in Seq(Session) /\ Elements(rest) = Elements(queue) \ {s}
        /\ queue \in Seq(Session) /\ NoDuplicates(queue)
    BY WithoutProperties DEF TypeOK, LineInv, LineParts
  <2>3. queue' = Append(rest, s)
    BY <1>2 DEF EnterQueue
  <2> SUFFICES ASSUME NEW a, NEW b, Before(a, b, Line)
               PROVE  Before(a, b, Line') \/ Line'[Len(Line')] = a
    BY <2>1 DEF OrderKept
  <2>4. Before(a, b, queue)
    BY <1>0, <2>1, BeforeShort DEF LineOrdered
  <2>5. a # b /\ a \in Elements(queue) /\ b \in Elements(queue)
    BY <2>2, <2>4, BeforeOther, BeforeElements
  <2>6. a # s /\ b # s => Before(a, b, rest)
    BY <2>2, <2>4, BeforeWithout
  <2> HIDE DEF rest
  <2>7. queue' = rest \o <<s>>
    BY <2>2, <2>3, AppendIsConcat
  <2>8. Before(a, b, queue') <=> \/ Before(a, b, rest) \/ Before(a, b, <<s>>)
                                 \/ a \in Elements(rest) /\ b \in Elements(<<s>>)
    BY <2>2, <2>7, BeforeConcat, SingletonParts
  <2>9. CASE a # s
    <3>1. Before(a, b, queue')
      BY <2>2, <2>5, <2>6, <2>8, <2>9, SingletonParts
    <3> QED
      BY <3>1, <1>0 DEF LineOrdered
  <2>10. CASE a = s
    <3>1. Line' = queue'
      <4>1. Line' = (<< >> \o << >>) \o queue'
        BY <2>1 DEF Line
      <4> QED
        BY <4>1, ConcatEmptySeq, EmptySeq DEF TypeOK
    <3>2. queue'[Len(queue')] = s
      BY <2>2, <2>3, AppendProperties
    <3> QED
      BY <3>1, <3>2, <2>10
  <2> QED
    BY <2>9, <2>10
<1>3. ASSUME NEW s \in Session, MarkDisconnected(s) PROVE OrderKept
  BY <1>3, OrderWithout DEF MarkDisconnected, method
<1>4. ASSUME NEW s \in Session, Revoke(s) \/ ExpireOne(s) PROVE OrderKept
  BY <1>4, OrderWithout DEF Revoke, ExpireOne, RemoveSession, method
<1>5. ASSUME BeginMatch \/ BeginExpiry PROVE OrderKept
  BY <1>5, OrderIdle DEF BeginMatch, BeginExpiry
<1>6. ASSUME queue # << >>
      PROVE  /\ Head(queue) \in Session /\ Tail(queue) \in Seq(Session)
             /\ Elements(queue) = {Head(queue)} \cup Elements(Tail(queue))
             /\ Head(queue) \notin Elements(Tail(queue))
             /\ Head(queue) # left /\ Head(queue) \notin Elements(deferred)
             /\ \A a, b : Before(a, b, queue) <=>
                  \/ Before(a, b, Tail(queue))
                  \/ a = Head(queue) /\ b \in Elements(Tail(queue))
  <2>1. queue \in Seq(Session) /\ NoDuplicates(queue)
    BY DEF TypeOK, LineInv, LineParts
  <2>2. /\ Head(queue) \in Session /\ Tail(queue) \in Seq(Session)
        /\ queue = <<Head(queue)>> \o Tail(queue)
    BY <1>6, <2>1, HeadFirst
  <2>3. /\ Elements(queue) = {Head(queue)} \cup Elements(Tail(queue))
        /\ Head(queue) \notin Elements(Tail(queue))
    BY <1>6, <2>1, TailParts
  <2>4. Head(queue) # left /\ Head(queue) \notin Elements(deferred)
    BY <2>3 DEF LineInv, LineParts
  <2>5. \A a, b : Before(a, b, queue) <=>
          \/ Before(a, b, Tail(queue))
          \/ a = Head(queue) /\ b \in Elements(Tail(queue))
    <3> DEFINE h == Head(queue)
               t == Tail(queue)
    <3>1. h \in Session /\ t \in Seq(Session) /\ <<h>> \in Seq(Session)
          /\ Elements(<<h>>) = {h} /\ \A a, b : ~Before(a, b, <<h>>)
      BY <2>2, SingletonParts, BeforeShort
    <3> HIDE DEF h, t
    <3>2. \A a, b : Before(a, b, <<h>> \o t) <=>
            \/ Before(a, b, <<h>>) \/ Before(a, b, t)
            \/ a \in Elements(<<h>>) /\ b \in Elements(t)
      BY <3>1, BeforeConcat
    <3>3. \A a, b : Before(a, b, <<h>> \o t) <=>
            Before(a, b, t) \/ (a = h /\ b \in Elements(t))
      BY <3>1, <3>2
    <3>4. queue = <<h>> \o t
      BY <2>2 DEF h, t
    <3>5. \A a, b : Before(a, b, queue) <=>
            Before(a, b, t) \/ (a = h /\ b \in Elements(t))
      BY <3>3, <3>4
    <3> QED
      BY <3>5 DEF h, t
  <2> QED
    BY <2>2, <2>3, <2>4, <2>5
<1>7. ASSUME SkipCandidate PROVE OrderKept
  <2>1. queue # << >> /\ queue' = Tail(queue) /\ UNCHANGED <<left, deferred>>
    BY <1>7 DEF SkipCandidate, method
  <2> DEFINE c == Head(queue)
  <2>2. c \notin Waiting'
    BY <1>6, <2>1 DEF Waiting
  <2>3. /\ Elements(queue) = {c} \cup Elements(queue')
        /\ \A a, b : Before(a, b, queue) <=>
             Before(a, b, queue') \/ (a = c /\ b \in Elements(queue'))
    BY <1>6, <2>1
  <2> HIDE DEF c
  <2> QED
    BY <1>0, <2>1, <2>2, <2>3 DEF LineOrdered, OrderKept
<1>8. ASSUME TakeLeft PROVE OrderKept
  <2>1. /\ queue # << >> /\ queue' = Tail(queue) /\ left = NoSession
        /\ left' = Head(queue) /\ deferred' = deferred
    BY <1>8 DEF TakeLeft
  <2>2. deferred = << >> /\ Elements(deferred) = {}
    BY <2>1, EmptyParts DEF PairInv, SearchInHand
  <2>3. /\ left' \in Session
        /\ \A a, b : Before(a, b, queue) <=>
             Before(a, b, queue') \/ (a = left' /\ b \in Elements(queue'))
    BY <1>6, <2>1
  <2>4. \A a, b : ~Before(a, b, deferred)
    BY <2>2, BeforeShort
  <2> QED
    BY <1>0, <2>1, <2>2, <2>3, <2>4 DEF LineOrdered, OrderKept
<1>9. ASSUME DeferCandidate PROVE OrderKept
  <2> DEFINE c == Head(queue)
  <2>1. /\ queue # << >> /\ queue' = Tail(queue) /\ left # NoSession
        /\ deferred' = Append(deferred, c) /\ left' = left
    BY <1>9 DEF DeferCandidate
  <2>2. /\ c \in Session /\ Elements(queue) = {c} \cup Elements(queue')
        /\ \A a, b : Before(a, b, queue) <=>
             Before(a, b, queue') \/ (a = c /\ b \in Elements(queue'))
    BY <1>6, <2>1
  <2> HIDE DEF c
  <2>3. deferred \in Seq(Session) /\ deferred' = deferred \o <<c>>
    <3>1. deferred \in Seq(Session)
      BY DEF TypeOK
    <3>2. Append(deferred, c) = deferred \o <<c>>
      BY <2>2, <3>1, AppendIsConcat
    <3> QED
      BY <2>1, <3>1, <3>2
  <2>4. <<c>> \in Seq(Session) /\ Elements(<<c>>) = {c} /\ \A a, b : ~Before(a, b, <<c>>)
    BY <2>2, SingletonParts, BeforeShort
  <2>5. Elements(deferred') = Elements(deferred) \cup {c}
    BY <2>3, <2>4, ConcatParts
  <2>6. \A a, b : Before(a, b, deferred \o <<c>>) <=>
          \/ Before(a, b, deferred) \/ Before(a, b, <<c>>)
          \/ a \in Elements(deferred) /\ b \in Elements(<<c>>)
    BY <2>3, <2>4, BeforeConcat
  <2>7. \A a, b : Before(a, b, deferred') <=>
          Before(a, b, deferred) \/ (a \in Elements(deferred) /\ b = c)
    BY <2>3, <2>4, <2>6
  <2> QED
    BY <1>0, <2>1, <2>2, <2>5, <2>7 DEF LineOrdered, OrderKept
<1>10. ASSUME Pair PROVE OrderKept
  <2> DEFINE right == Head(queue)
             rest == Tail(queue)
  <2>1. /\ queue # << >> /\ queue' = deferred \o rest /\ left # NoSession
        /\ left' = NoSession /\ deferred' = << >>
    BY <1>10 DEF Pair
  <2>2. /\ right \in Session /\ rest \in Seq(Session)
        /\ Elements(queue) = {right} \cup Elements(rest)
        /\ right \notin Elements(rest)
        /\ right # left /\ right \notin Elements(deferred)
        /\ \A a, b : Before(a, b, queue) <=>
             Before(a, b, rest) \/ (a = right /\ b \in Elements(rest))
    BY <1>6, <2>1
  <2> HIDE DEF right, rest
  <2>3. deferred \in Seq(Session)
    BY DEF TypeOK
  <2>4. Elements(queue') = Elements(deferred) \cup Elements(rest)
    BY <2>1, <2>2, <2>3, ConcatParts
  <2>5. \A a, b : Before(a, b, queue') <=>
          \/ Before(a, b, deferred) \/ Before(a, b, rest)
          \/ a \in Elements(deferred) /\ b \in Elements(rest)
    BY <2>1, <2>2, <2>3, BeforeConcat
  <2>6. left \notin Elements(queue) \cup Elements(deferred)
    BY DEF LineInv, LineParts
  <2>7. Waiting' = Elements(queue')
    BY <2>1, EmptyParts DEF Waiting
  <2>8. left \notin Waiting' /\ right \notin Waiting'
    BY <2>2, <2>4, <2>6, <2>7
  <2> QED
    BY <1>0, <2>2, <2>5, <2>8 DEF LineOrdered, OrderKept
<1>11. ASSUME GiveUp PROVE OrderKept
  <2> DEFINE front == IF left = NoSession THEN << >> ELSE <<left>>
  <2>1. /\ queue = << >> /\ queue' = front \o deferred
        /\ left' = NoSession /\ deferred' = << >>
    BY <1>11 DEF GiveUp
  <2>2. /\ front \in Seq(Session) /\ deferred \in Seq(Session)
        /\ \A a : a \in Elements(front) <=> a = left /\ left # NoSession
        /\ \A a, b : ~Before(a, b, front)
    <3>1. deferred \in Seq(Session)
      BY DEF TypeOK
    <3>2. CASE left = NoSession
      <4>1. front = << >>
        BY <3>2
      <4> QED
        BY <3>1, <3>2, <4>1, EmptyParts, EmptySeq, BeforeShort
    <3>3. CASE left # NoSession
      <4>1. front = <<left>> /\ left \in Session
        BY <3>3 DEF TypeOK
      <4> QED
        BY <3>1, <3>3, <4>1, SingletonParts, BeforeShort
    <3> QED
      BY <3>2, <3>3
  <2> HIDE DEF front
  <2>3. \A a, b : Before(a, b, queue') <=>
          \/ Before(a, b, front) \/ Before(a, b, deferred)
          \/ a \in Elements(front) /\ b \in Elements(deferred)
    BY <2>1, <2>2, BeforeConcat
  <2>4. Elements(queue) = {} /\ \A a, b : ~Before(a, b, queue)
    BY <2>1, EmptyParts, BeforeShort
  <2> QED
    BY <1>0, <2>2, <2>3, <2>4 DEF LineOrdered, OrderKept
<1>12. ASSUME Restart PROVE OrderKept
  <2>1. Waiting' = {}
    BY <1>12, EmptyParts DEF Restart, Waiting
  <2> QED
    BY <2>1 DEF OrderKept
<1> QED
  BY <1>1, <1>2, <1>3, <1>4, <1>5, <1>7, <1>8, <1>9, <1>10, <1>11, <1>12
     DEF Next, TryMatch, Expire

(* Nobody is overtaken in the waiting list, whatever searches, skips and   *)
(* requeues happen: the deferred ids go back where they were.              *)
THEOREM FirstComeFirst == Spec => KeepsOrder
<1>1. PairInv /\ LineInv /\ PairInv' /\ [Next]_vars => [OrderKept]_vars
  BY OrderStep DEF PairInv
<1> QED
  BY <1>1, LineInvariant, PTL DEF Spec, KeepsOrder

(* Whom a search passes over on its way to a match is of left_id's own     *)
(* account: left_id is at the head of the line, and is matched with the    *)
(* first in it who may be matched with it.                                 *)
FirstWhoFits ==
  Pair => \A s \in Session : Before(s, Head(queue), Line) => SameAccount(left, s)

(* A search takes the first who fits: it never passes over a stranger.     *)
THEOREM FirstFit == Spec => [][FirstWhoFits]_vars
<1>1. PairInv /\ LineInv => FirstWhoFits
  <2> SUFFICES ASSUME PairInv, LineInv, Pair, NEW s \in Session,
                      Before(s, Head(queue), Line)
               PROVE  SameAccount(left, s)
    BY DEF FirstWhoFits
  <2> DEFINE right == Head(queue)
             rest == Tail(queue)
  <2>1. /\ queue \in Seq(Session) /\ deferred \in Seq(Session)
        /\ queue # << >> /\ NoDuplicates(queue)
    BY DEF Pair, PairInv, TypeOK, LineInv, LineParts
  <2>2. /\ right \in Session /\ rest \in Seq(Session)
        /\ right \notin Elements(rest) /\ right \in Elements(queue)
    BY <2>1, HeadFirst, TailParts
  <2>3. queue = <<right>> \o rest
    BY <2>1, <2>2, HeadFirst DEF Pair
  <2> HIDE DEF right, rest
  <2>4. right \notin Elements(deferred)
    BY <2>1, <2>2 DEF LineInv, LineParts
  <2>5. ~Before(s, right, deferred)
    BY <2>1, <2>2, <2>4, BeforeElements
  <2>6. ~Before(s, right, queue)
    <3>1. <<right>> \in Seq(Session)
      BY <2>1, <2>2
    <3>2. Before(s, right, queue) <=>
            \/ Before(s, right, <<right>>) \/ Before(s, right, rest)
            \/ s \in Elements(<<right>>) /\ right \in Elements(rest)
      BY <2>1, <2>2, <2>3, <3>1, BeforeConcat
    <3>3. ~Before(s, right, <<right>>)
      BY <3>1, BeforeShort
    <3>4. ~Before(s, right, rest)
      BY <2>1, <2>2, BeforeElements
    <3> QED
      BY <2>1, <2>2, <3>2, <3>3, <3>4
  <2>7. s = left \/ s \in Elements(deferred)
    BY <2>5, <2>6, LineOrder DEF LineOrdered, PairInv, right
  <2> QED
    BY <2>7 DEF LineInv, DeferredShare, SameAccount
<1> QED
  BY <1>1, LineInvariant, PTL

--------------------------------------------------------------------------------
(* Transcripts. *)

(* Nothing is remembered of anybody before the first message.              *)
LEMMA TranscriptInit == Init => TranscriptPrivate
BY DEF Init, TranscriptPrivate

(* Who removes a session clears its transcript and its partner's.          *)
LEMMA RemoveSessionTranscript ==
  ASSUME PairInv, TranscriptPrivate, NEW s \in Session, RemoveSession(s)
  PROVE  TranscriptPrivate'
<1> USE NoSessionAssumption
<1> SUFFICES ASSUME NEW t \in Session, NEW i \in DOMAIN history'[t],
                    history'[t][i].type = "message"
             PROVE  /\ partner'[t] # NoSession
                    /\ history'[t][i].from \in {t, partner'[t]}
  BY DEF TranscriptPrivate
<1>0. partner[s] # NoSession => partner[s] \in Session /\ partner[s] # s
  BY PartnerFacts
<1>1. t # s
  BY <1>0 DEF RemoveSession, Cleared
<1>2. t # partner[s]
  <2> SUFFICES ASSUME t = partner[s] PROVE FALSE
    OBVIOUS
  <2>1. history'[t] = Remember(<< >>, Farewell(s))
    BY <1>1, PartnerFacts DEF RemoveSession, Cleared
  <2> QED
    BY <2>1, FarewellAlone
<1> QED
  BY <1>1, <1>2, RemoveSessionPairs DEF TranscriptPrivate

(* Every step keeps transcripts private; the two that write histories are  *)
(* record_message and disconnect_partner.                                  *)
LEMMA TranscriptStep ==
  PairInv /\ TranscriptPrivate /\ [Next]_vars => TranscriptPrivate'
<1> SUFFICES ASSUME PairInv, TranscriptPrivate, [Next]_vars
             PROVE  TranscriptPrivate'
  OBVIOUS
<1> USE NoSessionAssumption
<1> TypeOK
  BY DEF PairInv
<1>0. ASSUME UNCHANGED <<partner, history>> PROVE TranscriptPrivate'
  BY <1>0 DEF TranscriptPrivate
<1>1. ASSUME NEW s \in Session, CreateSession(s) PROVE TranscriptPrivate'
  BY <1>1, <1>0 DEF CreateSession, fields
<1>2. ASSUME NEW s \in Session, Register(s) PROVE TranscriptPrivate'
  BY <1>2, <1>0 DEF Register
<1>3. ASSUME NEW s \in Session, LoadOrCreate(s) PROVE TranscriptPrivate'
  BY <1>3, <1>0 DEF LoadOrCreate
<1>4. ASSUME NEW s \in Session, EnterQueue(s) PROVE TranscriptPrivate'
  BY <1>4, <1>0 DEF EnterQueue
<1>5. ASSUME NEW s \in Session, NEW id \in MessageId \cup {NoId},
             RecordMessage(s, id)
      PROVE  TranscriptPrivate'
  <2> DEFINE p == partner[s]
             e == [type |-> "message", from |-> s, id |-> id]
  <2>1. p \in Session /\ p # s /\ partner[p] = s /\ p # NoSession
    BY <1>5, PartnerFacts DEF RecordMessage
  <2>2. \A t \in Session :
          history'[t] = IF t \in {s, p} THEN Remember(history[t], e)
                        ELSE history[t]
    BY <1>5, <2>1 DEF RecordMessage, TypeOK
  <2>3. partner' = partner
    BY <1>5 DEF RecordMessage, fields
  <2>4. e \in Entry
    BY DEF Entry
  <2> SUFFICES ASSUME NEW t \in Session, NEW i \in DOMAIN history'[t],
                      history'[t][i].type = "message"
               PROVE  /\ partner[t] # NoSession
                      /\ history'[t][i].from \in {t, partner[t]}
    BY <2>3 DEF TranscriptPrivate
  <2>5. CASE t \notin {s, p}
    BY <2>2, <2>5 DEF TranscriptPrivate
  <2>6. CASE t \in {s, p}
    <3>1. partner[t] # NoSession /\ s \in {t, partner[t]}
      BY <2>1, <2>6
    <3>2. \/ history'[t][i] = e
          \/ \E j \in DOMAIN history[t] : history'[t][i] = history[t][j]
      BY <2>2, <2>4, <2>6, RememberProperties DEF TypeOK
    <3>3. CASE history'[t][i] = e
      BY <3>1, <3>3
    <3>4. CASE \E j \in DOMAIN history[t] : history'[t][i] = history[t][j]
      BY <3>4 DEF TranscriptPrivate
    <3> QED
      BY <3>2, <3>3, <3>4
  <2> QED
    BY <2>5, <2>6
<1>6. ASSUME NEW s \in Session, Disconnect(s) PROVE TranscriptPrivate'
  <2> DEFINE p == partner[s]
  <2>1. p # NoSession => /\ p \in Session /\ p # s
                         /\ partner[p] = s /\ Stored(p)
    BY PartnerFacts
  <2>2. \A t \in Session : t \notin {s, p} =>
          partner'[t] = partner[t] /\ history'[t] = history[t]
    BY <1>6, <2>1 DEF Disconnect, PointsBack, Cleared
  <2>3. history'[s] = << >>
    BY <1>6, <2>1 DEF Disconnect, PointsBack, Cleared
  <2>4. p # NoSession => history'[p] = Remember(<< >>, Farewell(s))
    BY <1>6, <2>1 DEF Disconnect, PointsBack, Cleared
  <2> SUFFICES ASSUME NEW t \in Session, NEW i \in DOMAIN history'[t],
                      history'[t][i].type = "message"
               PROVE  t \notin {s, p}
    BY <2>2 DEF TranscriptPrivate
  <2> QED
    BY <2>1, <2>3, <2>4, FarewellAlone
<1>7. ASSUME NEW s \in Session, MarkDisconnected(s) PROVE TranscriptPrivate'
  BY <1>7, <1>0 DEF MarkDisconnected
<1>8. ASSUME NEW s \in Session, StillConnected(s) PROVE TranscriptPrivate'
  BY <1>8, <1>0 DEF StillConnected, fields
<1>9. ASSUME NEW s \in Session, Revoke(s) PROVE TranscriptPrivate'
  BY <1>9, RemoveSessionTranscript DEF Revoke
<1>10. ASSUME NEW s \in Session, DropSocket(s) PROVE TranscriptPrivate'
  BY <1>10, <1>0 DEF DropSocket, fields
<1>11. ASSUME NEW s \in Session, Lapse(s) PROVE TranscriptPrivate'
  BY <1>11, <1>0 DEF Lapse
<1>12. ASSUME BeginMatch \/ SkipCandidate \/ TakeLeft \/ DeferCandidate \/ GiveUp
       PROVE  TranscriptPrivate'
  BY <1>12, <1>0
     DEF BeginMatch, SkipCandidate, TakeLeft, DeferCandidate, GiveUp, fields
<1>13. ASSUME Pair PROVE TranscriptPrivate'
  <2>1. partner[left] = NoSession /\ partner[Head(queue)] = NoSession
    <3>1. left \in Session /\ state[left] = "searching"
      BY <1>13 DEF Pair, PairInv, SearchInHand, TypeOK
    <3> QED
      BY <1>13, <3>1 DEF Pair, Matchable, PairInv, PartnersMutual
  <2>2. \A t \in Session : partner[t] # NoSession => partner'[t] = partner[t]
    BY <1>13, <2>1 DEF Pair, TypeOK
  <2>3. history' = history
    BY <1>13 DEF Pair
  <2> QED
    BY <2>2, <2>3 DEF TranscriptPrivate
<1>14. ASSUME BeginExpiry PROVE TranscriptPrivate'
  BY <1>14, <1>0 DEF BeginExpiry, fields
<1>15. ASSUME NEW s \in Session, ExpireOne(s) PROVE TranscriptPrivate'
  BY <1>15, RemoveSessionTranscript DEF ExpireOne
<1>16. ASSUME Restart \/ UNCHANGED vars PROVE TranscriptPrivate'
  BY <1>16, <1>0 DEF Restart, vars
<1> QED
  BY <1>1, <1>2, <1>3, <1>4, <1>5, <1>6, <1>7, <1>8, <1>9, <1>10, <1>11, <1>12,
     <1>13, <1>14, <1>15, <1>16 DEF Next, TryMatch, Expire

(* What a session is shown again on reconnect was said in the match it is  *)
(* in: the transcript of an earlier match never reaches a new partner.     *)
THEOREM Privacy == Spec => []TranscriptPrivate
<1>1. Init => PairInv /\ TranscriptPrivate
  BY PairInit, TranscriptInit
<1>2. PairInv /\ TranscriptPrivate /\ [Next]_vars
        => (PairInv /\ TranscriptPrivate)'
  BY PairStep, TranscriptStep
<1> QED
  BY <1>1, <1>2, PTL DEF Spec

--------------------------------------------------------------------------------
(* Histories, counted from their newest entry. *)

(* Remembering puts the entry last and keeps the newest of the others.     *)
LEMMA RememberNewest ==
  ASSUME NEW h \in Seq(Entry), NEW e \in Entry
  PROVE  /\ Remember(h, e) \in Seq(Entry)
         /\ Len(Remember(h, e)) \in 1 .. Len(h) + 1
         /\ Remember(h, e)[Len(Remember(h, e))] = e
         /\ \A i \in Nat : 0 < i /\ i < Len(Remember(h, e)) =>
              Remember(h, e)[Len(Remember(h, e)) - i] = h[Len(h) - i + 1]
         /\ Len(Remember(h, e)) < HistoryLimit =>
              Len(h) < HistoryLimit /\ Len(Remember(h, e)) = Len(h) + 1
<1> Len(h) \in Nat /\ HistoryLimit \in Nat \ {0}
  BY HistoryLimitAssumption
<1>1. CASE Len(h) < HistoryLimit
  <2>1. Remember(h, e) = Append(h, e)
    BY <1>1 DEF Remember
  <2>2. /\ Append(h, e) \in Seq(Entry) /\ Len(Append(h, e)) = Len(h) + 1
        /\ Append(h, e)[Len(h) + 1] = e
        /\ \A i \in 1 .. Len(h) : Append(h, e)[i] = h[i]
    BY AppendProperties
  <2>3. ASSUME NEW i \in Nat, 0 < i, i < Len(h) + 1
        PROVE  Append(h, e)[Len(h) + 1 - i] = h[Len(h) - i + 1]
    <3>1. Len(h) + 1 - i \in 1 .. Len(h) /\ Len(h) - i + 1 = Len(h) + 1 - i
      BY <2>3
    <3> QED
      BY <2>2, <3>1
  <2> QED
    BY <1>1, <2>1, <2>2, <2>3
<1>2. CASE ~(Len(h) < HistoryLimit)
  <2> DEFINE m == Len(h) - HistoryLimit + 2
             t == SubSeq(h, m, Len(h))
  <2>1. m \in Int /\ m >= 2 /\ m <= Len(h) + 1
    BY <1>2
  <2>2. \A i \in m .. Len(h) : h[i] \in Entry
    BY <2>1
  <2>3. t \in Seq(Entry) /\ Len(t) = HistoryLimit - 1
        /\ \A i \in 1 .. Len(h) - m + 1 : t[i] = h[m + i - 1]
    BY <1>2, <2>1, <2>2, SubSeqProperties
  <2>4. Remember(h, e) = Append(t, e)
    BY <1>2 DEF Remember
  <2> HIDE DEF t
  <2>5. /\ Append(t, e) \in Seq(Entry) /\ Len(Append(t, e)) = Len(t) + 1
        /\ Append(t, e)[Len(t) + 1] = e
        /\ \A i \in 1 .. Len(t) : Append(t, e)[i] = t[i]
    BY <2>3, AppendProperties
  <2>6. ASSUME NEW i \in Nat, 0 < i, i < HistoryLimit
        PROVE  Append(t, e)[HistoryLimit - i] = h[Len(h) - i + 1]
    <3>1. /\ HistoryLimit - i \in 1 .. Len(t)
          /\ HistoryLimit - i \in 1 .. Len(h) - m + 1
          /\ m + (HistoryLimit - i) - 1 = Len(h) - i + 1
      BY <2>3, <2>6
    <3>2. t[HistoryLimit - i] = h[m + (HistoryLimit - i) - 1]
      BY <2>3, <3>1
    <3> QED
      BY <2>5, <3>1, <3>2
  <2>7. Len(t) + 1 = HistoryLimit /\ HistoryLimit \in 1 .. Len(h) + 1
    BY <1>2, <2>3
  <2> DEFINE r == Append(t, e)
  <2>8. Len(r) = HistoryLimit /\ r[HistoryLimit] = e /\ r \in Seq(Entry)
    BY <2>5, <2>7
  <2>9. \A i \in Nat : 0 < i /\ i < HistoryLimit =>
          r[HistoryLimit - i] = h[Len(h) - i + 1]
    BY <2>6
  <2> HIDE DEF r
  <2> QED
    BY <2>4, <2>7, <2>8, <2>9 DEF r
<1> QED
  BY <1>1, <1>2

(* A conversation is the end of its history, and messages only.            *)
LEMMA ConversationNewest ==
  ASSUME NEW h \in Seq(Entry),
         \A i \in DOMAIN h : i > 1 => h[i].type = "message"
  PROVE  /\ Conversation(h) \in Seq(Entry)
         /\ Len(Conversation(h)) = Len(h)
              \/ (/\ Len(Conversation(h)) = Len(h) - 1
                  /\ h # << >> /\ h[1].type = "disconnect")
         /\ \A i \in DOMAIN Conversation(h) : Conversation(h)[i].type = "message"
         /\ \A i \in Nat : i < Len(Conversation(h)) =>
              Conversation(h)[Len(Conversation(h)) - i] = h[Len(h) - i]
         /\ h # << >> /\ h[1].type = "disconnect"
              => Len(Conversation(h)) = Len(h) - 1
<1> DEFINE c == Conversation(h)
<1>1. Len(h) \in Nat /\ DOMAIN h = 1 .. Len(h) /\ (Len(h) = 0 <=> h = << >>)
  BY EmptySeq
<1>2. CASE h # << >> /\ h[1].type = "disconnect"
  <2>1. c = Tail(h)
    BY <1>2 DEF Conversation
  <2>2. /\ Tail(h) \in Seq(Entry) /\ Len(Tail(h)) = Len(h) - 1
        /\ DOMAIN Tail(h) = 1 .. Len(h) - 1
        /\ \A i \in 1 .. Len(h) - 1 : Tail(h)[i] = h[i + 1]
    BY <1>1, <1>2, HeadTailProperties
  <2>3. ASSUME NEW i \in 1 .. Len(h) - 1 PROVE Tail(h)[i].type = "message"
    <3>1. i + 1 \in DOMAIN h /\ i + 1 > 1
      BY <1>1
    <3> QED
      BY <2>2, <3>1
  <2>4. ASSUME NEW i \in Nat, i < Len(h) - 1
        PROVE  Tail(h)[Len(h) - 1 - i] = h[Len(h) - i]
    <3>1. Len(h) - 1 - i \in 1 .. Len(h) - 1 /\ (Len(h) - 1 - i) + 1 = Len(h) - i
      BY <1>1, <2>4
    <3> QED
      BY <2>2, <3>1
  <2> QED
    BY <1>1, <1>2, <2>1, <2>2, <2>3, <2>4
<1>3. CASE ~(h # << >> /\ h[1].type = "disconnect")
  <2>1. c = h
    BY <1>3 DEF Conversation
  <2>2. ASSUME NEW i \in 1 .. Len(h) PROVE h[i].type = "message"
    <3>1. CASE i = 1
      <4>1. h # << >> /\ h[1] \in Entry /\ h[1].type # "disconnect"
        BY <1>1, <1>3, <3>1
      <4> QED
        BY <3>1, <4>1 DEF Entry
    <3>2. CASE i > 1
      BY <1>1, <3>2
    <3> QED
      BY <3>1, <3>2
  <2> QED
    BY <1>1, <1>3, <2>1, <2>2
<1> QED
  BY <1>2, <1>3

(* One list ends with another if it is as long and they agree from the     *)
(* end.                                                                    *)
Aligned(q, r) ==
  \A i \in Nat : i < Len(q) /\ i < Len(r) => q[Len(q) - i] = r[Len(r) - i]

LEMMA EndsWithAligned ==
  ASSUME NEW q \in Seq(Entry), NEW r \in Seq(Entry)
  PROVE  EndsWith(q, r) <=> Len(r) <= Len(q) /\ Aligned(q, r)
<1>1. Len(q) \in Nat /\ Len(r) \in Nat /\ DOMAIN r = 1 .. Len(r)
  OBVIOUS
<1>2. ASSUME EndsWith(q, r), NEW i \in Nat, i < Len(q), i < Len(r)
      PROVE  q[Len(q) - i] = r[Len(r) - i]
  <2>1. Len(r) - i \in DOMAIN r /\ Len(q) - Len(r) + (Len(r) - i) = Len(q) - i
    BY <1>1, <1>2
  <2> QED
    BY <1>2, <2>1 DEF EndsWith
<1>3. ASSUME Len(r) <= Len(q), Aligned(q, r), NEW i \in DOMAIN r
      PROVE  r[i] = q[Len(q) - Len(r) + i]
  <2>1. /\ Len(r) - i \in Nat /\ Len(r) - i < Len(r) /\ Len(r) - i < Len(q)
        /\ Len(r) - (Len(r) - i) = i
        /\ Len(q) - (Len(r) - i) = Len(q) - Len(r) + i
    BY <1>1, <1>3
  <2>2. q[Len(q) - (Len(r) - i)] = r[Len(r) - (Len(r) - i)]
    BY <1>3, <2>1 DEF Aligned
  <2> QED
    BY <2>1, <2>2
<1> QED
  BY <1>2, <1>3 DEF EndsWith, Aligned

(* A message joins the conversation as its last, and takes the place of    *)
(* the oldest if there is no room.                                         *)
LEMMA ConversationGrows ==
  ASSUME NEW h \in Seq(Entry), NEW e \in Entry, e.type = "message",
         \A i \in DOMAIN h : i > 1 => h[i].type = "message"
  PROVE  LET r == Remember(h, e)
             c == Conversation(h)
             d == Conversation(r)
         IN /\ \A i \in DOMAIN r : i > 1 => r[i].type = "message"
            /\ Len(d) \in 1 .. Len(c) + 1
            /\ d[Len(d)] = e
            /\ \A i \in Nat : 0 < i /\ i < Len(d) => d[Len(d) - i] = c[Len(c) - i + 1]
            /\ Len(r) < HistoryLimit => /\ Len(h) < HistoryLimit
                                        /\ Len(d) = Len(c) + 1
<1> DEFINE r == Remember(h, e)
           c == Conversation(h)
           d == Conversation(r)
<1>1. /\ r \in Seq(Entry) /\ Len(r) \in 1 .. Len(h) + 1 /\ r[Len(r)] = e
      /\ \A i \in Nat : 0 < i /\ i < Len(r) => r[Len(r) - i] = h[Len(h) - i + 1]
      /\ Len(r) < HistoryLimit => Len(h) < HistoryLimit /\ Len(r) = Len(h) + 1
  BY RememberNewest
<1>2. /\ c \in Seq(Entry)
      /\ \/ Len(c) = Len(h)
         \/ Len(c) = Len(h) - 1 /\ h # << >> /\ h[1].type = "disconnect"
      /\ \A i \in Nat : i < Len(c) => c[Len(c) - i] = h[Len(h) - i]
      /\ h # << >> /\ h[1].type = "disconnect" => Len(c) = Len(h) - 1
  BY ConversationNewest
<1> HIDE DEF r, c
<1>3. Len(h) \in Nat /\ Len(r) \in Nat /\ Len(c) \in Nat
  BY <1>1, <1>2
<1>b. DOMAIN h = 1 .. Len(h) /\ DOMAIN r = 1 .. Len(r)
  BY <1>1
<1>c. Len(h) = 0 <=> h = << >>
  BY EmptySeq
<1>a. 1 <= Len(r) /\ Len(r) <= Len(h) + 1
  BY <1>1, <1>3
<1>d. r[Len(r)].type = "message"
  BY <1>1
<1>e. \A n \in Nat : 1 <= n => n = 1 \/ n > 1
  OBVIOUS
<1>4. ASSUME NEW i \in 1 .. Len(r), i < Len(r)
      PROVE  r[i] = h[Len(h) - Len(r) + i + 1] /\ Len(h) - Len(r) + i + 1 \in 1 .. Len(h)
             /\ Len(h) - Len(r) + i + 1 >= i
  <2>1. /\ Len(r) - i \in Nat /\ 0 < Len(r) - i /\ Len(r) - i < Len(r)
        /\ Len(r) - (Len(r) - i) = i
        /\ Len(h) - (Len(r) - i) + 1 = Len(h) - Len(r) + i + 1
    BY <1>3, <1>4
  <2>2. r[Len(r) - (Len(r) - i)] = h[Len(h) - (Len(r) - i) + 1]
    BY <1>1, <2>1
  <2>3. /\ Len(h) - Len(r) + i + 1 \in 1 .. Len(h)
        /\ Len(h) - Len(r) + i + 1 >= i
    BY <1>3, <1>a, <1>4
  <2> QED
    BY <2>1, <2>2, <2>3
<1>5. ASSUME NEW i \in DOMAIN r, i > 1 PROVE r[i].type = "message"
  <2>1. CASE i = Len(r)
    BY <1>1, <2>1
  <2>2. CASE i < Len(r)
    <3>1. /\ r[i] = h[Len(h) - Len(r) + i + 1]
          /\ Len(h) - Len(r) + i + 1 \in 1 .. Len(h)
          /\ Len(h) - Len(r) + i + 1 > 1
      BY <1>3, <1>b, <1>4, <1>5, <2>2
    <3> QED
      BY <1>b, <3>1
  <2> QED
    BY <1>3, <2>1, <2>2
<1>6. /\ d \in Seq(Entry)
      /\ \/ Len(d) = Len(r)
         \/ Len(d) = Len(r) - 1 /\ r # << >> /\ r[1].type = "disconnect"
      /\ \A i \in Nat : i < Len(d) => d[Len(d) - i] = r[Len(r) - i]
      /\ r # << >> /\ r[1].type = "disconnect" => Len(d) = Len(r) - 1
  BY <1>1, <1>5, ConversationNewest
<1> HIDE DEF d
<1>7. Len(d) \in Nat /\ (Len(d) = Len(r) \/ Len(d) = Len(r) - 1)
  BY <1>6
<1>8. ASSUME Len(r) > 1 PROVE r[1] = h[Len(h) - Len(r) + 2]
                              /\ Len(h) - Len(r) + 2 \in 1 .. Len(h)
  BY <1>3, <1>4, <1>8
<1>9. ASSUME r # << >>, r[1].type = "disconnect"
      PROVE  Len(r) = Len(h) + 1 /\ h # << >> /\ h[1].type = "disconnect"
  <2>1. Len(r) > 1
    <3>1. r[1].type # r[Len(r)].type
      BY <1>9, <1>d
    <3>2. Len(r) # 1
      BY <3>1
    <3> QED
      BY <1>3, <1>a, <1>e, <3>2
  <2>2. ~(Len(h) - Len(r) + 2 > 1)
    BY <1>3, <1>8, <1>9, <2>1
  <2>3. Len(r) = Len(h) + 1
    BY <1>3, <1>a, <2>2
  <2> QED
    BY <1>3, <1>8, <1>9, <2>1, <2>3
<1>10. ASSUME Len(r) = Len(h) + 1, h # << >>, h[1].type = "disconnect"
       PROVE  r # << >> /\ r[1].type = "disconnect"
  <2>1. Len(r) > 1 /\ Len(h) - Len(r) + 2 = 1
    BY <1>3, <1>10
  <2>2. r # << >>
    BY <2>1
  <2> QED
    BY <1>8, <1>10, <2>1, <2>2
<1>11. Len(d) <= Len(c) + 1 /\ Len(d) >= 1
       /\ (Len(r) = Len(h) + 1 => Len(d) = Len(c) + 1)
  <2>1. CASE r # << >> /\ r[1].type = "disconnect"
    <3>1. Len(d) = Len(r) - 1 /\ Len(r) = Len(h) + 1 /\ Len(c) = Len(h) - 1
          /\ Len(h) # 0
      BY <1>2, <1>3, <1>6, <1>9, <2>1
    <3> QED
      BY <1>3, <3>1
  <2>2. CASE ~(r # << >> /\ r[1].type = "disconnect")
    <3>1. Len(d) = Len(r)
      BY <1>6, <2>2
    <3>2. Len(r) = Len(h) + 1 => Len(c) = Len(h)
      BY <1>2, <1>10, <2>2
    <3>3. Len(c) = Len(h) \/ Len(c) = Len(h) - 1
      BY <1>2
    <3> QED
      BY <1>3, <1>a, <3>1, <3>2, <3>3
  <2> QED
    BY <2>1, <2>2
<1>12. d[Len(d)] = e
  <2>1. d[Len(d) - 0] = r[Len(r) - 0]
    BY <1>6, <1>7, <1>11
  <2>2. Len(d) - 0 = Len(d) /\ Len(r) - 0 = Len(r)
    BY <1>3, <1>7
  <2>3. r[Len(r)] = e
    BY <1>1
  <2> QED
    BY <2>1, <2>2, <2>3
<1>13. ASSUME NEW i \in Nat, 0 < i, i < Len(d) PROVE d[Len(d) - i] = c[Len(c) - i + 1]
  <2>1. d[Len(d) - i] = r[Len(r) - i]
    BY <1>6, <1>13
  <2>2. i < Len(r)
    BY <1>3, <1>7, <1>13
  <2>3. r[Len(r) - i] = h[Len(h) - i + 1]
    BY <1>1, <1>13, <2>2
  <2>4. i - 1 \in Nat /\ i - 1 < Len(c)
    BY <1>3, <1>7, <1>11, <1>13
  <2>5. c[Len(c) - (i - 1)] = h[Len(h) - (i - 1)]
    BY <1>2, <2>4
  <2>6. Len(c) - (i - 1) = Len(c) - i + 1 /\ Len(h) - (i - 1) = Len(h) - i + 1
    BY <1>3
  <2> QED
    BY <2>1, <2>3, <2>5, <2>6
<1>14. Len(d) \in 1 .. Len(c) + 1
  BY <1>3, <1>7, <1>11
<1>15. Len(r) < HistoryLimit => Len(h) < HistoryLimit /\ Len(d) = Len(c) + 1
  BY <1>1, <1>11
<1> QED
  BY <1>5, <1>12, <1>13, <1>14, <1>15 DEF r, c, d

--------------------------------------------------------------------------------
(* What every step does to the conversations. *)

(* Between two matches there is nothing to show but a notice.              *)
LEMMA SilentAlone ==
  ASSUME TypeOK, TranscriptPrivate, NoticeFirst, NEW t \in Session,
         partner[t] = NoSession
  PROVE  Conversation(history[t]) = << >>
<1> DEFINE h == history[t]
           c == Conversation(h)
<1>1. h \in Seq(Entry) /\ \A i \in DOMAIN h : i > 1 => h[i].type = "message"
  BY DEF TypeOK, NoticeFirst
<1>2. \A i \in DOMAIN h : h[i].type # "message"
  BY DEF TranscriptPrivate
<1> HIDE DEF h
<1>3. /\ c \in Seq(Entry) /\ Len(c) <= Len(h)
      /\ \A i \in DOMAIN c : c[i].type = "message"
      /\ \A i \in Nat : i < Len(c) => c[Len(c) - i] = h[Len(h) - i]
  BY <1>1, ConversationNewest
<1> HIDE DEF c
<1>4. Len(c) \in Nat /\ Len(h) \in Nat /\ DOMAIN c = 1 .. Len(c) /\ DOMAIN h = 1 .. Len(h)
  BY <1>1, <1>3
<1>5. ~(Len(c) > 0)
  <2> SUFFICES ASSUME Len(c) > 0 PROVE FALSE
    OBVIOUS
  <2>1. c[Len(c) - 0] = h[Len(h) - 0]
    BY <1>3
  <2>2. Len(c) - 0 \in DOMAIN c /\ Len(h) - 0 \in DOMAIN h
    BY <1>3, <1>4
  <2> QED
    BY <1>2, <1>3, <2>1, <2>2
<1>6. Len(c) = 0
  BY <1>4, <1>5
<1> QED
  BY <1>3, <1>6, EmptySeq DEF c, h

(* A step that sends t no message: its history stays what it is while its  *)
(* match lasts, or is cleared with it.                                     *)
Quiet(t) ==
  \/ history'[t] = history[t] /\ (partner[t] = NoSession \/ partner'[t] = partner[t])
  \/ partner'[t] = NoSession
       /\ history'[t] \in {<< >>} \cup {<<Farewell(s)>> : s \in Session}

(* The match of t, if it lasts, keeps its row and the ids it has seen.     *)
KeepsIds(t) ==
  partner[t] # NoSession /\ partner'[t] = partner[t] =>
    \A m \in {<<t, partner[t]>>, <<partner[t], t>>} : m \in matches =>
      m \in matches' /\ \A id : <<m, id>> \in recorded => <<m, id>> \in recorded'

(* A notice alone is a history like any other.                             *)
LEMMA NoticeAlone ==
  ASSUME NEW h, h \in {<< >>} \cup {<<Farewell(s)>> : s \in Session}
  PROVE  /\ \A i \in DOMAIN h : i = 1
         /\ \A i \in DOMAIN h : h[i].id = NoId
<1>1. CASE h = << >>
  <2>1. DOMAIN h = {}
    BY <1>1
  <2> QED
    BY <2>1
<1>2. ASSUME NEW s \in Session, h = <<Farewell(s)>>
      PROVE  /\ \A i \in DOMAIN h : i = 1
             /\ \A i \in DOMAIN h : h[i].id = NoId
  <2>1. Farewell(s).id = NoId
    BY DEF Farewell
  <2> HIDE DEF Farewell
  <2>2. DOMAIN h = {1} /\ h[1] = Farewell(s)
    BY <1>2
  <2> QED
    BY <2>1, <2>2
<1> QED
  BY <1>1, <1>2

(* Quiet steps keep the two sides of every match alike.                    *)
LEMMA QuietStep ==
  ASSUME PairInv, PairInv', TranscriptInv,
         \A t \in Session : Quiet(t) /\ KeepsIds(t)
  PROVE  NoticeFirst' /\ TranscriptsMirror' /\ IdsRecorded' /\ DeliveredOnce'
<1> USE NoSessionAssumption
<1> TypeOK /\ TypeOK' /\ PartnersMutual /\ PartnersMutual'
  BY DEF PairInv
<1>1. ASSUME NEW t \in Session
      PROVE  \/ history'[t] = history[t]
                  /\ (partner[t] = NoSession \/ partner'[t] = partner[t])
             \/ /\ partner'[t] = NoSession
                /\ \A i \in DOMAIN history'[t] : i = 1
                /\ \A i \in DOMAIN history'[t] : history'[t][i].id = NoId
  BY NoticeAlone DEF Quiet
<1>2. NoticeFirst'
  BY <1>1 DEF NoticeFirst, TranscriptInv
<1>3. DeliveredOnce'
  BY <1>1 DEF DeliveredOnce, TranscriptInv
<1>4. IdsRecorded'
  <2> SUFFICES ASSUME NEW t \in Session, NEW i \in DOMAIN history'[t],
                      history'[t][i].id # NoId
               PROVE  \E m \in matches' :
                        /\ m \in {<<t, partner'[t]>>, <<partner'[t], t>>}
                        /\ <<m, history'[t][i].id>> \in recorded'
    BY DEF IdsRecorded
  <2>1. history'[t] = history[t] /\ (partner[t] = NoSession \/ partner'[t] = partner[t])
    BY <1>1
  <2>2. PICK m \in matches : /\ m \in {<<t, partner[t]>>, <<partner[t], t>>}
                             /\ <<m, history[t][i].id>> \in recorded
    BY <2>1 DEF IdsRecorded, TranscriptInv
  <2>3. partner[t] # NoSession
    <3>1. <<t, partner[t]>> \in Session \X Session
            \/ <<partner[t], t>> \in Session \X Session
      BY <2>2 DEF TypeOK
    <3> QED
      BY <3>1
  <2> QED
    BY <2>1, <2>2, <2>3 DEF KeepsIds
<1>5. TranscriptsMirror'
  <2> DEFINE Mirrors(g, h) ==
        /\ \A i \in DOMAIN Conversation(g) : Conversation(g)[i].type = "message"
        /\ EndsWith(Conversation(g), Conversation(h))
             \/ EndsWith(Conversation(h), Conversation(g))
        /\ Len(g) < HistoryLimit => EndsWith(Conversation(g), Conversation(h))
  <2> SUFFICES ASSUME NEW t \in Session, partner'[t] # NoSession
               PROVE  Mirrors(history'[t], history'[partner'[t]])
    BY DEF TranscriptsMirror
  <2> DEFINE p == partner'[t]
  <2>1. p \in Session /\ partner'[p] = t /\ partner'[p] # NoSession
    BY DEF PartnersMutual, TypeOK
  <2>2. /\ history'[t] = history[t] /\ history'[p] = history[p]
        /\ partner[t] = NoSession \/ partner[t] = p
        /\ partner[p] = NoSession \/ partner[p] = t
    BY <1>1, <2>1
  <2>3. CASE partner[t] = p
    <3>1. Mirrors(history[t], history[partner[t]])
      BY <2>3 DEF TranscriptInv, TranscriptsMirror
    <3> QED
      BY <2>2, <2>3, <3>1
  <2>4. CASE partner[t] = NoSession
    <3>1. partner[p] = NoSession
      BY <2>1, <2>2, <2>4 DEF PartnersMutual
    <3>2. Conversation(history[t]) = << >> /\ Conversation(history[p]) = << >>
      BY <2>1, <2>4, <3>1, SilentAlone DEF TranscriptInv
    <3>3. EndsWith(<< >>, << >>)
      BY DEF EndsWith
    <3>4. \A i \in DOMAIN << >> : <<>>[i].type = "message"
      OBVIOUS
    <3> QED
      BY <2>2, <3>2, <3>3, <3>4
  <2> QED
    BY <2>2, <2>3, <2>4
<1> QED
  BY <1>2, <1>3, <1>4, <1>5

(* record_message gives both sides the same entry: an id neither has seen. *)
LEMMA MessageStep ==
  ASSUME PairInv, TranscriptInv, NEW s \in Session,
         NEW id \in MessageId \cup {NoId}, RecordMessage(s, id)
  PROVE  NoticeFirst' /\ TranscriptsMirror' /\ IdsRecorded' /\ DeliveredOnce'
<1> USE NoSessionAssumption
<1> TypeOK /\ PartnersMutual
  BY DEF PairInv
<1> NoticeFirst /\ TranscriptsMirror /\ IdsRecorded /\ DeliveredOnce
  BY DEF TranscriptInv
<1> DEFINE p == partner[s]
           e == [type |-> "message", from |-> s, id |-> id]
           active == {m \in matches : m \in {<<s, p>>, <<p, s>>}}
<1>1. p \in Session /\ p # s /\ partner[p] = s /\ p # NoSession
  BY PartnerFacts DEF RecordMessage
<1>2. \A t \in Session :
        history'[t] = IF t \in {s, p} THEN Remember(history[t], e) ELSE history[t]
  BY <1>1 DEF RecordMessage, TypeOK
<1>3. UNCHANGED <<partner, matches>>
  BY DEF RecordMessage, fields
<1>4. e \in Entry /\ e.type = "message" /\ e.id = id
  BY DEF Entry
<1>5. /\ recorded \subseteq recorded'
      /\ id # NoId => /\ active # {}
                      /\ \A m \in active : <<m, id>> \notin recorded
                      /\ \A m \in active : <<m, id>> \in recorded'
  BY DEF RecordMessage, Accepted
<1>6. \A t \in {s, p} : \A m : m \in active <=>
        m \in matches /\ m \in {<<t, partner[t]>>, <<partner[t], t>>}
  BY <1>1
<1> HIDE DEF e, active
<1>7. \A t \in Session : /\ history[t] \in Seq(Entry)
                         /\ \A i \in DOMAIN history[t] : i > 1 => history[t][i].type = "message"
  BY DEF TypeOK, NoticeFirst
<1>8. NoticeFirst'
  <2>1. \A t \in Session : \A i \in DOMAIN history'[t] : i > 1 => history'[t][i].type = "message"
    BY <1>2, <1>4, <1>7, ConversationGrows
  <2> QED
    BY <2>1 DEF NoticeFirst
<1>9. ASSUME NEW t \in {s, p}, NEW i \in DOMAIN history'[t]
      PROVE  \/ i = Len(history'[t]) /\ history'[t][i] = e
             \/ /\ i < Len(history'[t])
                /\ i + Len(history[t]) - Len(history'[t]) + 1 \in DOMAIN history[t]
                /\ history'[t][i] = history[t][i + Len(history[t]) - Len(history'[t]) + 1]
  <2> DEFINE h == history[t]
             r == Remember(h, e)
  <2>1. history'[t] = r /\ h \in Seq(Entry)
    BY <1>1, <1>2, <1>7
  <2>2. /\ r \in Seq(Entry) /\ Len(r) \in 1 .. Len(h) + 1 /\ r[Len(r)] = e
        /\ \A k \in Nat : 0 < k /\ k < Len(r) => r[Len(r) - k] = h[Len(h) - k + 1]
    BY <1>4, <2>1, RememberNewest
  <2> HIDE DEF h, r
  <2>3. i \in 1 .. Len(r) /\ Len(r) \in Nat /\ Len(h) \in Nat /\ Len(r) <= Len(h) + 1
    BY <2>1, <2>2
  <2>4. CASE i = Len(r)
    BY <2>1, <2>2, <2>4
  <2>5. CASE i < Len(r)
    <3>1. /\ Len(r) - i \in Nat /\ 0 < Len(r) - i /\ Len(r) - i < Len(r)
          /\ Len(r) - (Len(r) - i) = i
          /\ Len(h) - (Len(r) - i) + 1 = i + Len(h) - Len(r) + 1
          /\ i + Len(h) - Len(r) + 1 \in 1 .. Len(h)
      BY <2>3, <2>5
    <3>2. r[Len(r) - (Len(r) - i)] = h[Len(h) - (Len(r) - i) + 1]
      BY <2>2, <3>1
    <3>3. DOMAIN h = 1 .. Len(h)
      BY <2>1
    <3> QED
      BY <2>1, <2>5, <3>1, <3>2, <3>3 DEF h
  <2>6. i = Len(r) \/ i < Len(r)
    BY <2>3
  <2> QED
    BY <2>4, <2>5, <2>6
<1>10. IdsRecorded'
  <2> SUFFICES ASSUME NEW t \in Session, NEW i \in DOMAIN history'[t],
                      history'[t][i].id # NoId
               PROVE  \E m \in matches :
                        /\ m \in {<<t, partner[t]>>, <<partner[t], t>>}
                        /\ <<m, history'[t][i].id>> \in recorded'
    BY <1>3 DEF IdsRecorded
  <2>1. CASE t \notin {s, p}
    BY <1>2, <1>5, <2>1 DEF IdsRecorded
  <2>2. CASE t \in {s, p} /\ history'[t][i] = e
    <3>1. PICK m \in active : <<m, id>> \in recorded'
      BY <1>4, <1>5, <2>2
    <3> QED
      BY <1>4, <1>6, <2>2, <3>1
  <2>3. CASE t \in {s, p} /\ history'[t][i] # e
    <3>1. \E j \in DOMAIN history[t] : history'[t][i] = history[t][j]
      BY <1>9, <2>3
    <3> QED
      BY <1>5, <3>1 DEF IdsRecorded
  <2> QED
    BY <2>1, <2>2, <2>3
<1>11. DeliveredOnce'
  <2> SUFFICES ASSUME NEW t \in Session, NEW i \in DOMAIN history'[t],
                      NEW j \in DOMAIN history'[t],
                      history'[t][i].id = history'[t][j].id,
                      history'[t][i].id # NoId
               PROVE  i = j
    BY DEF DeliveredOnce
  <2>1. CASE t \notin {s, p}
    BY <1>2, <2>1 DEF DeliveredOnce
  <2>2. CASE t \in {s, p}
    <3>1. ASSUME NEW k \in DOMAIN history[t], id # NoId
          PROVE  history[t][k].id # id
      <4> SUFFICES ASSUME history[t][k].id = id PROVE FALSE
        OBVIOUS
      <4>1. PICK m \in matches : /\ m \in {<<t, partner[t]>>, <<partner[t], t>>}
                                 /\ <<m, id>> \in recorded
        BY <2>2, <3>1 DEF IdsRecorded
      <4> QED
        BY <1>5, <1>6, <2>2, <3>1, <4>1
    <3> DEFINE d == Len(history[t]) - Len(history'[t]) + 1
               old(k) == /\ k < Len(history'[t])
                         /\ k + Len(history[t]) - Len(history'[t]) + 1 \in DOMAIN history[t]
                         /\ history'[t][k] = history[t][k + Len(history[t]) - Len(history'[t]) + 1]
               new(k) == k = Len(history'[t]) /\ history'[t][k] = e
    <3>2. (old(i) \/ new(i)) /\ (old(j) \/ new(j))
      BY <1>9, <2>2
    <3>3. CASE new(i) /\ new(j)
      BY <3>3
    <3>4. CASE new(i) /\ old(j)
      BY <1>4, <3>1, <3>4
    <3>5. CASE old(i) /\ new(j)
      BY <1>4, <3>1, <3>5
    <3>6. CASE old(i) /\ old(j)
      <4>1. i + Len(history[t]) - Len(history'[t]) + 1
              = j + Len(history[t]) - Len(history'[t]) + 1
        BY <3>6 DEF DeliveredOnce
      <4>2. t \in Session /\ history'[t] = Remember(history[t], e)
        BY <1>1, <1>2, <2>2
      <4>3. history[t] \in Seq(Entry)
        BY <1>7
      <4>4. history'[t] \in Seq(Entry)
        BY <1>4, <4>2, <4>3, RememberNewest
      <4>5. i \in Int /\ j \in Int
        BY <4>4
      <4>6. Len(history[t]) \in Int /\ Len(history'[t]) \in Int
        BY <4>3, <4>4
      <4>7. \A a, b, x, y \in Int : x + a - b + 1 = y + a - b + 1 => x = y
        OBVIOUS
      <4> QED
        BY <4>1, <4>5, <4>6, <4>7
    <3> QED
      BY <3>2, <3>3, <3>4, <3>5, <3>6
  <2> QED
    BY <2>1, <2>2
<1>12. TranscriptsMirror'
  <2> SUFFICES ASSUME NEW t \in Session, partner[t] # NoSession
               PROVE  LET mine == Conversation(history'[t])
                          theirs == Conversation(history'[partner[t]])
                      IN /\ \A i \in DOMAIN mine : mine[i].type = "message"
                         /\ EndsWith(mine, theirs) \/ EndsWith(theirs, mine)
                         /\ Len(history'[t]) < HistoryLimit => EndsWith(mine, theirs)
    BY <1>3 DEF TranscriptsMirror
  <2> DEFINE u == partner[t]
  <2>1. u \in Session /\ partner[u] = t /\ u # t
    BY PartnerFacts
  <2>2. CASE t \notin {s, p}
    <3>1. u \notin {s, p}
      BY <1>1, <2>1, <2>2
    <3>2. history'[t] = history[t] /\ history'[u] = history[u]
      BY <1>2, <2>1, <2>2, <3>1
    <3> QED
      BY <3>2 DEF TranscriptsMirror
  <2>3. CASE t \in {s, p}
    <3>1. u \in {s, p}
      BY <1>1, <2>1, <2>3
    <3> DEFINE g == history[t]
               h == history[u]
               cg == Conversation(g)
               ch == Conversation(h)
               dg == Conversation(Remember(g, e))
               dh == Conversation(Remember(h, e))
    <3>2. history'[t] = Remember(g, e) /\ history'[u] = Remember(h, e)
      BY <1>2, <2>1, <2>3, <3>1
    <3>3. /\ g \in Seq(Entry) /\ h \in Seq(Entry)
          /\ \A i \in DOMAIN g : i > 1 => g[i].type = "message"
          /\ \A i \in DOMAIN h : i > 1 => h[i].type = "message"
      BY <1>7, <2>1
    <3>4. /\ EndsWith(cg, ch) \/ EndsWith(ch, cg)
          /\ Len(g) < HistoryLimit => EndsWith(cg, ch)
      BY <2>1 DEF TranscriptsMirror
    <3>5. cg \in Seq(Entry) /\ ch \in Seq(Entry)
      BY <3>3, ConversationNewest
    <3> HIDE DEF g, h
    <3>6. /\ Remember(g, e) \in Seq(Entry) /\ Remember(h, e) \in Seq(Entry)
          /\ \A i \in DOMAIN Remember(g, e) : i > 1 => Remember(g, e)[i].type = "message"
          /\ \A i \in DOMAIN Remember(h, e) : i > 1 => Remember(h, e)[i].type = "message"
          /\ Len(Remember(g, e)) < HistoryLimit => /\ Len(g) < HistoryLimit
                                                   /\ Len(dg) = Len(cg) + 1
      BY <1>4, <3>3, RememberNewest, ConversationGrows
    <3>7. /\ Len(dg) \in 1 .. Len(cg) + 1 /\ dg[Len(dg)] = e
          /\ \A i \in Nat : 0 < i /\ i < Len(dg) => dg[Len(dg) - i] = cg[Len(cg) - i + 1]
      BY <1>4, <3>3, ConversationGrows
    <3>8. /\ Len(dh) \in 1 .. Len(ch) + 1 /\ dh[Len(dh)] = e
          /\ \A i \in Nat : 0 < i /\ i < Len(dh) => dh[Len(dh) - i] = ch[Len(ch) - i + 1]
      BY <1>4, <3>3, ConversationGrows
    <3>9. /\ dg \in Seq(Entry) /\ dh \in Seq(Entry)
          /\ \A i \in DOMAIN dg : dg[i].type = "message"
      BY <3>6, ConversationNewest
    <3> HIDE DEF cg, ch, dg, dh
    <3>10. Len(cg) \in Nat /\ Len(ch) \in Nat /\ Len(dg) \in Nat /\ Len(dh) \in Nat
      BY <3>5, <3>9
    <3>11. Aligned(cg, ch)
      <4>1. CASE EndsWith(cg, ch)
        BY <3>5, <4>1, EndsWithAligned
      <4>2. CASE EndsWith(ch, cg)
        <5>1. Aligned(ch, cg)
          BY <3>5, <4>2, EndsWithAligned
        <5> QED
          BY <5>1 DEF Aligned
      <4> QED
        BY <3>4, <4>1, <4>2
    <3>12. Aligned(dg, dh) /\ Aligned(dh, dg)
      <4> SUFFICES ASSUME NEW i \in Nat, i < Len(dg), i < Len(dh)
                   PROVE  dg[Len(dg) - i] = dh[Len(dh) - i]
        BY DEF Aligned
      <4>1. CASE i = 0
        <5>1. Len(dg) - i = Len(dg) /\ Len(dh) - i = Len(dh)
          BY <3>10, <4>1
        <5> QED
          BY <3>7, <3>8, <5>1
      <4>2. CASE i > 0
        <5>1. Len(dg) <= Len(cg) + 1 /\ Len(dh) <= Len(ch) + 1
          BY <3>7, <3>8, <3>10
        <5>2. /\ i - 1 \in Nat /\ i - 1 < Len(cg) /\ i - 1 < Len(ch)
              /\ Len(cg) - (i - 1) = Len(cg) - i + 1
              /\ Len(ch) - (i - 1) = Len(ch) - i + 1
          BY <3>10, <4>2, <5>1
        <5>3. cg[Len(cg) - (i - 1)] = ch[Len(ch) - (i - 1)]
          BY <3>11, <5>2 DEF Aligned
        <5>4. /\ dg[Len(dg) - i] = cg[Len(cg) - i + 1]
              /\ dh[Len(dh) - i] = ch[Len(ch) - i + 1]
          BY <3>7, <3>8, <4>2
        <5> QED
          BY <5>2, <5>3, <5>4
      <4> QED
        BY <4>1, <4>2
    <3>13. EndsWith(dg, dh) \/ EndsWith(dh, dg)
      <4>1. Len(dh) <= Len(dg) \/ Len(dg) <= Len(dh)
        BY <3>10
      <4> QED
        BY <3>9, <3>12, <4>1, EndsWithAligned
    <3>14. Len(Remember(g, e)) < HistoryLimit => EndsWith(dg, dh)
      <4> SUFFICES ASSUME Len(Remember(g, e)) < HistoryLimit PROVE EndsWith(dg, dh)
        OBVIOUS
      <4>1. EndsWith(cg, ch) /\ Len(dg) = Len(cg) + 1
        BY <3>4, <3>6
      <4>2. Len(ch) <= Len(cg)
        BY <4>1 DEF EndsWith
      <4>3. Len(dh) <= Len(ch) + 1
        BY <3>8, <3>10
      <4>4. Len(dh) <= Len(dg)
        BY <3>10, <4>1, <4>2, <4>3
      <4> QED
        BY <3>9, <3>12, <4>4, EndsWithAligned
    <3> QED
      BY <3>2, <3>9, <3>13, <3>14 DEF dg, dh
  <2> QED
    BY <2>2, <2>3
<1> QED
  BY <1>8, <1>10, <1>11, <1>12

(* A pair that parts leaves the other sessions' histories and the rows of  *)
(* their matches alone.                                                    *)
LEMMA PartingQuiet ==
  ASSUME PairInv, NEW s \in Session,
         \A t \in Session : partner'[t] = IF t = s \/ t = partner[s]
                                         THEN NoSession ELSE partner[t],
         \A t \in Session : t \notin {s, partner[s]} => history'[t] = history[t],
         history'[s] = << >>,
         partner[s] # NoSession => history'[partner[s]] = <<Farewell(s)>>,
         matches' = MatchesWithout({s}), recorded' = RecordedIn(matches')
  PROVE  \A t \in Session : Quiet(t) /\ KeepsIds(t)
<1> USE NoSessionAssumption
<1> SUFFICES ASSUME NEW t \in Session PROVE Quiet(t) /\ KeepsIds(t)
  OBVIOUS
<1>1. CASE t = s
  <2>1. Quiet(t)
    BY <1>1 DEF Quiet
  <2>2. KeepsIds(t)
    BY <1>1 DEF KeepsIds
  <2> QED
    BY <2>1, <2>2
<1>2. CASE t = partner[s]
  <2>1. partner[s] # NoSession
    BY <1>2
  <2>2. partner'[t] = NoSession /\ history'[t] = <<Farewell(s)>>
    BY <1>2, <2>1
  <2> HIDE DEF Farewell
  <2>3. Quiet(t)
    BY <2>2 DEF Quiet
  <2>4. KeepsIds(t)
    BY <2>2 DEF KeepsIds
  <2> QED
    BY <2>3, <2>4
<1>3. CASE t \notin {s, partner[s]}
  <2>1. partner'[t] = partner[t] /\ history'[t] = history[t]
    BY <1>3
  <2>2. Quiet(t)
    BY <2>1 DEF Quiet
  <2>3. ASSUME partner[t] # NoSession,
               NEW m \in {<<t, partner[t]>>, <<partner[t], t>>}, m \in matches
        PROVE  m \in matches' /\ \A id : <<m, id>> \in recorded => <<m, id>> \in recorded'
    <3>1. partner[t] # s
      BY <1>3, <2>3 DEF PairInv, PartnersMutual
    <3>2. m[1] # s /\ m[2] # s
      BY <1>3, <2>3, <3>1
    <3>3. m \in matches'
      BY <2>3, <3>2 DEF MatchesWithout
    <3>4. \A id : <<m, id>>[1] = m
      OBVIOUS
    <3> QED
      BY <3>3, <3>4 DEF RecordedIn
  <2>4. KeepsIds(t)
    BY <2>3 DEF KeepsIds
  <2> QED
    BY <2>2, <2>4
<1> QED
  BY <1>1, <1>2, <1>3

(* Removing a session ends its conversation on both sides.                 *)
LEMMA RemoveSessionQuiet ==
  ASSUME PairInv, NEW s \in Session, RemoveSession(s)
  PROVE  \A t \in Session : Quiet(t) /\ KeepsIds(t)
<1>1. partner[s] # NoSession => /\ partner[s] \in Session /\ partner[s] # s
                                /\ Stored(partner[s])
  BY PartnerFacts
<1>2. \A t \in Session : partner'[t] = IF t = s \/ t = partner[s]
                                      THEN NoSession ELSE partner[t]
  BY RemoveSessionPairs
<1>3. \A t \in Session : t \notin {s, partner[s]} => history'[t] = history[t]
  BY <1>1 DEF RemoveSession, Cleared
<1>4. history'[s] = << >>
  BY <1>1 DEF RemoveSession, Cleared
<1>5. partner[s] # NoSession => history'[partner[s]] = Remember(<< >>, Farewell(s))
  BY <1>1 DEF RemoveSession, Cleared
<1>6. Remember(<< >>, Farewell(s)) = <<Farewell(s)>>
  BY FarewellAlone
<1>7. matches' = MatchesWithout({s}) /\ recorded' = RecordedIn(matches')
  BY DEF RemoveSession
<1> QED
  BY <1>2, <1>3, <1>4, <1>5, <1>6, <1>7, PartingQuiet

(* Init: nothing has been said. *)
LEMMA TranscriptsInit == Init => TranscriptInv
<1> SUFFICES ASSUME Init PROVE TranscriptInv
  OBVIOUS
<1>1. \A s \in Session : DOMAIN history[s] = {}
  <2>1. \A s \in Session : history[s] = << >>
    BY DEF Init
  <2>2. DOMAIN << >> = {}
    OBVIOUS
  <2> QED
    BY <2>1, <2>2
<1>2. TranscriptPrivate /\ NoticeFirst /\ IdsRecorded /\ DeliveredOnce
  BY <1>1 DEF TranscriptPrivate, NoticeFirst, IdsRecorded, DeliveredOnce
<1>3. TranscriptsMirror
  BY DEF Init, TranscriptsMirror
<1> QED
  BY <1>2, <1>3 DEF TranscriptInv

LEMMA TranscriptsStep ==
  PairInv /\ PairInv' /\ TranscriptInv /\ [Next]_vars => TranscriptInv'
<1> SUFFICES ASSUME PairInv, PairInv', TranscriptInv, [Next]_vars
             PROVE  TranscriptInv'
  OBVIOUS
<1> USE NoSessionAssumption
<1> TypeOK
  BY DEF PairInv
<1> DEFINE Others == NoticeFirst' /\ TranscriptsMirror' /\ IdsRecorded' /\ DeliveredOnce'
<1>0. ASSUME UNCHANGED <<partner, history, matches, recorded>> PROVE Others
  <2>1. \A t \in Session : Quiet(t) /\ KeepsIds(t)
    BY <1>0 DEF Quiet, KeepsIds
  <2> QED
    BY <2>1, QuietStep
<1> HIDE DEF Others
<1>1. ASSUME NEW s \in Session, CreateSession(s) PROVE Others
  BY <1>1, <1>0 DEF CreateSession, fields
<1>2. ASSUME NEW s \in Session, Register(s) PROVE Others
  BY <1>2, <1>0 DEF Register, postgres
<1>3. ASSUME NEW s \in Session, LoadOrCreate(s) PROVE Others
  BY <1>3, <1>0 DEF LoadOrCreate, postgres
<1>4. ASSUME NEW s \in Session, EnterQueue(s) PROVE Others
  BY <1>4, <1>0 DEF EnterQueue, postgres
<1>5. ASSUME NEW s \in Session, NEW id \in MessageId \cup {NoId},
             RecordMessage(s, id)
      PROVE  Others
  BY <1>5, MessageStep DEF Others
<1>6. ASSUME NEW s \in Session, Disconnect(s) PROVE Others
  <2>1. partner[s] # NoSession => /\ partner[s] \in Session /\ partner[s] # s
                                  /\ partner[partner[s]] = s /\ Stored(partner[s])
    BY PartnerFacts
  <2>2. \A t \in Session : partner'[t] = IF t = s \/ t = partner[s]
                                        THEN NoSession ELSE partner[t]
    BY <1>6, DisconnectParts
  <2>3. \A t \in Session : t \notin {s, partner[s]} => history'[t] = history[t]
    BY <1>6, <2>1 DEF Disconnect, PointsBack, Cleared
  <2>4. history'[s] = << >>
    BY <1>6, <2>1 DEF Disconnect, PointsBack, Cleared
  <2>5. partner[s] # NoSession => history'[partner[s]] = Remember(<< >>, Farewell(s))
    BY <1>6, <2>1 DEF Disconnect, PointsBack, Cleared
  <2>6. Remember(<< >>, Farewell(s)) = <<Farewell(s)>>
    BY FarewellAlone
  <2>7. matches' = MatchesWithout({s}) /\ recorded' = RecordedIn(matches')
    BY <1>6 DEF Disconnect
  <2>8. \A t \in Session : Quiet(t) /\ KeepsIds(t)
    BY <2>2, <2>3, <2>4, <2>5, <2>6, <2>7, PartingQuiet
  <2> QED
    BY <2>8, QuietStep DEF Others
<1>7. ASSUME NEW s \in Session, MarkDisconnected(s) PROVE Others
  BY <1>7, <1>0 DEF MarkDisconnected, postgres
<1>8. ASSUME NEW s \in Session, StillConnected(s) PROVE Others
  BY <1>8, <1>0 DEF StillConnected, fields, postgres
<1>9. ASSUME NEW s \in Session, RemoveSession(s) PROVE Others
  BY <1>9, RemoveSessionQuiet, QuietStep DEF Others
<1>10. ASSUME NEW s \in Session, DropSocket(s) PROVE Others
  BY <1>10, <1>0 DEF DropSocket, fields, postgres
<1>11. ASSUME NEW s \in Session, Lapse(s) PROVE Others
  BY <1>11, <1>0 DEF Lapse, postgres
<1>12. ASSUME BeginMatch \/ SkipCandidate \/ TakeLeft \/ DeferCandidate \/ GiveUp
       PROVE  Others
  BY <1>12, <1>0
     DEF BeginMatch, SkipCandidate, TakeLeft, DeferCandidate, GiveUp, fields, postgres
<1>13. ASSUME Pair PROVE Others
  <2> DEFINE right == Head(queue)
  <2>1. /\ left \in Session /\ right \in Session
        /\ partner[left] = NoSession /\ partner[right] = NoSession
    <3>1. left \in Session /\ right \in Session
          /\ state[left] = "searching" /\ state[right] = "searching"
      BY <1>13, PairJoinsSearchers
    <3> QED
      BY <3>1 DEF PairInv, PartnersMutual
  <2>2. /\ partner' = [partner EXCEPT ![left] = right, ![right] = left]
        /\ history' = history
        /\ matches' = MatchesWithout({left, right}) \cup {<<left, right>>}
        /\ recorded' = RecordedIn(MatchesWithout({left, right}))
    BY <1>13 DEF Pair
  <2> HIDE DEF right
  <2>3. \A t \in Session : Quiet(t)
    <3>1. \A t \in Session : t \notin {left, right} => partner'[t] = partner[t]
      BY <2>1, <2>2 DEF TypeOK
    <3> QED
      BY <2>1, <2>2, <3>1 DEF Quiet
  <2>4. ASSUME NEW t \in Session, partner[t] # NoSession,
               NEW m \in {<<t, partner[t]>>, <<partner[t], t>>}, m \in matches
        PROVE  m \in matches' /\ \A id : <<m, id>> \in recorded => <<m, id>> \in recorded'
    <3>1. t \notin {left, right} /\ partner[t] \notin {left, right}
      BY <2>1, <2>4 DEF PairInv, PartnersMutual
    <3>2. m[1] \notin {left, right} /\ m[2] \notin {left, right}
      BY <2>4, <3>1
    <3>3. m \in MatchesWithout({left, right})
      BY <2>4, <3>2 DEF MatchesWithout
    <3>4. \A id : <<m, id>>[1] = m
      OBVIOUS
    <3> QED
      BY <2>2, <3>3, <3>4 DEF RecordedIn
  <2>5. \A t \in Session : KeepsIds(t)
    BY <2>4 DEF KeepsIds
  <2> QED
    BY <2>3, <2>5, QuietStep DEF Others
<1>14. ASSUME BeginExpiry PROVE Others
  BY <1>14, <1>0 DEF BeginExpiry, fields, postgres
<1>15. ASSUME Restart PROVE Others
  BY <1>15, <1>0 DEF Restart, postgres
<1>16. ASSUME UNCHANGED vars PROVE Others
  BY <1>16, <1>0 DEF vars
<1>17. Others
  BY <1>1, <1>2, <1>3, <1>4, <1>5, <1>6, <1>7, <1>8, <1>9, <1>10, <1>11, <1>12,
     <1>13, <1>14, <1>15, <1>16 DEF Next, TryMatch, Expire, Revoke, ExpireOne
<1>18. TranscriptPrivate'
  BY TranscriptStep DEF TranscriptInv
<1> QED
  BY <1>17, <1>18 DEF TranscriptInv, Others

LEMMA TranscriptInvariant == Spec => [](PairInv /\ TranscriptInv)
<1>1. Init => PairInv /\ TranscriptInv
  BY PairInit, TranscriptsInit
<1>2. PairInv /\ TranscriptInv /\ [Next]_vars => (PairInv /\ TranscriptInv)'
  <2>1. PairInv /\ [Next]_vars => PairInv'
    BY PairStep
  <2>2. PairInv /\ PairInv' /\ TranscriptInv /\ [Next]_vars => TranscriptInv'
    BY TranscriptsStep
  <2> QED
    BY <2>1, <2>2
<1> QED
  BY <1>1, <1>2, PTL DEF Spec

(* Within a match a client message id is delivered once, whoever sends it  *)
(* again and however often: append_message refuses the second.             *)
THEOREM Delivery == Spec => []DeliveredOnce
<1>1. TranscriptInv => DeliveredOnce
  BY DEF TranscriptInv
<1> QED
  BY <1>1, TranscriptInvariant, PTL

(* The two sides of a match keep the same conversation, up to what a full  *)
(* history has let go of, whatever the histories held before it.           *)
THEOREM Mirrors == Spec => []TranscriptsMirror
<1>1. TranscriptInv => TranscriptsMirror
  BY DEF TranscriptInv
<1> QED
  BY <1>1, TranscriptInvariant, PTL

--------------------------------------------------------------------------------
(* The runtime implements Pairing. *)

(* Steps that touch neither partner nor the set of searchers stutter ...   *)
LEMMA StutterSteps ==
  ASSUME PairInv, UNCHANGED partner,
         \A s \in Session : state'[s] = "searching" <=> state[s] = "searching"
  PROVE  UNCHANGED Promise!pairing
BY DEF Promise!pairing

(* ... those that only end searches are steps of Pairing ...               *)
LEMMA QuitSteps ==
  ASSUME PairInv, UNCHANGED partner,
         \A s \in Session : state'[s] = "searching" => state[s] = "searching"
  PROVE  Promise!Next
<1>1. Promise!Quit
  BY DEF Promise!Quit
<1> QED
  BY <1>1 DEF Promise!Next

(* ... and so are those that end the match of s, or else its search.       *)
LEMMA PartSteps ==
  ASSUME PairInv, PairInv', NEW s \in Session,
         \A t \in Session : partner'[t] = IF t = s \/ t = partner[s]
                                         THEN NoSession ELSE partner[t],
         \A t \in Session : IF t = s \/ t = partner[s]
                            THEN state'[t] # "searching"
                            ELSE state'[t] = state[t]
  PROVE  Promise!Next
<1> USE NoSessionAssumption
<1> TypeOK /\ TypeOK'
  BY DEF PairInv
<1>1. CASE partner[s] = NoSession
  <2>1. partner' = partner
    <3>1. \A t \in Session : partner'[t] = partner[t]
      BY <1>1
    <3> QED
      BY <3>1 DEF TypeOK
  <2>2. \A t \in Session : state'[t] = "searching" => state[t] = "searching"
    BY <1>1
  <2> QED
    BY <2>1, <2>2, QuitSteps
<1>2. CASE partner[s] # NoSession
  <2> DEFINE p == partner[s]
  <2>1. p \in Session /\ partner[p] = s /\ p # s
    BY <1>2, PartnerFacts
  <2>2. state[s] # "searching" /\ state[p] # "searching"
    BY <1>2, <2>1 DEF PairInv, PartnersMutual
  <2>3. partner' = [partner EXCEPT ![s] = NoSession, ![p] = NoSession]
    BY <2>1 DEF TypeOK
  <2>4. \A t \in Session : state'[t] = "searching" <=> state[t] = "searching"
    BY <2>2
  <2>5. PICK b \in Session : b = p
    BY <2>1
  <2>6. Promise!Part(s, b)
    BY <2>3, <2>4, <2>5 DEF Promise!Part
  <2> QED
    BY <2>6 DEF Promise!Next
<1> QED
  BY <1>1, <1>2

(* Every step of the runtime is one step of Pairing, or none.              *)
LEMMA PromiseStep ==
  PairInv /\ PairInv' /\ [Next]_vars => [Promise!Next]_(Promise!pairing)
<1> SUFFICES ASSUME PairInv, PairInv', [Next]_vars
             PROVE  [Promise!Next]_(Promise!pairing)
  OBVIOUS
<1> USE NoSessionAssumption
<1> TypeOK /\ TypeOK'
  BY DEF PairInv
<1>0. ASSUME UNCHANGED <<state, partner>> PROVE UNCHANGED Promise!pairing
  BY <1>0, StutterSteps
<1>1. ASSUME NEW s \in Session, CreateSession(s) PROVE UNCHANGED Promise!pairing
  BY <1>1, <1>0 DEF CreateSession, fields
<1>2. ASSUME NEW s \in Session, Register(s) PROVE Promise!Next
  <2>1. \A t \in Session : state'[t] = "searching" => state[t] = "searching"
    BY <1>2 DEF Register, TypeOK
  <2> QED
    BY <1>2, <2>1, QuitSteps DEF Register
<1>3. ASSUME NEW s \in Session, LoadOrCreate(s) PROVE Promise!Next
  <2>1. \A t \in Session : state'[t] = "searching" => state[t] = "searching"
    BY <1>3 DEF LoadOrCreate, TypeOK
  <2> QED
    BY <1>3, <2>1, QuitSteps DEF LoadOrCreate
<1>4. ASSUME NEW s \in Session, EnterQueue(s) PROVE Promise!Next
  <2>1. \A t \in Session : state'[t] = "searching" <=> t = s \/ state[t] = "searching"
    BY <1>4 DEF EnterQueue, TypeOK
  <2>2. partner[s] = NoSession /\ partner' = partner
    BY <1>4 DEF EnterQueue
  <2>3. Promise!Seek(s)
    BY <2>1, <2>2 DEF Promise!Seek
  <2> QED
    BY <2>3 DEF Promise!Next
<1>5. ASSUME NEW s \in Session, NEW id \in MessageId \cup {NoId},
             RecordMessage(s, id)
      PROVE  UNCHANGED Promise!pairing
  BY <1>5, <1>0 DEF RecordMessage, fields
<1>6. ASSUME NEW s \in Session, Disconnect(s) PROVE Promise!Next
  BY <1>6, DisconnectParts, PartSteps
<1>7. ASSUME NEW s \in Session, MarkDisconnected(s)
      PROVE  UNCHANGED Promise!pairing
  BY <1>7, <1>0 DEF MarkDisconnected
<1>8. ASSUME NEW s \in Session, StillConnected(s) PROVE UNCHANGED Promise!pairing
  BY <1>8, <1>0 DEF StillConnected, fields
<1>9. ASSUME NEW s \in Session, RemoveSession(s) PROVE Promise!Next
  <2>1. \A t \in Session :
          /\ partner'[t] = IF t = s \/ t = partner[s] THEN NoSession ELSE partner[t]
          /\ t # s /\ t # partner[s] => state'[t] = state[t]
    BY <1>9, RemoveSessionPairs
  <2>2. state'[s] = "absent"
        /\ (partner[s] # NoSession => state'[partner[s]] = "idle")
    BY <1>9, RemoveSessionPairs
  <2>3. \A t \in Session : IF t = s \/ t = partner[s]
                           THEN state'[t] # "searching"
                           ELSE state'[t] = state[t]
    BY <2>1, <2>2
  <2> QED
    BY <2>1, <2>3, PartSteps
<1>10. ASSUME NEW s \in Session, DropSocket(s) PROVE UNCHANGED Promise!pairing
  BY <1>10, <1>0 DEF DropSocket, fields
<1>11. ASSUME NEW s \in Session, Lapse(s) PROVE UNCHANGED Promise!pairing
  BY <1>11, <1>0 DEF Lapse
<1>12. ASSUME BeginMatch \/ SkipCandidate \/ TakeLeft \/ DeferCandidate \/ GiveUp
       PROVE  UNCHANGED Promise!pairing
  BY <1>12, <1>0
     DEF BeginMatch, SkipCandidate, TakeLeft, DeferCandidate, GiveUp, fields
<1>13. ASSUME Pair PROVE Promise!Next
  <2> DEFINE right == Head(queue)
  <2>1. /\ left \in Session /\ right \in Session /\ left # right
        /\ state[left] = "searching" /\ state[right] = "searching"
    BY <1>13, PairJoinsSearchers
  <2>2. AccountOf[left] # AccountOf[right]
    BY <1>13 DEF Pair, SameAccount
  <2>3. /\ partner' = [partner EXCEPT ![left] = right, ![right] = left]
        /\ state' = [state EXCEPT ![left] = "connected", ![right] = "connected"]
    BY <1>13 DEF Pair
  <2> HIDE DEF right
  <2>4. \A t \in Session : state'[t] = "searching" <=>
          state[t] = "searching" /\ t \notin {left, right}
    BY <2>1, <2>3 DEF TypeOK
  <2>5. PICK a \in Session, b \in Session : a = left /\ b = right
    BY <2>1
  <2>6. Promise!Couple(a, b)
    BY <2>1, <2>2, <2>3, <2>4, <2>5 DEF Promise!Couple
  <2> QED
    BY <2>6 DEF Promise!Next
<1>14. ASSUME BeginExpiry PROVE UNCHANGED Promise!pairing
  BY <1>14, <1>0 DEF BeginExpiry, fields
<1>15. ASSUME Restart PROVE Promise!Next
  <2>1. \A t \in Session : state'[t] # "searching"
    BY <1>15 DEF Restart
  <2> QED
    BY <1>15, <2>1, QuitSteps DEF Restart
<1>16. ASSUME UNCHANGED vars PROVE UNCHANGED Promise!pairing
  BY <1>16, <1>0 DEF vars
<1> QED
  BY <1>1, <1>2, <1>3, <1>4, <1>5, <1>6, <1>7, <1>8, <1>9, <1>10, <1>11, <1>12,
     <1>13, <1>14, <1>15, <1>16 DEF Next, TryMatch, Expire, Revoke, ExpireOne

(* The runtime implements Pairing: seen through partner and the set of     *)
(* SEARCHING sessions, each locked method, whatever it writes to the two   *)
(* stores, is one atomic step of the abstract specification or none.       *)
THEOREM Implements == Spec => Refines
<1>1. Init => Promise!Init
  BY DEF Init, Promise!Init
<1>2. Init => PairInv
  BY PairInit
<1>3. PairInv /\ [Next]_vars => PairInv'
  BY PairStep
<1>4. PairInv /\ PairInv' /\ [Next]_vars => [Promise!Next]_(Promise!pairing)
  BY PromiseStep
<1> QED
  BY <1>1, <1>2, <1>3, <1>4, PTL DEF Spec, Refines, Promise!Spec

(* The theorems about Pairing, for the runtime's partners and searchers.   *)
Promised == INSTANCE PairingProofs
              WITH seeking <- {s \in Session : state[s] = "searching"}

(* What Pairing says of every partner found holds of the runtime: a match  *)
(* is made only between two sessions that both search; no handler, expiry  *)
(* or restart gives a session a partner it did not ask for, or passes it   *)
(* on from one to another.                                                 *)
MatchesSearchers ==
  \A s \in Session : partner'[s] \notin {NoSession, partner[s]} =>
    /\ partner[s] = NoSession
    /\ state[s] = "searching" /\ state[partner'[s]] = "searching"

(* It is inherited from Pairing by the refinement.                         *)
THEOREM MatchedByConsent == Spec => [][MatchesSearchers]_vars
<1>1. NoSession \notin Session
  BY NoSessionAssumption
<1>2. Promised!Spec => [][Promised!ByConsent]_(Promised!pairing)
  BY <1>1, Promised!Consent, PTL
<1>3. Promise!Init => Promised!Init
  BY DEF Promise!Init, Promised!Init
<1>4. [Promise!Next]_(Promise!pairing) => [Promised!Next]_(Promised!pairing)
  BY DEF Promise!Next, Promise!Seek, Promise!Quit, Promise!Couple, Promise!Part,
         Promise!pairing, Promised!Next, Promised!Seek, Promised!Quit,
         Promised!Couple, Promised!Part, Promised!pairing
<1>5. Refines => Promised!Spec
  BY <1>3, <1>4, PTL DEF Refines, Promise!Spec, Promised!Spec
<1>6. [Promised!ByConsent]_(Promised!pairing) => [MatchesSearchers]_vars
  BY DEF Promised!ByConsent, Promised!pairing, MatchesSearchers, vars
<1> QED
  BY <1>2, <1>5, <1>6, Implements, PTL

--------------------------------------------------------------------------------
(* The inductive invariant as a whole, for the modules that build on this  *)
(* one: everything the runtime's safety rests on holds in every reachable  *)
(* state.                                                                  *)
THEOREM Inductive == Spec => []Inv
<1>1. PairInv /\ ClockInv /\ LineInv /\ TranscriptInv => Inv
  BY DEF Inv
<1> QED
  BY <1>1, LineInvariant, TranscriptInvariant, PTL

--------------------------------------------------------------------------------
(* The startup repair. *)

(* What a crash must leave behind in Redis and PostgreSQL: pairs that      *)
(* agree, of sessions with an active row, and their transcripts.  Nothing  *)
(* is asked of states, deadlines, the waiting list, presence, the hub or   *)
(* of what a method had in its hands.                                      *)
Durable ==
  /\ status \in [Session -> {"unissued", "active", "closed"}]
  /\ matches \in SUBSET (Session \X Session)
  /\ recorded \in SUBSET ((Session \X Session) \X MessageId)
  /\ partner \in [Session -> Session \cup {NoSession}]
  /\ history \in [Session -> Seq(Entry)]
  /\ \A s \in Session : partner[s] # NoSession =>
       /\ Stored(s) /\ status[s] = "active"
       /\ partner[partner[s]] = s
       /\ partner[s] # s
       /\ ~SameAccount(s, partner[s])
  /\ DurableMatchesAgree
  /\ TranscriptInv

(* In between two methods it is there to be left behind.                   *)
LEMMA DurableAlways == Inv => Durable
<1> SUFFICES ASSUME Inv PROVE Durable
  OBVIOUS
<1>1. \A s \in Session : partner[s] # NoSession => Stored(s) /\ status[s] = "active"
  BY DEF Inv, PairInv, PartnersMutual, LineInv, OnlyActiveMatched, Stored
<1> QED
  BY <1>1 DEF Inv, PairInv, PartnersMutual, TypeOK, Durable

(* reset_online and prepare_for_startup bring back the whole invariant     *)
(* from it: states, deadlines, the waiting list and presence are rebuilt,  *)
(* whatever they were when the process died.                               *)
THEOREM StartupRepairs == Durable /\ Restart => Inv'
<1> SUFFICES ASSUME Durable, Restart PROVE Inv'
  OBVIOUS
<1> USE NoSessionAssumption
<1>1. /\ UNCHANGED <<status, matches, recorded, partner, history>>
      /\ queue' = << >> /\ online' = {} /\ dropping' = {} /\ served' = {}
      /\ lock' = "free" /\ left' = NoSession /\ deferred' = << >> /\ expiring' = {}
  BY DEF Restart, postgres
<1>2. /\ state' = [s \in Session |-> IF ~Stored(s) THEN "absent"
                                     ELSE IF partner[s] = NoSession THEN "idle"
                                     ELSE "connected"]
      /\ deadline' = [s \in Session |->
                        IF partner[s] = NoSession THEN "none" ELSE "running"]
      /\ hub' = [s \in Session |-> 0]
  BY DEF Restart
<1>3. TypeOK'
  BY <1>1, <1>2, EmptySeq DEF TypeOK, Durable
<1>4. /\ \A s \in Session : /\ state'[s] = "connected" <=> partner'[s] # NoSession
                            /\ state'[s] # "searching"
                            /\ state'[s] = "absent" => partner'[s] = NoSession
                            /\ hub'[s] = 0
                            /\ deadline'[s] = "none" <=> partner'[s] = NoSession
  BY <1>1, <1>2 DEF Durable
<1>5. PartnersMutual' /\ AbsentIsBlank'
  BY <1>1, <1>4 DEF Durable, PartnersMutual, AbsentIsBlank, Stored, SameAccount
<1>6. SearchInHand'
  BY <1>1 DEF SearchInHand
<1>7. DurableMatchesAgree'
  BY <1>1 DEF Durable, DurableMatchesAgree, ActiveMatch
<1>8. ClockInv'
  BY <1>1, <1>4 DEF ClockInv, PresenceExact, AbandonedMatchHasClock, ExpiryInHand
<1>9. LineInv'
  <2>1. Waiting' = {} /\ Elements(queue') = {} /\ Elements(deferred') = {}
    BY <1>1, EmptyParts DEF Waiting
  <2>2. LineParts' /\ DeferredShare'
    BY <1>1, <2>1, EmptyParts DEF LineParts, DeferredShare
  <2> QED
    BY <1>1, <1>4, <2>1, <2>2 DEF Durable, LineInv, NoLostSearcher, OnlyActiveMatched
<1>10. TranscriptInv'
  <2> TranscriptInv /\ UNCHANGED <<matches, recorded, partner, history>>
    BY <1>1 DEF Durable
  <2>1. TranscriptPrivate' /\ NoticeFirst' /\ DeliveredOnce'
    BY DEF TranscriptInv, TranscriptPrivate, NoticeFirst, DeliveredOnce
  <2>2. TranscriptsMirror'
    BY DEF TranscriptInv, TranscriptsMirror
  <2>3. IdsRecorded'
    BY DEF TranscriptInv, IdsRecorded
  <2> QED
    BY <2>1, <2>2, <2>3 DEF TranscriptInv
<1> QED
  BY <1>3, <1>5, <1>6, <1>7, <1>8, <1>9, <1>10 DEF Inv, PairInv

================================================================================
