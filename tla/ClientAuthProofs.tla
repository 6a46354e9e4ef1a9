---------------------------- MODULE ClientAuthProofs ----------------------------
(* Proofs about ClientAuth, for any number of attempts and events: its      *)
(* types, and that no page waits for a request or a loop that has ended.   *)
EXTENDS ClientAuth, TLAPS

--------------------------------------------------------------------------------
(* The types, in the parts that steps change together.                     *)
LoginOK ==
  /\ login \in Login /\ stack \in BOOLEAN
  /\ auth \in Login /\ ready \in BOOLEAN
  /\ events \in 0..MaxEvents
CallsOK == calls \subseteq CallRecord
PageOK ==
  /\ route \in Route /\ leaving \in {NoPage, "auth", "chat", "landing"}
  /\ pending \in BOOLEAN
  /\ polling \in BOOLEAN /\ wasIn \in BOOLEAN /\ expired \in BOOLEAN
  /\ validated \in Key /\ revalidating \in BOOLEAN
  /\ syncing \in BOOLEAN /\ syncFailed \in BOOLEAN
  /\ gender \in {"idle", "holding", "appear", "disappear", "saving"}
  /\ settings \in BOOLEAN

LEMMA TypeParts == TypeOK <=> LoginOK /\ CallsOK /\ PageOK
BY DEF TypeOK, LoginOK, CallsOK, PageOK

(* What keeps WaitsForSomething: a flag is up for a call whose component   *)
(* is still there, since the answer to another one puts nothing down; and  *)
(* the gender dialog is there while it is doing something.                 *)
BootInv == ready \/ \E c \in calls : c.kind = "boot"
GuardInv == revalidating => \E c \in calls : c.kind = "guard" /\ c.live
SyncInv ==
  /\ syncing => \E c \in calls : c.kind = "signout" \/ (c.kind = "sync" /\ c.live)
  /\ \A c, d \in calls : c.kind = "sync" /\ d.kind = "sync" /\ c.live /\ d.live => c = d
GenderInv ==
  /\ gender # "idle" => GenderAsked(auth)
  /\ gender = "saving" => \E c \in calls : c.kind = "gender" /\ c.live

Inv == TypeOK /\ BootInv /\ GuardInv /\ SyncInv /\ GenderInv

LEMMA InvHolds == Inv => TypeOK /\ WaitsForSomething
BY DEF Inv, BootInv, GuardInv, SyncInv, GenderInv, WaitsForSomething, InFlight

LEMMA CallType ==
  ASSUME NEW kind \in Kind
  PROVE  Call(kind) \in CallRecord /\ Call(kind).kind = kind /\ Call(kind).live = TRUE
BY AttemptsAssumption DEF Call, CallRecord, Key, Empty, Login

LEMMA InitInv == Init => Inv
<1> SUFFICES ASSUME Init PROVE Inv
  OBVIOUS
<1>1. LoginOK
  <2>1. login \in Login /\ login.in \in BOOLEAN /\ Empty \in Login
    BY DEF Init, Login, Empty
  <2>2. login \in Login /\ stack \in BOOLEAN /\ auth \in Login
    BY <2>1 DEF Init
  <2>3. ready \in BOOLEAN
    BY DEF Init
  <2>4. events \in 0..MaxEvents
    BY BoundAssumption DEF Init
  <2> QED
    BY <2>2, <2>3, <2>4 DEF LoginOK
<1>2. CallsOK /\ BootInv
  BY CallType DEF Init, Mounting, CallsOK, BootInv, Kind
<1>3. PageOK
  BY DEF Init, PageOK, Route, Key
<1>4. GuardInv /\ GenderInv
  BY DEF Init, GuardInv, GenderInv
<1>5. SyncInv
  BY CallType DEF Init, Mounting, SyncInv, Kind
<1> QED
  BY <1>1, <1>2, <1>3, <1>4, <1>5, TypeParts DEF Inv

--------------------------------------------------------------------------------
(* What happens to calls.                                                  *)

(* A copy of a call with another state, answer, attempt or owner.          *)
LEMMA Copies ==
  ASSUME NEW c \in CallRecord
  PROVE  /\ [c EXCEPT !.live = FALSE] \in CallRecord
         /\ [c EXCEPT !.live = FALSE].kind = c.kind
         /\ [c EXCEPT !.live = FALSE].live = FALSE
         /\ \A at \in {"stack", "sent", "answered", "failed", "waiting"} :
              /\ [c EXCEPT !.at = at] \in CallRecord
              /\ [c EXCEPT !.at = at].kind = c.kind /\ [c EXCEPT !.at = at].live = c.live
              /\ \A a \in Login :
                   /\ [c EXCEPT !.at = at, !.seen = a] \in CallRecord
                   /\ [c EXCEPT !.at = at, !.seen = a].kind = c.kind
                   /\ [c EXCEPT !.at = at, !.seen = a].live = c.live
              /\ \A n \in 0..SyncAttempts :
                   /\ [c EXCEPT !.at = at, !.n = n] \in CallRecord
                   /\ [c EXCEPT !.at = at, !.n = n].kind = c.kind
                   /\ [c EXCEPT !.at = at, !.n = n].live = c.live
<1>1. /\ [c EXCEPT !.live = FALSE] \in CallRecord
      /\ [c EXCEPT !.live = FALSE].kind = c.kind
      /\ [c EXCEPT !.live = FALSE].live = FALSE
  BY DEF CallRecord
<1>2. ASSUME NEW at \in {"stack", "sent", "answered", "failed", "waiting"}
      PROVE  /\ [c EXCEPT !.at = at] \in CallRecord
             /\ [c EXCEPT !.at = at].kind = c.kind /\ [c EXCEPT !.at = at].live = c.live
  BY DEF CallRecord
<1>3. ASSUME NEW at \in {"stack", "sent", "answered", "failed", "waiting"}, NEW a \in Login
      PROVE  /\ [c EXCEPT !.at = at, !.seen = a] \in CallRecord
             /\ [c EXCEPT !.at = at, !.seen = a].kind = c.kind
             /\ [c EXCEPT !.at = at, !.seen = a].live = c.live
  BY DEF CallRecord
<1>4. ASSUME NEW at \in {"stack", "sent", "answered", "failed", "waiting"}, NEW n \in 0..SyncAttempts
      PROVE  /\ [c EXCEPT !.at = at, !.n = n] \in CallRecord
             /\ [c EXCEPT !.at = at, !.n = n].kind = c.kind
             /\ [c EXCEPT !.at = at, !.n = n].live = c.live
  BY DEF CallRecord
<1> QED
  BY <1>1, <1>2, <1>3, <1>4

LEMMA CopyFor ==
  ASSUME NEW c \in CallRecord, NEW k \in Key
  PROVE  /\ [c EXCEPT !.key = k] \in CallRecord
         /\ [c EXCEPT !.key = k].kind = c.kind /\ [c EXCEPT !.key = k].live = c.live
BY DEF CallRecord

LEMMA CopyNumbered ==
  ASSUME NEW c \in CallRecord, NEW n \in 0..SyncAttempts
  PROVE  /\ [c EXCEPT !.n = n] \in CallRecord
         /\ [c EXCEPT !.n = n].kind = c.kind /\ [c EXCEPT !.n = n].live = c.live
BY DEF CallRecord

(* One call takes a step and stays of its kind and owner, or is done.      *)
Moved(c, d) == d \in CallRecord /\ d.kind = c.kind /\ d.live = c.live

LEMMA MovedTypes ==
  ASSUME CallsOK, NEW c \in calls, NEW d, Moved(c, d), calls' = (calls \ {c}) \cup {d}
  PROVE  CallsOK'
BY DEF CallsOK, Moved

LEMMA MovedWaits ==
  ASSUME NEW c \in calls, NEW d, Moved(c, d), calls' = (calls \ {c}) \cup {d}
  PROVE  /\ BootInv /\ ready' = ready => BootInv'
         /\ GuardInv /\ revalidating' = revalidating => GuardInv'
         /\ SyncInv /\ syncing' = syncing => SyncInv'
         /\ GenderInv /\ gender' = gender /\ UNCHANGED <<auth, route>> => GenderInv'
<1> USE DEF Moved
<1>1. BootInv /\ ready' = ready => BootInv'
  BY DEF BootInv
<1>2. GuardInv /\ revalidating' = revalidating => GuardInv'
  BY DEF GuardInv
<1>3. SyncInv /\ syncing' = syncing => SyncInv'
  BY DEF SyncInv
<1>4. GenderInv /\ gender' = gender /\ UNCHANGED <<auth, route>> => GenderInv'
  BY DEF GenderInv, GenderAsked
<1> QED
  BY <1>1, <1>2, <1>3, <1>4

(* Calls whose component has gone are the same calls, no longer live.      *)
LEMMA OrphanedCalls ==
  ASSUME NEW C \in SUBSET CallRecord, NEW kinds
  PROVE  /\ Orphaned(C, kinds) \subseteq CallRecord
         /\ \A d \in Orphaned(C, kinds) :
              d \in C \/ (d.kind \in kinds /\ ~d.live /\ \E c \in C : c.kind = d.kind)
         /\ \A c \in C : c.kind \notin kinds => c \in Orphaned(C, kinds)
         /\ \A c \in C : \E d \in Orphaned(C, kinds) : d.kind = c.kind
<1> DEFINE Orphan(c) == IF c.kind \in kinds THEN [c EXCEPT !.live = FALSE] ELSE c
<1>1. ASSUME NEW c \in C
      PROVE  /\ Orphan(c) \in CallRecord /\ Orphan(c).kind = c.kind
             /\ c.kind \in kinds => Orphan(c).live = FALSE
             /\ c.kind \notin kinds => Orphan(c) = c
  BY Copies
<1>2. Orphaned(C, kinds) = {Orphan(c) : c \in C}
  BY DEF Orphaned
<1> HIDE DEF Orphan
<1> QED
  BY <1>1, <1>2

(* A call is settled, and at most one call of its kind and owner follows.  *)
LEMMA SettledWaits ==
  ASSUME CallsOK, NEW c \in calls, NEW S, \A d \in S : Moved(c, d), \A d, e \in S : d = e,
         Settled(c, S)
  PROVE  /\ CallsOK'
         /\ BootInv /\ ((c.kind # "boot" /\ ready' = ready) \/ ready') => BootInv'
         /\ GuardInv /\ (revalidating' => revalidating /\ ~(c.kind = "guard" /\ c.live)) => GuardInv'
         /\ /\ SyncInv
            /\ syncing' => syncing /\ (S # {} \/ (c.kind # "signout" /\ ~(c.kind = "sync" /\ c.live)))
            => SyncInv'
         /\ GenderInv /\ GenderKept /\ route' = route /\ c.kind # "gender" => GenderInv'
<1> DEFINE X == (calls \ {c}) \cup S
           kinds == IF GenderAsked(auth') THEN {} ELSE {"gender"}
<1>1. calls' = Orphaned(X, kinds)
  BY DEF Settled
<1>2. X \in SUBSET CallRecord
  BY DEF CallsOK, Moved
<1> HIDE DEF X
<1>3. /\ calls' \subseteq CallRecord
      /\ \A d \in calls' : d \in X \/ (d.kind \in kinds /\ ~d.live /\ \E e \in X : e.kind = d.kind)
      /\ \A d \in X : d.kind \notin kinds => d \in calls'
      /\ \A d \in X : \E e \in calls' : e.kind = d.kind
  BY <1>1, <1>2, OrphanedCalls
<1>4. \A d \in X : (d \in calls /\ d # c) \/ (d.kind = c.kind /\ d.live = c.live /\ d \in S)
  BY DEF X, Moved
<1>5. \A d \in calls : d # c => d \in X
  BY DEF X
<1>6. \A d \in S : d \in X /\ d.kind = c.kind /\ d.live = c.live
  BY DEF X, Moved
<1>7. CallsOK'
  BY <1>3 DEF CallsOK
<1>8. ASSUME BootInv, (c.kind # "boot" /\ ready' = ready) \/ ready' PROVE BootInv'
  BY <1>3, <1>5, <1>8 DEF BootInv
<1>9. ASSUME GuardInv, revalidating' => revalidating /\ ~(c.kind = "guard" /\ c.live)
      PROVE  GuardInv'
  BY <1>3, <1>5, <1>9 DEF GuardInv
<1>10. ASSUME SyncInv,
              syncing' => syncing /\ (S # {} \/ (c.kind # "signout" /\ ~(c.kind = "sync" /\ c.live)))
       PROVE  SyncInv'
  <2>1. \A d, e \in calls' : d.kind = "sync" /\ e.kind = "sync" /\ d.live /\ e.live => d = e
    BY <1>3, <1>4, <1>10 DEF SyncInv
  <2>2. ASSUME syncing' PROVE \E d \in calls' : d.kind = "signout" \/ (d.kind = "sync" /\ d.live)
    <3>1. PICK d \in calls : d.kind = "signout" \/ (d.kind = "sync" /\ d.live)
      BY <1>10, <2>2 DEF SyncInv
    <3>2. \E e \in X : e.kind = d.kind /\ e.live = d.live
      BY <1>5, <1>6, <1>10, <2>2, <3>1
    <3> QED
      BY <1>3, <3>1, <3>2
  <2> QED
    BY <2>1, <2>2 DEF SyncInv
<1>11. ASSUME GenderInv, GenderKept, route' = route, c.kind # "gender" PROVE GenderInv'
  <2>1. CASE GenderAsked(auth')
    <3>1. gender' = gender /\ kinds = {} /\ GenderAsked(auth)'
      BY <1>11, <2>1 DEF GenderKept, GenderAsked
    <3>2. gender = "saving" => \E d \in X : d.kind = "gender" /\ d.live
      BY <1>5, <1>11 DEF GenderInv
    <3> QED
      BY <1>3, <3>1, <3>2 DEF GenderInv
  <2>2. CASE ~GenderAsked(auth')
    BY <1>11, <2>2 DEF GenderKept, GenderInv
  <2> QED
    BY <2>1, <2>2
<1> QED
  BY <1>7, <1>8, <1>9, <1>10, <1>11

(* A call is added, and nothing else happens to calls.                     *)
LEMMA AddedWaits ==
  ASSUME NEW d, calls' = calls \cup {d}
  PROVE  /\ BootInv /\ ready' = ready => BootInv'
         /\ GuardInv /\ (revalidating' => revalidating \/ (d.kind = "guard" /\ d.live)) => GuardInv'
         /\ SyncInv /\ d.kind # "sync" /\ (syncing' => syncing \/ d.kind = "signout") => SyncInv'
         /\ GenderInv /\ UNCHANGED <<auth, route>>
            /\ (gender' = gender \/ (gender # "idle" /\ d.kind = "gender" /\ d.live)) => GenderInv'
<1>1. BootInv /\ ready' = ready => BootInv'
  BY DEF BootInv
<1>2. GuardInv /\ (revalidating' => revalidating \/ (d.kind = "guard" /\ d.live)) => GuardInv'
  BY DEF GuardInv
<1>3. SyncInv /\ d.kind # "sync" /\ (syncing' => syncing \/ d.kind = "signout") => SyncInv'
  BY DEF SyncInv
<1>4. GenderInv /\ UNCHANGED <<auth, route>>
        /\ (gender' = gender \/ (gender # "idle" /\ d.kind = "gender" /\ d.live)) => GenderInv'
  BY DEF GenderInv, GenderAsked
<1> QED
  BY <1>1, <1>2, <1>3, <1>4

LEMMA StillWaits ==
  ASSUME Inv, UNCHANGED <<calls, auth, route, ready, revalidating, syncing, gender>>
  PROVE  CallsOK' /\ BootInv' /\ GuardInv' /\ SyncInv' /\ GenderInv'
BY DEF Inv, TypeOK, CallsOK, BootInv, GuardInv, SyncInv, GenderInv, GenderAsked

Waits == CallsOK /\ BootInv /\ GuardInv /\ SyncInv /\ GenderInv

(* A call is answered, lost, or settled.                                   *)
LEMMA AnswerKeeps ==
  ASSUME Inv, NEW c \in calls, Serve(c) \/ Lose(c), login' \in Login
  PROVE  Waits'
<1>1. c \in CallRecord
  BY DEF Inv, TypeOK
<1>2. Answer' \in Login
  BY DEF Answer, Empty, Login
<1>3. \E d : Moved(c, d) /\ calls' = (calls \ {c}) \cup {d}
  <2>1. Moved(c, [c EXCEPT !.at = "failed"]) /\ Moved(c, [c EXCEPT !.at = "answered", !.seen = Answer'])
    BY <1>1, <1>2, Copies DEF Moved
  <2> QED
    BY <2>1 DEF Serve, Lose
<1>4. UNCHANGED <<auth, route, ready, revalidating, syncing, gender>>
  BY DEF Serve, Lose, guard, authPage, dialogs
<1> QED
  BY <1>3, <1>4, MovedTypes, MovedWaits DEF Inv, TypeOK, CallsOK, Waits

LEMMA BootedKeeps == ASSUME Inv, NEW c \in calls, Booted(c) PROVE Waits'
<1>1. /\ Settled(c, {}) /\ GenderKept /\ c.kind = "boot" /\ ready'
      /\ UNCHANGED <<route, revalidating, syncing>>
  BY DEF Booted, guard, authPage
<1> QED
  BY <1>1, SettledWaits DEF Inv, TypeOK, CallsOK, Waits

LEMMA ProbedKeeps == ASSUME Inv, NEW c \in calls, Probed(c) PROVE Waits'
<1>1. /\ Settled(c, {}) /\ GenderKept /\ c.kind = "probe"
      /\ UNCHANGED <<route, ready, revalidating, syncing>>
  BY DEF Probed, guard, authPage
<1> QED
  BY <1>1, SettledWaits DEF Inv, TypeOK, CallsOK, Waits

LEMMA GuardedKeeps == ASSUME Inv, NEW c \in calls, Guarded(c) PROVE Waits'
<1>1. /\ Settled(c, {}) /\ GenderKept /\ c.kind = "guard"
      /\ revalidating' = (revalidating /\ ~c.live)
      /\ UNCHANGED <<route, ready, syncing>>
  BY DEF Guarded, authPage
<1> QED
  BY <1>1, SettledWaits DEF Inv, TypeOK, CallsOK, Waits

LEMMA SyncedKeeps == ASSUME Inv, NEW c \in calls, Synced(c) PROVE Waits'
<1> DEFINE d == [c EXCEPT !.at = "waiting", !.seen = Empty]
           S == IF c.live THEN {d} ELSE {}
<1>1. /\ Settled(c, S) /\ GenderKept /\ c.kind = "sync"
      /\ UNCHANGED <<route, ready, revalidating, syncing>>
  BY DEF Synced, guard, authPage
<1>2. Empty \in Login /\ c \in CallRecord
  BY DEF Empty, Login, Inv, TypeOK
<1>3. Moved(c, d)
  BY <1>2, Copies DEF Moved
<1>4. (\A e \in S : Moved(c, e)) /\ (\A e, f \in S : e = f) /\ (c.live => S # {})
  BY <1>3
<1> HIDE DEF S
<1>5. CallsOK /\ BootInv /\ GuardInv /\ SyncInv /\ GenderInv
  BY DEF Inv, TypeOK, CallsOK
<1>6. /\ CallsOK' /\ (BootInv /\ ((c.kind # "boot" /\ ready' = ready) \/ ready') => BootInv')
      /\ GuardInv /\ (revalidating' => revalidating /\ ~(c.kind = "guard" /\ c.live)) => GuardInv'
      /\ /\ SyncInv
         /\ syncing' => syncing /\ (S # {} \/ (c.kind # "signout" /\ ~(c.kind = "sync" /\ c.live)))
         => SyncInv'
      /\ GenderInv /\ GenderKept /\ route' = route /\ c.kind # "gender" => GenderInv'
  BY <1>1, <1>4, <1>5, SettledWaits
<1>7. S # {} \/ (c.kind # "signout" /\ ~(c.kind = "sync" /\ c.live))
  BY <1>1, <1>4
<1>8. BootInv' /\ GuardInv'
  BY <1>1, <1>5, <1>6
<1>9. SyncInv'
  <2>1. syncing' => syncing /\ (S # {} \/ (c.kind # "signout" /\ ~(c.kind = "sync" /\ c.live)))
    BY <1>1, <1>7
  <2> QED
    BY <1>5, <1>6, <2>1
<1>10. GenderInv'
  BY <1>1, <1>5, <1>6
<1> QED
  BY <1>6, <1>8, <1>9, <1>10 DEF Waits

LEMMA SignedOutKeeps == ASSUME Inv, NEW c \in calls, SignedOut(c) PROVE Waits'
<1>1. /\ Settled(c, {}) /\ GenderKept /\ c.kind = "signout" /\ syncing' = FALSE
      /\ UNCHANGED <<route, ready, revalidating>>
  BY DEF SignedOut, guard
<1> QED
  BY <1>1, SettledWaits DEF Inv, TypeOK, CallsOK, Waits

LEMMA LoggedOutKeeps == ASSUME Inv, NEW c \in calls, LoggedOut(c) PROVE Waits'
<1>1. /\ Settled(c, {}) /\ c.kind = "logout"
      /\ UNCHANGED <<route, ready, revalidating, syncing>>
  BY DEF LoggedOut, guard, authPage
<1>2. GenderKept
  <2>1. CASE c.at = "answered"
    BY <2>1 DEF LoggedOut
  <2>2. CASE c.at # "answered"
    <3>1. auth' = auth /\ gender' = gender
      BY <2>2 DEF LoggedOut
    <3>2. gender # "idle" => GenderAsked(auth')
      BY <3>1 DEF Inv, GenderInv
    <3> QED
      BY <3>1, <3>2 DEF GenderKept
  <2> QED
    BY <2>1, <2>2
<1> QED
  BY <1>1, <1>2, SettledWaits DEF Inv, TypeOK, CallsOK, Waits

LEMMA ProfileSavedKeeps == ASSUME Inv, NEW c \in calls, ProfileSaved(c) PROVE Waits'
<1>1. /\ Settled(c, {}) /\ c.kind \in {"gender", "settings"}
      /\ UNCHANGED <<route, ready, revalidating, syncing>>
      /\ gender' = IF ~GenderAsked(auth') \/ (c.kind = "gender" /\ c.live) THEN "idle" ELSE gender
  BY DEF ProfileSaved, guard, authPage
<1>2. CallsOK' /\ BootInv' /\ GuardInv' /\ SyncInv'
  BY <1>1, SettledWaits DEF Inv, TypeOK, CallsOK
<1>3. GenderInv'
  <2>1. CASE gender' = "idle"
    BY <2>1 DEF GenderInv
  <2>2. CASE gender' # "idle"
    <3>1. gender' = gender /\ GenderAsked(auth') /\ ~(c.kind = "gender" /\ c.live)
      BY <1>1, <2>2
    <3>2. calls' = Orphaned(calls \ {c}, {})
      BY <1>1, <3>1 DEF Settled
    <3>3. \A d \in calls : d # c => d \in calls'
      BY <3>2, OrphanedCalls DEF Inv, TypeOK
    <3> QED
      BY <1>1, <3>1, <3>3 DEF Inv, GenderInv, GenderAsked
  <2> QED
    BY <2>1, <2>2
<1> QED
  BY <1>2, <1>3 DEF Waits

LEMMA StackLeftKeeps == ASSUME Inv, NEW c \in calls, StackLeft(c) PROVE Waits'
<1> DEFINE d == [c EXCEPT !.at = "sent"]
<1>1. Moved(c, d) /\ calls' = (calls \ {c}) \cup {d}
  BY Copies DEF StackLeft, Moved, Inv, TypeOK
<1>2. UNCHANGED <<auth, route, ready, revalidating, syncing, gender>>
  BY DEF StackLeft, guard, authPage, dialogs
<1> QED
  BY <1>1, <1>2, MovedTypes, MovedWaits DEF Inv, TypeOK, CallsOK, Waits

LEMMA SyncNextKeeps == ASSUME Inv, NEW c \in calls, SyncNext(c) PROVE Waits'
<1>0. c \in CallRecord /\ c.n \in 0..SyncAttempts /\ c.kind = "sync"
  BY DEF SyncNext, Inv, TypeOK, CallRecord
<1>1. UNCHANGED <<auth, route, ready, revalidating, gender>>
  BY DEF SyncNext, guard, dialogs
<1>2. CASE c.live /\ c.n < SyncAttempts
  <2> DEFINE d == [c EXCEPT !.at = "sent", !.n = @ + 1]
  <2>1. d = [c EXCEPT !.at = "sent", !.n = c.n + 1] /\ c.n + 1 \in 0..SyncAttempts
    BY <1>0, <1>2, AttemptsAssumption DEF CallRecord
  <2> HIDE DEF d
  <2>2. Moved(c, d)
    BY <1>0, <2>1, Copies DEF Moved
  <2>3. calls' = (calls \ {c}) \cup {d}
    BY <1>2 DEF SyncNext, d
  <2>4. syncing' = syncing
    BY <1>0, <1>2, AttemptsAssumption DEF SyncNext, Inv, TypeOK
  <2> QED
    BY <1>1, <2>2, <2>3, <2>4, MovedTypes, MovedWaits DEF Inv, TypeOK, CallsOK, Waits
<1>3. CASE ~(c.live /\ c.n < SyncAttempts)
  <2>1. calls' = calls \ {c}
    BY <1>3 DEF SyncNext
  <2>2. syncing' = (syncing /\ ~c.live)
    BY <1>0, <1>3, AttemptsAssumption DEF SyncNext, Inv, TypeOK
  <2>3. CallsOK' /\ BootInv' /\ GuardInv'
    BY <1>0, <1>1, <2>1 DEF Inv, TypeOK, CallsOK, BootInv, GuardInv
  <2>4. SyncInv'
    BY <1>0, <2>1, <2>2 DEF Inv, SyncInv
  <2>5. GenderInv'
    BY <1>0, <1>1, <2>1 DEF Inv, GenderInv, GenderAsked
  <2> QED
    BY <2>3, <2>4, <2>5 DEF Waits
<1> QED
  BY <1>2, <1>3

--------------------------------------------------------------------------------
(* Effects, other pages, and what is clicked.                              *)
LEMMA EffectsKeep == ASSUME Inv, Effects PROVE Waits'
<1>0. UNCHANGED <<auth, route, ready, gender>> /\ calls \subseteq CallRecord
  BY DEF Effects, dialogs, Inv, TypeOK
<1>1. CASE ChatEffects \/ (route = "landing" /\ UNCHANGED <<leaving, calls, chatPage, guard, authPage>>)
  BY <1>0, <1>1, StillWaits DEF ChatEffects, guard, authPage, Waits
<1>2. CASE SyncEffects
  <2> DEFINE due == stack /\ ~auth.in /\ ready
             Killed(c) == IF c.kind = "sync" THEN [c EXCEPT !.live = FALSE] ELSE c
             old == {Killed(c) : c \in calls}
             first == [Call("sync") EXCEPT !.n = 1]
  <2>1. /\ calls' = old \cup (IF due THEN {first} ELSE {})
        /\ syncing' = due /\ revalidating' = revalidating
    BY <1>2 DEF SyncEffects, guard
  <2>2. first \in CallRecord /\ first.kind = "sync" /\ first.live = TRUE
    <3>1. Call("sync") \in CallRecord /\ Call("sync").kind = "sync" /\ Call("sync").live = TRUE
      BY CallType DEF Kind
    <3>2. 1 \in 0..SyncAttempts
      BY AttemptsAssumption
    <3> QED
      BY <3>1, <3>2, CopyNumbered
  <2>3. ASSUME NEW c \in calls
        PROVE  /\ Killed(c) \in CallRecord /\ Killed(c).kind = c.kind
               /\ c.kind = "sync" => Killed(c).live = FALSE
               /\ c.kind # "sync" => Killed(c) = c
    BY <1>0, Copies
  <2> HIDE DEF Killed, first, due
  <2>4. /\ \A d \in old : d \in CallRecord /\ ~(d.kind = "sync" /\ d.live)
        /\ \A c \in calls : c.kind # "sync" => c \in old
    BY <2>3
  <2> HIDE DEF old
  <2>5. \A d \in calls' : d \in old \/ (due /\ d = first)
    BY <2>1
  <2>6. \A d \in old : d \in calls'
    BY <2>1
  <2>7. CallsOK'
    BY <2>2, <2>4, <2>5 DEF CallsOK
  <2>8. BootInv' /\ GuardInv'
    BY <1>0, <2>1, <2>4, <2>6 DEF Inv, BootInv, GuardInv
  <2>9. SyncInv'
    <3>1. \A c, d \in calls' : c.kind = "sync" /\ d.kind = "sync" /\ c.live /\ d.live => c = d
      BY <2>4, <2>5
    <3>2. syncing' => first \in calls'
      BY <2>1
    <3> QED
      BY <2>2, <3>1, <3>2 DEF SyncInv
  <2>10. GenderInv'
    BY <1>0, <2>4, <2>6 DEF Inv, GenderInv, GenderAsked
  <2> QED
    BY <2>7, <2>8, <2>9, <2>10 DEF Waits
<1>3. CASE GuardEffects
  <2> DEFINE ask == ready /\ auth.in /\ validated # CurrentKey /\ ~revalidating
             d == [Call("guard") EXCEPT !.key = CurrentKey]
  <2>1. /\ calls' = calls \cup (IF ask THEN {d} ELSE {})
        /\ revalidating' = (ask \/ (revalidating /\ (auth.in \/ ~ready)))
        /\ syncing' = syncing /\ route \in AdminPage
    BY <1>3 DEF GuardEffects, authPage
  <2>2. CurrentKey \in Key
    BY <2>1 DEF CurrentKey, Key, Inv, TypeOK, Login
  <2>3. d \in CallRecord /\ d.kind = "guard" /\ d.live = TRUE
    <3>1. Call("guard") \in CallRecord /\ Call("guard").kind = "guard" /\ Call("guard").live = TRUE
      BY CallType DEF Kind
    <3> QED
      BY <2>2, <3>1, CopyFor
  <2> HIDE DEF d
  <2>4. CASE ask
    <3>1. calls' = calls \cup {d}
      BY <2>1, <2>4
    <3> QED
      BY <1>0, <2>1, <2>3, <3>1, AddedWaits DEF Inv, CallsOK, Waits
  <2>5. CASE ~ask
    <3>1. calls' = calls /\ (revalidating' => revalidating)
      BY <2>1, <2>5
    <3> QED
      BY <1>0, <2>1, <3>1 DEF Inv, Waits, CallsOK, BootInv, GuardInv, SyncInv, GenderInv, GenderAsked
  <2> QED
    BY <2>4, <2>5
<1> QED
  BY <1>1, <1>2, <1>3 DEF Effects

LEMMA ShowKeeps == ASSUME Inv, NEW to, NEW anew, Show(to, anew) PROVE Waits'
<1>1. gender' = "idle" /\ syncing' = FALSE
  BY DEF Show
<1>2. CASE Keeps(route, to) /\ ~anew
  <2> DEFINE kinds == {"gender", "settings"} \cup (IF {route, to} \subseteq AdminPage THEN {} ELSE {"guard"})
  <2>1. calls' = Orphaned(calls, kinds) /\ ready' = ready
    BY <1>2 DEF Show
  <2>2. revalidating' => revalidating /\ "guard" \notin kinds
    BY <1>2 DEF Show, guard
  <2> HIDE DEF kinds
  <2>3. /\ calls' \subseteq CallRecord
        /\ \A d \in calls' :
             d \in calls \/ (d.kind \in kinds /\ ~d.live /\ \E c \in calls : c.kind = d.kind)
        /\ \A c \in calls : c.kind \notin kinds => c \in calls'
        /\ \A c \in calls : \E d \in calls' : d.kind = c.kind
    BY <2>1, OrphanedCalls DEF Inv, TypeOK
  <2>4. BootInv'
    BY <2>1, <2>3 DEF Inv, BootInv
  <2>5. GuardInv'
    BY <2>2, <2>3 DEF Inv, GuardInv
  <2>6. SyncInv'
    BY <1>1, <2>3 DEF Inv, SyncInv
  <2> QED
    BY <1>1, <2>3, <2>4, <2>5, <2>6 DEF Waits, CallsOK, GenderInv
<1>3. CASE ~(Keeps(route, to) /\ ~anew)
  <2>1. calls' = {Call("boot")}
    BY <1>3 DEF Show, Mounting
  <2>2. revalidating' = FALSE
    BY <1>3 DEF Show, Keeps, AdminPage
  <2>3. Call("boot") \in CallRecord /\ Call("boot").kind = "boot"
    BY CallType DEF Kind
  <2> QED
    BY <1>1, <2>1, <2>2, <2>3 DEF Waits, CallsOK, BootInv, GuardInv, SyncInv, GenderInv
<1> QED
  BY <1>2, <1>3

LEMMA ClicksKeep ==
  ASSUME Inv, Poll \/ SignOut \/ Logout \/ SaveSettings \/ SaveGender
  PROVE  Waits'
<1>1. \A kind \in Kind : Call(kind) \in CallRecord /\ Call(kind).kind = kind /\ Call(kind).live = TRUE
  BY CallType
<1>2. CASE Poll \/ Logout \/ SaveSettings
  <2>1. PICK kind \in {"probe", "logout", "settings"} : calls' = calls \cup {Call(kind)}
    BY <1>2 DEF Poll, Logout, SaveSettings
  <2>2. UNCHANGED <<auth, route, ready, revalidating, syncing, gender>>
    BY <1>2 DEF Poll, Logout, SaveSettings, guard, authPage, dialogs
  <2> QED
    BY <1>1, <2>1, <2>2, AddedWaits DEF Kind, Inv, TypeOK, CallsOK, Waits
<1>3. CASE SignOut
  <2> DEFINE d == [Call("signout") EXCEPT !.at = "stack"]
  <2>1. d \in CallRecord /\ d.kind = "signout"
    BY <1>1, Copies DEF Kind
  <2>2. calls' = calls \cup {d} /\ UNCHANGED <<auth, route, ready, revalidating, gender>>
    BY <1>3 DEF SignOut, guard, dialogs
  <2> HIDE DEF d
  <2> QED
    BY <2>1, <2>2, AddedWaits DEF Inv, TypeOK, CallsOK, Waits
<1>4. CASE SaveGender
  <2>1. calls' = calls \cup {Call("gender")} /\ gender # "idle"
    BY <1>4 DEF SaveGender, Faded
  <2>2. UNCHANGED <<auth, route, ready, revalidating, syncing>>
    BY <1>4 DEF SaveGender, guard, authPage
  <2>3. Call("gender") \in CallRecord /\ Call("gender").kind = "gender" /\ Call("gender").live
    BY <1>1 DEF Kind
  <2> QED
    BY <2>1, <2>2, <2>3, AddedWaits DEF Inv, TypeOK, CallsOK, Waits
<1> QED
  BY <1>2, <1>3, <1>4

(* The phases of the gender dialog.                                        *)
LEMMA GenderKeeps == ASSUME Inv, Press \/ LetGo \/ HeldLongEnough PROVE Waits'
<1>1. UNCHANGED <<calls, auth, route, ready, revalidating, syncing>>
  BY DEF Press, LetGo, HeldLongEnough, guard, authPage
<1>2. gender' \in {"idle", "holding", "appear", "disappear"}
      /\ (gender' # "idle" => gender # "idle" \/ GenderAsked(auth))
  BY DEF Press, LetGo, HeldLongEnough, OnChat, GenderAsked
<1>3. GenderInv'
  BY <1>1, <1>2 DEF Inv, GenderInv, GenderAsked
<1> QED
  BY <1>1, <1>3 DEF Inv, TypeOK, Waits, CallsOK, BootInv, GuardInv, SyncInv

LEMMA WaitsKept == ASSUME Inv, [Next]_vars, login' \in Login PROVE Waits'
<1>1. ASSUME NEW c \in calls, Serve(c) \/ Lose(c) \/ Settle(c) PROVE Waits'
  BY <1>1, AnswerKeeps, BootedKeeps, ProbedKeeps, GuardedKeeps, SyncedKeeps, SyncNextKeeps,
     StackLeftKeeps, SignedOutKeeps, LoggedOutKeeps, ProfileSavedKeeps DEF Settle
<1>2. CASE LoginChanges \/ RetrySync \/ Settings \/ UNCHANGED vars
  <2>1. UNCHANGED <<calls, auth, route, ready, revalidating, syncing, gender>>
    BY <1>2 DEF LoginChanges, RetrySync, Settings, vars, guard, authPage, dialogs
  <2> QED
    BY <2>1, StillWaits DEF Waits
<1>3. CASE Depart \/ \E to \in Route : Visit(to)
  BY <1>3, ShowKeeps DEF Depart, Visit
<1> QED
  BY <1>1, <1>2, <1>3, EffectsKeep, ClicksKeep, GenderKeeps DEF Next

--------------------------------------------------------------------------------
(* The types of what is not a call.                                        *)
LEMMA LoginFields ==
  ASSUME NEW l \in Login, NEW b \in BOOLEAN
  PROVE  /\ l.in \in BOOLEAN /\ l.gendered \in BOOLEAN
         /\ [l EXCEPT !.in = b] \in Login
         /\ [l EXCEPT !.restricted = b] \in Login
         /\ [l EXCEPT !.gendered = b] \in Login
BY DEF Login

LEMMA LoginKept == ASSUME TypeOK, [Next]_vars PROVE login' \in Login /\ stack' \in BOOLEAN
<1>0. login \in Login /\ stack \in BOOLEAN
  BY DEF TypeOK
<1>f. [login EXCEPT !.in = FALSE] \in Login
  BY <1>0, LoginFields
<1>1. CASE LoginChanges
  <2>1. /\ \A b \in BOOLEAN : [login EXCEPT !.in = b] \in Login /\ [login EXCEPT !.restricted = b] \in Login
        /\ (~login.in) \in BOOLEAN /\ (~login.restricted) \in BOOLEAN
    BY <1>0, LoginFields
  <2>2. CASE stack /\ login' = [login EXCEPT !.in = ~login.in] /\ stack' = stack
    BY <1>0, <2>1, <2>2
  <2>3. CASE login' = [login EXCEPT !.restricted = ~login.restricted] /\ stack' = stack
    BY <1>0, <2>1, <2>3
  <2>4. CASE stack' = TRUE /\ \E in \in BOOLEAN : login' = [login EXCEPT !.in = in]
    BY <2>1, <2>4
  <2> QED
    BY <1>1, <2>2, <2>3, <2>4 DEF LoginChanges
<1>2. ASSUME NEW c \in calls, Serve(c) PROVE login' \in Login /\ stack' \in BOOLEAN
  <2>1. ServedLogin(c) \in Login
    BY <1>0, LoginFields DEF ServedLogin
  <2> QED
    BY <1>0, <1>2, <2>1 DEF Serve
<1>3. ASSUME NEW c \in calls, StackLeft(c) \/ LoggedOut(c)
      PROVE  login' \in Login /\ stack' \in BOOLEAN
  BY <1>0, <1>3, <1>f DEF StackLeft, LoggedOut, server
<1>4. ASSUME UNCHANGED server PROVE login' \in Login /\ stack' \in BOOLEAN
  BY <1>0, <1>4 DEF server
<1>5. ASSUME NEW c \in calls, Lose(c) \/ Settle(c) PROVE login' \in Login /\ stack' \in BOOLEAN
  BY <1>3, <1>4, <1>5 DEF Lose, Settle, Booted, Probed, Guarded, Synced, SyncNext, SignedOut, ProfileSaved
<1>6. ASSUME \/ Effects \/ Poll \/ Depart \/ (\E to \in Route : Visit(to)) \/ RetrySync \/ SignOut
             \/ Logout \/ Settings \/ SaveSettings \/ Press \/ LetGo \/ HeldLongEnough \/ SaveGender
             \/ UNCHANGED vars
      PROVE  login' \in Login /\ stack' \in BOOLEAN
  BY <1>4, <1>6 DEF Effects, Poll, Depart, Visit, RetrySync, SignOut, Logout, Settings,
                    SaveSettings, Press, LetGo, HeldLongEnough, SaveGender, vars
<1> QED
  BY <1>1, <1>2, <1>5, <1>6 DEF Next

LEMMA AuthKept == ASSUME TypeOK, [Next]_vars PROVE auth' \in Login /\ ready' \in BOOLEAN
<1>0. auth \in Login /\ ready \in BOOLEAN /\ Empty \in Login /\ \A c \in calls : c.seen \in Login
  BY DEF TypeOK, CallRecord, Login, Empty
<1>1. ASSUME UNCHANGED <<auth, ready>> PROVE auth' \in Login /\ ready' \in BOOLEAN
  BY <1>0, <1>1
<1>2. ASSUME NEW c \in calls, Booted(c) \/ Probed(c) \/ Guarded(c) \/ Synced(c) \/ SignedOut(c)
      PROVE  auth' \in Login /\ ready' \in BOOLEAN
  BY <1>0, <1>2 DEF Booted, Probed, Guarded, Synced, SignedOut, ApplyAnswer, Applied
<1>3. ASSUME NEW c \in calls, ProfileSaved(c) PROVE auth' \in Login /\ ready' \in BOOLEAN
  <2> DEFINE b == auth.gendered \/ c.at = "answered"
  <2>1. b \in BOOLEAN
    OBVIOUS
  <2>2. auth' = [auth EXCEPT !.gendered = b] /\ ready' = ready
    BY <1>3 DEF ProfileSaved
  <2> HIDE DEF b
  <2> QED
    BY <1>0, <2>1, <2>2, LoginFields
<1>4. ASSUME NEW c \in calls, LoggedOut(c) PROVE auth' \in Login /\ ready' \in BOOLEAN
  BY <1>0, <1>4 DEF LoggedOut, Applied
<1>5. ASSUME NEW to, NEW anew, Show(to, anew) PROVE auth' \in Login /\ ready' \in BOOLEAN
  BY <1>0, <1>5 DEF Show
<1>6. ASSUME NEW c \in calls, Serve(c) \/ Lose(c) \/ SyncNext(c) \/ StackLeft(c)
      PROVE  auth' \in Login /\ ready' \in BOOLEAN
  BY <1>1, <1>6 DEF Serve, Lose, SyncNext, StackLeft
<1>7. ASSUME \/ LoginChanges \/ Effects \/ Poll \/ RetrySync \/ SignOut \/ Logout \/ Settings
             \/ SaveSettings \/ Press \/ LetGo \/ HeldLongEnough \/ SaveGender \/ UNCHANGED vars
      PROVE  auth' \in Login /\ ready' \in BOOLEAN
  BY <1>1, <1>7 DEF LoginChanges, Effects, Poll, RetrySync, SignOut, Logout, Settings,
                    SaveSettings, Press, LetGo, HeldLongEnough, SaveGender, vars
<1> QED
  BY <1>2, <1>3, <1>4, <1>5, <1>6, <1>7 DEF Next, Settle, Depart, Visit

LEMMA EventsKept == ASSUME TypeOK, [Next]_vars PROVE events' \in 0..MaxEvents
<1>0. events \in 0..MaxEvents
  BY DEF TypeOK
<1>1. Event \/ UNCHANGED events
  <2>1. ASSUME NEW c \in calls, Serve(c) \/ Lose(c) \/ Settle(c) PROVE Event \/ UNCHANGED events
    BY <2>1 DEF Serve, Lose, Settle, Booted, Probed, Guarded, Synced, SyncNext, StackLeft,
                SignedOut, LoggedOut, ProfileSaved
  <2>2. ASSUME \/ LoginChanges \/ Effects \/ Poll \/ Depart \/ (\E to \in Route : Visit(to))
               \/ RetrySync \/ SignOut \/ Logout \/ Settings \/ SaveSettings \/ Press \/ LetGo
               \/ HeldLongEnough \/ SaveGender \/ UNCHANGED vars
        PROVE  Event \/ UNCHANGED events
    BY <2>2 DEF LoginChanges, Effects, Poll, Depart, Visit, RetrySync, SignOut, Logout, Settings,
                SaveSettings, Press, LetGo, HeldLongEnough, SaveGender, vars
  <2> QED
    BY <2>1, <2>2 DEF Next
<1> QED
  BY <1>0, <1>1, BoundAssumption DEF Event

LEMMA PageKept == ASSUME TypeOK, [Next]_vars PROVE PageOK'
<1>0. PageOK
  BY TypeParts
<1>u. ASSUME UNCHANGED <<route, leaving, chatPage, guard, authPage, dialogs>>, pending' \in BOOLEAN
      PROVE  PageOK'
  BY <1>0, <1>u DEF PageOK, chatPage, guard, authPage, dialogs
<1>k. CurrentKey \in Key \/ route \notin AdminPage
  BY DEF CurrentKey, Key, TypeOK, Login
<1>c. \A c \in calls : c.key \in Key
  BY DEF TypeOK, CallRecord
<1>1. ASSUME NEW c \in calls, Serve(c) \/ Lose(c) \/ StackLeft(c) PROVE PageOK'
  <2>1. pending' \in BOOLEAN /\ UNCHANGED <<route, leaving, chatPage, guard, authPage, dialogs>>
    BY <1>0, <1>1 DEF Serve, Lose, StackLeft, PageOK
  <2> QED
    BY <2>1, <1>u
<1>2. ASSUME NEW c \in calls, Booted(c) \/ Probed(c) \/ Guarded(c) \/ Synced(c) PROVE PageOK'
  <2>1. /\ gender' \in {gender, "idle"} /\ settings' = settings
        /\ UNCHANGED <<route, leaving, chatPage, authPage>>
    BY <1>2 DEF Booted, Probed, Guarded, Synced, GenderKept
  <2>2. pending' \in BOOLEAN
    BY <1>0, <1>2 DEF Booted, Probed, Guarded, Synced, ApplyAnswer, Applied, PageOK
  <2>3. validated' \in Key /\ revalidating' \in BOOLEAN
    BY <1>0, <1>2, <1>c DEF Booted, Probed, Guarded, Synced, guard, PageOK
  <2> QED
    BY <1>0, <2>1, <2>2, <2>3 DEF PageOK, chatPage, authPage
<1>3. ASSUME NEW c \in calls, SyncNext(c) \/ SignedOut(c) PROVE PageOK'
  <2>1. /\ gender' \in {gender, "idle"} /\ settings' = settings
        /\ UNCHANGED <<route, leaving, chatPage, guard>>
    BY <1>3 DEF SyncNext, SignedOut, GenderKept, dialogs
  <2>2. pending' \in BOOLEAN /\ syncing' \in BOOLEAN /\ syncFailed' \in BOOLEAN
    BY <1>0, <1>3 DEF SyncNext, SignedOut, ApplyAnswer, Applied, PageOK
  <2> QED
    BY <1>0, <2>1, <2>2 DEF PageOK, chatPage, guard
<1>4. ASSUME NEW c \in calls, LoggedOut(c) \/ ProfileSaved(c) PROVE PageOK'
  <2>1. UNCHANGED <<route, leaving, chatPage, guard, authPage>>
    BY <1>4 DEF LoggedOut, ProfileSaved
  <2>2. gender' \in {gender, "idle"}
    BY <1>4 DEF LoggedOut, ProfileSaved, GenderKept
  <2>3. pending' \in BOOLEAN /\ settings' \in BOOLEAN
    BY <1>0, <1>4 DEF LoggedOut, ProfileSaved, Applied, PageOK
  <2> QED
    BY <1>0, <2>1, <2>2, <2>3 DEF PageOK, chatPage, guard, authPage
<1>5. CASE Effects
  <2>1. route' = route /\ pending' = FALSE /\ gender' = gender /\ settings' = settings
    BY <1>5 DEF Effects, dialogs
  <2>2. leaving' \in {NoPage, "auth", "chat", "landing"}
    BY <1>0, <1>5 DEF Effects, ChatEffects, SyncEffects, GuardEffects, PageOK
  <2>3. polling' \in BOOLEAN /\ wasIn' \in BOOLEAN /\ expired' \in BOOLEAN
    <3>1. CASE ChatEffects
      BY <1>0, <3>1 DEF ChatEffects, PageOK
    <3>2. CASE chatPage' = chatPage
      BY <1>0, <3>2 DEF chatPage, PageOK
    <3> QED
      BY <1>5, <3>1, <3>2 DEF Effects, SyncEffects, GuardEffects
  <2>4. validated' \in Key /\ revalidating' \in BOOLEAN
    <3>1. CASE GuardEffects
      BY <1>0, <1>k, <3>1 DEF GuardEffects, PageOK
    <3>2. CASE guard' = guard
      BY <1>0, <3>2 DEF guard, PageOK
    <3> QED
      BY <1>5, <3>1, <3>2 DEF Effects, SyncEffects, ChatEffects
  <2>5. syncing' \in BOOLEAN /\ syncFailed' \in BOOLEAN
    <3>1. CASE SyncEffects
      BY <3>1 DEF SyncEffects
    <3>2. CASE authPage' = authPage
      BY <1>0, <3>2 DEF authPage, PageOK
    <3> QED
      BY <1>5, <3>1, <3>2 DEF Effects, GuardEffects, ChatEffects
  <2> QED
    BY <1>0, <2>1, <2>2, <2>3, <2>4, <2>5 DEF PageOK
<1>6. ASSUME NEW to \in Route, NEW anew, Show(to, anew) PROVE PageOK'
  <2>1. /\ route' = to /\ leaving' = NoPage /\ pending' \in BOOLEAN
        /\ polling' = FALSE /\ wasIn' = FALSE /\ expired' = FALSE
        /\ gender' = "idle" /\ settings' = FALSE /\ syncing' = FALSE /\ syncFailed' = FALSE
    BY <1>6 DEF Show
  <2>2. validated' \in Key /\ revalidating' \in BOOLEAN
    BY <1>0, <1>6 DEF Show, guard, Key, PageOK
  <2> QED
    BY <2>1, <2>2 DEF PageOK
<1>7. CASE Depart
  <2>1. leaving \in Route
    BY <1>0, <1>7 DEF Depart, PageOK, Route
  <2> QED
    BY <1>6, <1>7, <2>1 DEF Depart
<1>8. ASSUME NEW to \in Route, Visit(to) PROVE PageOK'
  BY <1>6, <1>8 DEF Visit
<1>9. CASE LoginChanges \/ Poll \/ RetrySync \/ Logout \/ SaveSettings \/ UNCHANGED vars
  <2>1. pending' \in BOOLEAN /\ UNCHANGED <<route, leaving, chatPage, guard, authPage, dialogs>>
    BY <1>0, <1>9 DEF LoginChanges, Poll, RetrySync, Logout, SaveSettings, vars, PageOK
  <2> QED
    BY <2>1, <1>u
<1>10. CASE SignOut \/ Settings \/ Press \/ LetGo \/ HeldLongEnough \/ SaveGender
  <2>1. UNCHANGED <<route, leaving, pending, chatPage, guard>>
    BY <1>10 DEF SignOut, Settings, Press, LetGo, HeldLongEnough, SaveGender
  <2>2. syncing' \in BOOLEAN /\ syncFailed' \in BOOLEAN
    BY <1>0, <1>10 DEF SignOut, Settings, Press, LetGo, HeldLongEnough, SaveGender, authPage, PageOK
  <2>3. settings' \in BOOLEAN /\ gender' \in {"idle", "holding", "appear", "disappear", "saving"}
    BY <1>0, <1>10 DEF SignOut, Settings, Press, LetGo, HeldLongEnough, SaveGender, dialogs, PageOK
  <2> QED
    BY <1>0, <2>1, <2>2, <2>3 DEF PageOK, chatPage, guard
<1> QED
  BY <1>1, <1>2, <1>3, <1>4, <1>5, <1>7, <1>8, <1>9, <1>10 DEF Next, Settle

--------------------------------------------------------------------------------
LEMMA InvKept == Inv /\ [Next]_vars => Inv'
<1> SUFFICES ASSUME Inv, [Next]_vars PROVE Inv'
  OBVIOUS
<1>1. TypeOK
  BY DEF Inv
<1>2. LoginOK' /\ PageOK'
  BY <1>1, LoginKept, AuthKept, EventsKept, PageKept DEF LoginOK
<1>3. Waits'
  BY <1>2, WaitsKept DEF LoginOK
<1> QED
  BY <1>2, <1>3 DEF Waits, Inv, TypeOK, LoginOK, CallsOK, PageOK

(* The invariant the others follow from.                                   *)
THEOREM InvariantHolds == Spec => []Inv
BY InitInv, InvKept, PTL DEF Spec

(* What the browser believes and asks keeps its form, and no loop of the   *)
(* sign-in page makes more than SyncAttempts attempts.                     *)
THEOREM TypeCorrect == Spec => []TypeOK
BY InvariantHolds, InvHolds, PTL

(* No page that shows that it is loading, revalidating, syncing or saving  *)
(* waits for a request or loop that has ended, and one loop runs at most.  *)
THEOREM NoVainWait == Spec => []WaitsForSomething
BY InvariantHolds, InvHolds, PTL

================================================================================
