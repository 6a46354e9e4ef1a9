----------------------------- MODULE PairingProofs -----------------------------
(* Proofs about Pairing, for every set of sessions and every owner.        *)
EXTENDS Pairing, TLAPS

(* What makes Couples inductive: only sessions seek.                       *)
CInv == seeking \subseteq Session /\ partner \in [Session -> Session \cup {NoSession}]
          /\ Couples

(* No step of Pairing breaks a couple on one side only: the None value is  *)
(* no session, so a partner that is reset is nobody's partner.             *)
LEMMA CoupleStep ==
  ASSUME NoSession \notin Session, CInv, [Next]_pairing
  PROVE  CInv'
<1>1. CASE \E s \in Session : Seek(s)
  BY <1>1 DEF Seek, CInv, Couples
<1>2. CASE Quit
  BY <1>2 DEF Quit, CInv, Couples
<1>3. ASSUME NEW a \in Session, NEW b \in Session, Couple(a, b)
      PROVE  CInv'
  <2>1. partner[a] = NoSession /\ partner[b] = NoSession
    BY <1>3 DEF Couple, CInv, Couples
  <2>2. \A s \in Session : partner[s] \notin {a, b}
    BY <2>1 DEF CInv, Couples
  <2> QED
    BY <1>3, <2>1, <2>2 DEF Couple, CInv, Couples
<1>4. ASSUME NEW a \in Session, NEW b \in Session, Part(a, b)
      PROVE  CInv'
  <2>1. partner[b] = a
    BY <1>4 DEF Part, CInv, Couples
  <2>2. \A s \in Session \ {a, b} : partner[s] \notin {a, b}
    BY <1>4, <2>1 DEF Part, CInv, Couples
  <2> QED
    BY <1>4, <2>1, <2>2 DEF Part, CInv, Couples
<1>5. CASE UNCHANGED pairing
  BY <1>5 DEF pairing, CInv, Couples
<1> QED
  BY <1>1, <1>2, <1>3, <1>4, <1>5 DEF Next

(* Partners are mutual strangers who are not looking for anybody, in every *)
(* state of Pairing, and so in every state of what implements it.          *)
THEOREM CouplesAlways ==
  ASSUME NoSession \notin Session
  PROVE  Spec => []Couples
<1>1. Init => CInv
  BY DEF Init, CInv, Couples
<1>2. CInv /\ [Next]_pairing => CInv'
  BY CoupleStep
<1> QED
  BY <1>1, <1>2, PTL DEF Spec, CInv

(* A partner is found only by looking for one, and by both; nobody goes    *)
(* from one partner straight to the next.                                  *)
ByConsent ==
  \A s \in Session : partner'[s] \notin {NoSession, partner[s]} =>
    /\ partner[s] = NoSession
    /\ {s, partner'[s]} \subseteq seeking

(* Every step that gives somebody a partner has found both of them         *)
(* looking, in Pairing and in what implements it.                          *)
THEOREM Consent ==
  ASSUME NoSession \notin Session
  PROVE  Spec => [][ByConsent]_pairing
<1>1. Init => CInv
  BY DEF Init, CInv, Couples
<1>2. CInv /\ [Next]_pairing => CInv'
  BY CoupleStep
<1>3. ASSUME CInv, Next PROVE ByConsent
  <2>1. ASSUME NEW a \in Session, NEW b \in Session, Couple(a, b)
        PROVE  ByConsent
    <3>1. partner[a] = NoSession /\ partner[b] = NoSession
      BY <1>3, <2>1 DEF Couple, CInv, Couples
    <3> QED
      BY <1>3, <2>1, <3>1 DEF Couple, CInv, ByConsent
  <2>2. ASSUME NEW a \in Session, NEW b \in Session, Part(a, b)
        PROVE  ByConsent
    BY <1>3, <2>2 DEF Part, CInv, ByConsent
  <2>3. CASE UNCHANGED partner
    BY <2>3 DEF ByConsent
  <2> QED
    BY <1>3, <2>1, <2>2, <2>3 DEF Next, Seek, Quit
<1> QED
  BY <1>1, <1>2, <1>3, PTL DEF Spec
================================================================================
