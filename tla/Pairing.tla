-------------------------------- MODULE Pairing --------------------------------
(***************************************************************************)
(* What the chat runtime promises, without queue, stores, sockets or lock: *)
(* sessions look for a partner, are coupled two at a time with a stranger  *)
(* who is looking too, and are parted two at a time.  ChatRuntime is shown *)
(* to implement this specification.                                        *)
(***************************************************************************)
CONSTANTS
  Session,    \* ids of chat sessions
  AccountOf,  \* the account that owns each session
  NoSession   \* no partner

VARIABLES
  seeking,    \* sessions that look for a partner
  partner     \* the partner of each session

pairing == <<seeking, partner>>

Init ==
  /\ seeking = {}
  /\ partner = [s \in Session |-> NoSession]

(* A session starts to look for a partner. *)
Seek(s) ==
  /\ partner[s] = NoSession
  /\ seeking' = seeking \cup {s}
  /\ UNCHANGED partner

(* Some give up looking: one session, or all of them at a restart. *)
Quit ==
  /\ seeking' \in SUBSET seeking
  /\ UNCHANGED partner

(* Two that are looking find each other. *)
Couple(a, b) ==
  /\ {a, b} \subseteq seeking
  /\ a # b
  /\ AccountOf[a] # AccountOf[b]
  /\ seeking' = seeking \ {a, b}
  /\ partner' = [partner EXCEPT ![a] = b, ![b] = a]

(* A couple parts; neither starts looking again by itself. *)
Part(a, b) ==
  /\ partner[a] = b
  /\ seeking' = seeking
  /\ partner' = [partner EXCEPT ![a] = NoSession, ![b] = NoSession]

Next ==
  \/ \E s \in Session : Seek(s)
  \/ Quit
  \/ \E a, b \in Session : Couple(a, b) \/ Part(a, b)

Spec == Init /\ [][Next]_pairing

--------------------------------------------------------------------------------
(* Couples are couples: partners are mutual, distinct and strangers, and   *)
(* nobody who has a partner is looking for one.                            *)
Couples ==
  \A s \in Session : partner[s] # NoSession =>
    /\ partner[s] \in Session \ {s}
    /\ partner[partner[s]] = s
    /\ AccountOf[s] # AccountOf[partner[s]]
    /\ s \notin seeking

================================================================================
