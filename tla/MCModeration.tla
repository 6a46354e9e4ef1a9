----------------------------- MODULE MCModeration -----------------------------
(* Small instances of Moderation for TLC. *)
EXTENDS Moderation, TLC

CONSTANTS s1, s2, s3, a1, a2, r1, r2, r3

(* The requests of one account are alike, and so are those of              *)
(* administrators, verdicts, and the sessions of one account.              *)
AlikeRequests ==
  Permutations({r1, r2}) \cup Permutations(Admin) \cup Permutations(Verdict)
AlikeUsers == Permutations({r1, r2}) \cup Permutations({s1, s2})

(* An account with two requests at a time, and one with one.               *)
ThreeRequests == {r1, r2, r3}
ThreeUsers == r1 :> a1 @@ r2 :> a1 @@ r3 :> a2

(* One session each, or a second one for the first account.                *)
TwoSessions == {s1, s3}
TwoOwners == s1 :> a1 @@ s3 :> a2
ThreeSessions == {s1, s2, s3}
ThreeOwners == s1 :> a1 @@ s2 :> a1 @@ s3 :> a2
================================================================================
