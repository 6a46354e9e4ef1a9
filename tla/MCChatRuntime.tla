---------------------------- MODULE MCChatRuntime ----------------------------
(* Small instances of ChatRuntime for TLC. *)
EXTENDS ChatRuntime, TLC

CONSTANTS s1, s2, s3, a1, a2, m1, m2

(* Three sessions: two share an account, so a search may have to defer one. *)
ThreeSessions == {s1, s2, s3}
TwoAccounts == {a1, a2}
SharedOwner == s1 :> a1 @@ s2 :> a1 @@ s3 :> a2

(* Two sessions of two accounts, and one of each alone. *)
TwoSessions == {s1, s2}
OwnAccounts == s1 :> a1 @@ s2 :> a2
TwoIds == {m1, m2}
================================================================================
