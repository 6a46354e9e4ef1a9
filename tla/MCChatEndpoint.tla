----------------------------- MODULE MCChatEndpoint -----------------------------
(* Small instances of ChatEndpoint for TLC. *)
EXTENDS ChatEndpoint, TLC

CONSTANTS s1, s2, a1, a2, t1, t2

(* Two sessions of two accounts, one tab each. *)
TwoSessions == {s1, s2}
Owners == s1 :> a1 @@ s2 :> a2
TwoTabs == {t1, t2}
OneTabEach == t1 :> s1 @@ t2 :> s2
================================================================================
