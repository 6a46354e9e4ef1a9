----------------------------- MODULE MCAdminConsole -----------------------------
(* A small instance of AdminConsole for TLC: two reports about one account. *)
EXTENDS AdminConsole, TLC

CONSTANTS a1, spam, v1

ReportedTwo == 1 :> a1 @@ 2 :> a1
ReasonTwo == 1 :> spam @@ 2 :> spam
AllOpen == 1 :> "open" @@ 2 :> "open"
RestrictedForFirst == a1 :> 1
================================================================================
