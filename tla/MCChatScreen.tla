------------------------------ MODULE MCChatScreen ------------------------------
(* A small instance of ChatScreen for TLC. *)
EXTENDS ChatScreen, TLC

CONSTANTS p1, p2

Partners == Permutations(Partner)
================================================================================
