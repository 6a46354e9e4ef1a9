------------------------------ MODULE MCChatClient ------------------------------
(* A small instance of ChatClient for TLC. *)
EXTENDS ChatClient, TLC

CONSTANTS t1, t2
================================================================================
