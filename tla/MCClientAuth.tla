------------------------------ MODULE MCClientAuth ------------------------------
(* A small instance of ClientAuth for TLC: two attempts instead of five. *)
EXTENDS ClientAuth
================================================================================
