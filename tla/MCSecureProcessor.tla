-------------------------- MODULE MCSecureProcessor --------------------------
(* The messages of the pipe for TLC. *)
EXTENDS SecureProcessor

MCMessages == {Ask, [size |-> 3, mark |-> 1]}
=============================================================================
