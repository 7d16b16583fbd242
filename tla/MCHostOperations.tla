-------------------------- MODULE MCHostOperations --------------------------
(* Two plain mutations and a Session configuration update, as model values. *)
EXTENDS HostOperations
=============================================================================
