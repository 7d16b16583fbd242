------------------------ MODULE MCApplicationStorage ------------------------
(* The storage with a few keys as model values. *)
EXTENDS ApplicationStorage
=============================================================================
