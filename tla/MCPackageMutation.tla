-------------------------- MODULE MCPackageMutation --------------------------
(* One Agent of an installed package and one of the bundled package; the    *)
(* two are not alike, so there is no symmetry.                              *)
EXTENDS PackageMutation
=============================================================================
