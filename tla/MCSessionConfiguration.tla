----------------------- MODULE MCSessionConfiguration -----------------------
(* Updates of the configurations of two Sessions, as model values; neither *)
(* the operations nor the Sessions are told apart.                         *)
EXTENDS SessionConfiguration

Symmetry == Permutations(Ops) \cup Permutations(Sessions)
=============================================================================
