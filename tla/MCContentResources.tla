------------------------- MODULE MCContentResources -------------------------
(* All contents over the remote server's channel; over the other connections *)
(* one that is listed and read, and one that is neither.                     *)
EXTENDS ContentResources
CONSTANTS t1, t2, l1, l2, c1, c2, c3

MCInit == Init /\ (transport # "remote" => shape \in {"tree", "emptyBlob"})
MCSpec == MCInit /\ [][Next]_vars /\ Fairness
=============================================================================
