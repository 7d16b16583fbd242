------------------------ MODULE MCAgentPackageJournal ------------------------
(* The journal of one package on a small instance. *)
EXTENDS AgentPackageJournal

\* The revisions are alike: of those that may be installed at first, one is enough.
MCInit == Init /\ disk.installed \in {Absent, CHOOSE r \in Revisions : TRUE}

MCSpec == MCInit /\ [][Next]_vars /\ Fairness
=============================================================================
