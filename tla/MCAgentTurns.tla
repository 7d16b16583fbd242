---------------------------- MODULE MCAgentTurns ----------------------------
EXTENDS AgentTurns, TLC
CONSTANTS t1, t2, r1

\* Bound: a client asks for what the Chat it sees allows; by the time the job
\* runs the Host may have to refuse it.
Asked ==
  spent' # spent /\ Len(queue') > Len(queue) =>
    LET job == Last(queue') IN
    CASE job.kind = "cancel" -> turns[job.turn] \in Open
      [] job.kind = "release" -> chat = "available"
      [] job.kind = "materialize" -> chat = "released"
      [] OTHER -> TRUE
=============================================================================
