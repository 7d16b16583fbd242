--------------------------- MODULE PackageCatalog ---------------------------
(***************************************************************************)
(* What the operations on one Agent package promise: an operation that is  *)
(* asked for succeeds or fails once; success and the change of what is     *)
(* installed are one step, and failure changes nothing (AGENT_PACKAGES.md, *)
(* Installation and Update).  Nothing here knows of restarts: what this    *)
(* module says has to be true of the disk.                                 *)
(***************************************************************************)
CONSTANTS
  Ops,         \* identities of operations
  Revisions,   \* revisions of the package
  Absent       \* what is installed when nothing is

VARIABLES
  request,     \* what each operation asks for: [kind, target], or Absent
  installed,   \* the installed revision, or Absent
  outcome      \* "open", "succeeded" or "failed"

vars == <<request, installed, outcome>>

Requests ==
  [kind : {"install", "update"}, target : Revisions] \cup [kind : {"uninstall"}, target : {Absent}]

\* When executeInstall, executeUpdate and executeUninstall go beyond their checks.
Applicable(q, revision) ==
  CASE q.kind = "install" -> revision = Absent
    [] q.kind = "update" -> revision \notin {Absent, q.target}
    [] q.kind = "uninstall" -> revision # Absent

Init ==
  /\ request = [o \in Ops |-> Absent]
  /\ installed \in Revisions \cup {Absent}
  /\ outcome = [o \in Ops |-> "open"]

Ask(o) ==
  /\ request[o] = Absent
  /\ \E q \in Requests : request' = [request EXCEPT ![o] = q]
  /\ UNCHANGED <<installed, outcome>>

Succeed(o) ==
  /\ request[o] # Absent /\ outcome[o] = "open"
  /\ Applicable(request[o], installed)
  /\ installed' = request[o].target
  /\ outcome' = [outcome EXCEPT ![o] = "succeeded"]
  /\ UNCHANGED request

Fail(o) ==
  /\ request[o] # Absent /\ outcome[o] = "open"
  /\ outcome' = [outcome EXCEPT ![o] = "failed"]
  /\ UNCHANGED <<request, installed>>

Next == \E o \in Ops : Ask(o) \/ Succeed(o) \/ Fail(o)

Spec == Init /\ [][Next]_vars
=============================================================================
