---------------------------- MODULE CatalogStore ----------------------------
(***************************************************************************)
(* What a revisioned store promises its one writer.                        *)
(*                                                                         *)
(* RevisionedAgentHostStateStore.commit (agentHostStateStores.ts) compares *)
(* the revision its writer expects with the one it reads from the          *)
(* application storage, and writes the next.  The storage answers reads    *)
(* from a cache that a write changes at once; the write reaches the disk   *)
(* later or never.  What is promised is that an accepted write is on the   *)
(* disk.  A refused one may be lost, but it stays in the cache, where it   *)
(* bars every later write, and it may still reach the disk.                *)
(***************************************************************************)
EXTENDS Naturals

VARIABLES
  disk,     \* the revision a restart would read
  cache,    \* the revision Storage.get answers
  memory,   \* the revision the writer holds: the last one accepted
  writing,  \* is a commit under way?
  held      \* may the cached revision still be written to the disk?

vars == <<disk, cache, memory, writing, held>>

TypeOK ==
  /\ disk \in Nat /\ cache \in Nat /\ memory \in Nat
  /\ writing \in BOOLEAN /\ held \in BOOLEAN

Init ==
  /\ disk \in Nat /\ cache = disk /\ memory = disk
  /\ writing = FALSE /\ held = FALSE

\* A commit whose expected revision is the stored one.  Any other commit is
\* refused without effect.
Begin ==
  /\ ~writing /\ cache = memory
  /\ cache' = memory + 1
  /\ writing' = TRUE /\ held' = TRUE
  /\ UNCHANGED <<disk, memory>>

Land == held /\ disk' = cache /\ held' = FALSE /\ UNCHANGED <<cache, memory, writing>>

Lose == held /\ held' = FALSE /\ UNCHANGED <<disk, cache, memory, writing>>

Accept ==
  /\ writing /\ disk = cache
  /\ memory' = cache /\ writing' = FALSE
  /\ UNCHANGED <<disk, cache, held>>

Refuse == writing /\ writing' = FALSE /\ UNCHANGED <<disk, cache, memory, held>>

\* The writer that owns its flush is told as the write lands or is lost.
LandAndAccept ==
  /\ writing /\ held
  /\ disk' = cache /\ memory' = cache
  /\ writing' = FALSE /\ held' = FALSE
  /\ UNCHANGED cache

LoseAndRefuse ==
  /\ writing /\ held
  /\ writing' = FALSE /\ held' = FALSE
  /\ UNCHANGED <<disk, cache, memory>>

\* The process ends; a new one reads the disk.
Restart ==
  /\ cache' = disk /\ memory' = disk
  /\ writing' = FALSE /\ held' = FALSE
  /\ UNCHANGED disk

Next ==
  \/ Begin \/ Land \/ Lose \/ Accept \/ Refuse
  \/ LandAndAccept \/ LoseAndRefuse \/ Restart

Spec == Init /\ [][Next]_vars
=============================================================================
