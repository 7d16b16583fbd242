------------------------- MODULE ApplicationStorage -------------------------
(***************************************************************************)
(* The application storage and the revisioned stores kept in it.           *)
(*                                                                         *)
(* Storage (base/parts/storage/common/storage.ts) is one cache over one    *)
(* SQLite table; the Agent Host catalog and the package state are two of   *)
(* its keys.  A set changes the cache and pendingInserts at once and then  *)
(* flushes: while another flush runs it waits for that one and flushes     *)
(* again, otherwise it writes everything pending in one transaction.       *)
(*                                                                         *)
(* Each key here has one writer, a RevisionedAgentHostStateStore whose     *)
(* commits are serialised; a value is its revision.  A set of an equal     *)
(* value, deletions and close are not modelled.                            *)
(***************************************************************************)
EXTENDS Naturals

CONSTANTS
  Keys,         \* the storage keys, one per revisioned store
  MaxRevision   \* bound on the revisions written

ASSUME MaxRevisionAssumption == MaxRevision \in Nat

VARIABLES
  disk,      \* key -> revision in ItemTable
  cache,     \* key -> revision in Storage.cache
  inserts,   \* the keys of pendingInserts; their values are the cached ones
  flushing,  \* pendingFlush: the keys and revisions being written
  caller,    \* key -> what its writer's commit is doing
  memory     \* key -> the revision its writer holds

storageVars == <<disk, cache, inserts, flushing, caller, memory>>

Nothing == [k \in {} |-> 0]
Flushing == flushing # Nothing

\* flush, once no other runs: everything pending becomes one transaction.
\* What is being written is in the cache until the next commit of its writer,
\* which has to wait for its turn.
StartFlush(keys) ==
  /\ flushing' = [k \in keys |-> cache'[k]]
  /\ inserts' = {}

\* commit: the expected revision is compared with the cached one ...
CommitConflicts(key) ==
  /\ caller[key] = "idle" /\ cache[key] # memory[key]
  /\ caller' = [caller EXCEPT ![key] = "refused"]
  /\ UNCHANGED <<disk, cache, inserts, flushing, memory>>

\* ... and set writes the next one.
CommitIf(expected, key) ==
  /\ caller[key] = "idle" /\ expected /\ cache[key] < MaxRevision
  /\ cache' = [cache EXCEPT ![key] = @ + 1]
  /\ IF Flushing
       THEN /\ inserts' = inserts \cup {key}
            /\ caller' = [caller EXCEPT ![key] = "waiting"]
            /\ UNCHANGED flushing
       ELSE /\ StartFlush(inserts \cup {key})
            /\ caller' = [caller EXCEPT ![key] = "flushing"]
  /\ UNCHANGED <<disk, memory>>

Commit(key) == CommitIf(cache[key] = memory[key], key)

Accepted(keys) == memory' = [k \in Keys |-> IF k \in keys THEN cache[k] ELSE memory[k]]

Callers(state) == {k \in Keys : caller[k] = state}

\* The transaction commits: the owner of the flush is told so, and those who
\* waited for it will flush again.  Continuations of a settled promise run
\* before the next write can settle, so none is left from an earlier flush.
Written ==
  /\ Flushing /\ Callers("resuming") = {}
  /\ disk' = [k \in Keys |-> IF k \in DOMAIN flushing THEN flushing[k] ELSE disk[k]]
  /\ flushing' = Nothing
  /\ Accepted(Callers("flushing"))
  /\ caller' = [k \in Keys |-> CASE caller[k] = "flushing" -> "idle"
                                 [] caller[k] = "waiting" -> "resuming"
                                 [] OTHER -> caller[k]]
  /\ UNCHANGED <<cache, inserts>>

\* The transaction fails (SQLITE_BUSY, a full disk): the owner and everyone
\* who waited are refused.  What was being written is forgotten, what waited
\* stays in pendingInserts, and the cache keeps both.
WriteFails ==
  /\ Flushing /\ Callers("resuming") = {}
  /\ flushing' = Nothing
  /\ caller' = [k \in Keys |-> IF caller[k] \in {"flushing", "waiting"} THEN "refused" ELSE caller[k]]
  /\ UNCHANGED <<disk, cache, inserts, memory>>

\* Wrong variant: the flush that was waited for is taken for the own one.
ResumeAccepted(key) ==
  /\ caller[key] = "resuming"
  /\ caller' = [caller EXCEPT ![key] = "idle"]
  /\ Accepted({key})
  /\ UNCHANGED <<disk, cache, inserts, flushing>>

\* flush again, after the flush that was waited for.
Resume(key) ==
  /\ caller[key] = "resuming"
  /\ IF Flushing THEN
          /\ caller' = [caller EXCEPT ![key] = "waiting"]
          /\ UNCHANGED <<inserts, flushing, memory>>
     ELSE IF inserts = {} THEN
          /\ caller' = [caller EXCEPT ![key] = "idle"]
          /\ Accepted({key})
          /\ UNCHANGED <<inserts, flushing>>
     ELSE /\ flushing' = [k \in inserts |-> cache[k]]
          /\ inserts' = {}
          /\ caller' = [caller EXCEPT ![key] = "flushing"]
          /\ UNCHANGED memory
  /\ UNCHANGED <<disk, cache>>

\* A writer that was refused keeps its revision and may commit again.
Proceed(key) ==
  /\ caller[key] = "refused"
  /\ caller' = [caller EXCEPT ![key] = "idle"]
  /\ UNCHANGED <<disk, cache, inserts, flushing, memory>>

\* The process ends; a new one initialises its cache from the table.
Restart ==
  /\ cache' = disk /\ memory' = disk
  /\ inserts' = {} /\ flushing' = Nothing
  /\ caller' = [k \in Keys |-> "idle"]
  /\ UNCHANGED disk

StorageInit ==
  /\ disk = [k \in Keys |-> 0] /\ cache = disk /\ memory = disk
  /\ inserts = {} /\ flushing = Nothing
  /\ caller = [k \in Keys |-> "idle"]

StorageNext ==
  \/ \E key \in Keys : Commit(key) \/ CommitConflicts(key) \/ Resume(key) \/ Proceed(key)
  \/ Written \/ WriteFails \/ Restart

StorageSpec == StorageInit /\ [][StorageNext]_storageVars

---------------------------------------------------------------------------
(* Properties *)

\* Besides the types: storage is at most one revision ahead of the writer.
StorageTypeOK ==
  /\ disk \in [Keys -> Nat] /\ cache \in [Keys -> Nat] /\ memory \in [Keys -> Nat]
  /\ inserts \subseteq Keys
  /\ DOMAIN flushing \subseteq Keys
  /\ \A k \in DOMAIN flushing : flushing[k] \in Nat
  /\ caller \in [Keys -> {"idle", "flushing", "waiting", "resuming", "refused"}]
  /\ \A k \in Keys : cache[k] \in memory[k]..(memory[k] + 1)

\* A revision its writer was told is committed survives a restart, also when
\* it was written by the flush of another key or by a later one.
AcceptedIsDurable == \A k \in Keys : disk[k] >= memory[k]

\* Every writer sees the store as CatalogStore describes it.
Store(key) == INSTANCE CatalogStore WITH
  disk <- disk[key], cache <- cache[key], memory <- memory[key],
  writing <- caller[key] \in {"flushing", "waiting", "resuming"},
  held <- key \in inserts \/ key \in DOMAIN flushing

\* Storage and the commits on top of it keep that promise to each of them.
KeepsStorePromise ==
  /\ \A key \in Keys : Store(key)!Init
  /\ [][\A key \in Keys : [Store(key)!Next]_(Store(key)!vars)]_storageVars
=============================================================================
