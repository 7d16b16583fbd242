\* The two stores of the Agent Host and a third key, so that a flush can be
\* waited for by two writers whose keys it does and does not write.
SPECIFICATION StorageSpec
CONSTANTS
  Keys = {catalog, packages, other}
  MaxRevision = 2
INVARIANTS
  AcceptedIsDurable
PROPERTY KeepsStorePromise
