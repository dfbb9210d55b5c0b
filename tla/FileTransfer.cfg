SPECIFICATION Spec
CONSTANTS
  Manifests <- MCManifests
  OldSizes = {0, 7}
  numWorkers = 5
  parallelChunkSize = 2
  parallelStreamWorkers = 2
  maxStreamWorkers = 3
INVARIANTS TypeOK CompleteOnSuccess ProgressIsExact
PROPERTIES ErrorIsReported Terminates
CHECK_DEADLOCK FALSE
