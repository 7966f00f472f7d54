CONSTANTS
  Sizes <- MCSizes
  Preempts = FALSE
  RestartOn <- MCCompleted
  Errors <- MCErrors
  MaxTransfers = 2
  MaxPauses = 1
SPECIFICATION FairSpec
INVARIANTS TypeInvariant ChunksInOrder OutcomeOnce DescriptorsInBounds StoppedMeansQuiet
PROPERTIES TransferEnds
CHECK_DEADLOCK FALSE
