CONSTANTS
  Depth = 3
  Pages <- MCPages
  PointerBytes <- MCAddress
  Events <- MCEvents
  IspFirst = FALSE
  AfterIsp = FALSE
  MaxCalls = 3
  MaxEvents = 2
SPECIFICATION FairSpec
INVARIANTS TypeInvariant EventsDelivered AnswersMatch BitstreamInOrder IspReported
PROPERTIES CallsReturn
CHECK_DEADLOCK FALSE
