CONSTANTS
  MaxRows = 2
  Contacts = 2
  Batch = 2
  MaxAttempts = 2
  MaxCrashes = 1
  Passes <- TwoPasses
SPECIFICATION FairOutboxSpec
CHECK_DEADLOCK FALSE
INVARIANTS
  NoSurplusSends
PROPERTIES
  EveryRowEnds
