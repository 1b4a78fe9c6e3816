CONSTANTS
  captured = captured
  orderPaid = orderPaid
  failed = failed
  c1 = c1
  c2 = c2
  Captures <- TwoCaptures
  Failures <- OneFailure
  Copies <- TwoOfOne
  MaxLost = 2
SPECIFICATION LiveSpec
CHECK_DEADLOCK FALSE
INVARIANTS
  AppliedOnce
  AnsweredIsApplied
  IgnoredIsCaptured
PROPERTIES
  OrderSeesEvents
  EveryEventAnswered
