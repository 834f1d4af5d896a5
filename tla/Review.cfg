SPECIFICATION Spec
CONSTANTS
  e1 = e1
  e2 = e2
  c1 = c1
  c2 = c2
  w1 = w1
  w2 = w2
  NoEvent = NoEvent
  Event <- Events
  Criterion <- Criteria
  Worker <- Workers
  MaxDelivery = 3
  MaxFault = 1
INVARIANTS HandledOnce OutcomeMatchesResults
PROPERTIES RecordedIsReviewed
CHECK_DEADLOCK FALSE
