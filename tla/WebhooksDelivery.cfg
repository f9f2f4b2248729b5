SPECIFICATION FairSpec
CONSTANTS
  ep1 = ep1
  e1 = e1
  d1 = d1  d2 = d2
  w1 = w1  w2 = w2
  NoEndpoint = NoEndpoint
  NoDelivery = NoDelivery
  Endpoint <- OneEndpoint
  Event <- OneEvent
  Delivery <- TwoDeliveries
  Dispatcher <- TwoDispatchers
  MaxAttempts = 2
  Limit = 1
  MaxFaults = 1
  Subscription <- Selected
INVARIANTS
  TypeOK
  PostsBounded
  DuplicateNeedsOverlap
  GivenUpWasPosted
  DeliveredIffAcked
PROPERTIES
  EventuallySettled
