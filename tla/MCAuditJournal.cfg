CONSTANTS
  alice = alice
  bob = bob
  Writers <- MCWriters
  Limit = 2
  MaxXid = 4
  MaxId = 4
SPECIFICATION Spec
INVARIANTS
  TypeOK
  NothingBehindCursor
PROPERTIES
  DeliveredOnce
  ImplementsFeed
  EveryEventDelivered
CHECK_DEADLOCK FALSE
