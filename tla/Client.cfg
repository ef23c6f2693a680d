SPECIFICATION Spec
CONSTANTS
  Versions = {2, 3, 4}
  MaxRequests = 3
  MaxEvents = 2
  None = None
INVARIANTS TypeOK ConnectionsApart PoolIsSmall ReadyIsConfirmed
PROPERTY OneOutcome
