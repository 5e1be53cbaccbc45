CONSTANTS
  quote = quote
  swap = swap
  Receiver = {r1, r2}
  WatcherVersions = 3
  Request <- MCRequest
  Kind <- MCKind
  MaxVersions = 3
SPECIFICATION MCSpec
INVARIANTS TypeOK NeverServesDefault PanicOnlyOnEmptyRpcs OldNeverReturns NewestServed ReadsForward SubscriberInStep WatcherOldNeverReturns
PROPERTIES NobodyWaitsForever
CHECK_DEADLOCK FALSE
