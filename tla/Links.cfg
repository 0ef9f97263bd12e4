SPECIFICATION Spec
CONSTANTS
  ADDR_SIZE = 2
  Ids = {0, 1, 2, 3}
  NoAdd = NoAdd
  Self = 1
  MaxPkts = 2
  MaxTime = 0
  macFailed_ = TRUE
  ASPU_QUEUE_LEN = 2
  ASPU_QUEUE_TIMEOUT = 3
  ASPU_DHT_ENTRY_TIMEOUT = 3
  ASPU_DHT_PURGE_INTERVAL = 2
  ADP_DARQ_TIMEOUT = 2
  ADP_DARQ_EB_TIMEOUT = 2
  MAC_FAILED_ALLOWED_LOSS = 2
  LocalDsts <- LinkDsts
  Transit <- LinkTransit
  Hellos <- LinkHellos
  Darqs <- LinkDarqs
  Darps <- LinkDarps
  Daups <- LinkDaups
  Dabrs <- None
  Tables <- ForkTables
  NewAddrs <- None
INVARIANTS NoFailedHopUsed QueuedIsFresh RequestsAreNeeded
PROPERTIES CacheFollowsTraffic
CHECK_DEADLOCK FALSE
