SPECIFICATION Spec
CONSTANTS
  ADDR_SIZE = 2
  Ids = {0, 1, 2, 3}
  NoAdd = NoAdd
  Self = 1
  MaxPkts = 1
  MaxTime = 9
  macFailed_ = FALSE
  ASPU_QUEUE_LEN = 2
  ASPU_QUEUE_TIMEOUT = 3
  ASPU_DHT_ENTRY_TIMEOUT = 4
  ASPU_DHT_PURGE_INTERVAL = 2
  ADP_DARQ_TIMEOUT = 2
  ADP_DARQ_EB_TIMEOUT = 1
  MAC_FAILED_ALLOWED_LOSS = 1
  LocalDsts <- TimeDsts
  Transit <- None
  Hellos <- TimeHellos
  Darqs <- None
  Darps <- None
  Daups <- None
  Dabrs <- TimeDabrs
  Tables <- SteadyTables
  NewAddrs <- None
INVARIANTS DhtStaleBound BackoffGrows RetriesOnTime
PROPERTIES ImplementsResolution
CHECK_DEADLOCK FALSE
