SPECIFICATION Spec
CONSTANTS
  ADDR_SIZE = 2
  Ids = {0, 1, 2, 3}
  NoAdd = NoAdd
  Self = 1
  MaxPkts = 3
  MaxTime = 0
  macFailed_ = TRUE
  ASPU_QUEUE_LEN = 3
  ASPU_QUEUE_TIMEOUT = 3
  ASPU_DHT_ENTRY_TIMEOUT = 3
  ASPU_DHT_PURGE_INTERVAL = 2
  ADP_DARQ_TIMEOUT = 2
  ADP_DARQ_EB_TIMEOUT = 2
  MAC_FAILED_ALLOWED_LOSS = 1
  LocalDsts <- RecursionDsts
  Transit <- RecursionTransit
  Hellos <- None
  Darqs <- None
  Darps <- None
  Daups <- None
  Dabrs <- None
  Tables <- NearTables
  NewAddrs <- RecursionAddrs
INVARIANTS
  RecursionAgrees CallsUnfold
CHECK_DEADLOCK FALSE
