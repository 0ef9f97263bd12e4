SPECIFICATION Spec
CONSTANTS
  ADDR_SIZE = 2
  Ids = {0, 1, 2, 3}
  NoAdd = NoAdd
  Self = 1
  MaxPkts = 3
  MaxTime = 0
  macFailed_ = FALSE
  ASPU_QUEUE_LEN = 2
  ASPU_QUEUE_TIMEOUT = 3
  ASPU_DHT_ENTRY_TIMEOUT = 3
  ASPU_DHT_PURGE_INTERVAL = 2
  ADP_DARQ_TIMEOUT = 2
  ADP_DARQ_EB_TIMEOUT = 2
  MAC_FAILED_ALLOWED_LOSS = 1
  LocalDsts <- ReleaseDsts
  Transit <- None
  Hellos <- ReleaseHellos
  Darqs <- None
  Darps <- ReleaseDarps
  Daups <- None
  Dabrs <- ReleaseDabrs
  Tables <- NearTables
  NewAddrs <- ReleaseAddrs
INVARIANTS
  TypeOK
  NoWaitingForKnown
  QueueOwnsItsPackets
  ScheduledOnce
PROPERTIES
  ReleaseNewestFirst
  ImplementsResolution
CHECK_DEADLOCK FALSE
