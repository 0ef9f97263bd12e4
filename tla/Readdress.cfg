SPECIFICATION Spec
CONSTANTS
  ADDR_SIZE = 3
  Ids = {0, 1, 2, 3, 4}
  NoAdd = NoAdd
  MaxPkts = 1
  MaxTime = 0
  macFailed_ = TRUE
  ASPU_QUEUE_LEN = 2
  ASPU_QUEUE_TIMEOUT = 1
  ASPU_DHT_ENTRY_TIMEOUT = 1
  ADP_DARQ_TIMEOUT = 0
  ADP_DARQ_EB_TIMEOUT = 0
  MAC_FAILED_ALLOWED_LOSS = 0
  Nodes = {0, 1, 2}
  Links <- RowMoves
  Addresses <- RowMovesAddrs
  Tables <- RowMovesTables
  Wants <- Follow
  MaxLosses = 0
INVARIANTS CacheProvenance
PROPERTIES NeighborsKnown
