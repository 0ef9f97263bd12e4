SPECIFICATION Spec
CONSTANTS
  MaxPackets = 3
  ASPU_QUEUE_LEN = 1
  Kinds = {"DABR"}
  GoOn = TRUE
INVARIANTS EventUidValid
CHECK_DEADLOCK FALSE
