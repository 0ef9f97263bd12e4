SPECIFICATION Spec
CONSTANTS
  MaxPackets = 3
  ASPU_QUEUE_LEN = 1
  Kinds = {"HELLO", "DARQ", "DAUP"}
  GoOn = FALSE
INVARIANTS SoundUntilShared OneOwner
PROPERTY OnlyReusedIsShared
CHECK_DEADLOCK FALSE
