SPECIFICATION Spec
CONSTANTS
  ADDR_SIZE = 3
  INFINITO = 5
  RTR_ETX_MAX = 51200
  Nodes = {1, 2, 3}
  Pairs <- Line3
  Quality <- Perfect
  LQE_THRESHOLD = 60
  MaxFaults = 1
PROPERTIES GoneIsForgotten PacketsComeToRest
