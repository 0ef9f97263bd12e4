SPECIFICATION Spec
CONSTANTS
  ADDR_SIZE = 2
  INFINITO = 5
  RTR_ETX_MAX = 51200
  Nodes = {1, 2, 3, 4}
  Pairs <- Star
  Quality <- StarEdge
  LQE_THRESHOLD = 60
  MaxFaults = 0
PROPERTIES TwinsAreMasked ConflictIsHopeless
