SPECIFICATION Spec
CONSTANTS
  ADDR_SIZE = 2
  INFINITO = 4
  RTR_ETX_MAX = 51200
  Nodes = {1, 2, 3}
  Pairs <- Triangle
  Quality <- Perfect
  LQE_THRESHOLD = 60
  MaxFaults = 1
INVARIANTS TypeOK SmallestStays TablesFit NothingFromTwin
PROPERTIES AddressesSettle NeighborsDiffer NeighborsReach
