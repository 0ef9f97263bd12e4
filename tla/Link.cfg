SPECIFICATION Spec
CONSTANTS
  NDP_NEIGHBOR_EXPIRE = 7
  NDP_MIN_HELLO_INTERVAL = 1
  NDP_MAX_HELLO_INTERVAL = 2
  Intervals = {1, 2}
  LQE_MA_EXPECTED_HELLO = 4
  LQE_THRESHOLD = 9
  MaxLosses = 1
INVARIANTS TypeOK SteadyLinkIsUsed SilenceIsNoticed SilentLinkIsLeft KnownIsHeard
