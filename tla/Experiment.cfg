SPECIFICATION MCSpec
CONSTANTS
  Unit = 60
  MaxExpectedContours = 20
  None = None
  INFINITY = INFINITY
  HistoryLen = 2
  PingInterval = 2
  DefaultDelayMs = 50
  DefaultLatencyMs = 80
  NoPong = NoPong
  Presets = {"good", "medium", "bad"}
  UnshapedMs = 2
  ThresholdMs = 100
  CloudTimes = {30, 900}
  MaxStepBack = 1
INVARIANTS ExperimentTypeOK EstimateConverges EstimateIsMeasured
PROPERTIES PoliciesAreMonotone SameGestureReroutes
