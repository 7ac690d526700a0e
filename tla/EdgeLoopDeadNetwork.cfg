SPECIFICATION Spec
CONSTANTS
  Unit = 60
  MaxExpectedContours = 20
  None = None
  INFINITY = INFINITY
  Scenes <- EmptyOnly
  DefaultAspect = 18
  DefaultSmooth = 1
  AspectSettings = {}
  SmoothSettings = {}
  HistoryLen = 1
  PingInterval = 2
  DefaultDelayMs = 50
  DefaultLatencyMs = 80
  NoPong = NoPong
  DefaultPrivacy = FALSE
  LinkDelays = {6}
  Down = Down
  MaxFrameSeconds = 1
  MaxBlockSeconds = 1
  MaxKeys = 0
  FrameWrap = 2
PROPERTY DeadNetworkAvoided
