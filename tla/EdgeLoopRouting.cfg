SPECIFICATION Spec
CONSTANTS
  Unit = 60
  MaxExpectedContours = 20
  None = None
  INFINITY = INFINITY
  Scenes <- ManyScenes
  DefaultAspect = 18
  DefaultSmooth = 3
  AspectSettings = {}
  SmoothSettings = {2}
  HistoryLen = 2
  PingInterval = 1
  DefaultDelayMs = 50
  DefaultLatencyMs = 80
  NoPong = NoPong
  DefaultPrivacy = FALSE
  LinkDelays = {178, 350}
  Down = Down
  MaxFrameSeconds = 1
  MaxBlockSeconds = 0
  MaxKeys = 1
  FrameWrap = 2
INVARIANTS EdgeInv BadNetworkKeepsContourLocal EmptySceneEscalates
