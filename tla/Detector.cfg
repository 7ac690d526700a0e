SPECIFICATION MCSpec
CONSTANTS
  Unit = 60
  MaxExpectedContours = 20
  None = None
  Scenes <- MCScenes
  DefaultAspect = 18
  DefaultSmooth = 3
  AspectSettings <- MCAspectSettings
  SmoothSettings <- MCSmoothSettings
INVARIANTS DetectorTypeOK FlickerMatchesVote NoGhostDirection
PROPERTY WindowNeverGrowsPastSetting
