SPECIFICATION FairSpec
CONSTANTS
  ShutdownAfter = 2
  KickAfter = 1
  RebootAfter = 2
  StallMin = 3
  StallFactor = 2
  LongestInterval = 2
  CallTime = 1
INVARIANTS TypeOK CoolCamera RegimeRight
PROPERTIES CameraWoken HangEnds StopEnds RebootsSpaced SilenceHealed RadioBack
