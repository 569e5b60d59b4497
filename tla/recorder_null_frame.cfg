CONSTANTS
  Folders = {f1}
  NullFrames = TRUE
  MaxFrames = 1
  MaxSessions = 1
  MaxWindows = 1
SPECIFICATION Spec
INVARIANT NullFrameSurvived
