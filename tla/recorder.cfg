CONSTANTS
  Folders = {f1, f2}
  NullFrames = FALSE
  MaxFrames = 2
  MaxSessions = 2
  MaxWindows = 2
SPECIFICATION FairSpec
INVARIANTS TypeOK SavedMeansDrained WaitingIsClosures OneFolder
PROPERTIES StopIsAcknowledged StopDrains ImplementsArchive
