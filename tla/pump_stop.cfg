\* The two cameras preview() insists on; a capture may outlast the wait of Stop,
\* and CreateThread / CreateSemaphore may fail.
CONSTANTS
  Cameras = {c1, c2}
  NoThread = NoThread
  SlowCapture = TRUE
  StartMayFail = TRUE
SPECIFICATION FairSpec
INVARIANTS TypeOK LeaksAreTheKilled
PROPERTIES StopIsFinal RoundCompletes StopReturns
