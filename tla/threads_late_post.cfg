CONSTANTS
  MaxTasks = 2
SPECIFICATION Spec
INVARIANT PostedToLiveThread
CHECK_DEADLOCK FALSE
