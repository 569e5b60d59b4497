CONSTANTS
  Folders <- MCFolders
  Garbage <- MCGarbage
  Speeds = {1, 2, 4}
  MaxTimers = 2
SPECIFICATION FairSpec
INVARIANTS TypeOK OverrunExplained TimersExplained
PROPERTY PlayWraps
