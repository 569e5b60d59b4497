CONSTANTS
  Folders <- MCFolders
  Garbage = {0}
  Speeds = {2}
  MaxTimers = 1
SPECIFICATION Spec
PROPERTY OpenShowsFirst
