CONSTANTS
  Addresses = {a1, a2, a3}
  Groups = {g1, g2}
  Kinds = {"record", "manual", "replay"}
  MaxTasks = 2
  Null = Null
SPECIFICATION FairSpec
INVARIANTS TypeOK FramesReachTheLiving PumpsExplained PointerNamesWindow
PROPERTIES StoppedGroupFreed StoppedGroupDrains
