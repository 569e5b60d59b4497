\* The capturing, measuring and tracking windows and the gain, see MCWindows.
SPECIFICATION WindowsSpec
CONSTANTS
  MaxCount = 4
  MaxName = 3
  MaxMarkers = 3
  Recordings <- MCRecordings
  MaxTimers = 2
  PointNames = {a, b, c}
  Devices = {0, 1, 2, 3}
  CameraGroups = {g1, g2}
  Gains = {32, 128}
  DefaultGain = 32
  IdOf <- MCIdOf
  ConfigGain <- MCConfigGain
INVARIANTS
  WindowsTypeOK
  ListedComplete
  GalleryOverrun
  SelectionLag
  PairingIsABijection
  PlayerShowsSlider
  PointsAgree
  GainInSync
\* A window stops where the code reads out of bounds or throws.
CHECK_DEADLOCK FALSE
