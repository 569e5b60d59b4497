CONSTANTS
  Cameras = {c1, c2}
  NoThread = NoThread
  SlowCapture = FALSE
  StartMayFail = FALSE
SYMMETRY CameraSymmetry
SPECIFICATION Spec
INVARIANT FullFrameSet
