\* Three cameras whose captures return promptly: a wait expires only when
\* every background thread is polling.
CONSTANTS
  Cameras = {c1, c2, c3}
  NoThread = NoThread
  SlowCapture = FALSE
  StartMayFail = TRUE
SPECIFICATION Spec
INVARIANTS TokenConservation CollectorAlone OnlyPollersKilled
PROPERTIES ImplementsRounds
