CONSTANTS
  MaxTasks = 3
SPECIFICATION FairSpec
INVARIANTS TypeOK EveryTaskRun JoinedThreadGoesOn
PROPERTIES ShutdownOutcome QuietShutdownReturns ShutdownAdvances
\* The program really stops when a file thread waits for threads_lock_ while
\* it is joined: see ShutdownOutcome.
CHECK_DEADLOCK FALSE
