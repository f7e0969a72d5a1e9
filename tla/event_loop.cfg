SPECIFICATION Spec
CONSTANTS
  Tasks = {t1, t2}
  Intervals = {0}
  FrameTime = 1
  MaxTimers = 2
  MaxDepth = 2
CHECK_DEADLOCK FALSE
INVARIANTS TasksAccounted NoTimerLost
PROPERTIES NoLateFire QuitReturns FramesGoOn
