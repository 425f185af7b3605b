SPECIFICATION FairSpec
CONSTANTS
  t1 = t1
  t2 = t2
  t3 = t3
  Boot = boot
  Idle = idle
  Task <- MCTask
INVARIANTS QueueMatchesState
PROPERTIES NoOvertaking RunnableRuns
