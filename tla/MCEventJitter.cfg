CONSTANTS
  Events <- MCEvents
  Period <- MCPeriod
  Oneshot <- MCOneshot
  Cancels <- MCCancels
  Jitters = {0, 999}
  MaxTime = 5
  MaxBack = 1
  MaxPeriod = 7
  TimeWidth = 4
SPECIFICATION Spec
INVARIANT ScheduledWithinPeriod
