SPECIFICATION FairSpec
CONSTANTS
  s1 = s1
  s2 = s2
  t1 = t1
  t2 = t2
  NoTask = NoTask
  StreamTasks = {s1, s2}
  SleepTasks = {t1, t2}
  Impatient = {t1}
  OneShot = {s2, t2}
  TaskQueueCap = 5
  StreamCap = 1
  SleepTicks = 2
  MaxTicks = 3
INVARIANTS
  NoLostWakeup
  NoLostSleeper
  TimersAreAwaited
  HandlersNeverFree
PROPERTIES
  NeverEarly
  Schedules
  InputConsumed
  SleepEnds
CHECK_DEADLOCK FALSE
