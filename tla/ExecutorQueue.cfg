SPECIFICATION Spec
CONSTANTS
  s1 = s1
  s2 = s2
  t1 = t1
  NoTask = NoTask
  StreamTasks = {s1, s2}
  SleepTasks = {t1}
  Impatient = {}
  OneShot = {}
  TaskQueueCap = 6
  StreamCap = 2
  SleepTicks = 1
  MaxTicks = 2
INVARIANTS
  QueueNeverFull
CHECK_DEADLOCK FALSE
