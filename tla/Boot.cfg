SPECIFICATION Spec
CONSTANTS
  Functions = 3
  Inputs = {4, 10, 11}
  MaxIsos = 2
INVARIANTS
  PanicsOnlyWithoutCard
  SourcesRouted
PROPERTIES
  RunningNeverReset
CHECK_DEADLOCK FALSE
