SPECIFICATION Spec
CONSTANTS
  None = None
  Width = 2
  Height = 2
  BufferLen = 2
  QueueCap = 2
  Typed = {"a", ">", "erase", "enter", "control"}
  MaxTyped = 4
  MaxTicks = 1
INVARIANTS
  LineIsShown
  PanicReported
CHECK_DEADLOCK FALSE
