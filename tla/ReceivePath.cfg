SPECIFICATION Spec
CONSTANTS
  RingSize = 3
  EventCap = 3
  Rejected = {2, 5}
  MaxFrames = 6
  MaxConfig = 3
INVARIANTS
  NoFrameStranded
  BuffersConserved
PROPERTIES
  DeliversFrames
CHECK_DEADLOCK FALSE
