SPECIFICATION Spec
CONSTANTS
  SERIAL_TTY = SERIAL_TTY
  WRITER = WRITER
  TIMERS = TIMERS
  PMM = PMM
  NETWORK_INTERFACE = NETWORK_INTERFACE
  IntLocks = {SERIAL_TTY, WRITER, TIMERS}
  PlainLocks = {PMM, NETWORK_INTERFACE}
SYMMETRY LockSymmetry
INVARIANTS
  NeverSpins
  HeldMasked
  FlagRestored
