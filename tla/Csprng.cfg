SPECIFICATION RngSpec
CONSTANTS
  Source = {"virtio", "rdrand"}
  BufLen = 2
  RESEED_INTERVAL = 3
  MaxBlocks = 13
INVARIANTS
  KeyErased
  SeedKept
  ReseedsInTime
PROPERTIES
  ServedOnce
CHECK_DEADLOCK FALSE
