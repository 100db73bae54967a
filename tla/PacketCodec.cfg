SPECIFICATION Spec
CONSTANTS
  None = None
  Rejected = Rejected
  Ignored = Ignored
  Panic = Panic
  Own <- Here
  OwnMac <- HereMac
  HostMac <- ThereMac
  Id = {0, 65535}
  Payload <- MCPayload
  Target <- MCTarget
  HostFrames <- MCHostFrames
  Xid <- MCXid
  Reply <- MCReply
  Padding <- MCPadding
  Offered <- MCOffered
  MaxDamage = 1
INVARIANTS
  NeverPanics
  IntactDelivered
  DamageNotDelivered
  ParsesWhatWasWritten
