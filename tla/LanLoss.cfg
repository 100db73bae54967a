SPECIFICATION FairSpec
CONSTANTS
  c1 = c1
  c2 = c2
  s1 = s1
  s2 = s2
  router = router
  host = host
  AllMac = AllMac
  None = None
  Interface = {c1}
  Server = {s1}
  Host = {}
  Peer = {s1}
  Unicast = {}
  Careless = {}
  Refusing = {}
  Pool <- OneServerPool
  ServerId <- OneServerId
  ServerMask <- LocalMask
  Router <- LocalRouter
  HostAddr <- MCHostAddr
  Addr <- MCAddr
  Mask = {1}
  Xid = {1}
  Stray = {}
  Duplicating = FALSE
  MaxEcho = 0
  MaxLost = 1
  MAX_PENDING_PER_ADDRESS = 2
  MAX_PENDING_ADDRESSES = 1
PROPERTIES
  BoundDespiteLoss
CHECK_DEADLOCK FALSE
