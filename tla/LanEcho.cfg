SPECIFICATION FairSpec
CONSTANTS
  c1 = c1
  c2 = c2
  s1 = s1
  s2 = s2
  router = router
  host = host
  AllMac = AllMac
  None = None
  Interface = {c1}
  Server = {s1}
  Host = {router, host}
  Peer = {s1, router, host}
  Unicast = {s1}
  Careless = {}
  Refusing = {}
  Pool <- OneServerPool
  ServerId <- OneServerId
  ServerMask <- LocalMask
  Router <- LocalRouter
  HostAddr <- MCHostAddr
  Addr <- MCAddr
  Mask = {1}
  Xid = {1, 2}
  Stray <- EchoStray
  Duplicating = TRUE
  MaxEcho = 3
  MaxLost = 1
  MAX_PENDING_PER_ADDRESS = 2
  MAX_PENDING_ADDRESSES = 1
INVARIANTS
  InOrder
  DeliveredToNextHop
PROPERTIES
  ParkedNotLost
  EventuallyBound
  ParkedLeave
CHECK_DEADLOCK FALSE
