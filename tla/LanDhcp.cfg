SPECIFICATION Spec
CONSTANTS
  c1 = c1
  c2 = c2
  s1 = s1
  s2 = s2
  router = router
  host = host
  AllMac = AllMac
  None = None
  Interface = {c1, c2}
  Server = {s1, s2}
  Host = {host}
  Peer = {s1, s2, host}
  Unicast = {}
  Careless = {s2}
  Refusing = {s2}
  Pool <- TwoServerPools
  ServerId <- TwoServerIds
  ServerMask <- LocalMask
  Router <- LocalRouter
  HostAddr <- MCHostAddr
  Addr <- MCAddr
  Mask = {1}
  Xid = {1}
  Stray <- DhcpStray
  Duplicating = TRUE
  MaxEcho = 0
  MaxLost = 0
  MAX_PENDING_PER_ADDRESS = 1
  MAX_PENDING_ADDRESSES = 1
SYMMETRY Machines
INVARIANTS
  AddressesUnique
  ConfiguredBySelected
  AdvertisesOnlyLeased
CHECK_DEADLOCK FALSE
