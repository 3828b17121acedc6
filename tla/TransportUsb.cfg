\* USB: the next session may start while the previous one is torn down.
SPECIFICATION FairSpec
CONSTANTS
  t1 = t1
  t2 = t2
  NoTransport = NoTransport
  Transports <- TwoTransports
  UsbTransports <- TwoTransports
  ReverseHosts <- NoTransports
  MaxRead <- OneEach
  MaxSent <- OneEach
INVARIANTS
  HandshakeInv
PROPERTIES
  KickClosesOwnLink
  DeadTransportIsFreed
CHECK_DEADLOCK FALSE
