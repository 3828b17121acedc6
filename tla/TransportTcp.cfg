\* TCP: the second connection is refused while the first is registered; the host
\* of the first opens a reverse forward and answers its clients.
SPECIFICATION Spec
CONSTANTS
  t1 = t1
  t2 = t2
  NoTransport = NoTransport
  Transports <- TwoTransports
  UsbTransports <- NoTransports
  ReverseHosts <- FirstOnly
  MaxRead <- FourOne
  MaxSent <- ThreeOne
INVARIANTS
  TeardownOrder
  DeliveryCorrect
CHECK_DEADLOCK FALSE
