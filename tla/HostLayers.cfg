SPECIFICATION Spec
CONSTANTS
  Threads = {"t1", "t2"}
  MaxFiles = 3
  BufferSize = 3
  MaxBytes = 5
  MaxLen = 3
  Payload = 2
  Handles = 3
  ChunkSize = 2
  Sockets = {"s1", "s2"}
  MaxArrivals = 2
  MaxSets = 1
  Interfaces = {"i1"}
  MaxHandles = 2
  Followers = {"w1", "w2"}
  Fit = 1
  Jobs = {"f1", "e1", "e2", "d1", "d2", "d3"}
  Rounds <- RoundsGiven
  KindOf <- Kinds
  SerialOf <- Serials
  PortOf <- AdbPorts
  TableSize = 1
  Listed = "list"
  Pending = "pending"
  Empty = "empty"
INVARIANTS
  FilesCorrect
  PairCorrect
  WaitCorrect
  WinEventsCorrect
  UsbWindowsCorrect
  HostTransportsCorrect
PROPERTIES
  ImplementsQueue
  HostLayersLive
CHECK_DEADLOCK FALSE
