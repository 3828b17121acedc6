\* One stream in depth, of a service thread or of a subprocess on a socket pair:
\* flow control, partial writes, end of file, exit, broken link, and its progress
\* when main runs.
SPECIFICATION FairSpec
CONSTANTS
  Streams = {1}
  TransportFd = 3
  Kinds = {"thread", "exec"}
  Payload = 2
  BufCap = 1
  MaxUp = 2
  MaxDown = 3
  MayBreak = TRUE
INVARIANTS
  SocketsCorrect
PROPERTIES
  Implements
  StreamsServed
CHECK_DEADLOCK FALSE
