SPECIFICATION Spec
CONSTANTS
  Clients = {"c1", "c2", "c3"}
  VersionOf <- VersionsGiven
  StartOnly = {"c3"}
  First = "first"
  None = "none"
  Askers = {"a1"}
  Transports = {"u1", "l1"}
  Usb = {"u1"}
  Nobody = "nobody"
  Apks = 2
  MaxLosses = 2
  BlockSize = 2
  IntMax = 7
  MaxBlocks = 12
  MaxAsked = 2
  MaxTyped = 4
  MaxRead = 3
PROPERTIES
  ServerCorrect
  RequestsCorrect
  CommandsCorrect
  SideloadCorrect
  ShellCorrect
CHECK_DEADLOCK FALSE
