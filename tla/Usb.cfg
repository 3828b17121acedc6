SPECIFICATION UsbSpec
CONSTANTS
  Devices = {"u1", "u2"}
  ReadOnly = {"u1"}
  Lengths = {2, 3}
  MaxXfer = 2
  PacketSize = 2
  TimedOut = 1
  MaxPlugs = 2
  MaxWrites = 1
PROPERTIES
  UsbCorrect
CHECK_DEADLOCK FALSE
