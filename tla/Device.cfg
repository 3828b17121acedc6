SPECIFICATION Spec
CONSTANTS
  Shells = {"sh1", "sh2"}
  Frames = {"fb"}
  FrameParts = 2
  PipeRoom = 1
  Ports = {5555, 5556}
  MaxClicks = 3
  MaxPids = 2
  MaxInstances = 2
  MaxConns = 2
  MaxKicks = 2
  MaxGone = 2
PROPERTIES
  ChildrenCorrect
  ProcessesCorrect
  UsbClientCorrect
CHECK_DEADLOCK FALSE
