\* push, sync and pull of one or two files with failed calls anywhere and a link that may
\* break; three debuggers of two processes with room for two.
SPECIFICATION Spec
CONSTANTS
  Files = {"file", "system", "link"}
  Links = {"link"}
  Owned = {"system"}
  Size <- Sizes
  OldSize <- OldSizes
  Cap = 1
  AnswerCap = 2
  MaxFaults = 2
  p1 = p1
  p2 = p2
  Procs = {p1, p2}
  Pid <- MCPid
  Streams = {s1}
  Debuggers = {d1, d2, d3}
  MaxOut = 2
  MaxFirst = 2
  MaxUpdate = 1
PROPERTIES
  CopiesCorrect
  JdwpCorrect
CHECK_DEADLOCK FALSE
