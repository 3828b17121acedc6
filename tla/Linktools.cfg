SPECIFICATION Spec
CONSTANTS
  j1 = j1
  j2 = j2
  s1 = s1
  Jobs = {j1, j2, s1}
  Stops = {s1}
  Delay <- MCDelay
  Users = {u1, u2}
  Size = 2
  Retry = 1
  Lengths = {1}
  MaxFails = 2
  MaxKills = 1
  Readers = {r1, r2}
  Owner = r1
  MaxLines = 1
  Limited = TRUE
  Containers = {1, 2, 3}
  Orders = {1, 2, 3}
  MayDisable = {1}
  Tunnels = {t1}
  MaxData = 2
  RecvSize = 2
  MaxStalls = 1
  Pids = {p1, p2}
  AutoStart = TRUE
  MaxSpawns = 1
  MaxEnds = 1
  MaxWrites = 1
INVARIANTS
  ContainersCorrect
  UrlCorrect
  OutputCorrect
  TunnelsCorrect
  FridaCorrect
PROPERTIES
  ReactorCorrect
  LinktoolsServe
CHECK_DEADLOCK FALSE
