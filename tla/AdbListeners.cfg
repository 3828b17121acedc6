SPECIFICATION Spec
CONSTANTS
  Transports = {t1, t2}
  Names = {n1, n2}
  Remotes = {r1, r2}
  Threads = {k1, k2}
  None = None
  MaxInstall = 3
  MaxAsk = 4
  MaxConns = 1
INVARIANTS
  ListenersCorrect
PROPERTIES
  ListenersChange
CHECK_DEADLOCK FALSE
