\* The loop's tables under callbacks that change each other's fdevents, and what
\* the loop delivers when main runs.
SPECIFICATION FairSpec
CONSTANTS
  Fds = {1, 2, 3}
  ExitFd = 2
  MaxOps = 5
  MaxBad = 1
INVARIANTS
  TablesConsistent
  NoticedInThisUse
PROPERTIES
  LoopServes
CHECK_DEADLOCK FALSE
