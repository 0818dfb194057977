SPECIFICATION FairSpec
CONSTANTS
  Client = {c1, c2, c3, c4}
  Silent = {c4}
  Threads = 2
  MaxFds = 3
  None = None
CHECK_DEADLOCK FALSE
INVARIANTS TypeOK DescriptorsKept ServedInTurn
PROPERTIES EveryoneServed
