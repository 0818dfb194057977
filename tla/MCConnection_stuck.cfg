SPECIFICATION FairSpec
CONSTANTS
  Slips = {"refused"}
  MaxUnread = 5
  MaxAfter = 2
  None = None
CHECK_DEADLOCK FALSE
INVARIANT NeverStuck
