SPECIFICATION FairSpec
CONSTANTS
  Slips = {"refused", "missing", "silent", "aborted", "longList"}
  MaxUnread = 5
  MaxAfter = 2
  None = None
CHECK_DEADLOCK FALSE
INVARIANTS TypeOK InStep StuckOnlyBySlip LoginIsReal
PROPERTIES IsDialogue 
