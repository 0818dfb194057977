SPECIFICATION FairSpec
CONSTANTS
  chunkSize = 2
  bufferSize = 2
  MaxSize = 4
  MaxVersion = 2
  Text = Text
CHECK_DEADLOCK FALSE
INVARIANTS TypeOK CountsAgree ArrivesInOrder WholeUnlessRestarted MarkerIsNotContent GarbledOnlyIfDisturbed
PROPERTIES TransferEnds
