SPECIFICATION FairSpec
CONSTANTS
  s1 = s1
  s2 = s2
  s3 = s3
  ann = ann
  bob = bob
  None = None
  Session = {s1, s2}
  Name = {ann}
  ValidName = {ann}
  Password = {"Secret-1"}
  ValidPassword = {"Secret-1"}
  GzName = {}
  Folder = {ann, "elsewhere"}
  File = {"f"}
  Option = {"register", "login", "upload", "rename", "delete", "ls", "download"}
  Faults = FALSE
  Crashes = FALSE
PROPERTIES LockReleased
