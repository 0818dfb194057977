SPECIFICATION Spec
CONSTANTS
  s1 = s1
  s2 = s2
  s3 = s3
  ann = ann
  bob = bob
  None = None
  Session = {s1}
  Name = {ann, bob}
  ValidName = {ann, bob}
  Password = {"Secret-1"}
  ValidPassword = {"Secret-1"}
  GzName = {}
  Folder = {ann, bob}
  File = {"f"}
  Option = {"register", "login", "upload"}
  Faults = FALSE
  Crashes = FALSE
INVARIANTS OwnFolder
