SPECIFICATION Spec
CONSTANTS
  s1 = s1
  s2 = s2
  s3 = s3
  ann = ann
  bob = bob
  None = None
  Session = {s1, s2}
  Name = {ann}
  ValidName = {ann}
  Password = {"Secret-1"}
  ValidPassword = {"Secret-1"}
  GzName = {}
  Folder = {ann}
  File = {"f"}
  Option = {"register", "login"}
  Faults = FALSE
  Crashes = FALSE
INVARIANTS RegistrationAnswered
