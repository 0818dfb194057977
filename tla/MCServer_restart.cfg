SPECIFICATION Spec
CONSTANTS
  s1 = s1
  s2 = s2
  s3 = s3
  ann = ann
  bob = bob
  None = None
  Session = {s1, s2}
  Name = {ann, bob}
  ValidName = {ann}
  Password = {"Secret-1"}
  ValidPassword = {"Secret-1"}
  GzName = {ann, bob}
  Folder = {ann, bob}
  File = {"f"}
  Option = {"register", "login", "upload", "rename", "delete", "ls", "download", "other"}
  Faults = TRUE
  Crashes = TRUE
SYMMETRY SessionSymmetry
INVARIANTS TypeOK SessionSound FolderExclusive UploadIntact LockedOnlyInside
