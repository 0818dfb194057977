SPECIFICATION Spec
CONSTANTS
  s1 = s1
  s2 = s2
  s3 = s3
  ann = ann
  bob = bob
  None = None
  Session = {s1, s2}
  Name = {ann, bob, "b d"}
  ValidName = {ann, bob}
  Password = {"Secret-1", "Secret-2", "weak"}
  ValidPassword = {"Secret-1", "Secret-2"}
  GzName = {}
  Folder = {ann, bob, "b d"}
  File = {"f"}
  Option = {"register", "login", "other"}
  Faults = TRUE
  Crashes = TRUE
SYMMETRY SessionSymmetry
INVARIANTS SessionSound
PROPERTIES FirstRegistrationWins AnswerMeansAccount IsAccountService
