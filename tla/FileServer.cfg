SPECIFICATION Spec
CONSTANTS
  Workers = {w1, w2}
  Names = {n1}
  Passwords = {p1, p2}
  Files = {f1, f2}
  Chars <- MCChars
  Bodies <- MCBodies
  MaxInt = 3
  MaxGarbage = 1
  Ranges <- MCRanges
  MaxOps = 3
  MaxRestarts = 1
INVARIANTS
  AccountsAgree
  AdmittedAreRegistered
  UploadsIntact
  DownloadsIntact
CHECK_DEADLOCK FALSE
