SPECIFICATION Spec
CONSTANTS
  s1 = s1  s2 = s2  a = a  b = b  None = None
  Session <- MCSession
  Path <- MCPath
  MaxRecords = 2
  MaxRebuilds = 1
SYMMETRY MCSymmetry
CONSTRAINT MCCanRecover
INVARIANTS
  TypeOK
  ViewIsReplay
  DamageHasCause
  NothingMissed
  IndexAgreesWithDisk
