SPECIFICATION Spec
CONSTANTS
  s1 = s1  s2 = s2  a = a  b = b  None = None
  Session <- MCSession
  Path <- MCSinglePath
  MaxRecords = 2
  MaxRebuilds = 2
SYMMETRY MCSessionSymmetry
CONSTRAINT MCCanRecover
PROPERTY RefreshRepairs
