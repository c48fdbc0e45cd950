SPECIFICATION Spec
CONSTANTS
  x1 = x1
  x2 = x2
  None = None
  Process = {x1, x2}
  Package <- MCPackage
  File <- MCFile
  MaxVersion = 3
  Contents <- MCContents
  Requires <- MCRequires
  MaxJobs = 3
  MaxTroubles = 0
SYMMETRY Symmetry
INVARIANT SharedFilesKept
CONSTRAINT FewReleases
CHECK_DEADLOCK FALSE
