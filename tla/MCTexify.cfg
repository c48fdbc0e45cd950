SPECIFICATION Spec
CONSTANTS
  key = key
  entry = entry
  Cite = {key}
  Entry = {entry}
  MaxIterations = 5
INVARIANTS
  TypeOK
  OutputIsFixpoint
  CitationsResolved
  IndexIsCurrent
  SettlesInTime
