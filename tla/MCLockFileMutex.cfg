SPECIFICATION Spec
CONSTANTS
  p1 = p1  p2 = p2  p3 = p3  o1 = o1  o2 = o2  o3 = o3  mpm = mpm  other = other
  Process <- MCProcess
  LockObject <- MCLockObject
  ProcessOf <- MCProcessOf
  Name <- MCName
  NameOf <- MCNameOf
  Pid <- MCPid
  Unprivileged = {}
  MaySignal <- MCMaySignal
  MayRead <- MCMayRead
INVARIANT
  MutualExclusion
