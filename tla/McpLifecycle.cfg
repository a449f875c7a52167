SPECIFICATION Spec
CONSTANTS
  p1 = p1
  p2 = p2
  p3 = p3
  s1 = s1
  s2 = s2
  s3 = s3
  NoPid = NoPid
  NoRecord = NoRecord
  NoLock = NoLock
  Gone = Gone
  Servers = {s1, s2, s3}
  Procs = {p1, p2, p3}
  Commands = {"start", "stop", "health"}
  MaxFaults = 1
  MaxOvertaken = 1
SYMMETRY Interchangeable
INVARIANT TypeOK
INVARIANT OneInsidePerRecovery
INVARIANT StartsShareOneServer
INVARIANT StopIsConfirmed
PROPERTY ImplementsSpawnLock
CHECK_DEADLOCK FALSE
