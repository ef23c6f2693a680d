SPECIFICATION Spec
CONSTANTS
  Sessions = {s1, s2}
  Requests = {r1, r2}
  Threads = {t1, t2}
  MinProtocol = 2
  MaxProtocol = 3
  Versions = {3}
  Levels = {0, 1}
  MaxBatch = 0
  InitHandShake = 1
  SessionTimeout = 2
  JanitorCheckTime = 2
  None = None
SYMMETRY Symmetry
INVARIANT NoForeignLog
