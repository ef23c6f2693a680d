SPECIFICATION HSpec
CONSTANTS
  Sessions = {s1}
  Requests = {r1}
  Threads = {t1}
  MinProtocol = 2
  MaxProtocol = 3
  Versions = {2, 3}
  Levels = {1}
  MaxBatch = 0
  InitHandShake = 1
  SessionTimeout = 3
  JanitorCheckTime = 2
  None = None
PROPERTY ActiveSessionsStay
