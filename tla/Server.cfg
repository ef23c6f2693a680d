SPECIFICATION Spec
CONSTANTS
  Sessions = {s1, s2}
  Requests = {r1, r2}
  Threads = {t1, t2}
  MinProtocol = 2
  MaxProtocol = 3
  Versions = {3}
  Levels = {1}
  MaxBatch = 0
  InitHandShake = 0
  SessionTimeout = 1
  JanitorCheckTime = 1
  None = None
SYMMETRY Symmetry
INVARIANTS TypeOK CallbacksMatchSessions HandshakeComesFirst SessionsAgeOut NoForeignLog
PROPERTIES ImplementsLifecycle OwnLogIsHeard
