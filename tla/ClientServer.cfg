SPECIFICATION FairSystem
CONSTANTS
  Sessions = {s1}
  Requests = {1, r1}
  Threads = {t1}
  MinProtocol = 2
  MaxProtocol = 3
  Versions = {2, 3}
  Levels = {0, 1}
  MaxBatch = 2
  InitHandShake = 0
  SessionTimeout = 0
  JanitorCheckTime = 1
  MaxRequests = 2
  MaxEvents = 1
  OtherBodies <- SinglesAndOneArray
  None = None
INVARIANTS CallbacksMatchSessions HandshakeComesFirst ProtocolIsFixed ReadyIsServed
PROPERTIES RequestsFinish HandshakesEnd PostsReturn ImplementsClient
