SPECIFICATION Spec
CONSTANTS
  Users = {subscriber, u1}
  Closers = {d1}
  Subscriber = subscriber
  m1 = m1
  Messages = {m1}
  Text <- Texts
  Kinds = {"STREAM_PROCESSOR", "RPC"}
  MaxConcurrent = 1
  MaxFaults = 2
  Registrations = 2
  MaxLives = 2
CHECK_DEADLOCK FALSE
INVARIANTS
  AtMostOneConnection
  AckedMeansHandled
  SlotsMatchHandlers
  DeliveredIntact
PROPERTIES
  LiveConnectionGiven
  AtMostOnce
  ShutsDownOnce
  MutexReleased
  ShutdownEnds
  EveryMessageHandled
