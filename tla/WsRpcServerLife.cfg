SPECIFICATION LifeFairSpec
CONSTANTS
  NumThreads = 1
  Handles = {h1}
  MaxSessions = 2
  MaxRequests = 1
  Events = {e1}
  Ids = {i1}
  MaxEvents = 1
  NoOwner = NoOwner
  Names = {}
  Binds <- NoBinds
  AppThreads = {a1}
  Bodies <- OnlyRegister
INVARIANTS
  LifeTypeOK
  StoppedIsSafeToDestroy
  NothingLeftBehind
  NoStaleRegistration
PROPERTIES
  DestructionEnds
  ClientForgotten
  NotificationDelivered
  RequestAnswered
