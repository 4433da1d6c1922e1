SPECIFICATION Spec
CONSTANTS
  NumThreads = 1
  Handles = {h1}
  MaxSessions = 1
  MaxRequests = 1
  Events = {e1}
  Ids = {i1}
  MaxEvents = 1
  NoOwner = NoOwner
  Names = {"n1"}
  Binds <- AnyBind
  AppThreads = {}
  Bodies <- EveryBody
INVARIANTS
  AnsweredAsBound
  MissedOnlyWhileBinding
  ServedIfBoundBefore
PROPERTIES
  PartsKept
CHECK_DEADLOCK FALSE
