SPECIFICATION Spec
CONSTANTS
  NumThreads = 1
  Handles = {h1}
  MaxSessions = 1
  MaxRequests = 3
  Events = {e1}
  Ids = {i1}
  MaxEvents = 2
  NoOwner = NoOwner
  Names = {}
  Binds <- NoBinds
  AppThreads = {a1}
  Bodies <- RegisterBodies
INVARIANTS
  TypeOK
  NotifiedAsAsked
  WireIsPrefix
PROPERTIES
  NotifiedUntilForgotten
