SPECIFICATION Spec
CONSTANTS
  NumThreads = 2
  Handles = {h1}
  MaxSessions = 1
  MaxRequests = 1
  Events = {e1}
  Ids = {i1}
  MaxEvents = 1
  NoOwner = NoOwner
  Names = {}
  Binds <- NoBinds
  AppThreads = {a1}
  Bodies <- RegisterBodies
PROPERTIES
  NotifiedUntilForgotten
