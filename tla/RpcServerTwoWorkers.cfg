SPECIFICATION Spec
CONSTANTS
  NumThreads = 2
  Handles = {h1, h2}
  MaxSessions = 2
  MaxRequests = 1
  Events = {e1}
  Ids = {i1}
  MaxEvents = 0
  NoOwner = NoOwner
  Names = {}
  Binds <- NoBinds
  AppThreads = {a1}
  Bodies <- OnlyRegister
SYMMETRY Symmetry
INVARIANTS
  RegistrationsAttributed
