SPECIFICATION Spec
CONSTANTS
  Threads = {t1, t2}
  Ctxs = {c1, c2}
  Events = {e1, e2}
  Ids = {i1}
  MaxEvents = 2
  NoOwner = NoOwner
SYMMETRY Symmetry
INVARIANTS
  NotifiedOnce
  SameOrderForAll
PROPERTIES
  SteadyWhileInside
