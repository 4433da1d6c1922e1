SPECIFICATION FairSpec
CONSTANTS
  Threads = {t1, t2}
  Ctxs = {c1, c2}
  Events = {e1}
  Ids = {i1, i2}
  MaxEvents = 1
  NoOwner = NoOwner
INVARIANTS
  TypeOK
  OneRegistrationPerEvent
  NoEmptyEntry
PROPERTIES
  LockReleased
  Linearizable
