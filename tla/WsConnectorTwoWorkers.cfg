SPECIFICATION LeavingSpec
CONSTANTS
  NumThreads = 2
  Handles = {h1}
  Bodies = {call}
  Answers = {ok}
  Notes = {note}
  MaxSessions = 2
  MaxRequests = 1
  MaxNotes = 1
INVARIANTS
  NothingRunsAfterStop
PROPERTIES
  ServesPeers
  StopListeningReturns
  LoopEndsWhenConnectionsClosed
