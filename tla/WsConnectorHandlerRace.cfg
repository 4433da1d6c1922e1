SPECIFICATION Spec
CONSTANTS
  NumThreads = 2
  Handles = {h1}
  Bodies = {call}
  Answers = {ok}
  Notes = {note}
  MaxSessions = 1
  MaxRequests = 1
  MaxNotes = 0
INVARIANTS
  HandlerAlwaysPrepared
