SPECIFICATION FairSpec
CONSTANTS
  NumThreads = 1
  Handles = {h1}
  Bodies = {call}
  Answers = {ok}
  Notes = {note}
  MaxSessions = 1
  MaxRequests = 0
  MaxNotes = 0
PROPERTIES
  LoopExitsAfterStop
