SPECIFICATION Spec
CONSTANTS
  NumThreads = 1
  Handles = {h1, h2}
  Bodies = {call}
  Answers = {ok}
  Notes = {note}
  MaxSessions = 2
  MaxRequests = 2
  MaxNotes = 1
SYMMETRY Symmetry
INVARIANTS
  TypeOK
  FramesReachTheirPeer
  AnsweredAtMostOnce
  AnswersInOrder
  DisconnectIsLast
  OnlyMisuseTerminates
PROPERTIES
  ServesPeers
