SPECIFICATION FairSpec
CONSTANTS
  w1 = w1
  w2 = w2
  s1 = s1
  s2 = s2
  App = App
  Tasks = {w1}
  Senders = {s1}
  Frags = 1
  Calls = {"start", "stop", "close", "destroy"}
  Frames = {"pong", "close"}
  AutoReconnect = TRUE
  CloseReconnect = FALSE
  Prompt = FALSE
  MaxInbox = 1
  MaxStarts = 2
CHECK_DEADLOCK FALSE
INVARIANTS WaiterIsServed OnlyAskedIsAwaited
PROPERTIES ServedReturns SilenceEnds
