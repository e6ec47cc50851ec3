SPECIFICATION Spec
CONSTANTS
  w1 = w1
  w2 = w2
  s1 = s1
  s2 = s2
  App = App
  Tasks = {w1}
  Senders = {}
  Frags = 1
  Calls = {"start", "stop", "destroy"}
  Frames = {"data", "pong"}
  AutoReconnect = TRUE
  CloseReconnect = FALSE
  Prompt = FALSE
  MaxInbox = 1
  MaxStarts = 1
CHECK_DEADLOCK FALSE
INVARIANT DestroyWaits
