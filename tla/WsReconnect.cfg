SPECIFICATION Spec
CONSTANTS
  w1 = w1
  w2 = w2
  s1 = s1
  s2 = s2
  App = App
  Tasks = {w1, w2}
  Senders = {s1, s2}
  Frags = 2
  Calls = {"start", "stop", "close", "close forever", "destroy", "exit"}
  Frames = {"data", "pong", "close"}
  AutoReconnect = TRUE
  CloseReconnect = TRUE
  Prompt = TRUE
  MaxInbox = 1
  MaxStarts = 2
CHECK_DEADLOCK FALSE
SYMMETRY Symmetry
INVARIANTS TypeOK WholeMessages StoppedMeansClosed OneTask
PROPERTIES SessionSpec
