SPECIFICATION Spec
CONSTANTS
  a = a
  b = b
  c = c
  v1 = v1
  v2 = v2
  v3 = v3
  NoVersion = NoVersion
  Bad = Bad
  Image = {a, b, c}
  Version = {v1, v2, v3}
  NChunks = 2
  Release <- OldNameReleases
  Concurrent = FALSE
  Faults = {"power"}
  MaxFaults = 2
INVARIANT DoneMeansFlashed
