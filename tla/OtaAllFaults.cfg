SPECIFICATION FairSpec
CONSTANTS
  a = a
  b = b
  c = c
  v1 = v1
  v2 = v2
  v3 = v3
  NoVersion = NoVersion
  Bad = Bad
  Image = {a, b, c}
  Version = {v1, v2, v3}
  NChunks = 2
  Release <- TwoReleases
  Concurrent = FALSE
  Faults = {"power", "transfer", "outage", "storage", "nvs"}
  MaxFaults = 2
INVARIANTS TypeOK UnfinishedIsRecorded BootModeRecorded InstalledImageKept PublishedAgree
PROPERTIES Converges FlashGetsFinished JobSpec
