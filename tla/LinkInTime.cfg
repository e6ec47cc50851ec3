SPECIFICATION FairSpec
CONSTANTS
  NBlocks = 3
  Latency <- InTime
  Refusable = {"erase", "global", "block"}
  MaxNacks = 3
  Stale = {0, 1}
  Rx = {r1, r2, r3, r4, r5}
  Tx = {t1, t2}
CHECK_DEADLOCK FALSE
INVARIANTS TypeOK Inv InStep AllProgrammed NeverPanics TasksBounded
PROPERTIES Finishes JobSpec
