SPECIFICATION FairSpec
CONSTANTS
  NBlocks = 1
  Latency <- SlowErase
  Refusable = {"global"}
  MaxNacks = 1
  Stale = {0}
  Rx = {r1, r2, r3, r4, r5}
  Tx = {t1, t2}
CHECK_DEADLOCK FALSE
PROPERTY TimeoutFails
