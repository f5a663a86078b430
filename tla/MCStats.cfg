\* Two workers with three flows; blocks of one number.
SPECIFICATION StatsSpec
CHECK_DEADLOCK FALSE
CONSTANTS
  NumThreads = 2
  Flows <- ThreeFlows
  MEMBLOCK_SIZE = 1
  Latencies = {1, 2}
  Percentiles = {0, 50, 99, 100}
  MaxTime = 1
  MaxWork = 3
INVARIANTS
  StatsTypeOK
  TotalsAddUp
  NeverWraps
  LatencyOnce
  PercentileRank
