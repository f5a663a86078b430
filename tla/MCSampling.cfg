\* Two threads with two flows and one flow, over two intervals of four ticks.
SPECIFICATION Spec
CONSTANTS
  t1 = t1
  t2 = t2
  f1 = f1
  f2 = f2
  f3 = f3
  Threads <- TwoThreads
  Flows <- ThreeFlows
  Owner <- ThreeOwned
  Interval = 4
  MaxTime = 9
  MaxWork <- WorkOfThree
INVARIANTS
  SamplingTypeOK
  Aligned
  SampleRateBounded
  LatencyAccounted
PROPERTIES
  StartSetOnce
\* The bounds on the clock and on the transfers end a behaviour.
CHECK_DEADLOCK FALSE
