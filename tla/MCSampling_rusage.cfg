\* Two threads with one flow each, and the main thread.
SPECIFICATION Spec
CONSTANTS
  t1 = t1
  t2 = t2
  f1 = f1
  f2 = f2
  f3 = f3
  Threads <- TwoThreads
  Flows <- TwoFlows
  Owner <- OneEach
  Interval = 2
  MaxTime = 4
  MaxWork <- WorkOfTwo
PROPERTIES
  RusageFromFirstPacket
CHECK_DEADLOCK FALSE
