\* Two workers with one flow each; the server may hang up.
SPECIFICATION FdSpec
CONSTANTS
  t1 = t1
  t2 = t2
  Threads <- TwoThreads
  FlowsPerThread = 1
  MaxConns = 1
  NumFds = 5
INVARIANTS
  HookBeforeClose
