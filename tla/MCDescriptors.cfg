\* Two workers, with two flows each in a client; a server accepts up to three connections.
SPECIFICATION FdSpec
CONSTANTS
  t1 = t1
  t2 = t2
  Threads <- TwoThreads
  FlowsPerThread = 2
  MaxConns = 3
  NumFds = 9
INVARIANTS
  FdTypeOK
  FlowsIntact
  NoLeak
