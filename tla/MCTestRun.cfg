\* Three clients with two threads each for two places, one of which may die at
\* any point, and a stray.
SPECIFICATION FairSpec
CONSTANTS
  server = server
  c1 = c1
  c2 = c2
  c3 = c3
  s1 = s1
  t1 = t1
  t2 = t2
  Server = server
  Clients <- ThreeClients
  Strays <- OneStray
  NumClients = 2
  Magic <- SameMagic
  Mortal <- OnlyC1
  Split <- NoOne
  Threads <- TwoThreads
INVARIANTS
  TypeOK
  ServiceUp
  TogetherPastBarrier
  ServerStopsLast
  ReportsAlone
PROPERTIES
  ControlPlaneSpec
  SessionSpec
  EveryoneExits
\* With clients dead before enough were accepted, the server waits for ever.
CHECK_DEADLOCK FALSE
