\* Two clients expected, three started: one may die at any point, one has
\* another magic, the secret of one may come in pieces, and a stray connects.
SPECIFICATION CPSpec
CONSTANTS
  server = server
  c1 = c1
  c2 = c2
  c3 = c3
  s1 = s1
  Server = server
  Clients <- ThreeClients
  Strays <- OneStray
  NumClients = 2
  Magic <- OddMagic
  Mortal <- OnlyC1
  Split <- OnlyC2
INVARIANTS
  CPTypeOK
  DistinctClients
  JoinedIsAwaited
  DoneMeansAllNotified
  FatalOnlyByClientDeath
\* With clients dead, the server may wait for ever for the ones it expects.
CHECK_DEADLOCK FALSE
