\* Messages that take several reads and writes; the server may be killed.
SPECIFICATION RrFairSpec
CONSTANTS
  RequestSize <- LongRequest
  ResponseSize <- LongResponse
  BufferSize <- SmallBuffer
  SockBuf <- SmallSocket
  MaxTrans = 2
  ServerMayDie = TRUE
INVARIANTS
  RrTypeOK
  Lockstep
  TakeTurns
  DeletedWithCause
PROPERTIES
  KeepsGoing
  ServerCleansUp
