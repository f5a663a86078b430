\* A connection that holds two buffers in each direction, every mode, TCP and UDP.
SPECIFICATION FairSpec
CONSTANTS
  SockBuf <- TwoBuffers
  ErrBuf <- OneMessage
INVARIANTS
  StreamTypeOK
  NoLostWakeup
PROPERTIES
  KeepsWriting
  StopsInTime
  FlowDeleted
  ErrorsRead
