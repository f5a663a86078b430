\* As MCStream.cfg, for what doc/script-api.rst says of the recverr hooks.
SPECIFICATION FairSpec
CONSTANTS
  SockBuf <- TwoBuffers
  ErrBuf <- OneMessage
PROPERTY
  ErrorHookCalled
