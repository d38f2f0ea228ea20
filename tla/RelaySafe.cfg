SPECIFICATION Spec
CONSTANTS
  MaxData <- OneUp
  IdleTimeout = 1
  HalfClose = TRUE
  Limited = {"cToS"}
  TLSSides = {"client"}
  Endings = {"fin", "reset", "cut"}
  Stops = {"connection", "rule"}
  Refusers = {"client", "server"}
  None = None
INVARIANTS BytesConserved FinAfterData EndIsTold StopIsKept
