SPECIFICATION FairSpec
CONSTANTS
  MaxData <- OneUp
  IdleTimeout = 1
  HalfClose = TRUE
  Limited = {"cToS"}
  TLSSides = {}
  Endings = {"fin"}
  Stops = {"connection"}
  Refusers = {}
  None = None
PROPERTIES HalfCloseEnds StopEnds IdleEnds
