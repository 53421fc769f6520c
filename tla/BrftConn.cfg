\* Two downloads at a time, one of which may fail, and a client that may close.
SPECIFICATION Spec
CONSTANTS
  Streams = {s1, s2}
  NumData = 1
  OutCap = 1
  InCap = 1
  MaxFails = 1
  MayBreak = FALSE
  AppCloses = TRUE
INVARIANTS TypeOK DataBeforeClose
PROPERTIES ServerSurvives 
\* The system rests once both ends are closed, or wait for themselves.
CHECK_DEADLOCK FALSE
