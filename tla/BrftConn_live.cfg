\* One download over a connection that may break at either end.
SPECIFICATION FairSpec
CONSTANTS
  Streams = {s1}
  NumData = 2
  OutCap = 1
  InCap = 1
  MaxFails = 1
  MayBreak = TRUE
  AppCloses = TRUE
PROPERTIES StreamsEnd ServerCloses
\* The system rests once both ends are closed, or wait for themselves.
CHECK_DEADLOCK FALSE
