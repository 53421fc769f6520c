\* One download that nothing disturbs.
SPECIFICATION FairSpec
CONSTANTS
  Streams = {s1}
  NumData = 2
  OutCap = 1
  InCap = 1
  MaxFails = 0
  MayBreak = FALSE
  AppCloses = FALSE
PROPERTY CloseCloses
\* The system rests once both ends are closed, or wait for themselves.
CHECK_DEADLOCK FALSE
