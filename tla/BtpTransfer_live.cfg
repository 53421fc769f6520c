\* Fair goroutines, a losing and reordering network, a window of two.
SPECIFICATION FairSpec
CONSTANTS
  NumMsgs = 3
  MaxCwnd = 1
  ChanCap = 1
  BufCap = 4
  SeqMod = 8
  InitSeq = 7
  InitCwnd = 2
  MaxRetransmits = 1
  MaxWriteErrors = 0
  NetDup = FALSE
INVARIANTS AckedIsHeld PipeExact WindowKept
PROPERTIES EventuallyDelivered StreamSpec
\* The system rests once everything is delivered or the connection broke.
CHECK_DEADLOCK FALSE
