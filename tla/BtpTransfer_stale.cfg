\* One message more than the reorder buffer has slots, the default window.
SPECIFICATION Spec
CONSTANTS
  NumMsgs = 3
  MaxCwnd = 1
  ChanCap = 1
  BufCap = 2
  SeqMod = 8
  InitSeq = 6
  InitCwnd = 1
  MaxRetransmits = 1
  MaxWriteErrors = 0
  NetDup = FALSE
INVARIANT InOrder
\* The system rests once everything is delivered or the connection broke.
CHECK_DEADLOCK FALSE
