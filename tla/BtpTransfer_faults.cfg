\* A losing, reordering, duplicating network; both writes to the socket may fail.
SPECIFICATION Spec
CONSTANTS
  NumMsgs = 2
  MaxCwnd = 2
  ChanCap = 1
  BufCap = 3
  SeqMod = 6
  InitSeq = 5
  InitCwnd = 2
  MaxRetransmits = 1
  MaxWriteErrors = 2
  NetDup = TRUE
INVARIANTS TypeOK WindowOpen PipeCovers
\* The system rests once everything is delivered or the connection broke.
CHECK_DEADLOCK FALSE
