\* Both sides may close and time out; one writes, the window lets one packet out.
SPECIFICATION FairSpec
CONSTANTS
  Writers = {1}
  Closers = {1, 2}
  MaxWrites = 1
  Cwnd = 1
  MaxRetransmits = 0
  IdleTimeouts = TRUE
INVARIANTS TypeOK CloseAnswered AckedWasHeard
PROPERTIES CloseEnds HeardEnds
\* The system rests once both sides have ended.
CHECK_DEADLOCK FALSE
