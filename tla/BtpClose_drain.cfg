\* A side that closes with a packet queued, nothing lost and no timeouts.
SPECIFICATION Spec
CONSTANTS
  Writers = {1}
  Closers = {1}
  MaxWrites = 1
  Cwnd = 2
  MaxRetransmits = 0
  IdleTimeouts = FALSE
INVARIANT ClosedMeansRead
CHECK_DEADLOCK FALSE
