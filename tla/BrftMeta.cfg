\* Three calls at once over queues of one place; listings of one full response and
\* nothing, and of three full ones and a rest.
SPECIFICATION FairSpec
CONSTANTS
  Callers = {a, b, c}
  Requests = {2, 7}
  MaxItems = 2
  OutCap = 1
INVARIANTS TypeOK NoStray RoomForCalls
PROPERTIES CallReturns CallsSpec
\* The system rests once the connection is lost, or its callers block each other.
CHECK_DEADLOCK FALSE
