\* One client whose requests may be accepted twice, every choice of options,
\* packet numbers that wrap.
SPECIFICATION Spec
CONSTANTS
  Clients = {c1}
  MaxConns = 2
  SeqMod = 3
  ClientSeq = 2
  ServerSeqs = {1, 2}
  MaxRetransmits = 1
  Sizes = {1, 2}
INVARIANTS TypeOK OpenPaired SeqAgree Negotiated 
PROPERTY AcceptReturns
\* The system rests once the client has dialled and the timers ran out.
CHECK_DEADLOCK FALSE
