\* Two clients, one listener: what Accept and Dial return as open.
SPECIFICATION Spec
CONSTANTS
  Clients = {c1, c2}
  MaxConns = 2
  SeqMod = 3
  ClientSeq = 2
  ServerSeqs = {1}
  MaxRetransmits = 0
  Sizes = {1}
INVARIANT ReturnedOpen
CHECK_DEADLOCK FALSE
