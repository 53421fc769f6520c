------------------------- MODULE BtpHandshakeProofs -------------------------
(***************************************************************************)
(* What holds of BtpHandshake for any number of clients, connections and   *)
(* retransmissions, and packet numbers of any width.                       *)
(*                                                                         *)
(* IInv says of every datagram in the network which client and connection  *)
(* it belongs to and what it tells about them: a ConnAck carries the first *)
(* number of its connection, an Ack for a port comes from a client that    *)
(* moved to it, Data for a port is that client's first, and an Ack sent to *)
(* it means that its first Data was read.                                  *)
(***************************************************************************)
EXTENDS BtpHandshake, ModuloLemmas, FiniteSetTheorems, TLAPS

ClientRecs == [dial : {"idle", "waiting", "open", "rejected", "unmigrated", "unopened"},
               run : {"off", "running", "broken", "done"}, rx : BOOLEAN,
               first : SeqNrs, next : SeqNrs, await : SUBSET SeqNrs,
               tries : 0 .. MaxRetransmits + 1, opts : Options, port : {0} \cup Ports,
               ack : SeqNrs \cup {NoNr}, read : SeqNrs \cup {NoNr},
               data : SeqNrs \cup {NoNr}, got : BOOLEAN]

ConnRecs == [st : {"handshake", "open", "refused", "unopened", "closed"}, peer : Clients,
             run : {"running", "broken"}, rx : BOOLEAN,
             first : SeqNrs, next : SeqNrs, await : SUBSET SeqNrs,
             tries : 0 .. MaxRetransmits + 1, read : SeqNrs, data : SeqNrs \cup {NoNr},
             got : BOOLEAN, again : BOOLEAN]

Types == /\ client \in [Clients -> ClientRecs] /\ sopts \in Options
         /\ \A k \in DOMAIN conn : conn[k] \in ConnRecs
         /\ \E n \in 0 .. MaxConns : DOMAIN conn = 1 .. n
         /\ returned \subseteq DOMAIN conn /\ acc \in {0} \cup DOMAIN conn

AtMost(o, own) == o.init <= own.init /\ o.size <= own.size

\* The connection has been open.
WasOpen(k) == conn[k].st \in {"open", "closed"}

\* A client that has opened: what it knows of its connection.
Migration(c) == LET r == client[c] IN
    /\ r.port \in DOMAIN conn /\ conn[r.port].peer = c
    /\ AtMost(r.opts, sopts)
    /\ r.data = NoNr => r.await = {}
    /\ r.data # NoNr => r.data = NextNr(ClientSeq)
    /\ r.data # NoNr /\ r.await = {} => conn[r.port].got
    /\ ~ r.got => r.read = conn[r.port].first
    /\ r.got => conn[r.port].data # NoNr
    /\ r.ack # NoNr => r.ack = conn[r.port].first /\ ~ WasOpen(r.port)

ClientOK(c) == LET r == client[c] IN
    /\ r.first = ClientSeq
    /\ r.dial = "idle" => r.next = ClientSeq /\ r.run = "off" /\ r.tries = 0
    /\ r.dial # "idle" /\ r.data = NoNr => r.next = NextNr(ClientSeq)
    /\ r.dial # "rejected"
    /\ r.dial # "open" => r.port = 0 /\ r.ack = NoNr /\ r.data = NoNr /\ ~ r.got
    /\ r.run = "running" => r.tries <= MaxRetransmits
    /\ r.dial = "open" => Migration(c)

\* What a server connection knows of its client.
ConnOK(k) == LET r == conn[k]
                 p == client[r.peer] IN
    /\ r.data = NoNr => r.next = r.first /\ r.await = {}
    /\ r.data # NoNr => r.data = r.first /\ WasOpen(k)
    /\ WasOpen(k) => p.dial = "open" /\ p.port = k /\ p.ack = NoNr
    /\ r.read # NextNr(ClientSeq) => p.port = k /\ p.data # NoNr
    /\ ~ r.got => r.read = NextNr(ClientSeq)
    /\ r.data # NoNr /\ r.await = {} => p.got \/ r.again
    /\ r.run = "running" => r.tries <= MaxRetransmits

Known(m) == m.port \in DOMAIN conn /\ m.client = conn[m.port].peer
Moved(m) == Known(m) /\ client[m.client].dial = "open" /\ client[m.client].port = m.port

Request(m) ==
    /\ m.type = "conn" /\ m.client \in Clients /\ m.seq = ClientSeq /\ m.opts \in Options
    /\ client[m.client].dial \in {"idle", "waiting"} => m.opts = client[m.client].opts

Answer(m) ==
    /\ m.type = "connAck" /\ Known(m)
    /\ m.seq = conn[m.port].first /\ m.opts \in Options /\ AtMost(m.opts, sopts)
    /\ client[m.client].dial \in {"idle", "waiting"} => m.opts.init <= client[m.client].opts.init

AckUp(m) == /\ m = Up("ack", m.client, m.port, m.seq) /\ Moved(m)
            /\ m.seq = conn[m.port].first /\ client[m.client].ack = NoNr

DataUp(m) == /\ m = Up("data", m.client, m.port, m.seq) /\ Moved(m)
             /\ m.seq = client[m.client].data /\ m.seq \in SeqNrs

AckDown(m) == m = Down("ack", m.client, m.port, m.seq) /\ Known(m) /\ conn[m.port].got

DataDown(m) == /\ m = Down("data", m.client, m.port, m.seq) /\ Known(m)
               /\ m.seq = conn[m.port].first /\ conn[m.port].data # NoNr

MsgOK(m) == Request(m) \/ Answer(m) \/ AckUp(m) \/ DataUp(m) \/ AckDown(m) \/ DataDown(m)

IInv == /\ Types
        /\ \A c \in Clients : ClientOK(c)
        /\ \A k \in DOMAIN conn : ConnOK(k)
        /\ \A m \in net : MsgOK(m)

-----------------------------------------------------------------------------
(* Helpers. *)

LEMMA NumberTypes ==
    /\ SeqMod \in Nat \ {0} /\ ClientSeq \in SeqNrs /\ ServerSeqs \subseteq SeqNrs
    /\ NoNr \notin SeqNrs /\ \A s \in SeqNrs : NextNr(s) \in SeqNrs
    /\ MaxRetransmits \in Nat /\ MaxConns \in Nat /\ 0 \notin Ports
<1>1. SeqMod \in Nat \ {0} /\ ServerSeqs \cup {ClientSeq} \subseteq SeqNrs
  BY SeqAssumption DEF SeqNrs
<1>2. ASSUME NEW s \in SeqNrs
      PROVE  NextNr(s) \in SeqNrs
  <2>1. s + 1 \in Nat
    BY <1>1 DEF SeqNrs
  <2> QED
    BY <1>1, <2>1, DivMod DEF NextNr, SeqNrs
<1> QED
  BY <1>1, <1>2, BoundsAssumption DEF SeqNrs, NoNr, Ports

\* The ports in use are the first ones.
LEMMA PortsInUse ==
    ASSUME Types
    PROVE  /\ DOMAIN conn \subseteq Ports /\ Cardinality(DOMAIN conn) \in 0 .. MaxConns
           /\ DOMAIN conn = 1 .. Cardinality(DOMAIN conn)
<1>1. PICK n \in 0 .. MaxConns : DOMAIN conn = 1 .. n
  BY DEF Types
<1>2. n \in Nat /\ MaxConns \in Nat
  BY NumberTypes
<1>3. Cardinality(1 .. n) = n
  BY <1>2, FS_Interval
<1> QED
  BY <1>1, <1>2, <1>3 DEF Ports

\* The merged options exceed neither side's.
LEMMA MergedOptions ==
    ASSUME NEW req \in Options, NEW own \in Options
    PROVE  /\ Merge(req, own) \in Options /\ AtMost(Merge(req, own), own)
           /\ Merge(req, own).init <= req.init
<1>1. ASSUME NEW a \in Sizes, NEW b \in Sizes
      PROVE  Lower(a, b) \in Sizes /\ Lower(a, b) <= a /\ Lower(a, b) <= b
  BY SizesAssumption DEF Lower
<1> QED
  BY <1>1 DEF Options, Merge, AtMost

-----------------------------------------------------------------------------
(* What no step takes back, and what therefore stays true of the rest.     *)

ClientsGo ==
    /\ client' \in [Clients -> ClientRecs]
    /\ \A c \in Clients :
       /\ client'[c].dial \in {"idle", "waiting"} =>
             client[c].dial \in {"idle", "waiting"} /\ client'[c].opts = client[c].opts
       /\ client[c].dial = "open" =>
             /\ client'[c].dial = "open" /\ client'[c].port = client[c].port
             /\ client[c].ack = NoNr => client'[c].ack = NoNr
             /\ client[c].data # NoNr => client'[c].data = client[c].data
             /\ client[c].got => client'[c].got

\* Only the final Ack of the handshake opens a connection.
ConnsGo ==
    /\ DOMAIN conn \subseteq DOMAIN conn'
    /\ \A k \in DOMAIN conn :
          /\ conn'[k].peer = conn[k].peer /\ conn'[k].first = conn[k].first
          /\ conn[k].data # NoNr => conn'[k].data # NoNr
          /\ conn[k].got => conn'[k].got

Opens(k) == conn'[k].st \in {"open", "closed"} /\ ~ WasOpen(k)

LEMMA OldMsg ==
    ASSUME IInv, ClientsGo, ConnsGo, sopts' = sopts, NEW m, MsgOK(m)
    PROVE  MsgOK(m)'
<1> USE DEF ClientsGo, ConnsGo
<1>1. MsgOK(m) /\ \A k \in DOMAIN conn : conn[k] \in ConnRecs
  BY DEF IInv, Types
<1>2. CASE Request(m)
  <2>1. Request(m)'
    BY <1>2 DEF Request
  <2> QED
    BY <2>1 DEF MsgOK
<1>3. Known(m) => Known(m)' /\ m.client \in Clients
  BY <1>1 DEF Known, ConnRecs
<1>4. CASE Answer(m)
  <2>1. Answer(m)'
    BY <1>3, <1>4 DEF Answer, Known, AtMost
  <2> QED
    BY <2>1 DEF MsgOK
<1>5. Moved(m) => Moved(m)'
  BY <1>3 DEF Moved
<1>6. CASE AckUp(m)
  <2>1. AckUp(m)'
    BY <1>3, <1>5, <1>6 DEF AckUp, Moved, Known
  <2> QED
    BY <2>1 DEF MsgOK
<1>7. CASE DataUp(m)
  <2>1. client[m.client].data # NoNr
    BY <1>7, NumberTypes DEF DataUp
  <2>2. DataUp(m)'
    BY <1>3, <1>5, <1>7, <2>1 DEF DataUp, Moved
  <2> QED
    BY <2>2 DEF MsgOK
<1>8. CASE AckDown(m)
  <2>1. AckDown(m)'
    BY <1>3, <1>8 DEF AckDown, Known
  <2> QED
    BY <2>1 DEF MsgOK
<1>9. CASE DataDown(m)
  <2>1. DataDown(m)'
    BY <1>3, <1>9 DEF DataDown, Known
  <2> QED
    BY <2>1 DEF MsgOK
<1> QED
  BY <1>1, <1>2, <1>4, <1>6, <1>7, <1>8, <1>9 DEF MsgOK

LEMMA OldClient ==
    ASSUME IInv, ConnsGo, sopts' = sopts, NEW c \in Clients, client'[c] = client[c],
           client[c].ack # NoNr => ~ Opens(client[c].port)
    PROVE  ClientOK(c)'
<1>1. ClientOK(c)
  BY DEF IInv
<1>2. Migration(c) => Migration(c)'
  BY DEF Migration, ConnsGo, AtMost, Opens, WasOpen
<1> QED
  BY <1>1, <1>2 DEF ClientOK

LEMMA OldConn ==
    ASSUME IInv, ClientsGo, NEW k \in DOMAIN conn, conn'[k] = conn[k]
    PROVE  ConnOK(k)'
<1>1. ConnOK(k) /\ conn[k] \in ConnRecs
  BY DEF IInv, Types
<1>2. conn[k].peer \in Clients
  BY <1>1 DEF ConnRecs
<1>3. ClientOK(conn[k].peer)
  BY <1>2 DEF IInv
<1>4. /\ client[conn[k].peer].dial # "open" => client[conn[k].peer].port = 0
      /\ k # 0
  BY <1>3, PortsInUse, NumberTypes DEF ClientOK, IInv
<1> QED
  BY <1>1, <1>2, <1>3, <1>4 DEF ConnOK, ClientOK, ClientsGo, WasOpen

\* A step of client c: what it may do to its record, and the datagrams it sends.
LEMMA ClientStep ==
    ASSUME IInv, NEW c \in Clients,
           client' \in [Clients -> ClientRecs],
           \A d \in Clients \ {c} : client'[d] = client[d],
           UNCHANGED <<conn, acc, returned, sopts>>,
           client'[c].dial \in {"idle", "waiting"} =>
               client[c].dial \in {"idle", "waiting"} /\ client'[c].opts = client[c].opts,
           client[c].dial = "open" =>
               /\ client'[c].dial = "open" /\ client'[c].port = client[c].port
               /\ client[c].ack = NoNr => client'[c].ack = NoNr
               /\ client[c].data # NoNr => client'[c].data = client[c].data
               /\ client[c].got => client'[c].got,
           ClientOK(c)', \A m \in net' \ net : MsgOK(m)'
    PROVE  IInv'
<1>1. \A d \in Clients \ {c} : client'[d] = client[d]
  OBVIOUS
<1>2. ClientsGo /\ ConnsGo
  BY <1>1 DEF ClientsGo, ConnsGo
<1>3. Types'
  BY <1>1 DEF IInv, Types, ClientRecs, ConnRecs
<1>4. \A d \in Clients : ClientOK(d)'
  <2>1. \A k : ~ Opens(k)
    BY DEF Opens, WasOpen
  <2> QED
    BY <1>1, <1>2, <2>1, OldClient
<1>5. \A k \in DOMAIN conn' : ConnOK(k)'
  BY <1>2, OldConn
<1>6. \A m \in net' : MsgOK(m)'
  <2>1. ASSUME NEW m \in net
        PROVE  MsgOK(m)'
    <3>1. MsgOK(m)
      BY DEF IInv
    <3> QED
      BY <1>2, <3>1, OldMsg
  <2> QED
    BY <2>1
<1> QED
  BY <1>3, <1>4, <1>5, <1>6 DEF IInv

\* A step of connection k, likewise.
LEMMA ConnStep ==
    ASSUME IInv, NEW k \in DOMAIN conn,
           DOMAIN conn' = DOMAIN conn, conn'[k] \in ConnRecs,
           \A j \in DOMAIN conn \ {k} : conn'[j] = conn[j],
           UNCHANGED <<client, sopts>>,
           returned' \subseteq DOMAIN conn, acc' \in {0} \cup DOMAIN conn,
           conn'[k].peer = conn[k].peer, conn'[k].first = conn[k].first,
           conn[k].data # NoNr => conn'[k].data # NoNr, conn[k].got => conn'[k].got,
           conn'[k].st \in {"open", "closed"} =>
               WasOpen(k) \/ client[conn[k].peer].ack = NoNr,
           ConnOK(k)', \A m \in net' \ net : MsgOK(m)'
    PROVE  IInv'
<1>1. \A j \in DOMAIN conn \ {k} : conn'[j] = conn[j]
  OBVIOUS
<1>2. ClientsGo /\ ConnsGo
  BY <1>1 DEF ClientsGo, ConnsGo, IInv, Types
<1>3. Types'
  BY <1>1 DEF IInv, Types, ClientRecs, ConnRecs
<1>4. ASSUME NEW c \in Clients
      PROVE  ClientOK(c)'
  <2>1. client[c].ack # NoNr => ~ Opens(client[c].port)
    <3>1. SUFFICES ASSUME client[c].ack # NoNr, Opens(client[c].port)
                   PROVE  FALSE
      OBVIOUS
    <3>2. client[c].port \in DOMAIN conn /\ conn[client[c].port].peer = c
      BY <3>1 DEF IInv, ClientOK, Migration
    <3> QED
      BY <1>1, <3>1, <3>2 DEF Opens, WasOpen
  <2> QED
    BY <1>2, <2>1, OldClient
<1>5. \A j \in DOMAIN conn' : ConnOK(j)'
  BY <1>1, <1>2, OldConn
<1>6. ASSUME NEW m \in net' \cap net
      PROVE  MsgOK(m)'
  <2>1. MsgOK(m)
    BY DEF IInv
  <2> QED
    BY <1>2, <2>1, OldMsg
<1> QED
  BY <1>3, <1>4, <1>5, <1>6 DEF IInv

\* What IInv says of one client's record.
LEMMA ClientFacts ==
    ASSUME IInv, NEW c \in Clients
    PROVE  /\ client \in [Clients -> ClientRecs] /\ client[c] \in ClientRecs /\ ClientOK(c)
           /\ client[c].next \in SeqNrs /\ NextNr(client[c].next) \in SeqNrs
           /\ client[c].dial = "open" => Migration(c) /\ client[c].port \in Ports
  BY PortsInUse, NumberTypes DEF IInv, Types, ClientRecs, ClientOK, Migration

LEMMA ConnFacts ==
    ASSUME IInv, NEW k \in DOMAIN conn
    PROVE  /\ conn[k] \in ConnRecs /\ ConnOK(k) /\ conn[k].peer \in Clients
           /\ conn[k].next \in SeqNrs /\ NextNr(conn[k].next) \in SeqNrs
           /\ NextNr(conn[k].read) \in SeqNrs /\ k \in Ports
  BY PortsInUse, NumberTypes DEF IInv, Types, ConnRecs

LEMMA InitInv == Init => IInv
<1> SUFFICES ASSUME Init
             PROVE  IInv
  OBVIOUS
<1>1. DOMAIN conn = {} /\ 0 \in 0 .. MaxConns /\ 1 .. 0 = {}
  BY NumberTypes DEF Init
<1>2. ASSUME NEW c \in Clients
      PROVE  client[c] \in ClientRecs /\ ClientOK(c)
  <2>1. PICK o \in Options : client[c] = NewClient(ClientSeq, o)
    BY DEF Init
  <2>2. client[c] \in ClientRecs
    BY <2>1, NumberTypes DEF NewClient, ClientRecs
  <2> QED
    BY <2>1, <2>2, NumberTypes DEF NewClient, ClientOK
<1>3. client \in [Clients -> ClientRecs]
  BY <1>2 DEF Init
<1>4. Types
  BY <1>1, <1>3 DEF Init, Types
<1> QED
  BY <1>1, <1>2, <1>4 DEF Init, IInv

-----------------------------------------------------------------------------
(* The client's steps. *)

LEMMA DialInv ==
    ASSUME IInv, NEW c \in Clients, Dial(c)
    PROVE  IInv'
<1>1. client[c] \in ClientRecs /\ ClientOK(c) /\ client \in [Clients -> ClientRecs]
      /\ client[c].first = ClientSeq /\ client[c].next = ClientSeq
  BY ClientFacts DEF Dial, ClientOK
<1>2. client' = [client EXCEPT ![c] =
         [client[c] EXCEPT !.dial = "waiting", !.run = "running",
                           !.next = NextNr(ClientSeq), !.await = {ClientSeq}]]
  BY <1>1 DEF Dial
<1>3. /\ client[c].dial = "idle" /\ net' = net \cup {ConnMsg(c)}
      /\ UNCHANGED <<conn, acc, returned, sopts>>
  BY DEF Dial
<1>4. client'[c] \in ClientRecs
  <2>1. {ClientSeq} \in SUBSET SeqNrs /\ NextNr(ClientSeq) \in SeqNrs
    BY NumberTypes
  <2>2. [client[c] EXCEPT !.dial = "waiting", !.run = "running",
                          !.next = NextNr(ClientSeq), !.await = {ClientSeq}] \in ClientRecs
    BY <1>1, <2>1, Zenon DEF ClientRecs
  <2>3. client'[c] = [client[c] EXCEPT !.dial = "waiting", !.run = "running",
                             !.next = NextNr(ClientSeq), !.await = {ClientSeq}]
    BY <1>1, <1>2
  <2> QED
    BY <2>2, <2>3, Zenon
<1>5. LET r == client'[c] IN
      /\ r.dial = "waiting" /\ r.run = "running" /\ r.next = NextNr(ClientSeq)
      /\ r.first = client[c].first /\ r.opts = client[c].opts /\ r.port = client[c].port
      /\ r.ack = client[c].ack /\ r.data = client[c].data /\ r.got = client[c].got
      /\ r.tries = client[c].tries
  BY <1>1, <1>2 DEF ClientRecs
<1>6. ClientOK(c)'
  BY <1>1, <1>3, <1>5, NumberTypes DEF ClientOK
<1>7. PICK m : m = ConnMsg(c)
  OBVIOUS
<1>8. MsgOK(m)'
  <2>1. Request(m)'
    BY <1>1, <1>5, <1>7 DEF Request, ConnMsg, ClientRecs
  <2> QED
    BY <2>1 DEF MsgOK
<1>9. client' \in [Clients -> ClientRecs] /\ \A d \in Clients \ {c} : client'[d] = client[d]
  BY <1>1, <1>2, <1>4
<1> QED
  BY <1>3, <1>5, <1>6, <1>7, <1>8, <1>9, ClientStep

\* What a client that awaits an ack has in flight.
LEMMA InFlightOK ==
    ASSUME IInv, NEW c \in Clients, client[c].await # {}, client[c].run = "running"
    PROVE  MsgOK(InFlight(c))
<1>1. client[c] \in ClientRecs /\ ClientOK(c)
  BY ClientFacts
<1>2. CASE client[c].data = NoNr
  <2>1. PICK m : m = ConnMsg(c)
    OBVIOUS
  <2>2. Request(m)
    BY <1>1, <2>1 DEF Request, ConnMsg, ClientRecs, ClientOK
  <2> QED
    BY <1>2, <2>1, <2>2 DEF MsgOK, InFlight
<1>3. CASE client[c].data # NoNr
  <2>1. client[c].dial = "open" /\ Migration(c) /\ client[c].data \in SeqNrs
    BY <1>1, <1>3 DEF ClientOK, ClientRecs
  <2>2. PICK m : m = Up("data", c, client[c].port, client[c].data)
    OBVIOUS
  <2>3. DataUp(m)
    BY <1>3, <2>1, <2>2 DEF DataUp, Moved, Known, Migration, Up
  <2> QED
    BY <1>3, <2>2, <2>3 DEF MsgOK, InFlight
<1> QED
  BY <1>2, <1>3

\* A client's step that neither opens it nor changes what others know of it.
LEMMA QuietStep ==
    ASSUME IInv, NEW c \in Clients,
           client' \in [Clients -> ClientRecs],
           \A d \in Clients \ {c} : client'[d] = client[d],
           UNCHANGED <<conn, acc, returned, sopts>>,
           \A f \in {"dial", "first", "opts", "port", "data", "next", "read", "got"} :
               client'[c][f] = client[c][f],
           client'[c].ack \in {client[c].ack, NoNr},
           client'[c].await \subseteq client[c].await,
           client[c].data # NoNr /\ client'[c].await = {} =>
               client[c].await = {} \/ conn[client[c].port].got,
           client'[c].run = "running" => client[c].run = "running"
                                         /\ client'[c].tries <= MaxRetransmits,
           client[c].dial # "idle",
           \A m \in net' \ net : MsgOK(m)'
    PROVE  IInv'
<1>1. /\ client'[c].dial = client[c].dial /\ client'[c].first = client[c].first
      /\ client'[c].opts = client[c].opts /\ client'[c].port = client[c].port
      /\ client'[c].data = client[c].data /\ client'[c].next = client[c].next
      /\ client'[c].read = client[c].read /\ client'[c].got = client[c].got
  OBVIOUS
<1>2. ClientOK(c)
  BY ClientFacts
<1>3. Migration(c) => Migration(c)'
  BY <1>1 DEF Migration, AtMost, WasOpen
<1>4. ClientOK(c)'
  BY <1>1, <1>2, <1>3 DEF ClientOK
<1> QED
  BY <1>1, <1>4, ClientStep

LEMMA RetransmitInv ==
    ASSUME IInv, NEW c \in Clients, ClientRetransmit(c)
    PROVE  IInv'
<1>1. client[c] \in ClientRecs /\ client \in [Clients -> ClientRecs]
      /\ client[c].run = "running" /\ client[c].await # {} /\ ClientOK(c)
  BY ClientFacts DEF ClientRetransmit
<1>2. client[c].tries \in Nat /\ client[c].tries <= MaxRetransmits /\ client[c].dial # "idle"
  BY <1>1, NumberTypes DEF ClientOK, ClientRecs
<1>3. client' = [client EXCEPT ![c] =
         [client[c] EXCEPT !.tries = client[c].tries + 1,
                           !.run = IF client[c].tries + 1 > MaxRetransmits
                                     THEN "broken" ELSE client[c].run]]
  BY <1>1 DEF ClientRetransmit
<1>4. UNCHANGED <<conn, acc, returned, sopts>> /\ net' = net \cup {InFlight(c)}
  BY DEF ClientRetransmit
<1>5. client[c].tries + 1 \in 0 .. MaxRetransmits + 1
  BY <1>2, NumberTypes
<1>6. client'[c] \in ClientRecs
  BY <1>1, <1>3, <1>5 DEF ClientRecs
<1>7. client' \in [Clients -> ClientRecs] /\ \A d \in Clients \ {c} : client'[d] = client[d]
  BY <1>1, <1>3, <1>6
<1>8. /\ client'[c].dial = client[c].dial /\ client'[c].first = client[c].first
      /\ client'[c].opts = client[c].opts /\ client'[c].port = client[c].port
      /\ client'[c].data = client[c].data /\ client'[c].next = client[c].next
      /\ client'[c].read = client[c].read /\ client'[c].got = client[c].got
      /\ client'[c].ack = client[c].ack /\ client'[c].await = client[c].await
      /\ client'[c].tries = client[c].tries + 1
      /\ client'[c].run = "running" => client[c].tries + 1 <= MaxRetransmits
  BY <1>1, <1>2, <1>3, NumberTypes DEF ClientRecs
<1>9. PICK m : m = InFlight(c)
  OBVIOUS
<1>10. MsgOK(m)'
  <2>1. MsgOK(m)
    BY <1>1, <1>9, InFlightOK
  <2>2. ClientsGo /\ ConnsGo
    BY <1>4, <1>7, <1>8 DEF ClientsGo, ConnsGo
  <2> QED
    BY <1>4, <1>7, <1>8, <2>1, <2>2, OldMsg
<1> QED
  BY <1>1, <1>2, <1>4, <1>7, <1>8, <1>9, <1>10, QuietStep

LEMMA SendFinalAckInv ==
    ASSUME IInv, NEW c \in Clients, SendFinalAck(c)
    PROVE  IInv'
<1>1. client[c] \in ClientRecs /\ client \in [Clients -> ClientRecs]
      /\ client[c].run = "running" /\ client[c].ack # NoNr /\ ClientOK(c)
  BY ClientFacts DEF SendFinalAck
<1>2. /\ client[c].dial = "open" /\ Migration(c) /\ client[c].tries <= MaxRetransmits
      /\ client[c].ack = conn[client[c].port].first /\ ~ WasOpen(client[c].port)
  BY <1>1 DEF ClientOK, Migration
<1>3. client' = [client EXCEPT ![c] = [client[c] EXCEPT !.ack = NoNr]]
  BY <1>1 DEF SendFinalAck
<1>4. /\ UNCHANGED <<conn, acc, returned, sopts>>
      /\ net' = net \cup {Up("ack", c, client[c].port, client[c].ack)}
  BY DEF SendFinalAck
<1>5. client'[c] \in ClientRecs
  BY <1>1, <1>3 DEF ClientRecs
<1>6. client' \in [Clients -> ClientRecs] /\ \A d \in Clients \ {c} : client'[d] = client[d]
  BY <1>1, <1>3, <1>5
<1>7. /\ client'[c].dial = client[c].dial /\ client'[c].first = client[c].first
      /\ client'[c].opts = client[c].opts /\ client'[c].port = client[c].port
      /\ client'[c].data = client[c].data /\ client'[c].next = client[c].next
      /\ client'[c].read = client[c].read /\ client'[c].got = client[c].got
      /\ client'[c].ack = NoNr /\ client'[c].await = client[c].await
      /\ client'[c].tries = client[c].tries /\ client'[c].run = client[c].run
  BY <1>1, <1>3 DEF ClientRecs
<1>8. PICK m : m = Up("ack", c, client[c].port, client[c].ack)
  OBVIOUS
<1>9. MsgOK(m)'
  <2>1. /\ m = Up("ack", m.client, m.port, m.seq) /\ m.client = c
        /\ m.port = client[c].port /\ m.seq = client[c].ack
    BY <1>8 DEF Up
  <2>2. m.port \in DOMAIN conn /\ conn[m.port].peer = c /\ m.seq = conn[m.port].first
    BY <1>2, <2>1 DEF Migration
  <2>3. AckUp(m)'
    BY <1>2, <1>4, <1>7, <2>1, <2>2 DEF AckUp, Moved, Known, Up
  <2> QED
    BY <2>3 DEF MsgOK
<1> QED
  BY <1>1, <1>2, <1>4, <1>6, <1>7, <1>8, <1>9, QuietStep

LEMMA ClientDataInv ==
    ASSUME IInv, NEW c \in Clients, ClientData(c)
    PROVE  IInv'
<1>1. client[c] \in ClientRecs /\ client \in [Clients -> ClientRecs]
      /\ client[c].run = "running" /\ client[c].dial = "open" /\ client[c].data = NoNr
      /\ ClientOK(c) /\ Migration(c) /\ client[c].next \in SeqNrs
      /\ NextNr(client[c].next) \in SeqNrs /\ client[c].next = NextNr(ClientSeq)
  BY ClientFacts DEF ClientData, ClientOK
<1>2. client' = [client EXCEPT ![c] =
         [client[c] EXCEPT !.data = client[c].next, !.next = NextNr(client[c].next),
                           !.await = {client[c].next}]]
  BY <1>1 DEF ClientData
<1>3. /\ UNCHANGED <<conn, acc, returned, sopts>>
      /\ net' = net \cup {Up("data", c, client[c].port, client[c].next)}
  BY DEF ClientData
<1>4. client'[c] \in ClientRecs
  <2>1. {client[c].next} \in SUBSET SeqNrs
    BY <1>1
  <2>2. [client[c] EXCEPT !.data = client[c].next, !.next = NextNr(client[c].next),
                          !.await = {client[c].next}] \in ClientRecs
    BY <1>1, <2>1, Zenon DEF ClientRecs
  <2>3. client'[c] = [client[c] EXCEPT !.data = client[c].next,
                         !.next = NextNr(client[c].next), !.await = {client[c].next}]
    BY <1>1, <1>2
  <2> QED
    BY <2>2, <2>3, Zenon
<1>5. client' \in [Clients -> ClientRecs] /\ \A d \in Clients \ {c} : client'[d] = client[d]
  BY <1>1, <1>2, <1>4
<1>6. /\ client'[c].dial = client[c].dial /\ client'[c].first = client[c].first
      /\ client'[c].opts = client[c].opts /\ client'[c].port = client[c].port
      /\ client'[c].data = client[c].next /\ client'[c].run = client[c].run
      /\ client'[c].read = client[c].read /\ client'[c].got = client[c].got
      /\ client'[c].ack = client[c].ack /\ client'[c].tries = client[c].tries
      /\ client'[c].await # {}
  BY <1>1, <1>2 DEF ClientRecs
<1>7. client'[c].data # NoNr
  BY <1>1, <1>6, NumberTypes
<1>8. ClientOK(c)'
  <2>1. Migration(c)'
    BY <1>1, <1>3, <1>6, <1>7 DEF Migration, AtMost, WasOpen
  <2> QED
    BY <1>1, <1>6, <1>7, <2>1 DEF ClientOK
<1>9. PICK m : m = Up("data", c, client[c].port, client[c].next)
  OBVIOUS
<1>10. MsgOK(m)'
  <2>1. /\ m = Up("data", m.client, m.port, m.seq) /\ m.client = c
        /\ m.port = client[c].port /\ m.seq = client[c].next
    BY <1>9 DEF Up
  <2>2. DataUp(m)'
    BY <1>1, <1>3, <1>6, <1>7, <2>1 DEF DataUp, Moved, Known, Up, Migration
  <2> QED
    BY <2>2 DEF MsgOK
<1> QED
  BY <1>1, <1>3, <1>5, <1>6, <1>7, <1>8, <1>9, <1>10, ClientStep

\* What the kinds of datagrams tell.
LEMMA MsgKinds ==
    ASSUME IInv, NEW m \in net
    PROVE  /\ m.type = "conn" => Request(m)
           /\ m.type = "connAck" => Answer(m)
           /\ m.type = "ack" /\ m.dir = "up" => AckUp(m)
           /\ m.type = "data" /\ m.dir = "up" => DataUp(m)
           /\ m.type = "ack" /\ m.dir = "down" => AckDown(m)
           /\ m.type = "data" /\ m.dir = "down" => DataDown(m)
<1>1. MsgOK(m)
  BY DEF IInv
<1>2. Request(m) => m.type = "conn"
  BY DEF Request
<1>3. Answer(m) => m.type = "connAck"
  BY DEF Answer
<1>4. AckUp(m) => m.type = "ack" /\ m.dir = "up"
  BY DEF AckUp, Up
<1>5. DataUp(m) => m.type = "data" /\ m.dir = "up"
  BY DEF DataUp, Up
<1>6. AckDown(m) => m.type = "ack" /\ m.dir = "down"
  BY DEF AckDown, Down
<1>7. DataDown(m) => m.type = "data" /\ m.dir = "down"
  BY DEF DataDown, Down
<1> QED
  BY <1>1, <1>2, <1>3, <1>4, <1>5, <1>6, <1>7 DEF MsgOK

LEMMA RecvConnAckInv ==
    ASSUME IInv, NEW c \in Clients, NEW m \in net, RecvConnAck(c, m)
    PROVE  IInv'
<1> DEFINE r == client[c]
           r1 == [r EXCEPT !.opts = m.opts, !.port = m.port, !.ack = m.seq]
           r2 == [r1 EXCEPT !.await = {}, !.tries = 0, !.read = m.seq]
           r3 == [r2 EXCEPT !.dial = "open", !.rx = RxStays(c)]
           u == [r EXCEPT !.opts = m.opts, !.await = {}, !.dial = "unmigrated", !.rx = FALSE]
<1>1. r \in ClientRecs /\ client \in [Clients -> ClientRecs] /\ ClientOK(c)
      /\ r.dial = "waiting" /\ m.client = c /\ m.type = "connAck"
      /\ UNCHANGED <<conn, acc, returned, sopts, net>>
  BY ClientFacts DEF RecvConnAck
<1>2. Answer(m) /\ m.port \in DOMAIN conn /\ conn[m.port].peer = c
      /\ m.seq = conn[m.port].first /\ m.opts \in Options /\ AtMost(m.opts, sopts)
      /\ m.opts.init <= r.opts.init
  BY <1>1, MsgKinds DEF Answer, Known
<1>3. m.seq \in SeqNrs /\ m.port \in Ports
  BY <1>2, ConnFacts DEF ConnRecs
<1>4. ~ Exceeds(c, m)
  <2>1. m.opts.init \in Nat /\ r.opts.init \in Nat
    BY <1>1, <1>2, SizesAssumption DEF Options, ClientRecs
  <2> QED
    BY <1>2, <2>1 DEF Exceeds
<1>5. r3 = Migrated(c, m) /\ u = Unmigrated(c, m)
  BY Zenon DEF Migrated, Unmigrated
<1> HIDE DEF r3, u
<1>6. client' = [client EXCEPT ![c] = r3] \/ client' = [client EXCEPT ![c] = u]
  BY <1>4, <1>5 DEF RecvConnAck
<1>7. r1 \in ClientRecs
  BY <1>1, <1>2, <1>3 DEF ClientRecs
<1>8. /\ r1.opts = m.opts /\ r1.port = m.port /\ r1.ack = m.seq
      /\ r1.first = r.first /\ r1.next = r.next /\ r1.data = r.data /\ r1.got = r.got
      /\ r1.run = r.run
  BY <1>1 DEF ClientRecs
<1> HIDE DEF r1
<1>9. r2 \in ClientRecs
  <2>1. 0 \in 0 .. MaxRetransmits + 1 /\ {} \in SUBSET SeqNrs
    BY NumberTypes
  <2> QED
    BY <1>3, <1>7, <2>1, Zenon DEF ClientRecs
<1>10. /\ r2.opts = m.opts /\ r2.port = m.port /\ r2.ack = m.seq
       /\ r2.first = r.first /\ r2.next = r.next /\ r2.data = r.data /\ r2.got = r.got
       /\ r2.run = r.run /\ r2.await = {} /\ r2.tries = 0 /\ r2.read = m.seq
  BY <1>7, <1>8 DEF ClientRecs
<1> HIDE DEF r2
<1>11. r3 \in ClientRecs
  BY <1>9 DEF ClientRecs, RxStays, r3
<1>12. /\ r3.opts = m.opts /\ r3.port = m.port /\ r3.ack = m.seq
       /\ r3.first = r.first /\ r3.next = r.next /\ r3.data = r.data /\ r3.got = r.got
       /\ r3.run = r.run /\ r3.await = {} /\ r3.tries = 0 /\ r3.read = m.seq
       /\ r3.dial = "open"
  BY <1>9, <1>10 DEF ClientRecs, r3
<1>13. ~ WasOpen(m.port)
  BY <1>1, <1>2, ConnFacts DEF ConnOK
<1>14. /\ r.data = NoNr /\ ~ r.got /\ r.first = ClientSeq /\ r.next = NextNr(ClientSeq)
       /\ r.port = 0 /\ r.ack = NoNr /\ (r.run = "running" => r.tries <= MaxRetransmits)
  BY <1>1 DEF ClientOK
<1>15. CASE client' = [client EXCEPT ![c] = r3]
  <2>1. /\ client'[c] = r3 /\ client' \in [Clients -> ClientRecs]
        /\ \A d \in Clients \ {c} : client'[d] = client[d]
    BY <1>1, <1>11, <1>15
  <2>2. Migration(c)'
    BY <1>1, <1>2, <1>12, <1>13, <1>14, <2>1 DEF Migration, AtMost, WasOpen
  <2>3. ClientOK(c)'
    BY <1>12, <1>14, <2>1, <2>2, NumberTypes DEF ClientOK
  <2> QED
    BY <1>1, <1>12, <2>1, <2>3, ClientStep
<1>16. CASE client' = [client EXCEPT ![c] = u]
  <2>1. u \in ClientRecs
    BY <1>1, <1>2 DEF ClientRecs, u
  <2>2. /\ u.dial = "unmigrated" /\ u.first = r.first /\ u.next = r.next /\ u.data = r.data
        /\ u.got = r.got /\ u.port = r.port /\ u.ack = r.ack /\ u.run = r.run
        /\ u.tries = r.tries
    BY <1>1 DEF ClientRecs, u
  <2>3. /\ client'[c] = u /\ client' \in [Clients -> ClientRecs]
        /\ \A d \in Clients \ {c} : client'[d] = client[d]
    BY <1>1, <1>16, <2>1
  <2>4. ClientOK(c)'
    BY <1>14, <2>2, <2>3 DEF ClientOK
  <2> QED
    BY <1>1, <2>2, <2>3, <2>4, ClientStep
<1> QED
  BY <1>6, <1>15, <1>16

LEMMA ClientRecvAckInv ==
    ASSUME IInv, NEW c \in Clients, NEW m \in net, ClientRecvAck(c, m)
    PROVE  IInv'
<1>1. client[c] \in ClientRecs /\ client \in [Clients -> ClientRecs]
      /\ client[c].dial = "open" /\ ClientOK(c)
      /\ m.type = "ack" /\ m.dir = "down" /\ m.port = client[c].port
  BY ClientFacts DEF ClientRecvAck, Down
<1>2. client' = [client EXCEPT ![c] = [client[c] EXCEPT !.await = client[c].await \ {m.seq},
                                                        !.rx = RxStays(c)]]
  BY <1>1 DEF ClientRecvAck
<1>3. UNCHANGED <<conn, acc, returned, sopts, net>> /\ conn[client[c].port].got
  BY <1>1, MsgKinds DEF ClientRecvAck, AckDown
<1>4. client'[c] \in ClientRecs
  BY <1>1, <1>2 DEF ClientRecs, RxStays
<1>5. client' \in [Clients -> ClientRecs] /\ \A d \in Clients \ {c} : client'[d] = client[d]
  BY <1>1, <1>2, <1>4
<1>6. /\ client'[c].dial = client[c].dial /\ client'[c].first = client[c].first
      /\ client'[c].opts = client[c].opts /\ client'[c].port = client[c].port
      /\ client'[c].data = client[c].data /\ client'[c].next = client[c].next
      /\ client'[c].read = client[c].read /\ client'[c].got = client[c].got
      /\ client'[c].ack = client[c].ack /\ client'[c].await \subseteq client[c].await
      /\ client'[c].tries = client[c].tries /\ client'[c].run = client[c].run
  BY <1>1, <1>2 DEF ClientRecs
<1>7. client[c].run = "running" => client[c].tries <= MaxRetransmits
  BY <1>1 DEF ClientOK
<1> QED
  BY <1>1, <1>3, <1>5, <1>6, <1>7, QuietStep

LEMMA ClientRecvDataInv ==
    ASSUME IInv, NEW c \in Clients, NEW m \in net, ClientRecvData(c, m)
    PROVE  IInv'
<1>1. client[c] \in ClientRecs /\ client \in [Clients -> ClientRecs]
      /\ client[c].dial = "open" /\ ClientOK(c) /\ Migration(c)
  BY ClientFacts DEF ClientRecvData
<1>2. UNCHANGED <<conn, acc, returned, sopts>>
  BY DEF ClientRecvData
<1>3. /\ m.port = client[c].port /\ m.client = c /\ DataDown(m)
      /\ m.port \in DOMAIN conn /\ conn[m.port].peer = c
      /\ m.seq = conn[m.port].first /\ conn[m.port].data # NoNr
  <2>1. /\ m.type = "data" /\ m.dir = "down" /\ m.port = client[c].port /\ m.client = c
    BY DEF ClientRecvData, Down
  <2> QED
    BY <2>1, MsgKinds DEF DataDown, Known
<1>4. client[c].ack = NoNr
  BY <1>3, ConnFacts DEF ConnOK
<1>5. m.seq \in SeqNrs /\ NextNr(m.seq) \in SeqNrs
  BY <1>3, ConnFacts, NumberTypes DEF ConnRecs
<1>6. PICK a : a = Up("ack", c, m.port, m.seq)
  OBVIOUS
<1>7. net' \ net \subseteq {a}
  BY <1>6 DEF ClientRecvData
<1>8. PICK q : q = [client[c] EXCEPT !.rx = RxStays(c)]
  OBVIOUS
<1>9. /\ q \in ClientRecs /\ q.dial = "open" /\ q.first = client[c].first
      /\ q.opts = client[c].opts /\ q.port = client[c].port /\ q.data = client[c].data
      /\ q.next = client[c].next /\ q.got = client[c].got /\ q.await = client[c].await
      /\ q.ack = client[c].ack /\ q.tries = client[c].tries /\ q.run = client[c].run
      /\ q.read = client[c].read
  BY <1>1, <1>8 DEF ClientRecs, RxStays
<1>10. PICK r : r = Takes(q, m.seq)
  OBVIOUS
<1>11. /\ r \in ClientRecs /\ r.dial = "open" /\ r.first = q.first
       /\ r.opts = q.opts /\ r.port = q.port /\ r.data = q.data
       /\ r.next = q.next /\ (q.got => r.got) /\ (~ r.got => r.read = q.read)
       /\ r.await = q.await /\ r.ack = q.ack /\ r.tries = q.tries /\ r.run = q.run
  BY <1>5, <1>9, <1>10 DEF Takes, ClientRecs
<1>12. client' = [client EXCEPT ![c] = r]
  BY <1>8, <1>10 DEF ClientRecvData
<1>13. /\ client'[c] = r /\ client' \in [Clients -> ClientRecs]
       /\ \A d \in Clients \ {c} : client'[d] = client[d]
  BY <1>1, <1>11, <1>12
<1>14. ClientOK(c)'
  <2>1. Migration(c)'
    BY <1>1, <1>2, <1>3, <1>4, <1>9, <1>11, <1>13 DEF Migration, AtMost
  <2> QED
    BY <1>1, <1>9, <1>11, <1>13, <2>1 DEF ClientOK
<1>15. MsgOK(a)'
  <2>1. a = Up("ack", a.client, a.port, a.seq) /\ a.client = c /\ a.port = m.port
        /\ a.seq = m.seq
    BY <1>6 DEF Up
  <2>2. AckUp(a)'
    BY <1>2, <1>3, <1>4, <1>9, <1>11, <1>13, <2>1 DEF AckUp, Moved, Known
  <2> QED
    BY <2>2 DEF MsgOK
<1> QED
  BY <1>1, <1>2, <1>7, <1>9, <1>11, <1>13, <1>14, <1>15, ClientStep

LEMMA ClientTimeoutInv ==
    ASSUME IInv, NEW c \in Clients, ClientTimeout(c)
    PROVE  IInv'
<1>1. client[c] \in ClientRecs /\ client \in [Clients -> ClientRecs]
      /\ client[c].run = "running" /\ ClientOK(c) /\ client[c].dial # "idle"
  BY ClientFacts DEF ClientTimeout, ClientOK
<1>2. client' = [client EXCEPT ![c] = [client[c] EXCEPT !.run = "done", !.rx = FALSE,
           !.dial = IF client[c].dial = "waiting" THEN "unopened" ELSE client[c].dial]]
  BY <1>1 DEF ClientTimeout
<1>3. UNCHANGED <<conn, acc, returned, sopts, net>>
  BY DEF ClientTimeout
<1>4. client'[c] \in ClientRecs
  <2>1. PICK dial : dial = IF client[c].dial = "waiting" THEN "unopened" ELSE client[c].dial
    OBVIOUS
  <2>2. client'[c] = [client[c] EXCEPT !.run = "done", !.rx = FALSE, !.dial = dial]
    BY <1>1, <1>2, <2>1
  <2>3. dial \in {"idle", "waiting", "open", "rejected", "unmigrated", "unopened"}
    BY <1>1, <2>1 DEF ClientRecs
  <2> QED
    BY <1>1, <2>2, <2>3 DEF ClientRecs
<1>5. client' \in [Clients -> ClientRecs] /\ \A d \in Clients \ {c} : client'[d] = client[d]
  BY <1>1, <1>2, <1>4
<1>6. /\ client'[c].dial = IF client[c].dial = "waiting" THEN "unopened" ELSE client[c].dial
      /\ client'[c].opts = client[c].opts /\ client'[c].port = client[c].port
      /\ client'[c].data = client[c].data /\ client'[c].next = client[c].next
      /\ client'[c].read = client[c].read /\ client'[c].got = client[c].got
      /\ client'[c].ack = client[c].ack /\ client'[c].await = client[c].await
      /\ client'[c].first = client[c].first /\ client'[c].run = "done"
  BY <1>1, <1>2 DEF ClientRecs
<1>7. Migration(c) => Migration(c)'
  BY <1>3, <1>6 DEF Migration, AtMost, WasOpen
<1>8. ClientOK(c)'
  BY <1>1, <1>6, <1>7 DEF ClientOK
<1> QED
  BY <1>1, <1>3, <1>5, <1>6, <1>8, ClientStep

-----------------------------------------------------------------------------
(* The server's steps. *)

LEMMA RecvConnInv ==
    ASSUME IInv, NEW m \in net, RecvConn(m)
    PROVE  IInv'
<1> DEFINE n == Cardinality(DOMAIN conn)
           k == n + 1
<1>1. Types /\ n \in 0 .. MaxConns /\ DOMAIN conn = 1 .. n /\ n < MaxConns
      /\ MaxConns \in Nat
  BY PortsInUse, NumberTypes DEF IInv, RecvConn
<1>2. Request(m) /\ m.client \in Clients /\ m.opts \in Options
  BY MsgKinds DEF RecvConn, Request
<1>3. PICK nr \in ServerSeqs :
        /\ conn' = [j \in DOMAIN conn \cup {k} |->
                      IF j = k THEN NewConn(m.client, nr, NextNr(m.seq)) ELSE conn[j]]
        /\ net' = net \cup {ConnAck(m.client, k, nr, Merge(m.opts, sopts))}
        /\ acc' = k /\ UNCHANGED <<client, returned, sopts>>
  BY DEF RecvConn
<1> HIDE DEF n
<1>4. k \notin DOMAIN conn /\ DOMAIN conn \cup {k} = 1 .. n + 1 /\ n + 1 \in 0 .. MaxConns
  BY <1>1
<1> HIDE DEF k
<1>5. DOMAIN conn' = DOMAIN conn \cup {k} /\ \A j \in DOMAIN conn : conn'[j] = conn[j]
  BY <1>3, <1>4
<1>6. conn'[k] = [st |-> "handshake", run |-> "running", rx |-> TRUE, peer |-> m.client,
                  first |-> nr, next |-> nr, await |-> {}, tries |-> 0,
                  read |-> NextNr(ClientSeq), data |-> NoNr, got |-> FALSE, again |-> FALSE]
  BY <1>2, <1>3 DEF NewConn, Request
<1>7. conn'[k] \in ConnRecs
  <2>1. nr \in SeqNrs /\ NextNr(ClientSeq) \in SeqNrs /\ 0 \in 0 .. MaxRetransmits + 1
        /\ {} \in SUBSET SeqNrs
    BY NumberTypes
  <2> QED
    BY <1>2, <1>6, <2>1 DEF ConnRecs
<1>8. Types'
  <2>1. \E i \in 0 .. MaxConns : DOMAIN conn' = 1 .. i
    BY <1>4, <1>5
  <2>2. \A j \in DOMAIN conn' : conn'[j] \in ConnRecs
    BY <1>1, <1>5, <1>7 DEF Types
  <2> QED
    BY <1>1, <1>3, <1>5, <2>1, <2>2 DEF Types, ClientRecs, ConnRecs
<1>9. ClientsGo /\ ConnsGo
  BY <1>1, <1>3, <1>5 DEF ClientsGo, ConnsGo, Types
<1>10. ASSUME NEW c \in Clients
       PROVE  ClientOK(c)'
  <2>1. client[c].ack # NoNr => client[c].port \in DOMAIN conn
    BY ClientFacts DEF ClientOK, Migration
  <2> QED
    BY <1>3, <1>5, <1>9, <2>1, OldClient DEF Opens, WasOpen
<1>11. ASSUME NEW j \in DOMAIN conn'
       PROVE  ConnOK(j)'
  <2>1. CASE j = k
    BY <1>6, <2>1, NumberTypes DEF ConnOK, WasOpen
  <2>2. CASE j \in DOMAIN conn
    BY <1>5, <1>9, <2>2, OldConn
  <2> QED
    BY <1>5, <2>1, <2>2
<1>12. \A o \in net : MsgOK(o)'
  <2>1. ASSUME NEW o \in net
        PROVE  MsgOK(o)'
    <3>1. MsgOK(o)
      BY DEF IInv
    <3> QED
      BY <1>3, <1>5, <1>9, <3>1, OldMsg
  <2> QED
    BY <2>1
<1>13. PICK a : a = ConnAck(m.client, k, nr, Merge(m.opts, sopts))
  OBVIOUS
<1>14. MsgOK(a)'
  <2>1. /\ a.type = "connAck" /\ a.client = m.client /\ a.port = k /\ a.seq = nr
        /\ a.opts = Merge(m.opts, sopts)
    BY <1>13 DEF ConnAck
  <2>2. a.opts \in Options /\ AtMost(a.opts, sopts) /\ a.opts.init <= m.opts.init
    BY <1>1, <1>2, <2>1, MergedOptions DEF Types
  <2>3. client[m.client].dial \in {"idle", "waiting"} => m.opts = client[m.client].opts
    BY <1>2 DEF Request
  <2>4. Known(a)' /\ a.seq = conn'[a.port].first
    BY <1>5, <1>6, <2>1 DEF Known
  <2>5. Answer(a)'
    BY <1>3, <2>1, <2>2, <2>3, <2>4 DEF Answer, AtMost
  <2> QED
    BY <2>5 DEF MsgOK
<1> QED
  BY <1>3, <1>8, <1>10, <1>11, <1>12, <1>13, <1>14 DEF IInv

LEMMA ServerRecvAckInv ==
    ASSUME IInv, NEW k \in DOMAIN conn, NEW m \in net, ServerRecvAck(k, m)
    PROVE  IInv'
<1> DEFINE r == conn[k]
<1>1. /\ r \in ConnRecs /\ ConnOK(k) /\ r.st \in {"handshake", "open"}
      /\ UNCHANGED <<client, sopts, net>> /\ Types
  BY ConnFacts DEF ServerRecvAck, IInv
<1>2. /\ m = Up("ack", r.peer, k, r.first) /\ AckUp(m)
      /\ client[r.peer].dial = "open" /\ client[r.peer].port = k
      /\ client[r.peer].ack = NoNr
  <2>1. m.type = "ack" /\ m.dir = "up" /\ m.client = r.peer /\ m.port = k
        /\ m = Up("ack", r.peer, k, m.seq)
    BY DEF ServerRecvAck, Up
  <2> QED
    BY <2>1, MsgKinds DEF AckUp, Moved, Known
<1>3. m.seq = r.first
  BY <1>2 DEF Up
<1>4. CASE r.st = "handshake"
  <2>1. r.data = NoNr /\ r.next = r.first /\ r.await = {}
    BY <1>1, <1>4 DEF ConnOK, WasOpen
  <2>2. /\ conn' = [conn EXCEPT ![k] = [conn[k] EXCEPT !.st = "open"]]
        /\ returned' = returned \cup {k} /\ acc' = 0
    BY <1>3, <1>4, <2>1 DEF ServerRecvAck
  <2>3. DOMAIN conn' = DOMAIN conn /\ conn'[k] = [r EXCEPT !.st = "open"]
        /\ \A j \in DOMAIN conn \ {k} : conn'[j] = conn[j]
    BY <2>2
  <2>4. conn'[k] \in ConnRecs
    BY <1>1, <2>3 DEF ConnRecs
  <2>5. /\ conn'[k].st = "open" /\ conn'[k].peer = r.peer /\ conn'[k].first = r.first
        /\ conn'[k].next = r.next /\ conn'[k].read = r.read /\ conn'[k].data = r.data
        /\ conn'[k].await = r.await /\ conn'[k].got = r.got /\ conn'[k].run = r.run
        /\ conn'[k].tries = r.tries
    BY <1>1, <2>3 DEF ConnRecs
  <2>6. ConnOK(k)'
    BY <1>1, <1>2, <2>1, <2>5 DEF ConnOK, WasOpen
  <2>7. returned' \subseteq DOMAIN conn /\ acc' \in {0} \cup DOMAIN conn
    BY <1>1, <2>2 DEF Types
  <2> QED
    BY <1>1, <1>2, <2>3, <2>4, <2>5, <2>6, <2>7, ConnStep
<1>5. CASE r.st = "open"
  <2>1. UNCHANGED <<acc, returned>> /\ WasOpen(k)
    BY <1>5 DEF ServerRecvAck, WasOpen
  <2>2. conn' = [conn EXCEPT ![k] = [conn[k] EXCEPT !.await = conn[k].await \ {m.seq},
                                       !.rx = conn[k].run = "running", !.again = TRUE]]
    BY <1>1, <1>3, <1>5 DEF ServerRecvAck, ConnRecs
  <2>3. DOMAIN conn' = DOMAIN conn
        /\ conn'[k] = [r EXCEPT !.await = r.await \ {m.seq},
                                !.rx = r.run = "running", !.again = TRUE]
        /\ \A j \in DOMAIN conn \ {k} : conn'[j] = conn[j]
    BY <2>2
  <2>4. conn'[k] \in ConnRecs
    BY <1>1, <2>3 DEF ConnRecs
  <2>5. /\ conn'[k].st = "open" /\ conn'[k].peer = r.peer /\ conn'[k].first = r.first
        /\ conn'[k].next = r.next /\ conn'[k].read = r.read /\ conn'[k].data = r.data
        /\ conn'[k].await \subseteq r.await /\ conn'[k].again /\ conn'[k].got = r.got
        /\ conn'[k].run = r.run /\ conn'[k].tries = r.tries
    BY <1>1, <1>5, <2>3 DEF ConnRecs
  <2>6. ConnOK(k)'
    BY <1>1, <1>2, <1>5, <2>5 DEF ConnOK, WasOpen
  <2>7. returned' \subseteq DOMAIN conn /\ acc' \in {0} \cup DOMAIN conn
    BY <1>1, <2>1 DEF Types
  <2> QED
    BY <1>1, <2>1, <2>3, <2>4, <2>5, <2>6, <2>7, ConnStep
<1> QED
  BY <1>1, <1>4, <1>5

LEMMA ServerRecvDataInv ==
    ASSUME IInv, NEW k \in DOMAIN conn, NEW m \in net, ServerRecvData(k, m)
    PROVE  IInv'
<1> DEFINE r == conn[k]
<1>1. /\ r \in ConnRecs /\ ConnOK(k) /\ UNCHANGED <<client, acc, returned, sopts>> /\ Types
      /\ r.st = "open" /\ WasOpen(k)
  BY ConnFacts DEF ServerRecvData, IInv, WasOpen
<1>2. /\ m.client = r.peer /\ DataUp(m) /\ client[r.peer].port = k
      /\ client[r.peer].data # NoNr /\ m.seq = NextNr(ClientSeq)
  <2>1. m.type = "data" /\ m.dir = "up" /\ m.client = r.peer /\ m.port = k
    BY DEF ServerRecvData, Up
  <2>2. DataUp(m) /\ client[r.peer].dial = "open" /\ r.peer \in Clients
    BY <2>1, MsgKinds, ConnFacts DEF DataUp, Moved
  <2>3. Migration(r.peer)
    BY <2>2, ClientFacts
  <2> QED
    BY <2>1, <2>2, <2>3, NumberTypes DEF DataUp, Moved, Migration
<1>3. NextNr(m.seq) \in SeqNrs
  BY <1>2, NumberTypes
<1>4. PICK q : q = [conn[k] EXCEPT !.rx = conn[k].run = "running"]
  OBVIOUS
<1>5. /\ q \in ConnRecs /\ q.st = r.st /\ q.peer = r.peer /\ q.first = r.first
      /\ q.next = r.next /\ q.data = r.data /\ q.await = r.await /\ q.run = r.run
      /\ q.tries = r.tries /\ q.again = r.again /\ q.got = r.got /\ q.read = r.read
  BY <1>1, <1>4 DEF ConnRecs
<1>6. PICK t : t = Takes(q, m.seq)
  OBVIOUS
<1>7. /\ t \in ConnRecs /\ t.st = q.st /\ t.peer = q.peer /\ t.first = q.first
      /\ t.next = q.next /\ t.data = q.data /\ t.await = q.await /\ t.run = q.run
      /\ t.tries = q.tries /\ t.again = q.again
  BY <1>3, <1>5, <1>6 DEF Takes, ConnRecs
<1>8. t.got
  <2>1. ~ q.got => q.read = m.seq
    BY <1>1, <1>2, <1>5 DEF ConnOK
  <2> QED
    BY <1>5, <1>6, <2>1 DEF Takes, ConnRecs
<1>9. conn' = [conn EXCEPT ![k] = t]
  BY <1>4, <1>6 DEF ServerRecvData
<1>10. DOMAIN conn' = DOMAIN conn /\ conn'[k] = t
       /\ \A j \in DOMAIN conn \ {k} : conn'[j] = conn[j]
  BY <1>9
<1>11. ConnOK(k)'
  BY <1>1, <1>2, <1>5, <1>7, <1>8, <1>10 DEF ConnOK, WasOpen
<1>12. \A o \in net' \ net : MsgOK(o)'
  <2>1. PICK a : a = Down("ack", m.client, k, m.seq)
    OBVIOUS
  <2>2. AckDown(a)'
    BY <1>2, <1>5, <1>7, <1>8, <1>10, <2>1 DEF AckDown, Known, Down
  <2> QED
    BY <2>1, <2>2 DEF ServerRecvData, MsgOK
<1>13. returned' \subseteq DOMAIN conn /\ acc' \in {0} \cup DOMAIN conn
  BY <1>1 DEF Types
<1> QED
  BY <1>1, <1>5, <1>7, <1>8, <1>10, <1>11, <1>12, <1>13, ConnStep

LEMMA ServerDataInv ==
    ASSUME IInv, NEW k \in DOMAIN conn, ServerData(k)
    PROVE  IInv'
<1> DEFINE r == conn[k]
<1>1. /\ r \in ConnRecs /\ ConnOK(k) /\ UNCHANGED <<client, acc, returned, sopts>> /\ Types
      /\ r.st = "open" /\ r.data = NoNr /\ r.next = r.first /\ r.first \in SeqNrs
      /\ NextNr(r.first) \in SeqNrs
  BY ConnFacts, NumberTypes DEF ServerData, IInv, ConnOK, ConnRecs
<1>2. conn' = [conn EXCEPT ![k] = [conn[k] EXCEPT !.data = r.first, !.next = NextNr(r.first),
                                                  !.await = {r.first}]]
  BY <1>1 DEF ServerData
<1>3. DOMAIN conn' = DOMAIN conn
      /\ conn'[k] = [r EXCEPT !.data = r.first, !.next = NextNr(r.first), !.await = {r.first}]
      /\ \A j \in DOMAIN conn \ {k} : conn'[j] = conn[j]
  BY <1>2
<1>4. conn'[k] \in ConnRecs
  <2>1. {r.first} \in SUBSET SeqNrs
    BY <1>1
  <2>2. [r EXCEPT !.data = r.first, !.next = NextNr(r.first), !.await = {r.first}] \in ConnRecs
    BY <1>1, <2>1, Zenon DEF ConnRecs
  <2> QED
    BY <1>3, <2>2, Zenon
<1>5. /\ conn'[k].st = r.st /\ conn'[k].peer = r.peer /\ conn'[k].first = r.first
      /\ conn'[k].read = r.read /\ conn'[k].data = r.first /\ conn'[k].await = {r.first}
      /\ conn'[k].got = r.got /\ conn'[k].run = r.run /\ conn'[k].tries = r.tries
  BY <1>1, <1>3 DEF ConnRecs
<1>6. r.first # NoNr
  BY <1>1, NumberTypes
<1>7. ConnOK(k)'
  BY <1>1, <1>5, <1>6 DEF ConnOK, WasOpen
<1>8. PICK m : m = Down("data", r.peer, k, r.first)
  OBVIOUS
<1>9. MsgOK(m)'
  <2>1. DataDown(m)'
    BY <1>3, <1>5, <1>6, <1>8 DEF DataDown, Known, Down
  <2> QED
    BY <2>1 DEF MsgOK
<1>10. net' \subseteq net \cup {m}
  BY <1>1, <1>8 DEF ServerData
<1>11. returned' \subseteq DOMAIN conn /\ acc' \in {0} \cup DOMAIN conn /\ WasOpen(k)
  BY <1>1 DEF Types, WasOpen
<1> QED
  BY <1>1, <1>3, <1>4, <1>5, <1>6, <1>7, <1>9, <1>10, <1>11, ConnStep

LEMMA ServerRetransmitInv ==
    ASSUME IInv, NEW k \in DOMAIN conn, ServerRetransmit(k)
    PROVE  IInv'
<1> DEFINE r == conn[k]
<1>1. /\ r \in ConnRecs /\ ConnOK(k) /\ UNCHANGED <<client, acc, returned, sopts>> /\ Types
      /\ r.st = "open" /\ r.await # {} /\ r.run = "running"
  BY ConnFacts DEF ServerRetransmit, IInv
<1>2. r.data # NoNr /\ r.data = r.first /\ r.tries <= MaxRetransmits
  BY <1>1 DEF ConnOK
<1>3. /\ DOMAIN conn' = DOMAIN conn
      /\ conn'[k] = [r EXCEPT !.tries = r.tries + 1,
                              !.run = IF r.tries + 1 > MaxRetransmits
                                        THEN "broken" ELSE r.run]
      /\ \A j \in DOMAIN conn \ {k} : conn'[j] = conn[j]
  BY DEF ServerRetransmit
<1>4. conn'[k] \in ConnRecs
  <2>1. r.tries + 1 \in 0 .. MaxRetransmits + 1
    BY <1>1, <1>2, NumberTypes DEF ConnRecs
  <2> QED
    BY <1>1, <1>3, <2>1 DEF ConnRecs
<1>5. /\ conn'[k].st = r.st /\ conn'[k].peer = r.peer /\ conn'[k].first = r.first
      /\ conn'[k].read = r.read /\ conn'[k].data = r.data /\ conn'[k].await = r.await
      /\ conn'[k].next = r.next /\ conn'[k].got = r.got /\ conn'[k].again = r.again
      /\ (conn'[k].run = "running" => conn'[k].tries <= MaxRetransmits)
  <2>1. r.tries \in Nat
    BY <1>1 DEF ConnRecs
  <2> QED
    BY <1>1, <1>3, <2>1, NumberTypes DEF ConnRecs
<1>6. ConnOK(k)'
  BY <1>1, <1>5 DEF ConnOK, WasOpen
<1>7. PICK m : m = Down("data", r.peer, k, r.first)
  OBVIOUS
<1>8. MsgOK(m)'
  <2>1. DataDown(m)'
    BY <1>2, <1>3, <1>5, <1>7 DEF DataDown, Known, Down
  <2> QED
    BY <2>1 DEF MsgOK
<1>9. net' \subseteq net \cup {m}
  BY <1>2, <1>7 DEF ServerRetransmit
<1>10. returned' \subseteq DOMAIN conn /\ acc' \in {0} \cup DOMAIN conn /\ WasOpen(k)
  BY <1>1 DEF Types, WasOpen
<1> QED
  BY <1>1, <1>2, <1>3, <1>4, <1>5, <1>6, <1>8, <1>9, <1>10, ConnStep

LEMMA ServerTimeoutInv ==
    ASSUME IInv, NEW k \in DOMAIN conn, ServerTimeout(k)
    PROVE  IInv'
<1> DEFINE r == conn[k]
<1>1. /\ r \in ConnRecs /\ ConnOK(k) /\ UNCHANGED <<client, sopts, net>> /\ Types
      /\ r.st \in {"handshake", "open"}
  BY ConnFacts DEF ServerTimeout, IInv
<1>2. DOMAIN conn' = DOMAIN conn
      /\ conn'[k] = [r EXCEPT !.st = IF r.st = "open" THEN "closed" ELSE "unopened"]
      /\ \A j \in DOMAIN conn \ {k} : conn'[j] = conn[j]
  BY DEF ServerTimeout
<1>3. conn'[k] \in ConnRecs
  BY <1>1, <1>2 DEF ConnRecs
<1>4. /\ conn'[k].st = (IF r.st = "open" THEN "closed" ELSE "unopened")
      /\ conn'[k].peer = r.peer /\ conn'[k].first = r.first /\ conn'[k].next = r.next
      /\ conn'[k].read = r.read /\ conn'[k].data = r.data /\ conn'[k].await = r.await
      /\ conn'[k].got = r.got /\ conn'[k].again = r.again /\ conn'[k].run = r.run
      /\ conn'[k].tries = r.tries
  BY <1>1, <1>2 DEF ConnRecs
<1>5. ConnOK(k)'
  BY <1>1, <1>4 DEF ConnOK, WasOpen
<1>6. returned' \subseteq DOMAIN conn /\ acc' \in {0} \cup DOMAIN conn
  BY <1>1 DEF Types, ServerTimeout
<1>7. conn'[k].st \in {"open", "closed"} => WasOpen(k)
  BY <1>1, <1>4 DEF WasOpen
<1> QED
  BY <1>1, <1>2, <1>3, <1>4, <1>5, <1>6, <1>7, ConnStep

-----------------------------------------------------------------------------
\* A step of nobody.
LEMMA NothingInv ==
    ASSUME IInv, UNCHANGED vars
    PROVE  IInv'
<1>1. ClientsGo /\ ConnsGo
  BY DEF ClientsGo, ConnsGo, IInv, Types, vars
<1>2. Types'
  BY DEF IInv, Types, ClientRecs, ConnRecs, vars
<1>3. \A c \in Clients : ClientOK(c)'
  BY <1>1, OldClient DEF Opens, WasOpen, vars
<1>4. \A k \in DOMAIN conn' : ConnOK(k)'
  BY <1>1, OldConn DEF vars
<1>5. ASSUME NEW m \in net
      PROVE  MsgOK(m)'
  <2>1. MsgOK(m)
    BY DEF IInv
  <2> QED
    BY <1>1, <2>1, OldMsg DEF vars
<1> QED
  BY <1>2, <1>3, <1>4, <1>5 DEF IInv, vars

LEMMA StepInv == IInv /\ [Next]_vars => IInv'
<1> SUFFICES ASSUME IInv, [Next]_vars
             PROVE  IInv'
  OBVIOUS
<1>1. ASSUME NEW c \in Clients, ClientNext(c)
      PROVE  IInv'
  BY <1>1, DialInv, RetransmitInv, SendFinalAckInv, ClientDataInv, ClientTimeoutInv,
     RecvConnAckInv, ClientRecvAckInv, ClientRecvDataInv DEF ClientNext
<1>2. ASSUME NEW k \in DOMAIN conn, ConnNext(k)
      PROVE  IInv'
  BY <1>2, ServerDataInv, ServerRetransmitInv, ServerTimeoutInv, ServerRecvAckInv,
     ServerRecvDataInv DEF ConnNext
<1>3. ASSUME NEW m \in net, RecvConn(m)
      PROVE  IInv'
  BY <1>3, RecvConnInv
<1>4. CASE UNCHANGED vars
  BY <1>4, NothingInv
<1> QED
  BY <1>1, <1>2, <1>3, <1>4 DEF Next

LEMMA AlwaysInv == Spec => []IInv
  BY InitInv, StepInv, PTL DEF Spec

LEMMA InvImplies ==
    ASSUME IInv
    PROVE  TypeOK /\ OpenPaired /\ SeqAgree /\ Negotiated /\ FirstDataAcked
<1>1. TypeOK
  <2>1. \A c \in Clients : ClientTypeOK(client[c])
    BY ClientFacts DEF ClientTypeOK, ClientRecs
  <2>2. \A k \in DOMAIN conn : ConnTypeOK(conn[k])
    BY ConnFacts DEF ConnTypeOK, ConnRecs
  <2> QED
    BY <2>1, <2>2, PortsInUse DEF TypeOK, IInv, Types
<1>2. OpenPaired
  BY ConnFacts DEF OpenPaired, ConnOK, WasOpen
<1>3. SeqAgree
  <2>1. ASSUME NEW k \in DOMAIN conn, client[conn[k].peer].port = k
        PROVE  LET c == client[conn[k].peer] IN
               /\ c.data = NoNr => conn[k].read = c.next
               /\ conn[k].data = NoNr => c.read = conn[k].next
    <3>1. ConnOK(k) /\ conn[k].peer \in Clients /\ k # 0 /\ ClientOK(conn[k].peer)
      BY ConnFacts, ClientFacts, NumberTypes
    <3>2. client[conn[k].peer].dial = "open" /\ Migration(conn[k].peer)
      BY <2>1, <3>1 DEF ClientOK
    <3>3. client[conn[k].peer].data = NoNr => client[conn[k].peer].next = NextNr(ClientSeq)
      BY <3>1, <3>2 DEF ClientOK
    <3> QED
      BY <2>1, <3>1, <3>2, <3>3 DEF ConnOK, Migration
  <2> QED
    BY <2>1 DEF SeqAgree
<1>4. Negotiated
  BY ClientFacts DEF Negotiated, ClientOK, Migration, AtMost
<1>5. FirstDataAcked
  <2>1. ASSUME NEW k \in DOMAIN conn, client[conn[k].peer].port = k
        PROVE  Migration(conn[k].peer)
    <3>1. conn[k].peer \in Clients /\ k # 0 /\ ClientOK(conn[k].peer)
      BY ConnFacts, ClientFacts, NumberTypes
    <3> QED
      BY <2>1, <3>1 DEF ClientOK
  <2> QED
    BY <2>1, ConnFacts DEF FirstDataAcked, ConnOK, Migration
<1> QED
  BY <1>1, <1>2, <1>3, <1>4, <1>5

-----------------------------------------------------------------------------
\* Every variable keeps its type: packet numbers stay in their range, retransmissions
\* within the limit (run), and what Accept waits for and returned exists.
THEOREM TypeCorrect == Spec => []TypeOK
  BY AlwaysInv, InvImplies, PTL

\* An open server connection belongs to a client that opened on its port, however many
\* requests and answers were repeated or lost (onMessage, doServerHandshake).
THEOREM OpenCorrect == Spec => []OpenPaired
  BY AlwaysInv, InvImplies, PTL

\* The two ends agree on the number of the first packet in either direction
\* (createConnResp, completeClientHandshake, sequentialDataReader.nextSeqNr).
THEOREM SeqsCorrect == Spec => []SeqAgree
  BY AlwaysInv, InvImplies, PTL

\* No client is turned away by its own check of the answer, and an open one has options
\* that exceed neither side's (createConnResp, completeClientHandshake).
THEOREM NegotiatedCorrect == Spec => []Negotiated
  BY AlwaysInv, InvImplies, PTL

\* Whatever the network loses, delays or duplicates, the first packet in either direction
\* is taken for delivered only when the other end has it, or, of a server's, when a copy
\* of the final Ack, which has the same number, came to the open connection (processAck).
THEOREM FirstDataCorrect == Spec => []FirstDataAcked
  BY AlwaysInv, InvImplies, PTL
=============================================================================
