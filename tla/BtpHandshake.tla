---------------------------- MODULE BtpHandshake ----------------------------
(***************************************************************************)
(* Setting up BTP connections: clients that Dial, a listener whose Accept  *)
(* serves one request at a time, the connection it creates on a port of    *)
(* its own for each request, and the first data packet in either           *)
(* direction, which is where a half-open connection shows.                 *)
(*                                                                         *)
(* Server connection k is the k-th request accepted; k also stands for its *)
(* port, and port 0 for the listener's.  Timeouts are not timed: a timer   *)
(* may run out whenever it runs.  The network is UDP's: what was once sent *)
(* is received never (lost), once or again, sooner or later, in any order. *)
(***************************************************************************)
EXTENDS Naturals, FiniteSets

CONSTANTS
    Clients,         \* the clients, each dialling once
    MaxConns,        \* requests the listener accepts (bound)
    SeqMod,          \* 2^16 in the code
    ClientSeq,       \* a client's random initial packet number
    ServerSeqs,      \* the random initial packet numbers servers draw from
    MaxRetransmits,  \* Options.MaxRetransmits
    Sizes            \* values of the negotiated options (bound)

ASSUME ClientsAssumption == IsFiniteSet(Clients)
ASSUME BoundsAssumption == MaxConns \in Nat /\ MaxRetransmits \in Nat
ASSUME SeqAssumption == /\ SeqMod \in Nat \ {0}
                        /\ ServerSeqs \cup {ClientSeq} \subseteq 0 .. SeqMod - 1
ASSUME SizesAssumption == Sizes \subseteq Nat

VARIABLES
    client,   \* Conn and Dial call of each client
    conn,     \* the server connections created so far
    acc,      \* what Accept waits for: 0 a request, k the client of connection k
    returned, \* connections Accept returned without an error
    sopts,    \* the listener's options
    net       \* datagrams sent

vars == <<client, conn, acc, returned, sopts, net>>

-----------------------------------------------------------------------------
SeqNrs  == 0 .. SeqMod - 1
NoNr    == SeqMod                        \* no packet number
Ports   == 1 .. MaxConns
Options == [init : Sizes, size : Sizes]  \* InitCwndSize, MaxPacketSize

\* Wrong: the packet number does not wrap.
BadNextNr(s) == s + 1

NextNr(s) == (s + 1) % SeqMod

Lower(a, b) == IF a < b THEN a ELSE b

\* Wrong: the listener's packet size is not looked at.
BadMerge(req, own) == [init |-> Lower(req.init, own.init), size |-> req.size]

\* createConnResp: for each option the smaller value of the two sides.
\* MaxCwndSize is merged the way InitCwndSize is, and left out.
Merge(req, own) == [init |-> Lower(req.init, own.init), size |-> Lower(req.size, own.size)]

(* Datagrams.  Up is from a client, Down to one; port is the server's.      *)
ConnMsg(c) == [type |-> "conn", client |-> c, port |-> 0, seq |-> client[c].first,
               opts |-> client[c].opts]
ConnAck(c, k, nr, o) == [type |-> "connAck", client |-> c, port |-> k, seq |-> nr, opts |-> o]
Up(t, c, k, nr)   == [type |-> t, client |-> c, port |-> k, seq |-> nr, dir |-> "up"]
Down(t, c, k, nr) == [type |-> t, client |-> c, port |-> k, seq |-> nr, dir |-> "down"]

NewClient(nr, o) ==
    [dial |-> "idle",      \* the Dial call: idle, waiting, open, or, failed,
                           \* rejected, unmigrated; unopened
     run |-> "off",        \* the run loop: off, running, broken, done
     rx |-> TRUE,          \* the receive loop reads on
     first |-> nr,         \* number of the Conn packet
     next |-> nr,          \* packetNumberGenerator.next
     await |-> {},         \* inflightPackets: numbers awaiting an ack
     tries |-> 0,          \* retransmissions of the packet in flight
     opts |-> o, port |-> 0,
     ack |-> NoNr,         \* the final Ack, waiting in txPrioChan
     read |-> NoNr,        \* sequentialDataReader.nextSeqNr
     data |-> NoNr,        \* number of the first Data packet, once sent
     got |-> FALSE]        \* the server's first message was read

NewConn(c, nr, r) ==
    [st |-> "handshake",   \* handshake, open, refused, unopened, closed
     run |-> "running",    \* the run loop: running, broken
     rx |-> TRUE,          \* the receive loop reads on
     peer |-> c, first |-> nr, next |-> nr, await |-> {}, tries |-> 0,
     read |-> r, data |-> NoNr, got |-> FALSE,
     again |-> FALSE]      \* (history) the final Ack came to the open connection, too

Init == /\ sopts \in Options
        /\ client \in [Clients -> {NewClient(ClientSeq, o) : o \in Options}]
        /\ conn = <<>>
        /\ acc = 0 /\ returned = {} /\ net = {}

-----------------------------------------------------------------------------
(* The client. *)

\* Dial queues the Conn message and starts the run loop, which sends it.
Dial(c) ==
    /\ client[c].dial = "idle"
    /\ client' = [client EXCEPT ![c].dial = "waiting", ![c].run = "running",
                                ![c].next = NextNr(@), ![c].await = {client[c].first}]
    /\ net' = net \cup {ConnMsg(c)}
    /\ UNCHANGED <<conn, acc, returned, sopts>>

\* What the client has in flight: its Conn, or its Data on the migrated port.
InFlight(c) == IF client[c].data = NoNr
                 THEN ConnMsg(c)
                 ELSE Up("data", c, client[c].port, client[c].data)

\* An RTO runs out; past MaxRetransmits run() returns and tears nothing down.
ClientRetransmit(c) ==
    /\ client[c].run = "running" /\ client[c].await # {}
    /\ net' = net \cup {InFlight(c)}
    /\ client' = [client EXCEPT ![c].tries = @ + 1,
                                ![c].run = IF client[c].tries + 1 > MaxRetransmits
                                             THEN "broken" ELSE @]
    /\ UNCHANGED <<conn, acc, returned, sopts>>

\* After run() has returned the receive loop handles at most one message more.
RxStays(c) == client[c].run = "running"

\* Wrong: ConnAcks are accepted on an open connection, too.
BadRecvConnAck(c, m) ==
    /\ m \in net /\ m.type = "connAck" /\ m.client = c
    /\ client[c].rx /\ client[c].dial \in {"waiting", "open"}
    /\ client' = [client EXCEPT ![c].await = {}, ![c].tries = 0,
                                ![c].opts = m.opts, ![c].port = m.port,
                                ![c].ack = m.seq, ![c].read = m.seq,
                                ![c].dial = "open", ![c].rx = RxStays(c)]
    /\ UNCHANGED <<conn, acc, returned, sopts, net>>

\* The answer has an option above the client's own.
Exceeds(c, m) == m.opts.init > client[c].opts.init

\* completeClientHandshake: the client takes over the options, moves to the new
\* port and queues the final Ack; the server's first number is noted.
Migrated(c, m) == [client[c] EXCEPT !.opts = m.opts, !.port = m.port, !.ack = m.seq,
                                    !.await = {}, !.tries = 0, !.read = m.seq,
                                    !.dial = "open", !.rx = RxStays(c)]

\* The new port cannot be dialled: Dial fails.  The old socket is closed, so the
\* receive loop reads nothing more, not even that its deadline passed.
Unmigrated(c, m) == [client[c] EXCEPT !.opts = m.opts, !.await = {},
                                      !.dial = "unmigrated", !.rx = FALSE]

\* The receive loop handles a ConnAck: the Conn packet is acknowledged; options
\* above the client's own make Dial fail, as does a port it cannot move to; else
\* the handshake is completed and Dial returns.  Copies that come later are
\* ignored or no longer reach the socket.
RecvConnAck(c, m) ==
    /\ m \in net /\ m.type = "connAck" /\ m.client = c
    /\ client[c].rx /\ client[c].dial = "waiting"
    /\ \E r \in IF Exceeds(c, m)
                 THEN {[client[c] EXCEPT !.await = {}, !.dial = "rejected", !.rx = RxStays(c)]}
                 ELSE {Migrated(c, m), Unmigrated(c, m)} :
         client' = [client EXCEPT ![c] = r]
    /\ UNCHANGED <<conn, acc, returned, sopts, net>>

\* The run loop sends the final Ack; no packet is kept for a retransmission.
SendFinalAck(c) ==
    /\ client[c].run = "running" /\ client[c].ack # NoNr
    /\ net' = net \cup {Up("ack", c, client[c].port, client[c].ack)}
    /\ client' = [client EXCEPT ![c].ack = NoNr]
    /\ UNCHANGED <<conn, acc, returned, sopts>>

\* The client's application writes, the run loop sends the first Data packet.
ClientData(c) ==
    /\ client[c].dial = "open" /\ client[c].run = "running" /\ client[c].data = NoNr
    /\ net' = net \cup {Up("data", c, client[c].port, client[c].next)}
    /\ client' = [client EXCEPT ![c].data = client[c].next, ![c].next = NextNr(@),
                                ![c].await = {client[c].next}]
    /\ UNCHANGED <<conn, acc, returned, sopts>>

\* The receive loop handles an Ack of the server.
ClientRecvAck(c, m) ==
    /\ m \in net /\ m = Down("ack", c, client[c].port, m.seq)
    /\ client[c].rx /\ client[c].dial = "open"
    /\ client' = [client EXCEPT ![c].await = @ \ {m.seq}, ![c].rx = RxStays(c)]
    /\ UNCHANGED <<conn, acc, returned, sopts, net>>

\* The reader takes the packet of the number it expects, and no other.
Takes(r, nr) == IF nr = r.read THEN [r EXCEPT !.got = TRUE, !.read = NextNr(nr)] ELSE r

\* The receive loop handles Data of the server: it is acknowledged, if there is
\* a run loop to send the ack, and pushed to the reader.
ClientRecvData(c, m) ==
    /\ m \in net /\ m = Down("data", c, client[c].port, m.seq)
    /\ client[c].rx /\ client[c].dial = "open"
    /\ net' = IF client[c].run = "running" THEN net \cup {Up("ack", c, m.port, m.seq)} ELSE net
    /\ client' = [client EXCEPT ![c] = Takes([@ EXCEPT !.rx = RxStays(c)], m.seq)]
    /\ UNCHANGED <<conn, acc, returned, sopts>>

\* Nothing is heard for IdleReadTimeout: the run loop ends and its teardown
\* closes openChan, from which a waiting Dial then reads nil.
ClientTimeout(c) ==
    /\ client[c].run = "running" /\ client[c].rx
    /\ client' = [client EXCEPT ![c].run = "done", ![c].rx = FALSE,
                                ![c].dial = IF @ = "waiting" THEN "unopened" ELSE @]
    /\ UNCHANGED <<conn, acc, returned, sopts, net>>

-----------------------------------------------------------------------------
(* The listener and the connections it creates. *)

\* Wrong: the reader expects the number of the Conn packet itself.
BadRecvConn(m) ==
    /\ acc = 0 /\ Cardinality(DOMAIN conn) < MaxConns
    /\ m \in net /\ m.type = "conn"
    /\ LET k == Cardinality(DOMAIN conn) + 1 IN
       \E nr \in ServerSeqs :
         /\ conn' = [j \in DOMAIN conn \cup {k} |->
                       IF j = k THEN NewConn(m.client, nr, m.seq) ELSE conn[j]]
         /\ net' = net \cup {ConnAck(m.client, k, nr, Merge(m.opts, sopts))}
         /\ acc' = k
    /\ UNCHANGED <<client, returned, sopts>>

\* Accept takes a request: a connection on a new port, its run loop started,
\* a ConnAck (three copies) from the listener's port; then Accept waits.
RecvConn(m) ==
    /\ acc = 0 /\ Cardinality(DOMAIN conn) < MaxConns
    /\ m \in net /\ m.type = "conn"
    /\ LET k == Cardinality(DOMAIN conn) + 1 IN
       \E nr \in ServerSeqs :
         /\ conn' = [j \in DOMAIN conn \cup {k} |->
                       IF j = k THEN NewConn(m.client, nr, NextNr(m.seq)) ELSE conn[j]]
         /\ net' = net \cup {ConnAck(m.client, k, nr, Merge(m.opts, sopts))}
         /\ acc' = k
    /\ UNCHANGED <<client, returned, sopts>>

\* The first Ack opens the connection if it has the server's own number, or
\* makes Accept fail; a later one, be it a copy of the first, is an ack of data.
ServerRecvAck(k, m) ==
    /\ m \in net /\ m = Up("ack", conn[k].peer, k, m.seq)
    /\ conn[k].st \in {"handshake", "open"} /\ conn[k].rx
    /\ IF conn[k].st = "handshake"
         THEN /\ acc' = 0
              /\ IF m.seq = conn[k].next
                   THEN /\ conn' = [conn EXCEPT ![k].st = "open"]
                        /\ returned' = returned \cup {k}
                   ELSE /\ conn' = [conn EXCEPT ![k].st = "refused"]
                        /\ UNCHANGED returned
         ELSE /\ conn' = [conn EXCEPT ![k].await = @ \ {m.seq},
                                       ![k].rx = conn[k].run = "running",
                                       ![k].again = @ \/ m.seq = conn[k].first]
              /\ UNCHANGED <<acc, returned>>
    /\ UNCHANGED <<client, sopts, net>>

\* Wrong: Data is acknowledged before it is known that the connection is open.
BadServerRecvData(k, m) ==
    /\ m \in net /\ m = Up("data", conn[k].peer, k, m.seq)
    /\ conn[k].st \in {"handshake", "open"} /\ conn[k].rx
    /\ net' = IF conn[k].run = "running" THEN net \cup {Down("ack", m.client, k, m.seq)} ELSE net
    /\ conn' = IF conn[k].st = "open" THEN [conn EXCEPT ![k] = Takes(@, m.seq)] ELSE conn
    /\ UNCHANGED <<client, acc, returned, sopts>>

\* Data reaches the server connection; until it is open Data is dropped without
\* an ack, which changes nothing.
ServerRecvData(k, m) ==
    /\ m \in net /\ m = Up("data", conn[k].peer, k, m.seq)
    /\ conn[k].st = "open" /\ conn[k].rx
    /\ net' = IF conn[k].run = "running" THEN net \cup {Down("ack", m.client, k, m.seq)} ELSE net
    /\ conn' = [conn EXCEPT ![k] = Takes([@ EXCEPT !.rx = conn[k].run = "running"], m.seq)]
    /\ UNCHANGED <<client, acc, returned, sopts>>

\* The server's application writes first data; it has the number that the
\* final Ack of the handshake had.
ServerData(k) ==
    /\ conn[k].st = "open" /\ conn[k].run = "running" /\ conn[k].data = NoNr
    /\ net' = net \cup {Down("data", conn[k].peer, k, conn[k].next)}
    /\ conn' = [conn EXCEPT ![k].data = conn[k].next, ![k].next = NextNr(@),
                            ![k].await = {conn[k].next}]
    /\ UNCHANGED <<client, acc, returned, sopts>>

\* An RTO runs out; past MaxRetransmits run() returns, as the client's does.
ServerRetransmit(k) ==
    /\ conn[k].st = "open" /\ conn[k].run = "running" /\ conn[k].await # {}
    /\ net' = net \cup {Down("data", conn[k].peer, k, conn[k].data)}
    /\ conn' = [conn EXCEPT ![k].tries = @ + 1,
                            ![k].run = IF conn[k].tries + 1 > MaxRetransmits
                                         THEN "broken" ELSE @]
    /\ UNCHANGED <<client, acc, returned, sopts>>

\* Wrong: the teardown leaves openChan as it is.
BadServerTimeout(k) ==
    /\ conn[k].st \in {"handshake", "open"} /\ conn[k].run = "running"
    /\ conn' = [conn EXCEPT ![k].st = IF @ = "open" THEN "closed" ELSE "unopened"]
    /\ UNCHANGED <<client, acc, returned, sopts, net>>

\* Nothing is heard for IdleReadTimeout: the connection is torn down.  When it
\* was not yet open, Accept reads nil from the closed openChan and returns it.
ServerTimeout(k) ==
    /\ conn[k].st \in {"handshake", "open"} /\ conn[k].run = "running"
    /\ conn' = [conn EXCEPT ![k].st = IF @ = "open" THEN "closed" ELSE "unopened"]
    /\ IF acc = k THEN acc' = 0 /\ returned' = returned \cup {k}
                  ELSE UNCHANGED <<acc, returned>>
    /\ UNCHANGED <<client, sopts, net>>

-----------------------------------------------------------------------------
ClientNext(c) ==
    \/ Dial(c) \/ ClientRetransmit(c) \/ SendFinalAck(c) \/ ClientData(c) \/ ClientTimeout(c)
    \/ \E m \in net : RecvConnAck(c, m) \/ ClientRecvAck(c, m) \/ ClientRecvData(c, m)

ConnNext(k) ==
    \/ ServerData(k) \/ ServerRetransmit(k) \/ ServerTimeout(k)
    \/ \E m \in net : ServerRecvAck(k, m) \/ ServerRecvData(k, m)

Next == \/ \E c \in Clients : ClientNext(c)
        \/ \E k \in DOMAIN conn : ConnNext(k)
        \/ \E m \in net : RecvConn(m)

\* The read deadline of a connection on which nothing happens passes.
Fairness == \A k \in Ports : WF_vars(k \in DOMAIN conn /\ ServerTimeout(k))

Spec == Init /\ [][Next]_vars /\ Fairness

-----------------------------------------------------------------------------
(* Properties. *)

ClientTypeOK(r) ==
    /\ r.dial \in {"idle", "waiting", "open", "rejected", "unmigrated", "unopened"}
    /\ r.run \in {"off", "running", "broken", "done"} /\ r.rx \in BOOLEAN
    /\ {r.first, r.next} \cup r.await \subseteq SeqNrs
    /\ {r.ack, r.read, r.data} \subseteq SeqNrs \cup {NoNr}
    /\ r.tries \in 0 .. MaxRetransmits + 1 /\ r.opts \in Options
    /\ r.port \in {0} \cup Ports /\ r.got \in BOOLEAN

ConnTypeOK(r) ==
    /\ r.st \in {"handshake", "open", "refused", "unopened", "closed"}
    /\ r.run \in {"running", "broken"} /\ {r.rx, r.got, r.again} \subseteq BOOLEAN
    /\ r.peer \in Clients /\ {r.first, r.next, r.read} \cup r.await \subseteq SeqNrs
    /\ r.data \in SeqNrs \cup {NoNr} /\ r.tries \in 0 .. MaxRetransmits + 1

\* Every variable keeps its type.
TypeOK == /\ \A c \in Clients : ClientTypeOK(client[c])
          /\ \A k \in DOMAIN conn : ConnTypeOK(conn[k])
          /\ DOMAIN conn \subseteq Ports /\ returned \subseteq DOMAIN conn
          /\ acc \in {0} \cup DOMAIN conn

\* An open server connection belongs to a client that opened on its port: no
\* retransmitted request or late ConnAck pairs a client with two connections
\* (onMessage's isConnOpen test, doServerHandshake).
OpenPaired == \A k \in DOMAIN conn : conn[k].st = "open" =>
                  /\ client[conn[k].peer].dial = "open"
                  /\ client[conn[k].peer].port = k

\* The two ends of a connection agree on the number of the first packet in
\* either direction, whichever of several answers the client took.
SeqAgree == \A k \in DOMAIN conn : LET c == client[conn[k].peer] IN
                c.port = k =>
                    /\ c.data = NoNr => conn[k].read = c.next
                    /\ conn[k].data = NoNr => c.read = conn[k].next

\* A client opens with options neither side exceeds, and is never turned away
\* by its own check of the answer (completeClientHandshake).
Negotiated == \A c \in Clients :
                  /\ client[c].dial # "rejected"
                  /\ client[c].dial = "open" => /\ client[c].opts.init <= sopts.init
                                                /\ client[c].opts.size <= sopts.size

\* The first packet in either direction leaves inflightPackets only when the other
\* end has it (processAck), copies of datagrams and all; save that of a server that
\* got the final Ack, which has the same number, once more when it was open.
FirstDataAcked ==
    \A k \in DOMAIN conn : LET c == client[conn[k].peer] IN
        /\ conn[k].data # NoNr /\ conn[k].await = {} => c.got \/ conn[k].again
        /\ c.port = k /\ c.data # NoNr /\ c.await = {} => conn[k].got

\* Accept does not wait for ever for one client while others wait for it.
AcceptReturns == \A k \in Ports : acc = k ~> acc # k

\* "nil = success" (conn.go openChan): what Accept and Dial return without an
\* error has been open.
ReturnedOpen == /\ \A k \in returned : conn[k].st # "unopened"
                /\ \A c \in Clients : client[c].dial # "unopened"
=============================================================================
