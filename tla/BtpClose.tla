------------------------------ MODULE BtpClose ------------------------------
(***************************************************************************)
(* Ending an open BTP connection: on each of the two sides the             *)
(* application (Write, Close), the run loop with its grace period and its  *)
(* teardown, the receive loop, and the goroutines that push received data  *)
(* to the reader, which meet at closeChan and at the channels the teardown *)
(* closes.  A send on a closed channel panics and ends the whole process.  *)
(*                                                                         *)
(* Packet numbers start at 1 on both sides and do not wrap, the congestion *)
(* window is constant and writes to the socket succeed: BtpTransfer models *)
(* what depends on those.  Timers may run out whenever they run.  A packet *)
(* the network loses is one that stays in net.                             *)
(***************************************************************************)
EXTENDS Naturals, Sequences, FiniteSets, Functions

CONSTANTS
    Writers,         \* the sides whose application may write
    Closers,         \* the sides whose application may call Close
    MaxWrites,       \* packets a writer writes (bound)
    Cwnd,            \* congestion window
    MaxRetransmits,  \* Options.MaxRetransmits
    IdleTimeouts     \* may the read deadline pass while a receive loop reads?

Sides == {1, 2}

ASSUME SidesAssumption == Writers \subseteq Sides /\ Closers \subseteq Sides
ASSUME LimitsAssumption == Cwnd \in Nat \ {0} /\ {MaxWrites, MaxRetransmits} \subseteq Nat
ASSUME FailuresAssumption == IdleTimeouts \in BOOLEAN

VARIABLES side, net

vars == <<side, net>>

-----------------------------------------------------------------------------
Peer(s)   == 3 - s
Nrs       == 1 .. MaxWrites + 1  \* numbers of a side's packets, the Close included
Up(s)     == side[s].run = "running"
Unacked(s) == DOMAIN side[s].tries

\* A packet on its way to side to.
Packet(type, to, nr) == [type |-> type, to |-> to, nr |-> nr]

Init ==
    /\ side = [s \in Sides |->
         [run |-> "running",    \* running, broken, torn (down), crashed
          pc |-> "select",      \* where the run loop is
          term |-> FALSE,       \* shouldTerminate
          timer |-> "off",      \* terminationChannel: off, armed, fired
          app |-> "idle",       \* Close: idle, waiting (at closeChan), closed, failed
          rx |-> "reading",     \* receive loop: reading, waiting (at closeChan), stopped
          heard |-> FALSE,      \* the receive loop got the peer's Close
          written |-> 0,        \* packets written by the application
          txChan |-> 0,         \* how many of them are still queued
          txPrioChan |-> <<>>,  \* numbers to acknowledge
          next |-> 1,           \* packetNumberGenerator.next
          tries |-> <<>>,       \* retransmissions of each packet in inflightPackets
          closeNr |-> 0,        \* number of the Close packet, once sent
          pushing |-> {},       \* received Data whose Push has not run yet
          got |-> {}]]          \* numbers of the Data in the reader
    /\ net = {}

\* transmit of a packet that is to be acknowledged.
Transmitted(s) == [side[s] EXCEPT !.next = @ + 1,
                                  !.tries = [n \in DOMAIN @ \cup {side[s].next} |->
                                               IF n \in DOMAIN @ THEN @[n] ELSE 0]]

Crash(s) == side' = [side EXCEPT ![s].run = "crashed"]

-----------------------------------------------------------------------------
(* The application. *)

\* Write queues a packet; after the teardown txChan is closed.
Write(s) ==
    /\ s \in Writers /\ side[s].app = "idle" /\ side[s].run # "crashed"
    /\ side[s].written < MaxWrites
    /\ IF side[s].run = "torn"
         THEN Crash(s)
         ELSE side' = [side EXCEPT ![s].written = @ + 1, ![s].txChan = @ + 1]
    /\ UNCHANGED net

\* Close transmits the Close packet itself, past the queue, and then waits at
\* closeChan; on a closed socket it fails.
Close(s) ==
    /\ s \in Closers /\ side[s].app = "idle" /\ side[s].run # "crashed"
    /\ IF side[s].run = "torn"
         THEN side' = [side EXCEPT ![s].app = "failed"] /\ UNCHANGED net
         ELSE LET nr == side[s].next IN
              /\ side' = [side EXCEPT ![s] =
                            [Transmitted(s) EXCEPT !.app = "waiting", !.closeNr = nr]]
              /\ net' = net \cup {Packet("close", Peer(s), nr)}

-----------------------------------------------------------------------------
(* The run loop: select, check whether to stop, send, and again. *)

\* A waiting sender at closeChan is released; the grace period starts anew.
TakeClose(s) ==
    /\ \/ side[s].app = "waiting" /\ side' = [side EXCEPT ![s].app = "closed", ![s].pc = "check",
                                        ![s].term = TRUE, ![s].timer = "armed"]
       \/ side[s].rx = "waiting" /\ side' = [side EXCEPT ![s].rx = "reading", ![s].pc = "check",
                                        ![s].term = TRUE, ![s].timer = "armed"]
    /\ UNCHANGED net

SendPrio(s) ==
    /\ side[s].txPrioChan # <<>>
    /\ side' = [side EXCEPT ![s].txPrioChan = Tail(@), ![s].pc = "check"]
    /\ net' = net \cup {Packet("ack", Peer(s), Head(side[s].txPrioChan))}

NothingReady(s) ==
    /\ side[s].app # "waiting" /\ side[s].rx # "waiting" /\ side[s].txPrioChan = <<>>
    /\ side' = [side EXCEPT ![s].pc = "check"]
    /\ UNCHANGED net

\* The first select of an iteration.
RunSelect(s) == /\ Up(s) /\ side[s].pc = "select"
                /\ TakeClose(s) \/ SendPrio(s) \/ NothingReady(s)

\* Wrong: acks that are still queued do not keep the loop running.
BadMayStop(s) == side[s].timer = "fired" \/ side[s].txChan = 0

\* Wrong: the grace period never ends.
BadGrace(s) == side[s].txPrioChan = <<>> /\ side[s].txChan = 0

\* The grace period is over, or nothing is left to send.
MayStop(s) == \/ side[s].timer = "fired"
              \/ side[s].txPrioChan = <<>> /\ side[s].txChan = 0

\* Wrong: a packet is retransmitted once too often.
BadTooMany(n) == n > MaxRetransmits + 1

\* "connection broken: too many retransmitts"
TooMany(n) == n > MaxRetransmits

\* One Data packet is sent when the window has room.
SendData(s) == IF side[s].txChan > 0 /\ Cardinality(Unacked(s)) < Cwnd
                 THEN [Transmitted(s) EXCEPT !.txChan = @ - 1, !.pc = "select"]
                 ELSE [side[s] EXCEPT !.pc = "select"]

SentPackets(s, after) ==
    {Packet("data", Peer(s), nr) : nr \in side[s].next .. after.next - 1}

\* The end of an iteration that goes on: Data, then proccessRetransmission with
\* no timeout or one packet's; when that one was sent too often, run() returns
\* and tears nothing down.
RunSend(s) ==
    /\ Up(s) /\ side[s].pc = "check" /\ ~ (side[s].term /\ MayStop(s))
    /\ LET after == SendData(s) IN
       \/ side' = [side EXCEPT ![s] = after] /\ net' = net \cup SentPackets(s, after)
       \/ \E nr \in Unacked(s) :
            /\ net' = net \cup SentPackets(s, after) \cup
                        {Packet(IF nr = side[s].closeNr THEN "close" ELSE "data", Peer(s), nr)}
            /\ side' = [side EXCEPT ![s] = [after EXCEPT !.tries[nr] = @ + 1,
                            !.run = IF TooMany(after.tries[nr] + 1) THEN "broken" ELSE @]]

\* The test for termination breaks the loop.
RunStop(s) ==
    /\ Up(s) /\ side[s].pc = "check" /\ side[s].term /\ MayStop(s)
    /\ side' = [side EXCEPT ![s].pc = "teardown"]
    /\ UNCHANGED net

\* teardown closes the socket and the channels dataChan, openChan, closeChan
\* and txChan; whoever waits to send on closeChan panics.
RunTeardown(s) ==
    /\ Up(s) /\ side[s].pc = "teardown"
    /\ IF side[s].app = "waiting" \/ side[s].rx = "waiting"
         THEN Crash(s)
         ELSE side' = [side EXCEPT ![s].run = "torn", ![s].rx = "stopped"]
    /\ UNCHANGED net

\* The five seconds of the grace period pass.
TimerFires(s) == /\ Up(s) /\ side[s].timer = "armed"
                 /\ side' = [side EXCEPT ![s].timer = "fired"]
                 /\ UNCHANGED net

-----------------------------------------------------------------------------
(* The receive loop and the goroutines it starts. *)

Arrives(s, m, type) == m \in net /\ m.to = s /\ m.type = type /\ side[s].rx = "reading"

\* After run() has returned without a teardown the loop handles at most the
\* message it is waiting for.
NextRx(s) == IF Up(s) THEN "reading" ELSE "stopped"

\* onMessage, Data: the ack is queued first, Push gets a goroutine of its own.
RecvData(s, m) ==
    /\ Arrives(s, m, "data") /\ side[s].run \in {"running", "broken"}
    /\ net' = net \ {m}
    /\ side' = [side EXCEPT ![s].txPrioChan = Append(@, m.nr),
                            ![s].pushing = @ \cup {m.nr}, ![s].rx = NextRx(s)]

\* Wrong: acks are cumulative.
BadRecvAck(s, m) ==
    /\ Arrives(s, m, "ack") /\ side[s].run \in {"running", "broken"}
    /\ net' = net \ {m}
    /\ side' = [side EXCEPT ![s].tries = Restrict(@, {n \in DOMAIN @ : n > m.nr}),
                            ![s].rx = NextRx(s)]

\* processAck.
RecvAck(s, m) ==
    /\ Arrives(s, m, "ack") /\ side[s].run \in {"running", "broken"}
    /\ net' = net \ {m}
    /\ side' = [side EXCEPT ![s].tries = Restrict(@, DOMAIN @ \ {m.nr}), ![s].rx = NextRx(s)]

\* Wrong: a Close packet is acknowledged but does not reach the run loop.
BadRecvClose(s, m) ==
    /\ Arrives(s, m, "close") /\ side[s].run \in {"running", "broken"}
    /\ net' = net \ {m}
    /\ side' = [side EXCEPT ![s].txPrioChan = Append(@, m.nr),
                            ![s].heard = TRUE, ![s].rx = NextRx(s)]

\* onMessage, Close: the ack is queued, then the loop waits at closeChan.
RecvClose(s, m) ==
    /\ Arrives(s, m, "close") /\ side[s].run \in {"running", "broken"}
    /\ net' = net \ {m}
    /\ side' = [side EXCEPT ![s].txPrioChan = Append(@, m.nr),
                            ![s].heard = TRUE, ![s].rx = "waiting"]

\* The read deadline passes: the error is sent on closeChan.  The deadline (two
\* minutes, 20 s with open streams) is never over within the grace period.
IdleTimeout(s) ==
    /\ IdleTimeouts /\ Up(s) /\ side[s].rx = "reading" /\ ~ side[s].term
    /\ side' = [side EXCEPT ![s].rx = "waiting"]
    /\ UNCHANGED net

\* sequentialDataReader.Push on dataChan, which the teardown closes.
Push(s, nr) ==
    /\ nr \in side[s].pushing /\ side[s].run # "crashed"
    /\ IF side[s].run = "torn"
         THEN Crash(s)
         ELSE side' = [side EXCEPT ![s].pushing = @ \ {nr}, ![s].got = @ \cup {nr}]
    /\ UNCHANGED net

-----------------------------------------------------------------------------
RunStep(s) == RunSelect(s) \/ RunSend(s) \/ RunStop(s) \/ RunTeardown(s)

Next ==
    \E s \in Sides :
      \/ Write(s) \/ Close(s) \/ RunStep(s) \/ TimerFires(s) \/ IdleTimeout(s)
      \/ \E m \in net : RecvData(s, m) \/ RecvAck(s, m) \/ RecvClose(s, m)
      \/ \E nr \in side[s].pushing : Push(s, nr)

\* The run loop's goroutine is scheduled, and time passes.
Fairness == \A s \in Sides : WF_vars(RunStep(s)) /\ WF_vars(TimerFires(s))

Spec == Init /\ [][Next]_vars

FairSpec == Spec /\ Fairness

-----------------------------------------------------------------------------
(* Properties. *)

\* Every variable keeps its type, the retransmissions their limit.
TypeOK == /\ \A s \in Sides :
               /\ side[s].run \in {"running", "broken", "torn", "crashed"}
               /\ side[s].pc \in {"select", "check", "teardown"}
               /\ side[s].timer \in {"off", "armed", "fired"}
               /\ side[s].app \in {"idle", "waiting", "closed", "failed"}
               /\ side[s].rx \in {"reading", "waiting", "stopped"}
               /\ side[s].written \in 0 .. MaxWrites
               /\ side[s].txChan \in 0 .. side[s].written
               /\ side[s].next \in 1 .. MaxWrites + 2
               /\ Unacked(s) \subseteq Nrs
               /\ \A nr \in Unacked(s) : side[s].tries[nr] \in 0 .. MaxRetransmits + 1
               /\ side[s].pushing \cup side[s].got \subseteq Nrs
               /\ {side[s].txPrioChan[i] : i \in DOMAIN side[s].txPrioChan} \subseteq Nrs
          /\ \A m \in net : /\ m.to \in Sides /\ m.type \in {"data", "ack", "close"}
                            /\ m.nr \in Nrs

\* A side that ends because of the peer's Close alone, before the grace period
\* is over, has answered it: the ack cannot be overtaken by the teardown
\* (onMessage queues it before it signals closeChan, run tests both queues).
CloseAnswered == \A s \in Sides :
    side[s].run = "torn" /\ side[s].heard /\ side[s].app = "idle" /\ side[s].timer # "fired"
        => \A i \in DOMAIN side[s].txPrioChan :
               side[s].txPrioChan[i] # side[Peer(s)].closeNr

\* Only what its peer received leaves inflightPackets, whoever ends first:
\* Data is then with the reader or a Push, a Close was heard.
AckedWasHeard == \A s \in Sides : \A nr \in 1 .. side[s].next - 1 :
    nr \notin Unacked(s) =>
        IF nr = side[s].closeNr THEN side[Peer(s)].heard
                                ELSE nr \in side[Peer(s)].got \cup side[Peer(s)].pushing

Ended(s) == side[s].run \in {"broken", "torn", "crashed"}

\* A side that calls Close ends: the grace period runs out although acks never
\* come, the window stays full and the queue never empties.
CloseEnds == \A s \in Sides : side[s].app = "waiting" ~> Ended(s)

\* A peer that hears a Close ends its own run loop.
HeardEnds == \A s \in Sides : side[s].heard ~> Ended(s)

\* "leave some time to transmit remaining data before closing connection"
\* (run): when both sides ended within the grace period and all packets arrived,
\* what was written before a Close can be read.
ClosedMeansRead ==
    (\A s \in Sides : side[s].run = "torn" /\ side[s].timer # "fired") /\ net = {} =>
        \A s \in Sides : side[s].closeNr # 0 =>
            1 .. side[s].written \subseteq side[Peer(s)].got \cup side[Peer(s)].pushing
=============================================================================
