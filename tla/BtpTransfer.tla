---------------------------- MODULE BtpTransfer ----------------------------
(***************************************************************************)
(* One direction of an open BTP connection: the application's Write, the   *)
(* sender's run loop (transmit, retransmit), its receive loop (acks), a    *)
(* network that loses, reorders and duplicates, and at the other end the   *)
(* receive loop, the run loop that sends acks, the goroutines that Push    *)
(* data to the reader, and the sequentialDataReader behind Read.           *)
(*                                                                         *)
(* Message m is the m-th payload given to Write.  The goroutines run       *)
(* interleaved; an action is what one of them does between two points at   *)
(* which it can block.                                                     *)
(***************************************************************************)
EXTENDS Integers, Sequences, FiniteSets, CongestionControl

CONSTANTS
    NumMsgs,         \* messages the application writes (bound)
    MaxCwnd,         \* Options.MaxCwndSize: capacity of txChan and txPrioChan
    ChanCap,         \* capacity of dataChan (100 in the code)
    BufCap,          \* slots of the reorder buffer (50 in the code)
    SeqMod,          \* 2^16 in the code: packet numbers are uint16
    InitSeq,         \* the random initial packet number
    InitCwnd,        \* Options.InitCwndSize (1 by default)
    MaxRetransmits,  \* Options.MaxRetransmits (20 by default)
    MaxWriteErrors,  \* how often writing to the UDP socket may fail (bound)
    NetDup           \* whether the network may duplicate datagrams

ASSUME NumMsgsAssumption == NumMsgs \in Nat
ASSUME CapAssumption == /\ MaxCwnd \in Nat \ {0} /\ ChanCap \in Nat \ {0}
                        /\ BufCap \in Nat \ {0}
ASSUME SeqAssumption == SeqMod \in Nat \ {0} /\ InitSeq \in 0 .. SeqMod - 1
ASSUME CwndAssumption == InitCwnd \in Nat /\ MaxRetransmits \in Nat
ASSUME NetAssumption == MaxWriteErrors \in Nat /\ NetDup \in BOOLEAN

VARIABLES
    written,    \* sender: messages handed to Write
    txChan,     \* sender: queue from Write to the run loop
    nextSeq,    \* sender: packetNumberGenerator.next
    inflight,   \* sender: inflightPackets, packet number -> packet
    cwnd,       \* sender: the congestion window
    pipe,       \* sender: messages congestion control counts as on the wire
    run,        \* sender: "running", or "broken" once run() has returned
    rx,         \* sender: its receive loop, "receiving" or "stopped"
    writeErrs,  \* sender: socket writes that have failed
    dataNet,    \* data packets in the network
    ackNet,     \* acknowledged packet numbers in the network
    txPrio,     \* receiver: txPrioChan, the acks waiting for its run loop
    pushing,    \* receiver: packets in goroutines blocked in, or yet to Push
    dataChan,   \* receiver: queue from the Push goroutines to Next
    buf,        \* receiver: the reorder buffer of sequentialDataReader
    rNext,      \* receiver: sequentialDataReader.nextSeqNr
    inLoop,     \* receiver: Next has stored a packet and waits for another
    delivered   \* receiver: the messages Next has returned

sender   == <<written, txChan, nextSeq, inflight, cwnd, pipe, run, rx, writeErrs>>
receiver == <<txPrio, pushing, dataChan, buf, rNext, inLoop, delivered>>
vars     == <<sender, dataNet, ackNet, receiver>>

-----------------------------------------------------------------------------
SeqNrs  == 0 .. SeqMod - 1
Msgs    == 1 .. NumMsgs
Packets == [seq : SeqNrs, msg : Msgs]
Slots   == 0 .. BufCap - 1
Empty   == [seq |-> 0, msg |-> 0]      \* a nil slot

(* Operators named Bad... are variants with a plausible mistake; no behaviour
   uses them.  Each shows that a property below can fail.                    *)

\* Wrong: the packet number does not wrap.
BadNextNr(s) == s + 1

\* PacketNumber is a uint16: adding one wraps around.
NextNr(s) == (s + 1) % SeqMod

\* Wrong: one slot is never used.
BadSlot(s) == s % (BufCap - 1)

\* The slot of the reorder buffer that a packet number is kept in.
Slot(s) == s % BufCap

\* What a network holds after handing out p: a duplicating one may keep it.
After(net, p) == IF NetDup THEN {net, net \ {p}} ELSE {net \ {p}}

Without(f, s) == [x \in DOMAIN f \ {s} |-> f[x]]
With(f, s, v) == [x \in DOMAIN f \cup {s} |-> IF x = s THEN v ELSE f[x]]

Init ==
    /\ written = 0 /\ txChan = <<>> /\ nextSeq = InitSeq
    /\ inflight = [s \in {} |-> <<>>]
    /\ cwnd = InitCwnd /\ pipe = 0
    /\ run = "running" /\ rx = "receiving" /\ writeErrs = 0
    /\ dataNet = {} /\ ackNet = {}
    /\ txPrio = <<>> /\ pushing = {} /\ dataChan = <<>>
    /\ buf = [i \in Slots |-> Empty]
    /\ rNext = InitSeq /\ inLoop = FALSE /\ delivered = <<>>

-----------------------------------------------------------------------------
(* The sender. *)

\* The application hands over the next payload; Write blocks on a full txChan.
Write ==
    /\ written < NumMsgs
    /\ Len(txChan) < MaxCwnd
    /\ written' = written + 1
    /\ txChan' = Append(txChan, written + 1)
    /\ UNCHANGED <<nextSeq, inflight, cwnd, pipe, run, rx, writeErrs,
                   dataNet, ackNet, receiver>>

\* What transmit does before it writes to the socket: the packet is put in
\* flight and counted by congestion control.
Register ==
    /\ run = "running"
    /\ NumFreeSend(cwnd, pipe) > 0
    /\ txChan # <<>>
    /\ txChan' = Tail(txChan)
    /\ inflight' = With(inflight, nextSeq, [msg |-> Head(txChan), retransmits |-> 0])
    /\ pipe' = pipe + 1

\* The run loop takes a message off txChan and sends it.
Transmit ==
    /\ Register
    /\ dataNet' = dataNet \cup {[seq |-> nextSeq, msg |-> Head(txChan)]}
    /\ nextSeq' = NextNr(nextSeq)
    /\ UNCHANGED <<written, cwnd, run, rx, writeErrs, ackNet, receiver>>

\* Wrong: SentMessages is called only after the write, and so not called here.
BadTransmitFails ==
    /\ writeErrs < MaxWriteErrors
    /\ run = "running" /\ NumFreeSend(cwnd, pipe) > 0 /\ txChan # <<>>
    /\ txChan' = Tail(txChan)
    /\ inflight' = With(inflight, nextSeq, [msg |-> Head(txChan), retransmits |-> 0])
    /\ writeErrs' = writeErrs + 1
    /\ UNCHANGED <<written, nextSeq, cwnd, pipe, run, rx, dataNet, ackNet, receiver>>

\* The socket refuses the write: the packet number is not used up, but the
\* packet stays in flight and counted, and the message has left txChan.
TransmitFails ==
    /\ writeErrs < MaxWriteErrors
    /\ Register
    /\ writeErrs' = writeErrs + 1
    /\ UNCHANGED <<written, nextSeq, cwnd, run, rx, dataNet, ackNet, receiver>>

\* The timer of packet s ran out: shrink the window, send the packet again and
\* give the connection up once it was sent too often.
Retransmit(s) ==
    /\ run = "running"
    /\ s \in DOMAIN inflight
    /\ cwnd' = Decreased(cwnd)
    /\ dataNet' = dataNet \cup {[seq |-> s, msg |-> inflight[s].msg]}
    /\ inflight' = With(inflight, s, [msg |-> inflight[s].msg,
                                      retransmits |-> inflight[s].retransmits + 1])
    /\ run' = IF inflight[s].retransmits + 1 > MaxRetransmits THEN "broken" ELSE run
    /\ UNCHANGED <<written, txChan, nextSeq, pipe, rx, writeErrs, ackNet, receiver>>

\* The receive loop stops when it next looks at the context run() cancelled:
\* a message it was blocked on when run() returned is still handled.
RxAfterMessage == IF run = "broken" THEN "stopped" ELSE rx

\* Wrong: a duplicate ack frees a place in the pipe, too.
BadRecvAck(s) ==
    /\ rx = "receiving"
    /\ s \in ackNet
    /\ ackNet' \in After(ackNet, s)
    /\ inflight' = Without(inflight, s)
    /\ pipe' = AfterAcks(pipe, 1)
    /\ cwnd' = IF s \in DOMAIN inflight THEN cwnd ELSE Decreased(cwnd)
    /\ rx' = RxAfterMessage
    /\ UNCHANGED <<written, txChan, nextSeq, run, writeErrs, dataNet, receiver>>

\* The receive loop handles an ack.
RecvAck(s) ==
    /\ rx = "receiving"
    /\ s \in ackNet
    /\ ackNet' \in After(ackNet, s)
    /\ IF s \in DOMAIN inflight
         THEN /\ inflight' = Without(inflight, s)
              /\ pipe' = AfterAcks(pipe, 1)
              /\ cwnd' = cwnd
         ELSE /\ cwnd' = Decreased(cwnd)
              /\ UNCHANGED <<inflight, pipe>>
    /\ rx' = RxAfterMessage
    /\ UNCHANGED <<written, txChan, nextSeq, run, writeErrs, dataNet, receiver>>

-----------------------------------------------------------------------------
(* The network. *)

LoseData(p) == /\ p \in dataNet
               /\ dataNet' = dataNet \ {p}
               /\ UNCHANGED <<sender, ackNet, receiver>>

LoseAck(s) == /\ s \in ackNet
              /\ ackNet' = ackNet \ {s}
              /\ UNCHANGED <<sender, dataNet, receiver>>

-----------------------------------------------------------------------------
(* The receiver. *)

\* Wrong: the packet is dropped when dataChan is full, but acknowledged.
BadRecvData(p) ==
    /\ p \in dataNet
    /\ p \notin pushing
    /\ Len(txPrio) < MaxCwnd
    /\ dataNet' \in After(dataNet, p)
    /\ txPrio' = Append(txPrio, p.seq)
    /\ pushing' = IF Len(dataChan) < ChanCap THEN pushing \cup {p} ELSE pushing
    /\ UNCHANGED <<sender, ackNet, dataChan, buf, rNext, inLoop, delivered>>

\* The receive loop queues the ack, then starts a goroutine that pushes the
\* packet.  Bound: one goroutine at a time per packet.
RecvData(p) ==
    /\ p \in dataNet
    /\ p \notin pushing
    /\ Len(txPrio) < MaxCwnd
    /\ dataNet' \in After(dataNet, p)
    /\ txPrio' = Append(txPrio, p.seq)
    /\ pushing' = pushing \cup {p}
    /\ UNCHANGED <<sender, ackNet, dataChan, buf, rNext, inLoop, delivered>>

\* The receiver's run loop sends the oldest waiting ack.
TransmitAck ==
    /\ txPrio # <<>>
    /\ txPrio' = Tail(txPrio)
    /\ ackNet' = ackNet \cup {Head(txPrio)}
    /\ UNCHANGED <<sender, dataNet, pushing, dataChan, buf, rNext, inLoop, delivered>>

\* A goroutine gets its packet into dataChan.
Push(p) ==
    /\ p \in pushing
    /\ Len(dataChan) < ChanCap
    /\ dataChan' = Append(dataChan, p)
    /\ pushing' = pushing \ {p}
    /\ UNCHANGED <<sender, dataNet, ackNet, txPrio, buf, rNext, inLoop, delivered>>

\* Next returns m and expects the packet number after the one it expected.
Return(m) == /\ delivered' = Append(delivered, m)
             /\ rNext' = NextNr(rNext)
             /\ inLoop' = FALSE

\* Next is called and finds something in the slot of the expected number.
NextBuffered ==
    /\ ~inLoop
    /\ buf[Slot(rNext)] # Empty
    /\ Return(buf[Slot(rNext)].msg)
    /\ buf' = [buf EXCEPT ![Slot(rNext)] = Empty]
    /\ UNCHANGED <<sender, dataNet, ackNet, txPrio, pushing, dataChan>>

\* Next finds the slot empty, or is past that test, and takes a packet off
\* dataChan: it returns the expected one and stores any other.
NextFromChan ==
    /\ inLoop \/ buf[Slot(rNext)] = Empty
    /\ dataChan # <<>>
    /\ dataChan' = Tail(dataChan)
    /\ LET p == Head(dataChan) IN
         IF p.seq = rNext
           THEN Return(p.msg) /\ UNCHANGED buf
           ELSE /\ buf' = [buf EXCEPT ![Slot(p.seq)] = p]
                /\ inLoop' = TRUE
                /\ UNCHANGED <<rNext, delivered>>
    /\ UNCHANGED <<sender, dataNet, ackNet, txPrio, pushing>>

-----------------------------------------------------------------------------
Next ==
    \/ Write \/ Transmit \/ TransmitFails
    \/ \E s \in SeqNrs : Retransmit(s) \/ RecvAck(s) \/ LoseAck(s)
    \/ \E p \in Packets : LoseData(p) \/ RecvData(p) \/ Push(p)
    \/ TransmitAck \/ NextBuffered \/ NextFromChan

Spec == Init /\ [][Next]_vars

\* Every goroutine is scheduled: the writing and the reading application, the
\* two run loops (an RTO that nothing stops runs out), the sender's receive
\* loop, the goroutines in Push.  Nothing is assumed of the network, nor of the
\* loop that receives data.
Fairness ==
    /\ WF_vars(Write) /\ WF_vars(Transmit) /\ WF_vars(TransmitAck)
    /\ WF_vars(\E s \in SeqNrs : Retransmit(s))
    /\ WF_vars(\E s \in SeqNrs : RecvAck(s))
    /\ WF_vars(\E p \in Packets : Push(p))
    /\ WF_vars(NextBuffered \/ NextFromChan)

FairSpec == Spec /\ Fairness

-----------------------------------------------------------------------------
(* Properties. *)

\* The packet number that message m is sent with when no write fails.
SeqOf(m) == (InitSeq + m - 1) % SeqMod

\* Messages the run loop has taken off txChan.
Sent == written - Len(txChan)

\* The receiver has message m: it is returned, stored, queued or being pushed.
Held(m) == \/ m <= Len(delivered)
           \/ \E p \in pushing : p.msg = m
           \/ \E i \in DOMAIN dataChan : dataChan[i].msg = m
           \/ \E i \in Slots : buf[i].msg = m

\* A packet awaiting its ack.
InflightPackets == [msg : Msgs, retransmits : 0 .. MaxRetransmits + 1]

QueueTypeOK ==
    /\ written \in 0 .. NumMsgs
    /\ txChan \in Seq(Msgs) /\ Len(txChan) <= MaxCwnd
    /\ nextSeq \in SeqNrs

ControlTypeOK ==
    /\ DOMAIN inflight \subseteq SeqNrs
    /\ inflight \in [DOMAIN inflight -> InflightPackets]
    /\ cwnd \in 0 .. InitCwnd /\ pipe \in Nat
    /\ run \in {"running", "broken"} /\ rx \in {"receiving", "stopped"}
    /\ writeErrs \in 0 .. MaxWriteErrors

NetTypeOK ==
    /\ dataNet \subseteq Packets /\ ackNet \subseteq SeqNrs
    /\ txPrio \in Seq(SeqNrs) /\ Len(txPrio) <= MaxCwnd

ReaderTypeOK ==
    /\ pushing \subseteq Packets
    /\ dataChan \in Seq(Packets) /\ Len(dataChan) <= ChanCap
    /\ buf \in [Slots -> Packets \cup {Empty}]
    /\ rNext \in SeqNrs /\ inLoop \in BOOLEAN /\ delivered \in Seq(Msgs)

\* Every variable keeps its type.
TypeOK == QueueTypeOK /\ ControlTypeOK /\ NetTypeOK /\ ReaderTypeOK

\* No two of the packet numbers in use, nor the one the reader would expect
\* after the last of them, share a slot of the reorder buffer.
SlotsDistinct ==
    \A m, n \in 1 .. NumMsgs + 1 : Slot(SeqOf(m)) = Slot(SeqOf(n)) => m = n

\* The reader is handed message 1, 2, 3, ...: nothing is skipped, repeated or
\* taken for another message (conn.go Read, data_reader.go Next).
InOrder == \A i \in DOMAIN delivered : delivered[i] = i

\* A message that left txChan and is no longer in flight, so that nobody will
\* send it again, has reached the receiver and is still there: the ack sent
\* before Push (conn.go onMessage) never stands for a lost message.
AckedIsHeld == \A m \in 1 .. Sent :
                   Held(m) \/ \E s \in DOMAIN inflight : inflight[s].msg = m

\* Congestion control counts at least the packets awaiting an ack, so the pipe
\* can never let more than a window of them out.
PipeCovers == pipe >= Cardinality(DOMAIN inflight)

\* When writes succeed it counts exactly these: the window does not leak away.
PipeExact == writeErrs = 0 => pipe = Cardinality(DOMAIN inflight)

\* However acks, timers and write errors interleave, no more packets than the
\* initial window are ever on the wire at once.
WindowKept == pipe <= InitCwnd

\* The window is never rounded down to nothing, however often it is cut.  (It may
\* still leave no room: a packet whose write failed is counted for good.)
WindowOpen == InitCwnd > 0 => cwnd > 0

\* Every message is delivered unless the connection is given up.
EventuallyDelivered == <>(run = "broken" \/ Len(delivered) = NumMsgs)

\* One direction of a connection is a reliable ordered message stream.
Stream == INSTANCE MsgStream
StreamSpec == Stream!Spec
=============================================================================
