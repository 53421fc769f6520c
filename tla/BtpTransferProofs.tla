------------------------- MODULE BtpTransferProofs -------------------------
(***************************************************************************)
(* What holds of BtpTransfer for every number of messages, every capacity, *)
(* window and packet number space, with machine-checked proofs.            *)
(***************************************************************************)
EXTENDS BtpTransfer, ModuloLemmas, FiniteSetTheorems, TLAPS

-----------------------------------------------------------------------------
(* Helpers. *)

\* The arithmetic of congestion control stays within the window.
LEMMA DecreasedType ==
    ASSUME NEW c \in 0 .. InitCwnd
    PROVE  Decreased(c) \in 0 .. InitCwnd
  BY CwndAssumption, SMT DEF Decreased

LEMMA NextNrType ==
    ASSUME NEW s \in SeqNrs
    PROVE  NextNr(s) \in SeqNrs
<1>1. s + 1 \in Nat
  BY SeqAssumption DEF SeqNrs
<1> QED
  BY <1>1, SeqAssumption, DivMod DEF SeqNrs, NextNr

LEMMA SlotType ==
    ASSUME NEW s \in SeqNrs
    PROVE  Slot(s) \in Slots
<1>1. s \in Nat
  BY SeqAssumption DEF SeqNrs
<1> QED
  BY <1>1, CapAssumption, DivMod DEF Slots, Slot

\* The head and the tail of a queue stay within its type; so does an append.
LEMMA QueueType ==
    ASSUME NEW S, NEW q \in Seq(S), NEW e \in S
    PROVE  /\ Append(q, e) \in Seq(S) /\ Len(Append(q, e)) = Len(q) + 1
           /\ q # <<>> => /\ Head(q) \in S /\ Tail(q) \in Seq(S)
                          /\ Len(Tail(q)) = Len(q) - 1 /\ Len(q) > 0
  OBVIOUS

LEMMA HeadTailType ==
    ASSUME NEW S, NEW q \in Seq(S), q # <<>>
    PROVE  /\ Head(q) \in S /\ Tail(q) \in Seq(S)
           /\ Len(Tail(q)) = Len(q) - 1 /\ Len(q) > 0
  OBVIOUS

-----------------------------------------------------------------------------
(* Type correctness. *)

\* A running connection has no packet that was sent too often.
RetransmitsOK == run = "running" =>
                     \A s \in DOMAIN inflight : inflight[s].retransmits <= MaxRetransmits

TypeInv == TypeOK /\ RetransmitsOK

LEMMA InitType == Init => TypeInv
<1> SUFFICES ASSUME Init
             PROVE  TypeInv
  OBVIOUS
<1>1. QueueTypeOK
  BY NumMsgsAssumption, CapAssumption, SeqAssumption DEF Init, QueueTypeOK, SeqNrs
<1>2. ControlTypeOK /\ RetransmitsOK
  BY CwndAssumption, NetAssumption DEF Init, ControlTypeOK, RetransmitsOK
<1>3. NetTypeOK
  BY CapAssumption DEF Init, NetTypeOK
<1>4. ReaderTypeOK
  <2>1. buf \in [Slots -> Packets \cup {Empty}]
    BY DEF Init
  <2>2. dataChan \in Seq(Packets) /\ Len(dataChan) <= ChanCap
    BY CapAssumption DEF Init
  <2>3. rNext \in SeqNrs /\ delivered \in Seq(Msgs) /\ pushing \subseteq Packets
    BY SeqAssumption DEF Init, SeqNrs
  <2>4. inLoop \in BOOLEAN
    BY DEF Init
  <2> QED
    BY <2>1, <2>2, <2>3, <2>4 DEF ReaderTypeOK
<1> QED
  BY <1>1, <1>2, <1>3, <1>4 DEF TypeInv, TypeOK

\* Putting a packet in flight keeps the types of the sender.
LEMMA RegisterType ==
    ASSUME TypeInv, Register
    PROVE  /\ txChan' \in Seq(Msgs) /\ Len(txChan') <= MaxCwnd
           /\ DOMAIN inflight' \subseteq SeqNrs
           /\ inflight' \in [DOMAIN inflight' -> InflightPackets]
           /\ pipe' \in Nat
           /\ Head(txChan) \in Msgs
<1>1. txChan \in Seq(Msgs) /\ Len(txChan) <= MaxCwnd /\ nextSeq \in SeqNrs
  BY DEF TypeInv, TypeOK, QueueTypeOK
<1>2. txChan # <<>> /\ txChan' = Tail(txChan) /\ pipe' = pipe + 1
  BY DEF Register
<1>3. /\ Head(txChan) \in Msgs /\ Tail(txChan) \in Seq(Msgs)
      /\ Len(Tail(txChan)) = Len(txChan) - 1 /\ Len(txChan) > 0
  BY <1>1, <1>2, HeadTailType
<1>4. Len(Tail(txChan)) <= MaxCwnd
  BY <1>1, <1>3, CapAssumption
<1>5. [msg |-> Head(txChan), retransmits |-> 0] \in InflightPackets
  BY <1>3, CwndAssumption DEF InflightPackets
<1>6. /\ DOMAIN inflight' \subseteq SeqNrs
      /\ inflight' \in [DOMAIN inflight' -> InflightPackets]
  BY <1>1, <1>5 DEF TypeInv, TypeOK, ControlTypeOK, Register, With
<1>7. pipe' \in Nat
  BY <1>2 DEF TypeInv, TypeOK, ControlTypeOK
<1> QED
  BY <1>2, <1>3, <1>4, <1>6, <1>7

\* Returning a message keeps the types of the reader.
LEMMA ReturnType ==
    ASSUME TypeInv, NEW m \in Msgs, Return(m)
    PROVE  rNext' \in SeqNrs /\ inLoop' \in BOOLEAN /\ delivered' \in Seq(Msgs)
<1>1. rNext \in SeqNrs /\ delivered \in Seq(Msgs)
  BY DEF TypeInv, TypeOK, ReaderTypeOK
<1> QED
  BY <1>1, NextNrType, QueueType DEF Return

LEMMA NextQueueType == TypeInv /\ [Next]_vars => QueueTypeOK'
<1> SUFFICES ASSUME TypeInv, [Next]_vars
             PROVE  QueueTypeOK'
  OBVIOUS
<1>0. QueueTypeOK
  BY DEF TypeInv, TypeOK
<1>1. CASE Write
  <2>1. /\ written \in 0 .. NumMsgs /\ written < NumMsgs /\ Len(txChan) < MaxCwnd
        /\ txChan \in Seq(Msgs) /\ nextSeq \in SeqNrs
    BY <1>0, <1>1 DEF QueueTypeOK, Write
  <2>2. written + 1 \in Msgs /\ written + 1 \in 0 .. NumMsgs
    BY <2>1, NumMsgsAssumption DEF Msgs
  <2>3. txChan' \in Seq(Msgs) /\ Len(txChan') <= MaxCwnd
    BY <1>1, <2>1, <2>2, QueueType, CapAssumption DEF Write
  <2> QED
    BY <1>1, <2>1, <2>2, <2>3 DEF Write, QueueTypeOK
<1>2. CASE Transmit
  <2>1. nextSeq' \in SeqNrs
    BY <1>0, <1>2, NextNrType DEF QueueTypeOK, Transmit
  <2>2. txChan' \in Seq(Msgs) /\ Len(txChan') <= MaxCwnd
    BY <1>2, RegisterType DEF Transmit
  <2> QED
    BY <1>0, <1>2, <2>1, <2>2 DEF QueueTypeOK, Transmit
<1>3. CASE TransmitFails
  <2>1. txChan' \in Seq(Msgs) /\ Len(txChan') <= MaxCwnd
    BY <1>3, RegisterType DEF TransmitFails
  <2> QED
    BY <1>0, <1>3, <2>1 DEF QueueTypeOK, TransmitFails
<1>4. CASE UNCHANGED <<written, txChan, nextSeq>>
  BY <1>0, <1>4 DEF QueueTypeOK
<1> QED
  BY <1>1, <1>2, <1>3, <1>4
     DEF Next, Retransmit, RecvAck, LoseAck, LoseData, RecvData, Push,
         TransmitAck, NextBuffered, NextFromChan, vars, sender

LEMMA NextControlType == TypeInv /\ [Next]_vars => ControlTypeOK'
<1> SUFFICES ASSUME TypeInv, [Next]_vars
             PROVE  ControlTypeOK'
  OBVIOUS
<1>0. ControlTypeOK /\ RetransmitsOK
  BY DEF TypeInv, TypeOK
<1>1. CASE Transmit
  BY <1>0, <1>1, RegisterType DEF ControlTypeOK, Transmit
<1>2. CASE TransmitFails
  <2>1. writeErrs' \in 0 .. MaxWriteErrors
    BY <1>0, <1>2, NetAssumption DEF ControlTypeOK, TransmitFails
  <2> QED
    BY <1>0, <1>2, <2>1, RegisterType DEF ControlTypeOK, TransmitFails
<1>3. ASSUME NEW s \in SeqNrs, Retransmit(s)
      PROVE  ControlTypeOK'
  <2>1. cwnd' \in 0 .. InitCwnd
    BY <1>0, <1>3, DecreasedType DEF ControlTypeOK, Retransmit
  <2>2. /\ inflight[s] \in InflightPackets
        /\ inflight[s].retransmits <= MaxRetransmits
    BY <1>0, <1>3 DEF ControlTypeOK, RetransmitsOK, Retransmit
  <2>3. [msg |-> inflight[s].msg, retransmits |-> inflight[s].retransmits + 1]
            \in InflightPackets
    BY <2>2, CwndAssumption DEF InflightPackets
  <2>4. /\ DOMAIN inflight' \subseteq SeqNrs
        /\ inflight' \in [DOMAIN inflight' -> InflightPackets]
    BY <1>0, <1>3, <2>3 DEF ControlTypeOK, Retransmit, With
  <2> QED
    BY <1>0, <1>3, <2>1, <2>4 DEF ControlTypeOK, Retransmit
<1>4. ASSUME NEW s \in SeqNrs, RecvAck(s)
      PROVE  ControlTypeOK'
  <2>1. cwnd' \in 0 .. InitCwnd
    BY <1>0, <1>4, DecreasedType DEF ControlTypeOK, RecvAck
  <2>2. /\ DOMAIN inflight' \subseteq SeqNrs
        /\ inflight' \in [DOMAIN inflight' -> InflightPackets]
    BY <1>0, <1>4 DEF ControlTypeOK, RecvAck, Without
  <2>3. pipe' \in Nat
    <3>1. pipe \in Nat /\ (pipe' = pipe \/ pipe' = AfterAcks(pipe, 1))
      BY <1>0, <1>4 DEF ControlTypeOK, RecvAck
    <3> QED
      BY <3>1 DEF AfterAcks
  <2>4. rx' \in {"receiving", "stopped"}
    BY <1>0, <1>4 DEF ControlTypeOK, RecvAck, RxAfterMessage
  <2> QED
    BY <1>0, <1>4, <2>1, <2>2, <2>3, <2>4 DEF ControlTypeOK, RecvAck
<1>5. CASE UNCHANGED <<inflight, cwnd, pipe, run, rx, writeErrs>>
  BY <1>0, <1>5 DEF ControlTypeOK
<1> QED
  BY <1>1, <1>2, <1>3, <1>4, <1>5
     DEF Next, Write, LoseAck, LoseData, RecvData, Push,
         TransmitAck, NextBuffered, NextFromChan, vars, sender

LEMMA NextNetType == TypeInv /\ [Next]_vars => NetTypeOK'
<1> SUFFICES ASSUME TypeInv, [Next]_vars
             PROVE  NetTypeOK'
  OBVIOUS
<1>0. NetTypeOK
  BY DEF TypeInv, TypeOK
<1>1. CASE Transmit
  <2>1. nextSeq \in SeqNrs /\ Head(txChan) \in Msgs
    BY <1>1, RegisterType DEF TypeInv, TypeOK, QueueTypeOK, Transmit
  <2>2. [seq |-> nextSeq, msg |-> Head(txChan)] \in Packets
    BY <2>1 DEF Packets
  <2> QED
    BY <1>0, <1>1, <2>2 DEF NetTypeOK, Transmit, receiver
<1>2. ASSUME NEW s \in SeqNrs, Retransmit(s)
      PROVE  NetTypeOK'
  <2>1. inflight[s].msg \in Msgs
    BY <1>2 DEF TypeInv, TypeOK, ControlTypeOK, Retransmit, InflightPackets
  <2>2. [seq |-> s, msg |-> inflight[s].msg] \in Packets
    BY <2>1 DEF Packets
  <2> QED
    BY <1>0, <1>2, <2>2 DEF NetTypeOK, Retransmit, receiver
<1>3. ASSUME NEW s \in SeqNrs, RecvAck(s)
      PROVE  NetTypeOK'
  BY <1>0, <1>3 DEF NetTypeOK, RecvAck, After, receiver
<1>4. ASSUME NEW p \in Packets, RecvData(p)
      PROVE  NetTypeOK'
  <2>1. p.seq \in SeqNrs
    BY DEF Packets
  <2>2. txPrio' \in Seq(SeqNrs) /\ Len(txPrio') <= MaxCwnd
    BY <1>0, <1>4, <2>1, QueueType, CapAssumption DEF NetTypeOK, RecvData
  <2>3. dataNet' \subseteq Packets /\ ackNet' = ackNet
    BY <1>0, <1>4 DEF NetTypeOK, RecvData, After
  <2> QED
    BY <1>0, <2>2, <2>3 DEF NetTypeOK
<1>5. CASE TransmitAck
  <2>1. /\ Head(txPrio) \in SeqNrs /\ txPrio' \in Seq(SeqNrs)
        /\ Len(txPrio') <= MaxCwnd
    BY <1>0, <1>5, HeadTailType, CapAssumption DEF NetTypeOK, TransmitAck
  <2> QED
    BY <1>0, <1>5, <2>1 DEF NetTypeOK, TransmitAck
<1>6. ASSUME NEW p \in Packets, LoseData(p)
      PROVE  NetTypeOK'
  BY <1>0, <1>6 DEF NetTypeOK, LoseData, receiver
<1>7. ASSUME NEW s \in SeqNrs, LoseAck(s)
      PROVE  NetTypeOK'
  BY <1>0, <1>7 DEF NetTypeOK, LoseAck, receiver
<1>8. CASE UNCHANGED <<dataNet, ackNet, txPrio>>
  BY <1>0, <1>8 DEF NetTypeOK
<1> QED
  BY <1>1, <1>2, <1>3, <1>4, <1>5, <1>6, <1>7, <1>8
     DEF Next, Write, TransmitFails, Push, NextBuffered, NextFromChan, vars, receiver

LEMMA NextReaderType == TypeInv /\ [Next]_vars => ReaderTypeOK'
<1> SUFFICES ASSUME TypeInv, [Next]_vars
             PROVE  ReaderTypeOK'
  OBVIOUS
<1>0. ReaderTypeOK
  BY DEF TypeInv, TypeOK
<1>1. ASSUME NEW p \in Packets, RecvData(p)
      PROVE  ReaderTypeOK'
  BY <1>0, <1>1 DEF ReaderTypeOK, RecvData
<1>2. ASSUME NEW p \in Packets, Push(p)
      PROVE  ReaderTypeOK'
  <2>1. dataChan' \in Seq(Packets) /\ Len(dataChan') <= ChanCap
    BY <1>0, <1>2, QueueType, CapAssumption DEF ReaderTypeOK, Push
  <2> QED
    BY <1>0, <1>2, <2>1 DEF ReaderTypeOK, Push
<1>3. CASE NextBuffered
  <2>1. Slot(rNext) \in Slots
    BY <1>0, SlotType DEF ReaderTypeOK
  <2>2. buf[Slot(rNext)] \in Packets
    BY <1>0, <1>3, <2>1 DEF ReaderTypeOK, NextBuffered
  <2>3. buf[Slot(rNext)].msg \in Msgs
    BY <2>2 DEF Packets
  <2>4. rNext' \in SeqNrs /\ inLoop' \in BOOLEAN /\ delivered' \in Seq(Msgs)
    BY <1>3, <2>3, ReturnType DEF NextBuffered
  <2>5. buf' \in [Slots -> Packets \cup {Empty}]
    BY <1>0, <1>3, <2>1 DEF ReaderTypeOK, NextBuffered
  <2> QED
    BY <1>0, <1>3, <2>4, <2>5 DEF ReaderTypeOK, NextBuffered
<1>4. CASE NextFromChan
  <2>1. /\ Head(dataChan) \in Packets /\ dataChan' \in Seq(Packets)
        /\ Len(dataChan') <= ChanCap
    BY <1>0, <1>4, HeadTailType, CapAssumption DEF ReaderTypeOK, NextFromChan
  <2>2. /\ Head(dataChan).seq \in SeqNrs /\ Head(dataChan).msg \in Msgs
        /\ Slot(Head(dataChan).seq) \in Slots
    BY <2>1, SlotType DEF Packets
  <2>3. rNext' \in SeqNrs /\ inLoop' \in BOOLEAN /\ delivered' \in Seq(Msgs)
    BY <1>0, <1>4, <2>2, ReturnType DEF ReaderTypeOK, NextFromChan
  <2>4. buf' \in [Slots -> Packets \cup {Empty}]
    BY <1>0, <1>4, <2>1, <2>2 DEF ReaderTypeOK, NextFromChan
  <2> QED
    BY <1>0, <1>4, <2>1, <2>3, <2>4 DEF ReaderTypeOK, NextFromChan
<1>5. CASE UNCHANGED <<pushing, dataChan, buf, rNext, inLoop, delivered>>
  BY <1>0, <1>5 DEF ReaderTypeOK
<1> QED
  BY <1>1, <1>2, <1>3, <1>4, <1>5
     DEF Next, Write, Transmit, TransmitFails, Retransmit, RecvAck, LoseAck, LoseData,
         TransmitAck, vars, receiver

LEMMA NextRetransmits == TypeInv /\ [Next]_vars => RetransmitsOK'
<1> SUFFICES ASSUME ControlTypeOK, RetransmitsOK, [Next]_vars
             PROVE  RetransmitsOK'
  BY DEF TypeInv, TypeOK
<1> USE CwndAssumption
<1>1. CASE Register /\ run' = run
  BY <1>1 DEF RetransmitsOK, Register, With
<1>2. ASSUME NEW s \in SeqNrs, Retransmit(s)
      PROVE  RetransmitsOK'
  <2>1. inflight[s].retransmits + 1 \in Nat
    BY <1>2 DEF ControlTypeOK, InflightPackets, Retransmit
  <2>2. ASSUME run' = "running"
        PROVE  inflight[s].retransmits + 1 <= MaxRetransmits
    BY <1>2, <2>1, <2>2 DEF Retransmit
  <2> QED
    BY <1>2, <2>2 DEF RetransmitsOK, Retransmit, With
<1>3. ASSUME NEW s \in SeqNrs, RecvAck(s)
      PROVE  RetransmitsOK'
  BY <1>3 DEF RetransmitsOK, RecvAck, Without
<1>4. CASE UNCHANGED <<run, inflight>>
  BY <1>4 DEF RetransmitsOK
<1> QED
  BY <1>1, <1>2, <1>3, <1>4
     DEF Next, Write, Transmit, TransmitFails, LoseAck, LoseData, RecvData, Push,
         TransmitAck, NextBuffered, NextFromChan, vars, sender, receiver

LEMMA TypeInvariant == Spec => []TypeInv
<1>1. TypeInv /\ [Next]_vars => TypeInv'
  BY NextQueueType, NextControlType, NextNetType, NextReaderType, NextRetransmits
     DEF TypeInv, TypeOK
<1> QED
  BY InitType, <1>1, PTL DEF Spec

\* Every variable keeps its type, for all values of the constants.
THEOREM TypeCorrect == Spec => []TypeOK
<1>1. TypeInv => TypeOK
  BY DEF TypeInv
<1> QED
  BY TypeInvariant, <1>1, PTL

-----------------------------------------------------------------------------
(* The window.  The pipe is raised only below the window, which never grows, *)
(* and never lowered without a packet leaving inflightPackets: overwriting an *)
(* entry, as after a failed write, only makes the pipe count too many.       *)

LEMMA InflightFinite ==
    ASSUME ControlTypeOK
    PROVE  IsFiniteSet(DOMAIN inflight) /\ Cardinality(DOMAIN inflight) \in Nat
<1>1. IsFiniteSet(SeqNrs)
  BY SeqAssumption, FS_Interval DEF SeqNrs
<1> QED
  BY <1>1, FS_Subset, FS_CardinalityType DEF ControlTypeOK

\* Adding a packet to inflightPackets counts it unless its number was in use.
LEMMA WithCardinality ==
    ASSUME ControlTypeOK, NEW s, NEW v
    PROVE  Cardinality(DOMAIN With(inflight, s, v)) =
               IF s \in DOMAIN inflight THEN Cardinality(DOMAIN inflight)
                                        ELSE Cardinality(DOMAIN inflight) + 1
<1>1. DOMAIN With(inflight, s, v) = DOMAIN inflight \cup {s}
  BY DEF With
<1> QED
  BY <1>1, InflightFinite, FS_AddElement

\* Removing a packet from inflightPackets takes one away.
LEMMA WithoutCardinality ==
    ASSUME ControlTypeOK, NEW s \in DOMAIN inflight
    PROVE  /\ Cardinality(DOMAIN Without(inflight, s)) = Cardinality(DOMAIN inflight) - 1
           /\ Cardinality(DOMAIN inflight) > 0
<1>1. DOMAIN Without(inflight, s) = DOMAIN inflight \ {s}
  BY DEF Without
<1>2. /\ Cardinality(DOMAIN inflight \ {s}) = Cardinality(DOMAIN inflight) - 1
      /\ Cardinality(DOMAIN inflight \ {s}) \in Nat
  BY InflightFinite, FS_RemoveElement, FS_CardinalityType
<1> QED
  BY <1>1, <1>2, InflightFinite

WindowInv == PipeCovers /\ WindowKept

LEMMA WindowInit == Init => WindowInv
<1> SUFFICES ASSUME Init
             PROVE  WindowInv
  OBVIOUS
<1>1. DOMAIN inflight = {}
  BY DEF Init
<1>2. Cardinality(DOMAIN inflight) = 0
  BY <1>1, FS_EmptySet
<1> QED
  BY <1>2, CwndAssumption DEF Init, WindowInv, PipeCovers, WindowKept

LEMMA WindowNext == TypeInv /\ WindowInv /\ [Next]_vars => WindowInv'
<1> SUFFICES ASSUME TypeInv, WindowInv, [Next]_vars
             PROVE  WindowInv'
  OBVIOUS
<1>0. /\ ControlTypeOK /\ pipe \in Nat /\ cwnd \in 0 .. InitCwnd
      /\ Cardinality(DOMAIN inflight) \in Nat
      /\ pipe >= Cardinality(DOMAIN inflight) /\ pipe <= InitCwnd
  BY InflightFinite DEF TypeInv, TypeOK, ControlTypeOK, WindowInv, PipeCovers, WindowKept
<1>1. CASE Register
  <2>1. pipe' = pipe + 1 /\ pipe < cwnd
    BY <1>0, <1>1, CwndAssumption DEF Register, NumFreeSend
  <2>2. Cardinality(DOMAIN inflight') <= Cardinality(DOMAIN inflight) + 1
    BY <1>0, <1>1, WithCardinality DEF Register
  <2>3. Cardinality(DOMAIN inflight') \in Nat
    BY <1>0, <1>1, WithCardinality DEF Register
  <2> QED
    BY <1>0, <2>1, <2>2, <2>3, CwndAssumption DEF WindowInv, PipeCovers, WindowKept
<1>2. ASSUME NEW s \in SeqNrs, Retransmit(s)
      PROVE  WindowInv'
  <2>1. Cardinality(DOMAIN inflight') = Cardinality(DOMAIN inflight) /\ pipe' = pipe
    BY <1>0, <1>2, WithCardinality DEF Retransmit
  <2> QED
    BY <1>0, <2>1 DEF WindowInv, PipeCovers, WindowKept
<1>3. ASSUME NEW s \in SeqNrs, RecvAck(s)
      PROVE  WindowInv'
  <2>1. CASE s \in DOMAIN inflight
    <3>1. inflight' = Without(inflight, s) /\ pipe' = AfterAcks(pipe, 1)
      BY <1>3, <2>1 DEF RecvAck
    <3>2. /\ Cardinality(DOMAIN inflight') = Cardinality(DOMAIN inflight) - 1
          /\ Cardinality(DOMAIN inflight) > 0
      BY <1>0, <2>1, <3>1, WithoutCardinality
    <3> QED
      BY <1>0, <3>1, <3>2, CwndAssumption DEF WindowInv, PipeCovers, WindowKept, AfterAcks
  <2>2. CASE s \notin DOMAIN inflight
    BY <1>0, <1>3, <2>2 DEF RecvAck, WindowInv, PipeCovers, WindowKept
  <2> QED
    BY <2>1, <2>2
<1>4. CASE UNCHANGED <<inflight, pipe>>
  BY <1>0, <1>4 DEF WindowInv, PipeCovers, WindowKept
<1> QED
  BY <1>1, <1>2, <1>3, <1>4
     DEF Next, Write, Transmit, TransmitFails, LoseAck, LoseData, RecvData, Push,
         TransmitAck, NextBuffered, NextFromChan, vars, sender

\* Whatever fails, the pipe covers the packets awaiting an ack and stays within
\* the initial window, so that no more than that are ever awaiting one.
THEOREM WindowSafe == Spec => [](PipeCovers /\ WindowKept)
<1>1. WindowInv => PipeCovers /\ WindowKept
  BY DEF WindowInv
<1> QED
  BY TypeInvariant, WindowInit, WindowNext, <1>1, PTL DEF Spec

\* However acks, timers and write errors interleave, congestion control never
\* counts more packets than the initial window (Conn.run, NumFreeSend).
THEOREM WindowBounded == Spec => []WindowKept
<1> QED
  BY WindowSafe, PTL

\* A window of one is rounded up, not down: the window stays open, however often
\* timers run out and acks come twice (ElasticTcpAlgorithm.HandleEvent).
THEOREM WindowStaysOpen == Spec => []WindowOpen
<1> USE DEF WindowOpen
<1>1. Init => WindowOpen
  BY DEF Init
<1>2. TypeInv /\ WindowOpen /\ [Next]_vars => WindowOpen'
  <2> SUFFICES ASSUME TypeInv, WindowOpen, [Next]_vars, InitCwnd > 0
               PROVE  cwnd' > 0
    OBVIOUS
  <2>1. cwnd \in Nat /\ cwnd > 0
    BY CwndAssumption DEF TypeInv, TypeOK, ControlTypeOK
  <2>2. Decreased(cwnd) > 0
    BY <2>1, SMT DEF Decreased
  <2>3. cwnd' \in {cwnd, Decreased(cwnd)}
    BY DEF Next, Write, Transmit, TransmitFails, Retransmit, RecvAck, LoseAck, LoseData,
           RecvData, Push, TransmitAck, NextBuffered, NextFromChan, vars, sender
  <2> QED
    BY <2>1, <2>2, <2>3
<1> QED
  BY TypeInvariant, <1>1, <1>2, PTL DEF Spec

-----------------------------------------------------------------------------
(* Numbering.  While no write has failed, the k-th message taken off txChan  *)
(* is sent under the k-th packet number and under no other.                  *)

\* Packet p carries the message its number was given to, and was sent.
Numbered(p) == p.msg \in 1 .. Sent /\ p.seq = SeqOf(p.msg)

QueueNumbered == /\ Len(txChan) <= written
                 /\ \A i \in 1 .. Len(txChan) : txChan[i] = Sent + i
                 /\ nextSeq = SeqOf(Sent + 1)

InflightNumbered == \A s \in DOMAIN inflight :
                        inflight[s].msg \in 1 .. Sent /\ s = SeqOf(inflight[s].msg)

PacketsNumbered == /\ \A p \in dataNet \cup pushing : Numbered(p)
                   /\ \A i \in 1 .. Len(dataChan) : Numbered(dataChan[i])
                   /\ \A i \in Slots : buf[i] # Empty =>
                          Numbered(buf[i]) /\ Slot(buf[i].seq) = i

Numbering == QueueNumbered /\ InflightNumbered /\ PacketsNumbered

NumberingInv == writeErrs = 0 => Numbering

LEMMA SeqOfFirst == SeqOf(1) = InitSeq
  BY SeqAssumption, ModSmall DEF SeqOf

\* The packet number after that of message m is that of the next message.
LEMMA SeqOfNext ==
    ASSUME NEW m \in Nat \ {0}
    PROVE  NextNr(SeqOf(m)) = SeqOf(m + 1)
<1>1. InitSeq + m - 1 \in Nat /\ InitSeq + (m + 1) - 1 = (InitSeq + m - 1) + 1
  BY SeqAssumption
<1> QED
  BY <1>1, SeqAssumption, ModSucc DEF NextNr, SeqOf

LEMMA SentType ==
    ASSUME TypeInv, QueueNumbered
    PROVE  Sent \in Nat /\ Sent <= NumMsgs /\ written \in Nat /\ Len(txChan) \in Nat
<1>1. written \in 0 .. NumMsgs /\ txChan \in Seq(Msgs)
  BY DEF TypeInv, TypeOK, QueueTypeOK
<1>2. Len(txChan) \in Nat
  BY <1>1
<1> QED
  BY <1>1, <1>2, NumMsgsAssumption DEF QueueNumbered, Sent

LEMMA NothingSentFirst ==
    ASSUME Init
    PROVE  Sent = 0 /\ Len(txChan) = 0 /\ Len(delivered) = 0
<1>1. written = 0
  BY DEF Init
<1>2. txChan = <<>> /\ delivered = <<>>
  BY DEF Init
<1>3. Len(txChan) = 0 /\ Len(delivered) = 0
  BY <1>2
<1>4. written - Len(txChan) = 0
  BY <1>1, <1>3
<1> QED
  BY <1>3, <1>4 DEF Sent

LEMMA NumberingInit == Init => NumberingInv
<1> SUFFICES ASSUME Init
             PROVE  Numbering
  BY DEF NumberingInv
<1>1. Sent = 0 /\ Len(txChan) = 0
  BY NothingSentFirst
<1>2. QueueNumbered
  BY <1>1, SeqOfFirst DEF Init, QueueNumbered
<1>3. InflightNumbered /\ PacketsNumbered
  BY DEF Init, InflightNumbered, PacketsNumbered
<1> QED
  BY <1>2, <1>3 DEF Numbering

\* Transmit sends message Sent + 1 under its number.
LEMMA TransmitNumbers ==
    ASSUME TypeInv, QueueNumbered, Transmit
    PROVE  /\ Sent' = Sent + 1 /\ Sent \in Nat /\ Sent + 1 \in Msgs
           /\ Head(txChan) = Sent + 1 /\ nextSeq = SeqOf(Sent + 1)
           /\ QueueNumbered'
<1>1. txChan \in Seq(Msgs) /\ txChan # <<>> /\ txChan' = Tail(txChan) /\ written' = written
  BY DEF TypeInv, TypeOK, QueueTypeOK, Transmit, Register
<1>2. /\ Len(txChan) > 0 /\ Len(txChan') = Len(txChan) - 1
      /\ \A i \in 1 .. Len(txChan') : txChan'[i] = txChan[i + 1]
      /\ Head(txChan) = txChan[1]
  BY <1>1
<1>3. Sent \in Nat /\ Sent <= NumMsgs /\ written \in Nat /\ Len(txChan) \in Nat
  BY SentType
<1>4. Sent' = Sent + 1
  BY <1>1, <1>2, <1>3 DEF Sent
<1>5. Head(txChan) = Sent + 1 /\ nextSeq = SeqOf(Sent + 1)
  BY <1>2, <1>3 DEF QueueNumbered
<1>6. Sent + 1 \in Msgs
  BY <1>1, <1>5, HeadTailType
<1>7. nextSeq' = SeqOf(Sent' + 1)
  <2>1. Sent + 1 \in Nat \ {0}
    BY <1>3
  <2> QED
    BY <1>4, <1>5, <2>1, SeqOfNext DEF Transmit
<1>8. \A i \in 1 .. Len(txChan') : txChan'[i] = Sent' + i
  <2> SUFFICES ASSUME NEW i \in 1 .. Len(txChan')
               PROVE  txChan'[i] = Sent' + i
    OBVIOUS
  <2>1. i + 1 \in 1 .. Len(txChan) /\ i \in Nat
    BY <1>2, <1>3
  <2>2. txChan[i + 1] = Sent + (i + 1)
    BY <2>1 DEF QueueNumbered
  <2> QED
    BY <1>2, <1>3, <1>4, <2>1, <2>2
<1>9. Len(txChan') <= written'
  BY <1>1, <1>2, <1>3 DEF QueueNumbered
<1> QED
  BY <1>3, <1>4, <1>5, <1>6, <1>7, <1>8, <1>9 DEF QueueNumbered

\* Write does not change which messages were sent.
LEMMA WriteNumbers ==
    ASSUME TypeInv, QueueNumbered, Write
    PROVE  Sent' = Sent /\ QueueNumbered'
<1>1. txChan \in Seq(Msgs) /\ written \in Nat /\ Sent \in Nat /\ Len(txChan) \in Nat
  BY SentType DEF TypeInv, TypeOK, QueueTypeOK
<1>2. /\ txChan' = Append(txChan, written + 1) /\ written' = written + 1
      /\ nextSeq' = nextSeq
  BY DEF Write
<1>3. written + 1 \in Msgs
  <2>1. written < NumMsgs
    BY DEF Write
  <2> QED
    BY <1>1, <2>1, NumMsgsAssumption DEF Msgs
<1>4. /\ Len(txChan') = Len(txChan) + 1
      /\ \A i \in 1 .. Len(txChan) : txChan'[i] = txChan[i]
      /\ txChan'[Len(txChan) + 1] = written + 1
  BY <1>1, <1>2, <1>3
<1>5. Sent' = Sent
  BY <1>1, <1>2, <1>4 DEF Sent
<1>6. \A i \in 1 .. Len(txChan') : txChan'[i] = Sent' + i
  <2> SUFFICES ASSUME NEW i \in 1 .. Len(txChan')
               PROVE  txChan'[i] = Sent' + i
    OBVIOUS
  <2>1. CASE i \in 1 .. Len(txChan)
    BY <1>4, <1>5, <2>1 DEF QueueNumbered
  <2>2. CASE i = Len(txChan) + 1
    BY <1>1, <1>4, <1>5, <2>2 DEF Sent
  <2> QED
    BY <1>1, <1>4, <2>1, <2>2
<1> QED
  BY <1>1, <1>2, <1>4, <1>5, <1>6 DEF QueueNumbered

\* A step after which no write has failed is not a failing write.
LEMMA NoWriteFailed ==
    ASSUME TypeInv, [Next]_vars, writeErrs' = 0
    PROVE  writeErrs = 0 /\ ~TransmitFails
<1>1. writeErrs \in Nat
  BY NetAssumption DEF TypeInv, TypeOK, ControlTypeOK
<1>2. ~TransmitFails
  BY <1>1 DEF TransmitFails
<1> QED
  BY <1>1, <1>2 DEF Next, Write, Transmit, Retransmit, RecvAck, LoseAck, LoseData,
       RecvData, Push, TransmitAck, NextBuffered, NextFromChan, vars, sender

LEMMA NumberingNext == TypeInv /\ NumberingInv /\ [Next]_vars => NumberingInv'
<1> SUFFICES ASSUME TypeInv, NumberingInv, [Next]_vars, writeErrs' = 0
             PROVE  Numbering'
  BY DEF NumberingInv
<1>0. writeErrs = 0 /\ ~TransmitFails
  BY NoWriteFailed
<1>a. QueueNumbered /\ InflightNumbered /\ PacketsNumbered
  BY <1>0 DEF NumberingInv, Numbering
<1>b. Sent \in Nat /\ ReaderTypeOK /\ ControlTypeOK
  BY <1>a, SentType DEF TypeInv, TypeOK
<1>1. CASE Write
  <2>1. Sent' = Sent /\ QueueNumbered'
    BY <1>1, <1>a, WriteNumbers
  <2>2. InflightNumbered'
    BY <1>1, <1>a, <2>1 DEF Write, InflightNumbered
  <2>3. PacketsNumbered'
    BY <1>1, <1>a, <2>1 DEF Write, PacketsNumbered, Numbered, receiver
  <2> QED
    BY <2>1, <2>2, <2>3 DEF Numbering
<1>2. CASE Transmit
  <2>1. /\ Sent' = Sent + 1 /\ Head(txChan) = Sent + 1
        /\ nextSeq = SeqOf(Sent + 1) /\ QueueNumbered'
    BY <1>2, <1>a, TransmitNumbers
  <2>2. InflightNumbered'
    BY <1>2, <1>a, <1>b, <2>1 DEF Transmit, Register, With, InflightNumbered
  <2>3. \A p : Numbered(p) => Numbered(p)'
    BY <1>b, <2>1 DEF Numbered
  <2>4. \A p : p = [seq |-> nextSeq, msg |-> Head(txChan)] => Numbered(p)'
    BY <1>b, <2>1 DEF Numbered
  <2>5. PacketsNumbered'
    BY <1>2, <1>a, <2>3, <2>4 DEF Transmit, PacketsNumbered, receiver
  <2> QED
    BY <2>1, <2>2, <2>5 DEF Numbering
<1>3. ASSUME UNCHANGED <<written, txChan, nextSeq>>
      PROVE  Sent' = Sent /\ QueueNumbered' /\ \A p : Numbered(p) => Numbered(p)'
  BY <1>3, <1>a DEF Sent, QueueNumbered, Numbered
<1>4. ASSUME NEW s \in SeqNrs, Retransmit(s)
      PROVE  Numbering'
  <2>1. UNCHANGED <<written, txChan, nextSeq>>
    BY <1>4 DEF Retransmit
  <2>2. InflightNumbered'
    BY <1>3, <1>4, <1>a, <2>1 DEF Retransmit, With, InflightNumbered
  <2>3. Numbered([seq |-> s, msg |-> inflight[s].msg])
    BY <1>4, <1>a DEF Retransmit, InflightNumbered, Numbered
  <2>4. PacketsNumbered'
    BY <1>3, <1>4, <1>a, <2>1, <2>3 DEF Retransmit, PacketsNumbered, receiver
  <2> QED
    BY <1>3, <2>1, <2>2, <2>4 DEF Numbering
<1>5. ASSUME NEW s \in SeqNrs, RecvAck(s)
      PROVE  Numbering'
  <2>1. UNCHANGED <<written, txChan, nextSeq>>
    BY <1>5 DEF RecvAck
  <2>2. InflightNumbered'
    BY <1>3, <1>5, <1>a, <2>1 DEF RecvAck, Without, InflightNumbered
  <2>3. PacketsNumbered'
    BY <1>3, <1>5, <1>a, <2>1 DEF RecvAck, PacketsNumbered, receiver
  <2> QED
    BY <1>3, <2>1, <2>2, <2>3 DEF Numbering
<1>6. ASSUME UNCHANGED sender, PacketsNumbered'
      PROVE  Numbering'
  BY <1>3, <1>6, <1>a DEF sender, Numbering, InflightNumbered
<1>7. ASSUME NEW p \in Packets, RecvData(p)
      PROVE  Numbering'
  <2>1. UNCHANGED sender
    BY <1>7 DEF RecvData
  <2>2. PacketsNumbered'
    BY <1>3, <1>7, <1>a, <2>1 DEF RecvData, After, PacketsNumbered, sender
  <2> QED
    BY <1>6, <2>1, <2>2
<1>8. ASSUME NEW p \in Packets, Push(p)
      PROVE  Numbering'
  <2>1. UNCHANGED sender
    BY <1>8 DEF Push
  <2>2. \A i \in 1 .. Len(dataChan') : Numbered(dataChan'[i])
    <3>1. dataChan \in Seq(Packets) /\ dataChan' = Append(dataChan, p) /\ Numbered(p)
      BY <1>8, <1>a, <1>b DEF Push, ReaderTypeOK, PacketsNumbered
    <3>2. \A i \in 1 .. Len(dataChan') :
              dataChan'[i] = p \/ (i \in 1 .. Len(dataChan) /\ dataChan'[i] = dataChan[i])
      BY <3>1
    <3> QED
      BY <1>a, <3>1, <3>2 DEF PacketsNumbered
  <2>3. PacketsNumbered'
    BY <1>3, <1>8, <1>a, <2>1, <2>2 DEF Push, PacketsNumbered, sender
  <2> QED
    BY <1>6, <2>1, <2>3
<1>9. CASE TransmitAck
  <2>1. PacketsNumbered'
    BY <1>3, <1>9, <1>a DEF TransmitAck, PacketsNumbered, sender
  <2> QED
    BY <1>6, <1>9, <2>1 DEF TransmitAck
<1>10. CASE NextBuffered
  <2>1. buf' = [buf EXCEPT ![Slot(rNext)] = Empty] /\ buf \in [Slots -> Packets \cup {Empty}]
    BY <1>10, <1>b DEF NextBuffered, ReaderTypeOK
  <2>2. \A i \in Slots : buf'[i] = Empty \/ buf'[i] = buf[i]
    BY <2>1
  <2>3. PacketsNumbered'
    BY <1>3, <1>10, <1>a, <2>2 DEF NextBuffered, PacketsNumbered, sender
  <2> QED
    BY <1>6, <1>10, <2>3 DEF NextBuffered
<1>11. CASE NextFromChan
  <2>1. /\ dataChan \in Seq(Packets) /\ dataChan # <<>> /\ dataChan' = Tail(dataChan)
        /\ buf \in [Slots -> Packets \cup {Empty}]
        /\ UNCHANGED <<sender, dataNet, pushing>>
    BY <1>11, <1>b DEF NextFromChan, ReaderTypeOK
  <2>2. /\ Head(dataChan) = dataChan[1] /\ 1 \in 1 .. Len(dataChan)
        /\ \A i \in 1 .. Len(dataChan') :
               i + 1 \in 1 .. Len(dataChan) /\ dataChan'[i] = dataChan[i + 1]
    BY <2>1
  <2>3. Numbered(Head(dataChan)) /\ \A i \in 1 .. Len(dataChan') : Numbered(dataChan'[i])
    BY <1>a, <2>2 DEF PacketsNumbered
  <2>4. \/ buf' = buf
        \/ buf' = [buf EXCEPT ![Slot(Head(dataChan).seq)] = Head(dataChan)]
    BY <1>11 DEF NextFromChan
  <2>5. \A i \in Slots : \/ buf'[i] = buf[i]
                         \/ buf'[i] = Head(dataChan) /\ i = Slot(Head(dataChan).seq)
    BY <2>1, <2>4
  <2>6. PacketsNumbered'
    BY <1>3, <1>a, <2>1, <2>3, <2>5 DEF PacketsNumbered, sender
  <2> QED
    BY <1>6, <2>1, <2>6
<1>12. ASSUME NEW p \in Packets, LoseData(p)
       PROVE  Numbering'
  <2>1. PacketsNumbered'
    BY <1>3, <1>12, <1>a DEF LoseData, PacketsNumbered, sender, receiver
  <2> QED
    BY <1>6, <1>12, <2>1 DEF LoseData
<1>13. ASSUME NEW s \in SeqNrs, LoseAck(s)
       PROVE  Numbering'
  <2>1. PacketsNumbered'
    BY <1>3, <1>13, <1>a DEF LoseAck, PacketsNumbered, sender, receiver
  <2> QED
    BY <1>6, <1>13, <2>1 DEF LoseAck
<1>14. CASE UNCHANGED vars
  <2>1. PacketsNumbered'
    BY <1>3, <1>14, <1>a DEF vars, PacketsNumbered, sender, receiver
  <2> QED
    BY <1>6, <1>14, <2>1 DEF vars
<1> QED
  BY <1>0, <1>1, <1>2, <1>4, <1>5, <1>7, <1>8, <1>9, <1>10, <1>11, <1>12, <1>13, <1>14
     DEF Next

LEMMA NumberingInvariant == Spec => []NumberingInv
  BY TypeInvariant, NumberingInit, NumberingNext, PTL DEF Spec

-----------------------------------------------------------------------------
(* Order.  When no two numbers share a slot, what the reorder buffer holds in *)
(* the slot of the expected number can only be the expected message.         *)

Ordered == /\ rNext = SeqOf(Len(delivered) + 1)
           /\ InOrder
           /\ Len(delivered) <= Sent

OrderInv == writeErrs = 0 => Ordered

LEMMA OrderInit == Init => OrderInv
<1> SUFFICES ASSUME Init
             PROVE  Ordered
  BY DEF OrderInv
<1>1. delivered = <<>> /\ rNext = InitSeq
  BY DEF Init
<1> QED
  BY <1>1, NothingSentFirst, SeqOfFirst DEF Ordered, InOrder

\* Returning the next message keeps the order.
LEMMA ReturnOrdered ==
    ASSUME TypeInv, Ordered, Len(delivered) + 1 <= Sent, Return(Len(delivered) + 1),
           UNCHANGED Sent
    PROVE  Ordered' /\ Len(delivered') = Len(delivered) + 1
<1>1. delivered \in Seq(Msgs) /\ Len(delivered) \in Nat
  BY DEF TypeInv, TypeOK, ReaderTypeOK
<1>2. delivered' = Append(delivered, Len(delivered) + 1)
  BY DEF Return
<1>3. /\ Len(delivered') = Len(delivered) + 1
      /\ DOMAIN delivered' = 1 .. Len(delivered) + 1
      /\ DOMAIN delivered = 1 .. Len(delivered)
      /\ \A i \in 1 .. Len(delivered) : delivered'[i] = delivered[i]
      /\ delivered'[Len(delivered) + 1] = Len(delivered) + 1
  BY <1>1, <1>2
<1>4. InOrder'
  BY <1>1, <1>3 DEF Ordered, InOrder
<1>5. rNext' = SeqOf(Len(delivered') + 1)
  <2>1. Len(delivered) + 1 \in Nat \ {0}
    BY <1>1
  <2>2. rNext' = NextNr(SeqOf(Len(delivered) + 1))
    BY DEF Return, Ordered
  <2> QED
    BY <1>3, <2>1, <2>2, SeqOfNext
<1> QED
  BY <1>3, <1>4, <1>5 DEF Ordered

\* A numbered packet in the expected slot is the expected message.
LEMMA ExpectedMessage ==
    ASSUME TypeInv, Numbering, Ordered, SlotsDistinct,
           NEW p, Numbered(p), Slot(p.seq) = Slot(rNext)
    PROVE  p.msg = Len(delivered) + 1 /\ Len(delivered) + 1 <= Sent
<1>1. Sent \in Nat /\ Sent <= NumMsgs
  BY SentType DEF Numbering
<1>2. Len(delivered) \in Nat
  BY DEF TypeInv, TypeOK, ReaderTypeOK
<1>3. p.msg \in 1 .. NumMsgs + 1 /\ Len(delivered) + 1 \in 1 .. NumMsgs + 1
  BY <1>1, <1>2, NumMsgsAssumption DEF Numbered, Ordered
<1>4. Slot(SeqOf(p.msg)) = Slot(SeqOf(Len(delivered) + 1))
  BY DEF Numbered, Ordered
<1>5. p.msg = Len(delivered) + 1
  BY <1>3, <1>4 DEF SlotsDistinct
<1> QED
  BY <1>5 DEF Numbered

\* What a call of Next returns is the next message, and nothing moves else.
LEMMA BufferedExpected ==
    ASSUME TypeInv, Numbering, Ordered, SlotsDistinct, NextBuffered
    PROVE  /\ buf[Slot(rNext)].msg = Len(delivered) + 1
           /\ Len(delivered) + 1 <= Sent
           /\ Return(Len(delivered) + 1)
<1>1. Slot(rNext) \in Slots /\ buf[Slot(rNext)] # Empty
  BY SlotType DEF TypeInv, TypeOK, ReaderTypeOK, NextBuffered
<1>2. Numbered(buf[Slot(rNext)]) /\ Slot(buf[Slot(rNext)].seq) = Slot(rNext)
  BY <1>1 DEF Numbering, PacketsNumbered
<1>3. /\ buf[Slot(rNext)].msg = Len(delivered) + 1
      /\ Len(delivered) + 1 <= Sent
  BY <1>2, ExpectedMessage
<1> QED
  BY <1>3 DEF NextBuffered

LEMMA FromChanExpected ==
    ASSUME TypeInv, Numbering, Ordered, SlotsDistinct, NextFromChan,
           Head(dataChan).seq = rNext
    PROVE  /\ Head(dataChan).msg = Len(delivered) + 1
           /\ Len(delivered) + 1 <= Sent
           /\ Return(Len(delivered) + 1)
<1>1. dataChan \in Seq(Packets) /\ dataChan # <<>>
  BY DEF TypeInv, TypeOK, ReaderTypeOK, NextFromChan
<1>2. Head(dataChan) = dataChan[1] /\ 1 \in 1 .. Len(dataChan)
  BY <1>1
<1>3. Numbered(Head(dataChan)) /\ Slot(Head(dataChan).seq) = Slot(rNext)
  BY <1>2 DEF Numbering, PacketsNumbered
<1>4. /\ Head(dataChan).msg = Len(delivered) + 1
      /\ Len(delivered) + 1 <= Sent
  BY <1>3, ExpectedMessage
<1> QED
  BY <1>4 DEF NextFromChan

LEMMA OrderNext ==
    ASSUME SlotsDistinct
    PROVE  TypeInv /\ NumberingInv /\ OrderInv /\ [Next]_vars => OrderInv'
<1> SUFFICES ASSUME TypeInv, NumberingInv, OrderInv, [Next]_vars, writeErrs' = 0
             PROVE  Ordered'
  BY DEF OrderInv
<1>0. writeErrs = 0 /\ ~TransmitFails
  BY NoWriteFailed
<1>a. Numbering /\ QueueNumbered /\ Ordered
  BY <1>0 DEF NumberingInv, Numbering, OrderInv
<1>1. CASE Write
  BY <1>1, <1>a, WriteNumbers DEF Write, receiver, Ordered, InOrder
<1>2. CASE Transmit
  <2>1. Sent' = Sent + 1 /\ Sent \in Nat
    BY <1>2, <1>a, TransmitNumbers
  <2>2. Len(delivered) \in Nat /\ Len(delivered) <= Sent
    BY <1>a DEF TypeInv, TypeOK, ReaderTypeOK, Ordered
  <2>3. delivered' = delivered /\ rNext' = rNext
    BY <1>2 DEF Transmit, receiver
  <2> QED
    BY <1>a, <2>1, <2>2, <2>3 DEF Ordered, InOrder
<1>3. CASE NextBuffered
  BY <1>3, <1>a, BufferedExpected, ReturnOrdered DEF NextBuffered, sender, Sent
<1>4. CASE NextFromChan
  <2>1. CASE Head(dataChan).seq = rNext
    BY <1>4, <1>a, <2>1, FromChanExpected, ReturnOrdered DEF NextFromChan, sender, Sent
  <2>2. CASE Head(dataChan).seq # rNext
    <3>1. UNCHANGED <<written, txChan, rNext, delivered>>
      BY <1>4, <2>2 DEF NextFromChan, sender
    <3> QED
      BY <1>a, <3>1 DEF Ordered, InOrder, Sent
  <2> QED
    BY <2>1, <2>2
<1>5. CASE UNCHANGED <<written, txChan, rNext, delivered>>
  BY <1>5, <1>a DEF Ordered, InOrder, Sent
<1> QED
  BY <1>0, <1>1, <1>2, <1>3, <1>4, <1>5
     DEF Next, Retransmit, RecvAck, LoseAck, LoseData, RecvData, Push,
         TransmitAck, vars, sender, receiver

LEMMA OrderInvariant == SlotsDistinct => (Spec => []OrderInv)
<1> SUFFICES ASSUME SlotsDistinct
             PROVE  Spec => []OrderInv
  OBVIOUS
<1>1. TypeInv /\ NumberingInv /\ OrderInv /\ [Next]_vars => OrderInv'
  BY OrderNext
<1> QED
  BY TypeInvariant, NumberingInvariant, OrderInit, <1>1, PTL DEF Spec

\* Next returns the messages in the order they were written, each once, when
\* no write to the socket fails and no two packet numbers in use share a slot.
THEOREM Delivery == SlotsDistinct /\ MaxWriteErrors = 0 => (Spec => []InOrder)
<1> SUFFICES ASSUME SlotsDistinct, MaxWriteErrors = 0
             PROVE  Spec => []InOrder
  OBVIOUS
<1>1. TypeInv /\ OrderInv => InOrder
  BY DEF TypeInv, TypeOK, ControlTypeOK, OrderInv, Ordered
<1> QED
  BY TypeInvariant, OrderInvariant, <1>1, PTL

\* Fewer messages than the reorder buffer has slots, before the packet numbers
\* wrap, are enough for that.
THEOREM ShortStream ==
    NumMsgs < BufCap /\ InitSeq + NumMsgs < SeqMod => SlotsDistinct
<1> SUFFICES ASSUME NumMsgs < BufCap, InitSeq + NumMsgs < SeqMod,
                    NEW m \in 1 .. NumMsgs + 1, NEW n \in 1 .. NumMsgs + 1,
                    Slot(SeqOf(m)) = Slot(SeqOf(n))
             PROVE  m = n
  BY DEF SlotsDistinct
<1>0. SeqMod \in Nat \ {0} /\ BufCap \in Nat \ {0} /\ InitSeq \in Nat /\ NumMsgs \in Nat
  BY SeqAssumption, CapAssumption, NumMsgsAssumption
<1> DEFINE a == InitSeq + m - 1
           b == InitSeq + n - 1
<1>1. a \in Nat /\ b \in Nat /\ a < SeqMod /\ b < SeqMod /\ a - b < BufCap /\ b - a < BufCap
  BY <1>0
<1>2. SeqOf(m) = a /\ SeqOf(n) = b
  BY <1>0, <1>1, ModSmall DEF SeqOf
<1>3. a % BufCap = b % BufCap
  BY <1>2 DEF Slot
<1>4. a = b
  <2> HIDE DEF a, b
  <2> QED
    BY <1>0, <1>1, <1>3, ModNear
<1> QED
  BY <1>0, <1>4

\* A connection implements the ordered message stream: its steps write a
\* message, deliver the next one, or do neither.
THEOREM StreamImplemented == SlotsDistinct /\ MaxWriteErrors = 0 => (Spec => StreamSpec)
<1> SUFFICES ASSUME SlotsDistinct, MaxWriteErrors = 0
             PROVE  Spec => StreamSpec
  OBVIOUS
<1>1. Init => Stream!Init
  BY DEF Init, Stream!Init
<1>2. TypeInv /\ NumberingInv /\ OrderInv /\ [Next]_vars => [Stream!Next]_Stream!vars
  <2> SUFFICES ASSUME TypeInv, NumberingInv, OrderInv, [Next]_vars
               PROVE  Stream!Write \/ Stream!Deliver \/ UNCHANGED <<written, delivered>>
    BY DEF Stream!Next, Stream!vars
  <2>0. Numbering /\ QueueNumbered /\ Ordered
    BY DEF TypeInv, TypeOK, ControlTypeOK, NumberingInv, OrderInv, Numbering
  <2>a. /\ Sent \in Nat /\ written \in Nat /\ Len(txChan) \in Nat
        /\ Sent = written - Len(txChan) /\ Len(delivered) \in Nat
    BY <2>0, SentType DEF Sent, TypeInv, TypeOK, ReaderTypeOK
  <2>1. CASE Write
    BY <2>1 DEF Write, receiver, Stream!Write
  <2>2. ASSUME Return(Len(delivered) + 1), Len(delivered) + 1 <= Sent, written' = written
        PROVE  Stream!Deliver
    BY <2>2, <2>a DEF Return, Stream!Deliver
  <2>3. CASE NextBuffered
    BY <2>0, <2>2, <2>3, BufferedExpected DEF NextBuffered, sender
  <2>4. CASE NextFromChan
    <3>1. CASE Head(dataChan).seq = rNext
      BY <2>0, <2>2, <2>4, <3>1, FromChanExpected DEF NextFromChan, sender
    <3>2. CASE Head(dataChan).seq # rNext
      BY <2>4, <3>2 DEF NextFromChan, sender
    <3> QED
      BY <3>1, <3>2
  <2>5. CASE UNCHANGED <<written, delivered>>
    BY <2>5
  <2> QED
    BY <2>1, <2>3, <2>4, <2>5
       DEF Next, Transmit, TransmitFails, Retransmit, RecvAck, LoseAck, LoseData,
           RecvData, Push, TransmitAck, vars, sender, receiver
<1> QED
  BY TypeInvariant, NumberingInvariant, OrderInvariant, <1>1, <1>2, PTL
     DEF Spec, StreamSpec, Stream!Spec

-----------------------------------------------------------------------------
(* Acks.  A message that was sent is either in flight with its number not    *)
(* acknowledged by anything on its way back, or the receiver has it.         *)

\* An ack of packet number s waits to be sent or is in the network.
Acked(s) == s \in ackNet \/ \E i \in DOMAIN txPrio : txPrio[i] = s

\* Only numbers of sent messages are acknowledged.
AcksNumbered == \A s : Acked(s) => \E m \in 1 .. Sent : s = SeqOf(m)

AcksHeld == \A m \in 1 .. Sent :
                Held(m) \/ (SeqOf(m) \in DOMAIN inflight /\ ~Acked(SeqOf(m)))

AckInv == writeErrs = 0 => AcksNumbered /\ AcksHeld

\* The packet numbers of different messages differ.
LEMMA NumbersDistinct ==
    ASSUME SlotsDistinct, NEW m \in 1 .. NumMsgs, NEW n \in 1 .. NumMsgs,
           SeqOf(m) = SeqOf(n)
    PROVE  m = n
<1>1. m \in 1 .. NumMsgs + 1 /\ n \in 1 .. NumMsgs + 1
  BY NumMsgsAssumption
<1> QED
  BY <1>1 DEF SlotsDistinct

LEMMA AckInit == Init => AckInv
<1> SUFFICES ASSUME Init
             PROVE  AcksNumbered /\ AcksHeld
  BY DEF AckInv
<1>1. ackNet = {} /\ txPrio = <<>>
  BY DEF Init
<1>2. \A s : ~Acked(s)
  BY <1>1 DEF Acked
<1>3. 1 .. Sent = {}
  BY NothingSentFirst
<1> QED
  BY <1>2, <1>3 DEF AcksNumbered, AcksHeld

\* A message the receiver has stays with it.
LEMMA HeldStays ==
    ASSUME SlotsDistinct, TypeInv, Numbering, Ordered, [Next]_vars,
           NEW m \in 1 .. Sent, Held(m)
    PROVE  Held(m)'
<1>0. /\ Sent \in Nat /\ Sent <= NumMsgs /\ m \in Nat /\ m >= 1
      /\ Len(delivered) \in Nat /\ dataChan \in Seq(Packets)
      /\ buf \in [Slots -> Packets \cup {Empty}]
  BY SentType DEF Numbering, TypeInv, TypeOK, ReaderTypeOK
<1>1. ASSUME NEW p \in Packets, RecvData(p)
      PROVE  Held(m)'
  BY <1>1 DEF RecvData, Held
<1>2. ASSUME NEW p \in Packets, Push(p)
      PROVE  Held(m)'
  <2>1. dataChan' = Append(dataChan, p) /\ pushing' = pushing \ {p}
    BY <1>2 DEF Push
  <2>2. /\ DOMAIN dataChan' = 1 .. Len(dataChan) + 1
        /\ DOMAIN dataChan = 1 .. Len(dataChan)
        /\ dataChan'[Len(dataChan) + 1] = p
        /\ \A i \in DOMAIN dataChan : dataChan'[i] = dataChan[i]
    BY <1>0, <2>1
  <2>3. Len(dataChan) + 1 \in DOMAIN dataChan' /\ DOMAIN dataChan \subseteq DOMAIN dataChan'
    BY <1>0, <2>2
  <2>4. UNCHANGED <<delivered, buf>>
    BY <1>2 DEF Push
  <2> QED
    BY <2>1, <2>2, <2>3, <2>4 DEF Held
<1>3. CASE NextBuffered
  <2>1. /\ buf[Slot(rNext)].msg = Len(delivered) + 1
        /\ Ordered' /\ Len(delivered') = Len(delivered) + 1
    BY <1>3, BufferedExpected, ReturnOrdered DEF NextBuffered, sender, Sent
  <2>2. /\ buf' = [buf EXCEPT ![Slot(rNext)] = Empty]
        /\ UNCHANGED <<pushing, dataChan>>
    BY <1>3 DEF NextBuffered
  <2>3. \A i \in Slots : i = Slot(rNext) \/ buf'[i] = buf[i]
    BY <1>0, <2>2
  <2>4. m <= Len(delivered) => m <= Len(delivered')
    BY <1>0, <2>1
  <2>5. m = Len(delivered) + 1 => m <= Len(delivered')
    BY <1>0, <2>1
  <2> QED
    BY <2>1, <2>2, <2>3, <2>4, <2>5 DEF Held
<1>4. CASE NextFromChan
  <2>1. /\ dataChan # <<>> /\ dataChan' = Tail(dataChan) /\ pushing' = pushing
    BY <1>4 DEF NextFromChan
  <2>2. /\ DOMAIN dataChan = 1 .. Len(dataChan) /\ Head(dataChan) = dataChan[1]
        /\ DOMAIN dataChan' = 1 .. Len(dataChan) - 1
        /\ \A i \in DOMAIN dataChan' : dataChan'[i] = dataChan[i + 1]
        /\ Head(dataChan) \in Packets
        /\ Len(dataChan) \in Nat /\ Len(dataChan) > 0
    BY <1>0, <2>1
  <2>3. \A i \in DOMAIN dataChan : i = 1 \/ i - 1 \in DOMAIN dataChan'
    BY <2>2
  <2>4. \A i \in DOMAIN dataChan : i = 1 \/ dataChan'[i - 1] = dataChan[i]
    BY <2>2, <2>3
  <2>5. CASE Head(dataChan).seq = rNext
    <3>1. /\ Head(dataChan).msg = Len(delivered) + 1
          /\ Ordered' /\ Len(delivered') = Len(delivered) + 1
      BY <1>4, <2>5, FromChanExpected, ReturnOrdered DEF NextFromChan, sender, Sent
    <3>2. buf' = buf
      BY <1>4, <2>5 DEF NextFromChan
    <3>3. m <= Len(delivered) => m <= Len(delivered')
      BY <1>0, <3>1
    <3>4. m = Len(delivered) + 1 => m <= Len(delivered')
      BY <1>0, <3>1
    <3> QED
      BY <2>1, <2>2, <2>3, <2>4, <3>1, <3>2, <3>3, <3>4 DEF Held
  <2>6. CASE Head(dataChan).seq # rNext
    <3> DEFINE p == Head(dataChan)
    <3>1. /\ buf' = [buf EXCEPT ![Slot(p.seq)] = p]
          /\ delivered' = delivered
      BY <1>4, <2>6 DEF NextFromChan
    <3>2. Slot(p.seq) \in Slots /\ Numbered(p)
      <4>1. p.seq \in SeqNrs
        BY <2>2 DEF Packets
      <4>2. 1 \in 1 .. Len(dataChan)
        BY <2>2
      <4> QED
        BY <2>2, <4>1, <4>2, SlotType DEF Numbering, PacketsNumbered
    <3>3. buf'[Slot(p.seq)] = p /\ \A i \in Slots : i = Slot(p.seq) \/ buf'[i] = buf[i]
      BY <1>0, <3>1, <3>2
    <3>4. ASSUME buf[Slot(p.seq)].msg = m
          PROVE  p.msg = m
      <4> DEFINE o == buf[Slot(p.seq)]
      <4>1. o # Empty
        BY <1>0, <3>4 DEF Empty
      <4>2. Numbered(o) /\ Slot(o.seq) = Slot(p.seq)
        BY <3>2, <4>1 DEF Numbering, PacketsNumbered
      <4>3. Slot(SeqOf(o.msg)) = Slot(SeqOf(p.msg))
        BY <3>2, <4>2 DEF Numbered
      <4>4. o.msg \in 1 .. NumMsgs + 1 /\ p.msg \in 1 .. NumMsgs + 1
        BY <1>0, <3>2, <4>2, NumMsgsAssumption DEF Numbered
      <4>5. o.msg = p.msg
        BY <4>3, <4>4 DEF SlotsDistinct
      <4> QED
        BY <3>4, <4>5
    <3> HIDE DEF p
    <3>5. dataChan[1] = p
      BY <2>2 DEF p
    <3> QED
      BY <2>1, <2>2, <2>3, <2>4, <3>1, <3>2, <3>3, <3>4, <3>5 DEF Held
  <2> QED
    BY <2>5, <2>6
<1>5. CASE UNCHANGED <<delivered, pushing, dataChan, buf>>
  BY <1>5 DEF Held
<1> QED
  BY <1>1, <1>2, <1>3, <1>4, <1>5
     DEF Next, Write, Transmit, TransmitFails, Retransmit, RecvAck, LoseAck, LoseData,
         TransmitAck, vars, receiver

LEMMA AckNext ==
    ASSUME SlotsDistinct
    PROVE  TypeInv /\ NumberingInv /\ OrderInv /\ AckInv /\ [Next]_vars => AckInv'
<1> SUFFICES ASSUME TypeInv, NumberingInv, OrderInv, AckInv, [Next]_vars, writeErrs' = 0
             PROVE  AcksNumbered' /\ AcksHeld'
  BY DEF AckInv
<1>0. writeErrs = 0 /\ ~TransmitFails
  BY NoWriteFailed
<1>a. /\ Numbering /\ QueueNumbered /\ InflightNumbered /\ PacketsNumbered
      /\ Ordered /\ AcksNumbered /\ AcksHeld
  BY <1>0 DEF NumberingInv, Numbering, OrderInv, AckInv
<1>b. Sent \in Nat /\ Sent <= NumMsgs /\ txPrio \in Seq(SeqNrs)
  BY <1>a, SentType DEF TypeInv, TypeOK, NetTypeOK
<1>c. \A m \in 1 .. Sent : Held(m) => Held(m)'
  BY <1>a, HeldStays
<1>d. \A m, n \in 1 .. Sent : SeqOf(m) = SeqOf(n) => m = n
  BY <1>b, NumbersDistinct, NumMsgsAssumption
<1>1. CASE Transmit
  <2>1. /\ Sent' = Sent + 1 /\ Sent + 1 \in Msgs
        /\ nextSeq = SeqOf(Sent + 1)
    BY <1>1, <1>a, TransmitNumbers
  <2>2. \A s : Acked(s)' <=> Acked(s)
    BY <1>1 DEF Transmit, receiver, Acked
  <2>3. DOMAIN inflight' = DOMAIN inflight \cup {nextSeq}
    BY <1>1 DEF Transmit, Register, With
  <2>4. AcksNumbered'
    BY <1>a, <1>b, <2>1, <2>2 DEF AcksNumbered
  <2>5. ~Acked(nextSeq)
    <3>1. ASSUME NEW m \in 1 .. Sent, nextSeq = SeqOf(m)
          PROVE  FALSE
      <4>1. m \in 1 .. NumMsgs /\ Sent + 1 \in 1 .. NumMsgs
        BY <1>b, <2>1, NumMsgsAssumption DEF Msgs
      <4>2. m = Sent + 1
        BY <2>1, <3>1, <4>1, NumbersDistinct
      <4> QED
        BY <1>b, <4>2
    <3> QED
      BY <1>a, <3>1 DEF AcksNumbered
  <2>6. ASSUME NEW m \in 1 .. Sent'
        PROVE  Held(m)' \/ (SeqOf(m) \in DOMAIN inflight' /\ ~Acked(SeqOf(m))')
    <3>1. CASE m = Sent + 1
      BY <2>1, <2>2, <2>3, <2>5, <3>1
    <3>2. CASE m \in 1 .. Sent
      BY <1>a, <1>c, <2>2, <2>3, <3>2 DEF AcksHeld
    <3> QED
      BY <1>b, <2>1, <3>1, <3>2
  <2> QED
    BY <2>4, <2>6 DEF AcksHeld
<1>2. ASSUME UNCHANGED Sent, DOMAIN inflight' = DOMAIN inflight,
             \A s : Acked(s)' => Acked(s)
      PROVE  AcksNumbered' /\ AcksHeld'
  BY <1>2, <1>a, <1>c DEF AcksNumbered, AcksHeld
<1>3. CASE Write
  <2>1. Sent' = Sent
    BY <1>3, <1>a, WriteNumbers
  <2> QED
    BY <1>2, <1>3, <2>1 DEF Write, receiver, Acked
<1>4. ASSUME NEW s \in SeqNrs, Retransmit(s)
      PROVE  AcksNumbered' /\ AcksHeld'
  BY <1>2, <1>4 DEF Retransmit, With, receiver, Acked, Sent
<1>5. ASSUME NEW s \in SeqNrs, RecvAck(s)
      PROVE  AcksNumbered' /\ AcksHeld'
  <2>1. UNCHANGED <<Sent, txPrio>>
    BY <1>5 DEF RecvAck, receiver, Sent
  <2>2. \A t : Acked(t)' => Acked(t)
    BY <1>5, <2>1 DEF RecvAck, After, Acked
  <2>3. Acked(s)
    BY <1>5 DEF RecvAck, Acked
  <2>4. DOMAIN inflight \ {s} \subseteq DOMAIN inflight'
    BY <1>5 DEF RecvAck, Without
  <2> QED
    BY <1>a, <1>c, <2>1, <2>2, <2>3, <2>4 DEF AcksNumbered, AcksHeld
<1>6. ASSUME NEW p \in Packets, RecvData(p)
      PROVE  AcksNumbered' /\ AcksHeld'
  <2>1. /\ UNCHANGED <<Sent, inflight, ackNet>> /\ txPrio' = Append(txPrio, p.seq)
        /\ p \in pushing' /\ Numbered(p)
    BY <1>6, <1>a DEF RecvData, sender, Sent, PacketsNumbered
  <2>2. \A t : Acked(t)' => Acked(t) \/ t = p.seq
    <3>1. \A i \in DOMAIN txPrio' :
              txPrio'[i] = p.seq \/ (i \in DOMAIN txPrio /\ txPrio'[i] = txPrio[i])
      <4>1. p.seq \in SeqNrs
        BY DEF Packets
      <4> QED
        BY <1>b, <2>1, <4>1
    <3> QED
      BY <2>1, <3>1 DEF Acked
  <2>3. AcksNumbered'
    BY <1>a, <2>1, <2>2 DEF AcksNumbered, Numbered
  <2>4. ASSUME NEW m \in 1 .. Sent
        PROVE  Held(m)' \/ (SeqOf(m) \in DOMAIN inflight' /\ ~Acked(SeqOf(m))')
    <3>1. CASE SeqOf(m) = p.seq
      <4>1. m = p.msg
        BY <1>d, <2>1, <3>1 DEF Numbered
      <4> QED
        BY <2>1, <4>1 DEF Held
    <3>2. CASE SeqOf(m) # p.seq
      BY <1>a, <1>c, <2>1, <2>2, <3>2 DEF AcksHeld
    <3> QED
      BY <3>1, <3>2
  <2> QED
    BY <2>1, <2>3, <2>4 DEF AcksHeld
<1>7. CASE TransmitAck
  <2>1. /\ UNCHANGED <<Sent, inflight>>
        /\ txPrio # <<>> /\ txPrio' = Tail(txPrio) /\ ackNet' = ackNet \cup {Head(txPrio)}
    BY <1>7 DEF TransmitAck, sender, Sent
  <2>2. /\ 1 \in DOMAIN txPrio /\ Head(txPrio) = txPrio[1]
        /\ \A i \in DOMAIN txPrio' : i + 1 \in DOMAIN txPrio /\ txPrio'[i] = txPrio[i + 1]
    BY <1>b, <2>1
  <2>3. \A t : Acked(t)' => Acked(t)
    BY <2>1, <2>2 DEF Acked
  <2> QED
    BY <1>2, <2>1, <2>3
<1>8. ASSUME UNCHANGED <<sender, ackNet, txPrio>>
      PROVE  AcksNumbered' /\ AcksHeld'
  BY <1>2, <1>8 DEF sender, Sent, Acked
<1>9. ASSUME NEW s \in SeqNrs, LoseAck(s)
      PROVE  AcksNumbered' /\ AcksHeld'
  BY <1>2, <1>9 DEF LoseAck, sender, receiver, Sent, Acked
<1> QED
  BY <1>0, <1>1, <1>3, <1>4, <1>5, <1>6, <1>7, <1>8, <1>9
     DEF Next, LoseData, Push, NextBuffered, NextFromChan, vars, receiver

LEMMA AckInvariant == SlotsDistinct => (Spec => []AckInv)
<1> SUFFICES ASSUME SlotsDistinct
             PROVE  Spec => []AckInv
  OBVIOUS
<1>1. TypeInv /\ NumberingInv /\ OrderInv /\ AckInv /\ [Next]_vars => AckInv'
  BY AckNext
<1> QED
  BY TypeInvariant, NumberingInvariant, OrderInvariant, AckInit, <1>1, PTL DEF Spec

\* Under the same conditions no message is lost: one that is no longer in
\* flight, so that nobody sends it again, has reached the receiver.
THEOREM NothingLost == SlotsDistinct /\ MaxWriteErrors = 0 => (Spec => []AckedIsHeld)
<1> SUFFICES ASSUME SlotsDistinct, MaxWriteErrors = 0
             PROVE  Spec => []AckedIsHeld
  OBVIOUS
<1>1. TypeInv /\ NumberingInv /\ AckInv => AckedIsHeld
  <2> SUFFICES ASSUME TypeInv, NumberingInv, AckInv,
                      NEW m \in 1 .. Sent, SeqOf(m) \in DOMAIN inflight
               PROVE  inflight[SeqOf(m)].msg = m
    BY DEF AckedIsHeld, AckInv, AcksHeld, TypeInv, TypeOK, ControlTypeOK
  <2>1. Numbering
    BY DEF TypeInv, TypeOK, ControlTypeOK, NumberingInv
  <2>2. /\ inflight[SeqOf(m)].msg \in 1 .. Sent
        /\ SeqOf(m) = SeqOf(inflight[SeqOf(m)].msg)
    BY <2>1 DEF Numbering, InflightNumbered
  <2>3. Sent <= NumMsgs /\ Sent \in Nat
    BY <2>1, SentType DEF Numbering
  <2> QED
    BY <2>2, <2>3, NumbersDistinct, NumMsgsAssumption
<1> QED
  BY TypeInvariant, NumberingInvariant, AckInvariant, <1>1, PTL

-----------------------------------------------------------------------------
(* The exact pipe: a fresh number is not in use, so nothing is overwritten.  *)

LEMMA ExactInit == Init => PipeExact
<1> SUFFICES ASSUME Init
             PROVE  pipe = Cardinality(DOMAIN inflight)
  BY DEF PipeExact
<1>1. DOMAIN inflight = {} /\ pipe = 0
  BY DEF Init
<1> QED
  BY <1>1, FS_EmptySet

LEMMA ExactNext ==
    ASSUME SlotsDistinct
    PROVE  TypeInv /\ NumberingInv /\ PipeExact /\ [Next]_vars => PipeExact'
<1> SUFFICES ASSUME TypeInv, NumberingInv, PipeExact, [Next]_vars, writeErrs' = 0
             PROVE  pipe' = Cardinality(DOMAIN inflight')
  BY DEF PipeExact
<1>0. writeErrs = 0 /\ ~TransmitFails
  BY NoWriteFailed
<1>a. /\ QueueNumbered /\ InflightNumbered /\ ControlTypeOK
      /\ pipe = Cardinality(DOMAIN inflight) /\ pipe \in Nat
  BY <1>0 DEF NumberingInv, Numbering, PipeExact, TypeInv, TypeOK, ControlTypeOK
<1>1. CASE Transmit
  <2>1. /\ Sent \in Nat /\ Sent + 1 \in Msgs /\ nextSeq = SeqOf(Sent + 1)
    BY <1>1, <1>a, TransmitNumbers
  <2>2. nextSeq \notin DOMAIN inflight
    <3> SUFFICES ASSUME nextSeq \in DOMAIN inflight
                 PROVE  FALSE
      OBVIOUS
    <3> DEFINE m == inflight[nextSeq].msg
    <3>1. SeqOf(m) = SeqOf(Sent + 1)
      BY <1>a, <2>1 DEF InflightNumbered
    <3>4. m \in 1 .. Sent
      BY <1>a DEF InflightNumbered
    <3> HIDE DEF m
    <3>2. m \in 1 .. NumMsgs /\ Sent + 1 \in 1 .. NumMsgs
      <4>1. Sent + 1 \in 1 .. NumMsgs
        BY <2>1 DEF Msgs
      <4> QED
        BY <2>1, <3>4, <4>1, NumMsgsAssumption
    <3>3. m = Sent + 1
      BY <3>1, <3>2, NumbersDistinct
    <3> QED
      BY <2>1, <3>3, <3>4
  <2> QED
    BY <1>1, <1>a, <2>2, WithCardinality DEF Transmit, Register
<1>2. ASSUME NEW s \in SeqNrs, Retransmit(s)
      PROVE  pipe' = Cardinality(DOMAIN inflight')
  BY <1>2, <1>a, WithCardinality DEF Retransmit
<1>3. ASSUME NEW s \in SeqNrs, RecvAck(s)
      PROVE  pipe' = Cardinality(DOMAIN inflight')
  <2>1. CASE s \in DOMAIN inflight
    <3>1. inflight' = Without(inflight, s) /\ pipe' = AfterAcks(pipe, 1)
      BY <1>3, <2>1 DEF RecvAck
    <3>2. /\ Cardinality(DOMAIN inflight') = Cardinality(DOMAIN inflight) - 1
          /\ Cardinality(DOMAIN inflight) > 0
      BY <1>a, <2>1, <3>1, WithoutCardinality
    <3> QED
      BY <1>a, <3>1, <3>2 DEF AfterAcks
  <2>2. CASE s \notin DOMAIN inflight
    BY <1>3, <1>a, <2>2 DEF RecvAck
  <2> QED
    BY <2>1, <2>2
<1>4. CASE UNCHANGED <<inflight, pipe>>
  BY <1>4, <1>a
<1> QED
  BY <1>0, <1>1, <1>2, <1>3, <1>4
     DEF Next, Write, LoseAck, LoseData, RecvData, Push,
         TransmitAck, NextBuffered, NextFromChan, vars, sender

\* While no write has failed the pipe is the number of packets awaiting an ack:
\* acks, however often and in whatever order they come, leak no window.
THEOREM PipeIsExact == SlotsDistinct => (Spec => []PipeExact)
<1> SUFFICES ASSUME SlotsDistinct
             PROVE  Spec => []PipeExact
  OBVIOUS
<1>1. TypeInv /\ NumberingInv /\ PipeExact /\ [Next]_vars => PipeExact'
  BY ExactNext
<1> QED
  BY TypeInvariant, NumberingInvariant, ExactInit, <1>1, PTL DEF Spec
=============================================================================
