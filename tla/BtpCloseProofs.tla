--------------------------- MODULE BtpCloseProofs ---------------------------
(***************************************************************************)
(* What holds of BtpClose for any number of writes and retransmissions and *)
(* any window, whoever writes, closes and times out.                       *)
(*                                                                         *)
(* IInv relates what is in the network, in the queue of acks and in        *)
(* inflightPackets to what the receiving side has got, and says which acks *)
(* may still be queued when a run loop is past its test for termination.   *)
(***************************************************************************)
EXTENDS BtpClose, TLAPS

Fields == {"run", "pc", "term", "timer", "app", "rx", "heard", "written", "txChan",
           "txPrioChan", "next", "tries", "closeNr", "pushing", "got"}

IsSide(r) ==
    /\ DOMAIN r = Fields
    /\ r.run \in {"running", "broken", "torn", "crashed"}
    /\ r.pc \in {"select", "check", "teardown"} /\ r.term \in BOOLEAN
    /\ r.timer \in {"off", "armed", "fired"}
    /\ r.app \in {"idle", "waiting", "closed", "failed"}
    /\ r.rx \in {"reading", "waiting", "stopped"} /\ r.heard \in BOOLEAN
    /\ {r.written, r.txChan, r.next, r.closeNr} \subseteq Nat
    /\ r.txPrioChan \in Seq(Nat)

Types == DOMAIN side = Sides /\ \A s \in Sides : IsSide(side[s])

\* The packets written are queued or have a number, and so has the Close packet.
Counted(s) == LET r == side[s] IN
    /\ r.txChan <= r.written /\ r.written <= MaxWrites
    /\ r.next = 1 + (r.written - r.txChan) + (IF r.closeNr = 0 THEN 0 ELSE 1)
    /\ r.closeNr < r.next
    /\ r.app = "idle" => r.closeNr = 0

Limited(s) ==
    /\ Unacked(s) \subseteq 1 .. side[s].next - 1
    /\ \A nr \in Unacked(s) : /\ side[s].tries[nr] \in 0 .. MaxRetransmits + 1
                              /\ Up(s) => side[s].tries[nr] <= MaxRetransmits

\* What side s got of its peer.
Buffered(s) == side[s].got \cup side[s].pushing
Queued(s)   == {side[s].txPrioChan[i] : i \in DOMAIN side[s].txPrioChan}

\* The peer's packet nr reached side s.
Received(s, nr) ==
    /\ nr \in 1 .. side[Peer(s)].next - 1
    /\ IF nr = side[Peer(s)].closeNr THEN side[s].heard ELSE nr \in Buffered(s)

Acked(s) == \A nr \in 1 .. side[s].next - 1 : nr \notin Unacked(s) => Received(Peer(s), nr)

Got(s) == /\ \A nr \in Queued(s) : Received(s, nr)
          /\ Buffered(s) \subseteq 1 .. side[Peer(s)].next - 1

\* Once the run loop has passed its test with empty queues, only acks of Data are
\* queued, or the receive loop waits to signal a Close that came too late.
Answered(s) ==
    /\ side[s].run = "torn" => side[s].rx = "stopped"
    /\ (/\ side[s].run = "torn" \/ (Up(s) /\ side[s].pc = "teardown")
       /\ side[s].timer # "fired" /\ side[s].rx # "waiting")
       => side[Peer(s)].closeNr \notin Queued(s)

MsgOK(m) == LET p == side[Peer(m.to)] IN
    /\ m.to \in Sides /\ m.type \in {"data", "ack", "close"}
    /\ m.type = "data" => m.nr \in 1 .. p.next - 1 /\ m.nr # p.closeNr
    /\ m.type = "close" => m.nr = p.closeNr /\ m.nr \in 1 .. p.next - 1
    /\ m.type = "ack" => Received(Peer(m.to), m.nr)

SideOK(s) == Counted(s) /\ Limited(s) /\ Acked(s) /\ Got(s) /\ Answered(s)

IInv == Types /\ (\A s \in Sides : SideOK(s)) /\ \A m \in net : MsgOK(m)

-----------------------------------------------------------------------------
(* Helpers. *)

LEMMA TwoSides ==
    ASSUME NEW s \in Sides
    PROVE  /\ Peer(s) \in Sides /\ Peer(Peer(s)) = s /\ Peer(s) # s
           /\ \A t \in Sides : t = s \/ t = Peer(s)
  BY DEF Sides, Peer

LEMMA SideFacts ==
    ASSUME IInv, NEW s \in Sides
    PROVE  IsSide(side[s]) /\ SideOK(s) /\ DOMAIN side = Sides
           /\ side[s].next \in Nat /\ side[s].closeNr \in Nat
           /\ side[s].written \in Nat /\ side[s].txChan \in Nat
  BY DEF IInv, Types, IsSide

\* What a step of side s never takes back.
Grows(s) == LET old == side[s]
                new == side'[s] IN
    /\ old.next <= new.next
    /\ \/ new.closeNr = old.closeNr
       \/ old.closeNr = 0 /\ new.closeNr = old.next /\ old.next < new.next
    /\ old.heard => new.heard
    /\ Buffered(s) \subseteq Buffered(s)'

LEMMA ReceivedStays ==
    ASSUME Types, Types', \A t \in Sides : Grows(t), NEW s \in Sides, NEW nr, Received(s, nr)
    PROVE  Received(s, nr)'
<1> DEFINE p == side[Peer(s)]
<1>1. Grows(s) /\ Grows(Peer(s)) /\ p.next \in Nat /\ p.closeNr \in Nat
      /\ side'[Peer(s)].next \in Nat
  BY TwoSides DEF Types, IsSide
<1>2. nr \in 1 .. side'[Peer(s)].next - 1
  BY <1>1 DEF Received, Grows
<1>3. CASE nr = p.closeNr
  <2>1. side'[Peer(s)].closeNr = p.closeNr /\ side'[s].heard
    BY <1>1, <1>3 DEF Received, Grows
  <2> QED
    BY <1>2, <1>3, <2>1 DEF Received
<1>4. CASE nr # p.closeNr
  <2>1. side'[Peer(s)].closeNr # nr /\ nr \in Buffered(s)'
    BY <1>1, <1>4 DEF Received, Grows
  <2> QED
    BY <1>2, <2>1 DEF Received
<1> QED
  BY <1>3, <1>4

\* A step of side s, for which it is enough to look at s and what it adds.
LEMMA SideStep ==
    ASSUME IInv, NEW s \in Sides, DOMAIN side' = Sides, IsSide(side'[s]),
           side'[Peer(s)] = side[Peer(s)], Grows(s), Counted(s)', Limited(s)',
           \A nr \in 1 .. side'[s].next - 1 : nr \notin Unacked(s)' =>
               \/ nr \in 1 .. side[s].next - 1 /\ nr \notin Unacked(s)
               \/ Received(Peer(s), nr),
           \A nr \in Queued(s)' : nr \in Queued(s) \/ Received(s, nr)',
           \A nr \in Buffered(s)' : nr \in Buffered(s) \/ nr \in 1 .. side[Peer(s)].next - 1,
           Answered(s)', \A m \in net' \ net : MsgOK(m)'
    PROVE  IInv'
<1> DEFINE t == Peer(s)
<1>1. /\ t \in Sides /\ Peer(t) = s /\ t # s /\ \A u \in Sides : u = s \/ u = t
      /\ side'[t] = side[t]
  BY TwoSides
<1>2. /\ IsSide(side[s]) /\ IsSide(side[t]) /\ SideOK(s) /\ SideOK(t)
      /\ side[s].next \in Nat /\ side'[s].next \in Nat /\ Types
  BY <1>1, SideFacts DEF IsSide, IInv
<1> HIDE DEF t
<1>3. Types'
  BY <1>1, <1>2 DEF Types
<1>4. Grows(t)
  BY <1>1, <1>2 DEF Grows, Buffered, IsSide
<1>5. \A u \in Sides : Grows(u)
  BY <1>1, <1>4
<1>6. \A u \in Sides : \A nr : Received(u, nr) => Received(u, nr)'
  BY <1>2, <1>3, <1>5, ReceivedStays
<1>7. Counted(s)' /\ Counted(t)' /\ Limited(s)' /\ Limited(t)' /\ Answered(s)'
  <2>1. Counted(t)'
    BY <1>1, <1>2 DEF SideOK, Counted
  <2>2. Limited(t)'
    BY <1>1, <1>2 DEF SideOK, Limited, Unacked, Up
  <2> QED
    BY <2>1, <2>2
<1>8. Acked(s)'
  <2>1. ASSUME NEW nr \in 1 .. side'[s].next - 1, nr \notin Unacked(s)'
        PROVE  Received(t, nr)'
    <3>1. Received(t, nr)
      BY <1>1, <1>2, <2>1 DEF SideOK, Acked, t
    <3> QED
      BY <1>1, <1>6, <3>1
  <2> QED
    BY <2>1 DEF Acked, t
<1>9. Acked(t)'
  <2>1. ASSUME NEW nr \in 1 .. side'[t].next - 1, nr \notin Unacked(t)'
        PROVE  Received(s, nr)'
    <3>1. Received(s, nr)
      BY <1>1, <1>2, <2>1 DEF SideOK, Acked, Unacked
    <3> QED
      BY <1>6, <3>1
  <2> QED
    BY <1>1, <2>1 DEF Acked
<1>10. Got(s)'
  <2>1. \A nr \in Queued(s)' : Received(s, nr)'
    BY <1>2, <1>6 DEF SideOK, Got
  <2>2. Buffered(s)' \subseteq 1 .. side'[t].next - 1
    BY <1>1, <1>2 DEF SideOK, Got, t
  <2> QED
    BY <2>1, <2>2 DEF Got, t
<1>11. Got(t)'
  <2>1. \A nr \in Queued(t)' : Received(t, nr)'
    BY <1>1, <1>2, <1>6 DEF SideOK, Got, Queued
  <2>2. Buffered(t)' \subseteq 1 .. side'[s].next - 1
    BY <1>1, <1>2 DEF SideOK, Got, Buffered, Grows
  <2> QED
    BY <1>1, <2>1, <2>2 DEF Got
<1>12. Answered(t)'
  <2>1. \A nr \in Queued(t) : nr \in 1 .. side[s].next - 1
    BY <1>1, <1>2 DEF SideOK, Got, Received
  <2>2. side'[s].closeNr \in Queued(t) => side[s].closeNr \in Queued(t)
    BY <1>2, <2>1 DEF Grows
  <2>3. Queued(t)' = Queued(t) /\ (Up(t)' <=> Up(t))
    BY <1>1 DEF Queued, Up
  <2> QED
    BY <1>1, <1>2, <2>2, <2>3 DEF SideOK, Answered
<1>13. ASSUME NEW m \in net' \cap net
       PROVE  MsgOK(m)'
  <2>1. MsgOK(m) /\ m.to \in Sides
    BY DEF IInv, MsgOK
  <2>2. /\ Peer(m.to) \in Sides /\ Grows(Peer(m.to)) /\ side[Peer(m.to)].next \in Nat
        /\ side'[Peer(m.to)].next \in Nat /\ side[Peer(m.to)].closeNr \in Nat
    BY <1>3, <1>5, <2>1, TwoSides, SideFacts DEF Types, IsSide
  <2>3. m.type = "ack" => Received(Peer(m.to), m.nr)'
    BY <1>6, <2>1, <2>2 DEF MsgOK
  <2>4. m.type = "data" => m.nr \in 1 .. side'[Peer(m.to)].next - 1
                           /\ m.nr # side'[Peer(m.to)].closeNr
    BY <2>1, <2>2 DEF MsgOK, Grows
  <2>5. m.type = "close" => m.nr = side'[Peer(m.to)].closeNr
                            /\ m.nr \in 1 .. side'[Peer(m.to)].next - 1
    BY <2>1, <2>2 DEF MsgOK, Grows
  <2> QED
    BY <2>1, <2>3, <2>4, <2>5 DEF MsgOK
<1> QED
  BY <1>1, <1>3, <1>7, <1>8, <1>9, <1>10, <1>11, <1>12, <1>13 DEF IInv, SideOK

\* A step that changes no queue but that of packets to send, and sends nothing.
LEMMA ControlStep ==
    ASSUME IInv, NEW s \in Sides, DOMAIN side' = Sides, IsSide(side'[s]),
           side'[Peer(s)] = side[Peer(s)], net' = net,
           side'[s].heard = side[s].heard, side'[s].txPrioChan = side[s].txPrioChan,
           side'[s].next = side[s].next, side'[s].tries = side[s].tries,
           side'[s].closeNr = side[s].closeNr, side'[s].pushing = side[s].pushing,
           side'[s].got = side[s].got,
           side'[s].run = "running" => side[s].run = "running",
           Counted(s)', Answered(s)'
    PROVE  IInv'
<1>1. SideOK(s) /\ side[s].next \in Nat
  BY SideFacts
<1>2. Grows(s)
  BY <1>1 DEF Grows, Buffered
<1>3. Limited(s)'
  BY <1>1 DEF SideOK, Limited, Unacked, Up
<1>4. Unacked(s)' = Unacked(s) /\ Queued(s)' = Queued(s) /\ Buffered(s)' = Buffered(s)
  BY DEF Unacked, Queued, Buffered
<1>5. \A nr \in 1 .. side'[s].next - 1 : nr \notin Unacked(s)' =>
         nr \in 1 .. side[s].next - 1 /\ nr \notin Unacked(s)
  BY <1>4
<1> QED
  BY <1>2, <1>3, <1>4, <1>5, SideStep

\* A panic ends the process; nothing it left behind changes.
LEMMA CrashInv ==
    ASSUME IInv, NEW s \in Sides, Crash(s), net' = net
    PROVE  IInv'
<1>1. IsSide(side[s]) /\ DOMAIN side = Sides /\ SideOK(s) /\ Peer(s) # s /\ Peer(s) \in Sides
  BY SideFacts, TwoSides
<1>2. DOMAIN side' = Sides /\ side'[Peer(s)] = side[Peer(s)]
      /\ side'[s] = [side[s] EXCEPT !.run = "crashed"]
  BY <1>1 DEF Crash
<1>3. /\ DOMAIN side'[s] = Fields /\ side'[s].run = "crashed"
      /\ \A f \in Fields \ {"run"} : side'[s][f] = side[s][f]
  BY <1>1, <1>2 DEF IsSide, Fields
<1>4. IsSide(side'[s]) /\ Counted(s)'
  BY <1>1, <1>3 DEF IsSide, Fields, SideOK, Counted
<1>5. Answered(s)'
  BY <1>3 DEF Answered, Up
<1> QED
  BY <1>2, <1>3, <1>4, <1>5, ControlStep DEF Fields

LEMMA InitInv == Init => IInv
<1> SUFFICES ASSUME Init
             PROVE  IInv
  OBVIOUS
<1>1. ASSUME NEW s \in Sides
      PROVE  /\ IsSide(side[s]) /\ side[s].run = "running" /\ side[s].pc = "select"
             /\ side[s].app = "idle" /\ side[s].written = 0 /\ side[s].txChan = 0
             /\ side[s].txPrioChan = <<>> /\ side[s].next = 1 /\ side[s].tries = <<>>
             /\ side[s].closeNr = 0 /\ side[s].pushing = {} /\ side[s].got = {}
  <2>1. side[s] = [run |-> "running", pc |-> "select", term |-> FALSE, timer |-> "off",
                   app |-> "idle", rx |-> "reading", heard |-> FALSE, written |-> 0,
                   txChan |-> 0, txPrioChan |-> <<>>, next |-> 1, tries |-> <<>>,
                   closeNr |-> 0, pushing |-> {}, got |-> {}]
    BY DEF Init
  <2>2. DOMAIN side[s] = Fields
    BY <2>1 DEF Fields
  <2>3. /\ side[s].run = "running" /\ side[s].pc = "select" /\ side[s].term = FALSE
        /\ side[s].timer = "off" /\ side[s].app = "idle" /\ side[s].rx = "reading"
        /\ side[s].heard = FALSE /\ side[s].written = 0 /\ side[s].txChan = 0
        /\ side[s].txPrioChan = <<>> /\ side[s].next = 1 /\ side[s].tries = <<>>
        /\ side[s].closeNr = 0 /\ side[s].pushing = {} /\ side[s].got = {}
    BY <2>1
  <2>4. {0, 1} \subseteq Nat /\ <<>> \in Seq(Nat)
    OBVIOUS
  <2>5. {side[s].written, side[s].txChan, side[s].next, side[s].closeNr} \subseteq Nat
        /\ side[s].txPrioChan \in Seq(Nat)
    BY <2>3, <2>4
  <2>6. IsSide(side[s])
    BY <2>2, <2>3, <2>5 DEF IsSide
  <2> QED
    BY <2>3, <2>6
<1>2. DOMAIN side = Sides /\ net = {}
  BY DEF Init
<1>3. ASSUME NEW s \in Sides
      PROVE  SideOK(s)
  <2>1. Peer(s) \in Sides
    BY TwoSides
  <2>2. Queued(s) = {} /\ Buffered(s) = {} /\ Unacked(s) = {}
    BY <1>1 DEF Queued, Buffered, Unacked
  <2> QED
    BY <1>1, <2>1, <2>2, LimitsAssumption
    DEF SideOK, Counted, Limited, Acked, Got, Answered, Up
<1> QED
  BY <1>1, <1>2, <1>3 DEF IInv, Types

-----------------------------------------------------------------------------
(* The application. *)

LEMMA WriteInv ==
    ASSUME IInv, NEW s \in Sides, Write(s)
    PROVE  IInv'
<1>1. IsSide(side[s]) /\ DOMAIN side = Sides /\ SideOK(s) /\ Peer(s) # s /\ Peer(s) \in Sides
      /\ side[s].written < MaxWrites /\ net' = net
  BY SideFacts, TwoSides DEF Write
<1>2. CASE side[s].run = "torn"
  BY <1>1, <1>2, CrashInv DEF Write
<1>3. CASE side[s].run # "torn"
  <2>1. side' = [side EXCEPT ![s].written = side[s].written + 1,
                             ![s].txChan = side[s].txChan + 1]
    BY <1>1, <1>3 DEF Write
  <2>2. DOMAIN side' = Sides /\ side'[Peer(s)] = side[Peer(s)]
        /\ side'[s] = [side[s] EXCEPT !.written = side[s].written + 1,
                                      !.txChan = side[s].txChan + 1]
    BY <1>1, <2>1
  <2>3. /\ DOMAIN side'[s] = Fields /\ side'[s].written = side[s].written + 1
        /\ side'[s].txChan = side[s].txChan + 1
        /\ \A f \in Fields \ {"written", "txChan"} : side'[s][f] = side[s][f]
    BY <1>1, <2>2 DEF IsSide, Fields
  <2>4. IsSide(side'[s])
    BY <1>1, <2>3 DEF IsSide, Fields
  <2>5. Counted(s)'
    BY <1>1, <2>3, LimitsAssumption, SideFacts DEF Fields, SideOK, Counted
  <2>6. Answered(s)'
    BY <1>1, <2>2, <2>3 DEF Fields, SideOK, Answered, Up, Queued
  <2> QED
    BY <1>1, <2>2, <2>3, <2>4, <2>5, <2>6, ControlStep DEF Fields
<1> QED
  BY <1>2, <1>3

\* What transmit does to the record of the side.
LEMMA TransmittedSide ==
    ASSUME NEW s \in Sides, IsSide(side[s]), Unacked(s) \subseteq 1 .. side[s].next - 1
    PROVE  LET r == Transmitted(s) IN
           /\ IsSide(r) /\ r.next = side[s].next + 1
           /\ DOMAIN r.tries = Unacked(s) \cup {side[s].next}
           /\ r.tries[side[s].next] = 0
           /\ \A nr \in Unacked(s) : r.tries[nr] = side[s].tries[nr]
           /\ \A f \in Fields \ {"next", "tries"} : r[f] = side[s][f]
<1>1. side[s].next \in Nat /\ side[s].next + 1 \in Nat /\ side[s].next \notin Unacked(s)
      /\ DOMAIN side[s] = Fields
  BY DEF IsSide
<1> DEFINE r == Transmitted(s)
           tries == [n \in Unacked(s) \cup {side[s].next} |->
                       IF n \in Unacked(s) THEN side[s].tries[n] ELSE 0]
<1>2. r = [side[s] EXCEPT !.next = side[s].next + 1, !.tries = tries]
  <2>1. [side[s] EXCEPT !.next = side[s].next + 1].tries = side[s].tries
    BY <1>1 DEF Fields
  <2> QED
    BY <1>1, <2>1 DEF Transmitted, Unacked, Fields
<1>3. /\ DOMAIN tries = Unacked(s) \cup {side[s].next} /\ tries[side[s].next] = 0
      /\ \A nr \in Unacked(s) : tries[nr] = side[s].tries[nr]
  BY <1>1
<1> HIDE DEF tries, r
<1>4. /\ DOMAIN r = Fields /\ r.next = side[s].next + 1 /\ r.tries = tries
      /\ \A f \in Fields \ {"next", "tries"} : r[f] = side[s][f]
  BY <1>1, <1>2 DEF Fields
<1>5. IsSide(r)
  BY <1>1, <1>4 DEF IsSide, Fields
<1> QED
  BY <1>3, <1>4, <1>5 DEF r

LEMMA CloseInv ==
    ASSUME IInv, NEW s \in Sides, Close(s)
    PROVE  IInv'
<1>1. IsSide(side[s]) /\ DOMAIN side = Sides /\ SideOK(s) /\ Peer(s) # s /\ Peer(s) \in Sides
      /\ side[s].app = "idle" /\ Peer(Peer(s)) = s
  BY SideFacts, TwoSides DEF Close
<1>2. CASE side[s].run = "torn"
  <2>1. net' = net /\ side' = [side EXCEPT ![s].app = "failed"]
    BY <1>2 DEF Close
  <2>2. DOMAIN side' = Sides /\ side'[Peer(s)] = side[Peer(s)]
        /\ side'[s] = [side[s] EXCEPT !.app = "failed"]
    BY <1>1, <2>1
  <2>3. /\ DOMAIN side'[s] = Fields /\ side'[s].app = "failed"
        /\ \A f \in Fields \ {"app"} : side'[s][f] = side[s][f]
    BY <1>1, <2>2 DEF IsSide, Fields
  <2>4. IsSide(side'[s])
    BY <1>1, <2>3 DEF IsSide, Fields
  <2>5. Counted(s)' /\ Answered(s)'
    BY <1>1, <2>2, <2>3 DEF Fields, SideOK, Counted, Answered, Up, Queued
  <2> QED
    BY <1>1, <2>1, <2>2, <2>3, <2>4, <2>5, ControlStep DEF Fields
<1>3. CASE side[s].run # "torn"
  <2> DEFINE r == side[s]
             t == Transmitted(s)
             n == [t EXCEPT !.app = "waiting", !.closeNr = r.next]
  <2>1. side' = [side EXCEPT ![s] = n] /\ net' = net \cup {Packet("close", Peer(s), r.next)}
    BY <1>3 DEF Close
  <2>2. DOMAIN side' = Sides /\ side'[Peer(s)] = side[Peer(s)] /\ side'[s] = n
    BY <1>1, <2>1
  <2>3. /\ IsSide(t) /\ t.next = r.next + 1 /\ DOMAIN t.tries = Unacked(s) \cup {r.next}
        /\ t.tries[r.next] = 0 /\ \A nr \in Unacked(s) : t.tries[nr] = r.tries[nr]
        /\ \A f \in Fields \ {"next", "tries"} : t[f] = r[f]
    BY <1>1, TransmittedSide DEF SideOK, Limited
  <2> HIDE DEF t
  <2>4. /\ DOMAIN n = Fields /\ n.app = "waiting" /\ n.closeNr = r.next
        /\ n.next = r.next + 1 /\ n.tries = t.tries
        /\ \A f \in Fields \ {"next", "tries", "app", "closeNr"} : n[f] = r[f]
    BY <2>3 DEF IsSide, Fields
  <2>5. r.next \in Nat /\ r.closeNr = 0 /\ r.next # 0 /\ MaxRetransmits \in Nat
    BY <1>1, SideFacts, LimitsAssumption DEF SideOK, Counted
  <2> HIDE DEF n
  <2>6. IsSide(n)
    BY <1>1, <2>4, <2>5 DEF IsSide, Fields
  <2>7. /\ n.run = r.run /\ n.pc = r.pc /\ n.timer = r.timer /\ n.rx = r.rx
        /\ n.heard = r.heard /\ n.written = r.written /\ n.txChan = r.txChan
        /\ n.txPrioChan = r.txPrioChan /\ n.pushing = r.pushing /\ n.got = r.got
    BY <2>4 DEF Fields
  <2>8. Grows(s)
    BY <2>2, <2>4, <2>5, <2>7 DEF Grows, Buffered
  <2>9. Counted(s)'
    <3>1. r.written \in Nat /\ r.txChan \in Nat
      BY SideFacts
    <3> QED
      BY <1>1, <2>2, <2>4, <2>5, <2>7, <3>1 DEF SideOK, Counted
  <2>10. Unacked(s)' = Unacked(s) \cup {r.next} /\ Queued(s)' = Queued(s)
         /\ Buffered(s)' = Buffered(s) /\ (Up(s)' <=> Up(s))
    BY <2>2, <2>3, <2>4, <2>7 DEF Unacked, Queued, Buffered, Up
  <2>11. Limited(s)'
    BY <1>1, <2>2, <2>3, <2>4, <2>5, <2>7, <2>10 DEF SideOK, Limited
  <2>12. Answered(s)'
    BY <1>1, <2>2, <2>7, <2>10 DEF SideOK, Answered
  <2>13. PICK m : m = Packet("close", Peer(s), r.next)
    OBVIOUS
  <2>14. MsgOK(m)'
    BY <1>1, <2>2, <2>4, <2>5, <2>13 DEF MsgOK, Packet
  <2>15. \A nr \in 1 .. side'[s].next - 1 : nr \notin Unacked(s)' =>
            nr \in 1 .. side[s].next - 1 /\ nr \notin Unacked(s)
    BY <2>2, <2>4, <2>5, <2>10
  <2> QED
    BY <2>1, <2>2, <2>6, <2>8, <2>9, <2>10, <2>11, <2>12, <2>13, <2>14, <2>15, SideStep
<1> QED
  BY <1>2, <1>3
-----------------------------------------------------------------------------
(* The run loop. *)

LEMMA SelectInv ==
    ASSUME IInv, NEW s \in Sides, RunSelect(s)
    PROVE  IInv'
<1>1. IsSide(side[s]) /\ DOMAIN side = Sides /\ SideOK(s) /\ Peer(s) # s /\ Peer(s) \in Sides
      /\ Up(s) /\ side[s].pc = "select" /\ Peer(Peer(s)) = s
  BY SideFacts, TwoSides DEF RunSelect
<1>2. CASE TakeClose(s)
  <2>1. PICK f \in {"app", "rx"}, v \in {"closed", "reading"} :
          /\ IF f = "app" THEN side[s].app = "waiting" /\ v = "closed" ELSE v = "reading"
          /\ side' = [side EXCEPT ![s][f] = v, ![s].pc = "check",
                                  ![s].term = TRUE, ![s].timer = "armed"]
    BY <1>2 DEF TakeClose
  <2>2. DOMAIN side' = Sides /\ side'[Peer(s)] = side[Peer(s)] /\ net' = net
        /\ side'[s] = [side[s] EXCEPT ![f] = v, !.pc = "check",
                                      !.term = TRUE, !.timer = "armed"]
    BY <1>1, <1>2, <2>1 DEF TakeClose
  <2>3. /\ DOMAIN side'[s] = Fields /\ side'[s][f] = v
        /\ side'[s].pc = "check" /\ side'[s].term = TRUE /\ side'[s].timer = "armed"
        /\ \A g \in Fields \ {f, "pc", "term", "timer"} : side'[s][g] = side[s][g]
    BY <1>1, <2>2 DEF IsSide, Fields
  <2> HIDE DEF TakeClose
  <2>a. /\ side'[s].app \in {side[s].app, "closed"} /\ side'[s].rx \in {side[s].rx, "reading"}
        /\ side'[s].app = "idle" => side[s].app = "idle"
    BY <2>1, <2>3 DEF Fields
  <2>b. /\ DOMAIN side'[s] = Fields /\ side'[s].pc = "check"
        /\ side'[s].term = TRUE /\ side'[s].timer = "armed"
        /\ side'[s].run = side[s].run /\ side'[s].heard = side[s].heard
        /\ side'[s].written = side[s].written /\ side'[s].txChan = side[s].txChan
        /\ side'[s].next = side[s].next /\ side'[s].closeNr = side[s].closeNr
        /\ side'[s].txPrioChan = side[s].txPrioChan
    BY <2>1, <2>3 DEF Fields
  <2>4. IsSide(side'[s])
    <3>1. side'[s].app \in {"idle", "waiting", "closed", "failed"}
      BY <1>1, <2>a DEF IsSide
    <3>2. side'[s].rx \in {"reading", "waiting", "stopped"}
      BY <1>1, <2>a DEF IsSide
    <3>3. /\ side[s].run \in {"running", "broken", "torn", "crashed"}
          /\ side[s].heard \in BOOLEAN /\ side[s].txPrioChan \in Seq(Nat)
      BY <1>1 DEF IsSide
    <3>4. {side'[s].written, side'[s].txChan, side'[s].next, side'[s].closeNr} \subseteq Nat
      BY <1>1, <2>b DEF IsSide
    <3> QED
      BY <2>b, <3>1, <3>2, <3>3, <3>4 DEF IsSide
  <2>5. Counted(s)'
    BY <1>1, <2>a, <2>b DEF SideOK, Counted
  <2>6. Answered(s)'
    BY <1>1, <2>3 DEF Fields, Answered, Up
  <2> QED
    BY <1>1, <2>1, <2>2, <2>3, <2>4, <2>5, <2>6, ControlStep DEF Fields
<1>3. CASE SendPrio(s)
  <2> DEFINE q == side[s].txPrioChan
  <2>1. q \in Seq(Nat) /\ q # <<>> /\ side' = [side EXCEPT ![s].txPrioChan = Tail(q), ![s].pc = "check"]
        /\ net' = net \cup {Packet("ack", Peer(s), Head(q))}
    BY <1>1, <1>3 DEF SendPrio, IsSide
  <2>2. DOMAIN side' = Sides /\ side'[Peer(s)] = side[Peer(s)]
        /\ side'[s] = [side[s] EXCEPT !.txPrioChan = Tail(q), !.pc = "check"]
    BY <1>1, <2>1
  <2>3. /\ DOMAIN side'[s] = Fields /\ side'[s].txPrioChan = Tail(q) /\ side'[s].pc = "check"
        /\ \A g \in Fields \ {"txPrioChan", "pc"} : side'[s][g] = side[s][g]
    BY <1>1, <2>2 DEF IsSide, Fields
  <2>4. Tail(q) \in Seq(Nat) /\ Head(q) \in Queued(s)
        /\ \A i \in DOMAIN Tail(q) : i + 1 \in DOMAIN q /\ Tail(q)[i] = q[i + 1]
    BY <2>1 DEF Queued
  <2>5. IsSide(side'[s])
    BY <1>1, <2>3, <2>4 DEF IsSide, Fields
  <2>6. Queued(s)' \subseteq Queued(s)
    BY <2>3, <2>4 DEF Queued
  <2>7. /\ side'[s].run = side[s].run /\ side'[s].heard = side[s].heard
        /\ side'[s].next = side[s].next /\ side'[s].tries = side[s].tries
        /\ side'[s].closeNr = side[s].closeNr /\ side'[s].pushing = side[s].pushing
        /\ side'[s].got = side[s].got /\ side'[s].written = side[s].written
        /\ side'[s].txChan = side[s].txChan /\ side'[s].app = side[s].app
    BY <2>3 DEF Fields
  <2>8. Grows(s) /\ Counted(s)' /\ Limited(s)'
    BY <1>1, <2>7, SideFacts DEF Grows, Buffered, SideOK, Counted, Limited, Unacked, Up
  <2>9. Answered(s)'
    BY <1>1, <2>3, <2>7 DEF Answered, Up
  <2>10. PICK m : m = Packet("ack", Peer(s), Head(q))
    OBVIOUS
  <2>11. Received(s, m.nr) /\ m.to = Peer(s) /\ m.type = "ack"
    BY <1>1, <2>4, <2>10 DEF SideOK, Got, Packet
  <2>12. MsgOK(m)'
    <3>1. Received(s, m.nr)'
      BY <1>1, <2>2, <2>7, <2>11 DEF Received, Buffered
    <3> QED
      BY <1>1, <2>11, <3>1 DEF MsgOK
  <2>13. Buffered(s)' = Buffered(s) /\ Unacked(s)' = Unacked(s)
    BY <2>7 DEF Buffered, Unacked
  <2>14. \A nr \in 1 .. side'[s].next - 1 : nr \notin Unacked(s)' =>
            nr \in 1 .. side[s].next - 1 /\ nr \notin Unacked(s)
    BY <2>7, <2>13
  <2> QED
    BY <2>1, <2>2, <2>5, <2>6, <2>8, <2>9, <2>10, <2>12, <2>13, <2>14, SideStep
<1>4. CASE NothingReady(s)
  <2>1. net' = net /\ side' = [side EXCEPT ![s].pc = "check"]
    BY <1>4 DEF NothingReady
  <2>2. DOMAIN side' = Sides /\ side'[Peer(s)] = side[Peer(s)]
        /\ side'[s] = [side[s] EXCEPT !.pc = "check"]
    BY <1>1, <2>1
  <2>3. /\ DOMAIN side'[s] = Fields /\ side'[s].pc = "check"
        /\ \A g \in Fields \ {"pc"} : side'[s][g] = side[s][g]
    BY <1>1, <2>2 DEF IsSide, Fields
  <2>4. IsSide(side'[s]) /\ Counted(s)'
    BY <1>1, <2>3 DEF IsSide, Fields, SideOK, Counted
  <2>5. Answered(s)'
    BY <1>1, <2>3 DEF Fields, Answered, Up
  <2> QED
    BY <1>1, <2>1, <2>2, <2>3, <2>4, <2>5, ControlStep DEF Fields
<1> QED
  BY <1>2, <1>3, <1>4 DEF RunSelect

LEMMA StopInv ==
    ASSUME IInv, NEW s \in Sides, RunStop(s)
    PROVE  IInv'
<1>1. IsSide(side[s]) /\ DOMAIN side = Sides /\ SideOK(s) /\ Peer(s) # s /\ Peer(s) \in Sides
  BY SideFacts, TwoSides
<1>2. side' = [side EXCEPT ![s].pc = "teardown"] /\ net' = net
      /\ (side[s].timer = "fired" \/ side[s].txPrioChan = <<>>)
      /\ Up(s)
  BY DEF RunStop, MayStop
<1>3. DOMAIN side' = Sides /\ side'[Peer(s)] = side[Peer(s)]
      /\ side'[s] = [side[s] EXCEPT !.pc = "teardown"]
  BY <1>1, <1>2
<1>4. /\ DOMAIN side'[s] = Fields /\ side'[s].pc = "teardown"
      /\ \A g \in Fields \ {"pc"} : side'[s][g] = side[s][g]
  BY <1>1, <1>3 DEF IsSide, Fields
<1>5. IsSide(side'[s]) /\ Counted(s)'
  BY <1>1, <1>4 DEF IsSide, Fields, SideOK, Counted
<1>6. Answered(s)'
  <2>1. side'[s].timer = side[s].timer /\ side'[s].txPrioChan = side[s].txPrioChan
        /\ side'[s].run = side[s].run
    BY <1>4 DEF Fields
  <2>2. side'[s].timer # "fired" => Queued(s)' = {}
    BY <1>2, <2>1 DEF Queued
  <2> QED
    BY <1>1, <1>2, <2>1, <2>2 DEF Answered, Up
<1> QED
  BY <1>1, <1>2, <1>3, <1>4, <1>5, <1>6, ControlStep DEF Fields

LEMMA TeardownInv ==
    ASSUME IInv, NEW s \in Sides, RunTeardown(s)
    PROVE  IInv'
<1>1. IsSide(side[s]) /\ DOMAIN side = Sides /\ SideOK(s) /\ Peer(s) # s /\ Peer(s) \in Sides
      /\ Up(s) /\ side[s].pc = "teardown" /\ net' = net
  BY SideFacts, TwoSides DEF RunTeardown
<1>2. CASE side[s].app = "waiting" \/ side[s].rx = "waiting"
  BY <1>1, <1>2, CrashInv DEF RunTeardown
<1>3. CASE ~ (side[s].app = "waiting" \/ side[s].rx = "waiting")
  <2>1. side' = [side EXCEPT ![s].run = "torn", ![s].rx = "stopped"]
    BY <1>3 DEF RunTeardown
  <2>2. DOMAIN side' = Sides /\ side'[Peer(s)] = side[Peer(s)]
        /\ side'[s] = [side[s] EXCEPT !.run = "torn", !.rx = "stopped"]
    BY <1>1, <2>1
  <2>3. /\ DOMAIN side'[s] = Fields /\ side'[s].run = "torn" /\ side'[s].rx = "stopped"
        /\ \A g \in Fields \ {"run", "rx"} : side'[s][g] = side[s][g]
    BY <1>1, <2>2 DEF IsSide, Fields
  <2>4. IsSide(side'[s]) /\ Counted(s)'
    BY <1>1, <2>3 DEF IsSide, Fields, SideOK, Counted
  <2>5. Answered(s)'
    BY <1>1, <1>3, <2>2, <2>3 DEF Fields, SideOK, Answered, Up, Queued
  <2> QED
    BY <1>1, <2>2, <2>3, <2>4, <2>5, ControlStep DEF Fields
<1> QED
  BY <1>2, <1>3

LEMMA TimerInv ==
    ASSUME IInv, NEW s \in Sides, TimerFires(s)
    PROVE  IInv'
<1>1. IsSide(side[s]) /\ DOMAIN side = Sides /\ SideOK(s) /\ Peer(s) # s /\ Peer(s) \in Sides
      /\ Up(s) /\ net' = net /\ side' = [side EXCEPT ![s].timer = "fired"]
  BY SideFacts, TwoSides DEF TimerFires
<1>2. DOMAIN side' = Sides /\ side'[Peer(s)] = side[Peer(s)]
      /\ side'[s] = [side[s] EXCEPT !.timer = "fired"]
  BY <1>1
<1>3. /\ DOMAIN side'[s] = Fields /\ side'[s].timer = "fired"
      /\ \A g \in Fields \ {"timer"} : side'[s][g] = side[s][g]
  BY <1>1, <1>2 DEF IsSide, Fields
<1>4. IsSide(side'[s]) /\ Counted(s)'
  BY <1>1, <1>3 DEF IsSide, Fields, SideOK, Counted
<1>5. Answered(s)'
  BY <1>1, <1>3 DEF Fields, Answered, Up
<1> QED
  BY <1>1, <1>2, <1>3, <1>4, <1>5, ControlStep DEF Fields

LEMMA IdleInv ==
    ASSUME IInv, NEW s \in Sides, IdleTimeout(s)
    PROVE  IInv'
<1>1. IsSide(side[s]) /\ DOMAIN side = Sides /\ SideOK(s) /\ Peer(s) # s /\ Peer(s) \in Sides
      /\ Up(s) /\ net' = net /\ side' = [side EXCEPT ![s].rx = "waiting"]
  BY SideFacts, TwoSides DEF IdleTimeout
<1>2. DOMAIN side' = Sides /\ side'[Peer(s)] = side[Peer(s)]
      /\ side'[s] = [side[s] EXCEPT !.rx = "waiting"]
  BY <1>1
<1>3. /\ DOMAIN side'[s] = Fields /\ side'[s].rx = "waiting"
      /\ \A g \in Fields \ {"rx"} : side'[s][g] = side[s][g]
  BY <1>1, <1>2 DEF IsSide, Fields
<1>4. IsSide(side'[s]) /\ Counted(s)'
  BY <1>1, <1>3 DEF IsSide, Fields, SideOK, Counted
<1>5. Answered(s)'
  BY <1>1, <1>3 DEF Fields, Answered, Up
<1> QED
  BY <1>1, <1>2, <1>3, <1>4, <1>5, ControlStep DEF Fields
-----------------------------------------------------------------------------
(* The receive loop. *)

LEMMA AppendRange ==
    ASSUME NEW q \in Seq(Nat), NEW n \in Nat, NEW r, r = Append(q, n)
    PROVE  /\ r \in Seq(Nat) /\ DOMAIN r = DOMAIN q \cup {Len(q) + 1} /\ r[Len(q) + 1] = n
           /\ \A i \in DOMAIN q : r[i] = q[i]
  OBVIOUS

\* What a step of the receive loop leaves alone.
LEMMA RecvStep ==
    ASSUME IInv, NEW s \in Sides, DOMAIN side' = Sides, IsSide(side'[s]),
           side'[Peer(s)] = side[Peer(s)], net' \subseteq net,
           side'[s].run = side[s].run, side'[s].pc = side[s].pc,
           side'[s].timer = side[s].timer, side'[s].app = side[s].app,
           side'[s].written = side[s].written, side'[s].txChan = side[s].txChan,
           side'[s].next = side[s].next, side'[s].closeNr = side[s].closeNr,
           side[s].run \in {"running", "broken"},
           side[s].heard => side'[s].heard, Buffered(s) \subseteq Buffered(s)',
           DOMAIN side'[s].tries \subseteq Unacked(s),
           \A nr \in DOMAIN side'[s].tries : side'[s].tries[nr] = side[s].tries[nr],
           \A nr \in Unacked(s) \ DOMAIN side'[s].tries : Received(Peer(s), nr),
           \A nr \in Queued(s)' : nr \in Queued(s) \/ Received(s, nr)',
           \A nr \in Buffered(s)' : nr \in Buffered(s) \/ nr \in 1 .. side[Peer(s)].next - 1,
           side[s].rx # "waiting",
           side'[s].rx # "waiting" /\ side[Peer(s)].closeNr \in Queued(s)' =>
               side[Peer(s)].closeNr \in Queued(s)
    PROVE  IInv'
<1>1. IsSide(side[s]) /\ SideOK(s) /\ side[s].next \in Nat
  BY SideFacts
<1>3. Grows(s) /\ Counted(s)'
  BY <1>1 DEF Grows, SideOK, Counted
<1>4. Limited(s)'
  BY <1>1 DEF SideOK, Limited, Unacked, Up
<1>5. Answered(s)'
  BY <1>1 DEF SideOK, Answered, Up
<1>6. \A nr \in 1 .. side'[s].next - 1 : nr \notin Unacked(s)' =>
         \/ nr \in 1 .. side[s].next - 1 /\ nr \notin Unacked(s)
         \/ Received(Peer(s), nr)
  BY DEF Unacked
<1>7. \A m \in net' \ net : MsgOK(m)'
  OBVIOUS
<1> QED
  BY <1>3, <1>4, <1>5, <1>6, <1>7, SideStep

LEMMA RecvDataInv ==
    ASSUME IInv, NEW s \in Sides, NEW m \in net, RecvData(s, m)
    PROVE  IInv'
<1> DEFINE q == side[s].txPrioChan
<1>1. /\ IsSide(side[s]) /\ DOMAIN side = Sides /\ Peer(s) # s /\ Peer(s) \in Sides
      /\ side[s].run \in {"running", "broken"} /\ side[s].rx = "reading"
      /\ m.type = "data" /\ m.to = s /\ net' \subseteq net
      /\ side[Peer(s)].next \in Nat
  BY SideFacts, TwoSides DEF RecvData, Arrives
<1>2. m.nr \in 1 .. side[Peer(s)].next - 1 /\ m.nr # side[Peer(s)].closeNr
  BY <1>1 DEF IInv, MsgOK
<1>3. PICK v \in {"reading", "stopped"} :
        side' = [side EXCEPT ![s].txPrioChan = Append(q, m.nr),
                             ![s].pushing = side[s].pushing \cup {m.nr}, ![s].rx = v]
  BY <1>1 DEF RecvData, NextRx
<1>4. DOMAIN side' = Sides /\ side'[Peer(s)] = side[Peer(s)]
      /\ side'[s] = [side[s] EXCEPT !.txPrioChan = Append(q, m.nr),
                                    !.pushing = side[s].pushing \cup {m.nr}, !.rx = v]
  BY <1>1, <1>3
<1>5. /\ DOMAIN side'[s] = Fields /\ side'[s].txPrioChan = Append(q, m.nr)
      /\ side'[s].pushing = side[s].pushing \cup {m.nr} /\ side'[s].rx = v
      /\ \A f \in Fields \ {"txPrioChan", "pushing", "rx"} : side'[s][f] = side[s][f]
  BY <1>1, <1>4 DEF IsSide, Fields
<1>6. q \in Seq(Nat) /\ m.nr \in Nat
  BY <1>1, <1>2 DEF IsSide
<1>7. side'[s].txPrioChan \in Seq(Nat) /\ Queued(s)' = Queued(s) \cup {m.nr}
  <2>1. PICK r : r = Append(q, m.nr)
    OBVIOUS
  <2>2. r \in Seq(Nat) /\ {r[i] : i \in DOMAIN r} = {q[i] : i \in DOMAIN q} \cup {m.nr}
    <3> HIDE DEF q
    <3>1. /\ r \in Seq(Nat) /\ DOMAIN r = DOMAIN q \cup {Len(q) + 1} /\ r[Len(q) + 1] = m.nr
          /\ \A i \in DOMAIN q : r[i] = q[i]
      BY <1>6, <2>1, AppendRange
    <3> QED
      BY <3>1
  <2>3. side'[s].txPrioChan = r
    BY <1>5, <2>1
  <2> QED
    BY <2>2, <2>3 DEF Queued
<1>8. IsSide(side'[s])
  <2>1. IsSide(side[s])
    BY <1>1
  <2> QED
    BY <1>5, <1>7, <2>1 DEF IsSide, Fields
<1>9. /\ side'[s].heard = side[s].heard /\ side'[s].tries = side[s].tries
      /\ Buffered(s)' = Buffered(s) \cup {m.nr}
      /\ side'[s].run = side[s].run /\ side'[s].pc = side[s].pc
      /\ side'[s].timer = side[s].timer /\ side'[s].app = side[s].app
      /\ side'[s].written = side[s].written /\ side'[s].txChan = side[s].txChan
      /\ side'[s].next = side[s].next /\ side'[s].closeNr = side[s].closeNr
  BY <1>5 DEF Fields, Buffered
<1>10. Received(s, m.nr)'
  BY <1>2, <1>4, <1>9 DEF Received
<1>11. DOMAIN side'[s].tries = Unacked(s)
  BY <1>9 DEF Unacked
<1>12. side[s].rx # "waiting"
       /\ (side[Peer(s)].closeNr \in Queued(s)' => side[Peer(s)].closeNr \in Queued(s))
  BY <1>1, <1>2, <1>7
<1>13. /\ side[s].heard => side'[s].heard
       /\ Buffered(s) \subseteq Buffered(s)' /\ DOMAIN side'[s].tries \subseteq Unacked(s)
       /\ \A nr \in DOMAIN side'[s].tries : side'[s].tries[nr] = side[s].tries[nr]
       /\ \A nr \in Unacked(s) \ DOMAIN side'[s].tries : Received(Peer(s), nr)
       /\ \A nr \in Buffered(s)' : nr \in Buffered(s) \/ nr \in 1 .. side[Peer(s)].next - 1
       /\ side'[s].rx # "waiting" /\ side[Peer(s)].closeNr \in Queued(s)' =>
               side[Peer(s)].closeNr \in Queued(s)
  BY <1>2, <1>9, <1>11, <1>12
<1>14. \A nr \in Queued(s)' : nr \in Queued(s) \/ Received(s, nr)'
  BY <1>7, <1>10
<1>15. DOMAIN side' = Sides /\ side'[Peer(s)] = side[Peer(s)] /\ net' \subseteq net
       /\ side[s].run \in {"running", "broken"}
  BY <1>1, <1>4
<1> QED
  BY <1>8, <1>9, <1>12, <1>13, <1>14, <1>15, RecvStep

LEMMA RecvAckInv ==
    ASSUME IInv, NEW s \in Sides, NEW m \in net, RecvAck(s, m)
    PROVE  IInv'
<1> DEFINE tries == Restrict(side[s].tries, DOMAIN side[s].tries \ {m.nr})
<1>1. /\ IsSide(side[s]) /\ DOMAIN side = Sides /\ Peer(s) # s /\ Peer(s) \in Sides
      /\ side[s].run \in {"running", "broken"} /\ side[s].rx = "reading"
      /\ m.type = "ack" /\ m.to = s /\ net' \subseteq net
  BY SideFacts, TwoSides DEF RecvAck, Arrives
<1>2. Received(Peer(s), m.nr)
  BY <1>1 DEF IInv, MsgOK
<1>3. PICK v \in {"reading", "stopped"} : side' = [side EXCEPT ![s].tries = tries, ![s].rx = v]
  BY <1>1 DEF RecvAck, NextRx
<1>4. DOMAIN tries = Unacked(s) \ {m.nr} /\ \A n \in DOMAIN tries : tries[n] = side[s].tries[n]
  BY DEF Restrict, Unacked
<1> HIDE DEF tries
<1>5. DOMAIN side' = Sides /\ side'[Peer(s)] = side[Peer(s)]
      /\ side'[s] = [side[s] EXCEPT !.tries = tries, !.rx = v]
  BY <1>1, <1>3
<1>6. /\ DOMAIN side'[s] = Fields /\ side'[s].tries = tries /\ side'[s].rx = v
      /\ \A f \in Fields \ {"tries", "rx"} : side'[s][f] = side[s][f]
  BY <1>1, <1>5 DEF IsSide, Fields
<1>7. IsSide(side'[s])
  <2>1. IsSide(side[s])
    BY <1>1
  <2> QED
    BY <1>6, <2>1 DEF IsSide, Fields
<1>8. /\ side'[s].heard = side[s].heard /\ side'[s].txPrioChan = side[s].txPrioChan
      /\ Buffered(s)' = Buffered(s) /\ Queued(s)' = Queued(s)
      /\ side'[s].run = side[s].run /\ side'[s].pc = side[s].pc
      /\ side'[s].timer = side[s].timer /\ side'[s].app = side[s].app
      /\ side'[s].written = side[s].written /\ side'[s].txChan = side[s].txChan
      /\ side'[s].next = side[s].next /\ side'[s].closeNr = side[s].closeNr
  BY <1>6 DEF Fields, Buffered, Queued
<1>9. /\ side[s].rx # "waiting" /\ DOMAIN side'[s].tries \subseteq Unacked(s)
      /\ \A nr \in DOMAIN side'[s].tries : side'[s].tries[nr] = side[s].tries[nr]
      /\ \A nr \in Unacked(s) \ DOMAIN side'[s].tries : Received(Peer(s), nr)
  BY <1>1, <1>2, <1>4, <1>6
<1>10. /\ side[s].heard => side'[s].heard
       /\ Buffered(s) \subseteq Buffered(s)'
       /\ \A nr \in Queued(s)' : nr \in Queued(s) \/ Received(s, nr)'
       /\ \A nr \in Buffered(s)' : nr \in Buffered(s) \/ nr \in 1 .. side[Peer(s)].next - 1
       /\ side'[s].rx # "waiting" /\ side[Peer(s)].closeNr \in Queued(s)' =>
               side[Peer(s)].closeNr \in Queued(s)
  BY <1>8
<1>11. DOMAIN side' = Sides /\ side'[Peer(s)] = side[Peer(s)] /\ net' \subseteq net
       /\ side[s].run \in {"running", "broken"}
  BY <1>1, <1>5
<1> QED
  BY <1>7, <1>8, <1>9, <1>10, <1>11, RecvStep

LEMMA RecvCloseInv ==
    ASSUME IInv, NEW s \in Sides, NEW m \in net, RecvClose(s, m)
    PROVE  IInv'
<1> DEFINE q == side[s].txPrioChan
<1>1. /\ IsSide(side[s]) /\ DOMAIN side = Sides /\ Peer(s) # s /\ Peer(s) \in Sides
      /\ side[s].run \in {"running", "broken"} /\ side[s].rx = "reading"
      /\ m.type = "close" /\ m.to = s /\ net' \subseteq net
      /\ side[Peer(s)].next \in Nat
  BY SideFacts, TwoSides DEF RecvClose, Arrives
<1>2. m.nr \in 1 .. side[Peer(s)].next - 1 /\ m.nr = side[Peer(s)].closeNr
  BY <1>1 DEF IInv, MsgOK
<1>3. side' = [side EXCEPT ![s].txPrioChan = Append(q, m.nr),
                           ![s].heard = TRUE, ![s].rx = "waiting"]
  BY <1>1 DEF RecvClose
<1>4. DOMAIN side' = Sides /\ side'[Peer(s)] = side[Peer(s)]
      /\ side'[s] = [side[s] EXCEPT !.txPrioChan = Append(q, m.nr),
                                    !.heard = TRUE, !.rx = "waiting"]
  BY <1>1, <1>3
<1>5. /\ DOMAIN side'[s] = Fields /\ side'[s].txPrioChan = Append(q, m.nr)
      /\ side'[s].heard = TRUE /\ side'[s].rx = "waiting"
      /\ \A f \in Fields \ {"txPrioChan", "heard", "rx"} : side'[s][f] = side[s][f]
  BY <1>1, <1>4 DEF IsSide, Fields
<1>6. q \in Seq(Nat) /\ m.nr \in Nat
  BY <1>1, <1>2 DEF IsSide
<1>7. side'[s].txPrioChan \in Seq(Nat) /\ Queued(s)' = Queued(s) \cup {m.nr}
  <2>1. PICK r : r = Append(q, m.nr)
    OBVIOUS
  <2>2. r \in Seq(Nat) /\ {r[i] : i \in DOMAIN r} = {q[i] : i \in DOMAIN q} \cup {m.nr}
    <3> HIDE DEF q
    <3>1. /\ r \in Seq(Nat) /\ DOMAIN r = DOMAIN q \cup {Len(q) + 1} /\ r[Len(q) + 1] = m.nr
          /\ \A i \in DOMAIN q : r[i] = q[i]
      BY <1>6, <2>1, AppendRange
    <3> QED
      BY <3>1
  <2>3. side'[s].txPrioChan = r
    BY <1>5, <2>1
  <2> QED
    BY <2>2, <2>3 DEF Queued
<1>8. IsSide(side'[s])
  <2>1. IsSide(side[s])
    BY <1>1
  <2>2. /\ side'[s].run = side[s].run /\ side'[s].pc = side[s].pc
        /\ side'[s].term = side[s].term /\ side'[s].timer = side[s].timer
        /\ side'[s].app = side[s].app /\ side'[s].written = side[s].written
        /\ side'[s].txChan = side[s].txChan /\ side'[s].next = side[s].next
        /\ side'[s].closeNr = side[s].closeNr
    BY <1>5 DEF Fields
  <2>3. DOMAIN side'[s] = Fields /\ side'[s].rx = "waiting" /\ side'[s].heard \in BOOLEAN
    BY <1>5
  <2> QED
    BY <1>7, <2>1, <2>2, <2>3 DEF IsSide
<1>9. /\ side'[s].tries = side[s].tries /\ Buffered(s)' = Buffered(s)
      /\ side'[s].run = side[s].run /\ side'[s].pc = side[s].pc
      /\ side'[s].timer = side[s].timer /\ side'[s].app = side[s].app
      /\ side'[s].written = side[s].written /\ side'[s].txChan = side[s].txChan
      /\ side'[s].next = side[s].next /\ side'[s].closeNr = side[s].closeNr
  BY <1>5 DEF Fields, Buffered
<1>10. Received(s, m.nr)'
  BY <1>2, <1>4, <1>5 DEF Received
<1>11. DOMAIN side'[s].tries = Unacked(s)
  BY <1>9 DEF Unacked
<1>12. side[s].rx # "waiting" /\ side'[s].rx = "waiting" /\ side'[s].heard
  BY <1>1, <1>5
<1>13. /\ side[s].heard => side'[s].heard
       /\ Buffered(s) \subseteq Buffered(s)' /\ DOMAIN side'[s].tries \subseteq Unacked(s)
       /\ \A nr \in DOMAIN side'[s].tries : side'[s].tries[nr] = side[s].tries[nr]
       /\ \A nr \in Unacked(s) \ DOMAIN side'[s].tries : Received(Peer(s), nr)
       /\ \A nr \in Buffered(s)' : nr \in Buffered(s) \/ nr \in 1 .. side[Peer(s)].next - 1
       /\ side'[s].rx # "waiting" /\ side[Peer(s)].closeNr \in Queued(s)' =>
               side[Peer(s)].closeNr \in Queued(s)
  BY <1>2, <1>9, <1>11, <1>12
<1>14. \A nr \in Queued(s)' : nr \in Queued(s) \/ Received(s, nr)'
  BY <1>7, <1>10
<1>15. DOMAIN side' = Sides /\ side'[Peer(s)] = side[Peer(s)] /\ net' \subseteq net
       /\ side[s].run \in {"running", "broken"}
  BY <1>1, <1>4
<1> QED
  BY <1>8, <1>9, <1>12, <1>13, <1>14, <1>15, RecvStep

LEMMA PushInv ==
    ASSUME IInv, NEW s \in Sides, NEW nr \in side[s].pushing, Push(s, nr)
    PROVE  IInv'
<1>1. IsSide(side[s]) /\ DOMAIN side = Sides /\ SideOK(s) /\ Peer(s) # s /\ Peer(s) \in Sides
      /\ net' = net /\ side[s].next \in Nat
  BY SideFacts, TwoSides DEF Push
<1>2. CASE side[s].run = "torn"
  BY <1>1, <1>2, CrashInv DEF Push
<1>3. CASE side[s].run # "torn"
  <2>1. side' = [side EXCEPT ![s].pushing = side[s].pushing \ {nr},
                             ![s].got = side[s].got \cup {nr}]
    BY <1>3 DEF Push
  <2>2. DOMAIN side' = Sides /\ side'[Peer(s)] = side[Peer(s)]
        /\ side'[s] = [side[s] EXCEPT !.pushing = side[s].pushing \ {nr},
                                      !.got = side[s].got \cup {nr}]
    BY <1>1, <2>1
  <2>3. /\ DOMAIN side'[s] = Fields /\ side'[s].pushing = side[s].pushing \ {nr}
        /\ side'[s].got = side[s].got \cup {nr}
        /\ \A f \in Fields \ {"pushing", "got"} : side'[s][f] = side[s][f]
    BY <1>1, <2>2 DEF IsSide, Fields
  <2>4. IsSide(side'[s]) /\ Counted(s)'
    BY <1>1, <2>3 DEF IsSide, Fields, SideOK, Counted
  <2>5. Buffered(s)' = Buffered(s)
    BY <2>3 DEF Buffered
  <2>6. /\ side'[s].run = side[s].run /\ side'[s].pc = side[s].pc
        /\ side'[s].timer = side[s].timer /\ side'[s].rx = side[s].rx
        /\ side'[s].heard = side[s].heard /\ side'[s].tries = side[s].tries
        /\ side'[s].txPrioChan = side[s].txPrioChan
        /\ side'[s].next = side[s].next /\ side'[s].closeNr = side[s].closeNr
    BY <2>3 DEF Fields
  <2>7. Unacked(s)' = Unacked(s) /\ Queued(s)' = Queued(s) /\ (Up(s)' <=> Up(s))
    BY <2>6 DEF Unacked, Queued, Up
  <2>8. Grows(s) /\ Limited(s)' /\ Answered(s)'
    BY <1>1, <2>2, <2>5, <2>6, <2>7 DEF Grows, SideOK, Limited, Answered
  <2>9. \A n \in 1 .. side'[s].next - 1 : n \notin Unacked(s)' =>
            n \in 1 .. side[s].next - 1 /\ n \notin Unacked(s)
    BY <2>6, <2>7
  <2> QED
    BY <1>1, <2>2, <2>4, <2>5, <2>7, <2>8, <2>9, SideStep
<1> QED
  BY <1>2, <1>3
\* What SendData does to the record of the side.
LEMMA SendDataSide ==
    ASSUME NEW s \in Sides, IsSide(side[s]), Unacked(s) \subseteq 1 .. side[s].next - 1
    PROVE  LET r == side[s]
               a == SendData(s) IN
           /\ IsSide(a) /\ a.pc = "select" /\ r.next <= a.next /\ a.next <= r.next + 1
           /\ a.txChan + a.next = r.txChan + r.next
           /\ DOMAIN a.tries = Unacked(s) \cup r.next .. a.next - 1
           /\ \A nr \in Unacked(s) : a.tries[nr] = r.tries[nr]
           /\ \A nr \in r.next .. a.next - 1 : a.tries[nr] = 0
           /\ \A f \in Fields \ {"next", "tries", "txChan", "pc"} : a[f] = r[f]
<1> DEFINE r == side[s]
           a == SendData(s)
           t == Transmitted(s)
<1>1. r.next \in Nat /\ r.txChan \in Nat /\ DOMAIN r = Fields
  BY DEF IsSide
<1>2. CASE r.txChan > 0 /\ Cardinality(Unacked(s)) < Cwnd
  <2>1. /\ IsSide(t) /\ t.next = r.next + 1 /\ DOMAIN t.tries = Unacked(s) \cup {r.next}
        /\ t.tries[r.next] = 0 /\ \A nr \in Unacked(s) : t.tries[nr] = r.tries[nr]
        /\ \A f \in Fields \ {"next", "tries"} : t[f] = r[f]
    BY TransmittedSide
  <2>2. a = [t EXCEPT !.txChan = t.txChan - 1, !.pc = "select"]
    BY <1>2 DEF SendData
  <2> HIDE DEF t, a
  <2>3. /\ DOMAIN a = Fields /\ a.txChan = t.txChan - 1 /\ a.pc = "select"
        /\ a.next = t.next /\ a.tries = t.tries
        /\ \A f \in Fields \ {"txChan", "pc"} : a[f] = t[f]
    BY <2>1, <2>2 DEF IsSide, Fields
  <2>4. t.txChan = r.txChan /\ a.txChan \in Nat
    BY <1>1, <1>2, <2>1, <2>3 DEF Fields
  <2>5. IsSide(a)
    BY <2>1, <2>3, <2>4 DEF IsSide, Fields
  <2>6. a.txChan + a.next = r.txChan + r.next /\ r.next .. a.next - 1 = {r.next}
        /\ r.next <= a.next /\ a.next <= r.next + 1
    BY <1>1, <2>1, <2>3, <2>4
  <2>7. \A f \in Fields \ {"next", "tries", "txChan", "pc"} : a[f] = r[f]
    BY <2>1, <2>3 DEF Fields
  <2> QED
    BY <2>1, <2>3, <2>5, <2>6, <2>7 DEF a
<1>3. CASE ~ (r.txChan > 0 /\ Cardinality(Unacked(s)) < Cwnd)
  <2>1. a = [r EXCEPT !.pc = "select"]
    BY <1>3 DEF SendData
  <2> HIDE DEF a
  <2>2. /\ DOMAIN a = Fields /\ a.pc = "select"
        /\ \A f \in Fields \ {"pc"} : a[f] = r[f]
    BY <1>1, <2>1 DEF Fields
  <2>3. IsSide(a)
    BY <2>2 DEF IsSide, Fields
  <2>4. a.next = r.next /\ a.tries = r.tries /\ a.txChan = r.txChan
        /\ r.next .. a.next - 1 = {}
    BY <1>1, <2>2 DEF Fields
  <2> QED
    BY <1>1, <2>2, <2>3, <2>4 DEF a, Unacked, Fields
<1> QED
  BY <1>2, <1>3

\* A step of the run loop that sends new packets or one that is not acknowledged.
LEMMA SendStep ==
    ASSUME IInv, NEW s \in Sides, DOMAIN side' = Sides, IsSide(side'[s]),
           side'[Peer(s)] = side[Peer(s)],
           side[s].next <= side'[s].next,
           side'[s].txChan + side'[s].next = side[s].txChan + side[s].next,
           DOMAIN side'[s].tries = Unacked(s) \cup side[s].next .. side'[s].next - 1,
           \A nr \in DOMAIN side'[s].tries :
               /\ side'[s].tries[nr] \in 0 .. MaxRetransmits + 1
               /\ side'[s].run = "running" => side'[s].tries[nr] <= MaxRetransmits,
           side'[s].pc = "select", side'[s].run \in {"running", "broken"},
           side'[s].app = side[s].app, side'[s].heard = side[s].heard,
           side'[s].written = side[s].written, side'[s].txPrioChan = side[s].txPrioChan,
           side'[s].closeNr = side[s].closeNr, side'[s].pushing = side[s].pushing,
           side'[s].got = side[s].got,
           \A m \in net' \ net :
               /\ m.to = Peer(s) /\ m.nr \in 1 .. side'[s].next - 1
               /\ m.type = IF m.nr = side[s].closeNr THEN "close" ELSE "data"
    PROVE  IInv'
<1>1. /\ SideOK(s) /\ side[s].next \in Nat /\ side[s].closeNr \in Nat
      /\ side[s].written \in Nat /\ side[s].txChan \in Nat
      /\ side'[s].next \in Nat /\ side'[s].txChan \in Nat
      /\ Peer(s) \in Sides /\ Peer(Peer(s)) = s
  BY SideFacts, TwoSides DEF IsSide
<1>2. Buffered(s)' = Buffered(s) /\ Queued(s)' = Queued(s)
      /\ Unacked(s)' = Unacked(s) \cup side[s].next .. side'[s].next - 1
  BY DEF Buffered, Queued, Unacked
<1>3. Grows(s)
  BY <1>2 DEF Grows
<1>4. Counted(s)'
  BY <1>1 DEF SideOK, Counted
<1>5. Limited(s)'
  <2>1. Unacked(s)' \subseteq 1 .. side'[s].next - 1
    BY <1>1, <1>2 DEF SideOK, Limited, Counted
  <2> QED
    BY <2>1 DEF Limited, Unacked, Up
<1>6. Answered(s)'
  BY DEF Answered, Up
<1>7. \A nr \in 1 .. side'[s].next - 1 : nr \notin Unacked(s)' =>
         nr \in 1 .. side[s].next - 1 /\ nr \notin Unacked(s)
  BY <1>1, <1>2
<1>8. ASSUME NEW m \in net' \ net
      PROVE  MsgOK(m)'
  BY <1>1, <1>8 DEF MsgOK
<1> QED
  BY <1>2, <1>3, <1>4, <1>5, <1>6, <1>7, <1>8, SideStep

LEMMA SendInv ==
    ASSUME IInv, NEW s \in Sides, RunSend(s)
    PROVE  IInv'
<1> DEFINE r == side[s]
           a == SendData(s)
<1>1. /\ IsSide(r) /\ DOMAIN side = Sides /\ SideOK(s) /\ Peer(s) # s /\ Peer(s) \in Sides
      /\ r.run = "running" /\ r.next \in Nat /\ r.closeNr \in Nat /\ r.closeNr < r.next
      /\ Unacked(s) \subseteq 1 .. r.next - 1
  <2>1. IsSide(r) /\ DOMAIN side = Sides /\ SideOK(s) /\ r.next \in Nat /\ r.closeNr \in Nat
    BY SideFacts
  <2>2. r.run = "running"
    BY DEF RunSend, Up
  <2> QED
    BY <2>1, <2>2, TwoSides DEF SideOK, Counted, Limited
<1>2. /\ IsSide(a) /\ a.pc = "select" /\ r.next <= a.next /\ a.next <= r.next + 1
      /\ a.txChan + a.next = r.txChan + r.next
      /\ DOMAIN a.tries = Unacked(s) \cup r.next .. a.next - 1
      /\ \A nr \in Unacked(s) : a.tries[nr] = r.tries[nr]
      /\ \A nr \in r.next .. a.next - 1 : a.tries[nr] = 0
      /\ \A f \in Fields \ {"next", "tries", "txChan", "pc"} : a[f] = r[f]
  BY <1>1, SendDataSide
<1>3. \/ side' = [side EXCEPT ![s] = a] /\ net' = net \cup SentPackets(s, a)
      \/ \E nr \in Unacked(s) :
            /\ net' = net \cup SentPackets(s, a) \cup
                        {Packet(IF nr = r.closeNr THEN "close" ELSE "data", Peer(s), nr)}
            /\ side' = [side EXCEPT ![s] = [a EXCEPT !.tries[nr] = a.tries[nr] + 1,
                          !.run = IF TooMany(a.tries[nr] + 1) THEN "broken" ELSE a.run]]
  BY DEF RunSend
<1>4. a.next \in Nat /\ MaxRetransmits \in Nat /\ a.run = "running"
      /\ \A nr \in Unacked(s) : r.tries[nr] \in 0 .. MaxRetransmits
  BY <1>1, <1>2, LimitsAssumption DEF IsSide, Fields, SideOK, Limited, Up
<1>5. \A nr \in DOMAIN a.tries : a.tries[nr] \in 0 .. MaxRetransmits
  BY <1>2, <1>4
<1>6. ASSUME NEW m \in SentPackets(s, a)
      PROVE  /\ m.to = Peer(s) /\ m.nr \in 1 .. a.next - 1
             /\ m.type = IF m.nr = r.closeNr THEN "close" ELSE "data"
  <2>1. PICK nr \in r.next .. a.next - 1 : m = Packet("data", Peer(s), nr)
    BY DEF SentPackets
  <2>2. m.to = Peer(s) /\ m.nr = nr /\ m.type = "data"
    BY <2>1 DEF Packet
  <2> QED
    BY <1>1, <1>4, <2>2
<1> HIDE DEF a
<1>7. /\ a.app = r.app /\ a.heard = r.heard /\ a.written = r.written
      /\ a.txPrioChan = r.txPrioChan /\ a.closeNr = r.closeNr
      /\ a.pushing = r.pushing /\ a.got = r.got
  BY <1>2 DEF Fields
<1>8. CASE side' = [side EXCEPT ![s] = a] /\ net' = net \cup SentPackets(s, a)
  <2>1. DOMAIN side' = Sides /\ side'[Peer(s)] = side[Peer(s)] /\ side'[s] = a
    BY <1>1, <1>8
  <2>2. \A m \in net' \ net : m \in SentPackets(s, a)
    BY <1>8
  <2>3. \A nr \in DOMAIN a.tries : a.tries[nr] \in 0 .. MaxRetransmits + 1
                                   /\ a.tries[nr] <= MaxRetransmits
    BY <1>4, <1>5
  <2> QED
    BY <1>2, <1>4, <1>6, <1>7, <2>1, <2>2, <2>3, SendStep
<1>9. ASSUME NEW nr \in Unacked(s),
             net' = net \cup SentPackets(s, a) \cup
                      {Packet(IF nr = r.closeNr THEN "close" ELSE "data", Peer(s), nr)},
             side' = [side EXCEPT ![s] = [a EXCEPT !.tries[nr] = a.tries[nr] + 1,
                          !.run = IF TooMany(a.tries[nr] + 1) THEN "broken" ELSE a.run]]
      PROVE  IInv'
  <2> DEFINE tries == [a.tries EXCEPT ![nr] = a.tries[nr] + 1]
             run == IF TooMany(a.tries[nr] + 1) THEN "broken" ELSE a.run
             n == [a EXCEPT !.tries = tries, !.run = run]
  <2>1. side' = [side EXCEPT ![s] = n]
    BY <1>2, <1>9 DEF IsSide, Fields
  <2>2. /\ DOMAIN tries = DOMAIN a.tries /\ nr \in DOMAIN a.tries
        /\ tries[nr] = a.tries[nr] + 1
        /\ \A k \in DOMAIN a.tries \ {nr} : tries[k] = a.tries[k]
    BY <1>2
  <2>3. \A k \in DOMAIN tries : /\ tries[k] \in 0 .. MaxRetransmits + 1
                                /\ run = "running" => tries[k] <= MaxRetransmits
    BY <1>4, <1>5, <2>2 DEF TooMany
  <2>4. run \in {"running", "broken"}
    BY <1>4
  <2> HIDE DEF tries, run
  <2>5. DOMAIN side' = Sides /\ side'[Peer(s)] = side[Peer(s)] /\ side'[s] = n
    BY <1>1, <2>1
  <2>6. /\ DOMAIN n = Fields /\ n.tries = tries /\ n.run = run
        /\ \A f \in Fields \ {"tries", "run"} : n[f] = a[f]
    BY <1>2 DEF IsSide, Fields
  <2> HIDE DEF n
  <2>7. IsSide(n)
    BY <1>2, <2>4, <2>6 DEF IsSide, Fields
  <2>8. /\ n.app = r.app /\ n.heard = r.heard /\ n.written = r.written
        /\ n.txPrioChan = r.txPrioChan /\ n.closeNr = r.closeNr
        /\ n.pushing = r.pushing /\ n.got = r.got
        /\ n.pc = "select" /\ n.next = a.next /\ n.txChan = a.txChan
    BY <1>2, <1>7, <2>6 DEF Fields
  <2>9. ASSUME NEW m \in net' \ net
        PROVE  /\ m.to = Peer(s) /\ m.nr \in 1 .. a.next - 1
               /\ m.type = IF m.nr = r.closeNr THEN "close" ELSE "data"
    <3>1. CASE m \in SentPackets(s, a)
      BY <1>6, <3>1
    <3>2. CASE m = Packet(IF nr = r.closeNr THEN "close" ELSE "data", Peer(s), nr)
      <4>1. m.to = Peer(s) /\ m.nr = nr
            /\ m.type = IF nr = r.closeNr THEN "close" ELSE "data"
        BY <3>2 DEF Packet
      <4> QED
        BY <1>1, <1>2, <1>4, <4>1
    <3> QED
      BY <1>9, <3>1, <3>2
  <2> QED
    BY <1>2, <2>2, <2>3, <2>4, <2>5, <2>6, <2>7, <2>8, <2>9, SendStep
<1> QED
  BY <1>3, <1>8, <1>9

-----------------------------------------------------------------------------
(* The theorems. *)

LEMMA StepInv == IInv /\ [Next]_vars => IInv'
<1> SUFFICES ASSUME IInv, [Next]_vars
             PROVE  IInv'
  OBVIOUS
<1>1. ASSUME UNCHANGED vars
      PROVE  IInv'
  BY <1>1 DEF vars, IInv, Types, SideOK, Counted, Limited, Acked, Got, Answered, MsgOK,
              Received, Buffered, Queued, Unacked, Up
<1>2. ASSUME NEW s \in Sides, Write(s) \/ Close(s)
      PROVE  IInv'
  BY <1>2, WriteInv, CloseInv
<1>3. ASSUME NEW s \in Sides, RunStep(s)
      PROVE  IInv'
  BY <1>3, SelectInv, SendInv, StopInv, TeardownInv DEF RunStep
<1>4. ASSUME NEW s \in Sides, TimerFires(s) \/ IdleTimeout(s)
      PROVE  IInv'
  BY <1>4, TimerInv, IdleInv
<1>5. ASSUME NEW s \in Sides, NEW m \in net,
             RecvData(s, m) \/ RecvAck(s, m) \/ RecvClose(s, m)
      PROVE  IInv'
  BY <1>5, RecvDataInv, RecvAckInv, RecvCloseInv
<1>6. ASSUME NEW s \in Sides, NEW nr \in side[s].pushing, Push(s, nr)
      PROVE  IInv'
  BY <1>6, PushInv
<1> QED
  BY <1>1, <1>2, <1>3, <1>4, <1>5, <1>6 DEF Next

LEMMA AlwaysInv == Spec => []IInv
  BY InitInv, StepInv, PTL DEF Spec

\* Nothing but a packet number ever reaches inflightPackets, the queue of acks or
\* the reader, and no packet is retransmitted past the limit at which run()
\* gives the connection up.
THEOREM TypeCorrect == Spec => []TypeOK
<1>1. IInv => TypeOK
  <2> SUFFICES ASSUME IInv
               PROVE  TypeOK
    OBVIOUS
  <2>1. ASSUME NEW s \in Sides
        PROVE  /\ side[s].run \in {"running", "broken", "torn", "crashed"}
               /\ side[s].pc \in {"select", "check", "teardown"}
               /\ side[s].timer \in {"off", "armed", "fired"}
               /\ side[s].app \in {"idle", "waiting", "closed", "failed"}
               /\ side[s].rx \in {"reading", "waiting", "stopped"}
    BY SideFacts DEF IsSide
  <2>2. ASSUME NEW s \in Sides
        PROVE  /\ side[s].written \in 0 .. MaxWrites
               /\ side[s].txChan \in 0 .. side[s].written
               /\ side[s].next \in 1 .. MaxWrites + 2
               /\ 1 .. side[s].next - 1 \subseteq Nrs
    BY SideFacts, LimitsAssumption DEF SideOK, Counted, Nrs
  <2>3. ASSUME NEW s \in Sides
        PROVE  /\ Unacked(s) \subseteq Nrs
               /\ \A nr \in Unacked(s) : side[s].tries[nr] \in 0 .. MaxRetransmits + 1
               /\ side[s].pushing \cup side[s].got \subseteq Nrs
               /\ Queued(s) \subseteq Nrs
    <3>1. SideOK(s) /\ Peer(s) \in Sides
      BY SideFacts, TwoSides
    <3>2. \A nr \in Queued(s) : nr \in 1 .. side[Peer(s)].next - 1
      BY <3>1 DEF SideOK, Got, Received
    <3> QED
      BY <2>2, <3>1, <3>2 DEF SideOK, Limited, Got, Buffered
  <2>4. ASSUME NEW m \in net
        PROVE  m.to \in Sides /\ m.type \in {"data", "ack", "close"} /\ m.nr \in Nrs
    <3>1. MsgOK(m) /\ Peer(m.to) \in Sides /\ Peer(Peer(m.to)) = m.to
      BY TwoSides DEF IInv, MsgOK
    <3> QED
      BY <2>2, <3>1 DEF MsgOK, Received
  <2> QED
    BY <2>1, <2>2, <2>3, <2>4 DEF TypeOK, Queued
<1> QED
  BY <1>1, AlwaysInv, PTL

\* A side that ends because of the peer's Close, within the grace period, has sent
\* its ack: onMessage queues the ack before it signals closeChan, and run() tests
\* both queues after it took the signal.
THEOREM AnsweredCorrect == Spec => []CloseAnswered
<1>1. IInv => CloseAnswered
  <2> SUFFICES ASSUME IInv, NEW s \in Sides, side[s].run = "torn", side[s].timer # "fired"
               PROVE  \A i \in DOMAIN side[s].txPrioChan :
                          side[s].txPrioChan[i] # side[Peer(s)].closeNr
    BY DEF CloseAnswered
  <2> QED
    BY SideFacts DEF SideOK, Answered, Queued
<1> QED
  BY <1>1, AlwaysInv, PTL

\* Only what the peer received leaves inflightPackets, whoever ends first and
\* however often a packet is repeated: an ack is only queued by onMessage, and
\* names the packet it answers.
THEOREM HeardCorrect == Spec => []AckedWasHeard
<1>1. IInv => AckedWasHeard
  <2> SUFFICES ASSUME IInv, NEW s \in Sides, NEW nr \in 1 .. side[s].next - 1,
                      nr \notin Unacked(s)
               PROVE  IF nr = side[s].closeNr THEN side[Peer(s)].heard
                                              ELSE nr \in Buffered(Peer(s))
    BY DEF AckedWasHeard, Buffered
  <2> QED
    BY SideFacts, TwoSides DEF SideOK, Acked, Received
<1> QED
  BY <1>1, AlwaysInv, PTL
=============================================================================
