--------------------------- MODULE BrftConnProofs ---------------------------
(***************************************************************************)
(* What holds of BrftConn for any number of streams, Data messages and     *)
(* places in the queues.                                                   *)
(*                                                                         *)
(* A stream's Data and the message that completes it pass through four     *)
(* queues: the server's outData, the wire, the client's loop and the       *)
(* stream's in channel.  IInv counts the Data messages in them and says    *)
(* what the message that completes the stream has behind it.               *)
(***************************************************************************)
EXTENDS BrftConn, CountLemmas, SequenceTheorems

CtrlTypes(x) == IF x = "client" THEN {"FileReq", "Start"} ELSE {"FileResp"}
DataTypes    == {"Data", "Close", "Complete"}
AllTypes     == {"FileReq", "Start", "FileResp"} \cup DataTypes

Of(types, S) == [type : types, s : S]

StreamRec(s) ==
    [pc : {"idle", "sent", "made", "resp", "start", "recv", "req", "reply", "wait", "send",
           "tell", "close", "done"},
     reg : BOOLEAN, closed : BOOLEAN, in : Seq(Of(AllTypes, {s})), n : 0 .. NumData,
     complete : BOOLEAN, says : {"nothing", "Close", "Complete"}, after : {"close", "done"}]

LoopRec == {[pc |-> "read"], [pc |-> "end"]}
               \cup [pc : {"pass", "tell"}, msg : Of(AllTypes, Streams)]

OutRec(x) == [ctrl : Seq(Of(CtrlTypes(x), Streams)), data : Seq(Of(DataTypes, Streams))]

ConnRec == [stop : BOOLEAN, shut : BOOLEAN, sender : {"run", "blocked", "done"},
            btp : {"up", "down", "stuck"}, crashed : BOOLEAN]

\* A stream that has to tell the peer has something to say.
Strm(s) == {r \in StreamRec(s) : Len(r.in) <= InCap /\ (r.pc = "tell" => r.says # "nothing")}

StrmOK == /\ DOMAIN strm = Sides
          /\ \A x \in Sides : /\ DOMAIN strm[x] = Streams
                              /\ \A s \in Streams : strm[x][s] \in Strm(s)

LoopOK == loop \in [Sides -> LoopRec]

OutOK == /\ DOMAIN out = Sides
         /\ \A x \in Sides : /\ out[x] \in OutRec(x)
                             /\ Len(out[x].ctrl) <= OutCap /\ Len(out[x].data) <= OutCap

WireOK == /\ DOMAIN wire = Sides
          /\ \A x \in Sides : wire[x] \in Seq(Of(CtrlTypes(x) \cup DataTypes, Streams))

CloseOK == close \in [Sides -> [Closers -> {"no", "check", "close", "wait", "end"}]]

ConnOK == /\ conn \in [Sides -> ConnRec]
          /\ \A x \in Sides : conn[x].crashed => conn[x].btp # "up"

Types == /\ StrmOK /\ LoopOK /\ OutOK /\ WireOK /\ CloseOK /\ ConnOK
         /\ fails \in 0 .. MaxFails

-----------------------------------------------------------------------------
(* One stream, and its messages on their way to the client. *)

D(s) == Msg("Data", s)
C(s) == Msg("Complete", s)

Num(q, m) == Cardinality({i \in DOMAIN q : q[i] = m})

\* No Data follows the message that completes a stream.
Sorted(q, s) == \A i, j \in DOMAIN q : q[i] = C(s) /\ q[j] = D(s) => j < i

\* What the loop is passing on, as a queue.
Passing(x) == IF loop[x].pc = "pass" THEN <<loop[x].msg>> ELSE <<>>

\* Requests on their way, and StartTransmissions, also if not read by the stream.
Asked(s) == Num(out["client"].ctrl, Msg("FileReq", s)) + Num(wire["client"], Msg("FileReq", s))

Started(s) == Num(out["client"].ctrl, Msg("Start", s)) + Num(wire["client"], Msg("Start", s))
              + Num(Passing("server"), Msg("Start", s)) + Num(strm["server"][s].in, Msg("Start", s))

\* All that concerns a stream.
View(s) == [cl |-> strm["client"][s], sv |-> strm["server"][s],
            asked |-> Asked(s), started |-> Started(s),
            out |-> out["server"].data, wire |-> wire["server"], pass |-> Passing("client"),
            clUp |-> Alive("client"), svUp |-> Alive("server"),
            up |-> \A x \in Sides : conn[x].btp = "up"]

Msgs == Of(AllTypes, Streams)

Views(s) == [cl : StreamRec(s), sv : StreamRec(s), asked : Nat, started : Nat,
             out : Seq(Msgs), wire : Seq(Msgs), pass : Seq(Msgs),
             clUp : BOOLEAN, svUp : BOOLEAN, up : BOOLEAN]

\* The Data that the client got or can get whatever happens at the server, and
\* with what the server has not written yet.
Near(s, v)  == v.cl.n + Num(v.cl.in, D(s)) + Num(v.pass, D(s)) + Num(v.wire, D(s))
Total(s, v) == Near(s, v) + Num(v.out, D(s))

\* The message that completes the stream has been written, and not been read yet.
Written(s, v) == Num(v.cl.in, C(s)) + Num(v.pass, C(s)) + Num(v.wire, C(s)) > 0

Live(v) == v.clUp /\ ~ v.cl.closed

\* The client's stream has sent StartTransmission.
PastStart(v) == ~ v.clUp \/ v.cl.closed \/ v.cl.pc = "recv"

ClientOK(v) ==
    /\ v.cl.complete => v.cl.closed /\ v.cl.n = NumData
    /\ v.cl.closed => v.cl.pc \in {"tell", "close", "done"}
    /\ v.clUp => (v.cl.pc \in {"made", "resp", "start", "recv"} <=> v.cl.reg)
    /\ v.cl.pc \notin {"req", "reply", "wait", "send"}

\* Nothing has been sent for the stream yet.
Untouched(s, v) == /\ Total(s, v) = 0 /\ ~ Written(s, v) /\ Num(v.out, C(s)) = 0
                   /\ v.svUp => v.sv.pc = "idle"

\* The request is sent once.
AskOK(s, v) == /\ v.asked <= 1
               /\ v.clUp /\ v.cl.pc = "idle" => v.asked = 0 /\ Untouched(s, v)
               /\ v.svUp /\ v.asked > 0 => Untouched(s, v)

StartOK(s, v) ==
    v.started > 0 \/ Total(s, v) > v.cl.n \/ v.sv.pc = "send" => PastStart(v)

OrderOK(s, v) ==
    /\ Sorted(v.cl.in, s) /\ Sorted(v.wire, s) /\ Sorted(v.out, s)
    /\ Written(s, v) => Num(v.out, D(s)) = 0
    /\ Num(v.cl.in, C(s)) > 0 => Num(v.pass, D(s)) = 0 /\ Num(v.wire, D(s)) = 0
    /\ Num(v.pass, C(s)) > 0 => Num(v.wire, D(s)) = 0

ServerOK(s, v) ==
    /\ v.svUp /\ (Written(s, v) \/ Num(v.out, C(s)) > 0) => v.sv.pc = "done"
    /\ (v.sv.pc = "tell" /\ v.sv.says = "Complete") \/ Num(v.out, C(s)) > 0
           => v.sv.n = NumData
    /\ v.sv.after = "done"

CountOK(s, v) ==
    /\ Total(s, v) <= NumData /\ (v.svUp => Total(s, v) <= v.sv.n)
    /\ Live(v) /\ v.up => Total(s, v) = v.sv.n
    /\ Live(v) /\ Written(s, v) => Near(s, v) = NumData

Good(s, v) == /\ ClientOK(v) /\ AskOK(s, v) /\ StartOK(s, v) /\ OrderOK(s, v)
              /\ ServerOK(s, v) /\ CountOK(s, v)

IInv == Types /\ \A s \in Streams : Good(s, View(s))

-----------------------------------------------------------------------------
(* Counting in queues. *)

LEMMA MsgFacts ==
    ASSUME NEW a, NEW s, NEW b, NEW t
    PROVE  /\ Msg(a, s).type = a /\ Msg(a, s).s = s
           /\ Msg(a, s) = Msg(b, t) <=> a = b /\ s = t
  BY DEF Msg

LEMMA NumType ==
    ASSUME NEW T, NEW q \in Seq(T), NEW m
    PROVE  /\ Num(q, m) \in Nat /\ Num(<<>>, m) = 0
           /\ Num(q, m) > 0 <=> \E i \in DOMAIN q : q[i] = m
<1>1. PICK I : I = {i \in DOMAIN q : q[i] = m}
  OBVIOUS
<1>2. Cardinality(I) \in Nat /\ (Cardinality(I) = 0 <=> I = {})
  BY <1>1, CountType
<1>3. {i \in DOMAIN <<>> : <<>>[i] = m} = {}
  OBVIOUS
<1>4. Num(<<>>, m) = 0
  BY <1>3, FS_EmptySet DEF Num
<1>5. I # {} <=> \E i \in DOMAIN q : q[i] = m
  BY <1>1
<1>6. Num(q, m) = Cardinality(I)
  BY <1>1 DEF Num
<1> QED
  BY <1>2, <1>4, <1>5, <1>6

LEMMA NumEmpty == \A m : Num(<<>>, m) = 0
<1>1. <<>> \in Seq(Nat)
  OBVIOUS
<1> QED
  BY <1>1, NumType

LEMMA NumAppend ==
    ASSUME NEW T, NEW q \in Seq(T), NEW e \in T, NEW m
    PROVE  Num(Append(q, e), m) = Num(q, m) + (IF e = m THEN 1 ELSE 0)
<1>1. PICK a : a = Append(q, e)
  OBVIOUS
<1>2. /\ Len(q) \in Nat /\ DOMAIN q = 1 .. Len(q) /\ DOMAIN a = 1 .. Len(q) + 1
      /\ a[Len(q) + 1] = e /\ \A i \in 1 .. Len(q) : a[i] = q[i]
  BY <1>1, AppendProperties, LenProperties
<1>3. PICK I : I = {i \in DOMAIN q : q[i] = m}
  OBVIOUS
<1>4. PICK J : J = {i \in DOMAIN a : a[i] = m}
  OBVIOUS
<1>5. /\ I \in SUBSET DOMAIN q /\ J \in SUBSET DOMAIN a
      /\ \A i \in DOMAIN q : i \in J <=> i \in I
      /\ Len(q) + 1 \in J <=> e = m
  BY <1>2, <1>3, <1>4
<1>6. Cardinality(J) = Cardinality(I) + (IF Len(q) + 1 \in J THEN 1 ELSE 0)
  BY <1>1, <1>5, CountAppend
<1> QED
  BY <1>1, <1>3, <1>4, <1>5, <1>6 DEF Num

LEMMA HeadTail ==
    ASSUME NEW T, NEW q \in Seq(T), q # <<>>
    PROVE  /\ Head(q) = q[1] /\ Head(q) \in T /\ Tail(q) \in Seq(T)
           /\ Len(q) \in Nat \ {0} /\ Len(Tail(q)) = Len(q) - 1
           /\ DOMAIN q = 1 .. Len(q) /\ DOMAIN Tail(q) = 1 .. Len(q) - 1
           /\ \A i \in 1 .. Len(q) - 1 : Tail(q)[i] = q[i + 1]
<1>1. PICK t : t = Tail(q)
  OBVIOUS
<1>2. Head(q) = q[1] /\ Head(q) \in T /\ Len(q) \in Nat \ {0} /\ DOMAIN q = 1 .. Len(q)
  OBVIOUS
<1>3. /\ t \in Seq(T) /\ Len(t) = Len(q) - 1 /\ \A i \in 1 .. Len(t) : t[i] = q[i + 1]
  BY <1>1, HeadTailProperties
<1>4. DOMAIN t = 1 .. Len(t)
  BY <1>3, LenProperties
<1> QED
  BY <1>1, <1>2, <1>3, <1>4

LEMMA NumTail ==
    ASSUME NEW T, NEW q \in Seq(T), q # <<>>, NEW m
    PROVE  /\ Num(Tail(q), m) \in Nat
           /\ Num(q, m) = Num(Tail(q), m) + (IF Head(q) = m THEN 1 ELSE 0)
<1>1. PICK t : t = Tail(q)
  OBVIOUS
<1>2. /\ Head(q) = q[1] /\ t \in Seq(T) /\ Len(q) \in Nat \ {0} /\ DOMAIN q = 1 .. Len(q)
      /\ DOMAIN t = 1 .. Len(q) - 1 /\ \A i \in 1 .. Len(q) - 1 : t[i] = q[i + 1]
  BY <1>1, HeadTail
<1>3. PICK I : I = {i \in DOMAIN q : q[i] = m}
  OBVIOUS
<1>4. PICK J : J = {i \in DOMAIN t : t[i] = m}
  OBVIOUS
<1>5. /\ I \in SUBSET DOMAIN q /\ J \in SUBSET DOMAIN t
      /\ \A i \in DOMAIN t : i \in J <=> i + 1 \in I
      /\ 1 \in I <=> Head(q) = m
  BY <1>2, <1>3, <1>4
<1>6. Cardinality(I) = Cardinality(J) + (IF 1 \in I THEN 1 ELSE 0)
  BY <1>1, <1>5, CountTail
<1>7. Num(t, m) \in Nat
  BY <1>2, NumType
<1> QED
  BY <1>1, <1>3, <1>4, <1>5, <1>6, <1>7 DEF Num

LEMMA NumOne ==
    ASSUME NEW e, NEW m
    PROVE  Num(<<e>>, m) = IF e = m THEN 1 ELSE 0
<1>1. PICK q : q = <<e>>
  OBVIOUS
<1>2. DOMAIN q = {1} /\ q[1] = e
  BY <1>1
<1>3. e = m => {i \in DOMAIN q : q[i] = m} = {1}
  BY <1>2
<1>4. e # m => {i \in DOMAIN q : q[i] = m} = {}
  BY <1>2
<1> QED
  BY <1>1, <1>3, <1>4, FS_Singleton, FS_EmptySet DEF Num

\* Behind the message that completes a stream nothing of its Data is appended.
LEMMA SortedAppend ==
    ASSUME NEW T, NEW q \in Seq(T), NEW e \in T, NEW s, Sorted(q, s),
           e = D(s) => Num(q, C(s)) = 0
    PROVE  Sorted(Append(q, e), s)
<1>1. PICK a : a = Append(q, e)
  OBVIOUS
<1>2. /\ Len(q) \in Nat /\ DOMAIN q = 1 .. Len(q) /\ DOMAIN a = 1 .. Len(q) + 1
      /\ a[Len(q) + 1] = e /\ \A i \in 1 .. Len(q) : a[i] = q[i]
  BY <1>1, AppendProperties, LenProperties
<1>3. ASSUME NEW i \in DOMAIN a, NEW j \in DOMAIN a, a[i] = C(s), a[j] = D(s)
      PROVE  j < i
  <2>1. C(s) # D(s)
    BY MsgFacts DEF C, D
  <2>2. CASE i \in DOMAIN q /\ j \in DOMAIN q
    BY <1>2, <1>3, <2>2 DEF Sorted
  <2>3. CASE i = Len(q) + 1
    BY <1>2, <1>3, <2>1, <2>3
  <2>4. CASE j = Len(q) + 1 /\ i \in DOMAIN q
    <3>1. e = D(s) /\ q[i] = C(s)
      BY <1>2, <1>3, <2>4
    <3>2. Num(q, C(s)) > 0
      BY <2>4, <3>1, NumType
    <3> QED
      BY <3>1, <3>2
  <2> QED
    BY <1>2, <2>2, <2>3, <2>4
<1> QED
  BY <1>1, <1>3 DEF Sorted

LEMMA SortedTail ==
    ASSUME NEW T, NEW q \in Seq(T), q # <<>>, NEW s, Sorted(q, s)
    PROVE  /\ Sorted(Tail(q), s) /\ Sorted(<<>>, s)
           /\ Head(q) = C(s) => Num(q, D(s)) = 0
<1>1. PICK t : t = Tail(q)
  OBVIOUS
<1>2. /\ Head(q) = q[1] /\ t \in Seq(T) /\ Len(q) \in Nat \ {0} /\ DOMAIN q = 1 .. Len(q)
      /\ DOMAIN t = 1 .. Len(q) - 1 /\ \A i \in 1 .. Len(q) - 1 : t[i] = q[i + 1]
  BY <1>1, HeadTail
<1>3. ASSUME NEW i \in DOMAIN t, NEW j \in DOMAIN t, t[i] = C(s), t[j] = D(s)
      PROVE  j < i
  <2>1. i + 1 \in DOMAIN q /\ j + 1 \in DOMAIN q /\ q[i + 1] = C(s) /\ q[j + 1] = D(s)
    BY <1>2, <1>3
  <2>2. j + 1 < i + 1
    BY <2>1 DEF Sorted
  <2> QED
    BY <1>2, <2>2
<1>4. ASSUME Head(q) = C(s)
      PROVE  Num(q, D(s)) = 0
  <2>1. 1 \in DOMAIN q /\ q[1] = C(s)
    BY <1>2, <1>4
  <2>2. ~ \E j \in DOMAIN q : q[j] = D(s)
    <3>1. ASSUME NEW j \in DOMAIN q, q[j] = D(s)
          PROVE  FALSE
      <4>1. j < 1
        BY <2>1, <3>1 DEF Sorted
      <4> QED
        BY <1>2, <4>1
    <3> QED
      BY <3>1
  <2>3. Num(q, D(s)) \in Nat /\ ~ (Num(q, D(s)) > 0)
    BY <2>2, NumType
  <2> QED
    BY <2>3
<1>5. Sorted(<<>>, s)
  BY DEF Sorted
<1> QED
  BY <1>1, <1>3, <1>4, <1>5 DEF Sorted


-----------------------------------------------------------------------------
(* How the view of a stream changes from y to z. *)

LEMMA Numbers ==
    ASSUME NEW s \in Streams, NEW v \in Views(s)
    PROVE  /\ v.cl.n \in Nat /\ v.cl.n <= NumData /\ v.sv.n \in Nat /\ v.sv.n <= NumData
           /\ v.asked \in Nat /\ v.started \in Nat /\ NumData \in Nat
           /\ Num(v.cl.in, D(s)) \in Nat /\ Num(v.pass, D(s)) \in Nat
           /\ Num(v.wire, D(s)) \in Nat /\ Num(v.out, D(s)) \in Nat
           /\ Num(v.cl.in, C(s)) \in Nat /\ Num(v.pass, C(s)) \in Nat
           /\ Num(v.wire, C(s)) \in Nat /\ Num(v.out, C(s)) \in Nat
           /\ Near(s, v) \in Nat /\ Total(s, v) \in Nat
           /\ v.cl.n <= Near(s, v) /\ Near(s, v) <= Total(s, v)
<1>1. /\ v.cl \in StreamRec(s) /\ v.sv \in StreamRec(s) /\ v.asked \in Nat /\ v.started \in Nat
      /\ v.out \in Seq(Msgs) /\ v.wire \in Seq(Msgs) /\ v.pass \in Seq(Msgs)
  BY DEF Views
<1>2. /\ v.cl.n \in 0 .. NumData /\ v.sv.n \in 0 .. NumData /\ v.cl.in \in Seq(Of(AllTypes, {s}))
  BY <1>1 DEF StreamRec
<1>3. \A m : /\ Num(v.cl.in, m) \in Nat /\ Num(v.pass, m) \in Nat
             /\ Num(v.wire, m) \in Nat /\ Num(v.out, m) \in Nat
  BY <1>1, <1>2, NumType
<1>4. v.cl.n \in Nat /\ v.cl.n <= NumData /\ v.sv.n \in Nat /\ v.sv.n <= NumData /\ NumData \in Nat
  BY <1>2, NumsAssumption
<1>5. /\ Near(s, v) \in Nat /\ Total(s, v) \in Nat
      /\ v.cl.n <= Near(s, v) /\ Near(s, v) <= Total(s, v)
  BY <1>3, <1>4 DEF Near, Total
<1> QED
  BY <1>1, <1>3, <1>4, <1>5

\* The sums are monotone.
LEMMA Fewer ==
    ASSUME NEW s \in Streams, NEW y \in Views(s), NEW z \in Views(s), z.cl.n <= y.cl.n,
           Num(z.cl.in, D(s)) <= Num(y.cl.in, D(s)), Num(z.pass, D(s)) <= Num(y.pass, D(s)),
           Num(z.wire, D(s)) <= Num(y.wire, D(s)), Num(z.out, D(s)) <= Num(y.out, D(s))
    PROVE  Near(s, z) <= Near(s, y) /\ Total(s, z) <= Total(s, y)
  BY Numbers DEF Near, Total

LEMMA Unwritten ==
    ASSUME NEW s \in Streams, NEW y \in Views(s), NEW z \in Views(s),
           Num(z.cl.in, C(s)) <= Num(y.cl.in, C(s)), Num(z.pass, C(s)) <= Num(y.pass, C(s)),
           Num(z.wire, C(s)) <= Num(y.wire, C(s)), Written(s, z)
    PROVE  Written(s, y)
  BY Numbers DEF Written

\* A queue in which nothing changes for a stream, or messages are lost.
Steady(s, q, r) == /\ Num(r, D(s)) = Num(q, D(s)) /\ Num(r, C(s)) = Num(q, C(s))
                   /\ Sorted(q, s) => Sorted(r, s)
Fades(s, q, r)  == /\ Num(r, D(s)) <= Num(q, D(s)) /\ Num(r, C(s)) <= Num(q, C(s))
                   /\ Sorted(q, s) => Sorted(r, s)

SameQueues(y, z) == z.out = y.out /\ z.wire = y.wire /\ z.pass = y.pass
SameServer(y, z) == /\ z.sv.pc = y.sv.pc /\ z.sv.n = y.sv.n
                    /\ z.sv.says = y.sv.says /\ z.sv.after = y.sv.after
SameSides(y, z)  == z.clUp = y.clUp /\ z.svUp = y.svUp /\ (z.up => y.up)
FewerAsked(y, z) == z.asked <= y.asked /\ (z.started > 0 => y.started > 0)

\* The step is none of the stream's.
Rests(s, y, z) == /\ z.cl = y.cl /\ SameServer(y, z) /\ SameSides(y, z) /\ FewerAsked(y, z)
                  /\ Steady(s, y.out, z.out) /\ Steady(s, y.wire, z.wire)
                  /\ Steady(s, y.pass, z.pass)

LEMMA RestsKeeps ==
    ASSUME NEW s \in Streams, NEW y \in Views(s), NEW z \in Views(s), Good(s, y), Rests(s, y, z)
    PROVE  Good(s, z)
<1>1. /\ ClientOK(y) /\ AskOK(s, y) /\ StartOK(s, y) /\ OrderOK(s, y)
      /\ ServerOK(s, y) /\ CountOK(s, y)
  BY DEF Good
<1>2. z.cl = y.cl /\ SameServer(y, z) /\ SameSides(y, z) /\ FewerAsked(y, z)
  BY DEF Rests
<1>3. /\ Num(z.out, D(s)) = Num(y.out, D(s)) /\ Num(z.out, C(s)) = Num(y.out, C(s))
      /\ Num(z.wire, D(s)) = Num(y.wire, D(s)) /\ Num(z.wire, C(s)) = Num(y.wire, C(s))
      /\ Num(z.pass, D(s)) = Num(y.pass, D(s)) /\ Num(z.pass, C(s)) = Num(y.pass, C(s))
      /\ Sorted(z.wire, s) /\ Sorted(z.out, s)
  BY <1>1 DEF Rests, Steady, OrderOK
<1>4. /\ Near(s, z) = Near(s, y) /\ Total(s, z) = Total(s, y)
      /\ Written(s, z) = Written(s, y) /\ Live(z) = Live(y) /\ PastStart(z) = PastStart(y)
  BY <1>2, <1>3 DEF Near, Total, Written, Live, PastStart, SameSides
<1>5. Untouched(s, z) = Untouched(s, y)
  BY <1>2, <1>3, <1>4 DEF Untouched, SameServer, SameSides
<1>6. ClientOK(z)
  BY <1>1, <1>2 DEF ClientOK, SameSides
<1>7. AskOK(s, z)
  <2>1. y.asked \in Nat /\ z.asked \in Nat
    BY Numbers
  <2> QED
    BY <1>1, <1>2, <1>5, <2>1 DEF AskOK, SameSides, FewerAsked
<1>8. StartOK(s, z)
  BY <1>1, <1>2, <1>4 DEF StartOK, SameServer, FewerAsked
<1>9. OrderOK(s, z)
  BY <1>1, <1>2, <1>3, <1>4 DEF OrderOK
<1>10. ServerOK(s, z)
  BY <1>1, <1>2, <1>3, <1>4 DEF ServerOK, SameServer, SameSides
<1>11. CountOK(s, z)
  BY <1>1, <1>2, <1>4 DEF CountOK, SameServer, SameSides
<1> QED
  BY <1>6, <1>7, <1>8, <1>9, <1>10, <1>11 DEF Good

\* Messages are lost because the connection is down at one end, or the server's
\* process has ended.
Loses(s, y, z) ==
    /\ z.cl = y.cl /\ FewerAsked(y, z) /\ Fades(s, y.out, z.out)
    /\ z.wire = y.wire \/ z.wire = <<>>
    /\ z.pass = y.pass /\ z.clUp = y.clUp /\ ~ z.up
    /\ \/ z.svUp = y.svUp /\ z.sv = y.sv
       \/ ~ z.svUp /\ z.sv = NoStream /\ z.out = <<>>

LEMMA LosesKeeps ==
    ASSUME NEW s \in Streams, NEW y \in Views(s), NEW z \in Views(s), Good(s, y), Loses(s, y, z)
    PROVE  Good(s, z)
<1>1. /\ ClientOK(y) /\ AskOK(s, y) /\ StartOK(s, y) /\ OrderOK(s, y)
      /\ ServerOK(s, y) /\ CountOK(s, y)
  BY DEF Good
<1>2. /\ Num(y.wire, D(s)) \in Nat /\ Num(y.wire, C(s)) \in Nat
      /\ Num(y.out, D(s)) \in Nat /\ Num(y.out, C(s)) \in Nat
      /\ Num(z.out, D(s)) \in Nat /\ Num(z.out, C(s)) \in Nat
      /\ Num(y.cl.in, C(s)) \in Nat /\ Num(y.pass, C(s)) \in Nat
      /\ Num(y.cl.in, D(s)) \in Nat /\ Num(y.pass, D(s)) \in Nat /\ y.cl.n \in Nat
  BY Numbers
<1>3. /\ Num(z.wire, D(s)) <= Num(y.wire, D(s)) /\ Num(z.wire, C(s)) <= Num(y.wire, C(s))
      /\ Sorted(z.wire, s)
      /\ Num(z.wire, D(s)) = Num(y.wire, D(s)) \/ Num(z.wire, C(s)) = 0
  <2>1. CASE z.wire = y.wire
    BY <1>1, <1>2, <2>1 DEF OrderOK
  <2>2. CASE z.wire = <<>>
    <3>1. Num(z.wire, D(s)) = 0 /\ Num(z.wire, C(s)) = 0
      BY <2>2, NumType DEF Views
    <3>2. Sorted(z.wire, s)
      BY <2>2 DEF Sorted
    <3> QED
      BY <1>2, <3>1, <3>2
  <2> QED
    BY <2>1, <2>2 DEF Loses
<1>4. z.cl = y.cl /\ z.pass = y.pass /\ z.clUp = y.clUp /\ ~ z.up /\ FewerAsked(y, z)
  BY DEF Loses
<1>5. /\ z.cl.n <= y.cl.n /\ Num(z.cl.in, D(s)) <= Num(y.cl.in, D(s))
      /\ Num(z.pass, D(s)) <= Num(y.pass, D(s)) /\ Num(z.out, D(s)) <= Num(y.out, D(s))
      /\ Num(z.cl.in, C(s)) <= Num(y.cl.in, C(s)) /\ Num(z.pass, C(s)) <= Num(y.pass, C(s))
      /\ Num(z.out, C(s)) <= Num(y.out, C(s)) /\ Sorted(z.out, s)
  BY <1>1, <1>2, <1>4 DEF Loses, Fades, OrderOK
<1>6. Near(s, z) <= Near(s, y) /\ Total(s, z) <= Total(s, y)
  BY <1>3, <1>5, Fewer
<1>7. Written(s, z) => Written(s, y)
  BY <1>3, <1>5, Unwritten
<1>8. Live(z) = Live(y) /\ PastStart(z) = PastStart(y)
  BY <1>4 DEF Live, PastStart
<1>9. /\ Total(s, y) \in Nat /\ Total(s, z) \in Nat /\ y.asked \in Nat /\ z.asked \in Nat
      /\ NumData \in Nat /\ y.sv.n \in Nat
  BY Numbers
<1>10. /\ z.sv.pc = y.sv.pc \/ z.sv.pc = "idle"
       /\ z.svUp => y.svUp /\ z.sv = y.sv
       /\ \/ z.sv = y.sv
          \/ ~ z.svUp /\ z.sv.pc = "idle" /\ z.sv.after = "done" /\ z.out = <<>>
  BY DEF Loses, NoStream
<1>11. Untouched(s, y) => Untouched(s, z)
  <2>1. Total(s, y) = 0 => Total(s, z) = 0
    BY <1>6, <1>9
  <2>2. Num(y.out, C(s)) = 0 => Num(z.out, C(s)) = 0
    BY <1>2, <1>5
  <2> QED
    BY <1>7, <1>10, <2>1, <2>2 DEF Untouched
<1>12. ClientOK(z)
  BY <1>1, <1>4 DEF ClientOK
<1>13. AskOK(s, z)
  BY <1>1, <1>4, <1>9, <1>10, <1>11 DEF AskOK, FewerAsked
<1>14. StartOK(s, z)
  <2>1. Total(s, z) > z.cl.n => Total(s, y) > y.cl.n
    BY <1>2, <1>4, <1>6, <1>9
  <2> QED
    BY <1>1, <1>4, <1>8, <1>10, <2>1 DEF StartOK, FewerAsked
<1>15. OrderOK(s, z)
  <2>1. Written(s, z) => Num(z.out, D(s)) = 0
    BY <1>1, <1>2, <1>5, <1>7 DEF OrderOK
  <2>2. Num(y.wire, D(s)) = 0 => Num(z.wire, D(s)) = 0
    <3>1. Num(z.wire, D(s)) \in Nat
      BY Numbers
    <3> QED
      BY <1>2, <1>3, <3>1
  <2> QED
    BY <1>1, <1>3, <1>4, <1>5, <2>1, <2>2 DEF OrderOK
<1>16. ServerOK(s, z)
  <2>1. CASE z.sv = y.sv
    <3>1. Num(z.out, C(s)) > 0 => Num(y.out, C(s)) > 0
      BY <1>2, <1>5
    <3> QED
      BY <1>1, <1>7, <1>10, <2>1, <3>1 DEF ServerOK
  <2>2. CASE ~ z.svUp /\ z.sv.pc = "idle" /\ z.sv.after = "done" /\ z.out = <<>>
    <3>1. Num(z.out, C(s)) = 0
      BY <2>2, NumType DEF Views
    <3> QED
      BY <2>2, <3>1 DEF ServerOK
  <2> QED
    BY <1>10, <2>1, <2>2
<1>17. CountOK(s, z)
  <2>1. ASSUME Live(z), Written(s, z)
        PROVE  Near(s, z) = NumData
    <3>1. Near(s, y) = NumData
      BY <1>1, <1>7, <1>8, <2>1 DEF CountOK
    <3>2. Num(z.wire, D(s)) = Num(y.wire, D(s))
      <4>1. CASE Num(z.wire, C(s)) = 0
        <5>1. Num(y.cl.in, C(s)) > 0 \/ Num(y.pass, C(s)) > 0
          BY <1>2, <1>4, <2>1, <4>1 DEF Written
        <5>2. Num(y.wire, D(s)) = 0
          BY <1>1, <5>1 DEF OrderOK
        <5>3. Num(z.wire, D(s)) \in Nat
          BY Numbers
        <5> QED
          BY <1>3, <5>2, <5>3
      <4> QED
        BY <1>3, <4>1
    <3> QED
      BY <1>4, <3>1, <3>2 DEF Near
  <2>2. Total(s, z) <= NumData
    BY <1>1, <1>6, <1>9 DEF CountOK
  <2>3. ASSUME z.svUp
        PROVE  Total(s, z) <= z.sv.n
    <3>1. z.sv.n = y.sv.n /\ Total(s, y) <= y.sv.n
      BY <1>1, <1>10, <2>3 DEF CountOK
    <3> QED
      BY <1>6, <1>9, <3>1
  <2> QED
    BY <1>4, <2>1, <2>2, <2>3 DEF CountOK
<1> QED
  BY <1>12, <1>13, <1>14, <1>15, <1>16, <1>17 DEF Good

\* The client's process has ended.
ClientGone(y, z) == /\ z.cl = NoStream /\ z.pass = <<>> /\ ~ z.clUp /\ ~ z.up
                    /\ z.asked <= y.asked /\ z.sv = y.sv /\ z.svUp = y.svUp
                    /\ z.out = y.out /\ z.wire = y.wire

LEMMA ClientGoneKeeps ==
    ASSUME NEW s \in Streams, NEW y \in Views(s), NEW z \in Views(s), Good(s, y), ClientGone(y, z)
    PROVE  Good(s, z)
<1>1. /\ ClientOK(y) /\ AskOK(s, y) /\ StartOK(s, y) /\ OrderOK(s, y)
      /\ ServerOK(s, y) /\ CountOK(s, y)
  BY DEF Good
<1>2. /\ Num(y.wire, D(s)) \in Nat /\ Num(y.wire, C(s)) \in Nat
      /\ Num(y.out, D(s)) \in Nat /\ Num(y.out, C(s)) \in Nat
      /\ Num(y.cl.in, C(s)) \in Nat /\ Num(y.pass, C(s)) \in Nat
      /\ Num(y.cl.in, D(s)) \in Nat /\ Num(y.pass, D(s)) \in Nat /\ y.cl.n \in Nat
  BY Numbers
<1>3. /\ z.cl.pc = "idle" /\ z.cl.closed = FALSE /\ z.cl.complete = FALSE
      /\ z.cl.n = 0 /\ z.cl.in = <<>> /\ z.pass = <<>> /\ ~ z.clUp
  BY DEF NoStream, ClientGone
<1>4. /\ ~ z.up /\ z.asked <= y.asked /\ z.sv = y.sv /\ z.svUp = y.svUp
      /\ z.out = y.out /\ z.wire = y.wire
  BY DEF ClientGone
<1>5. /\ Num(z.cl.in, D(s)) = 0 /\ Num(z.cl.in, C(s)) = 0
      /\ Num(z.pass, D(s)) = 0 /\ Num(z.pass, C(s)) = 0 /\ Sorted(z.cl.in, s)
  <2>1. \A m : Num(<<>>, m) = 0
    BY NumType DEF Views
  <2> QED
    BY <1>3, <2>1 DEF Sorted
<1>6. /\ z.cl.n <= y.cl.n /\ Num(z.cl.in, D(s)) <= Num(y.cl.in, D(s))
      /\ Num(z.pass, D(s)) <= Num(y.pass, D(s)) /\ Num(z.out, D(s)) <= Num(y.out, D(s))
      /\ Num(z.cl.in, C(s)) <= Num(y.cl.in, C(s)) /\ Num(z.pass, C(s)) <= Num(y.pass, C(s))
      /\ Num(z.wire, D(s)) <= Num(y.wire, D(s)) /\ Num(z.wire, C(s)) <= Num(y.wire, C(s))
  BY <1>2, <1>3, <1>4, <1>5
<1>7. Near(s, z) <= Near(s, y) /\ Total(s, z) <= Total(s, y)
  BY <1>6, Fewer
<1>8. Written(s, z) => Written(s, y)
  BY <1>6, Unwritten
<1>9. /\ Total(s, y) \in Nat /\ Total(s, z) \in Nat /\ y.asked \in Nat /\ z.asked \in Nat
      /\ NumData \in Nat /\ y.sv.n \in Nat
  BY Numbers
<1>10. Untouched(s, y) => Untouched(s, z)
  <2>1. Total(s, y) = 0 => Total(s, z) = 0
    BY <1>7, <1>9
  <2> QED
    BY <1>4, <1>8, <2>1 DEF Untouched
<1>11. ClientOK(z) /\ StartOK(s, z)
  BY <1>3 DEF ClientOK, StartOK, PastStart
<1>12. AskOK(s, z)
  BY <1>1, <1>3, <1>4, <1>9, <1>10 DEF AskOK
<1>13. OrderOK(s, z)
  BY <1>1, <1>4, <1>5, <1>8 DEF OrderOK
<1>14. ServerOK(s, z)
  BY <1>1, <1>4, <1>8 DEF ServerOK
<1>15. CountOK(s, z)
  BY <1>1, <1>3, <1>4, <1>7, <1>9 DEF CountOK, Live
<1> QED
  BY <1>11, <1>12, <1>13, <1>14, <1>15 DEF Good

\* A step of the client's stream that neither ends it nor takes Data.
Pairs == {<<"idle", "sent">>, <<"idle", "done">>, <<"sent", "made">>, <<"made", "resp">>,
          <<"resp", "start">>, <<"start", "recv">>, <<"tell", "close">>, <<"tell", "done">>}

ClientMoves(s, y, z) ==
    /\ <<y.cl.pc, z.cl.pc>> \in Pairs
    /\ y.clUp /\ SameSides(y, z) /\ SameQueues(y, z) /\ z.sv = y.sv
    /\ z.cl.n = y.cl.n /\ z.cl.closed = y.cl.closed /\ z.cl.complete = y.cl.complete
    /\ z.cl.reg = (IF z.cl.pc = "made" THEN TRUE ELSE y.cl.reg)
    /\ Steady(s, y.cl.in, z.cl.in)
    /\ z.asked <= y.asked + (IF z.cl.pc = "sent" THEN 1 ELSE 0)
    /\ z.started > 0 => y.started > 0 \/ z.cl.pc = "recv"

LEMMA ClientMovesKeeps ==
    ASSUME NEW s \in Streams, NEW y \in Views(s), NEW z \in Views(s), Good(s, y),
           ClientMoves(s, y, z)
    PROVE  Good(s, z)
<1>1. /\ ClientOK(y) /\ AskOK(s, y) /\ StartOK(s, y) /\ OrderOK(s, y)
      /\ ServerOK(s, y) /\ CountOK(s, y)
  BY DEF Good
<1>2. /\ y.clUp /\ z.clUp /\ z.svUp = y.svUp /\ (z.up => y.up)
      /\ z.out = y.out /\ z.wire = y.wire /\ z.pass = y.pass /\ z.sv = y.sv
      /\ z.cl.n = y.cl.n /\ z.cl.closed = y.cl.closed /\ z.cl.complete = y.cl.complete
      /\ z.started > 0 => y.started > 0 \/ z.cl.pc = "recv"
  BY DEF ClientMoves, SameSides, SameQueues
<1>3. /\ Num(z.cl.in, D(s)) = Num(y.cl.in, D(s)) /\ Num(z.cl.in, C(s)) = Num(y.cl.in, C(s))
      /\ Sorted(z.cl.in, s)
  BY <1>1 DEF ClientMoves, Steady, OrderOK
<1>4. /\ Near(s, z) = Near(s, y) /\ Total(s, z) = Total(s, y)
      /\ Written(s, z) = Written(s, y) /\ Live(z) = Live(y)
  BY <1>2, <1>3 DEF Near, Total, Written, Live
<1>5. Untouched(s, z) = Untouched(s, y)
  BY <1>2, <1>4 DEF Untouched
<1>6. /\ z.cl.pc \notin {"idle", "tell"}
      /\ z.cl.pc \in {"made", "resp", "start", "recv"} => y.cl.pc \in {"sent", "made", "resp", "start"}
      /\ y.cl.pc \in {"made", "resp", "start", "recv"} => z.cl.pc \in {"resp", "start", "recv"}
      /\ y.cl.pc \in {"tell", "close", "done"} => z.cl.pc \in {"close", "done"}
      /\ z.cl.pc = "made" <=> y.cl.pc = "sent"
      /\ z.cl.pc = "sent" <=> y.cl.pc = "idle" /\ z.cl.pc # "done"
      /\ y.cl.pc # "recv" /\ z.cl.pc \notin {"req", "reply", "wait", "send"}
  BY DEF ClientMoves, Pairs
<1>7. ClientOK(z)
  <2>1. z.cl.closed => z.cl.pc \in {"tell", "close", "done"}
    BY <1>1, <1>2, <1>6 DEF ClientOK
  <2>2. z.cl.pc \in {"made", "resp", "start", "recv"} <=> z.cl.reg
    BY <1>1, <1>2, <1>6 DEF ClientOK, ClientMoves
  <2> QED
    BY <1>1, <1>2, <1>6, <2>1, <2>2 DEF ClientOK
<1>8. AskOK(s, z)
  <2>1. y.asked \in Nat /\ z.asked \in Nat
    BY Numbers
  <2>2. CASE z.cl.pc = "sent"
    <3>1. y.asked = 0 /\ Untouched(s, y) /\ z.asked <= y.asked + 1
      BY <1>1, <1>2, <1>6, <2>2 DEF AskOK, ClientMoves
    <3> QED
      BY <1>5, <2>1, <2>2, <3>1 DEF AskOK
  <2>3. CASE z.cl.pc # "sent"
    <3>1. z.asked <= y.asked
      BY <2>1, <2>3 DEF ClientMoves
    <3> QED
      BY <1>1, <1>2, <1>5, <1>6, <2>1, <3>1 DEF AskOK
  <2> QED
    BY <2>2, <2>3
<1>9. StartOK(s, z)
  <2>1. PastStart(y) => PastStart(z)
    BY <1>2, <1>6 DEF PastStart
  <2>2. z.cl.pc = "recv" => PastStart(z)
    BY DEF PastStart
  <2> QED
    BY <1>1, <1>2, <1>4, <2>1, <2>2 DEF StartOK
<1>10. OrderOK(s, z)
  BY <1>1, <1>2, <1>3, <1>4 DEF OrderOK
<1>11. ServerOK(s, z)
  BY <1>1, <1>2, <1>4 DEF ServerOK
<1>12. CountOK(s, z)
  BY <1>1, <1>2, <1>4 DEF CountOK
<1> QED
  BY <1>7, <1>8, <1>9, <1>10, <1>11, <1>12 DEF Good

\* The client's stream ends, for whatever reason.
ClientEnds(s, y, z) ==
    /\ y.clUp /\ SameSides(y, z) /\ SameQueues(y, z) /\ z.sv = y.sv
    /\ z.asked = y.asked /\ z.started = y.started
    /\ z.cl.n = y.cl.n /\ z.cl.closed /\ z.cl.in = <<>> /\ ~ z.cl.reg
    /\ z.cl.pc \in {"tell", "close", "done"} /\ y.cl.pc \in {"resp", "start", "recv"}
    /\ z.cl.complete => y.cl.in # <<>> /\ Head(y.cl.in) = C(s)

LEMMA ClientEndsKeeps ==
    ASSUME NEW s \in Streams, NEW y \in Views(s), NEW z \in Views(s), Good(s, y),
           ClientEnds(s, y, z)
    PROVE  Good(s, z)
<1>1. /\ ClientOK(y) /\ AskOK(s, y) /\ StartOK(s, y) /\ OrderOK(s, y)
      /\ ServerOK(s, y) /\ CountOK(s, y)
  BY DEF Good
<1>2. /\ y.clUp /\ z.clUp /\ z.svUp = y.svUp /\ (z.up => y.up)
      /\ z.out = y.out /\ z.wire = y.wire /\ z.pass = y.pass /\ z.sv = y.sv
      /\ z.asked = y.asked /\ z.started = y.started
      /\ z.cl.n = y.cl.n /\ z.cl.closed /\ z.cl.in = <<>> /\ ~ z.cl.reg
      /\ z.cl.pc \in {"tell", "close", "done"} /\ y.cl.pc \in {"resp", "start", "recv"}
  BY DEF ClientEnds, SameSides, SameQueues
<1>3. /\ Num(y.wire, D(s)) \in Nat /\ Num(y.wire, C(s)) \in Nat
      /\ Num(y.out, D(s)) \in Nat /\ Num(y.out, C(s)) \in Nat
      /\ Num(y.cl.in, C(s)) \in Nat /\ Num(y.pass, C(s)) \in Nat
      /\ Num(y.cl.in, D(s)) \in Nat /\ Num(y.pass, D(s)) \in Nat /\ y.cl.n \in Nat
  BY Numbers
<1>4. /\ Num(z.cl.in, D(s)) = 0 /\ Num(z.cl.in, C(s)) = 0 /\ Sorted(z.cl.in, s)
  <2>1. \A m : Num(<<>>, m) = 0
    BY NumType DEF Views
  <2> QED
    BY <1>2, <2>1 DEF Sorted
<1>5. /\ z.cl.n <= y.cl.n /\ Num(z.cl.in, D(s)) <= Num(y.cl.in, D(s))
      /\ Num(z.pass, D(s)) <= Num(y.pass, D(s)) /\ Num(z.out, D(s)) <= Num(y.out, D(s))
      /\ Num(z.cl.in, C(s)) <= Num(y.cl.in, C(s)) /\ Num(z.pass, C(s)) <= Num(y.pass, C(s))
      /\ Num(z.wire, D(s)) <= Num(y.wire, D(s)) /\ Num(z.wire, C(s)) <= Num(y.wire, C(s))
  BY <1>2, <1>3, <1>4
<1>6. Near(s, z) <= Near(s, y) /\ Total(s, z) <= Total(s, y)
  BY <1>5, Fewer
<1>7. Written(s, z) => Written(s, y)
  BY <1>5, Unwritten
<1>8. /\ Total(s, y) \in Nat /\ Total(s, z) \in Nat /\ NumData \in Nat /\ y.sv.n \in Nat
      /\ y.asked \in Nat
  BY Numbers
<1>9. ASSUME z.cl.complete
      PROVE  y.cl.n = NumData
  <2>1. y.cl.in # <<>> /\ Head(y.cl.in) = C(s)
    BY <1>9 DEF ClientEnds
  <2>2. y.cl.in \in Seq(Of(AllTypes, {s}))
    BY DEF Views, StreamRec
  <2>3. Num(y.cl.in, D(s)) = 0
    BY <1>1, <2>1, <2>2, SortedTail DEF OrderOK
  <2>4. Num(y.cl.in, C(s)) > 0
    BY <2>1, <2>2, HeadTail, NumType
  <2>5. Written(s, y)
    BY <1>3, <2>4 DEF Written
  <2>6. Live(y)
    BY <1>1, <1>2 DEF ClientOK, Live
  <2>7. Near(s, y) = NumData
    BY <1>1, <2>5, <2>6 DEF CountOK
  <2>8. Num(y.pass, D(s)) = 0 /\ Num(y.wire, D(s)) = 0
    BY <1>1, <2>4 DEF OrderOK
  <2> QED
    BY <1>3, <2>3, <2>7, <2>8 DEF Near
<1>10. ClientOK(z)
  BY <1>2, <1>9 DEF ClientOK
<1>11. AskOK(s, z)
  <2>1. Untouched(s, y) => Untouched(s, z)
    <3>1. Total(s, y) = 0 => Total(s, z) = 0
      BY <1>6, <1>8
    <3> QED
      BY <1>2, <1>7, <3>1 DEF Untouched
  <2> QED
    BY <1>1, <1>2, <1>8, <2>1 DEF AskOK
<1>12. StartOK(s, z)
  BY <1>2 DEF StartOK, PastStart
<1>13. OrderOK(s, z)
  BY <1>1, <1>2, <1>4, <1>7 DEF OrderOK
<1>14. ServerOK(s, z)
  BY <1>1, <1>2, <1>7 DEF ServerOK
<1>15. CountOK(s, z)
  <2>1. Total(s, z) <= NumData /\ (z.svUp => Total(s, z) <= z.sv.n)
    BY <1>1, <1>2, <1>6, <1>8 DEF CountOK
  <2> QED
    BY <1>2, <2>1 DEF CountOK, Live
<1> QED
  BY <1>10, <1>11, <1>12, <1>13, <1>14, <1>15 DEF Good

\* The client's stream takes Data from its channel.
TakesData(s, y, z) ==
    /\ y.clUp /\ SameSides(y, z) /\ SameQueues(y, z) /\ z.sv = y.sv
    /\ z.asked = y.asked /\ z.started = y.started
    /\ y.cl.pc = "recv" /\ z.cl.pc = "recv" /\ z.cl.n = y.cl.n + 1
    /\ z.cl.closed = y.cl.closed /\ z.cl.complete = y.cl.complete /\ z.cl.reg = y.cl.reg
    /\ y.cl.in # <<>> /\ Head(y.cl.in) = D(s) /\ z.cl.in = Tail(y.cl.in)

\* There is room for it in the file.
LEMMA RoomForData ==
    ASSUME NEW s \in Streams, NEW y \in Views(s), Good(s, y),
           y.cl.in # <<>>, Head(y.cl.in) = D(s)
    PROVE  y.cl.n + 1 \in 0 .. NumData
<1>1. y.cl.in \in Seq(Of(AllTypes, {s}))
  BY DEF Views, StreamRec
<1>2. Num(y.cl.in, D(s)) > 0
  BY <1>1, HeadTail, NumType
<1>3. Total(s, y) <= NumData
  BY DEF Good, CountOK
<1>4. /\ y.cl.n \in Nat /\ Num(y.cl.in, D(s)) \in Nat /\ Num(y.pass, D(s)) \in Nat
      /\ Num(y.wire, D(s)) \in Nat /\ Num(y.out, D(s)) \in Nat /\ NumData \in Nat
  BY Numbers
<1> QED
  BY <1>2, <1>3, <1>4 DEF Total, Near

LEMMA TakesDataKeeps ==
    ASSUME NEW s \in Streams, NEW y \in Views(s), NEW z \in Views(s), Good(s, y),
           TakesData(s, y, z)
    PROVE  Good(s, z)
<1>1. /\ ClientOK(y) /\ AskOK(s, y) /\ StartOK(s, y) /\ OrderOK(s, y)
      /\ ServerOK(s, y) /\ CountOK(s, y)
  BY DEF Good
<1>2. /\ y.clUp /\ z.clUp /\ z.svUp = y.svUp /\ (z.up => y.up)
      /\ z.out = y.out /\ z.wire = y.wire /\ z.pass = y.pass /\ z.sv = y.sv
      /\ z.asked = y.asked /\ z.started = y.started
      /\ y.cl.pc = "recv" /\ z.cl.pc = "recv" /\ z.cl.n = y.cl.n + 1
      /\ z.cl.closed = y.cl.closed /\ z.cl.complete = y.cl.complete /\ z.cl.reg = y.cl.reg
  BY DEF TakesData, SameSides, SameQueues
<1>3. /\ Num(y.cl.in, D(s)) \in Nat /\ Num(z.cl.in, D(s)) \in Nat /\ y.cl.n \in Nat
      /\ Num(y.pass, D(s)) \in Nat /\ Num(y.wire, D(s)) \in Nat
  BY Numbers
<1>4. /\ Num(y.cl.in, D(s)) = Num(z.cl.in, D(s)) + 1
      /\ Num(z.cl.in, C(s)) = Num(y.cl.in, C(s)) /\ Sorted(z.cl.in, s)
  <2>1. y.cl.in \in Seq(Of(AllTypes, {s})) /\ D(s) # C(s)
    <3>1. y.cl \in StreamRec(s)
      BY DEF Views
    <3>2. y.cl.in \in Seq(Of(AllTypes, {s}))
      BY <3>1 DEF StreamRec
    <3>3. D(s) # C(s)
      BY MsgFacts DEF D, C
    <3> QED
      BY <3>2, <3>3
  <2>2. y.cl.in # <<>> /\ Head(y.cl.in) = D(s) /\ z.cl.in = Tail(y.cl.in)
    BY DEF TakesData
  <2>3. Num(y.cl.in, D(s)) = Num(z.cl.in, D(s)) + 1
    BY <2>1, <2>2, NumTail
  <2>4. Num(z.cl.in, C(s)) \in Nat /\ Num(y.cl.in, C(s)) = Num(z.cl.in, C(s)) + 0
    BY <2>1, <2>2, NumTail
  <2>5. Sorted(z.cl.in, s)
    BY <1>1, <2>1, <2>2, SortedTail DEF OrderOK
  <2> QED
    BY <2>3, <2>4, <2>5
<1>5. ~ y.cl.closed /\ ~ y.cl.complete
  BY <1>1, <1>2 DEF ClientOK
<1>6. Near(s, z) = Near(s, y)
  BY <1>2, <1>3, <1>4 DEF Near
<1>7. Total(s, z) = Total(s, y) /\ Written(s, z) = Written(s, y) /\ Live(z) = Live(y)
  BY <1>2, <1>4, <1>6 DEF Total, Written, Live
<1>8. Untouched(s, z) = Untouched(s, y)
  BY <1>2, <1>7 DEF Untouched
<1>9. ClientOK(z)
  BY <1>1, <1>2, <1>5 DEF ClientOK
<1>10. AskOK(s, z)
  BY <1>1, <1>2, <1>8 DEF AskOK
<1>11. StartOK(s, z)
  BY <1>2 DEF StartOK, PastStart
<1>12. OrderOK(s, z)
  BY <1>1, <1>2, <1>4, <1>7 DEF OrderOK
<1>13. ServerOK(s, z)
  BY <1>1, <1>2, <1>7 DEF ServerOK
<1>14. CountOK(s, z)
  BY <1>1, <1>2, <1>6, <1>7 DEF CountOK
<1> QED
  BY <1>9, <1>10, <1>11, <1>12, <1>13, <1>14 DEF Good

\* A step of the server's stream that sends nothing the model follows.
ServerMoves(s, y, z) ==
    /\ y.svUp /\ SameSides(y, z) /\ SameQueues(y, z) /\ z.cl = y.cl
    /\ FewerAsked(y, z)
    /\ z.sv.n = y.sv.n /\ z.sv.after = "done"
    /\ y.sv.pc \notin {"idle", "done"} /\ z.sv.pc # "idle"
    /\ z.sv.pc = "send" => y.started > 0
    /\ z.sv.pc = "tell" /\ z.sv.says = "Complete" => y.sv.n = NumData

LEMMA ServerMovesKeeps ==
    ASSUME NEW s \in Streams, NEW y \in Views(s), NEW z \in Views(s), Good(s, y),
           ServerMoves(s, y, z)
    PROVE  Good(s, z)
<1>1. /\ ClientOK(y) /\ AskOK(s, y) /\ StartOK(s, y) /\ OrderOK(s, y)
      /\ ServerOK(s, y) /\ CountOK(s, y)
  BY DEF Good
<1>2. /\ y.svUp /\ z.svUp /\ z.clUp = y.clUp /\ (z.up => y.up)
      /\ z.out = y.out /\ z.wire = y.wire /\ z.pass = y.pass /\ z.cl = y.cl
      /\ z.asked <= y.asked /\ (z.started > 0 => y.started > 0)
      /\ z.sv.n = y.sv.n /\ z.sv.after = "done"
      /\ y.sv.pc \notin {"idle", "done"} /\ z.sv.pc # "idle"
  BY DEF ServerMoves, SameSides, SameQueues, FewerAsked
<1>3. /\ Near(s, z) = Near(s, y) /\ Total(s, z) = Total(s, y)
      /\ Written(s, z) = Written(s, y) /\ Live(z) = Live(y) /\ PastStart(z) = PastStart(y)
  BY <1>2 DEF Near, Total, Written, Live, PastStart
<1>4. ~ Untouched(s, y) /\ y.asked \in Nat /\ z.asked \in Nat
  BY <1>2, Numbers DEF Untouched
<1>5. ClientOK(z)
  BY <1>1, <1>2 DEF ClientOK
<1>6. AskOK(s, z)
  BY <1>1, <1>2, <1>4 DEF AskOK
<1>7. StartOK(s, z)
  BY <1>1, <1>2, <1>3 DEF StartOK, ServerMoves
<1>8. OrderOK(s, z)
  BY <1>1, <1>2, <1>3 DEF OrderOK
<1>9. ServerOK(s, z)
  <2>1. ~ Written(s, y) /\ ~ (Num(y.out, C(s)) > 0)
    BY <1>1, <1>2 DEF ServerOK
  <2> QED
    BY <1>2, <1>3, <2>1 DEF ServerOK, ServerMoves
<1>10. CountOK(s, z)
  BY <1>1, <1>2, <1>3 DEF CountOK
<1> QED
  BY <1>5, <1>6, <1>7, <1>8, <1>9, <1>10 DEF Good

\* The server's stream sends Data ...
SendsData(s, y, z) ==
    /\ y.svUp /\ SameSides(y, z) /\ z.cl = y.cl /\ z.wire = y.wire /\ z.pass = y.pass
    /\ z.asked = y.asked /\ z.started = y.started
    /\ z.out = Append(y.out, D(s))
    /\ y.sv.pc = "send" /\ z.sv.pc = "send" /\ z.sv.n = y.sv.n + 1
    /\ z.sv.after = y.sv.after

LEMMA SendsDataKeeps ==
    ASSUME NEW s \in Streams, NEW y \in Views(s), NEW z \in Views(s), Good(s, y),
           SendsData(s, y, z)
    PROVE  Good(s, z)
<1>1. /\ ClientOK(y) /\ AskOK(s, y) /\ StartOK(s, y) /\ OrderOK(s, y)
      /\ ServerOK(s, y) /\ CountOK(s, y)
  BY DEF Good
<1>2. /\ y.svUp /\ z.svUp /\ z.clUp = y.clUp /\ (z.up => y.up)
      /\ z.wire = y.wire /\ z.pass = y.pass /\ z.cl = y.cl
      /\ z.asked = y.asked /\ z.started = y.started
      /\ y.sv.pc = "send" /\ z.sv.pc = "send" /\ z.sv.n = y.sv.n + 1
      /\ z.sv.after = y.sv.after
  BY DEF SendsData, SameSides
<1>3. /\ y.sv.n \in Nat /\ z.sv.n <= NumData /\ NumData \in Nat /\ Near(s, y) \in Nat
      /\ Num(y.out, D(s)) \in Nat /\ Num(y.out, C(s)) \in Nat /\ Total(s, y) \in Nat
      /\ y.asked \in Nat
  BY Numbers
<1>4. ~ Written(s, y) /\ Num(y.out, C(s)) = 0 /\ PastStart(y)
  BY <1>1, <1>2, <1>3 DEF ServerOK, StartOK
<1>5. /\ Num(z.out, D(s)) = Num(y.out, D(s)) + 1 /\ Num(z.out, C(s)) = 0 /\ Sorted(z.out, s)
  <2>1. y.out \in Seq(Msgs) /\ z.out = Append(y.out, D(s)) /\ D(s) \in Msgs /\ D(s) # C(s)
    BY MsgFacts DEF Views, SendsData, D, C, Msg, Msgs, Of, AllTypes, DataTypes
  <2>2. Num(z.out, D(s)) = Num(y.out, D(s)) + 1
    BY <2>1, NumAppend
  <2>3. Num(z.out, C(s)) = Num(y.out, C(s)) + 0
    BY <2>1, NumAppend
  <2>4. Sorted(y.out, s)
    BY <1>1 DEF OrderOK
  <2>5. Sorted(z.out, s)
    BY <1>4, <2>1, <2>4, SortedAppend
  <2> QED
    BY <1>3, <1>4, <2>2, <2>3, <2>5
<1>6. /\ Near(s, z) = Near(s, y) /\ Written(s, z) = Written(s, y)
      /\ Live(z) = Live(y) /\ PastStart(z) = PastStart(y)
  BY <1>2 DEF Near, Written, Live, PastStart
<1>7. Total(s, z) = Total(s, y) + 1
  BY <1>3, <1>5, <1>6 DEF Total
<1>8. ClientOK(z) /\ StartOK(s, z)
  BY <1>1, <1>2, <1>4, <1>6 DEF ClientOK, StartOK
<1>9. AskOK(s, z)
  <2>1. ~ Untouched(s, y)
    BY <1>2 DEF Untouched
  <2> QED
    BY <1>1, <1>2, <1>3, <2>1 DEF AskOK
<1>10. OrderOK(s, z)
  BY <1>1, <1>2, <1>4, <1>5, <1>6 DEF OrderOK
<1>11. ServerOK(s, z)
  BY <1>1, <1>2, <1>4, <1>5, <1>6 DEF ServerOK
<1>12. CountOK(s, z)
  <2>1. Total(s, y) <= y.sv.n /\ (Live(y) /\ y.up => Total(s, y) = y.sv.n)
    BY <1>1, <1>2 DEF CountOK
  <2>2. Total(s, z) <= NumData /\ Total(s, z) <= z.sv.n
    BY <1>2, <1>3, <1>7, <2>1
  <2> QED
    BY <1>2, <1>3, <1>4, <1>6, <1>7, <2>1, <2>2 DEF CountOK
<1> QED
  BY <1>8, <1>9, <1>10, <1>11, <1>12 DEF Good

\* ... or its last message.
SendsEnd(s, y, z) ==
    /\ y.svUp /\ SameSides(y, z) /\ z.cl = y.cl /\ z.wire = y.wire /\ z.pass = y.pass
    /\ z.asked = y.asked /\ z.started = y.started
    /\ \E m \in Of(DataTypes, {s}) : /\ z.out = Append(y.out, m) /\ m # D(s)
                                     /\ m = C(s) => y.sv.says = "Complete"
    /\ y.sv.pc = "tell" /\ z.sv.pc = "done" /\ z.sv.n = y.sv.n /\ z.sv.after = "done"

LEMMA SendsEndKeeps ==
    ASSUME NEW s \in Streams, NEW y \in Views(s), NEW z \in Views(s), Good(s, y),
           SendsEnd(s, y, z)
    PROVE  Good(s, z)
<1>1. /\ ClientOK(y) /\ AskOK(s, y) /\ StartOK(s, y) /\ OrderOK(s, y)
      /\ ServerOK(s, y) /\ CountOK(s, y)
  BY DEF Good
<1>2. /\ y.svUp /\ z.svUp /\ z.clUp = y.clUp /\ (z.up => y.up)
      /\ z.wire = y.wire /\ z.pass = y.pass /\ z.cl = y.cl
      /\ z.asked = y.asked /\ z.started = y.started
      /\ y.sv.pc = "tell" /\ z.sv.pc = "done" /\ z.sv.n = y.sv.n /\ z.sv.after = "done"
  BY DEF SendsEnd, SameSides
<1>3. PICK m \in Of(DataTypes, {s}) : /\ z.out = Append(y.out, m) /\ m # D(s)
                                      /\ m = C(s) => y.sv.says = "Complete"
  BY DEF SendsEnd
<1>4. /\ Num(y.out, D(s)) \in Nat /\ Num(y.out, C(s)) \in Nat /\ y.asked \in Nat
  BY Numbers
<1>5. ~ Written(s, y) /\ Num(y.out, C(s)) = 0
  BY <1>1, <1>2, <1>4 DEF ServerOK
<1>6. /\ Num(z.out, D(s)) = Num(y.out, D(s)) /\ Sorted(z.out, s)
      /\ Num(z.out, C(s)) > 0 => m = C(s)
  <2>1. y.out \in Seq(Msgs) /\ m \in Msgs
    BY DEF Views, Msgs, Of, AllTypes
  <2>2. Num(z.out, D(s)) = Num(y.out, D(s)) + 0
    BY <1>3, <2>1, NumAppend
  <2>3. Num(z.out, C(s)) = Num(y.out, C(s)) + (IF m = C(s) THEN 1 ELSE 0)
    BY <1>3, <2>1, NumAppend
  <2>4. Sorted(y.out, s)
    BY <1>1 DEF OrderOK
  <2>5. Sorted(z.out, s)
    BY <1>3, <2>1, <2>4, SortedAppend
  <2> QED
    BY <1>4, <1>5, <2>2, <2>3, <2>5
<1>7. /\ Near(s, z) = Near(s, y) /\ Total(s, z) = Total(s, y) /\ Written(s, z) = Written(s, y)
      /\ Live(z) = Live(y) /\ PastStart(z) = PastStart(y)
  BY <1>2, <1>6 DEF Near, Total, Written, Live, PastStart
<1>8. ClientOK(z) /\ StartOK(s, z)
  BY <1>1, <1>2, <1>7 DEF ClientOK, StartOK
<1>9. AskOK(s, z)
  <2>1. ~ Untouched(s, y)
    BY <1>2 DEF Untouched
  <2> QED
    BY <1>1, <1>2, <1>4, <2>1 DEF AskOK
<1>10. OrderOK(s, z)
  BY <1>1, <1>2, <1>5, <1>6, <1>7 DEF OrderOK
<1>11. ServerOK(s, z)
  BY <1>1, <1>2, <1>3, <1>6, <1>7 DEF ServerOK
<1>12. CountOK(s, z)
  BY <1>1, <1>2, <1>7 DEF CountOK
<1> QED
  BY <1>8, <1>9, <1>10, <1>11, <1>12 DEF Good

\* The first of the messages the server has queued is written.
Sent(s, y, z) ==
    /\ y.up /\ SameSides(y, z) /\ z.cl = y.cl /\ z.sv = y.sv /\ z.pass = y.pass
    /\ FewerAsked(y, z)
    /\ y.out # <<>> /\ z.out = Tail(y.out) /\ z.wire = Append(y.wire, Head(y.out))

LEMMA SentKeeps ==
    ASSUME NEW s \in Streams, NEW y \in Views(s), NEW z \in Views(s), Good(s, y), Sent(s, y, z)
    PROVE  Good(s, z)
<1>1. /\ ClientOK(y) /\ AskOK(s, y) /\ StartOK(s, y) /\ OrderOK(s, y)
      /\ ServerOK(s, y) /\ CountOK(s, y)
  BY DEF Good
<1>2. /\ z.clUp = y.clUp /\ z.svUp = y.svUp /\ y.up /\ z.cl = y.cl /\ z.sv = y.sv
      /\ z.pass = y.pass /\ z.asked <= y.asked /\ (z.started > 0 => y.started > 0)
  BY DEF Sent, SameSides, FewerAsked
<1>3. PICK h : h = Head(y.out)
  OBVIOUS
<1>4. /\ y.out # <<>> /\ z.out = Tail(y.out) /\ z.wire = Append(y.wire, h) /\ h \in Msgs
      /\ y.out \in Seq(Msgs) /\ y.wire \in Seq(Msgs) /\ Head(y.out) = h
  BY <1>3, HeadTail DEF Sent, Views
<1>5. \A m : /\ Num(y.out, m) = Num(z.out, m) + (IF h = m THEN 1 ELSE 0)
             /\ Num(z.wire, m) = Num(y.wire, m) + (IF h = m THEN 1 ELSE 0)
  BY <1>4, NumTail, NumAppend
<1>6. /\ Num(y.wire, D(s)) \in Nat /\ Num(y.wire, C(s)) \in Nat
      /\ Num(z.wire, D(s)) \in Nat /\ Num(z.wire, C(s)) \in Nat
      /\ Num(y.out, D(s)) \in Nat /\ Num(y.out, C(s)) \in Nat
      /\ Num(z.out, D(s)) \in Nat /\ Num(z.out, C(s)) \in Nat
  <2>1. Num(y.wire, D(s)) \in Nat /\ Num(y.wire, C(s)) \in Nat
        /\ Num(y.out, D(s)) \in Nat /\ Num(y.out, C(s)) \in Nat
    BY Numbers
  <2>2. Num(z.wire, D(s)) \in Nat /\ Num(z.wire, C(s)) \in Nat
        /\ Num(z.out, D(s)) \in Nat /\ Num(z.out, C(s)) \in Nat
    BY Numbers
  <2> QED
    BY <2>1, <2>2
<1>7. /\ Num(y.cl.in, C(s)) \in Nat /\ Num(y.pass, C(s)) \in Nat /\ y.cl.n \in Nat
      /\ Num(y.cl.in, D(s)) \in Nat /\ Num(y.pass, D(s)) \in Nat
      /\ Near(s, y) \in Nat /\ Total(s, y) \in Nat /\ y.asked \in Nat /\ z.asked \in Nat
  BY Numbers
<1>8. /\ h = D(s) => ~ Written(s, y) /\ Num(y.out, D(s)) > 0
      /\ h = C(s) => Num(y.out, D(s)) = 0 /\ Num(y.out, C(s)) > 0
      /\ D(s) # C(s)
  <2>1. D(s) # C(s)
    BY MsgFacts DEF D, C
  <2>2. h = D(s) => Num(y.out, D(s)) > 0
    BY <1>5, <1>6
  <2>3. h = C(s) => Num(y.out, C(s)) > 0
    BY <1>5, <1>6
  <2>4. h = C(s) => Num(y.out, D(s)) = 0
    BY <1>1, <1>4, SortedTail DEF OrderOK
  <2>5. Written(s, y) => Num(y.out, D(s)) = 0
    BY <1>1 DEF OrderOK
  <2> QED
    BY <2>1, <2>2, <2>3, <2>4, <2>5
<1>9. Sorted(z.out, s) /\ Sorted(z.wire, s)
  <2>1. Sorted(y.out, s) /\ Sorted(y.wire, s)
    BY <1>1 DEF OrderOK
  <2>2. Sorted(z.out, s)
    BY <1>4, <2>1, SortedTail
  <2>3. h = D(s) => Num(y.wire, C(s)) = 0
    BY <1>6, <1>7, <1>8 DEF Written
  <2>4. Sorted(z.wire, s)
    BY <1>4, <2>1, <2>3, SortedAppend
  <2> QED
    BY <2>2, <2>4
<1>10. /\ Near(s, z) = Near(s, y) + (IF h = D(s) THEN 1 ELSE 0)
       /\ Near(s, y) <= Near(s, z)
  <2>1. Num(z.wire, D(s)) = Num(y.wire, D(s)) + (IF h = D(s) THEN 1 ELSE 0)
    BY <1>5
  <2> QED
    BY <1>2, <1>6, <1>7, <2>1 DEF Near
<1>11. Total(s, z) = Total(s, y)
  <2>1. Num(y.out, D(s)) = Num(z.out, D(s)) + (IF h = D(s) THEN 1 ELSE 0)
    BY <1>5
  <2> QED
    BY <1>6, <1>7, <1>10, <2>1 DEF Total
<1>12. Written(s, z) <=> Written(s, y) \/ h = C(s)
  <2>1. Num(z.wire, C(s)) = Num(y.wire, C(s)) + (IF h = C(s) THEN 1 ELSE 0)
    BY <1>5
  <2> QED
    BY <1>2, <1>6, <1>7, <2>1 DEF Written
<1>13. /\ Num(z.out, D(s)) <= Num(y.out, D(s)) /\ Num(z.out, C(s)) <= Num(y.out, C(s))
       /\ h # D(s) => Num(z.wire, D(s)) = Num(y.wire, D(s))
  BY <1>5, <1>6
<1>14. Live(z) = Live(y) /\ PastStart(z) = PastStart(y)
  BY <1>2 DEF Live, PastStart
<1>15. ClientOK(z) /\ StartOK(s, z)
  BY <1>1, <1>2, <1>11, <1>14 DEF ClientOK, StartOK
<1>16. AskOK(s, z)
  <2>1. Untouched(s, y) => Untouched(s, z)
    BY <1>2, <1>6, <1>8, <1>11, <1>12, <1>13 DEF Untouched
  <2> QED
    BY <1>1, <1>2, <1>7, <2>1 DEF AskOK
<1>17. OrderOK(s, z)
  <2>1. Written(s, z) => Num(z.out, D(s)) = 0
    BY <1>1, <1>6, <1>8, <1>12, <1>13 DEF OrderOK
  <2>2. Num(y.cl.in, C(s)) > 0 \/ Num(y.pass, C(s)) > 0 => h # D(s)
    BY <1>6, <1>7, <1>8 DEF Written
  <2>3. Num(z.cl.in, C(s)) > 0 => Num(z.pass, D(s)) = 0 /\ Num(z.wire, D(s)) = 0
    BY <1>1, <1>2, <1>13, <2>2 DEF OrderOK
  <2>4. Num(z.pass, C(s)) > 0 => Num(z.wire, D(s)) = 0
    BY <1>1, <1>2, <1>13, <2>2 DEF OrderOK
  <2> QED
    BY <1>1, <1>2, <1>9, <2>1, <2>3, <2>4 DEF OrderOK
<1>18. ServerOK(s, z)
  <2>1. Num(z.out, C(s)) > 0 => Num(y.out, C(s)) > 0
    BY <1>6, <1>13
  <2> QED
    BY <1>1, <1>2, <1>8, <1>12, <2>1 DEF ServerOK
<1>19. CountOK(s, z)
  <2>1. ASSUME Live(z), Written(s, z)
        PROVE  Near(s, z) = NumData
    <3>1. CASE Written(s, y)
      <4>1. Near(s, y) = NumData /\ h # D(s)
        BY <1>1, <1>8, <1>14, <2>1, <3>1 DEF CountOK
      <4> QED
        BY <1>7, <1>10, <4>1
    <3>2. CASE h = C(s)
      <4>1. Total(s, y) = y.sv.n /\ y.sv.n = NumData
        BY <1>1, <1>2, <1>8, <1>14, <2>1, <3>2 DEF CountOK, ServerOK
      <4>2. Total(s, y) = Near(s, y) /\ Near(s, z) = Near(s, y)
        BY <1>7, <1>8, <1>10, <3>2 DEF Total
      <4> QED
        BY <4>1, <4>2
    <3> QED
      BY <1>12, <2>1, <3>1, <3>2
  <2> QED
    BY <1>1, <1>2, <1>11, <1>14, <2>1 DEF CountOK
<1> QED
  BY <1>15, <1>16, <1>17, <1>18, <1>19 DEF Good

\* A message of the server's gets one queue further at the client.
Advances(s, y, z) ==
    /\ SameSides(y, z) /\ FewerAsked(y, z) /\ z.sv = y.sv /\ z.out = y.out
    /\ z.cl.pc = y.cl.pc /\ z.cl.n = y.cl.n /\ z.cl.closed = y.cl.closed
    /\ z.cl.complete = y.cl.complete /\ z.cl.reg = y.cl.reg
    /\ Near(s, z) = Near(s, y) /\ Written(s, z) = Written(s, y)
    /\ Sorted(z.cl.in, s) /\ Sorted(z.wire, s)
    /\ Num(z.cl.in, C(s)) > 0 => Num(z.pass, D(s)) = 0 /\ Num(z.wire, D(s)) = 0
    /\ Num(z.pass, C(s)) > 0 => Num(z.wire, D(s)) = 0

LEMMA AdvancesKeeps ==
    ASSUME NEW s \in Streams, NEW y \in Views(s), NEW z \in Views(s), Good(s, y),
           Advances(s, y, z)
    PROVE  Good(s, z)
<1>1. /\ ClientOK(y) /\ AskOK(s, y) /\ StartOK(s, y) /\ OrderOK(s, y)
      /\ ServerOK(s, y) /\ CountOK(s, y)
  BY DEF Good
<1>2. /\ z.clUp = y.clUp /\ z.svUp = y.svUp /\ (z.up => y.up) /\ z.sv = y.sv
      /\ z.out = y.out /\ z.asked <= y.asked /\ (z.started > 0 => y.started > 0)
      /\ z.cl.pc = y.cl.pc /\ z.cl.n = y.cl.n /\ z.cl.closed = y.cl.closed
      /\ z.cl.complete = y.cl.complete /\ z.cl.reg = y.cl.reg
      /\ Near(s, z) = Near(s, y) /\ Written(s, z) = Written(s, y)
  BY DEF Advances, SameSides, FewerAsked
<1>3. Total(s, z) = Total(s, y)
  BY <1>2 DEF Total
<1>4. /\ Live(z) = Live(y) /\ PastStart(z) = PastStart(y)
      /\ Untouched(s, z) = Untouched(s, y)
  BY <1>2, <1>3 DEF Live, PastStart, Untouched
<1>5. ClientOK(z)
  BY <1>1, <1>2 DEF ClientOK
<1>6. AskOK(s, z)
  <2>1. y.asked \in Nat /\ z.asked \in Nat
    BY Numbers
  <2> QED
    BY <1>1, <1>2, <1>4, <2>1 DEF AskOK
<1>7. StartOK(s, z)
  BY <1>1, <1>2, <1>3, <1>4 DEF StartOK
<1>8. OrderOK(s, z)
  <2>1. /\ Sorted(z.cl.in, s) /\ Sorted(z.wire, s)
        /\ Num(z.cl.in, C(s)) > 0 => Num(z.pass, D(s)) = 0 /\ Num(z.wire, D(s)) = 0
        /\ Num(z.pass, C(s)) > 0 => Num(z.wire, D(s)) = 0
    BY DEF Advances
  <2> QED
    BY <1>1, <1>2, <2>1 DEF OrderOK
<1>9. ServerOK(s, z)
  BY <1>1, <1>2 DEF ServerOK
<1>10. CountOK(s, z)
  BY <1>1, <1>2, <1>3, <1>4 DEF CountOK
<1> QED
  BY <1>5, <1>6, <1>7, <1>8, <1>9, <1>10 DEF Good

\* The loop has read a message that it will pass on ...
ReadIn(s, y, z) ==
    /\ SameSides(y, z) /\ FewerAsked(y, z) /\ z.sv = y.sv /\ z.out = y.out /\ z.cl = y.cl
    /\ y.pass = <<>> /\ y.wire # <<>>
    /\ z.pass = <<Head(y.wire)>> /\ z.wire = Tail(y.wire)

LEMMA ReadInKeeps ==
    ASSUME NEW s \in Streams, NEW y \in Views(s), NEW z \in Views(s), Good(s, y), ReadIn(s, y, z)
    PROVE  Good(s, z)
<1>1. OrderOK(s, y)
  BY DEF Good
<1>2. PICK h : h = Head(y.wire)
  OBVIOUS
<1>3. /\ y.wire # <<>> /\ z.wire = Tail(y.wire) /\ Head(y.wire) = h /\ y.wire \in Seq(Msgs)
      /\ y.pass = <<>> /\ z.pass = <<h>> /\ z.cl = y.cl
  BY <1>2 DEF ReadIn, Views
<1>4. \A m : /\ Num(y.wire, m) = Num(z.wire, m) + (IF h = m THEN 1 ELSE 0)
             /\ Num(z.pass, m) = (IF h = m THEN 1 ELSE 0) /\ Num(y.pass, m) = 0
  BY <1>3, NumTail, NumOne, NumType
<1>5. /\ Num(z.wire, D(s)) \in Nat /\ Num(z.wire, C(s)) \in Nat
      /\ Num(y.cl.in, C(s)) \in Nat /\ Num(y.cl.in, D(s)) \in Nat /\ y.cl.n \in Nat
  <2>1. Num(z.wire, D(s)) \in Nat /\ Num(z.wire, C(s)) \in Nat
    BY Numbers
  <2>2. Num(y.cl.in, C(s)) \in Nat /\ Num(y.cl.in, D(s)) \in Nat /\ y.cl.n \in Nat
    BY Numbers
  <2> QED
    BY <2>1, <2>2
<1>6. /\ Num(y.wire, D(s)) = Num(z.wire, D(s)) + Num(z.pass, D(s)) /\ Num(y.pass, D(s)) = 0
      /\ Num(y.wire, C(s)) = Num(z.wire, C(s)) + Num(z.pass, C(s)) /\ Num(y.pass, C(s)) = 0
      /\ Num(z.pass, D(s)) \in {0, 1} /\ Num(z.pass, C(s)) \in {0, 1}
      /\ Num(z.pass, C(s)) > 0 => h = C(s)
  BY <1>4, <1>5
<1>7. Near(s, z) = Near(s, y)
  <2>1. z.cl.n = y.cl.n /\ Num(z.cl.in, D(s)) = Num(y.cl.in, D(s))
    BY <1>3
  <2>2. /\ Num(y.wire, D(s)) = Num(z.wire, D(s)) + Num(z.pass, D(s)) /\ Num(y.pass, D(s)) = 0
        /\ Num(z.pass, D(s)) \in Nat
    BY <1>6
  <2> QED
    BY <1>5, <2>1, <2>2 DEF Near
<1>8. Written(s, z) = Written(s, y)
  BY <1>3, <1>5, <1>6 DEF Written
<1>9. /\ Sorted(z.cl.in, s) /\ Sorted(z.wire, s)
      /\ Num(z.pass, C(s)) > 0 => Num(z.wire, D(s)) = 0
  <2>1. Sorted(y.cl.in, s) /\ Sorted(y.wire, s)
    BY <1>1 DEF OrderOK
  <2>2. Sorted(z.wire, s) /\ (h = C(s) => Num(y.wire, D(s)) = 0)
    BY <1>3, <2>1, SortedTail
  <2> QED
    BY <1>3, <1>5, <1>6, <2>1, <2>2
<1>10. Num(z.cl.in, C(s)) > 0 => Num(z.pass, D(s)) = 0 /\ Num(z.wire, D(s)) = 0
  <2>1. Num(y.cl.in, C(s)) > 0 => Num(y.wire, D(s)) = 0
    BY <1>1 DEF OrderOK
  <2> QED
    BY <1>3, <1>5, <1>6, <2>1
<1>11. Advances(s, y, z)
  BY <1>7, <1>8, <1>9, <1>10 DEF Advances, ReadIn
<1> QED
  BY <1>11, AdvancesKeeps

\* ... and passes it on.
PassedOn(s, y, z) ==
    /\ SameSides(y, z) /\ FewerAsked(y, z) /\ z.sv = y.sv /\ z.out = y.out
    /\ z.wire = y.wire
    /\ z.cl.pc = y.cl.pc /\ z.cl.n = y.cl.n /\ z.cl.closed = y.cl.closed
    /\ z.cl.complete = y.cl.complete /\ z.cl.reg = y.cl.reg
    /\ \E h \in Of(AllTypes, {s}) : y.pass = <<h>> /\ z.cl.in = Append(y.cl.in, h)
    /\ z.pass = <<>>

LEMMA PassedOnKeeps ==
    ASSUME NEW s \in Streams, NEW y \in Views(s), NEW z \in Views(s), Good(s, y), PassedOn(s, y, z)
    PROVE  Good(s, z)
<1>1. OrderOK(s, y)
  BY DEF Good
<1>2. PICK h \in Of(AllTypes, {s}) : y.pass = <<h>> /\ z.cl.in = Append(y.cl.in, h)
  BY DEF PassedOn
<1>3. z.wire = y.wire /\ z.pass = <<>> /\ z.cl.n = y.cl.n /\ y.cl.in \in Seq(Of(AllTypes, {s}))
  BY DEF PassedOn, Views, StreamRec
<1>4. \A m : /\ Num(z.cl.in, m) = Num(y.cl.in, m) + (IF h = m THEN 1 ELSE 0)
             /\ Num(y.pass, m) = (IF h = m THEN 1 ELSE 0) /\ Num(z.pass, m) = 0
  BY <1>2, <1>3, NumAppend, NumOne, NumType
<1>5. /\ Num(y.wire, D(s)) \in Nat /\ Num(y.wire, C(s)) \in Nat
      /\ Num(y.cl.in, C(s)) \in Nat /\ Num(y.cl.in, D(s)) \in Nat /\ y.cl.n \in Nat
  BY Numbers
<1>6. /\ Num(z.cl.in, D(s)) = Num(y.cl.in, D(s)) + Num(y.pass, D(s)) /\ Num(z.pass, D(s)) = 0
      /\ Num(z.cl.in, C(s)) = Num(y.cl.in, C(s)) + Num(y.pass, C(s)) /\ Num(z.pass, C(s)) = 0
      /\ Num(y.pass, D(s)) \in {0, 1} /\ Num(y.pass, C(s)) \in {0, 1}
      /\ h = D(s) => Num(y.pass, D(s)) = 1
  BY <1>4, <1>5
<1>7. Near(s, z) = Near(s, y)
  BY <1>3, <1>5, <1>6 DEF Near
<1>8. Written(s, z) = Written(s, y)
  BY <1>3, <1>5, <1>6 DEF Written
<1>9. /\ Num(y.cl.in, C(s)) > 0 => Num(y.pass, D(s)) = 0 /\ Num(y.wire, D(s)) = 0
      /\ Num(y.pass, C(s)) > 0 => Num(y.wire, D(s)) = 0
      /\ Sorted(y.cl.in, s) /\ Sorted(y.wire, s)
  BY <1>1 DEF OrderOK
<1>10. h = D(s) => Num(y.cl.in, C(s)) = 0
  BY <1>5, <1>6, <1>9
<1>11. Sorted(z.cl.in, s)
  BY <1>2, <1>3, <1>9, <1>10, SortedAppend
<1>12. /\ Num(z.cl.in, C(s)) > 0 => Num(z.pass, D(s)) = 0 /\ Num(z.wire, D(s)) = 0
       /\ Num(z.pass, C(s)) > 0 => Num(z.wire, D(s)) = 0
  BY <1>3, <1>5, <1>6, <1>9
<1>13. Advances(s, y, z)
  BY <1>3, <1>7, <1>8, <1>9, <1>11, <1>12 DEF Advances, PassedOn
<1> QED
  BY <1>13, AdvancesKeeps

\* The loop reads Data, but the stream is not in the map.
ReadDropped(s, y, z) ==
    /\ SameSides(y, z) /\ FewerAsked(y, z) /\ z.sv = y.sv /\ z.out = y.out /\ z.cl = y.cl
    /\ y.clUp /\ ~ y.cl.reg /\ z.pass = y.pass
    /\ y.wire # <<>> /\ z.wire = Tail(y.wire)

LEMMA ReadDroppedKeeps ==
    ASSUME NEW s \in Streams, NEW y \in Views(s), NEW z \in Views(s), Good(s, y),
           ReadDropped(s, y, z)
    PROVE  Good(s, z)
<1>1. /\ ClientOK(y) /\ AskOK(s, y) /\ StartOK(s, y) /\ OrderOK(s, y)
      /\ ServerOK(s, y) /\ CountOK(s, y)
  BY DEF Good
<1>2. /\ z.clUp = y.clUp /\ z.svUp = y.svUp /\ (z.up => y.up) /\ z.cl = y.cl /\ z.sv = y.sv
      /\ z.pass = y.pass /\ z.out = y.out /\ z.asked <= y.asked
      /\ (z.started > 0 => y.started > 0) /\ y.clUp /\ ~ y.cl.reg
  BY DEF ReadDropped, SameSides, FewerAsked
<1>3. PICK h : h = Head(y.wire)
  OBVIOUS
<1>4. y.wire # <<>> /\ z.wire = Tail(y.wire) /\ Head(y.wire) = h /\ y.wire \in Seq(Msgs)
  BY <1>3 DEF ReadDropped, Views
<1>5. \A m : Num(y.wire, m) = Num(z.wire, m) + (IF h = m THEN 1 ELSE 0)
  BY <1>4, NumTail
<1>6. Num(z.wire, D(s)) \in Nat /\ Num(z.wire, C(s)) \in Nat
  BY Numbers
<1>7. /\ Num(y.cl.in, C(s)) \in Nat /\ Num(y.pass, C(s)) \in Nat /\ y.cl.n \in Nat
      /\ Num(y.cl.in, D(s)) \in Nat /\ Num(y.pass, D(s)) \in Nat /\ Num(y.out, D(s)) \in Nat
      /\ Near(s, y) \in Nat /\ Total(s, y) \in Nat /\ y.asked \in Nat /\ y.sv.n \in Nat
      /\ NumData \in Nat /\ y.cl.n <= Near(s, y) /\ Near(s, y) <= Total(s, y)
  BY Numbers
<1>8. z.asked \in Nat /\ Total(s, z) \in Nat
  BY Numbers
<1>9. /\ Num(z.wire, D(s)) <= Num(y.wire, D(s)) /\ Num(z.wire, C(s)) <= Num(y.wire, C(s))
      /\ h \notin {D(s), C(s)} => /\ Num(z.wire, D(s)) = Num(y.wire, D(s))
                                  /\ Num(z.wire, C(s)) = Num(y.wire, C(s))
      /\ h = D(s) => Num(y.wire, D(s)) > 0
      /\ h = C(s) => Num(y.wire, C(s)) > 0
  BY <1>5, <1>6
<1>10. Sorted(z.wire, s)
  <2>1. Sorted(y.wire, s)
    BY <1>1 DEF OrderOK
  <2> QED
    BY <1>4, <2>1, SortedTail
<1>11. Near(s, z) <= Near(s, y) /\ Total(s, z) <= Total(s, y)
  BY <1>2, <1>7, <1>9, Fewer
<1>12. Written(s, z) => Written(s, y)
  BY <1>2, <1>7, <1>9, Unwritten
<1>13. Live(z) = Live(y) /\ PastStart(z) = PastStart(y)
  BY <1>2 DEF Live, PastStart
<1>14. ASSUME Live(y), h = D(s)
       PROVE  FALSE
  <2>1. ~ y.cl.closed /\ y.cl.pc # "recv" /\ ~ PastStart(y)
    BY <1>1, <1>2, <1>14 DEF ClientOK, Live, PastStart
  <2>2. ~ (Total(s, y) > y.cl.n)
    BY <1>1, <2>1 DEF StartOK
  <2>3. y.cl.n = Near(s, y)
    BY <1>7, <2>2
  <2>4. Num(y.wire, D(s)) \in Nat
    BY Numbers
  <2>5. Num(y.wire, D(s)) = 0
    BY <1>7, <2>3, <2>4 DEF Near
  <2> QED
    BY <1>9, <1>14, <2>4, <2>5
<1>15. Live(y) => Near(s, z) = Near(s, y) /\ Total(s, z) = Total(s, y)
  <2>1. ASSUME Live(y)
        PROVE  Num(z.wire, D(s)) = Num(y.wire, D(s))
    <3>1. h # D(s)
      BY <1>14, <2>1
    <3> QED
      BY <1>5, <1>6, <3>1
  <2> QED
    BY <1>2, <2>1 DEF Near, Total
<1>16. ClientOK(z)
  BY <1>1, <1>2 DEF ClientOK
<1>17. AskOK(s, z)
  <2>1. Untouched(s, y) => Untouched(s, z)
    <3>1. Total(s, y) = 0 => Total(s, z) = 0
      BY <1>7, <1>8, <1>11
    <3> QED
      BY <1>2, <1>12, <3>1 DEF Untouched
  <2> QED
    BY <1>1, <1>2, <1>7, <1>8, <2>1 DEF AskOK
<1>18. StartOK(s, z)
  <2>1. Total(s, z) > z.cl.n => Total(s, y) > y.cl.n
    BY <1>2, <1>7, <1>8, <1>11
  <2> QED
    BY <1>1, <1>2, <1>13, <2>1 DEF StartOK
<1>19. OrderOK(s, z)
  <2>1. Num(y.wire, D(s)) = 0 => Num(z.wire, D(s)) = 0
    <3>1. Num(y.wire, D(s)) \in Nat
      BY Numbers
    <3> QED
      BY <1>6, <1>9, <3>1
  <2> QED
    BY <1>1, <1>2, <1>10, <1>12, <2>1 DEF OrderOK
<1>20. ServerOK(s, z)
  BY <1>1, <1>2, <1>12 DEF ServerOK
<1>21. CountOK(s, z)
  <2>1. Total(s, z) <= NumData
    BY <1>1, <1>7, <1>8, <1>11 DEF CountOK
  <2>2. z.svUp => Total(s, z) <= z.sv.n
    <3>1. z.svUp => Total(s, y) <= y.sv.n /\ z.sv.n = y.sv.n
      BY <1>1, <1>2 DEF CountOK
    <3> QED
      BY <1>7, <1>8, <1>11, <3>1
  <2> QED
    BY <1>1, <1>2, <1>12, <1>13, <1>15, <2>1, <2>2 DEF CountOK
<1> QED
  BY <1>16, <1>17, <1>18, <1>19, <1>20, <1>21 DEF Good

\* The server makes the stream: its request has been read.
MakesNew(s, y, z) ==
    /\ y.svUp /\ SameSides(y, z) /\ SameQueues(y, z) /\ z.cl = y.cl /\ z.sv = Made(s)
    /\ y.asked > 0 /\ z.asked = y.asked - 1 /\ (z.started > 0 => y.started > 0)

LEMMA MakesNewKeeps ==
    ASSUME NEW s \in Streams, NEW y \in Views(s), NEW z \in Views(s), Good(s, y), MakesNew(s, y, z)
    PROVE  Good(s, z)
<1>1. /\ ClientOK(y) /\ AskOK(s, y) /\ StartOK(s, y) /\ OrderOK(s, y)
      /\ ServerOK(s, y) /\ CountOK(s, y)
  BY DEF Good
<1>2. /\ z.clUp = y.clUp /\ z.svUp = y.svUp /\ (z.up => y.up) /\ z.cl = y.cl
      /\ z.out = y.out /\ z.wire = y.wire /\ z.pass = y.pass
      /\ y.svUp /\ y.asked > 0 /\ z.asked = y.asked - 1 /\ (z.started > 0 => y.started > 0)
  BY DEF MakesNew, SameSides, SameQueues
<1>3. z.sv.pc = "made" /\ z.sv.n = 0 /\ z.sv.after = "done"
  BY DEF MakesNew, Made, NoStream
<1>4. y.asked \in Nat /\ NumData \in Nat
  BY Numbers
<1>5. y.asked = 1 /\ z.asked = 0 /\ Untouched(s, y)
  BY <1>1, <1>2, <1>4 DEF AskOK
<1>6. /\ Near(s, z) = Near(s, y) /\ Total(s, z) = Total(s, y)
      /\ Written(s, z) = Written(s, y) /\ Live(z) = Live(y) /\ PastStart(z) = PastStart(y)
  BY <1>2 DEF Near, Total, Written, Live, PastStart
<1>7. Total(s, z) = 0 /\ ~ Written(s, z) /\ Num(z.out, C(s)) = 0
  BY <1>2, <1>5, <1>6 DEF Untouched
<1>8. ~ (z.clUp /\ z.cl.pc = "idle")
  BY <1>1, <1>2, <1>5 DEF AskOK
<1>9. ClientOK(z) /\ AskOK(s, z)
  BY <1>1, <1>2, <1>5, <1>8 DEF ClientOK, AskOK
<1>10. StartOK(s, z)
  BY <1>1, <1>2, <1>3, <1>6 DEF StartOK
<1>11. OrderOK(s, z)
  BY <1>1, <1>2, <1>6 DEF OrderOK
<1>12. ServerOK(s, z)
  BY <1>3, <1>7 DEF ServerOK
<1>13. CountOK(s, z)
  BY <1>3, <1>4, <1>7 DEF CountOK
<1> QED
  BY <1>9, <1>10, <1>11, <1>12, <1>13 DEF Good

\* Whatever happens is one of these.
ViewStep(s, y, z) ==
    \/ Rests(s, y, z) \/ Loses(s, y, z) \/ ClientGone(y, z) \/ ClientMoves(s, y, z)
    \/ ClientEnds(s, y, z) \/ TakesData(s, y, z) \/ ServerMoves(s, y, z)
    \/ SendsData(s, y, z) \/ SendsEnd(s, y, z) \/ Sent(s, y, z) \/ ReadIn(s, y, z)
    \/ PassedOn(s, y, z) \/ ReadDropped(s, y, z) \/ MakesNew(s, y, z)

LEMMA ViewStepKeeps ==
    ASSUME NEW s \in Streams, NEW y \in Views(s), NEW z \in Views(s), Good(s, y),
           ViewStep(s, y, z)
    PROVE  Good(s, z)
<1>1. CASE Rests(s, y, z)
  BY <1>1, RestsKeeps
<1>2. CASE Loses(s, y, z)
  BY <1>2, LosesKeeps
<1>3. CASE ClientGone(y, z)
  BY <1>3, ClientGoneKeeps
<1>4. CASE ClientMoves(s, y, z)
  BY <1>4, ClientMovesKeeps
<1>5. CASE ClientEnds(s, y, z)
  BY <1>5, ClientEndsKeeps
<1>6. CASE TakesData(s, y, z)
  BY <1>6, TakesDataKeeps
<1>7. CASE ServerMoves(s, y, z)
  BY <1>7, ServerMovesKeeps
<1>8. CASE SendsData(s, y, z)
  BY <1>8, SendsDataKeeps
<1>9. CASE SendsEnd(s, y, z)
  BY <1>9, SendsEndKeeps
<1>10. CASE Sent(s, y, z)
  BY <1>10, SentKeeps
<1>11. CASE ReadIn(s, y, z)
  BY <1>11, ReadInKeeps
<1>12. CASE PassedOn(s, y, z)
  BY <1>12, PassedOnKeeps
<1>13. CASE ReadDropped(s, y, z)
  BY <1>13, ReadDroppedKeeps
<1>14. CASE MakesNew(s, y, z)
  BY <1>14, MakesNewKeeps
<1> QED
  BY <1>1, <1>2, <1>3, <1>4, <1>5, <1>6, <1>7, <1>8, <1>9, <1>10, <1>11, <1>12, <1>13, <1>14
     DEF ViewStep

-----------------------------------------------------------------------------
(* The steps, as changes of the views. *)

LEMMA SideFacts ==
    /\ "client" \in Sides /\ "server" \in Sides /\ "client" # "server"
    /\ Other("client") = "server" /\ Other("server") = "client"
    /\ \A x \in Sides : x = "client" \/ x = "server"
  BY DEF Sides, Other

\* What the types of the variables say of the queues of messages.
LEMMA QueueTypes ==
    ASSUME StrmOK, LoopOK, OutOK, WireOK, NEW x \in Sides, NEW s \in Streams
    PROVE  /\ out[x].ctrl \in Seq(Of(CtrlTypes(x), Streams))
           /\ out[x].data \in Seq(Of(DataTypes, Streams))
           /\ wire[x] \in Seq(Of(CtrlTypes(x) \cup DataTypes, Streams))
           /\ wire[x] \in Seq(Msgs) /\ out[x].ctrl \in Seq(Msgs) /\ out[x].data \in Seq(Msgs)
           /\ strm[x][s] \in Strm(s) /\ strm[x][s] \in StreamRec(s)
           /\ strm[x][s].in \in Seq(Of(AllTypes, {s}))
           /\ Passing(x) \in Seq(Msgs)
<1>1. /\ out[x].ctrl \in Seq(Of(CtrlTypes(x), Streams))
      /\ out[x].data \in Seq(Of(DataTypes, Streams))
      /\ wire[x] \in Seq(Of(CtrlTypes(x) \cup DataTypes, Streams))
  BY DEF OutOK, WireOK, OutRec
<1>2. /\ Of(CtrlTypes(x), Streams) \subseteq Msgs /\ Of(DataTypes, Streams) \subseteq Msgs
      /\ Of(CtrlTypes(x) \cup DataTypes, Streams) \subseteq Msgs
  BY DEF Of, Msgs, CtrlTypes, AllTypes, DataTypes
<1>3. wire[x] \in Seq(Msgs) /\ out[x].ctrl \in Seq(Msgs) /\ out[x].data \in Seq(Msgs)
  BY <1>1, <1>2, SeqMonotonic
<1>4. strm[x][s] \in Strm(s)
  BY DEF StrmOK
<1>5. strm[x][s] \in StreamRec(s)
  BY <1>4 DEF Strm
<1>6. strm[x][s].in \in Seq(Of(AllTypes, {s}))
  BY <1>5 DEF StreamRec
<1>7. loop[x] \in LoopRec
  BY DEF LoopOK
<1>8. loop[x].pc = "pass" => loop[x].msg \in Msgs
  BY <1>7 DEF LoopRec, Msgs
<1>9. Passing(x) \in Seq(Msgs)
  BY <1>8 DEF Passing
<1> QED
  BY <1>1, <1>3, <1>4, <1>5, <1>6, <1>9

LEMMA ViewType == Types => \A s \in Streams : View(s) \in Views(s)
<1> SUFFICES ASSUME Types, NEW s \in Streams
             PROVE  View(s) \in Views(s)
  OBVIOUS
<1>1. StrmOK /\ LoopOK /\ OutOK /\ WireOK
  BY DEF Types
<1>2. "client" \in Sides /\ "server" \in Sides
  BY SideFacts
<1>3. /\ strm["client"][s] \in StreamRec(s) /\ strm["server"][s] \in StreamRec(s)
      /\ out["server"].data \in Seq(Msgs) /\ wire["server"] \in Seq(Msgs)
      /\ Passing("client") \in Seq(Msgs)
  BY <1>1, <1>2, QueueTypes
<1>4. /\ out["client"].ctrl \in Seq(Msgs) /\ wire["client"] \in Seq(Msgs)
      /\ Passing("server") \in Seq(Msgs) /\ strm["server"][s].in \in Seq(Of(AllTypes, {s}))
  BY <1>1, <1>2, QueueTypes
<1>5. Asked(s) \in Nat
  <2>1. /\ Num(out["client"].ctrl, Msg("FileReq", s)) \in Nat
        /\ Num(wire["client"], Msg("FileReq", s)) \in Nat
    BY <1>4, NumType
  <2> QED
    BY <2>1 DEF Asked
<1>6. Started(s) \in Nat
  <2>1. /\ Num(out["client"].ctrl, Msg("Start", s)) \in Nat
        /\ Num(wire["client"], Msg("Start", s)) \in Nat
        /\ Num(Passing("server"), Msg("Start", s)) \in Nat
        /\ Num(strm["server"][s].in, Msg("Start", s)) \in Nat
    BY <1>4, NumType
  <2> QED
    BY <2>1 DEF Started
<1>7. Alive("client") \in BOOLEAN /\ Alive("server") \in BOOLEAN
  <2>1. conn["client"] \in ConnRec /\ conn["server"] \in ConnRec
    BY <1>2 DEF Types, ConnOK
  <2> QED
    BY <2>1 DEF Alive, ConnRec
<1>8. (\A x \in Sides : conn[x].btp = "up") \in BOOLEAN
  OBVIOUS
<1> QED
  BY <1>3, <1>5, <1>6, <1>7, <1>8 DEF View, Views

LEMMA ViewTypeNext == Types' => \A s \in Streams : View(s)' \in Views(s)
<1>1. Types => \A s \in Streams : View(s) \in Views(s)
  BY ViewType
<1>2. (Types => \A s \in Streams : View(s) \in Views(s))'
  BY <1>1, PTL
<1> QED
  BY <1>2

\* A message that is no stream's Data and does not complete it may come and go.
LEMMA SteadyAppend ==
    ASSUME NEW T, NEW q \in Seq(T), NEW e \in T, NEW s, e # D(s), e # C(s)
    PROVE  Steady(s, q, Append(q, e))
<1>1. /\ Num(Append(q, e), D(s)) = Num(q, D(s)) + 0 /\ Num(Append(q, e), C(s)) = Num(q, C(s)) + 0
      /\ Num(q, D(s)) \in Nat /\ Num(q, C(s)) \in Nat
  BY NumAppend, NumType
<1>2. Sorted(q, s) => Sorted(Append(q, e), s)
  BY SortedAppend
<1> QED
  BY <1>1, <1>2 DEF Steady

LEMMA SteadyTail ==
    ASSUME NEW T, NEW q \in Seq(T), q # <<>>, NEW s
    PROVE  /\ Head(q) # D(s) /\ Head(q) # C(s) => Steady(s, q, Tail(q))
           /\ Fades(s, q, Tail(q)) /\ Fades(s, q, <<>>)
<1>1. /\ Num(q, D(s)) = Num(Tail(q), D(s)) + (IF Head(q) = D(s) THEN 1 ELSE 0)
      /\ Num(q, C(s)) = Num(Tail(q), C(s)) + (IF Head(q) = C(s) THEN 1 ELSE 0)
      /\ Num(Tail(q), D(s)) \in Nat /\ Num(Tail(q), C(s)) \in Nat
  BY NumTail
<1>2. /\ Num(<<>>, D(s)) = 0 /\ Num(<<>>, C(s)) = 0
      /\ Num(q, D(s)) \in Nat /\ Num(q, C(s)) \in Nat
  BY NumType
<1>3. Sorted(q, s) => Sorted(Tail(q), s)
  BY SortedTail
<1>4. Sorted(<<>>, s)
  BY DEF Sorted
<1>5. Head(q) # D(s) /\ Head(q) # C(s) => Steady(s, q, Tail(q))
  BY <1>1, <1>3 DEF Steady
<1>6. Fades(s, q, Tail(q))
  BY <1>1, <1>3 DEF Fades
<1>7. Fades(s, q, <<>>)
  BY <1>2, <1>4 DEF Fades
<1> QED
  BY <1>5, <1>6, <1>7

LEMMA NothingLeft ==
    ASSUME NEW T, NEW q \in Seq(T), NEW s
    PROVE  Fades(s, q, <<>>) /\ Fades(s, q, q) /\ Steady(s, q, q)
<1>1. /\ Num(<<>>, D(s)) = 0 /\ Num(<<>>, C(s)) = 0
      /\ Num(q, D(s)) \in Nat /\ Num(q, C(s)) \in Nat
  BY NumType
<1>2. Sorted(<<>>, s)
  BY DEF Sorted
<1> QED
  BY <1>1, <1>2 DEF Fades, Steady

\* Type correctness of what a step leaves alone.
LEMMA TypesKept ==
    /\ StrmOK /\ strm' = strm => StrmOK'
    /\ LoopOK /\ loop' = loop => LoopOK'
    /\ OutOK /\ out' = out => OutOK'
    /\ WireOK /\ wire' = wire => WireOK'
    /\ CloseOK /\ close' = close => CloseOK'
    /\ ConnOK /\ conn' = conn => ConnOK'
<1>1. StrmOK /\ strm' = strm => StrmOK'
  BY DEF StrmOK
<1>2. LoopOK /\ loop' = loop => LoopOK'
  BY DEF LoopOK
<1>3. OutOK /\ out' = out => OutOK'
  BY DEF OutOK
<1>4. WireOK /\ wire' = wire => WireOK'
  BY DEF WireOK
<1>5. CloseOK /\ close' = close => CloseOK'
  BY DEF CloseOK
<1>6. ConnOK /\ conn' = conn => ConnOK'
  BY DEF ConnOK
<1> QED
  BY <1>1, <1>2, <1>3, <1>4, <1>5, <1>6

\* One stream's record changes.
LEMMA StrmSet ==
    ASSUME StrmOK, NEW x \in Sides, NEW t \in Streams, NEW r \in Strm(t),
           strm' = [strm EXCEPT ![x][t] = r]
    PROVE  /\ StrmOK' /\ strm'[x][t] = r
           /\ \A y \in Sides, u \in Streams : y # x \/ u # t => strm'[y][u] = strm[y][u]
<1>1. DOMAIN strm = Sides /\ \A y \in Sides : DOMAIN strm[y] = Streams
  BY DEF StrmOK
<1>2. strm'[x][t] = r
  BY <1>1
<1>3. \A y \in Sides, u \in Streams : y # x \/ u # t => strm'[y][u] = strm[y][u]
  BY <1>1
<1>4. DOMAIN strm' = Sides /\ \A y \in Sides : DOMAIN strm'[y] = Streams
  BY <1>1
<1>5. ASSUME NEW y \in Sides, NEW u \in Streams
      PROVE  strm'[y][u] \in Strm(u)
  <2>1. strm[y][u] \in Strm(u)
    BY DEF StrmOK
  <2> QED
    BY <1>2, <1>3, <2>1
<1> QED
  BY <1>2, <1>3, <1>4, <1>5 DEF StrmOK

\* A message is queued.
LEMMA OutPut ==
    ASSUME OutOK, NEW x \in Sides, NEW q \in {"ctrl", "data"},
           NEW m \in Of(IF q = "ctrl" THEN CtrlTypes(x) ELSE DataTypes, Streams), Put(x, q, m)
    PROVE  /\ OutOK' /\ out'[x][q] = Append(out[x][q], m)
           /\ \A y \in Sides, p \in {"ctrl", "data"} : y # x \/ p # q => out'[y][p] = out[y][p]
<1>1. DOMAIN out = Sides /\ \A y \in Sides : out[y] \in OutRec(y)
  BY DEF OutOK
<1>2. out' = [out EXCEPT ![x][q] = Append(@, m)] /\ Len(out[x][q]) < OutCap
  BY DEF Put, HasRoom
<1>3. \A y \in Sides : DOMAIN out[y] = {"ctrl", "data"}
  BY <1>1 DEF OutRec
<1>4. out'[x][q] = Append(out[x][q], m)
  BY <1>1, <1>2, <1>3
<1>5. \A y \in Sides, p \in {"ctrl", "data"} : y # x \/ p # q => out'[y][p] = out[y][p]
  BY <1>1, <1>2, <1>3
<1>6. DOMAIN out' = Sides
  BY <1>1, <1>2
<1>7. ASSUME NEW y \in Sides
      PROVE  /\ out'[y] \in OutRec(y)
             /\ Len(out'[y].ctrl) <= OutCap /\ Len(out'[y].data) <= OutCap
  <2>1. out[y] \in OutRec(y) /\ Len(out[y].ctrl) <= OutCap /\ Len(out[y].data) <= OutCap
    BY DEF OutOK
  <2>2. CASE y # x
    BY <1>1, <1>2, <2>1, <2>2
  <2>3. CASE y = x /\ q = "ctrl"
    <3>1. out'[x] = [out[x] EXCEPT !.ctrl = Append(out[x].ctrl, m)]
      BY <1>1, <1>2, <2>3
    <3>2. Append(out[x].ctrl, m) \in Seq(Of(CtrlTypes(x), Streams))
      BY <2>1, <2>3 DEF OutRec
    <3>3. Len(Append(out[x].ctrl, m)) <= OutCap
      BY <1>2, <2>1, <2>3, CapsAssumption DEF OutRec
    <3> QED
      BY <2>1, <2>3, <3>1, <3>2, <3>3 DEF OutRec
  <2>4. CASE y = x /\ q = "data"
    <3>1. out'[x] = [out[x] EXCEPT !.data = Append(out[x].data, m)]
      BY <1>1, <1>2, <2>4
    <3>2. Append(out[x].data, m) \in Seq(Of(DataTypes, Streams))
      BY <2>1, <2>4 DEF OutRec
    <3>3. Len(Append(out[x].data, m)) <= OutCap
      BY <1>2, <2>1, <2>4, CapsAssumption DEF OutRec
    <3> QED
      BY <2>1, <2>4, <3>1, <3>2, <3>3 DEF OutRec
  <2> QED
    BY <2>2, <2>3, <2>4
<1>8. OutOK'
  BY <1>6, <1>7 DEF OutOK
<1> QED
  BY <1>4, <1>5, <1>8

\* What a stream may queue.
OutTypes(x, q) == IF q = "ctrl" THEN CtrlTypes(x) ELSE DataTypes

Queues(x, t) == \/ out' = out
                \/ \E q \in {"ctrl", "data"} : \E m \in Of(OutTypes(x, q), {t}) : Put(x, q, m)

LEMMA MsgOf ==
    ASSUME NEW A, NEW t, NEW m \in Of(A, {t})
    PROVE  /\ m = Msg(m.type, t) /\ m.type \in A /\ m.s = t
           /\ \A a, u : m = Msg(a, u) <=> m.type = a /\ u = t
           /\ \A S : t \in S => m \in Of(A, S)
  BY DEF Msg, Of

\* A stream's step changes its own record and queues at most one message of its own.
OwnStep(x, t, r) ==
    /\ strm' = [strm EXCEPT ![x][t] = r] /\ Queues(x, t)
    /\ UNCHANGED <<loop, wire, close, conn>> /\ fails' \in 0 .. MaxFails

LEMMA OwnStepTypes ==
    ASSUME Types, NEW x \in Sides, NEW t \in Streams, NEW r \in Strm(t), OwnStep(x, t, r)
    PROVE  Types'
<1>1. StrmOK'
  BY StrmSet DEF Types, OwnStep
<1>2. LoopOK' /\ WireOK' /\ CloseOK' /\ ConnOK' /\ fails' \in 0 .. MaxFails
  BY TypesKept DEF Types, OwnStep
<1>3. OutOK'
  <2>1. CASE out' = out
    BY <2>1, TypesKept DEF Types
  <2>2. CASE \E q \in {"ctrl", "data"} : \E m \in Of(OutTypes(x, q), {t}) : Put(x, q, m)
    <3>1. PICK q \in {"ctrl", "data"} : \E m \in Of(OutTypes(x, q), {t}) : Put(x, q, m)
      BY <2>2
    <3>2. PICK m \in Of(OutTypes(x, q), {t}) : Put(x, q, m)
      BY <3>1
    <3>3. m \in Of(IF q = "ctrl" THEN CtrlTypes(x) ELSE DataTypes, Streams)
      BY MsgOf DEF OutTypes
    <3> QED
      BY <3>2, <3>3, OutPut DEF Types
  <2> QED
    BY <2>1, <2>2 DEF OwnStep, Queues
<1> QED
  BY <1>1, <1>2, <1>3 DEF Types

\* Another stream's messages in the queues are the same as before.
LEMMA OwnStepQueues ==
    ASSUME Types, NEW x \in Sides, NEW t \in Streams, Queues(x, t),
           NEW u \in Streams, u # t
    PROVE  /\ \A a : Num(out'["client"].ctrl, Msg(a, u)) = Num(out["client"].ctrl, Msg(a, u))
           /\ Steady(u, out["server"].data, out'["server"].data)
<1> USE SideFacts
<1>1. OutOK
  BY DEF Types
<1>2. StrmOK /\ LoopOK /\ OutOK /\ WireOK
  BY DEF Types
<1>3. /\ out["client"].ctrl \in Seq(Msgs) /\ out["server"].data \in Seq(Msgs)
  BY <1>2, QueueTypes
<1>4. CASE out' = out
  BY <1>3, <1>4, NothingLeft
<1>5. CASE \E q \in {"ctrl", "data"} : \E m \in Of(OutTypes(x, q), {t}) : Put(x, q, m)
  <2>1. PICK q \in {"ctrl", "data"} : \E m \in Of(OutTypes(x, q), {t}) : Put(x, q, m)
    BY <1>5
  <2>2. PICK m \in Of(OutTypes(x, q), {t}) : Put(x, q, m)
    BY <2>1
  <2>3. m \in Of(IF q = "ctrl" THEN CtrlTypes(x) ELSE DataTypes, Streams)
    BY MsgOf DEF OutTypes
  <2>4. /\ out'[x][q] = Append(out[x][q], m)
        /\ \A y \in Sides, p \in {"ctrl", "data"} : y # x \/ p # q => out'[y][p] = out[y][p]
    BY <1>1, <2>2, <2>3, OutPut
  <2>5. m \in Msgs /\ \A a : m # Msg(a, u)
    <3>1. \A a : m # Msg(a, u)
      BY MsgOf
    <3>2. m.type \in AllTypes /\ m = Msg(m.type, t)
      BY MsgOf DEF OutTypes, CtrlTypes, DataTypes, AllTypes
    <3> QED
      BY <3>1, <3>2 DEF Msgs, Of, Msg
  <2>6. \A a : Num(out'["client"].ctrl, Msg(a, u)) = Num(out["client"].ctrl, Msg(a, u))
    <3>1. CASE x = "client" /\ q = "ctrl"
      <4>1. out'["client"].ctrl = Append(out["client"].ctrl, m)
        BY <2>4, <3>1
      <4>2. \A a : Num(Append(out["client"].ctrl, m), Msg(a, u))
                     = Num(out["client"].ctrl, Msg(a, u)) + 0
        BY <1>3, <2>5, NumAppend
      <4>3. \A a : Num(out["client"].ctrl, Msg(a, u)) \in Nat
        BY <1>3, NumType
      <4> QED
        BY <4>1, <4>2, <4>3
    <3>2. CASE ~ (x = "client" /\ q = "ctrl")
      <4>1. out'["client"].ctrl = out["client"].ctrl
        BY <2>4, <3>2
      <4> QED
        BY <4>1
    <3> QED
      BY <3>1, <3>2
  <2>7. Steady(u, out["server"].data, out'["server"].data)
    <3>1. CASE x = "server" /\ q = "data"
      <4>1. out'["server"].data = Append(out["server"].data, m)
        BY <2>4, <3>1
      <4>2. m # D(u) /\ m # C(u)
        BY <2>5 DEF D, C
      <4> QED
        BY <1>3, <2>5, <4>1, <4>2, SteadyAppend
    <3>2. CASE ~ (x = "server" /\ q = "data")
      <4>1. out'["server"].data = out["server"].data
        BY <2>4, <3>2
      <4> QED
        BY <1>3, <4>1, NothingLeft
    <3> QED
      BY <3>1, <3>2
  <2> QED
    BY <2>6, <2>7
<1> QED
  BY <1>4, <1>5 DEF Queues

\* So the step is none of the other streams'.
LEMMA OwnStepOthers ==
    ASSUME Types, NEW x \in Sides, NEW t \in Streams, NEW r \in Strm(t), OwnStep(x, t, r),
           NEW u \in Streams, u # t
    PROVE  Rests(u, View(u), View(u)')
<1> USE SideFacts
<1>1. StrmOK /\ LoopOK /\ OutOK /\ WireOK
  BY DEF Types
<1>2. UNCHANGED <<loop, wire, close, conn>> /\ Queues(x, t)
  BY DEF OwnStep
<1>3. strm'["client"][u] = strm["client"][u] /\ strm'["server"][u] = strm["server"][u]
  <2>1. \A y \in Sides, v \in Streams : y # x \/ v # t => strm'[y][v] = strm[y][v]
    BY <1>1, StrmSet DEF OwnStep
  <2> QED
    BY <2>1
<1>4. /\ \A a : Num(out'["client"].ctrl, Msg(a, u)) = Num(out["client"].ctrl, Msg(a, u))
      /\ Steady(u, out["server"].data, out'["server"].data)
  BY <1>2, OwnStepQueues
<1>5. Passing("client")' = Passing("client") /\ Passing("server")' = Passing("server")
  BY <1>2 DEF Passing
<1>6. Asked(u)' = Asked(u)
  BY <1>2, <1>4 DEF Asked
<1>7. Started(u)' = Started(u)
  BY <1>2, <1>3, <1>4, <1>5 DEF Started
<1>8. View(u) \in Views(u)
  BY ViewType
<1>9. View(u).asked \in Nat /\ View(u).started \in Nat
  BY <1>8, Numbers
<1>10. /\ View(u)'.cl = View(u).cl /\ View(u)'.sv = View(u).sv
       /\ View(u)'.wire = View(u).wire /\ View(u)'.pass = View(u).pass
       /\ View(u)'.clUp = View(u).clUp /\ View(u)'.svUp = View(u).svUp
       /\ View(u)'.up = View(u).up
  BY <1>2, <1>3, <1>5 DEF View, Alive
<1>11. View(u)'.asked = View(u).asked /\ View(u)'.started = View(u).started
  BY <1>6, <1>7 DEF View
<1>12. Steady(u, View(u).out, View(u)'.out)
  BY <1>4 DEF View
<1>13. Steady(u, View(u).wire, View(u)'.wire) /\ Steady(u, View(u).pass, View(u)'.pass)
  BY <1>8, <1>10, NothingLeft DEF Views
<1> QED
  BY <1>9, <1>10, <1>11, <1>12, <1>13 DEF Rests, SameServer, SameSides, FewerAsked

\* What the step is to the stream itself.
Own(x, y, z, r) == /\ SameSides(y, z) /\ z.wire = y.wire /\ z.pass = y.pass
                   /\ x = "client" => z.cl = r /\ z.sv = y.sv
                   /\ x = "server" => z.sv = r /\ z.cl = y.cl

Quiet(s, y, z) ==
    /\ z.out = y.out /\ z.asked = y.asked
    /\ z.started + Num(y.sv.in, Msg("Start", s)) = y.started + Num(z.sv.in, Msg("Start", s))
    /\ Num(y.sv.in, Msg("Start", s)) <= y.started

Puts(x, s, y, z, q, m) ==
    /\ z.out = (IF x = "server" /\ q = "data" THEN Append(y.out, m) ELSE y.out)
    /\ z.asked = y.asked + (IF x = "client" /\ q = "ctrl" /\ m.type = "FileReq" THEN 1 ELSE 0)
    /\ z.started + Num(y.sv.in, Msg("Start", s))
          = y.started + Num(z.sv.in, Msg("Start", s))
              + (IF x = "client" /\ q = "ctrl" /\ m.type = "Start" THEN 1 ELSE 0)

LEMMA OwnStepView ==
    ASSUME Types, NEW x \in Sides, NEW t \in Streams, NEW r \in Strm(t), OwnStep(x, t, r)
    PROVE  Own(x, View(t), View(t)', r)
<1> USE SideFacts
<1>1. UNCHANGED <<loop, wire, close, conn>>
  BY DEF OwnStep
<1>2. /\ strm'[x][t] = r
      /\ \A y \in Sides, v \in Streams : y # x \/ v # t => strm'[y][v] = strm[y][v]
  <2>1. StrmOK /\ strm' = [strm EXCEPT ![x][t] = r]
    BY DEF Types, OwnStep
  <2>2. strm'[x][t] = r
    BY <2>1, StrmSet
  <2>3. \A y \in Sides, v \in Streams : y # x \/ v # t => strm'[y][v] = strm[y][v]
    BY <2>1, StrmSet
  <2> QED
    BY <2>2, <2>3
<1>3. Passing("client")' = Passing("client")
  BY <1>1 DEF Passing
<1>4. /\ View(t)'.wire = View(t).wire /\ View(t)'.pass = View(t).pass
      /\ View(t)'.clUp = View(t).clUp /\ View(t)'.svUp = View(t).svUp
      /\ View(t)'.up = View(t).up
  BY <1>1, <1>3 DEF View, Alive
<1>5. x = "client" => View(t)'.cl = r /\ View(t)'.sv = View(t).sv
  BY <1>2 DEF View
<1>6. x = "server" => View(t)'.sv = r /\ View(t)'.cl = View(t).cl
  BY <1>2 DEF View
<1> QED
  BY <1>4, <1>5, <1>6 DEF Own, SameSides

\* The sums that count a stream's control messages.
Counts(t) ==
    /\ \A a : /\ Num(out["client"].ctrl, Msg(a, t)) \in Nat
              /\ Num(wire["client"], Msg(a, t)) \in Nat
              /\ Num(Passing("server"), Msg(a, t)) \in Nat
              /\ Num(strm["server"][t].in, Msg(a, t)) \in Nat
    /\ View(t).asked = Asked(t) /\ View(t).started = Started(t)
    /\ View(t).sv = strm["server"][t]

LEMMA ControlCounts == Types => \A t \in Streams : Counts(t)
<1> SUFFICES ASSUME Types, NEW t \in Streams
             PROVE  Counts(t)
  OBVIOUS
<1>1. StrmOK /\ LoopOK /\ OutOK /\ WireOK /\ "client" \in Sides /\ "server" \in Sides
  BY SideFacts DEF Types
<1>2. /\ out["client"].ctrl \in Seq(Msgs) /\ wire["client"] \in Seq(Msgs)
      /\ Passing("server") \in Seq(Msgs) /\ strm["server"][t].in \in Seq(Of(AllTypes, {t}))
  BY <1>1, QueueTypes
<1>3. \A a : /\ Num(out["client"].ctrl, Msg(a, t)) \in Nat
             /\ Num(wire["client"], Msg(a, t)) \in Nat
             /\ Num(Passing("server"), Msg(a, t)) \in Nat
             /\ Num(strm["server"][t].in, Msg(a, t)) \in Nat
  BY <1>2, NumType
<1>4. /\ View(t).asked = Asked(t) /\ View(t).started = Started(t)
      /\ View(t).sv = strm["server"][t]
  BY DEF View
<1> QED
  BY <1>3, <1>4 DEF Counts

LEMMA ControlCountsNext == Types' => \A t \in Streams : Counts(t)'
<1>1. Types => \A t \in Streams : Counts(t)
  BY ControlCounts
<1>2. (Types => \A t \in Streams : Counts(t))'
  BY <1>1, PTL
<1> QED
  BY <1>2

LEMMA OwnStepQuiet ==
    ASSUME Types, NEW x \in Sides, NEW t \in Streams, NEW r \in Strm(t), OwnStep(x, t, r),
           out' = out
    PROVE  Quiet(t, View(t), View(t)')
<1>1. Types'
  BY OwnStepTypes
<1>2. UNCHANGED <<loop, wire, conn, out>>
  BY DEF OwnStep
<1>3. Passing("server")' = Passing("server")
  BY <1>2 DEF Passing
<1>4. PICK St : St = Msg("Start", t)
  OBVIOUS
<1>5. /\ Num(out["client"].ctrl, St) \in Nat /\ Num(wire["client"], St) \in Nat
      /\ Num(Passing("server"), St) \in Nat /\ Num(strm["server"][t].in, St) \in Nat
      /\ View(t).started = Started(t) /\ View(t).asked = Asked(t)
      /\ View(t).sv = strm["server"][t]
  BY <1>4, ControlCounts DEF Counts
<1>6. /\ Num(strm'["server"][t].in, St) \in Nat
      /\ View(t)'.started = Started(t)' /\ View(t)'.asked = Asked(t)'
      /\ View(t)'.sv = strm'["server"][t]
  BY <1>1, <1>4, ControlCountsNext DEF Counts
<1>7. Asked(t)' = Asked(t)
  BY <1>2 DEF Asked
<1>8. Started(t) = Num(out["client"].ctrl, St) + Num(wire["client"], St)
                     + Num(Passing("server"), St) + Num(strm["server"][t].in, St)
  BY <1>4 DEF Started
<1>9. Started(t)' = Num(out["client"].ctrl, St) + Num(wire["client"], St)
                      + Num(Passing("server"), St) + Num(strm'["server"][t].in, St)
  BY <1>2, <1>3, <1>4 DEF Started
<1>10. View(t)'.out = View(t).out
  BY <1>2 DEF View
<1>11. /\ Started(t)' + Num(strm["server"][t].in, St) = Started(t) + Num(strm'["server"][t].in, St)
       /\ Num(strm["server"][t].in, St) <= Started(t)
  BY <1>5, <1>6, <1>8, <1>9
<1> QED
  BY <1>4, <1>5, <1>6, <1>7, <1>10, <1>11 DEF Quiet

LEMMA OwnStepPuts ==
    ASSUME Types, NEW x \in Sides, NEW t \in Streams, NEW r \in Strm(t), OwnStep(x, t, r),
           NEW q \in {"ctrl", "data"}, NEW m \in Of(OutTypes(x, q), {t}), Put(x, q, m)
    PROVE  Puts(x, t, View(t), View(t)', q, m)
<1> USE SideFacts
<1>1. Types'
  BY OwnStepTypes
<1>2. UNCHANGED <<loop, wire, conn>>
  BY DEF OwnStep
<1>3. Passing("server")' = Passing("server")
  BY <1>2 DEF Passing
<1>4. OutOK /\ out["client"].ctrl \in Seq(Msgs)
  <2>1. StrmOK /\ LoopOK /\ OutOK /\ WireOK
    BY DEF Types
  <2> QED
    BY <2>1, QueueTypes
<1>5. m \in Of(IF q = "ctrl" THEN CtrlTypes(x) ELSE DataTypes, Streams) /\ m \in Msgs
  <2>1. m \in Of(OutTypes(x, q), Streams)
    BY MsgOf
  <2>2. Of(OutTypes(x, q), Streams) \subseteq Msgs
    BY DEF OutTypes, Msgs, Of, CtrlTypes, DataTypes, AllTypes
  <2> QED
    BY <2>1, <2>2 DEF OutTypes
<1>6. /\ out'[x][q] = Append(out[x][q], m)
      /\ \A y \in Sides, p \in {"ctrl", "data"} : y # x \/ p # q => out'[y][p] = out[y][p]
  BY <1>4, <1>5, OutPut
<1>7. \A a : /\ Num(out["client"].ctrl, Msg(a, t)) \in Nat /\ Num(wire["client"], Msg(a, t)) \in Nat
             /\ Num(Passing("server"), Msg(a, t)) \in Nat
             /\ Num(strm["server"][t].in, Msg(a, t)) \in Nat
  BY ControlCounts DEF Counts
<1>8. \A a : Num(out'["client"].ctrl, Msg(a, t))
               = Num(out["client"].ctrl, Msg(a, t))
                   + (IF x = "client" /\ q = "ctrl" /\ m.type = a THEN 1 ELSE 0)
  <2>1. CASE x = "client" /\ q = "ctrl"
    <3>1. out'["client"].ctrl = Append(out["client"].ctrl, m)
      BY <1>6, <2>1
    <3>2. \A a : Num(Append(out["client"].ctrl, m), Msg(a, t))
                   = Num(out["client"].ctrl, Msg(a, t)) + (IF m = Msg(a, t) THEN 1 ELSE 0)
      BY <1>4, <1>5, NumAppend
    <3>3. \A a : m = Msg(a, t) <=> m.type = a
      BY MsgOf
    <3> QED
      BY <2>1, <3>1, <3>2, <3>3
  <2>2. CASE ~ (x = "client" /\ q = "ctrl")
    <3>1. out'["client"].ctrl = out["client"].ctrl
      BY <1>6, <2>2
    <3> QED
      BY <1>7, <2>2, <3>1
  <2> QED
    BY <2>1, <2>2
<1>9. View(t)'.out = (IF x = "server" /\ q = "data" THEN Append(View(t).out, m) ELSE View(t).out)
  BY <1>6 DEF View
<1>10. PICK a : a = (IF x = "client" /\ q = "ctrl" /\ m.type = "FileReq" THEN 1 ELSE 0)
  OBVIOUS
<1>11. Asked(t)' = Asked(t) + a
  <2>1. /\ Num(out'["client"].ctrl, Msg("FileReq", t)) = Num(out["client"].ctrl, Msg("FileReq", t)) + a
        /\ Num(out["client"].ctrl, Msg("FileReq", t)) \in Nat
        /\ Num(wire["client"], Msg("FileReq", t)) \in Nat /\ a \in Nat
    BY <1>7, <1>8, <1>10
  <2> QED
    BY <1>2, <2>1 DEF Asked
<1>12. PICK b : b = (IF x = "client" /\ q = "ctrl" /\ m.type = "Start" THEN 1 ELSE 0)
  OBVIOUS
<1>13. PICK St : St = Msg("Start", t)
  OBVIOUS
<1>14. /\ Num(out'["client"].ctrl, St) = Num(out["client"].ctrl, St) + b
       /\ Num(out["client"].ctrl, St) \in Nat /\ Num(wire["client"], St) \in Nat
       /\ Num(Passing("server"), St) \in Nat /\ Num(strm["server"][t].in, St) \in Nat /\ b \in Nat
  BY <1>7, <1>8, <1>12, <1>13
<1>15. Num(strm'["server"][t].in, St) \in Nat
  BY <1>1, <1>13, ControlCountsNext DEF Counts
<1>16. Started(t) = Num(out["client"].ctrl, St) + Num(wire["client"], St)
                      + Num(Passing("server"), St) + Num(strm["server"][t].in, St)
  BY <1>13 DEF Started
<1>17. Started(t)' = Num(out'["client"].ctrl, St) + Num(wire["client"], St)
                       + Num(Passing("server"), St) + Num(strm'["server"][t].in, St)
  BY <1>2, <1>3, <1>13 DEF Started
<1>18. Started(t)' + Num(strm["server"][t].in, St) = Started(t) + Num(strm'["server"][t].in, St) + b
  BY <1>14, <1>15, <1>16, <1>17
<1>19. /\ View(t).started = Started(t) /\ View(t).asked = Asked(t)
       /\ View(t).sv = strm["server"][t]
  BY ControlCounts DEF Counts
<1>20. /\ View(t)'.started = Started(t)' /\ View(t)'.asked = Asked(t)'
       /\ View(t)'.sv = strm'["server"][t]
  BY <1>1, ControlCountsNext DEF Counts
<1> QED
  BY <1>9, <1>10, <1>11, <1>12, <1>13, <1>18, <1>19, <1>20 DEF Puts

\* What a step comes to for the streams.
Stepped == Types' /\ \A s \in Streams : ViewStep(s, View(s), View(s)')

LEMMA OwnStepped ==
    ASSUME Types, NEW x \in Sides, NEW t \in Streams, NEW r \in Strm(t), OwnStep(x, t, r),
           ViewStep(t, View(t), View(t)')
    PROVE  Stepped
<1>1. Types'
  BY OwnStepTypes
<1>2. ASSUME NEW s \in Streams
      PROVE  ViewStep(s, View(s), View(s)')
  <2>1. CASE s = t
    BY <2>1
  <2>2. CASE s # t
    BY <2>2, OwnStepOthers DEF ViewStep
  <2> QED
    BY <2>1, <2>2
<1> QED
  BY <1>1, <1>2 DEF Stepped

LEMMA ViewFacts ==
    ASSUME NEW t \in Streams
    PROVE  /\ View(t).cl = strm["client"][t] /\ View(t).sv = strm["server"][t]
           /\ View(t).clUp = Alive("client") /\ View(t).svUp = Alive("server")
           /\ View(t).pass = Passing("client") /\ View(t).wire = wire["server"]
           /\ View(t).out = out["server"].data
  BY DEF View

LEMMA ClientQuiet ==
    ASSUME NEW s \in Streams, NEW y \in Views(s), NEW z \in Views(s), NEW r,
           Own("client", y, z, r), Quiet(s, y, z)
    PROVE  /\ SameSides(y, z) /\ SameQueues(y, z) /\ z.sv = y.sv /\ z.cl = r
           /\ z.asked = y.asked /\ z.started = y.started
<1>1. y.sv \in StreamRec(s)
  BY DEF Views
<1>2. y.sv.in \in Seq(Of(AllTypes, {s}))
  BY <1>1 DEF StreamRec
<1>3. Num(y.sv.in, Msg("Start", s)) \in Nat
  BY <1>2, NumType
<1>4. y.started \in Nat
  BY Numbers
<1>5. z.started \in Nat
  BY Numbers
<1>6. /\ SameSides(y, z) /\ z.sv = y.sv /\ z.cl = r /\ z.wire = y.wire /\ z.pass = y.pass
  BY DEF Own
<1>7. /\ z.out = y.out /\ z.asked = y.asked
      /\ z.started + Num(y.sv.in, Msg("Start", s)) = y.started + Num(z.sv.in, Msg("Start", s))
  BY DEF Quiet
<1>8. z.started = y.started
  BY <1>3, <1>4, <1>5, <1>6, <1>7
<1> QED
  BY <1>6, <1>7, <1>8 DEF SameQueues

Sends(q, m, type) == IF q = "ctrl" /\ m.type = type THEN 1 ELSE 0

LEMMA ClientPuts ==
    ASSUME NEW s \in Streams, NEW y \in Views(s), NEW z \in Views(s), NEW r, NEW m,
           NEW q, Own("client", y, z, r), Puts("client", s, y, z, q, m)
    PROVE  /\ SameSides(y, z) /\ SameQueues(y, z) /\ z.sv = y.sv /\ z.cl = r
           /\ z.asked = y.asked + Sends(q, m, "FileReq")
           /\ z.started = y.started + Sends(q, m, "Start")
<1>1. y.sv \in StreamRec(s)
  BY DEF Views
<1>2. y.sv.in \in Seq(Of(AllTypes, {s}))
  BY <1>1 DEF StreamRec
<1>3. Num(y.sv.in, Msg("Start", s)) \in Nat
  BY <1>2, NumType
<1>4. y.started \in Nat
  BY Numbers
<1>5. z.started \in Nat
  BY Numbers
<1>6. /\ SameSides(y, z) /\ z.sv = y.sv /\ z.cl = r /\ z.wire = y.wire /\ z.pass = y.pass
  BY DEF Own
<1>7. PICK b : b = Sends(q, m, "Start")
  OBVIOUS
<1>8. /\ z.out = y.out
      /\ z.asked = y.asked + Sends(q, m, "FileReq")
      /\ z.started + Num(y.sv.in, Msg("Start", s)) = y.started + Num(z.sv.in, Msg("Start", s)) + b
  BY <1>7 DEF Puts, Sends
<1>9. z.started = y.started + b
  <2>1. b \in Nat
    BY <1>7 DEF Sends
  <2>2. PICK k \in Nat : /\ k = Num(y.sv.in, Msg("Start", s))
                         /\ z.started + k = y.started + k + b
    BY <1>3, <1>6, <1>8
  <2> QED
    BY <1>4, <1>5, <2>1, <2>2
<1> QED
  BY <1>6, <1>7, <1>8, <1>9 DEF SameQueues

LEMMA ServerQuiet ==
    ASSUME NEW s \in Streams, NEW y \in Views(s), NEW z \in Views(s), NEW r,
           Own("server", y, z, r), Quiet(s, y, z),
           Num(r.in, Msg("Start", s)) <= Num(y.sv.in, Msg("Start", s))
    PROVE  /\ SameSides(y, z) /\ SameQueues(y, z) /\ z.cl = y.cl /\ z.sv = r
           /\ FewerAsked(y, z)
           /\ Num(y.sv.in, Msg("Start", s)) > 0 => y.started > 0
<1>1. y.sv \in StreamRec(s) /\ z.sv \in StreamRec(s)
  BY DEF Views
<1>2. y.sv.in \in Seq(Of(AllTypes, {s})) /\ z.sv.in \in Seq(Of(AllTypes, {s}))
  BY <1>1 DEF StreamRec
<1>3. Num(y.sv.in, Msg("Start", s)) \in Nat /\ Num(z.sv.in, Msg("Start", s)) \in Nat
  BY <1>2, NumType
<1>4. y.started \in Nat /\ y.asked \in Nat
  BY Numbers
<1>5. z.started \in Nat
  BY Numbers
<1>6. /\ SameSides(y, z) /\ z.cl = y.cl /\ z.sv = r /\ z.wire = y.wire /\ z.pass = y.pass
  BY DEF Own
<1>7. /\ z.out = y.out /\ z.asked = y.asked
      /\ z.started + Num(y.sv.in, Msg("Start", s)) = y.started + Num(z.sv.in, Msg("Start", s))
      /\ Num(y.sv.in, Msg("Start", s)) <= y.started
  BY DEF Quiet
<1>8. z.started <= y.started
  BY <1>3, <1>4, <1>5, <1>6, <1>7
<1>9. FewerAsked(y, z)
  BY <1>4, <1>5, <1>7, <1>8 DEF FewerAsked
<1>10. Num(y.sv.in, Msg("Start", s)) > 0 => y.started > 0
  BY <1>3, <1>4, <1>7
<1> QED
  BY <1>6, <1>7, <1>9, <1>10 DEF SameQueues

LEMMA ServerPuts ==
    ASSUME NEW s \in Streams, NEW y \in Views(s), NEW z \in Views(s), NEW r, NEW m,
           NEW q, Own("server", y, z, r), Puts("server", s, y, z, q, m),
           r.in = y.sv.in
    PROVE  /\ SameSides(y, z) /\ z.cl = y.cl /\ z.sv = r /\ z.wire = y.wire /\ z.pass = y.pass
           /\ z.asked = y.asked /\ z.started = y.started
           /\ q = "data" => z.out = Append(y.out, m)
           /\ q = "ctrl" => z.out = y.out
<1>1. y.sv \in StreamRec(s)
  BY DEF Views
<1>2. y.sv.in \in Seq(Of(AllTypes, {s}))
  BY <1>1 DEF StreamRec
<1>3. Num(y.sv.in, Msg("Start", s)) \in Nat
  BY <1>2, NumType
<1>4. y.started \in Nat /\ y.asked \in Nat
  BY Numbers
<1>5. z.started \in Nat
  BY Numbers
<1>6. /\ SameSides(y, z) /\ z.cl = y.cl /\ z.sv = r /\ z.wire = y.wire /\ z.pass = y.pass
  BY DEF Own
<1>7. /\ z.out = (IF q = "data" THEN Append(y.out, m) ELSE y.out) /\ z.asked = y.asked + 0
      /\ z.started + Num(y.sv.in, Msg("Start", s)) = y.started + Num(z.sv.in, Msg("Start", s)) + 0
  BY DEF Puts
<1>8. z.started = y.started
  BY <1>3, <1>4, <1>5, <1>6, <1>7
<1> QED
  BY <1>4, <1>6, <1>7, <1>8

-----------------------------------------------------------------------------
(* The streams' steps. *)

Pcs == {"idle", "sent", "made", "resp", "start", "recv", "req", "reply", "wait", "send",
        "close", "done"}

\* A stream's record moves on ...
Moved(c, r, pc) ==
    /\ r = [c EXCEPT !.pc = pc] /\ r.pc = pc /\ r.in = c.in /\ r.n = c.n
    /\ r.reg = c.reg /\ r.closed = c.closed /\ r.complete = c.complete
    /\ r.says = c.says /\ r.after = c.after

LEMMA MovesOn ==
    ASSUME NEW s \in Streams, NEW c \in Strm(s), NEW pc \in Pcs
    PROVE  \E r \in Strm(s) : Moved(c, r, pc)
<1>1. c \in StreamRec(s) /\ Len(c.in) <= InCap /\ pc # "tell"
  BY DEF Strm, Pcs
<1>2. PICK r : r = [c EXCEPT !.pc = pc]
  OBVIOUS
<1>3. r \in StreamRec(s)
  BY <1>1, <1>2 DEF StreamRec, Pcs
<1>4. Moved(c, r, pc)
  BY <1>1, <1>2 DEF StreamRec, Moved
<1>5. r \in Strm(s)
  BY <1>1, <1>3, <1>4 DEF Strm, Moved
<1> QED
  BY <1>4, <1>5

\* ... takes a message and moves on ...
Taken(s, c, r, pc, n) ==
    /\ r = [c EXCEPT !.in = Tail(c.in), !.pc = pc, !.n = n]
    /\ r.pc = pc /\ r.in = Tail(c.in) /\ r.n = n /\ r.reg = c.reg
    /\ r.closed = c.closed /\ r.complete = c.complete
    /\ r.says = c.says /\ r.after = c.after
    /\ Head(c.in) = Msg(Head(c.in).type, s) /\ Head(c.in).type \in AllTypes

LEMMA TakesOne ==
    ASSUME NEW s \in Streams, NEW c \in Strm(s), c.in # <<>>, NEW pc \in Pcs,
           NEW n \in 0 .. NumData
    PROVE  \E r \in Strm(s) : Taken(s, c, r, pc, n)
<1>1. c \in StreamRec(s) /\ Len(c.in) <= InCap /\ pc # "tell"
  BY DEF Strm, Pcs
<1>2. c.in \in Seq(Of(AllTypes, {s}))
  BY <1>1 DEF StreamRec
<1>3. PICK q : q = Tail(c.in)
  OBVIOUS
<1>4. /\ q \in Seq(Of(AllTypes, {s})) /\ Len(q) = Len(c.in) - 1 /\ Len(c.in) \in Nat
      /\ Head(c.in) \in Of(AllTypes, {s})
  BY <1>2, <1>3, HeadTail
<1>5. Len(q) <= InCap
  BY <1>1, <1>4, CapsAssumption
<1>6. Head(c.in) = Msg(Head(c.in).type, s) /\ Head(c.in).type \in AllTypes
  BY <1>4, MsgOf
<1>7. PICK r : r = [c EXCEPT !.in = q, !.pc = pc, !.n = n]
  OBVIOUS
<1>8. /\ r.pc = pc /\ r.in = q /\ r.n = n /\ r.reg = c.reg
      /\ r.closed = c.closed /\ r.complete = c.complete
      /\ r.says = c.says /\ r.after = c.after
  BY <1>1, <1>7 DEF StreamRec
<1>9. r \in StreamRec(s)
  BY <1>1, <1>4, <1>7 DEF StreamRec, Pcs
<1>10. r \in Strm(s)
  BY <1>1, <1>5, <1>8, <1>9 DEF Strm
<1> QED
  BY <1>3, <1>6, <1>7, <1>8, <1>10 DEF Taken

\* ... or is what CloseStream leaves of it.
Ended(x, r, n, complete, says) ==
    /\ r.closed /\ r.in = <<>> /\ ~ r.reg /\ r.n = n /\ r.complete = complete
    /\ r.says = says /\ (x = "server" => r.after = "done")
    /\ r.pc \in {"tell", "close", "done"} /\ (r.pc = "tell" => says # "nothing")

LEMMA EndsOne ==
    ASSUME Types, NEW x \in Sides, NEW s \in Streams, NEW st, NEW says \in {"nothing", "Close", "Complete"},
           st.n \in 0 .. NumData, st.complete \in BOOLEAN, EndStream(x, s, st, says)
    PROVE  \E r \in Strm(s) : /\ strm' = [strm EXCEPT ![x][s] = r]
                              /\ Ended(x, r, st.n, st.complete, says)
<1>1. PICK after \in {"close", "done"} :
         /\ x = "server" => after = "done"
         /\ strm' = [strm EXCEPT ![x][s] =
              [NoStream EXCEPT !.closed = TRUE, !.complete = st.complete, !.n = st.n,
                               !.says = says, !.after = after,
                               !.pc = IF says = "nothing" THEN after ELSE "tell"]]
  BY DEF EndStream
<1>2. PICK r : r = [NoStream EXCEPT !.closed = TRUE, !.complete = st.complete, !.n = st.n,
                                    !.says = says, !.after = after,
                                    !.pc = IF says = "nothing" THEN after ELSE "tell"]
  OBVIOUS
<1>3. /\ r.closed = TRUE /\ r.in = <<>> /\ r.reg = FALSE /\ r.n = st.n
      /\ r.complete = st.complete /\ r.says = says /\ r.after = after
      /\ r.pc = IF says = "nothing" THEN after ELSE "tell"
  BY <1>2 DEF NoStream
<1>4. NoStream \in StreamRec(s)
  BY NumsAssumption DEF NoStream, StreamRec
<1>5. r \in StreamRec(s)
  BY <1>2, <1>4 DEF StreamRec
<1>6. r \in Strm(s)
  BY <1>3, <1>5, CapsAssumption DEF Strm
<1>7. Ended(x, r, st.n, st.complete, says)
  BY <1>1, <1>3 DEF Ended
<1> QED
  BY <1>1, <1>2, <1>6, <1>7

\* The views before and after a step of one stream.
LEMMA OwnViews ==
    ASSUME Types, NEW x \in Sides, NEW t \in Streams, NEW r \in Strm(t), OwnStep(x, t, r)
    PROVE  /\ View(t) \in Views(t) /\ View(t)' \in Views(t)
           /\ Own(x, View(t), View(t)', r)
           /\ View(t).cl = strm["client"][t] /\ View(t).sv = strm["server"][t]
           /\ View(t).clUp = Alive("client") /\ View(t).svUp = Alive("server")
           /\ strm["client"][t] \in Strm(t) /\ strm["server"][t] \in Strm(t)
<1>1. Types'
  BY OwnStepTypes
<1>2. View(t) \in Views(t)
  BY ViewType
<1>3. View(t)' \in Views(t)
  BY <1>1, ViewTypeNext
<1>4. Own(x, View(t), View(t)', r)
  BY OwnStepView
<1>5. strm["client"][t] \in Strm(t) /\ strm["server"][t] \in Strm(t)
  BY SideFacts DEF Types, StrmOK
<1> QED
  BY <1>2, <1>3, <1>4, <1>5, ViewFacts

\* A stream of the client's that goes on, and may queue a control message.
ClientQueues(t, r) ==
    \/ out' = out
    \/ \E q \in {"ctrl", "data"} : \E m \in Of(OutTypes("client", q), {t}) :
          /\ Put("client", q, m)
          /\ q = "ctrl" /\ m.type = "FileReq" => r.pc = "sent"
          /\ q = "ctrl" /\ m.type = "Start" => r.pc = "recv"

LEMMA ClientMoveStepped ==
    ASSUME Types, NEW t \in Streams, NEW r \in Strm(t), OwnStep("client", t, r), Alive("client"),
           NEW c, c = strm["client"][t], <<c.pc, r.pc>> \in Pairs,
           r.n = c.n, r.closed = c.closed, r.complete = c.complete,
           r.reg = (IF r.pc = "made" THEN TRUE ELSE c.reg), Steady(t, c.in, r.in),
           ClientQueues(t, r)
    PROVE  Stepped
<1>1. PICK y : y = View(t)
  OBVIOUS
<1>2. PICK z : z = View(t)'
  OBVIOUS
<1>3. "client" \in Sides
  BY SideFacts
<1>4. y \in Views(t) /\ z \in Views(t) /\ Own("client", y, z, r) /\ y.cl = c /\ y.clUp
  BY <1>1, <1>2, <1>3, OwnViews
<1>5. y.asked \in Nat /\ y.started \in Nat
  BY <1>4, Numbers
<1>6. /\ SameSides(y, z) /\ SameQueues(y, z) /\ z.sv = y.sv /\ z.cl = r
      /\ z.asked <= y.asked + (IF r.pc = "sent" THEN 1 ELSE 0)
      /\ z.started > 0 => y.started > 0 \/ r.pc = "recv"
  <2>1. CASE out' = out
    <3>1. Quiet(t, y, z)
      BY <1>1, <1>2, <1>3, <2>1, OwnStepQuiet
    <3>2. /\ SameSides(y, z) /\ SameQueues(y, z) /\ z.sv = y.sv /\ z.cl = r
          /\ z.asked = y.asked /\ z.started = y.started
      BY <1>4, <3>1, ClientQuiet
    <3> QED
      BY <1>5, <3>2
  <2>2. CASE \E q \in {"ctrl", "data"} : \E m \in Of(OutTypes("client", q), {t}) :
                /\ Put("client", q, m)
                /\ q = "ctrl" /\ m.type = "FileReq" => r.pc = "sent"
                /\ q = "ctrl" /\ m.type = "Start" => r.pc = "recv"
    <3>1. PICK q \in {"ctrl", "data"} : \E m \in Of(OutTypes("client", q), {t}) :
                /\ Put("client", q, m)
                /\ q = "ctrl" /\ m.type = "FileReq" => r.pc = "sent"
                /\ q = "ctrl" /\ m.type = "Start" => r.pc = "recv"
      BY <2>2
    <3>2. PICK m \in Of(OutTypes("client", q), {t}) :
                /\ Put("client", q, m)
                /\ q = "ctrl" /\ m.type = "FileReq" => r.pc = "sent"
                /\ q = "ctrl" /\ m.type = "Start" => r.pc = "recv"
      BY <3>1
    <3>3. Puts("client", t, y, z, q, m)
      BY <1>1, <1>2, <1>3, <3>2, OwnStepPuts
    <3>4. /\ SameSides(y, z) /\ SameQueues(y, z) /\ z.sv = y.sv /\ z.cl = r
          /\ z.asked = y.asked + Sends(q, m, "FileReq")
          /\ z.started = y.started + Sends(q, m, "Start")
      BY <1>4, <3>3, ClientPuts
    <3>5. z.asked <= y.asked + (IF r.pc = "sent" THEN 1 ELSE 0)
      BY <1>5, <3>2, <3>4 DEF Sends
    <3>6. z.started > 0 => y.started > 0 \/ r.pc = "recv"
      BY <1>5, <3>2, <3>4 DEF Sends
    <3> QED
      BY <3>4, <3>5, <3>6
  <2> QED
    BY <2>1, <2>2 DEF ClientQueues
<1>7. ClientMoves(t, y, z)
  BY <1>4, <1>6 DEF ClientMoves
<1>8. ViewStep(t, View(t), View(t)')
  BY <1>1, <1>2, <1>7 DEF ViewStep
<1> QED
  BY <1>3, <1>8, OwnStepped

\* A stream of the client's that ends.
LEMMA ClientEndStepped ==
    ASSUME Types, NEW t \in Streams, NEW r \in Strm(t), OwnStep("client", t, r), Alive("client"),
           NEW c, c = strm["client"][t], out' = out, c.pc \in {"resp", "start", "recv"},
           NEW complete, NEW says, Ended("client", r, c.n, complete, says),
           complete => c.in # <<>> /\ Head(c.in) = C(t)
    PROVE  Stepped
<1>1. PICK y : y = View(t)
  OBVIOUS
<1>2. PICK z : z = View(t)'
  OBVIOUS
<1>3. "client" \in Sides
  BY SideFacts
<1>4. y \in Views(t) /\ z \in Views(t) /\ Own("client", y, z, r) /\ y.cl = c /\ y.clUp
  BY <1>1, <1>2, <1>3, OwnViews
<1>5. Quiet(t, y, z)
  BY <1>1, <1>2, <1>3, OwnStepQuiet
<1>6. /\ SameSides(y, z) /\ SameQueues(y, z) /\ z.sv = y.sv /\ z.cl = r
      /\ z.asked = y.asked /\ z.started = y.started
  BY <1>4, <1>5, ClientQuiet
<1>7. /\ r.n = c.n /\ r.closed /\ r.in = <<>> /\ ~ r.reg
      /\ r.pc \in {"tell", "close", "done"} /\ r.complete = complete
  BY DEF Ended
<1>8. ClientEnds(t, y, z)
  BY <1>4, <1>6, <1>7 DEF ClientEnds
<1>9. ViewStep(t, View(t), View(t)')
  BY <1>1, <1>2, <1>8 DEF ViewStep
<1> QED
  BY <1>3, <1>9, OwnStepped

\* A stream of the server's that goes on or ends, and queues at most a control message.
LEMMA ServerMoveStepped ==
    ASSUME Types, NEW t \in Streams, NEW r \in Strm(t), OwnStep("server", t, r), Alive("server"),
           NEW c, c = strm["server"][t],
           \/ out' = out /\ Num(r.in, Msg("Start", t)) <= Num(c.in, Msg("Start", t))
           \/ r.in = c.in /\ \E m \in Of(OutTypes("server", "ctrl"), {t}) : Put("server", "ctrl", m),
           r.n = c.n, r.after = "done", c.pc \notin {"idle", "done"}, r.pc # "idle",
           r.pc = "send" => out' = out /\ Num(c.in, Msg("Start", t)) > 0,
           r.pc = "tell" /\ r.says = "Complete" => c.n = NumData
    PROVE  Stepped
<1>1. PICK y : y = View(t)
  OBVIOUS
<1>2. PICK z : z = View(t)'
  OBVIOUS
<1>3. "server" \in Sides
  BY SideFacts
<1>4. y \in Views(t) /\ z \in Views(t) /\ Own("server", y, z, r) /\ y.sv = c /\ y.svUp
  BY <1>1, <1>2, <1>3, OwnViews
<1>5. y.asked \in Nat /\ y.started \in Nat
  BY <1>4, Numbers
<1>6. /\ SameSides(y, z) /\ SameQueues(y, z) /\ z.cl = y.cl /\ z.sv = r
      /\ FewerAsked(y, z) /\ (r.pc = "send" => y.started > 0)
  <2>1. CASE out' = out /\ Num(r.in, Msg("Start", t)) <= Num(c.in, Msg("Start", t))
    <3>1. Quiet(t, y, z)
      BY <1>1, <1>2, <1>3, <2>1, OwnStepQuiet
    <3>2. /\ SameSides(y, z) /\ SameQueues(y, z) /\ z.cl = y.cl /\ z.sv = r
          /\ FewerAsked(y, z) /\ (Num(y.sv.in, Msg("Start", t)) > 0 => y.started > 0)
      BY <1>4, <2>1, <3>1, ServerQuiet
    <3> QED
      BY <1>4, <3>2
  <2>2. CASE r.in = c.in /\ \E m \in Of(OutTypes("server", "ctrl"), {t}) : Put("server", "ctrl", m)
    <3>1. PICK m \in Of(OutTypes("server", "ctrl"), {t}) : Put("server", "ctrl", m)
      BY <2>2
    <3>2. Puts("server", t, y, z, "ctrl", m)
      BY <1>1, <1>2, <1>3, <3>1, OwnStepPuts
    <3>3. /\ SameSides(y, z) /\ z.cl = y.cl /\ z.sv = r /\ z.wire = y.wire /\ z.pass = y.pass
          /\ z.asked = y.asked /\ z.started = y.started /\ z.out = y.out
      BY <1>4, <2>2, <3>2, ServerPuts
    <3>4. FewerAsked(y, z)
      BY <1>5, <3>3 DEF FewerAsked
    <3>5. r.pc = "send" => y.started > 0
      <4>1. CASE out' = out
        <5>1. OutOK /\ Len(out["server"].ctrl) < OutCap
          BY <3>1 DEF Types, Put, HasRoom
        <5>2. Quiet(t, y, z)
          BY <1>1, <1>2, <1>3, <4>1, OwnStepQuiet
        <5>3. Num(r.in, Msg("Start", t)) <= Num(y.sv.in, Msg("Start", t))
          <6>1. y.sv \in StreamRec(t)
            BY <1>4 DEF Views
          <6>2. y.sv.in \in Seq(Of(AllTypes, {t}))
            BY <6>1 DEF StreamRec
          <6>3. Num(y.sv.in, Msg("Start", t)) \in Nat
            BY <6>2, NumType
          <6> QED
            BY <1>4, <2>2, <6>3
        <5>4. Num(y.sv.in, Msg("Start", t)) > 0 => y.started > 0
          BY <1>4, <5>2, <5>3, ServerQuiet
        <5> QED
          BY <1>4, <5>4
      <4> QED
        BY <4>1
    <3> QED
      BY <3>3, <3>4, <3>5 DEF SameQueues
  <2> QED
    BY <2>1, <2>2
<1>7. ServerMoves(t, y, z)
  BY <1>4, <1>6 DEF ServerMoves
<1>8. ViewStep(t, View(t), View(t)')
  BY <1>1, <1>2, <1>7 DEF ViewStep
<1> QED
  BY <1>3, <1>8, OwnStepped

LEMMA StrmFacts ==
    ASSUME Types, NEW x \in Sides, NEW s \in Streams
    PROVE  /\ strm[x][s] \in Strm(s) /\ strm[x][s] \in StreamRec(s)
           /\ strm[x][s].in \in Seq(Of(AllTypes, {s})) /\ strm[x][s].n \in 0 .. NumData
           /\ strm[x][s].complete \in BOOLEAN
<1>1. strm[x][s] \in Strm(s)
  BY DEF Types, StrmOK
<1>2. strm[x][s] \in StreamRec(s)
  BY <1>1 DEF Strm
<1> QED
  BY <1>1, <1>2 DEF StreamRec

LEMMA AskStep ==
    ASSUME Types, NEW s \in Streams, Alive("client"), Ask(s)
    PROVE  Stepped
<1>1. PICK c \in Strm(s) : c = strm["client"][s]
  BY StrmFacts, SideFacts
<1>2. c.pc = "idle" /\ UNCHANGED <<loop, wire, close, conn, fails>> /\ fails \in 0 .. MaxFails
  BY <1>1 DEF Ask, Types
<1>3. Steady(s, c.in, c.in)
  BY <1>1, SideFacts, StrmFacts, NothingLeft
<1>4. CASE Put("client", "ctrl", Msg("FileReq", s)) /\ Goto("client", s, "sent")
  <2>1. "sent" \in Pcs
    BY DEF Pcs
  <2>2. PICK r \in Strm(s) : Moved(c, r, "sent")
    BY <2>1, MovesOn
  <2>3. PICK m : m = Msg("FileReq", s)
    OBVIOUS
  <2>4. m \in Of(OutTypes("client", "ctrl"), {s}) /\ m.type = "FileReq"
    BY <2>3 DEF Msg, Of, OutTypes, CtrlTypes
  <2>5. ClientQueues(s, r) /\ Queues("client", s)
    BY <1>4, <2>2, <2>3, <2>4 DEF Moved, ClientQueues, Queues
  <2>6. strm' = [strm EXCEPT !["client"][s] = r]
    BY <1>1, <1>4, <2>2 DEF Goto, Moved
  <2>7. OwnStep("client", s, r)
    BY <1>2, <2>5, <2>6 DEF OwnStep
  <2>8. <<c.pc, r.pc>> \in Pairs
    BY <1>2, <2>2 DEF Pairs, Moved
  <2>9. /\ r.n = c.n /\ r.closed = c.closed /\ r.complete = c.complete /\ r.in = c.in
        /\ r.reg = (IF r.pc = "made" THEN TRUE ELSE c.reg)
    BY <2>2 DEF Moved
  <2> QED
    BY <1>1, <1>3, <2>5, <2>7, <2>8, <2>9, ClientMoveStepped
<1>5. CASE Goto("client", s, "done") /\ out' = out
  <2>1. "done" \in Pcs
    BY DEF Pcs
  <2>2. PICK r \in Strm(s) : Moved(c, r, "done")
    BY <2>1, MovesOn
  <2>3. strm' = [strm EXCEPT !["client"][s] = r]
    BY <1>1, <1>5, <2>2 DEF Goto, Moved
  <2>4. OwnStep("client", s, r)
    BY <1>2, <1>5, <2>3 DEF OwnStep, Queues
  <2>5. <<c.pc, r.pc>> \in Pairs /\ ClientQueues(s, r)
    BY <1>2, <1>5, <2>2 DEF Pairs, Moved, ClientQueues
  <2>6. /\ r.n = c.n /\ r.closed = c.closed /\ r.complete = c.complete /\ r.in = c.in
        /\ r.reg = (IF r.pc = "made" THEN TRUE ELSE c.reg)
    BY <2>2 DEF Moved
  <2> QED
    BY <1>1, <1>3, <2>4, <2>5, <2>6, ClientMoveStepped
<1> QED
  BY <1>4, <1>5 DEF Ask

LEMMA RegisterStep ==
    ASSUME Types, NEW s \in Streams, Alive("client"), Register(s)
    PROVE  Stepped
<1>1. PICK c \in Strm(s) : c = strm["client"][s]
  BY StrmFacts, SideFacts
<1>2. /\ c.pc = "sent" /\ UNCHANGED <<loop, out, wire, close, conn, fails>>
      /\ fails \in 0 .. MaxFails
  BY <1>1 DEF Register, Types
<1>3. Steady(s, c.in, c.in)
  BY <1>1, SideFacts, StrmFacts, NothingLeft
<1>4. "made" \in Pcs
  BY DEF Pcs
<1>5. PICK d \in Strm(s) : Moved(c, d, "made")
  BY <1>4, MovesOn
<1>6. PICK r : r = [d EXCEPT !.reg = TRUE]
  OBVIOUS
<1>7. /\ r \in Strm(s) /\ r.pc = "made" /\ r.reg = TRUE /\ r.closed = c.closed
      /\ r.in = c.in /\ r.n = c.n /\ r.complete = c.complete
  <2>1. d \in StreamRec(s) /\ Len(d.in) <= InCap /\ d.pc = "made"
    BY <1>5 DEF Strm, Moved
  <2>2. /\ r.pc = d.pc /\ r.reg = TRUE /\ r.closed = d.closed
        /\ r.in = d.in /\ r.n = d.n /\ r.complete = d.complete
    BY <1>6, <2>1 DEF StreamRec
  <2>3. r \in StreamRec(s)
    BY <1>6, <2>1 DEF StreamRec
  <2>4. r \in Strm(s)
    BY <2>1, <2>2, <2>3 DEF Strm
  <2> QED
    BY <1>5, <2>2, <2>4 DEF Moved
<1>8. r = [c EXCEPT !.pc = "made", !.reg = TRUE]
  BY <1>5, <1>6 DEF Moved
<1>9. strm' = [strm EXCEPT !["client"][s] = r]
  BY <1>1, <1>8 DEF Register
<1>10. OwnStep("client", s, r)
  BY <1>2, <1>9 DEF OwnStep, Queues
<1>11. <<c.pc, r.pc>> \in Pairs
  BY <1>2, <1>7 DEF Pairs
<1>12. ClientQueues(s, r)
  BY <1>2 DEF ClientQueues
<1>13. r.reg = (IF r.pc = "made" THEN TRUE ELSE c.reg)
  BY <1>7
<1> QED
  BY <1>1, <1>3, <1>7, <1>10, <1>11, <1>12, <1>13, ClientMoveStepped

LEMMA StartClient ==
    ASSUME Types, NEW s \in Streams, Alive("client"), Start("client", s)
    PROVE  Stepped
<1>1. PICK c \in Strm(s) : c = strm["client"][s]
  BY StrmFacts, SideFacts
<1>2. /\ c.pc = "made" /\ UNCHANGED <<loop, out, wire, close, conn, fails>>
      /\ fails \in 0 .. MaxFails
  BY <1>1 DEF Start, Types
<1>3. Steady(s, c.in, c.in)
  BY <1>1, SideFacts, StrmFacts, NothingLeft
<1>4. "resp" \in Pcs
  BY DEF Pcs
<1>5. PICK r \in Strm(s) : Moved(c, r, "resp")
  BY <1>4, MovesOn
<1>6. strm' = [strm EXCEPT !["client"][s] = r]
  BY <1>1, <1>5 DEF Start, Goto, Moved
<1>7. OwnStep("client", s, r)
  BY <1>2, <1>6 DEF OwnStep, Queues
<1>8. <<c.pc, r.pc>> \in Pairs
  BY <1>2, <1>5 DEF Pairs, Moved
<1>9. ClientQueues(s, r)
  BY <1>2 DEF ClientQueues
<1>10. /\ r.n = c.n /\ r.closed = c.closed /\ r.complete = c.complete /\ r.in = c.in
       /\ r.reg = (IF r.pc = "made" THEN TRUE ELSE c.reg)
  BY <1>5 DEF Moved
<1> QED
  BY <1>1, <1>3, <1>7, <1>8, <1>9, <1>10, ClientMoveStepped

\* The first message in a stream's channel.
LEMMA HeadOf ==
    ASSUME Types, NEW x \in Sides, NEW s \in Streams, NEW c, c = strm[x][s], c.in # <<>>
    PROVE  /\ Head(c.in).type = "Data" <=> Head(c.in) = D(s)
           /\ Head(c.in).type = "Complete" <=> Head(c.in) = C(s)
           /\ Head(c.in).type = "Start" <=> Head(c.in) = Msg("Start", s)
           /\ Fades(s, c.in, Tail(c.in))
           /\ Head(c.in).type \notin {"Data", "Complete"} => Steady(s, c.in, Tail(c.in))
           /\ Num(Tail(c.in), Msg("Start", s)) <= Num(c.in, Msg("Start", s))
           /\ Head(c.in).type = "Start" => Num(c.in, Msg("Start", s)) > 0
<1>1. c.in \in Seq(Of(AllTypes, {s}))
  BY StrmFacts
<1>2. PICK h \in Of(AllTypes, {s}) : h = Head(c.in)
  BY <1>1, HeadTail
<1>3. \A a : h = Msg(a, s) <=> h.type = a
  BY MsgOf
<1>4. /\ h.type = "Data" <=> h = D(s)
      /\ h.type = "Complete" <=> h = C(s)
      /\ h.type = "Start" <=> h = Msg("Start", s)
  BY <1>3 DEF D, C
<1>5. /\ Fades(s, c.in, Tail(c.in))
      /\ h # D(s) /\ h # C(s) => Steady(s, c.in, Tail(c.in))
  BY <1>1, <1>2, SteadyTail
<1>6. PICK St : St = Msg("Start", s)
  OBVIOUS
<1>7. /\ Num(Tail(c.in), St) \in Nat
      /\ Num(c.in, St) = Num(Tail(c.in), St) + (IF h = St THEN 1 ELSE 0)
  BY <1>1, <1>2, NumTail
<1>8. Num(Tail(c.in), St) <= Num(c.in, St) /\ (h = St => Num(c.in, St) > 0)
  BY <1>7
<1> QED
  BY <1>2, <1>4, <1>5, <1>6, <1>8

LEMMA RecvFileRespStep ==
    ASSUME Types, NEW s \in Streams, Alive("client"), RecvFileResp(s)
    PROVE  Stepped
<1>1. PICK c \in Strm(s) : c = strm["client"][s]
  BY StrmFacts, SideFacts
<1>2. /\ c.pc = "resp" /\ c.in # <<>> /\ Head(c.in).type = "FileResp"
      /\ UNCHANGED <<loop, out, wire, close, conn, fails>> /\ fails \in 0 .. MaxFails
  BY <1>1 DEF RecvFileResp, Receives, Types
<1>3. Steady(s, c.in, Tail(c.in))
  BY <1>1, <1>2, SideFacts, HeadOf
<1>4. "start" \in Pcs /\ c.n \in 0 .. NumData /\ c \in StreamRec(s)
  BY <1>1, SideFacts, StrmFacts DEF Pcs
<1>5. PICK r \in Strm(s) : Taken(s, c, r, "start", c.n)
  BY <1>2, <1>4, TakesOne
<1>6. r = [[c EXCEPT !.in = Tail(@)] EXCEPT !.pc = "start"]
  <2>1. r = [c EXCEPT !.in = Tail(c.in), !.pc = "start", !.n = c.n]
    BY <1>5 DEF Taken
  <2> QED
    BY <1>4, <2>1 DEF StreamRec
<1>7. strm' = [strm EXCEPT !["client"][s] = r]
  BY <1>1, <1>6 DEF RecvFileResp, Took
<1>8. OwnStep("client", s, r) /\ ClientQueues(s, r)
  BY <1>2, <1>7 DEF OwnStep, Queues, ClientQueues
<1>9. <<c.pc, r.pc>> \in Pairs
  BY <1>2, <1>5 DEF Pairs, Taken
<1>10. /\ r.n = c.n /\ r.closed = c.closed /\ r.complete = c.complete /\ r.in = Tail(c.in)
       /\ r.reg = (IF r.pc = "made" THEN TRUE ELSE c.reg)
  BY <1>5 DEF Taken
<1> QED
  BY <1>1, <1>3, <1>8, <1>9, <1>10, ClientMoveStepped

LEMMA RecvDataStep ==
    ASSUME IInv, NEW s \in Streams, Alive("client"), RecvData(s)
    PROVE  Stepped
<1> USE SideFacts
<1>1. Types /\ Good(s, View(s))
  BY DEF IInv
<1>2. PICK c \in Strm(s) : c = strm["client"][s]
  BY <1>1, StrmFacts
<1>3. /\ c.pc = "recv" /\ c.in # <<>> /\ Head(c.in).type = "Data"
      /\ UNCHANGED <<loop, out, wire, close, conn, fails>> /\ fails \in 0 .. MaxFails
  BY <1>1, <1>2 DEF RecvData, Receives, Types
<1>4. Head(c.in) = D(s)
  BY <1>1, <1>2, <1>3, HeadOf
<1>5. PICK y : y = View(s)
  OBVIOUS
<1>6. y \in Views(s) /\ y.cl = c /\ Good(s, y)
  BY <1>1, <1>2, <1>5, ViewType, ViewFacts
<1>7. c.n + 1 \in 0 .. NumData
  BY <1>3, <1>4, <1>6, RoomForData
<1>8. "recv" \in Pcs /\ c \in StreamRec(s)
  BY <1>1, <1>2, StrmFacts DEF Pcs
<1>9. PICK r \in Strm(s) : Taken(s, c, r, "recv", c.n + 1)
  BY <1>3, <1>7, <1>8, TakesOne
<1>10. r = [[c EXCEPT !.in = Tail(@)] EXCEPT !.n = @ + 1]
  <2>1. r = [c EXCEPT !.in = Tail(c.in), !.pc = "recv", !.n = c.n + 1]
    BY <1>9 DEF Taken
  <2> QED
    BY <1>3, <1>8, <2>1 DEF StreamRec
<1>11. strm' = [strm EXCEPT !["client"][s] = r]
  BY <1>2, <1>10 DEF RecvData, Took
<1>12. OwnStep("client", s, r) /\ out' = out
  BY <1>3, <1>11 DEF OwnStep, Queues
<1>13. PICK z : z = View(s)'
  OBVIOUS
<1>14. z \in Views(s) /\ Own("client", y, z, r) /\ y.clUp
  BY <1>1, <1>5, <1>12, <1>13, OwnViews
<1>15. Quiet(s, y, z)
  BY <1>1, <1>5, <1>12, <1>13, OwnStepQuiet
<1>16. /\ SameSides(y, z) /\ SameQueues(y, z) /\ z.sv = y.sv /\ z.cl = r
       /\ z.asked = y.asked /\ z.started = y.started
  BY <1>6, <1>14, <1>15, ClientQuiet
<1>17. TakesData(s, y, z)
  BY <1>3, <1>4, <1>6, <1>9, <1>14, <1>16 DEF TakesData, Taken
<1>18. ViewStep(s, View(s), View(s)')
  BY <1>5, <1>13, <1>17 DEF ViewStep
<1> QED
  BY <1>1, <1>12, <1>18, OwnStepped

\* A stream that waits for messages has not been completed.
LEMMA NotComplete ==
    ASSUME IInv, NEW s \in Streams, strm["client"][s].pc \in {"resp", "start", "recv"}
    PROVE  strm["client"][s].complete = FALSE
<1>1. Types /\ Good(s, View(s))
  BY DEF IInv
<1>2. ClientOK(View(s)) /\ View(s).cl = strm["client"][s]
  BY <1>1, ViewFacts DEF Good
<1>3. strm["client"][s].complete \in BOOLEAN
  BY <1>1, SideFacts, StrmFacts
<1> QED
  BY <1>2, <1>3 DEF ClientOK

\* The client's stream ends, and what it says of the file was there before.
LEMMA ClientQuits ==
    ASSUME IInv, NEW s \in Streams, Alive("client"), NEW st, NEW says \in {"nothing", "Close"},
           strm["client"][s].pc \in {"resp", "start", "recv"},
           st.n = strm["client"][s].n, st.complete = strm["client"][s].complete,
           EndStream("client", s, st, says), UNCHANGED <<loop, out, wire, close, conn>>,
           fails' \in 0 .. MaxFails
    PROVE  Stepped
<1> USE SideFacts
<1>1. Types
  BY DEF IInv
<1>2. PICK c : c = strm["client"][s]
  OBVIOUS
<1>3. c.n \in 0 .. NumData /\ c.complete = FALSE
  BY <1>1, <1>2, StrmFacts, NotComplete
<1>4. st.n \in 0 .. NumData /\ st.complete \in BOOLEAN /\ says \in {"nothing", "Close", "Complete"}
  BY <1>2, <1>3
<1>5. PICK r \in Strm(s) : /\ strm' = [strm EXCEPT !["client"][s] = r]
                           /\ Ended("client", r, st.n, st.complete, says)
  BY <1>1, <1>4, EndsOne
<1>6. Ended("client", r, c.n, c.complete, says)
  BY <1>2, <1>5
<1>7. OwnStep("client", s, r) /\ out' = out
  BY <1>5 DEF OwnStep, Queues
<1>8. c.complete => c.in # <<>> /\ Head(c.in) = C(s)
  BY <1>3
<1>9. c.pc \in {"resp", "start", "recv"}
  BY <1>2
<1> QED
  BY <1>1, <1>2, <1>6, <1>7, <1>8, <1>9, ClientEndStepped

LEMMA FailStep ==
    ASSUME IInv, NEW s \in Streams, Alive("client"), Fail(s)
    PROVE  Stepped
<1> USE SideFacts
<1>1. Types
  BY DEF IInv
<1>2. PICK c : c = strm["client"][s]
  OBVIOUS
<1>3. /\ c.pc \in {"resp", "start", "recv"} /\ UNCHANGED <<loop, out, wire, close, conn>>
      /\ fails' = fails + 1 /\ fails < MaxFails /\ fails \in 0 .. MaxFails
  BY <1>1, <1>2 DEF Fail, Receives, Types
<1>4. fails' \in 0 .. MaxFails
  BY <1>3, NumsAssumption
<1>5. c \in StreamRec(s)
  BY <1>1, <1>2, StrmFacts
<1>6. PICK st : st = Took("client", s)
  OBVIOUS
<1>7. st.n = c.n /\ st.complete = c.complete
  BY <1>2, <1>5, <1>6 DEF Took, StreamRec
<1>8. EndStream("client", s, st, "Close")
  BY <1>6 DEF Fail
<1> QED
  BY <1>2, <1>3, <1>4, <1>7, <1>8, ClientQuits

LEMMA AbandonClient ==
    ASSUME IInv, NEW s \in Streams, Alive("client"), Abandon("client", s)
    PROVE  Stepped
<1>1. Types
  BY DEF IInv
<1>2. PICK c : c = strm["client"][s]
  OBVIOUS
<1>3. /\ c.pc \in {"resp", "recv", "req", "wait"}
      /\ UNCHANGED <<loop, out, wire, close, conn, fails>> /\ fails \in 0 .. MaxFails
      /\ EndStream("client", s, c, "nothing")
  BY <1>1, <1>2 DEF Abandon, Types
<1>4. CASE c.pc \in {"resp", "recv"}
  <2>1. c.pc \in {"resp", "start", "recv"} /\ fails' \in 0 .. MaxFails
    BY <1>3, <1>4
  <2> QED
    BY <1>2, <1>3, <2>1, ClientQuits
<1>5. c.pc \notin {"req", "wait"}
  <2>1. ClientOK(View(s)) /\ View(s).cl = c
    BY <1>2, ViewFacts DEF IInv, Good
  <2> QED
    BY <2>1 DEF ClientOK
<1> QED
  BY <1>3, <1>4, <1>5

LEMMA RecvCloseStep ==
    ASSUME IInv, NEW s \in Streams, Alive("client"), RecvClose(s)
    PROVE  Stepped
<1> USE SideFacts
<1>1. Types
  BY DEF IInv
<1>2. PICK c : c = strm["client"][s]
  OBVIOUS
<1>3. UNCHANGED <<loop, out, wire, close, conn, fails>> /\ fails \in 0 .. MaxFails
  BY <1>1 DEF RecvClose, Types
<1>4. PICK pc \in {"resp", "recv"}, type \in {"Close", "Complete"} :
         /\ Receives("client", s, pc, type)
         /\ EndStream("client", s, [Took("client", s) EXCEPT
                !.complete = pc = "recv" /\ type = "Complete"], "nothing")
  BY DEF RecvClose
<1>5. c.pc = pc /\ c.in # <<>> /\ Head(c.in).type = type
  BY <1>2, <1>4 DEF Receives
<1>6. c \in StreamRec(s) /\ c.n \in 0 .. NumData
  BY <1>1, <1>2, StrmFacts
<1>7. PICK complete \in BOOLEAN : complete = (pc = "recv" /\ type = "Complete")
  OBVIOUS
<1>8. PICK st : st = [Took("client", s) EXCEPT !.complete = complete]
  OBVIOUS
<1>9. st.n = c.n /\ st.complete = complete
  BY <1>2, <1>6, <1>8 DEF Took, StreamRec
<1>10. EndStream("client", s, st, "nothing")
  BY <1>4, <1>7, <1>8
<1>11. PICK r \in Strm(s) : /\ strm' = [strm EXCEPT !["client"][s] = r]
                            /\ Ended("client", r, st.n, st.complete, "nothing")
  BY <1>1, <1>6, <1>9, <1>10, EndsOne
<1>12. Ended("client", r, c.n, complete, "nothing")
  BY <1>9, <1>11
<1>13. OwnStep("client", s, r) /\ out' = out
  BY <1>3, <1>11 DEF OwnStep, Queues
<1>14. complete => c.in # <<>> /\ Head(c.in) = C(s)
  <2>1. Head(c.in).type = "Complete" <=> Head(c.in) = C(s)
    BY <1>1, <1>2, <1>5, HeadOf
  <2> QED
    BY <1>5, <1>7, <2>1
<1>15. c.pc \in {"resp", "start", "recv"}
  BY <1>5
<1> QED
  BY <1>1, <1>2, <1>12, <1>13, <1>14, <1>15, ClientEndStepped

\* SendCtrl queues its message and goes on, or ends the stream.
LEMMA StartTransmission ==
    ASSUME IInv, NEW s \in Streams, Alive("client"),
           SendCtrl("client", s, "start", "Start", "recv")
    PROVE  Stepped
<1> USE SideFacts
<1>1. Types
  BY DEF IInv
<1>2. PICK c \in Strm(s) : c = strm["client"][s]
  BY <1>1, StrmFacts
<1>3. /\ c.pc = "start" /\ UNCHANGED <<loop, wire, close, conn, fails>>
      /\ fails' \in 0 .. MaxFails
  BY <1>1, <1>2 DEF SendCtrl, Types
<1>4. Steady(s, c.in, c.in)
  BY <1>1, <1>2, StrmFacts, NothingLeft
<1>5. CASE Put("client", "ctrl", Msg("Start", s)) /\ Goto("client", s, "recv")
  <2>1. "recv" \in Pcs
    BY DEF Pcs
  <2>2. PICK r \in Strm(s) : Moved(c, r, "recv")
    BY <2>1, MovesOn
  <2>3. PICK m : m = Msg("Start", s)
    OBVIOUS
  <2>4. m \in Of(OutTypes("client", "ctrl"), {s}) /\ m.type = "Start"
    BY <2>3 DEF Msg, Of, OutTypes, CtrlTypes
  <2>5. ClientQueues(s, r) /\ Queues("client", s)
    BY <1>5, <2>2, <2>3, <2>4 DEF Moved, ClientQueues, Queues
  <2>6. strm' = [strm EXCEPT !["client"][s] = r]
    BY <1>2, <1>5, <2>2 DEF Goto, Moved
  <2>7. OwnStep("client", s, r)
    BY <1>3, <2>5, <2>6 DEF OwnStep
  <2>8. <<c.pc, r.pc>> \in Pairs
    BY <1>3, <2>2 DEF Pairs, Moved
  <2>9. /\ r.n = c.n /\ r.closed = c.closed /\ r.complete = c.complete /\ r.in = c.in
        /\ r.reg = (IF r.pc = "made" THEN TRUE ELSE c.reg)
    BY <2>2 DEF Moved
  <2> QED
    BY <1>1, <1>2, <1>4, <2>5, <2>7, <2>8, <2>9, ClientMoveStepped
<1>6. CASE EndStream("client", s, c, "nothing") /\ out' = out
  <2>1. c.pc \in {"resp", "start", "recv"}
    BY <1>3
  <2> QED
    BY <1>2, <1>3, <1>6, <2>1, ClientQuits
<1> QED
  BY <1>2, <1>5, <1>6 DEF SendCtrl

\* The message with which the client's stream ends.
LEMMA TellClient ==
    ASSUME Types, NEW s \in Streams, Alive("client"), Tell("client", s)
    PROVE  Stepped
<1> USE SideFacts
<1>1. PICK c \in Strm(s) : c = strm["client"][s]
  BY StrmFacts
<1>2. /\ c.pc = "tell" /\ UNCHANGED <<loop, wire, close, conn, fails>>
      /\ fails' \in 0 .. MaxFails /\ Goto("client", s, c.after)
      /\ Put("client", "data", Msg(c.says, s)) \/ out' = out
  BY <1>1 DEF Tell, Types, CloseQueue
<1>3. Steady(s, c.in, c.in)
  BY <1>1, StrmFacts, NothingLeft
<1>4. c.after \in {"close", "done"} /\ c.says \in {"Close", "Complete"}
  BY <1>2 DEF Strm, StreamRec
<1>5. c.after \in Pcs
  BY <1>4 DEF Pcs
<1>6. PICK r \in Strm(s) : Moved(c, r, c.after)
  BY <1>5, MovesOn
<1>7. PICK m : m = Msg(c.says, s)
  OBVIOUS
<1>8. m \in Of(OutTypes("client", "data"), {s})
  BY <1>4, <1>7 DEF Msg, Of, OutTypes, DataTypes
<1>9. ClientQueues(s, r) /\ Queues("client", s)
  BY <1>2, <1>7, <1>8 DEF ClientQueues, Queues
<1>10. strm' = [strm EXCEPT !["client"][s] = r]
  BY <1>1, <1>2, <1>6 DEF Goto, Moved
<1>11. OwnStep("client", s, r)
  BY <1>2, <1>9, <1>10 DEF OwnStep
<1>12. <<c.pc, r.pc>> \in Pairs
  BY <1>2, <1>4, <1>6 DEF Pairs, Moved
<1>13. /\ r.n = c.n /\ r.closed = c.closed /\ r.complete = c.complete /\ r.in = c.in
       /\ r.reg = (IF r.pc = "made" THEN TRUE ELSE c.reg)
  BY <1>4, <1>6 DEF Moved
<1> QED
  BY <1>1, <1>3, <1>9, <1>11, <1>12, <1>13, ClientMoveStepped

\* A stream of the server's ends.
LEMMA ServerQuits ==
    ASSUME IInv, NEW s \in Streams, Alive("server"), NEW st,
           NEW says \in {"nothing", "Close", "Complete"}, NEW c, c = strm["server"][s],
           c.pc \notin {"idle", "done"}, st.n = c.n, st.complete = c.complete,
           says = "Complete" => c.n = NumData,
           EndStream("server", s, st, says), UNCHANGED <<loop, out, wire, close, conn>>,
           fails' = fails
    PROVE  Stepped
<1> USE SideFacts
<1>1. Types /\ fails' \in 0 .. MaxFails
  BY DEF IInv, Types
<1>2. /\ c.n \in 0 .. NumData /\ c.complete \in BOOLEAN
      /\ c.in \in Seq(Of(AllTypes, {s}))
  BY <1>1, StrmFacts
<1>3. st.n \in 0 .. NumData /\ st.complete \in BOOLEAN
  BY <1>2
<1>4. PICK r \in Strm(s) : /\ strm' = [strm EXCEPT !["server"][s] = r]
                           /\ Ended("server", r, st.n, st.complete, says)
  BY <1>1, <1>3, EndsOne
<1>5. /\ r.n = c.n /\ r.in = <<>> /\ r.says = says /\ r.after = "done"
      /\ r.pc \in {"tell", "close", "done"}
  BY <1>4 DEF Ended
<1>6. OwnStep("server", s, r) /\ out' = out
  BY <1>1, <1>4 DEF OwnStep, Queues
<1>7. Num(r.in, Msg("Start", s)) <= Num(c.in, Msg("Start", s))
  <2>1. Num(c.in, Msg("Start", s)) \in Nat /\ Num(<<>>, Msg("Start", s)) = 0
    BY <1>2, NumType
  <2> QED
    BY <1>5, <2>1
<1>8. /\ r.pc # "idle" /\ r.pc # "send"
      /\ r.pc = "tell" /\ r.says = "Complete" => c.n = NumData
  BY <1>5
<1> QED
  BY <1>1, <1>5, <1>6, <1>7, <1>8, ServerMoveStepped

LEMMA AbandonServer ==
    ASSUME IInv, NEW s \in Streams, Alive("server"), Abandon("server", s)
    PROVE  Stepped
<1>1. PICK c : c = strm["server"][s]
  OBVIOUS
<1>2. /\ c.pc \notin {"idle", "done"}
      /\ UNCHANGED <<loop, out, wire, close, conn, fails>>
      /\ EndStream("server", s, c, "nothing")
  BY <1>1 DEF Abandon
<1> QED
  BY <1>1, <1>2, ServerQuits

\* What the server's stream is after the last message it sends.
LEMMA ServerAfter ==
    ASSUME IInv, NEW s \in Streams
    PROVE  /\ strm["server"][s].after = "done"
           /\ strm["server"][s].pc = "tell" /\ strm["server"][s].says = "Complete"
                 => strm["server"][s].n = NumData
<1>1. ServerOK(s, View(s)) /\ View(s).sv = strm["server"][s]
  BY ViewFacts DEF IInv, Good
<1> QED
  BY <1>1 DEF ServerOK

LEMMA StartServer ==
    ASSUME IInv, NEW s \in Streams, Alive("server"), Start("server", s)
    PROVE  Stepped
<1> USE SideFacts
<1>1. Types
  BY DEF IInv
<1>2. PICK c \in Strm(s) : c = strm["server"][s]
  BY <1>1, StrmFacts
<1>3. /\ c.pc = "made" /\ UNCHANGED <<loop, out, wire, close, conn, fails>>
      /\ fails' \in 0 .. MaxFails
  BY <1>1, <1>2 DEF Start, Types
<1>4. "req" \in Pcs
  BY DEF Pcs
<1>5. PICK r \in Strm(s) : Moved(c, r, "req")
  BY <1>4, MovesOn
<1>6. strm' = [strm EXCEPT !["server"][s] = r]
  BY <1>2, <1>5 DEF Start, Goto, Moved
<1>7. OwnStep("server", s, r) /\ out' = out
  BY <1>3, <1>6 DEF OwnStep, Queues
<1>8. Num(r.in, Msg("Start", s)) <= Num(c.in, Msg("Start", s))
  <2>1. c.in \in Seq(Of(AllTypes, {s})) /\ r.in = c.in
    BY <1>1, <1>2, <1>5, StrmFacts DEF Moved
  <2>2. Num(c.in, Msg("Start", s)) \in Nat
    BY <2>1, NumType
  <2> QED
    BY <2>1, <2>2
<1>9. r.n = c.n /\ r.after = "done" /\ r.pc = "req" /\ c.pc \notin {"idle", "done"}
  BY <1>2, <1>3, <1>5, ServerAfter DEF Moved
<1>10. r.pc # "idle" /\ r.pc # "send" /\ r.pc # "tell"
  BY <1>9
<1> QED
  BY <1>1, <1>2, <1>7, <1>8, <1>9, <1>10, ServerMoveStepped

LEMMA RecvFileReqStep ==
    ASSUME IInv, NEW s \in Streams, Alive("server"), RecvFileReq(s)
    PROVE  Stepped
<1> USE SideFacts
<1>1. Types
  BY DEF IInv
<1>2. PICK c \in Strm(s) : c = strm["server"][s]
  BY <1>1, StrmFacts
<1>3. /\ c.pc = "req" /\ c.in # <<>> /\ UNCHANGED <<loop, out, wire, close, conn, fails>>
      /\ fails' \in 0 .. MaxFails
  BY <1>1, <1>2 DEF RecvFileReq, Receives, Types
<1>4. c \in StreamRec(s) /\ c.n \in 0 .. NumData
  BY <1>1, <1>2, StrmFacts
<1>5. CASE strm' = [strm EXCEPT !["server"][s] = [Took("server", s) EXCEPT !.pc = "reply"]]
  <2>1. "reply" \in Pcs
    BY DEF Pcs
  <2>2. PICK r \in Strm(s) : Taken(s, c, r, "reply", c.n)
    BY <1>3, <1>4, <2>1, TakesOne
  <2>3. r = [[c EXCEPT !.in = Tail(@)] EXCEPT !.pc = "reply"]
    <3>1. r = [c EXCEPT !.in = Tail(c.in), !.pc = "reply", !.n = c.n]
      BY <2>2 DEF Taken
    <3> QED
      BY <1>4, <3>1 DEF StreamRec
  <2>4. strm' = [strm EXCEPT !["server"][s] = r]
    BY <1>2, <1>5, <2>3 DEF Took
  <2>5. OwnStep("server", s, r) /\ out' = out
    BY <1>3, <2>4 DEF OwnStep, Queues
  <2>6. Num(r.in, Msg("Start", s)) <= Num(c.in, Msg("Start", s))
    <3>1. Num(Tail(c.in), Msg("Start", s)) <= Num(c.in, Msg("Start", s))
      BY <1>1, <1>2, <1>3, HeadOf
    <3> QED
      BY <2>2, <3>1 DEF Taken
  <2>7. r.n = c.n /\ r.after = "done" /\ r.pc = "reply" /\ c.pc \notin {"idle", "done"}
    BY <1>2, <1>3, <2>2, ServerAfter DEF Taken
  <2>8. r.pc # "idle" /\ r.pc # "send" /\ r.pc # "tell"
    BY <2>7
  <2> QED
    BY <1>1, <1>2, <2>5, <2>6, <2>7, <2>8, ServerMoveStepped
<1>6. CASE EndStream("server", s, Took("server", s), "Close")
  <2>1. PICK st : st = Took("server", s)
    OBVIOUS
  <2>2. st.n = c.n /\ st.complete = c.complete
    BY <1>2, <1>4, <2>1 DEF Took, StreamRec
  <2>3. EndStream("server", s, st, "Close") /\ c.pc \notin {"idle", "done"}
    BY <1>3, <1>6, <2>1
  <2> QED
    BY <1>2, <1>3, <2>2, <2>3, ServerQuits
<1> QED
  BY <1>5, <1>6 DEF RecvFileReq

LEMMA RecvStartStep ==
    ASSUME IInv, NEW s \in Streams, Alive("server"), RecvStart(s)
    PROVE  Stepped
<1> USE SideFacts
<1>1. Types
  BY DEF IInv
<1>2. PICK c \in Strm(s) : c = strm["server"][s]
  BY <1>1, StrmFacts
<1>3. /\ c.pc = "wait" /\ c.in # <<>> /\ UNCHANGED <<loop, out, wire, close, conn, fails>>
      /\ fails' \in 0 .. MaxFails
  BY <1>1, <1>2 DEF RecvStart, Types
<1>4. c \in StreamRec(s) /\ c.n \in 0 .. NumData
  BY <1>1, <1>2, StrmFacts
<1>5. CASE Head(c.in).type = "Start"
  <2>1. "send" \in Pcs
    BY DEF Pcs
  <2>2. PICK r \in Strm(s) : Taken(s, c, r, "send", c.n)
    BY <1>3, <1>4, <2>1, TakesOne
  <2>3. r = [[c EXCEPT !.in = Tail(@)] EXCEPT !.pc = "send"]
    <3>1. r = [c EXCEPT !.in = Tail(c.in), !.pc = "send", !.n = c.n]
      BY <2>2 DEF Taken
    <3> QED
      BY <1>4, <3>1 DEF StreamRec
  <2>4. strm' = [strm EXCEPT !["server"][s] = r]
    BY <1>2, <1>5, <2>3 DEF RecvStart, Took
  <2>5. OwnStep("server", s, r) /\ out' = out
    BY <1>3, <2>4 DEF OwnStep, Queues
  <2>6. /\ Num(Tail(c.in), Msg("Start", s)) <= Num(c.in, Msg("Start", s))
        /\ Num(c.in, Msg("Start", s)) > 0
    BY <1>1, <1>2, <1>3, <1>5, HeadOf
  <2>7. /\ Num(r.in, Msg("Start", s)) <= Num(c.in, Msg("Start", s))
        /\ r.n = c.n /\ r.after = "done" /\ r.pc = "send" /\ c.pc \notin {"idle", "done"}
    BY <1>2, <1>3, <2>2, <2>6, ServerAfter DEF Taken
  <2>8. r.pc # "idle" /\ r.pc # "tell"
    BY <2>7
  <2> QED
    BY <1>1, <1>2, <2>5, <2>6, <2>7, <2>8, ServerMoveStepped
<1>6. CASE Head(c.in).type # "Start"
  <2>1. PICK st : st = Took("server", s)
    OBVIOUS
  <2>2. st.n = c.n /\ st.complete = c.complete
    BY <1>2, <1>4, <2>1 DEF Took, StreamRec
  <2>3. EndStream("server", s, st, "nothing") /\ c.pc \notin {"idle", "done"}
    BY <1>2, <1>3, <1>6, <2>1 DEF RecvStart
  <2> QED
    BY <1>2, <1>3, <2>2, <2>3, ServerQuits
<1> QED
  BY <1>5, <1>6

LEMMA ReplyStep ==
    ASSUME IInv, NEW s \in Streams, Alive("server"),
           SendCtrl("server", s, "reply", "FileResp", "wait")
    PROVE  Stepped
<1> USE SideFacts
<1>1. Types
  BY DEF IInv
<1>2. PICK c \in Strm(s) : c = strm["server"][s]
  BY <1>1, StrmFacts
<1>3. /\ c.pc = "reply" /\ UNCHANGED <<loop, wire, close, conn, fails>>
      /\ fails' \in 0 .. MaxFails
  BY <1>1, <1>2 DEF SendCtrl, Types
<1>4. CASE Put("server", "ctrl", Msg("FileResp", s)) /\ Goto("server", s, "wait")
  <2>1. "wait" \in Pcs
    BY DEF Pcs
  <2>2. PICK r \in Strm(s) : Moved(c, r, "wait")
    BY <2>1, MovesOn
  <2>3. PICK m : m = Msg("FileResp", s)
    OBVIOUS
  <2>4. m \in Of(OutTypes("server", "ctrl"), {s})
    BY <2>3 DEF Msg, Of, OutTypes, CtrlTypes
  <2>5. Queues("server", s) /\ \E n \in Of(OutTypes("server", "ctrl"), {s}) : Put("server", "ctrl", n)
    BY <1>4, <2>3, <2>4 DEF Queues
  <2>6. strm' = [strm EXCEPT !["server"][s] = r]
    BY <1>2, <1>4, <2>2 DEF Goto, Moved
  <2>7. OwnStep("server", s, r)
    BY <1>3, <2>5, <2>6 DEF OwnStep
  <2>8. /\ r.in = c.in /\ r.n = c.n /\ r.after = "done" /\ r.pc = "wait"
        /\ c.pc \notin {"idle", "done"}
    BY <1>2, <1>3, <2>2, ServerAfter DEF Moved
  <2>9. r.pc # "idle" /\ r.pc # "send" /\ r.pc # "tell"
    BY <2>8
  <2> QED
    BY <1>1, <1>2, <2>5, <2>7, <2>8, <2>9, ServerMoveStepped
<1>5. CASE EndStream("server", s, c, "nothing") /\ out' = out
  <2>1. c.pc \notin {"idle", "done"}
    BY <1>3
  <2> QED
    BY <1>2, <1>3, <1>5, <2>1, ServerQuits
<1> QED
  BY <1>2, <1>4, <1>5 DEF SendCtrl

LEMMA SendDataStep ==
    ASSUME IInv, NEW s \in Streams, Alive("server"), SendData(s)
    PROVE  Stepped
<1> USE SideFacts
<1>1. Types
  BY DEF IInv
<1>2. PICK c \in Strm(s) : c = strm["server"][s]
  BY <1>1, StrmFacts
<1>3. /\ c.pc = "send" /\ UNCHANGED <<loop, wire, close, conn, fails>>
      /\ fails' \in 0 .. MaxFails
  BY <1>1, <1>2 DEF SendData, Types
<1>4. c \in StreamRec(s) /\ c.n \in 0 .. NumData
  BY <1>1, <1>2, StrmFacts
<1>5. CASE /\ c.n < NumData /\ Put("server", "data", Msg("Data", s))
           /\ strm' = [strm EXCEPT !["server"][s].n = @ + 1]
  <2>1. PICK r : r = [c EXCEPT !.n = c.n + 1]
    OBVIOUS
  <2>2. /\ r.pc = c.pc /\ r.in = c.in /\ r.n = c.n + 1 /\ r.says = c.says
        /\ r.after = c.after
    BY <1>4, <2>1 DEF StreamRec
  <2>3. c.n + 1 \in 0 .. NumData
    BY <1>4, <1>5, NumsAssumption
  <2>4. r \in StreamRec(s)
    BY <1>4, <2>1, <2>3 DEF StreamRec
  <2>5. r \in Strm(s)
    BY <2>2, <2>4 DEF Strm
  <2>6. strm' = [strm EXCEPT !["server"][s] = r]
    BY <1>2, <1>5, <2>1
  <2>7. Put("server", "data", D(s)) /\ D(s) \in Of(OutTypes("server", "data"), {s})
    BY <1>5 DEF D, Msg, Of, OutTypes, DataTypes
  <2>8. OwnStep("server", s, r)
    BY <1>3, <2>6, <2>7 DEF OwnStep, Queues
  <2>9. PICK y : y = View(s)
    OBVIOUS
  <2>10. PICK z : z = View(s)'
    OBVIOUS
  <2>11. y \in Views(s) /\ z \in Views(s) /\ Own("server", y, z, r) /\ y.sv = c /\ y.svUp
    BY <1>1, <1>2, <2>5, <2>8, <2>9, <2>10, OwnViews
  <2>12. Puts("server", s, y, z, "data", D(s))
    BY <1>1, <2>5, <2>7, <2>8, <2>9, <2>10, OwnStepPuts
  <2>13. /\ SameSides(y, z) /\ z.cl = y.cl /\ z.sv = r /\ z.wire = y.wire /\ z.pass = y.pass
         /\ z.asked = y.asked /\ z.started = y.started /\ z.out = Append(y.out, D(s))
    BY <2>2, <2>11, <2>12, ServerPuts
  <2>14. SendsData(s, y, z)
    BY <1>3, <2>2, <2>11, <2>13 DEF SendsData
  <2>15. ViewStep(s, View(s), View(s)')
    BY <2>9, <2>10, <2>14 DEF ViewStep
  <2> QED
    BY <1>1, <2>5, <2>8, <2>15, OwnStepped
<1>6. ASSUME NEW says \in {"nothing", "Complete"}, EndStream("server", s, c, says), out' = out,
             says = "Complete" => c.n = NumData
      PROVE  Stepped
  <2>1. c.pc \notin {"idle", "done"}
    BY <1>3
  <2> QED
    BY <1>2, <1>3, <1>6, <2>1, ServerQuits
<1> QED
  BY <1>2, <1>5, <1>6 DEF SendData

LEMMA TellServer ==
    ASSUME IInv, NEW s \in Streams, Alive("server"), Tell("server", s)
    PROVE  Stepped
<1> USE SideFacts
<1>1. Types
  BY DEF IInv
<1>2. PICK c \in Strm(s) : c = strm["server"][s]
  BY <1>1, StrmFacts
<1>3. /\ c.pc = "tell" /\ UNCHANGED <<loop, wire, close, conn, fails>>
      /\ fails' \in 0 .. MaxFails /\ Goto("server", s, c.after)
      /\ Put("server", "data", Msg(c.says, s)) \/ out' = out
  BY <1>1, <1>2 DEF Tell, Types, CloseQueue
<1>4. c.after = "done" /\ c.says \in {"Close", "Complete"}
  BY <1>2, <1>3, ServerAfter DEF Strm, StreamRec
<1>5. "done" \in Pcs
  BY DEF Pcs
<1>6. PICK r \in Strm(s) : Moved(c, r, "done")
  BY <1>5, MovesOn
<1>7. strm' = [strm EXCEPT !["server"][s] = r]
  BY <1>2, <1>3, <1>4, <1>6 DEF Goto, Moved
<1>8. r.in = c.in /\ r.n = c.n /\ r.after = "done" /\ r.pc = "done"
  BY <1>4, <1>6 DEF Moved
<1>9. CASE Put("server", "data", Msg(c.says, s))
  <2>1. PICK m : m = Msg(c.says, s)
    OBVIOUS
  <2>2. /\ m \in Of(OutTypes("server", "data"), {s}) /\ m \in Of(DataTypes, {s})
        /\ m # D(s) /\ (m = C(s) => c.says = "Complete")
    BY <1>4, <2>1, MsgFacts DEF Msg, Of, OutTypes, DataTypes, D, C
  <2>3. Put("server", "data", m)
    BY <1>9, <2>1
  <2>4. OwnStep("server", s, r)
    BY <1>3, <1>7, <2>2, <2>3 DEF OwnStep, Queues
  <2>5. PICK y : y = View(s)
    OBVIOUS
  <2>6. PICK z : z = View(s)'
    OBVIOUS
  <2>7. y \in Views(s) /\ z \in Views(s) /\ Own("server", y, z, r) /\ y.sv = c /\ y.svUp
    BY <1>1, <1>2, <2>4, <2>5, <2>6, OwnViews
  <2>8. Puts("server", s, y, z, "data", m)
    BY <1>1, <2>2, <2>3, <2>4, <2>5, <2>6, OwnStepPuts
  <2>9. /\ SameSides(y, z) /\ z.cl = y.cl /\ z.sv = r /\ z.wire = y.wire /\ z.pass = y.pass
        /\ z.asked = y.asked /\ z.started = y.started /\ z.out = Append(y.out, m)
    BY <1>8, <2>7, <2>8, ServerPuts
  <2>10. SendsEnd(s, y, z)
    BY <1>3, <1>8, <2>2, <2>7, <2>9 DEF SendsEnd
  <2>11. ViewStep(s, View(s), View(s)')
    BY <2>5, <2>6, <2>10 DEF ViewStep
  <2> QED
    BY <1>1, <2>4, <2>11, OwnStepped
<1>10. CASE out' = out
  <2>1. OwnStep("server", s, r)
    BY <1>3, <1>7, <1>10 DEF OwnStep, Queues
  <2>2. Num(r.in, Msg("Start", s)) <= Num(c.in, Msg("Start", s))
    <3>1. c.in \in Seq(Of(AllTypes, {s}))
      BY <1>1, <1>2, StrmFacts
    <3>2. Num(c.in, Msg("Start", s)) \in Nat
      BY <3>1, NumType
    <3> QED
      BY <1>8, <3>2
  <2>3. c.pc \notin {"idle", "done"} /\ r.pc # "idle" /\ r.pc # "send" /\ r.pc # "tell"
    BY <1>3, <1>8
  <2> QED
    BY <1>1, <1>2, <1>8, <1>10, <2>1, <2>2, <2>3, ServerMoveStepped
<1> QED
  BY <1>3, <1>9, <1>10

LEMMA StreamStepped ==
    ASSUME IInv, NEW x \in Sides, NEW s \in Streams, Alive(x), StreamStep(x, s)
    PROVE  Stepped
<1>1. Types
  BY DEF IInv
<1>2. CASE x = "client"
  <2>1. CASE Start(x, s)
    BY <1>1, <1>2, <2>1, StartClient
  <2>2. CASE Abandon(x, s)
    BY <1>2, <2>2, AbandonClient
  <2>3. CASE Tell(x, s)
    BY <1>1, <1>2, <2>3, TellClient
  <2>4. CASE Register(s)
    BY <1>1, <1>2, <2>4, RegisterStep
  <2>5. CASE RecvFileResp(s)
    BY <1>1, <1>2, <2>5, RecvFileRespStep
  <2>6. CASE RecvData(s)
    BY <1>2, <2>6, RecvDataStep
  <2>7. CASE RecvClose(s)
    BY <1>2, <2>7, RecvCloseStep
  <2>8. CASE SendCtrl("client", s, "start", "Start", "recv")
    BY <1>2, <2>8, StartTransmission
  <2> QED
    BY <1>2, <2>1, <2>2, <2>3, <2>4, <2>5, <2>6, <2>7, <2>8 DEF StreamStep, ClientStream
<1>3. CASE x = "server"
  <2>1. CASE Start(x, s)
    BY <1>3, <2>1, StartServer
  <2>2. CASE Abandon(x, s)
    BY <1>3, <2>2, AbandonServer
  <2>3. CASE Tell(x, s)
    BY <1>3, <2>3, TellServer
  <2>4. CASE RecvFileReq(s)
    BY <1>3, <2>4, RecvFileReqStep
  <2>5. CASE RecvStart(s)
    BY <1>3, <2>5, RecvStartStep
  <2>6. CASE SendData(s)
    BY <1>3, <2>6, SendDataStep
  <2>7. CASE SendCtrl("server", s, "reply", "FileResp", "wait")
    BY <1>3, <2>7, ReplyStep
  <2> QED
    BY <1>3, <2>1, <2>2, <2>3, <2>4, <2>5, <2>6, <2>7 DEF StreamStep, ServerStream
<1> QED
  BY <1>2, <1>3, SideFacts

-----------------------------------------------------------------------------
(* The steps of no stream. *)

QuietConn == \A x \in Sides : /\ conn'[x].crashed = conn[x].crashed
                              /\ conn'[x].btp = "up" => conn[x].btp = "up"

\* When a step is none of a stream's.
LEMMA RestsWhen ==
    ASSUME Types, Types', QuietConn, NEW s \in Streams,
           strm'["client"][s] = strm["client"][s],
           SameServer(View(s), View(s)'),
           Steady(s, out["server"].data, out'["server"].data),
           Steady(s, wire["server"], wire'["server"]),
           Steady(s, Passing("client"), Passing("client")'),
           Asked(s)' <= Asked(s), Started(s)' <= Started(s)
    PROVE  ViewStep(s, View(s), View(s)')
<1> USE SideFacts
<1>1. View(s)'.cl = View(s).cl
  BY DEF View
<1>2. SameSides(View(s), View(s)')
  <2>1. View(s)'.clUp = View(s).clUp /\ View(s)'.svUp = View(s).svUp
    BY DEF View, Alive, QuietConn
  <2>2. View(s)'.up => View(s).up
    BY DEF View, QuietConn
  <2> QED
    BY <2>1, <2>2 DEF SameSides
<1>3. /\ View(s).asked = Asked(s) /\ View(s).started = Started(s)
      /\ View(s)'.asked = Asked(s)' /\ View(s)'.started = Started(s)'
  BY DEF View
<1>4. View(s) \in Views(s) /\ View(s)' \in Views(s)
  BY ViewType, ViewTypeNext
<1>5. View(s).started \in Nat /\ View(s).asked \in Nat
  BY <1>4, Numbers
<1>6. View(s)'.started \in Nat /\ View(s)'.asked \in Nat
  BY <1>4, Numbers
<1>7. FewerAsked(View(s), View(s)')
  BY <1>3, <1>5, <1>6 DEF FewerAsked
<1>8. /\ Steady(s, View(s).out, View(s)'.out) /\ Steady(s, View(s).wire, View(s)'.wire)
      /\ Steady(s, View(s).pass, View(s)'.pass)
  BY DEF View
<1>9. Rests(s, View(s), View(s)')
  BY <1>1, <1>2, <1>7, <1>8 DEF Rests
<1> QED
  BY <1>9 DEF ViewStep

\* Nothing but the state of the connection and of those who close it changes.
LEMMA ConnStepped ==
    ASSUME Types, UNCHANGED <<strm, loop, out, wire, fails>>, QuietConn, ConnOK', CloseOK'
    PROVE  Stepped
<1> USE SideFacts
<1>1. Types'
  BY TypesKept DEF Types
<1>2. ASSUME NEW s \in Streams
      PROVE  ViewStep(s, View(s), View(s)')
  <2>1. Passing("client")' = Passing("client") /\ Passing("server")' = Passing("server")
    BY DEF Passing
  <2>2. Asked(s)' = Asked(s) /\ Started(s)' = Started(s)
    BY <2>1 DEF Asked, Started
  <2>3. View(s) \in Views(s)
    BY ViewType
  <2>4. Asked(s) \in Nat /\ Started(s) \in Nat
    <3>1. View(s).asked = Asked(s) /\ View(s).started = Started(s)
      BY DEF View
    <3>2. View(s).asked \in Nat /\ View(s).started \in Nat
      BY <2>3, Numbers
    <3> QED
      BY <3>1, <3>2
  <2>5. Asked(s)' <= Asked(s) /\ Started(s)' <= Started(s)
    BY <2>2, <2>4
  <2>6. /\ Steady(s, out["server"].data, out'["server"].data)
        /\ Steady(s, wire["server"], wire'["server"])
        /\ Steady(s, Passing("client"), Passing("client")')
    BY <2>1 DEF Steady
  <2>7. SameServer(View(s), View(s)')
    BY DEF SameServer, View
  <2>8. strm'["client"][s] = strm["client"][s]
    OBVIOUS
  <2> QED
    BY <1>1, <2>5, <2>6, <2>7, <2>8, RestsWhen
<1> QED
  BY <1>1, <1>2 DEF Stepped

\* The process ends at one side.
LEMMA CrashTypes ==
    ASSUME Types, NEW x \in Sides, Crash(x), WireOK'
    PROVE  Types'
<1>1. StrmOK'
  <2>1. ASSUME NEW s \in Streams
        PROVE  NoStream \in Strm(s)
    <3>1. NoStream \in StreamRec(s)
      BY NumsAssumption DEF NoStream, StreamRec
    <3>2. Len(NoStream.in) <= InCap /\ NoStream.pc # "tell"
      BY CapsAssumption DEF NoStream
    <3> QED
      BY <3>1, <3>2 DEF Strm
  <2>2. StrmOK /\ strm' = [strm EXCEPT ![x] = NoStreams]
    BY DEF Types, Crash
  <2>3. DOMAIN strm' = Sides
    BY <2>2 DEF StrmOK
  <2>4. ASSUME NEW y \in Sides
        PROVE  DOMAIN strm'[y] = Streams /\ \A s \in Streams : strm'[y][s] \in Strm(s)
    <3>1. CASE y = x
      <4>1. strm'[y] = NoStreams
        BY <2>2, <3>1 DEF StrmOK
      <4> QED
        BY <2>1, <4>1 DEF NoStreams
    <3>2. CASE y # x
      <4>1. strm'[y] = strm[y]
        BY <2>2, <3>2 DEF StrmOK
      <4> QED
        BY <2>2, <4>1 DEF StrmOK
    <3> QED
      BY <3>1, <3>2
  <2> QED
    BY <2>3, <2>4 DEF StrmOK
<1>2. LoopOK'
  BY DEF Types, Crash, LoopOK, LoopRec, Reading
<1>3. OutOK'
  <2>1. OutOK /\ out' = [out EXCEPT ![x] = NoOut]
    BY DEF Types, Crash
  <2>2. NoOut \in OutRec(x) /\ Len(NoOut.ctrl) <= OutCap /\ Len(NoOut.data) <= OutCap
    BY CapsAssumption DEF NoOut, OutRec
  <2>3. \A y \in Sides : out'[y] = IF y = x THEN NoOut ELSE out[y]
    BY <2>1 DEF OutOK
  <2>4. DOMAIN out' = Sides
    BY <2>1 DEF OutOK
  <2> QED
    BY <2>1, <2>2, <2>3, <2>4 DEF OutOK
<1>4. CloseOK'
  BY DEF Types, Crash, CloseOK, NotClosed
<1>5. ConnOK'
  <2>1. ConnOK /\ conn' = [conn EXCEPT ![x] = [Open EXCEPT !.btp = "down", !.crashed = TRUE]]
    BY DEF Types, Crash
  <2>2. PICK d : d = [Open EXCEPT !.btp = "down", !.crashed = TRUE]
    OBVIOUS
  <2>3. d \in ConnRec /\ d.btp = "down"
    BY <2>2 DEF Open, ConnRec
  <2>4. conn' = [conn EXCEPT ![x] = d]
    BY <2>1, <2>2
  <2> QED
    BY <2>1, <2>3, <2>4 DEF ConnOK
<1>6. fails' \in 0 .. MaxFails
  BY DEF Types, Crash
<1> QED
  BY <1>1, <1>2, <1>3, <1>4, <1>5, <1>6 DEF Types

LEMMA CrashChanges ==
    ASSUME Types, NEW x \in Sides, Crash(x)
    PROVE  /\ \A s \in Streams : /\ strm'[x][s] = NoStream
                                 /\ \A y \in Sides \ {x} : strm'[y][s] = strm[y][s]
           /\ out'[x] = NoOut /\ \A y \in Sides \ {x} : out'[y] = out[y]
           /\ loop'[x] = Reading /\ \A y \in Sides \ {x} : loop'[y] = loop[y]
           /\ conn'[x].btp = "down" /\ conn'[x].crashed
           /\ \A y \in Sides \ {x} : conn'[y] = conn[y]
<1>1. /\ strm' = [strm EXCEPT ![x] = NoStreams] /\ DOMAIN strm = Sides
      /\ out' = [out EXCEPT ![x] = NoOut] /\ DOMAIN out = Sides
      /\ loop' = [loop EXCEPT ![x] = Reading] /\ DOMAIN loop = Sides
      /\ DOMAIN conn = Sides
  BY DEF Types, StrmOK, OutOK, LoopOK, ConnOK, Crash
<1>2. PICK d : d = [Open EXCEPT !.btp = "down", !.crashed = TRUE]
  OBVIOUS
<1>3. d.btp = "down" /\ d.crashed /\ conn' = [conn EXCEPT ![x] = d]
  BY <1>2 DEF Open, Crash
<1>4. conn'[x] = d /\ \A y \in Sides \ {x} : conn'[y] = conn[y]
  BY <1>1, <1>3
<1>5. \A s \in Streams : strm'[x][s] = NoStream
  BY <1>1 DEF NoStreams
<1>6. \A s \in Streams : \A y \in Sides \ {x} : strm'[y][s] = strm[y][s]
  BY <1>1
<1>7. /\ out'[x] = NoOut /\ \A y \in Sides \ {x} : out'[y] = out[y]
      /\ loop'[x] = Reading /\ \A y \in Sides \ {x} : loop'[y] = loop[y]
  BY <1>1
<1> QED
  BY <1>3, <1>4, <1>5, <1>6, <1>7

LEMMA CrashClient ==
    ASSUME Types, Crash("client"), wire' = wire
    PROVE  Stepped
<1> USE SideFacts
<1>1. Types'
  BY CrashTypes, TypesKept DEF Types
<1>2. /\ \A s \in Streams : /\ strm'["client"][s] = NoStream
                            /\ strm'["server"][s] = strm["server"][s]
      /\ out'["client"] = NoOut /\ out'["server"] = out["server"]
      /\ loop'["client"] = Reading /\ conn'["client"].btp = "down" /\ conn'["client"].crashed
      /\ conn'["server"] = conn["server"]
  BY CrashChanges
<1>3. ASSUME NEW s \in Streams
      PROVE  ViewStep(s, View(s), View(s)')
  <2>1. Asked(s)' <= Asked(s)
    <3>1. Asked(s)' = Num(NoOut.ctrl, Msg("FileReq", s)) + Num(wire["client"], Msg("FileReq", s))
      BY <1>2 DEF Asked
    <3>2. Num(NoOut.ctrl, Msg("FileReq", s)) = 0
      BY NumEmpty DEF NoOut
    <3>3. /\ Num(out["client"].ctrl, Msg("FileReq", s)) \in Nat
          /\ Num(wire["client"], Msg("FileReq", s)) \in Nat
      BY ControlCounts DEF Counts
    <3> QED
      BY <3>1, <3>2, <3>3 DEF Asked
  <2>2. Passing("client")' = <<>>
    BY <1>2 DEF Passing, Reading
  <2>3. /\ View(s)'.cl = NoStream /\ View(s)'.pass = <<>> /\ ~ View(s)'.clUp
        /\ View(s)'.sv = View(s).sv /\ View(s)'.svUp = View(s).svUp
        /\ View(s)'.out = View(s).out /\ View(s)'.wire = View(s).wire
    BY <1>2, <2>2 DEF View, Alive
  <2>4. ~ View(s)'.up
    BY <1>2 DEF View
  <2>5. View(s)'.asked <= View(s).asked
    BY <2>1 DEF View
  <2>6. ClientGone(View(s), View(s)')
    BY <2>3, <2>4, <2>5 DEF ClientGone
  <2> QED
    BY <2>6 DEF ViewStep
<1> QED
  BY <1>1, <1>3 DEF Stepped

LEMMA CrashServer ==
    ASSUME Types, Crash("server"), WireOK', wire'["server"] = wire["server"],
           \A s \in Streams : \A a : Num(wire'["client"], Msg(a, s)) <= Num(wire["client"], Msg(a, s))
    PROVE  Stepped
<1> USE SideFacts
<1>1. Types'
  BY CrashTypes
<1>2. /\ \A s \in Streams : /\ strm'["server"][s] = NoStream
                            /\ strm'["client"][s] = strm["client"][s]
      /\ out'["server"] = NoOut /\ out'["client"] = out["client"]
      /\ loop'["server"] = Reading /\ loop'["client"] = loop["client"]
      /\ conn'["server"].btp = "down" /\ conn'["server"].crashed
      /\ conn'["client"] = conn["client"]
  BY CrashChanges
<1>3. ASSUME NEW s \in Streams
      PROVE  ViewStep(s, View(s), View(s)')
  <2>1. \A a : Num(wire'["client"], Msg(a, s)) <= Num(wire["client"], Msg(a, s))
    OBVIOUS
  <2>2. \A a : /\ Num(out["client"].ctrl, Msg(a, s)) \in Nat
               /\ Num(wire["client"], Msg(a, s)) \in Nat
               /\ Num(Passing("server"), Msg(a, s)) \in Nat
               /\ Num(strm["server"][s].in, Msg(a, s)) \in Nat
    BY ControlCounts DEF Counts
  <2>3. \A a : Num(wire'["client"], Msg(a, s)) \in Nat
    BY <1>1, ControlCountsNext DEF Counts
  <2>4. Asked(s)' <= Asked(s)
    <3>1. Asked(s)' = Num(out["client"].ctrl, Msg("FileReq", s)) + Num(wire'["client"], Msg("FileReq", s))
      BY <1>2 DEF Asked
    <3> QED
      BY <2>1, <2>2, <2>3, <3>1 DEF Asked
  <2>5. Started(s)' <= Started(s)
    <3>1. PICK St : St = Msg("Start", s)
      OBVIOUS
    <3>2. Passing("server")' = <<>> /\ NoStream.in = <<>> /\ Num(<<>>, St) = 0
      BY <1>2, NumEmpty DEF Passing, Reading, NoStream
    <3>3. Started(s)' = Num(out["client"].ctrl, St) + Num(wire'["client"], St) + 0 + 0
      BY <1>2, <3>1, <3>2 DEF Started
    <3>4. /\ Num(wire'["client"], St) <= Num(wire["client"], St)
          /\ Num(wire'["client"], St) \in Nat /\ Num(wire["client"], St) \in Nat
          /\ Num(out["client"].ctrl, St) \in Nat
          /\ Num(Passing("server"), St) \in Nat /\ Num(strm["server"][s].in, St) \in Nat
      BY <2>1, <2>2, <2>3, <3>1
    <3>5. Started(s) = Num(out["client"].ctrl, St) + Num(wire["client"], St)
                         + Num(Passing("server"), St) + Num(strm["server"][s].in, St)
      BY <3>1 DEF Started
    <3> QED
      BY <3>3, <3>4, <3>5
  <2>6. Passing("client")' = Passing("client")
    BY <1>2 DEF Passing
  <2>7. /\ View(s)'.cl = View(s).cl /\ View(s)'.pass = View(s).pass
        /\ View(s)'.clUp = View(s).clUp /\ View(s)'.sv = NoStream /\ ~ View(s)'.svUp
        /\ View(s)'.out = <<>> /\ View(s)'.wire = View(s).wire
    <3>1. View(s)'.cl = View(s).cl /\ View(s)'.pass = View(s).pass
      BY <1>2, <2>6 DEF View
    <3>2. View(s)'.clUp = View(s).clUp /\ ~ View(s)'.svUp
      BY <1>2 DEF View, Alive
    <3>3. View(s)'.sv = NoStream /\ View(s)'.wire = View(s).wire
      BY <1>2 DEF View
    <3>4. View(s)'.out = <<>>
      BY <1>2 DEF View, NoOut
    <3> QED
      BY <3>1, <3>2, <3>3, <3>4
  <2>8. ~ View(s)'.up
    BY <1>2 DEF View
  <2>9. View(s) \in Views(s) /\ View(s)' \in Views(s)
    BY <1>1, ViewType, ViewTypeNext
  <2>10. FewerAsked(View(s), View(s)')
    <3>1. /\ View(s)'.asked <= View(s).asked /\ View(s)'.started <= View(s).started
      BY <2>4, <2>5 DEF View
    <3>2. View(s).started \in Nat
      BY <2>9, Numbers
    <3>3. View(s)'.started \in Nat
      BY <2>9, Numbers
    <3> QED
      BY <3>1, <3>2, <3>3 DEF FewerAsked
  <2>11. Fades(s, View(s).out, View(s)'.out)
    BY <2>7, <2>9, NothingLeft DEF Views
  <2>12. Loses(s, View(s), View(s)')
    BY <2>7, <2>8, <2>10, <2>11 DEF Loses
  <2> QED
    BY <2>12 DEF ViewStep
<1> QED
  BY <1>1, <1>3 DEF Stepped

LEMMA CrashStepped ==
    ASSUME Types, NEW x \in Sides, Crash(x), wire' = wire
    PROVE  Stepped
<1>1. CASE x = "client"
  BY <1>1, CrashClient
<1>2. CASE x = "server"
  <2>1. WireOK'
    BY TypesKept DEF Types
  <2>2. \A s \in Streams : \A a : Num(wire["client"], Msg(a, s)) \in Nat
    BY ControlCounts DEF Counts
  <2>3. \A s \in Streams : \A a : Num(wire'["client"], Msg(a, s)) <= Num(wire["client"], Msg(a, s))
    BY <2>2
  <2> QED
    BY <1>2, <2>1, <2>3, CrashServer
<1> QED
  BY <1>1, <1>2, SideFacts

-----------------------------------------------------------------------------
(* Close, and the connection below. *)

LEMMA CloseChecked ==
    ASSUME Types, NEW x \in Sides, NEW k \in Closers, CloseCheck(x, k)
    PROVE  Stepped
<1>1. CloseOK'
  BY DEF Types, CloseOK, CloseCheck
<1>2. ConnOK' /\ QuietConn /\ UNCHANGED <<strm, loop, out, wire, fails>>
  BY TypesKept DEF Types, CloseCheck, QuietConn
<1> QED
  BY <1>1, <1>2, ConnStepped

LEMMA AppClosed ==
    ASSUME Types, AppClose
    PROVE  Stepped
<1>1. CloseOK'
  BY DEF Types, CloseOK, AppClose
<1>2. ConnOK' /\ QuietConn /\ UNCHANGED <<strm, loop, out, wire, fails>>
  BY TypesKept DEF Types, AppClose, QuietConn
<1> QED
  BY <1>1, <1>2, ConnStepped

\* One side's part of the connection changes.
LEMMA ConnSet ==
    ASSUME ConnOK, NEW x \in Sides, NEW d \in ConnRec, conn' = [conn EXCEPT ![x] = d],
           d.crashed = conn[x].crashed, d.btp = "up" => conn[x].btp = "up"
    PROVE  ConnOK' /\ QuietConn
<1>1. conn \in [Sides -> ConnRec] /\ \A y \in Sides : conn[y].crashed => conn[y].btp # "up"
  BY DEF ConnOK
<1>2. \A y \in Sides : conn'[y] = IF y = x THEN d ELSE conn[y]
  BY <1>1
<1>3. conn' \in [Sides -> ConnRec]
  BY <1>1
<1>4. QuietConn
  BY <1>2 DEF QuietConn
<1>5. \A y \in Sides : conn'[y].crashed => conn'[y].btp # "up"
  BY <1>1, <1>2
<1> QED
  BY <1>3, <1>4, <1>5 DEF ConnOK

LEMMA CloseStopped ==
    ASSUME Types, NEW x \in Sides, NEW k \in Closers, CloseStop(x, k)
    PROVE  Stepped
<1>1. CASE conn[x].stop
  BY <1>1, CrashStepped DEF CloseStop
<1>2. CASE ~ conn[x].stop
  <2>1. CloseOK'
    BY <1>2 DEF Types, CloseOK, CloseStop
  <2>2. UNCHANGED <<strm, loop, out, wire, fails>> /\ conn' = [conn EXCEPT ![x].stop = TRUE]
    BY <1>2 DEF CloseStop
  <2>3. conn[x] \in ConnRec /\ ConnOK
    BY DEF Types, ConnOK
  <2>4. PICK d : d = [conn[x] EXCEPT !.stop = TRUE]
    OBVIOUS
  <2>5. d \in ConnRec /\ d.crashed = conn[x].crashed /\ d.btp = conn[x].btp
    BY <2>3, <2>4 DEF ConnRec
  <2>6. ConnOK' /\ QuietConn
    BY <2>2, <2>3, <2>4, <2>5, ConnSet
  <2> QED
    BY <2>1, <2>2, <2>6, ConnStepped
<1> QED
  BY <1>1, <1>2

LEMMA DownStepped ==
    ASSUME Types, NEW x \in Sides, GoDown(x) \/ GiveUp(x) \/ Block(x) \/ StopSending(x)
    PROVE  Stepped
<1>1. conn[x] \in ConnRec /\ ConnOK /\ CloseOK'
  BY TypesKept DEF Types, ConnOK, GoDown, GiveUp, Block, StopSending
<1>2. UNCHANGED <<strm, loop, out, wire, fails>>
  BY DEF GoDown, GiveUp, Block, StopSending
<1>3. PICK d : d \in {[conn[x] EXCEPT !.btp = "down"], [conn[x] EXCEPT !.btp = "stuck"],
                      [conn[x] EXCEPT !.sender = "blocked"], [conn[x] EXCEPT !.sender = "done"]}
               /\ conn' = [conn EXCEPT ![x] = d]
  BY DEF GoDown, GiveUp, Block, StopSending
<1>4. d \in ConnRec /\ d.crashed = conn[x].crashed /\ (d.btp = "up" => conn[x].btp = "up")
  BY <1>1, <1>3 DEF ConnRec
<1>5. ConnOK' /\ QuietConn
  BY <1>1, <1>3, <1>4, ConnSet
<1> QED
  BY <1>1, <1>2, <1>5, ConnStepped

-----------------------------------------------------------------------------
(* The loop, the sender, and the steps that lose messages. *)

LEMMA WireSet ==
    ASSUME WireOK, NEW x \in Sides, NEW q \in Seq(Of(CtrlTypes(x) \cup DataTypes, Streams)),
           wire' = [wire EXCEPT ![x] = q]
    PROVE  WireOK' /\ wire'[x] = q /\ \A y \in Sides \ {x} : wire'[y] = wire[y]
<1>1. /\ DOMAIN wire = Sides
      /\ \A y \in Sides : wire[y] \in Seq(Of(CtrlTypes(y) \cup DataTypes, Streams))
  BY DEF WireOK
<1>2. wire'[x] = q /\ \A y \in Sides \ {x} : wire'[y] = wire[y]
  BY <1>1
<1>3. DOMAIN wire' = Sides
  BY <1>1
<1>4. ASSUME NEW y \in Sides
      PROVE  wire'[y] \in Seq(Of(CtrlTypes(y) \cup DataTypes, Streams))
  <2>1. CASE y = x
    BY <1>2, <2>1
  <2>2. CASE y # x
    BY <1>1, <1>2, <2>2
  <2> QED
    BY <2>1, <2>2
<1> QED
  BY <1>2, <1>3, <1>4 DEF WireOK

LEMMA LoopSet ==
    ASSUME LoopOK, NEW x \in Sides, NEW r \in LoopRec, loop' = [loop EXCEPT ![x] = r]
    PROVE  LoopOK' /\ loop'[x] = r /\ \A y \in Sides \ {x} : loop'[y] = loop[y]
  BY DEF LoopOK

LEMMA CloseSet ==
    ASSUME CloseOK, NEW x \in Sides, NEW k \in Closers,
           NEW c \in {"no", "check", "close", "wait", "end"},
           close' = [close EXCEPT ![x][k] = c]
    PROVE  CloseOK'
  BY DEF CloseOK

\* The sender takes the first message of a queue.
LEMMA OutTail ==
    ASSUME OutOK, NEW x \in Sides, NEW q \in {"ctrl", "data"}, out[x][q] # <<>>,
           out' = [out EXCEPT ![x][q] = Tail(@)]
    PROVE  /\ OutOK' /\ out'[x][q] = Tail(out[x][q])
           /\ \A y \in Sides, p \in {"ctrl", "data"} : y # x \/ p # q => out'[y][p] = out[y][p]
<1>1. DOMAIN out = Sides /\ \A y \in Sides : out[y] \in OutRec(y)
  BY DEF OutOK
<1>2. \A y \in Sides : DOMAIN out[y] = {"ctrl", "data"}
  BY <1>1 DEF OutRec
<1>3. out'[x][q] = Tail(out[x][q])
  BY <1>1, <1>2
<1>4. \A y \in Sides, p \in {"ctrl", "data"} : y # x \/ p # q => out'[y][p] = out[y][p]
  BY <1>1, <1>2
<1>5. DOMAIN out' = Sides
  BY <1>1
<1>6. ASSUME NEW y \in Sides
      PROVE  /\ out'[y] \in OutRec(y)
             /\ Len(out'[y].ctrl) <= OutCap /\ Len(out'[y].data) <= OutCap
  <2>1. out[y] \in OutRec(y) /\ Len(out[y].ctrl) <= OutCap /\ Len(out[y].data) <= OutCap
    BY DEF OutOK
  <2>2. CASE y # x
    BY <1>1, <2>1, <2>2
  <2>3. CASE y = x /\ q = "ctrl"
    <3>1. out'[x] = [out[x] EXCEPT !.ctrl = Tail(out[x].ctrl)]
      BY <1>1, <2>3
    <3>2. out[x].ctrl \in Seq(Of(CtrlTypes(x), Streams)) /\ out[x].ctrl # <<>>
      BY <2>1, <2>3 DEF OutRec
    <3>3. /\ Tail(out[x].ctrl) \in Seq(Of(CtrlTypes(x), Streams))
          /\ Len(Tail(out[x].ctrl)) = Len(out[x].ctrl) - 1 /\ Len(out[x].ctrl) \in Nat
      BY <3>2, HeadTail
    <3>4. Len(Tail(out[x].ctrl)) <= OutCap
      BY <2>1, <2>3, <3>3, CapsAssumption
    <3> QED
      BY <2>1, <2>3, <3>1, <3>3, <3>4 DEF OutRec
  <2>4. CASE y = x /\ q = "data"
    <3>1. out'[x] = [out[x] EXCEPT !.data = Tail(out[x].data)]
      BY <1>1, <2>4
    <3>2. out[x].data \in Seq(Of(DataTypes, Streams)) /\ out[x].data # <<>>
      BY <2>1, <2>4 DEF OutRec
    <3>3. /\ Tail(out[x].data) \in Seq(Of(DataTypes, Streams))
          /\ Len(Tail(out[x].data)) = Len(out[x].data) - 1 /\ Len(out[x].data) \in Nat
      BY <3>2, HeadTail
    <3>4. Len(Tail(out[x].data)) <= OutCap
      BY <2>1, <2>4, <3>3, CapsAssumption
    <3> QED
      BY <2>1, <2>4, <3>1, <3>3, <3>4 DEF OutRec
  <2> QED
    BY <2>2, <2>3, <2>4
<1> QED
  BY <1>3, <1>4, <1>5, <1>6 DEF OutOK

\* A queue that keeps what it has, or loses its first message or all.
Thins(q, r) == r = q \/ r = <<>> \/ (q # <<>> /\ r = Tail(q))

LEMMA Thinner ==
    ASSUME NEW T, NEW q \in Seq(T), NEW r, Thins(q, r)
    PROVE  /\ \A s : Fades(s, q, r)
           /\ \A m : Num(r, m) \in Nat /\ Num(r, m) <= Num(q, m)
<1>1. CASE r = q \/ r = <<>>
  <2>1. \A s : Fades(s, q, r)
    BY <1>1, NothingLeft
  <2>2. \A m : Num(q, m) \in Nat /\ Num(<<>>, m) = 0
    BY NumType
  <2> QED
    BY <1>1, <2>1, <2>2
<1>2. CASE q # <<>> /\ r = Tail(q)
  <2>1. \A s : Fades(s, q, r)
    BY <1>2, SteadyTail
  <2>2. \A m : /\ Num(Tail(q), m) \in Nat
               /\ Num(q, m) = Num(Tail(q), m) + (IF Head(q) = m THEN 1 ELSE 0)
    BY <1>2, NumTail
  <2>3. \A m : Num(Tail(q), m) \in Nat /\ Num(Tail(q), m) <= Num(q, m)
    BY <2>2
  <2> QED
    BY <1>2, <2>1, <2>3
<1> QED
  BY <1>1, <1>2 DEF Thins

\* A step that loses messages while the connection is not up at both sides.
LEMMA LosesWhen ==
    ASSUME Types, Types', strm' = strm, \E x \in Sides : conn'[x].btp # "up",
           \A x \in Sides : conn'[x].crashed = conn[x].crashed,
           Thins(out["server"].data, out'["server"].data),
           Thins(out["client"].ctrl, out'["client"].ctrl),
           wire'["server"] = wire["server"] \/ wire'["server"] = <<>>,
           Thins(wire["client"], wire'["client"]),
           Passing("client")' = Passing("client"), Passing("server")' = Passing("server")
    PROVE  Stepped
<1> USE SideFacts
<1>1. ASSUME NEW s \in Streams
      PROVE  ViewStep(s, View(s), View(s)')
  <2>1. StrmOK /\ LoopOK /\ OutOK /\ WireOK
    BY DEF Types
  <2>2. /\ out["client"].ctrl \in Seq(Msgs) /\ wire["client"] \in Seq(Msgs)
        /\ out["server"].data \in Seq(Msgs)
    BY <2>1, QueueTypes
  <2>3. Fades(s, out["server"].data, out'["server"].data)
    BY <2>2, Thinner
  <2>4. \A m : /\ Num(out'["client"].ctrl, m) <= Num(out["client"].ctrl, m)
               /\ Num(out'["client"].ctrl, m) \in Nat
    BY <2>2, Thinner
  <2>5. \A m : /\ Num(wire'["client"], m) <= Num(wire["client"], m)
               /\ Num(wire'["client"], m) \in Nat
    BY <2>2, Thinner
  <2>6. \A m : /\ Num(wire["client"], m) \in Nat /\ Num(out["client"].ctrl, m) \in Nat
    BY <2>2, NumType
  <2>7. Asked(s)' <= Asked(s)
    BY <2>4, <2>5, <2>6 DEF Asked
  <2>8. Started(s)' <= Started(s)
    <3>1. PICK St : St = Msg("Start", s)
      OBVIOUS
    <3>2. PICK p : p = Num(Passing("server"), St) + Num(strm["server"][s].in, St)
      OBVIOUS
    <3>3. Num(Passing("server"), St) \in Nat /\ Num(strm["server"][s].in, St) \in Nat
      BY <3>1, ControlCounts DEF Counts
    <3>4. /\ Started(s) = Num(out["client"].ctrl, St) + Num(wire["client"], St)
                            + Num(Passing("server"), St) + Num(strm["server"][s].in, St)
          /\ Started(s)' = Num(out'["client"].ctrl, St) + Num(wire'["client"], St)
                            + Num(Passing("server"), St) + Num(strm["server"][s].in, St)
      BY <3>1 DEF Started
    <3>5. /\ Num(out'["client"].ctrl, St) <= Num(out["client"].ctrl, St)
          /\ Num(wire'["client"], St) <= Num(wire["client"], St)
          /\ Num(out'["client"].ctrl, St) \in Nat /\ Num(wire'["client"], St) \in Nat
          /\ Num(out["client"].ctrl, St) \in Nat /\ Num(wire["client"], St) \in Nat
      BY <2>4, <2>5, <2>6
    <3> QED
      BY <3>3, <3>4, <3>5
  <2>9. View(s) \in Views(s) /\ View(s)' \in Views(s)
    BY ViewType, ViewTypeNext
  <2>10. FewerAsked(View(s), View(s)')
    <3>1. View(s)'.asked <= View(s).asked /\ View(s)'.started <= View(s).started
      BY <2>7, <2>8 DEF View
    <3>2. View(s).started \in Nat
      BY <2>9, Numbers
    <3>3. View(s)'.started \in Nat
      BY <2>9, Numbers
    <3> QED
      BY <3>1, <3>2, <3>3 DEF FewerAsked
  <2>11. View(s)'.cl = View(s).cl /\ View(s)'.sv = View(s).sv /\ View(s)'.pass = View(s).pass
    BY DEF View
  <2>12. View(s)'.clUp = View(s).clUp /\ View(s)'.svUp = View(s).svUp
    BY DEF View, Alive
  <2>13. ~ View(s)'.up
    BY DEF View
  <2>14. View(s)'.wire = View(s).wire \/ View(s)'.wire = <<>>
    BY DEF View
  <2>15. Fades(s, View(s).out, View(s)'.out)
    BY <2>3 DEF View
  <2>16. Loses(s, View(s), View(s)')
    BY <2>10, <2>11, <2>12, <2>13, <2>14, <2>15 DEF Loses
  <2> QED
    BY <2>16 DEF ViewStep
<1> QED
  BY <1>1 DEF Stepped

LEMMA CloseWaited ==
    ASSUME Types, NEW x \in Sides, NEW k \in Closers, CloseWait(x, k)
    PROVE  Stepped
<1> USE SideFacts
<1>1. CASE conn[x].shut
  BY <1>1, CrashStepped DEF CloseWait
<1>2. CASE ~ conn[x].shut
  <2>1. /\ conn' = [conn EXCEPT ![x].shut = TRUE,
                                ![x].btp = IF @ = "stuck" THEN @ ELSE "down"]
        /\ close' = [close EXCEPT ![x][k] = "end"] /\ out' = [out EXCEPT ![x] = NoOut]
        /\ UNCHANGED <<strm, loop, wire, fails>>
    BY <1>2 DEF CloseWait
  <2>2. OutOK /\ CloseOK /\ ConnOK
    BY DEF Types
  <2>3. conn[x] \in ConnRec /\ DOMAIN conn = Sides
    BY <2>2 DEF ConnOK
  <2>4. PICK d : d = [conn[x] EXCEPT !.shut = TRUE,
                                     !.btp = IF conn[x].btp = "stuck" THEN "stuck" ELSE "down"]
    OBVIOUS
  <2>5. d \in ConnRec /\ d.crashed = conn[x].crashed /\ d.btp # "up"
    BY <2>3, <2>4 DEF ConnRec
  <2>6. conn' = [conn EXCEPT ![x] = d]
    BY <2>1, <2>3, <2>4
  <2>7. ConnOK' /\ QuietConn
    BY <2>2, <2>5, <2>6, ConnSet
  <2>8. conn'[x].btp # "up"
    BY <2>3, <2>5, <2>6
  <2>9. NoOut \in OutRec(x) /\ Len(NoOut.ctrl) <= OutCap /\ Len(NoOut.data) <= OutCap
    BY CapsAssumption DEF NoOut, OutRec
  <2>10. \A y \in Sides : out'[y] = IF y = x THEN NoOut ELSE out[y]
    BY <2>1, <2>2 DEF OutOK
  <2>11. OutOK'
    BY <2>1, <2>2, <2>9, <2>10 DEF OutOK
  <2>12. CloseOK'
    BY <2>1, <2>2, CloseSet
  <2>13. Types'
    BY <2>1, <2>7, <2>11, <2>12, TypesKept DEF Types
  <2>14. /\ Thins(out["server"].data, out'["server"].data)
         /\ Thins(out["client"].ctrl, out'["client"].ctrl)
    BY <2>10 DEF Thins, NoOut
  <2>15. Thins(wire["client"], wire'["client"]) /\ wire'["server"] = wire["server"]
    BY <2>1 DEF Thins
  <2>16. Passing("client")' = Passing("client") /\ Passing("server")' = Passing("server")
    BY <2>1 DEF Passing
  <2>17. \A y \in Sides : conn'[y].crashed = conn[y].crashed
    BY <2>7 DEF QuietConn
  <2>18. strm' = strm /\ \E y \in Sides : conn'[y].btp # "up"
    BY <2>1, <2>8
  <2> QED
    BY <2>13, <2>14, <2>15, <2>16, <2>17, <2>18, LosesWhen
<1> QED
  BY <1>1, <1>2

LEMMA CloseStepped ==
    ASSUME Types, NEW x \in Sides, NEW k \in Closers, CloseStep(x, k)
    PROVE  Stepped
  BY CloseChecked, CloseStopped, CloseWaited DEF CloseStep

\* Read fails, and what the peer has sent is lost.
LEMMA ReadFailed ==
    ASSUME Types, NEW x \in Sides, ReadFails(x)
    PROVE  Stepped
<1> USE SideFacts
<1>1. /\ loop[x].pc = "read" /\ conn[x].btp = "down"
      /\ loop' = [loop EXCEPT ![x] = [pc |-> "end"]]
      /\ close' = [close EXCEPT ![x][Loop] = "check"]
      /\ wire' = [wire EXCEPT ![Other(x)] = <<>>]
      /\ UNCHANGED <<strm, out, conn, fails>>
  BY DEF ReadFails
<1>2. LoopOK /\ WireOK /\ CloseOK
  BY DEF Types
<1>3. [pc |-> "end"] \in LoopRec
  BY DEF LoopRec
<1>4. LoopOK' /\ loop'[x] = [pc |-> "end"]
  BY <1>1, <1>2, <1>3, LoopSet
<1>5. \A y \in Sides \ {x} : loop'[y] = loop[y]
  BY <1>1, <1>2, <1>3, LoopSet
<1>6. Other(x) \in Sides
  BY DEF Sides, Other
<1>7. /\ WireOK' /\ wire'[Other(x)] = <<>>
      /\ \A y \in Sides \ {Other(x)} : wire'[y] = wire[y]
  <2>1. <<>> \in Seq(Of(CtrlTypes(Other(x)) \cup DataTypes, Streams))
    OBVIOUS
  <2> QED
    BY <1>1, <1>2, <1>6, <2>1, WireSet
<1>8. \A y \in Sides : wire'[y] = wire[y] \/ wire'[y] = <<>>
  BY <1>7
<1>9. Loop \in Closers
  BY DEF Closers
<1>10. CloseOK'
  BY <1>1, <1>2, <1>9, CloseSet
<1>11. Types'
  BY <1>1, <1>4, <1>7, <1>10, TypesKept DEF Types
<1>12. \A y \in Sides : Passing(y)' = Passing(y)
  BY <1>1, <1>4, <1>5 DEF Passing
<1>13. /\ Thins(out["server"].data, out'["server"].data)
       /\ Thins(out["client"].ctrl, out'["client"].ctrl)
       /\ Thins(wire["client"], wire'["client"])
  BY <1>1, <1>8 DEF Thins
<1>14. wire'["server"] = wire["server"] \/ wire'["server"] = <<>>
  BY <1>8
<1>15. strm' = strm /\ conn' = conn /\ conn'[x].btp # "up"
  BY <1>1
<1>16. /\ Passing("client")' = Passing("client") /\ Passing("server")' = Passing("server")
       /\ \E y \in Sides : conn'[y].btp # "up"
       /\ \A y \in Sides : conn'[y].crashed = conn[y].crashed
  BY <1>12, <1>15
<1> QED
  BY <1>11, <1>13, <1>14, <1>15, <1>16, LosesWhen

LEMMA CrashesStepped ==
    ASSUME Types, NEW x \in Sides,
           \/ SendOnClosed(x) \/ MapRace(x)
           \/ x = "client" /\ \E s \in Streams : Refuse(s)
    PROVE  Stepped
  BY CrashStepped DEF SendOnClosed, MapRace, Refuse

\* The loop tells the peer that there is no such stream, or does not.
LEMMA UnknownAnswered ==
    ASSUME Types, NEW x \in Sides, AnswerUnknown(x)
    PROVE  Stepped
<1> USE SideFacts
<1>1. /\ loop[x].pc = "tell" /\ loop' = [loop EXCEPT ![x] = [pc |-> "read"]]
      /\ UNCHANGED <<strm, wire, close, conn, fails>>
  BY DEF AnswerUnknown
<1>2. LoopOK /\ OutOK
  BY DEF Types
<1>3. loop[x] \in LoopRec /\ [pc |-> "read"] \in LoopRec
  BY <1>2 DEF LoopOK, LoopRec
<1>4. PICK t \in Streams : t = loop[x].msg.s
  BY <1>1, <1>3 DEF LoopRec, Of
<1>5. PICK m : m = Msg("Close", t)
  OBVIOUS
<1>6. m \in Of(DataTypes, Streams) /\ \A s : m # D(s) /\ m # C(s)
  BY <1>5 DEF Of, DataTypes, Msg, D, C
<1>7. Put(x, "data", m) \/ out' = out
  BY <1>4, <1>5 DEF AnswerUnknown, CloseQueue
<1>8. LoopOK' /\ loop'[x] = [pc |-> "read"] /\ \A y \in Sides \ {x} : loop'[y] = loop[y]
  BY <1>1, <1>2, <1>3, LoopSet
<1>9. /\ OutOK' /\ \A y \in Sides : out'[y].ctrl = out[y].ctrl
      /\ out'["server"].data = out["server"].data
            \/ out'["server"].data = Append(out["server"].data, m)
  <2>1. CASE out' = out
    BY <1>2, <2>1, TypesKept
  <2>2. CASE Put(x, "data", m)
    <3>1. /\ OutOK' /\ out'[x]["data"] = Append(out[x]["data"], m)
          /\ \A y \in Sides, p \in {"ctrl", "data"} : y # x \/ p # "data" => out'[y][p] = out[y][p]
      BY <1>2, <1>6, <2>2, OutPut
    <3>2. \A y \in Sides : out'[y]["ctrl"] = out[y]["ctrl"]
      BY <3>1
    <3> QED
      BY <3>1, <3>2
  <2> QED
    BY <1>7, <2>1, <2>2
<1>10. Types'
  BY <1>1, <1>8, <1>9, TypesKept DEF Types
<1>11. \A y \in Sides : Passing(y)' = Passing(y)
  BY <1>1, <1>8 DEF Passing
<1>12. ASSUME NEW s \in Streams
       PROVE  ViewStep(s, View(s), View(s)')
  <2>1. out["server"].data \in Seq(Msgs) /\ m \in Msgs
    BY <1>2, <1>6, QueueTypes DEF Types, Msgs, Of, DataTypes, AllTypes
  <2>2. Steady(s, out["server"].data, out'["server"].data)
    BY <1>6, <1>9, <2>1, SteadyAppend, NothingLeft
  <2>3. /\ Steady(s, wire["server"], wire'["server"])
        /\ Steady(s, Passing("client"), Passing("client")')
    BY <1>1, <1>11 DEF Steady
  <2>4. Asked(s)' = Asked(s) /\ Started(s)' = Started(s)
    BY <1>1, <1>9, <1>11 DEF Asked, Started
  <2>5. Asked(s) \in Nat /\ Started(s) \in Nat
    BY ControlCounts DEF Counts, Asked, Started
  <2>6. Asked(s)' <= Asked(s) /\ Started(s)' <= Started(s)
    BY <2>4, <2>5
  <2>7. SameServer(View(s), View(s)') /\ strm'["client"][s] = strm["client"][s]
    BY <1>1 DEF SameServer, View
  <2>8. QuietConn
    BY <1>1 DEF QuietConn
  <2> QED
    BY <1>10, <2>2, <2>3, <2>6, <2>7, <2>8, RestsWhen
<1> QED
  BY <1>10, <1>12 DEF Stepped

\* What the sender takes is lost if the connection is not up at both sides.
LEMMA SendLost ==
    ASSUME Types, NEW x \in Sides, NEW q \in {"ctrl", "data"}, out[x][q] # <<>>,
           out' = [out EXCEPT ![x][q] = Tail(@)], \E y \in Sides : conn[y].btp # "up",
           UNCHANGED <<wire, strm, loop, close, conn, fails>>
    PROVE  Stepped
<1> USE SideFacts
<1>1. OutOK
  BY DEF Types
<1>2. /\ OutOK' /\ out'[x][q] = Tail(out[x][q])
      /\ \A y \in Sides, p \in {"ctrl", "data"} : y # x \/ p # q => out'[y][p] = out[y][p]
  BY <1>1, OutTail
<1>3. Types'
  BY <1>2, TypesKept DEF Types
<1>4. \A y \in Sides, p \in {"ctrl", "data"} : Thins(out[y][p], out'[y][p])
  BY <1>2 DEF Thins
<1>5. /\ Thins(out["server"].data, out'["server"].data)
      /\ Thins(out["client"].ctrl, out'["client"].ctrl)
  BY <1>4
<1>6. Thins(wire["client"], wire'["client"]) /\ wire'["server"] = wire["server"]
  BY DEF Thins
<1>7. Passing("client")' = Passing("client") /\ Passing("server")' = Passing("server")
  BY DEF Passing
<1>8. /\ strm' = strm /\ \E y \in Sides : conn'[y].btp # "up"
      /\ \A y \in Sides : conn'[y].crashed = conn[y].crashed
  OBVIOUS
<1> QED
  BY <1>3, <1>5, <1>6, <1>7, <1>8, LosesWhen

\* The first message of a queue is written.
Writes(x, q, m) ==
    /\ out[x][q] # <<>> /\ m = Head(out[x][q]) /\ out' = [out EXCEPT ![x][q] = Tail(@)]
    /\ wire' = [wire EXCEPT ![x] = Append(@, m)]
    /\ \A y \in Sides : conn[y].btp = "up"
    /\ UNCHANGED <<strm, loop, close, conn, fails>>

LEMMA WritesTypes ==
    ASSUME Types, NEW x \in Sides, NEW q \in {"ctrl", "data"}, NEW m, Writes(x, q, m)
    PROVE  /\ Types' /\ m \in Of(OutTypes(x, q), Streams) /\ m \in Msgs
           /\ out'[x][q] = Tail(out[x][q]) /\ wire'[x] = Append(wire[x], m)
           /\ \A y \in Sides, p \in {"ctrl", "data"} : y # x \/ p # q => out'[y][p] = out[y][p]
           /\ \A y \in Sides \ {x} : wire'[y] = wire[y]
           /\ \A y \in Sides : Passing(y)' = Passing(y)
<1>1. /\ out[x][q] # <<>> /\ m = Head(out[x][q]) /\ out' = [out EXCEPT ![x][q] = Tail(@)]
      /\ wire' = [wire EXCEPT ![x] = Append(@, m)] /\ UNCHANGED <<strm, loop, close, conn, fails>>
  BY DEF Writes
<1>2. OutOK /\ WireOK
  BY DEF Types
<1>3. /\ OutOK' /\ out'[x][q] = Tail(out[x][q])
      /\ \A y \in Sides, p \in {"ctrl", "data"} : y # x \/ p # q => out'[y][p] = out[y][p]
  BY <1>1, <1>2, OutTail
<1>4. out[x][q] \in Seq(Of(OutTypes(x, q), Streams))
  BY <1>2 DEF OutOK, OutRec, OutTypes
<1>5. m \in Of(OutTypes(x, q), Streams)
  BY <1>1, <1>4, HeadTail
<1>6. /\ Of(OutTypes(x, q), Streams) \subseteq Of(CtrlTypes(x) \cup DataTypes, Streams)
      /\ Of(OutTypes(x, q), Streams) \subseteq Msgs
  BY DEF OutTypes, Of, Msgs, AllTypes, CtrlTypes
<1>7. wire[x] \in Seq(Of(CtrlTypes(x) \cup DataTypes, Streams)) /\ DOMAIN wire = Sides
  BY <1>2 DEF WireOK
<1>8. PICK w : w = Append(wire[x], m)
  OBVIOUS
<1>9. w \in Seq(Of(CtrlTypes(x) \cup DataTypes, Streams))
  BY <1>5, <1>6, <1>7, <1>8, AppendProperties
<1>10. wire' = [wire EXCEPT ![x] = w]
  BY <1>1, <1>7, <1>8
<1>11. WireOK' /\ wire'[x] = w
  BY <1>2, <1>9, <1>10, WireSet
<1>12. \A y \in Sides \ {x} : wire'[y] = wire[y]
  BY <1>2, <1>9, <1>10, WireSet
<1>13. Types'
  BY <1>1, <1>3, <1>11, TypesKept DEF Types
<1>14. \A y \in Sides : Passing(y)' = Passing(y)
  BY <1>1 DEF Passing
<1> QED
  BY <1>3, <1>5, <1>6, <1>8, <1>11, <1>12, <1>13, <1>14

\* The client writes: what it asked for is still on its way.
LEMMA ClientWrites ==
    ASSUME Types, NEW q \in {"ctrl", "data"}, NEW m, Writes("client", q, m)
    PROVE  Stepped
<1> USE SideFacts
<1>1. /\ out["client"][q] # <<>> /\ m = Head(out["client"][q])
      /\ UNCHANGED <<strm, loop, close, conn, fails>>
  BY DEF Writes
<1>2. /\ Types' /\ m \in Of(OutTypes("client", q), Streams) /\ m \in Msgs
      /\ out'["client"][q] = Tail(out["client"][q]) /\ wire'["client"] = Append(wire["client"], m)
  BY WritesTypes
<1>3. /\ \A y \in Sides, p \in {"ctrl", "data"} :
               y # "client" \/ p # q => out'[y][p] = out[y][p]
      /\ wire'["server"] = wire["server"]
      /\ Passing("client")' = Passing("client") /\ Passing("server")' = Passing("server")
  BY WritesTypes
<1>4. ASSUME NEW s \in Streams
      PROVE  ViewStep(s, View(s), View(s)')
  <2>1. StrmOK /\ LoopOK /\ OutOK /\ WireOK
    BY DEF Types
  <2>2. out["client"].ctrl \in Seq(Msgs) /\ wire["client"] \in Seq(Msgs)
    BY <2>1, QueueTypes
  <2>3. ASSUME NEW a \in {"FileReq", "Start"}
        PROVE  Num(out'["client"].ctrl, Msg(a, s)) + Num(wire'["client"], Msg(a, s))
                  = Num(out["client"].ctrl, Msg(a, s)) + Num(wire["client"], Msg(a, s))
    <3>1. PICK e : e = IF m = Msg(a, s) THEN 1 ELSE 0
      OBVIOUS
    <3>2. Num(wire'["client"], Msg(a, s)) = Num(wire["client"], Msg(a, s)) + e
      BY <1>2, <2>2, <3>1, NumAppend
    <3>3. Num(out["client"].ctrl, Msg(a, s)) = Num(out'["client"].ctrl, Msg(a, s)) + e
      <4>1. CASE q = "ctrl"
        <5>1. /\ out["client"].ctrl # <<>> /\ m = Head(out["client"].ctrl)
              /\ out'["client"].ctrl = Tail(out["client"].ctrl)
          BY <1>1, <1>2, <4>1
        <5> QED
          BY <2>2, <3>1, <5>1, NumTail
      <4>2. CASE q = "data"
        <5>1. out'["client"]["ctrl"] = out["client"]["ctrl"]
          BY <1>3, <4>2
        <5>2. m # Msg(a, s)
          BY <1>2, <4>2 DEF OutTypes, DataTypes, Of, Msg
        <5>3. Num(out["client"].ctrl, Msg(a, s)) \in Nat /\ e = 0
          BY <2>2, <3>1, <5>2, NumType
        <5> QED
          BY <5>1, <5>3
      <4> QED
        BY <4>1, <4>2
    <3>4. /\ Num(wire["client"], Msg(a, s)) \in Nat
          /\ Num(out'["client"].ctrl, Msg(a, s)) \in Nat /\ e \in Nat
      BY <1>2, <2>2, <3>1, NumType, ControlCountsNext DEF Counts
    <3> QED
      BY <3>2, <3>3, <3>4
  <2>4. Asked(s)' = Asked(s)
    BY <2>3 DEF Asked
  <2>5. Started(s)' = Started(s)
    <3>1. PICK St : St = Msg("Start", s)
      OBVIOUS
    <3>2. Num(out'["client"].ctrl, St) + Num(wire'["client"], St)
                  = Num(out["client"].ctrl, St) + Num(wire["client"], St)
      BY <2>3, <3>1
    <3>3. strm'["server"][s].in = strm["server"][s].in
      BY <1>1
    <3> QED
      BY <1>3, <3>1, <3>2, <3>3 DEF Started
  <2>6. Asked(s) \in Nat /\ Started(s) \in Nat
    BY ControlCounts DEF Counts, Asked, Started
  <2>7. Asked(s)' <= Asked(s) /\ Started(s)' <= Started(s)
    BY <2>4, <2>5, <2>6
  <2>8. out'["server"]["data"] = out["server"]["data"]
    BY <1>3
  <2>9. /\ Steady(s, out["server"].data, out'["server"].data)
        /\ Steady(s, wire["server"], wire'["server"])
        /\ Steady(s, Passing("client"), Passing("client")')
    BY <1>3, <2>8 DEF Steady
  <2>10. SameServer(View(s), View(s)') /\ strm'["client"][s] = strm["client"][s]
    BY <1>1 DEF SameServer, View
  <2>11. QuietConn
    BY <1>1 DEF QuietConn
  <2> QED
    BY <1>2, <2>7, <2>9, <2>10, <2>11, RestsWhen
<1> QED
  BY <1>2, <1>4 DEF Stepped

LEMMA ServerWrites ==
    ASSUME Types, NEW q \in {"ctrl", "data"}, NEW m, Writes("server", q, m)
    PROVE  Stepped
<1> USE SideFacts
<1>1. /\ out["server"][q] # <<>> /\ m = Head(out["server"][q])
      /\ \A y \in Sides : conn[y].btp = "up"
      /\ UNCHANGED <<strm, loop, close, conn, fails>>
  BY DEF Writes
<1>2. /\ Types' /\ m \in Of(OutTypes("server", q), Streams) /\ m \in Msgs
      /\ out'["server"][q] = Tail(out["server"][q]) /\ wire'["server"] = Append(wire["server"], m)
  BY WritesTypes
<1>3. /\ \A y \in Sides, p \in {"ctrl", "data"} :
               y # "server" \/ p # q => out'[y][p] = out[y][p]
      /\ wire'["client"] = wire["client"]
      /\ Passing("client")' = Passing("client") /\ Passing("server")' = Passing("server")
  BY WritesTypes
<1>4. out'["client"]["ctrl"] = out["client"]["ctrl"]
  BY <1>3
<1>5. ASSUME NEW s \in Streams
      PROVE  ViewStep(s, View(s), View(s)')
  <2>1. StrmOK /\ LoopOK /\ OutOK /\ WireOK
    BY DEF Types
  <2>2. wire["server"] \in Seq(Msgs) /\ out["server"].data \in Seq(Msgs)
    BY <2>1, QueueTypes
  <2>3. Asked(s)' = Asked(s)
    BY <1>3, <1>4 DEF Asked
  <2>4. Started(s)' = Started(s)
    BY <1>1, <1>3, <1>4 DEF Started
  <2>5. Asked(s) \in Nat /\ Started(s) \in Nat
    BY ControlCounts DEF Counts, Asked, Started
  <2>6. CASE q = "ctrl"
    <3>1. m # D(s) /\ m # C(s)
      BY <1>2, <2>6 DEF OutTypes, CtrlTypes, Of, D, C, Msg
    <3>2. Steady(s, wire["server"], wire'["server"])
      BY <1>2, <2>2, <3>1, SteadyAppend
    <3>3. out'["server"]["data"] = out["server"]["data"]
      BY <1>3, <2>6
    <3>4. /\ Steady(s, out["server"].data, out'["server"].data)
          /\ Steady(s, Passing("client"), Passing("client")')
      BY <1>3, <3>3 DEF Steady
    <3>5. Asked(s)' <= Asked(s) /\ Started(s)' <= Started(s)
      BY <2>3, <2>4, <2>5
    <3>6. SameServer(View(s), View(s)') /\ strm'["client"][s] = strm["client"][s]
      BY <1>1 DEF SameServer, View
    <3>7. QuietConn
      BY <1>1 DEF QuietConn
    <3> QED
      BY <1>2, <3>2, <3>4, <3>5, <3>6, <3>7, RestsWhen
  <2>7. CASE q = "data"
    <3>1. /\ out["server"].data # <<>> /\ m = Head(out["server"].data)
          /\ out'["server"].data = Tail(out["server"].data)
      BY <1>1, <1>2, <2>7
    <3>2. View(s).up
      BY <1>1 DEF View
    <3>3. SameSides(View(s), View(s)')
      BY <1>1 DEF SameSides, View, Alive
    <3>4. View(s)'.cl = View(s).cl /\ View(s)'.sv = View(s).sv /\ View(s)'.pass = View(s).pass
      BY <1>1, <1>3 DEF View
    <3>5. FewerAsked(View(s), View(s)')
      <4>1. View(s)'.asked = View(s).asked /\ View(s)'.started = View(s).started
        BY <2>3, <2>4 DEF View
      <4>2. View(s).asked \in Nat
        BY ControlCounts, <2>5 DEF Counts
      <4> QED
        BY <4>1, <4>2 DEF FewerAsked
    <3>6. /\ View(s).out # <<>> /\ View(s)'.out = Tail(View(s).out)
          /\ View(s)'.wire = Append(View(s).wire, Head(View(s).out))
      BY <1>2, <3>1 DEF View
    <3>7. Sent(s, View(s), View(s)')
      BY <3>2, <3>3, <3>4, <3>5, <3>6 DEF Sent
    <3> QED
      BY <3>7 DEF ViewStep
  <2> QED
    BY <2>6, <2>7
<1> QED
  BY <1>2, <1>5 DEF Stepped

LEMMA SendStepped ==
    ASSUME Types, NEW x \in Sides, Send(x)
    PROVE  Stepped
<1>1. PICK q \in {"ctrl", "data"} :
          /\ out[x][q] # <<>>
          /\ IF conn[x].btp = "down" THEN Crash(x) /\ UNCHANGED wire
             ELSE /\ wire' = IF \A y \in Sides : conn[y].btp = "up"
                               THEN [wire EXCEPT ![x] = Append(@, Head(out[x][q]))]
                               ELSE wire
                  /\ out' = [out EXCEPT ![x][q] = Tail(@)]
                  /\ UNCHANGED <<strm, loop, close, conn, fails>>
  BY DEF Send
<1>2. CASE conn[x].btp = "down"
  BY <1>1, <1>2, CrashStepped
<1>3. CASE conn[x].btp # "down" /\ ~ \A y \in Sides : conn[y].btp = "up"
  <2>1. wire' = wire /\ out' = [out EXCEPT ![x][q] = Tail(@)]
        /\ UNCHANGED <<strm, loop, close, conn, fails>>
    BY <1>1, <1>3
  <2> QED
    BY <1>1, <1>3, <2>1, SendLost
<1>4. CASE \A y \in Sides : conn[y].btp = "up"
  <2>1. PICK m : m = Head(out[x][q])
    OBVIOUS
  <2>2. conn[x].btp = "up"
    BY <1>4
  <2>3. Writes(x, q, m)
    BY <1>1, <1>4, <2>1, <2>2 DEF Writes
  <2> QED
    BY <2>3, ClientWrites, ServerWrites, SideFacts
<1> QED
  BY <1>2, <1>3, <1>4

-----------------------------------------------------------------------------
(* The loop reads a message. *)

\* The first message of the peer's is taken from the wire.
Reads(x, m) == /\ loop[x].pc = "read" /\ wire[Other(x)] # <<>> /\ m = Head(wire[Other(x)])
               /\ wire' = [wire EXCEPT ![Other(x)] = Tail(@)]

LEMMA ReadsTypes ==
    ASSUME Types, NEW x \in Sides, NEW m, Reads(x, m)
    PROVE  /\ WireOK' /\ m \in Of(CtrlTypes(Other(x)) \cup DataTypes, Streams) /\ m \in Msgs
           /\ wire'[Other(x)] = Tail(wire[Other(x)]) /\ wire'[x] = wire[x]
           /\ Passing(x) = <<>>
<1>1. /\ loop[x].pc = "read" /\ wire[Other(x)] # <<>> /\ m = Head(wire[Other(x)])
      /\ wire' = [wire EXCEPT ![Other(x)] = Tail(@)]
  BY DEF Reads
<1>2. Other(x) \in Sides /\ x # Other(x) /\ WireOK
  BY DEF Sides, Other, Types
<1>3. DOMAIN wire = Sides /\ wire[Other(x)] \in Seq(Of(CtrlTypes(Other(x)) \cup DataTypes, Streams))
  BY <1>2 DEF WireOK
<1>4. /\ m \in Of(CtrlTypes(Other(x)) \cup DataTypes, Streams)
      /\ Tail(wire[Other(x)]) \in Seq(Of(CtrlTypes(Other(x)) \cup DataTypes, Streams))
  BY <1>1, <1>3, HeadTail
<1>5. wire' = [wire EXCEPT ![Other(x)] = Tail(wire[Other(x)])]
  BY <1>1, <1>3
<1>6. WireOK' /\ wire'[Other(x)] = Tail(wire[Other(x)])
  BY <1>2, <1>4, <1>5, WireSet
<1>7. wire'[x] = wire[x]
  BY <1>2, <1>4, <1>5, WireSet
<1>8. Of(CtrlTypes(Other(x)) \cup DataTypes, Streams) \subseteq Msgs
  BY DEF Of, Msgs, CtrlTypes, AllTypes
<1>9. Passing(x) = <<>>
  BY <1>1 DEF Passing
<1> QED
  BY <1>4, <1>6, <1>7, <1>8, <1>9


LEMMA DispatchTypes ==
    ASSUME Types, WireOK', NEW x \in Sides, NEW m \in Msgs, loop[x].pc = "read",
           loop' = [loop EXCEPT ![x] = IF strm[x][m.s].reg /\ m.type # "FileReq" THEN [pc |-> "pass", msg |-> m]
                                       ELSE IF m.type \in {"Close", "Complete"} THEN @
                                       ELSE [pc |-> "tell", msg |-> m]],
           UNCHANGED <<strm, out, close, conn, fails>>
    PROVE  /\ Types' /\ \A y \in Sides \ {x} : Passing(y)' = Passing(y)
           /\ Passing(x)' = IF strm[x][m.s].reg /\ m.type # "FileReq" THEN <<m>> ELSE <<>>
<1>1. PICK r : r = IF strm[x][m.s].reg /\ m.type # "FileReq" THEN [pc |-> "pass", msg |-> m]
                   ELSE IF m.type \in {"Close", "Complete"} THEN loop[x]
                   ELSE [pc |-> "tell", msg |-> m]
  OBVIOUS
<1>2. LoopOK /\ DOMAIN loop = Sides
  BY DEF Types, LoopOK
<1>3. r \in LoopRec
  BY <1>1, <1>2 DEF LoopOK, LoopRec, Msgs
<1>4. loop' = [loop EXCEPT ![x] = r]
  BY <1>1, <1>2
<1>5. LoopOK' /\ loop'[x] = r
  BY <1>2, <1>3, <1>4, LoopSet
<1>6. \A y \in Sides \ {x} : loop'[y] = loop[y]
  BY <1>2, <1>3, <1>4, LoopSet
<1>7. Types'
  BY <1>5, TypesKept DEF Types
<1>8. \A y \in Sides \ {x} : Passing(y)' = Passing(y)
  BY <1>6 DEF Passing
<1>9. Passing(x)' = IF strm[x][m.s].reg /\ m.type # "FileReq" THEN <<m>> ELSE <<>>
  <2>1. CASE strm[x][m.s].reg /\ m.type # "FileReq"
    <3>1. loop'[x] = [pc |-> "pass", msg |-> m]
      BY <1>1, <1>5, <2>1
    <3>2. loop'[x].pc = "pass" /\ loop'[x].msg = m
      BY <3>1
    <3> QED
      BY <2>1, <3>2 DEF Passing
  <2>2. CASE ~ (strm[x][m.s].reg /\ m.type # "FileReq")
    <3>1. r.pc # "pass"
      BY <1>1, <2>2
    <3> QED
      BY <1>5, <2>2, <3>1 DEF Passing
  <2> QED
    BY <2>1, <2>2
<1> QED
  BY <1>7, <1>8, <1>9

LEMMA ClientReads ==
    ASSUME Types, Alive("client"), ReadMsg("client")
    PROVE  Stepped
<1> USE SideFacts
<1>1. PICK m : Reads("client", m) /\ m = Head(wire["server"])
  BY DEF ReadMsg, Reads
<1>2. /\ WireOK' /\ m \in Of(CtrlTypes("server") \cup DataTypes, Streams) /\ m \in Msgs
      /\ wire'["server"] = Tail(wire["server"]) /\ wire'["client"] = wire["client"]
      /\ Passing("client") = <<>> /\ wire["server"] # <<>>
  BY <1>1, ReadsTypes DEF Reads
<1>3. m.type # "FileReq" /\ m.type # "Start"
  BY <1>2 DEF Of, CtrlTypes, DataTypes
<1>4. PICK t \in Streams : t = m.s
  BY <1>2 DEF Msgs, Of
<1>5. Dispatch("client", m)
  BY <1>1, <1>3 DEF ReadMsg
<1>6. /\ loop' = [loop EXCEPT !["client"] =
                    IF strm["client"][m.s].reg /\ m.type # "FileReq" THEN [pc |-> "pass", msg |-> m]
                    ELSE IF m.type \in {"Close", "Complete"} THEN @
                    ELSE [pc |-> "tell", msg |-> m]]
      /\ UNCHANGED <<strm, out, close, conn, fails>>
  BY <1>3, <1>5 DEF Dispatch
<1>7. loop["client"].pc = "read"
  BY <1>1 DEF Reads
<1>8. /\ Types' /\ Passing("server")' = Passing("server")
      /\ Passing("client")' = IF strm["client"][t].reg THEN <<m>> ELSE <<>>
  BY <1>2, <1>3, <1>4, <1>6, <1>7, DispatchTypes
<1>9. ASSUME NEW s \in Streams
      PROVE  ViewStep(s, View(s), View(s)')
  <2>1. StrmOK /\ LoopOK /\ OutOK /\ WireOK
    BY DEF Types
  <2>2. wire["server"] \in Seq(Msgs)
    BY <2>1, QueueTypes
  <2>3. Asked(s)' = Asked(s) /\ Started(s)' = Started(s)
    BY <1>2, <1>6, <1>8 DEF Asked, Started
  <2>4. Asked(s) \in Nat /\ Started(s) \in Nat
    BY ControlCounts DEF Counts, Asked, Started
  <2>5. FewerAsked(View(s), View(s)')
    <3>1. View(s)'.asked = View(s).asked /\ View(s)'.started = View(s).started
      BY <2>3 DEF View
    <3>2. View(s).asked \in Nat
      BY ControlCounts, <2>4 DEF Counts
    <3> QED
      BY <3>1, <3>2 DEF FewerAsked
  <2>6. SameSides(View(s), View(s)')
    BY <1>6 DEF SameSides, View, Alive
  <2>7. View(s)'.cl = View(s).cl /\ View(s)'.sv = View(s).sv /\ View(s)'.out = View(s).out
    BY <1>6 DEF View
  <2>8. /\ View(s).wire # <<>> /\ View(s)'.wire = Tail(View(s).wire)
        /\ Head(View(s).wire) = m /\ View(s).pass = <<>> /\ View(s).clUp
    BY <1>1, <1>2 DEF View
  <2>9. CASE strm["client"][t].reg
    <3>1. View(s)'.pass = <<Head(View(s).wire)>>
      BY <1>8, <2>8, <2>9 DEF View
    <3>2. ReadIn(s, View(s), View(s)')
      BY <2>5, <2>6, <2>7, <2>8, <3>1 DEF ReadIn
    <3> QED
      BY <3>2 DEF ViewStep
  <2>10. CASE ~ strm["client"][t].reg /\ s = t
    <3>1. View(s)'.pass = View(s).pass
      BY <1>8, <2>8, <2>10 DEF View
    <3>2. ~ View(s).cl.reg
      BY <2>10 DEF View
    <3>3. ReadDropped(s, View(s), View(s)')
      BY <2>5, <2>6, <2>7, <2>8, <3>1, <3>2 DEF ReadDropped
    <3> QED
      BY <3>3 DEF ViewStep
  <2>11. CASE ~ strm["client"][t].reg /\ s # t
    <3>1. m # D(s) /\ m # C(s)
      BY <1>4, <2>11 DEF D, C, Msg
    <3>2. Steady(s, wire["server"], wire'["server"])
      BY <1>1, <1>2, <2>2, <3>1, SteadyTail
    <3>3. /\ Steady(s, out["server"].data, out'["server"].data)
          /\ Steady(s, Passing("client"), Passing("client")')
      BY <1>2, <1>6, <1>8, <2>11 DEF Steady
    <3>4. Asked(s)' <= Asked(s) /\ Started(s)' <= Started(s)
      BY <2>3, <2>4
    <3>5. SameServer(View(s), View(s)') /\ strm'["client"][s] = strm["client"][s]
      BY <1>6 DEF SameServer, View
    <3>6. QuietConn
      BY <1>6 DEF QuietConn
    <3> QED
      BY <1>8, <3>2, <3>3, <3>4, <3>5, <3>6, RestsWhen
  <2> QED
    BY <2>9, <2>10, <2>11
<1> QED
  BY <1>8, <1>9 DEF Stepped

\* A message leaves the head of the wire: it was counted there.
LEMMA ReadCounts ==
    ASSUME Types, Types', NEW m, Reads("server", m), NEW a, NEW s \in Streams
    PROVE  /\ Num(wire["client"], Msg(a, s))
                 = Num(wire'["client"], Msg(a, s)) + (IF m = Msg(a, s) THEN 1 ELSE 0)
           /\ Num(wire'["client"], Msg(a, s)) \in Nat
<1> USE SideFacts
<1>1. StrmOK /\ LoopOK /\ OutOK /\ WireOK
  BY DEF Types
<1>2. wire["client"] \in Seq(Msgs)
  BY <1>1, QueueTypes
<1>3. /\ wire["client"] # <<>> /\ m = Head(wire["client"])
  BY DEF Reads
<1>4. wire'["client"] = Tail(wire["client"])
  BY ReadsTypes
<1> QED
  BY <1>2, <1>3, <1>4, NumTail

\* The server reads a request and makes the stream.
LEMMA ServerMakes ==
    ASSUME Types, Alive("server"), NEW m, Reads("server", m),
           NEW t \in Streams, m = Msg("FileReq", t),
           NEW r, r = Made(t), strm' = [strm EXCEPT !["server"][t] = r],
           UNCHANGED <<loop, out, close, conn, fails>>
    PROVE  Stepped
<1> USE SideFacts
<1>1. /\ WireOK' /\ m \in Msgs /\ wire'["server"] = wire["server"]
  BY ReadsTypes
<1>3. m = Msg("FileReq", t)
  OBVIOUS
<1>4. r = Made(t)
  OBVIOUS
<1>5. r \in Strm(t)
  <2>1. <<Msg("FileReq", t)>> \in Seq(Of(AllTypes, {t})) /\ Len(<<Msg("FileReq", t)>>) = 1
    BY DEF Msg, Of, AllTypes
  <2>2. PICK q : q = <<Msg("FileReq", t)>>
    OBVIOUS
  <2>3. r = [pc |-> "made", reg |-> TRUE, closed |-> FALSE, in |-> q, n |-> 0,
             complete |-> FALSE, says |-> "nothing", after |-> "done"]
    BY <1>4, <2>2 DEF Made, NoStream
  <2>4. q \in Seq(Of(AllTypes, {t})) /\ Len(q) = 1 /\ 0 \in 0 .. NumData
    BY <2>1, <2>2, NumsAssumption
  <2>5. r \in StreamRec(t)
    BY <2>3, <2>4 DEF StreamRec
  <2>6. Len(r.in) <= InCap /\ r.pc # "tell"
    <3>1. r.in = q /\ r.pc = "made"
      BY <2>3
    <3>2. 1 <= InCap
      BY CapsAssumption
    <3> QED
      BY <2>4, <3>1, <3>2
  <2> QED
    BY <2>5, <2>6 DEF Strm
<1>6. strm' = [strm EXCEPT !["server"][t] = r] /\ StrmOK
  BY DEF Types
<1>7. StrmOK' /\ strm'["server"][t] = r
  <2>1. StrmOK'
    BY <1>5, <1>6, StrmSet
  <2>2. strm'["server"][t] = r
    BY <1>5, <1>6, StrmSet
  <2> QED
    BY <2>1, <2>2
<1>8. \A y \in Sides, u \in Streams : y # "server" \/ u # t => strm'[y][u] = strm[y][u]
  BY <1>5, <1>6, StrmSet
<1>9. Types'
  BY <1>1, <1>7, TypesKept DEF Types
<1>10. Passing("client")' = Passing("client") /\ Passing("server")' = Passing("server")
  BY DEF Passing
<1>11. ASSUME NEW s \in Streams
       PROVE  ViewStep(s, View(s), View(s)')
  <2>1. /\ Num(wire["client"], Msg("FileReq", s))
             = Num(wire'["client"], Msg("FileReq", s)) + (IF s = t THEN 1 ELSE 0)
        /\ Num(wire["client"], Msg("Start", s)) = Num(wire'["client"], Msg("Start", s))
        /\ Num(wire'["client"], Msg("FileReq", s)) \in Nat
    <3>1. m = Msg("FileReq", s) <=> s = t
      BY <1>3 DEF Msg
    <3>2. m # Msg("Start", s)
      BY <1>3 DEF Msg
    <3>3. /\ Num(wire["client"], Msg("FileReq", s))
                 = Num(wire'["client"], Msg("FileReq", s))
                       + (IF m = Msg("FileReq", s) THEN 1 ELSE 0)
          /\ Num(wire'["client"], Msg("FileReq", s)) \in Nat
      BY <1>9, ReadCounts
    <3>4. /\ Num(wire["client"], Msg("Start", s))
                 = Num(wire'["client"], Msg("Start", s)) + (IF m = Msg("Start", s) THEN 1 ELSE 0)
          /\ Num(wire'["client"], Msg("Start", s)) \in Nat
      BY <1>9, ReadCounts
    <3> QED
      BY <3>1, <3>2, <3>3, <3>4
  <2>2. Asked(s) = Asked(s)' + (IF s = t THEN 1 ELSE 0) /\ Asked(s)' \in Nat
    <3>1. Num(out["client"].ctrl, Msg("FileReq", s)) \in Nat
      BY ControlCounts DEF Counts
    <3>2. Asked(s)' = Num(out["client"].ctrl, Msg("FileReq", s))
                        + Num(wire'["client"], Msg("FileReq", s))
      BY DEF Asked
    <3> QED
      BY <2>1, <3>1, <3>2 DEF Asked
  <2>3. Started(s)' <= Started(s)
    <3>1. PICK St : St = Msg("Start", s)
      OBVIOUS
    <3>2. /\ Num(strm'["server"][s].in, St) <= Num(strm["server"][s].in, St)
          /\ Num(strm'["server"][s].in, St) \in Nat /\ Num(strm["server"][s].in, St) \in Nat
      <4>1. Num(strm["server"][s].in, St) \in Nat
        BY <3>1, ControlCounts DEF Counts
      <4>2. CASE s # t
        <5>1. strm'["server"][s] = strm["server"][s]
          BY <1>8, <4>2
        <5> QED
          BY <4>1, <5>1
      <4>3. CASE s = t
        <5>1. strm'["server"][s].in = <<m>>
          <6>1. r.in = <<m>>
            BY <1>3, <1>4 DEF Made, NoStream
          <6> QED
            BY <1>7, <4>3, <6>1
        <5>2. m # St
          BY <1>3, <3>1 DEF Msg
        <5>3. Num(<<m>>, St) = 0
          BY <5>2, NumOne
        <5> QED
          BY <4>1, <5>1, <5>3
      <4> QED
        BY <4>2, <4>3
    <3>3. /\ Started(s) = Num(out["client"].ctrl, St) + Num(wire["client"], St)
                            + Num(Passing("server"), St) + Num(strm["server"][s].in, St)
          /\ Started(s)' = Num(out["client"].ctrl, St) + Num(wire["client"], St)
                            + Num(Passing("server"), St) + Num(strm'["server"][s].in, St)
      BY <1>10, <2>1, <3>1 DEF Started
    <3>4. /\ Num(out["client"].ctrl, St) \in Nat /\ Num(wire["client"], St) \in Nat
          /\ Num(Passing("server"), St) \in Nat
      BY <3>1, ControlCounts DEF Counts
    <3> QED
      BY <3>2, <3>3, <3>4
  <2>4. CASE s = t
    <3>1. View(s).svUp
      BY DEF View
    <3>2. SameSides(View(s), View(s)')
      BY DEF SameSides, View, Alive
    <3>3. SameQueues(View(s), View(s)')
      BY <1>1, <1>10 DEF SameQueues, View
    <3>4. View(s)'.cl = View(s).cl
      BY <1>8 DEF View
    <3>5. View(s)'.sv = Made(s)
      BY <1>4, <1>7, <2>4 DEF View
    <3>6. View(s).asked > 0 /\ View(s)'.asked = View(s).asked - 1
      <4>1. View(s).asked = Asked(s) /\ View(s)'.asked = Asked(s)'
        BY DEF View
      <4> QED
        BY <2>2, <2>4, <4>1
    <3>7. View(s)'.started > 0 => View(s).started > 0
      <4>1. View(s).started = Started(s) /\ View(s)'.started = Started(s)'
        BY DEF View
      <4>2. View(s) \in Views(s) /\ View(s)' \in Views(s)
        BY <1>9, ViewType, ViewTypeNext
      <4>3. View(s).started \in Nat
        BY <4>2, Numbers
      <4>4. View(s)'.started \in Nat
        BY <4>2, Numbers
      <4> QED
        BY <2>3, <4>1, <4>3, <4>4
    <3>8. MakesNew(s, View(s), View(s)')
      BY <3>1, <3>2, <3>3, <3>4, <3>5, <3>6, <3>7 DEF MakesNew
    <3> QED
      BY <3>8 DEF ViewStep
  <2>5. CASE s # t
    <3>1. Asked(s)' <= Asked(s)
      BY <2>2, <2>5
    <3>2. strm'["client"][s] = strm["client"][s] /\ strm'["server"][s] = strm["server"][s]
      BY <1>8, <2>5
    <3>3. SameServer(View(s), View(s)')
      BY <3>2 DEF SameServer, View
    <3>4. /\ Steady(s, out["server"].data, out'["server"].data)
          /\ Steady(s, wire["server"], wire'["server"])
          /\ Steady(s, Passing("client"), Passing("client")')
      BY <1>1, <1>10 DEF Steady
    <3>5. QuietConn
      BY DEF QuietConn
    <3> QED
      BY <1>9, <2>3, <3>1, <3>2, <3>3, <3>4, <3>5, RestsWhen
  <2> QED
    BY <2>4, <2>5
<1> QED
  BY <1>9, <1>11 DEF Stepped

\* The server reads another message.
LEMMA ServerDispatches ==
    ASSUME Types, NEW m, Reads("server", m), Dispatch("server", m)
    PROVE  Stepped
<1> USE SideFacts
<1>1. /\ WireOK' /\ m \in Msgs /\ wire'["server"] = wire["server"] /\ Passing("server") = <<>>
      /\ wire'["client"] = Tail(wire["client"])
  BY ReadsTypes
<1>2. wire["client"] # <<>> /\ loop["server"].pc = "read"
  BY DEF Reads
<1>3. CASE Crash("server")
  <2>1. ASSUME NEW s \in Streams, NEW a
        PROVE  Num(wire'["client"], Msg(a, s)) <= Num(wire["client"], Msg(a, s))
    <3>1. StrmOK /\ LoopOK /\ OutOK /\ WireOK
      BY DEF Types
    <3>2. wire["client"] \in Seq(Msgs)
      BY <3>1, QueueTypes
    <3>3. Thins(wire["client"], wire'["client"])
      BY <1>1, <1>2 DEF Thins
    <3> QED
      BY <3>2, <3>3, Thinner
  <2>2. \A s \in Streams : \A a : Num(wire'["client"], Msg(a, s)) <= Num(wire["client"], Msg(a, s))
    BY <2>1
  <2> QED
    BY <1>1, <1>3, <2>2, CrashServer
<1>4. CASE /\ loop' = [loop EXCEPT !["server"] =
                         IF strm["server"][m.s].reg /\ m.type # "FileReq" THEN [pc |-> "pass", msg |-> m]
                         ELSE IF m.type \in {"Close", "Complete"} THEN @
                         ELSE [pc |-> "tell", msg |-> m]]
           /\ UNCHANGED <<strm, out, close, conn, fails>>
  <2>1. /\ Types' /\ Passing("client")' = Passing("client")
        /\ Passing("server")' = IF strm["server"][m.s].reg /\ m.type # "FileReq" THEN <<m>> ELSE <<>>
    BY <1>1, <1>2, <1>4, DispatchTypes
  <2>2. ASSUME NEW s \in Streams
        PROVE  ViewStep(s, View(s), View(s)')
    <3>1. Asked(s)' <= Asked(s)
      <4>1. PICK Rq : Rq = Msg("FileReq", s)
        OBVIOUS
      <4>2. /\ Num(wire["client"], Rq) = Num(wire'["client"], Rq) + (IF m = Rq THEN 1 ELSE 0)
            /\ Num(wire'["client"], Rq) \in Nat
        BY <2>1, <4>1, ReadCounts
      <4>3. Num(out["client"].ctrl, Rq) \in Nat
        BY <4>1, ControlCounts DEF Counts
      <4>4. /\ Asked(s) = Num(out["client"].ctrl, Rq) + Num(wire["client"], Rq)
            /\ Asked(s)' = Num(out["client"].ctrl, Rq) + Num(wire'["client"], Rq)
        BY <1>4, <4>1 DEF Asked
      <4> QED
        BY <4>2, <4>3, <4>4
    <3>2. Started(s)' <= Started(s)
      <4>1. PICK St : St = Msg("Start", s)
        OBVIOUS
      <4>2. PICK e : e = IF m = St THEN 1 ELSE 0
        OBVIOUS
      <4>3. /\ Num(wire["client"], St) = Num(wire'["client"], St) + e
            /\ Num(wire'["client"], St) \in Nat
        BY <2>1, <4>1, <4>2, ReadCounts
      <4>4. Num(Passing("server")', St) \in Nat /\ Num(Passing("server")', St) <= e
        BY <2>1, <4>2, NumOne, NumEmpty
      <4>5. Num(Passing("server"), St) = 0
        BY <1>1, NumEmpty
      <4>6. Num(out["client"].ctrl, St) \in Nat /\ Num(strm["server"][s].in, St) \in Nat
        BY <4>1, ControlCounts DEF Counts
      <4>7. /\ Started(s) = Num(out["client"].ctrl, St) + Num(wire["client"], St)
                              + Num(Passing("server"), St) + Num(strm["server"][s].in, St)
            /\ Started(s)' = Num(out["client"].ctrl, St) + Num(wire'["client"], St)
                              + Num(Passing("server")', St) + Num(strm["server"][s].in, St)
        BY <1>4, <4>1 DEF Started
      <4>8. e \in Nat
        BY <4>2
      <4> QED
        BY <4>3, <4>4, <4>5, <4>6, <4>7, <4>8
    <3>3. SameServer(View(s), View(s)') /\ strm'["client"][s] = strm["client"][s]
      BY <1>4 DEF SameServer, View
    <3>4. /\ Steady(s, out["server"].data, out'["server"].data)
          /\ Steady(s, wire["server"], wire'["server"])
          /\ Steady(s, Passing("client"), Passing("client")')
      BY <1>1, <1>4, <2>1 DEF Steady
    <3>5. QuietConn
      BY <1>4 DEF QuietConn
    <3> QED
      BY <2>1, <3>1, <3>2, <3>3, <3>4, <3>5, RestsWhen
  <2> QED
    BY <2>1, <2>2 DEF Stepped
<1> QED
  BY <1>3, <1>4 DEF Dispatch

LEMMA ReadStepped ==
    ASSUME Types, NEW x \in Sides, Alive(x), ReadMsg(x)
    PROVE  Stepped
<1>1. CASE x = "client"
  BY <1>1, ClientReads
<1>2. CASE x = "server"
  <2>1. PICK m : m = Head(wire[Other(x)])
    OBVIOUS
  <2>2. Reads("server", m)
    BY <1>2, <2>1 DEF ReadMsg, Reads
  <2>3. CASE m.type # "FileReq" \/ strm["server"][m.s].reg
    <3>1. Dispatch("server", m)
      BY <1>2, <2>1, <2>3 DEF ReadMsg
    <3> QED
      BY <2>2, <3>1, ServerDispatches
  <2>4. CASE m.type = "FileReq" /\ ~ strm["server"][m.s].reg
    <3>1. /\ strm' = [strm EXCEPT !["server"][m.s] = Made(m.s)]
          /\ UNCHANGED <<loop, out, close, conn, fails>>
      BY <1>2, <2>1, <2>4 DEF ReadMsg
    <3>2. m \in Msgs
      BY <1>2, <2>2, ReadsTypes
    <3>3. PICK t \in Streams : t = m.s /\ m = Msg("FileReq", t)
      BY <2>4, <3>2 DEF Msgs, Of, Msg
    <3>4. PICK r : r = Made(t)
      OBVIOUS
    <3>5. strm' = [strm EXCEPT !["server"][t] = r]
      BY <3>1, <3>3, <3>4
    <3> QED
      BY <1>2, <2>2, <3>1, <3>3, <3>4, <3>5, ServerMakes
  <2> QED
    BY <2>3, <2>4
<1> QED
  BY <1>1, <1>2, SideFacts

\* The loop passes a message on to a stream that has not been closed.
Passes(x, t, m, r) ==
    /\ loop[x].pc = "pass" /\ m = loop[x].msg /\ m \in Of(AllTypes, {t})
    /\ r.in = Append(strm[x][t].in, m) /\ r = [strm[x][t] EXCEPT !.in = r.in]
    /\ strm' = [strm EXCEPT ![x][t] = r] /\ loop' = [loop EXCEPT ![x] = [pc |-> "read"]]
    /\ UNCHANGED <<out, wire, close, conn, fails>>

LEMMA PassesTypes ==
    ASSUME Types, NEW x \in Sides, NEW t \in Streams, NEW r \in Strm(t), NEW m,
           Passes(x, t, m, r)
    PROVE  /\ Types' /\ strm'[x][t] = r
           /\ \A y \in Sides, u \in Streams : y # x \/ u # t => strm'[y][u] = strm[y][u]
           /\ Passing(x) = <<m>> /\ Passing(x)' = <<>>
           /\ \A y \in Sides \ {x} : Passing(y)' = Passing(y)
<1>1. /\ loop[x].pc = "pass" /\ m = loop[x].msg
      /\ loop' = [loop EXCEPT ![x] = [pc |-> "read"]]
      /\ UNCHANGED <<out, wire, close, conn, fails>>
  BY DEF Passes
<1>2. strm' = [strm EXCEPT ![x][t] = r] /\ StrmOK
  BY DEF Passes, Types
<1>3. StrmOK' /\ strm'[x][t] = r
  <2>1. StrmOK'
    BY <1>2, StrmSet
  <2>2. DOMAIN strm = Sides /\ DOMAIN strm[x] = Streams
    BY <1>2 DEF StrmOK
  <2>3. strm'[x][t] = r
    BY <1>2, <2>2
  <2> QED
    BY <2>1, <2>3
<1>4. \A y \in Sides, u \in Streams : y # x \/ u # t => strm'[y][u] = strm[y][u]
  BY <1>2, StrmSet
<1>5. LoopOK /\ [pc |-> "read"] \in LoopRec
  BY DEF Types, LoopRec
<1>6. LoopOK' /\ loop'[x] = [pc |-> "read"]
  BY <1>1, <1>5, LoopSet
<1>7. \A y \in Sides \ {x} : loop'[y] = loop[y]
  BY <1>1, <1>5, LoopSet
<1>8. Types'
  BY <1>1, <1>3, <1>6, TypesKept DEF Types
<1>9. Passing(x) = <<m>>
  BY <1>1 DEF Passing
<1>10. Passing(x)' = <<>>
  BY <1>6 DEF Passing
<1>11. \A y \in Sides \ {x} : Passing(y)' = Passing(y)
  BY <1>7 DEF Passing
<1> QED
  BY <1>3, <1>4, <1>8, <1>9, <1>10, <1>11

LEMMA ClientPasses ==
    ASSUME Types, NEW t \in Streams, NEW r \in Strm(t), NEW m, Passes("client", t, m, r)
    PROVE  Stepped
<1> USE SideFacts
<1>1. /\ m \in Of(AllTypes, {t}) /\ UNCHANGED <<out, wire, close, conn, fails>>
      /\ r.in = Append(strm["client"][t].in, m)
      /\ r = [strm["client"][t] EXCEPT !.in = r.in]
  BY DEF Passes
<1>2. /\ Types' /\ Passing("client") = <<m>> /\ Passing("client")' = <<>>
      /\ Passing("server")' = Passing("server")
  BY PassesTypes
<1>3. strm'["client"][t] = r
  BY PassesTypes
<1>4. \A y \in Sides, u \in Streams : y # "client" \/ u # t => strm'[y][u] = strm[y][u]
  BY PassesTypes
<1>5. PICK c \in Strm(t) : c = strm["client"][t]
  BY StrmFacts
<1>6. /\ r.pc = c.pc /\ r.n = c.n /\ r.closed = c.closed /\ r.complete = c.complete
      /\ r.reg = c.reg
  BY <1>1, <1>5 DEF Strm, StreamRec
<1>7. ASSUME NEW s \in Streams
      PROVE  ViewStep(s, View(s), View(s)')
  <2>1. strm'["server"][s] = strm["server"][s]
    BY <1>4
  <2>2. Asked(s)' = Asked(s) /\ Started(s)' = Started(s)
    BY <1>1, <1>2, <2>1 DEF Asked, Started
  <2>3. Asked(s) \in Nat /\ Started(s) \in Nat
    BY ControlCounts DEF Counts, Asked, Started
  <2>4. CASE s = t
    <3>1. FewerAsked(View(s), View(s)')
      <4>1. View(s)'.asked = View(s).asked /\ View(s)'.started = View(s).started
        BY <2>2 DEF View
      <4>2. View(s).asked \in Nat
        BY ControlCounts, <2>3 DEF Counts
      <4> QED
        BY <4>1, <4>2 DEF FewerAsked
    <3>2. SameSides(View(s), View(s)')
      BY <1>1 DEF SameSides, View, Alive
    <3>3. /\ View(s)'.sv = View(s).sv /\ View(s)'.out = View(s).out
          /\ View(s)'.wire = View(s).wire
      BY <1>1, <2>1 DEF View
    <3>4. View(s).cl = c /\ View(s)'.cl = r
      BY <1>3, <1>5, <2>4 DEF View
    <3>5. View(s).pass = <<m>> /\ View(s)'.pass = <<>>
      BY <1>2 DEF View
    <3>6. \E h \in Of(AllTypes, {s}) :
             View(s).pass = <<h>> /\ View(s)'.cl.in = Append(View(s).cl.in, h)
      BY <1>1, <1>5, <2>4, <3>4, <3>5
    <3>7. PassedOn(s, View(s), View(s)')
      BY <1>6, <3>1, <3>2, <3>3, <3>4, <3>5, <3>6 DEF PassedOn
    <3> QED
      BY <3>7 DEF ViewStep
  <2>5. CASE s # t
    <3>1. m # D(s) /\ m # C(s) /\ m \in Msgs
      BY <1>1, <2>5 DEF D, C, Msg, Of, Msgs
    <3>2. Steady(s, Passing("client"), Passing("client")')
      <4>1. Num(<<m>>, D(s)) = 0 /\ Num(<<m>>, C(s)) = 0
        BY <3>1, NumOne
      <4>2. Num(<<>>, D(s)) = 0 /\ Num(<<>>, C(s)) = 0
        BY NumEmpty
      <4>3. Sorted(<<>>, s)
        BY DEF Sorted
      <4> QED
        BY <1>2, <4>1, <4>2, <4>3 DEF Steady
    <3>3. /\ Steady(s, out["server"].data, out'["server"].data)
          /\ Steady(s, wire["server"], wire'["server"])
      BY <1>1 DEF Steady
    <3>4. Asked(s)' <= Asked(s) /\ Started(s)' <= Started(s)
      BY <2>2, <2>3
    <3>5. strm'["client"][s] = strm["client"][s]
      BY <1>4, <2>5
    <3>6. SameServer(View(s), View(s)')
      BY <2>1 DEF SameServer, View
    <3>7. QuietConn
      BY <1>1 DEF QuietConn
    <3> QED
      BY <1>2, <3>2, <3>3, <3>4, <3>5, <3>6, <3>7, RestsWhen
  <2> QED
    BY <2>4, <2>5
<1> QED
  BY <1>2, <1>7 DEF Stepped

LEMMA ServerPasses ==
    ASSUME Types, NEW t \in Streams, NEW r \in Strm(t), NEW m, Passes("server", t, m, r)
    PROVE  Stepped
<1> USE SideFacts
<1>1. /\ m \in Of(AllTypes, {t}) /\ UNCHANGED <<out, wire, close, conn, fails>>
      /\ r.in = Append(strm["server"][t].in, m)
      /\ r = [strm["server"][t] EXCEPT !.in = r.in]
  BY DEF Passes
<1>2. /\ Types' /\ Passing("server") = <<m>> /\ Passing("server")' = <<>>
      /\ Passing("client")' = Passing("client")
  BY PassesTypes
<1>3. strm'["server"][t] = r
  BY PassesTypes
<1>4. \A y \in Sides, u \in Streams : y # "server" \/ u # t => strm'[y][u] = strm[y][u]
  BY PassesTypes
<1>5. PICK c \in Strm(t) : c = strm["server"][t]
  BY StrmFacts
<1>6. r.pc = c.pc /\ r.n = c.n /\ r.says = c.says /\ r.after = c.after
  BY <1>1, <1>5 DEF Strm, StreamRec
<1>7. ASSUME NEW s \in Streams
      PROVE  ViewStep(s, View(s), View(s)')
  <2>1. strm'["client"][s] = strm["client"][s]
    BY <1>4
  <2>2. Asked(s)' = Asked(s)
    BY <1>1 DEF Asked
  <2>3. Asked(s) \in Nat
    BY ControlCounts DEF Counts, Asked
  <2>4. Started(s)' <= Started(s)
    <3>1. PICK St : St = Msg("Start", s)
      OBVIOUS
    <3>2. PICK e : e = IF m = St THEN 1 ELSE 0
      OBVIOUS
    <3>3. Num(Passing("server"), St) = e /\ Num(Passing("server")', St) = 0
      BY <1>2, <3>2, NumOne, NumEmpty
    <3>4. Num(strm["server"][s].in, St) \in Nat
      BY <3>1, ControlCounts DEF Counts
    <3>5. Num(strm'["server"][s].in, St) = Num(strm["server"][s].in, St) + e
      <4>1. CASE s = t
        <5>1. strm["server"][s].in \in Seq(Of(AllTypes, {t}))
          BY <4>1, StrmFacts DEF Strm, StreamRec
        <5>2. strm'["server"][s].in = Append(strm["server"][s].in, m)
          BY <1>1, <1>3, <4>1
        <5> QED
          BY <1>1, <3>2, <5>1, <5>2, NumAppend
      <4>2. CASE s # t
        <5>1. strm'["server"][s] = strm["server"][s]
          BY <1>4, <4>2
        <5>2. m # St
          BY <1>1, <3>1, <4>2 DEF Of, Msg
        <5>3. e = 0
          BY <3>2, <5>2
        <5> QED
          BY <3>4, <5>1, <5>3
      <4> QED
        BY <4>1, <4>2
    <3>6. PICK k : k = Num(out["client"].ctrl, St) + Num(wire["client"], St)
      OBVIOUS
    <3>7. k \in Nat /\ e \in Nat
      BY <3>1, <3>2, <3>6, ControlCounts DEF Counts
    <3>8. /\ Started(s) = k + Num(Passing("server"), St) + Num(strm["server"][s].in, St)
          /\ Started(s)' = k + Num(Passing("server")', St) + Num(strm'["server"][s].in, St)
      BY <1>1, <3>1, <3>6 DEF Started
    <3> QED
      BY <3>3, <3>4, <3>5, <3>7, <3>8
  <2>5. Asked(s)' <= Asked(s)
    BY <2>2, <2>3
  <2>6. /\ Steady(s, out["server"].data, out'["server"].data)
        /\ Steady(s, wire["server"], wire'["server"])
        /\ Steady(s, Passing("client"), Passing("client")')
    BY <1>1, <1>2 DEF Steady
  <2>7. SameServer(View(s), View(s)')
    <3>1. CASE s = t
      <4>1. View(s).sv = c /\ View(s)'.sv = r
        BY <1>3, <1>5, <3>1 DEF View
      <4> QED
        BY <1>6, <4>1 DEF SameServer
    <3>2. CASE s # t
      <4>1. strm'["server"][s] = strm["server"][s]
        BY <1>4, <3>2
      <4> QED
        BY <4>1 DEF SameServer, View
    <3> QED
      BY <3>1, <3>2
  <2>8. QuietConn
    BY <1>1 DEF QuietConn
  <2> QED
    BY <1>2, <2>1, <2>4, <2>5, <2>6, <2>7, <2>8, RestsWhen
<1> QED
  BY <1>2, <1>7 DEF Stepped

LEMMA PassStepped ==
    ASSUME Types, NEW x \in Sides, PassOn(x)
    PROVE  Stepped
<1>1. PICK m : m = loop[x].msg
  OBVIOUS
<1>2. loop[x].pc = "pass" /\ loop[x] \in LoopRec
  BY DEF PassOn, Types, LoopOK
<1>3. m \in Of(AllTypes, Streams)
  BY <1>1, <1>2 DEF LoopRec
<1>4. PICK t \in Streams : t = m.s /\ m \in Of(AllTypes, {t})
  BY <1>3 DEF Of
<1>5. CASE strm[x][t].closed
  BY <1>1, <1>4, <1>5, CrashStepped DEF PassOn
<1>6. CASE ~ strm[x][t].closed
  <2>1. /\ Len(strm[x][t].in) < InCap
        /\ strm' = [strm EXCEPT ![x][t].in = Append(@, m)]
        /\ loop' = [loop EXCEPT ![x] = [pc |-> "read"]]
        /\ UNCHANGED <<out, wire, close, conn, fails>>
    BY <1>1, <1>4, <1>6 DEF PassOn
  <2>2. PICK c \in Strm(t) : c = strm[x][t]
    BY StrmFacts
  <2>3. DOMAIN strm = Sides /\ DOMAIN strm[x] = Streams
    BY DEF Types, StrmOK
  <2>4. PICK q : q = Append(c.in, m)
    OBVIOUS
  <2>5. PICK r : r = [c EXCEPT !.in = q]
    OBVIOUS
  <2>6. c \in StreamRec(t) /\ c.in \in Seq(Of(AllTypes, {t}))
    BY <2>2 DEF Strm, StreamRec
  <2>7. q \in Seq(Of(AllTypes, {t})) /\ Len(q) = Len(c.in) + 1 /\ Len(c.in) \in Nat
    BY <1>4, <2>4, <2>6, AppendProperties, LenProperties
  <2>8. r \in StreamRec(t) /\ r.in = q /\ r.pc = c.pc /\ r.says = c.says
    BY <2>5, <2>6, <2>7 DEF StreamRec
  <2>9. Len(q) <= InCap
    BY <2>1, <2>2, <2>7, CapsAssumption
  <2>10. r \in Strm(t)
    BY <2>2, <2>8, <2>9 DEF Strm
  <2>11. strm' = [strm EXCEPT ![x][t] = r]
    BY <2>1, <2>2, <2>3, <2>4, <2>5
  <2>12. Passes(x, t, m, r)
    BY <1>1, <1>2, <1>4, <2>1, <2>2, <2>4, <2>5, <2>8, <2>11 DEF Passes
  <2> QED
    BY <2>10, <2>12, ClientPasses, ServerPasses, SideFacts
<1> QED
  BY <1>5, <1>6

-----------------------------------------------------------------------------
(* The theorems. *)

LEMMA LoopStepped ==
    ASSUME Types, NEW x \in Sides, Alive(x), LoopStep(x)
    PROVE  Stepped
  BY ReadStepped, PassStepped, UnknownAnswered, ReadFailed DEF LoopStep

LEMMA StepStepped ==
    ASSUME IInv, NEW x \in Sides, Alive(x), Step(x)
    PROVE  Stepped
<1>1. Types
  BY DEF IInv
<1>2. CASE \E s \in Streams : StreamStep(x, s)
  BY <1>2, StreamStepped
<1>3. CASE \E k \in Closers : CloseStep(x, k)
  BY <1>1, <1>3, CloseStepped
<1>4. CASE LoopStep(x)
  BY <1>1, <1>4, LoopStepped
<1>5. CASE Send(x)
  BY <1>1, <1>5, SendStepped
<1>6. CASE Block(x) \/ StopSending(x) \/ GoDown(x) \/ GiveUp(x)
  BY <1>1, <1>6, DownStepped
<1>7. CASE SendOnClosed(x) \/ MapRace(x)
  BY <1>1, <1>7, CrashesStepped
<1> QED
  BY <1>2, <1>3, <1>4, <1>5, <1>6, <1>7 DEF Step

LEMMA NextStepped ==
    ASSUME IInv, Next
    PROVE  Stepped
<1>1. Types /\ "client" \in Sides
  BY SideFacts DEF IInv
<1>2. CASE \E x \in Sides : Alive(x) /\ Step(x)
  BY <1>2, StepStepped
<1>3. CASE Alive("client") /\ AppClose
  BY <1>1, <1>3, AppClosed
<1>4. CASE Alive("client") /\ \E s \in Streams : Ask(s) \/ Fail(s) \/ Refuse(s)
  <2>1. PICK s \in Streams : Ask(s) \/ Fail(s) \/ Refuse(s)
    BY <1>4
  <2>2. CASE Ask(s)
    BY <1>1, <1>4, <2>2, AskStep
  <2>3. CASE Fail(s)
    BY <1>4, <2>3, FailStep
  <2>4. CASE Refuse(s)
    BY <1>1, <2>4, CrashesStepped
  <2> QED
    BY <2>1, <2>2, <2>3, <2>4
<1> QED
  BY <1>2, <1>3, <1>4 DEF Next

LEMMA InitTypes ==
    ASSUME Init
    PROVE  Types
<1>1. StrmOK
  <2>1. ASSUME NEW s \in Streams
        PROVE  NoStream \in Strm(s)
    <3>1. NoStream \in StreamRec(s)
      BY NumsAssumption DEF NoStream, StreamRec
    <3>2. Len(NoStream.in) <= InCap /\ NoStream.pc # "tell"
      BY CapsAssumption DEF NoStream
    <3> QED
      BY <3>1, <3>2 DEF Strm
  <2> QED
    BY <2>1 DEF Init, StrmOK, NoStreams
<1>2. LoopOK /\ CloseOK
  BY DEF Init, LoopOK, LoopRec, Reading, CloseOK, NotClosed
<1>3. OutOK
  <2>1. \A x \in Sides : /\ NoOut \in OutRec(x)
                         /\ Len(NoOut.ctrl) <= OutCap /\ Len(NoOut.data) <= OutCap
    BY CapsAssumption DEF NoOut, OutRec
  <2> QED
    BY <2>1 DEF Init, OutOK
<1>4. WireOK
  BY DEF Init, WireOK
<1>5. ConnOK
  <2>1. Open \in ConnRec /\ ~ Open.crashed
    BY DEF Open, ConnRec
  <2> QED
    BY <2>1 DEF Init, ConnOK
<1>6. fails \in 0 .. MaxFails
  BY NumsAssumption DEF Init
<1> QED
  BY <1>1, <1>2, <1>3, <1>4, <1>5, <1>6 DEF Types

LEMMA InitGood ==
    ASSUME Init, NEW s \in Streams
    PROVE  Good(s, View(s))
<1> USE SideFacts
<1>1. PICK v : v = View(s)
  OBVIOUS
<1>2. v.cl = NoStream /\ v.sv = NoStream /\ v.out = <<>> /\ v.wire = <<>> /\ v.pass = <<>>
  BY <1>1 DEF Init, View, NoStreams, NoOut, Passing, Reading
<1>3. v.asked = 0 /\ v.started = 0
  <2>1. /\ Num(out["client"].ctrl, Msg("FileReq", s)) = 0
        /\ Num(wire["client"], Msg("FileReq", s)) = 0
        /\ Num(out["client"].ctrl, Msg("Start", s)) = 0
        /\ Num(wire["client"], Msg("Start", s)) = 0
    BY NumEmpty DEF Init, NoOut
  <2>2. Num(Passing("server"), Msg("Start", s)) = 0
    BY NumEmpty DEF Init, Passing, Reading
  <2>3. Num(strm["server"][s].in, Msg("Start", s)) = 0
    BY NumEmpty DEF Init, NoStreams, NoStream
  <2>4. Asked(s) = 0 /\ Started(s) = 0
    BY <2>1, <2>2, <2>3 DEF Asked, Started
  <2> QED
    BY <1>1, <2>4 DEF View
<1>4. /\ v.cl.n = 0 /\ v.cl.in = <<>> /\ v.cl.pc = "idle" /\ ~ v.cl.closed
      /\ ~ v.cl.complete /\ ~ v.cl.reg
      /\ v.sv.n = 0 /\ v.sv.pc = "idle" /\ v.sv.after = "done"
  BY <1>2 DEF NoStream
<1>5. /\ Num(v.cl.in, D(s)) = 0 /\ Num(v.pass, D(s)) = 0 /\ Num(v.wire, D(s)) = 0
      /\ Num(v.out, D(s)) = 0 /\ Num(v.cl.in, C(s)) = 0 /\ Num(v.pass, C(s)) = 0
      /\ Num(v.wire, C(s)) = 0 /\ Num(v.out, C(s)) = 0
  BY <1>2, <1>4, NumEmpty
<1>6. Near(s, v) = 0 /\ Total(s, v) = 0 /\ ~ Written(s, v)
  BY <1>4, <1>5 DEF Near, Total, Written
<1>7. ClientOK(v)
  BY <1>4 DEF ClientOK
<1>8. AskOK(s, v)
  BY <1>3, <1>4, <1>5, <1>6 DEF AskOK, Untouched
<1>9. StartOK(s, v)
  BY <1>3, <1>4, <1>6 DEF StartOK
<1>10. OrderOK(s, v)
  <2>1. Sorted(<<>>, s)
    BY DEF Sorted
  <2> QED
    BY <1>2, <1>4, <1>5, <1>6, <2>1 DEF OrderOK
<1>11. ServerOK(s, v)
  BY <1>4, <1>5, <1>6 DEF ServerOK
<1>12. CountOK(s, v)
  BY <1>4, <1>6, NumsAssumption DEF CountOK
<1> QED
  BY <1>1, <1>7, <1>8, <1>9, <1>10, <1>11, <1>12 DEF Good

LEMMA InitInv == Init => IInv
  BY InitTypes, InitGood DEF IInv

LEMMA NextInv == IInv /\ [Next]_vars => IInv'
<1> SUFFICES ASSUME IInv, [Next]_vars
             PROVE  IInv'
  OBVIOUS
<1>1. Stepped
  <2>1. CASE Next
    BY <2>1, NextStepped
  <2>2. CASE UNCHANGED vars
    <3>1. UNCHANGED <<strm, loop, out, wire, close, conn, fails>>
      BY <2>2 DEF vars
    <3>2. QuietConn
      BY <3>1 DEF QuietConn
    <3>3. Types /\ ConnOK' /\ CloseOK'
      BY <3>1, TypesKept DEF IInv, Types
    <3> QED
      BY <3>1, <3>2, <3>3, ConnStepped
  <2> QED
    BY <2>1, <2>2
<1>2. Types' /\ \A s \in Streams : ViewStep(s, View(s), View(s)')
  BY <1>1 DEF Stepped
<1>3. Types /\ \A s \in Streams : Good(s, View(s))
  BY DEF IInv
<1>4. ASSUME NEW s \in Streams
      PROVE  Good(s, View(s)')
  <2>1. View(s) \in Views(s)
    BY <1>3, ViewType
  <2>2. View(s)' \in Views(s)
    BY <1>2, ViewTypeNext
  <2> QED
    BY <1>2, <1>3, <2>1, <2>2, ViewStepKeeps
<1>5. (\A s \in Streams : Good(s, View(s)))' <=> \A s \in Streams : Good(s, View(s)')
  BY DEF Good, ClientOK, AskOK, StartOK, OrderOK, ServerOK, CountOK, Untouched, PastStart,
         Live, Written, Total, Near, Sorted, Num, D, C, Msg
<1> QED
  BY <1>2, <1>4, <1>5 DEF IInv

LEMMA AlwaysInv == Spec => []IInv
  BY InitInv, NextInv, PTL DEF Spec

LEMMA InvTypes == IInv => TypeOK
<1> SUFFICES ASSUME IInv
             PROVE  TypeOK
  OBVIOUS
<1>1. Types
  BY DEF IInv
<1>2. ASSUME NEW x \in Sides, NEW s \in Streams
      PROVE  /\ strm[x][s].pc \in {"idle", "sent", "made", "resp", "start", "recv", "req",
                                   "reply", "wait", "send", "tell", "close", "done"}
             /\ strm[x][s].n \in 0 .. NumData /\ Len(strm[x][s].in) <= InCap
             /\ {strm[x][s].reg, strm[x][s].closed, strm[x][s].complete} \subseteq BOOLEAN
  <2>1. strm[x][s] \in Strm(s)
    BY <1>1, StrmFacts
  <2>2. strm[x][s] \in StreamRec(s) /\ Len(strm[x][s].in) <= InCap
    BY <2>1 DEF Strm
  <2> QED
    BY <2>2 DEF StreamRec
<1>3. ASSUME NEW x \in Sides
      PROVE  loop[x].pc \in {"read", "pass", "tell", "end"}
  <2>1. loop[x] \in LoopRec
    BY <1>1 DEF Types, LoopOK
  <2> QED
    BY <2>1 DEF LoopRec
<1>4. ASSUME NEW x \in Sides
      PROVE  Len(out[x].ctrl) <= OutCap /\ Len(out[x].data) <= OutCap
  BY <1>1 DEF Types, OutOK
<1>5. ASSUME NEW x \in Sides
      PROVE  /\ conn[x].btp \in {"up", "down", "stuck"}
             /\ conn[x].sender \in {"run", "blocked", "done"}
             /\ {conn[x].stop, conn[x].shut, conn[x].crashed} \subseteq BOOLEAN
  <2>1. conn[x] \in ConnRec
    BY <1>1 DEF Types, ConnOK
  <2> QED
    BY <2>1 DEF ConnRec
<1>6. ASSUME NEW x \in Sides, NEW k \in Closers
      PROVE  close[x][k] \in {"no", "check", "close", "wait", "end"}
  BY <1>1 DEF Types, CloseOK
<1>7. fails \in 0 .. MaxFails
  BY <1>1 DEF Types
<1> QED
  BY <1>2, <1>3, <1>4, <1>5, <1>6, <1>7 DEF TypeOK

LEMMA InvData == IInv => DataBeforeClose
<1> SUFFICES ASSUME IInv, NEW s \in Streams, strm["client"][s].complete
             PROVE  strm["client"][s].n = NumData
  BY DEF DataBeforeClose
<1>1. Good(s, View(s)) /\ View(s).cl = strm["client"][s]
  BY ViewFacts DEF IInv
<1> QED
  BY <1>1 DEF Good, ClientOK

-----------------------------------------------------------------------------
\* Type correctness, and the capacity of outCtrl, outData and of each stream's in
\* channel, whatever the capacities are (conn.go, the select that queues a message).
THEOREM TypeCorrect == Spec => []TypeOK
  BY AlwaysInv, InvTypes, PTL

\* A stream that completes has all of the file's Data, for any number of streams and
\* of Data messages, with the connection going down, given up or closed and with
\* either process ending at any step (conn.go sendClosePacket, sendMessages).
THEOREM DataCorrect == Spec => []DataBeforeClose
  BY AlwaysInv, InvData, PTL
=============================================================================
