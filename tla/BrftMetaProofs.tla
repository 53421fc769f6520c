--------------------------- MODULE BrftMetaProofs ---------------------------
(***************************************************************************)
(* What holds of BrftMeta for any number of callers, listings of any       *)
(* length and queues of any capacity.                                      *)
(*                                                                         *)
(* IInv looks at the responses that have left the server's handler for no  *)
(* caller's channel yet as one sequence, Flight: whole answers, one after  *)
(* the other, the first possibly begun.  What the first caller in the      *)
(* queue has collected is continued by the head of Flight, and there is    *)
(* no answer to come for which there is no call in the queue.              *)
(***************************************************************************)
EXTENDS BrftMeta, ModuloLemmas, CountLemmas, SequenceTheorems

Items == Requests \X Nat

\* The responses there are.
Parts == UNION {{Part(r, off) : off \in 0 .. r} : r \in Requests}

\* How many items of the listing come before those of a response.
Off(m) == IF IsLast(m) THEN m.req - Len(m.items) ELSE m.items[1][2] - 1

\* After the last response of a listing comes the first of another one.
Follows(m, n) == IF IsLast(m) THEN Off(n) = 0
                              ELSE n.req = m.req /\ Off(n) = Off(m) + MaxItems

Chained(q) == /\ \A i \in 1 .. Len(q) - 1 : Follows(q[i], q[i + 1])
              /\ q # <<>> => IsLast(q[Len(q)])

Prefix(r, n) == [k \in 1 .. n |-> <<r, k>>]

Flight == IF loop.pc = "pass" THEN <<loop.msg>> \o (down \o todo) ELSE down \o todo

\* What caller c has collected so far is what comes before m.
Continues(c, m) == call[c].got = Prefix(m.req, Off(m))

InQueue(c) == \E i \in DOMAIN queue : queue[i] = c

Types ==
    /\ call \in [Callers -> [pc : {"idle", "send", "wait"}, req : Requests \cup {0},
                             got : Seq(Items)]]
    /\ queue \in Seq(Callers)
    /\ chan \in [Callers -> Seq(Parts)] /\ \A c \in Callers : Len(chan[c]) <= 1
    /\ up \in Seq(Requests) /\ Len(up) <= OutCap
    /\ todo \in Seq(Parts) /\ down \in Seq(Parts) /\ Len(down) <= OutCap
    /\ loop.pc \in {"read", "pass"} /\ (loop.pc = "pass" => loop.msg \in Parts)
    /\ leaked = FALSE /\ lost \in BOOLEAN

\* Those behind the first in the queue have nothing yet, nor has one who has not
\* sent its request, who may be the first.
QueueOK ==
    /\ \A i, j \in DOMAIN queue : queue[i] = queue[j] => i = j
    /\ \A i \in DOMAIN queue : /\ i > 1 => chan[queue[i]] = <<>> /\ call[queue[i]].got = <<>>
                               /\ ~ lost => call[queue[i]].pc # "idle"
    /\ \A c \in Callers : /\ call[c].pc = "send" => call[c].got = <<>> /\ call[c].req \in Requests
                          /\ ~ lost /\ call[c].pc = "idle" => chan[c] = <<>>

\* A response in a channel continues what its caller has, and is followed by the
\* head of Flight unless it is the last and its caller has left the queue.
ChanOK == \A c \in Callers : chan[c] # <<>> => LET m == chan[c][1] IN
    /\ Continues(c, m)
    /\ IF IsLast(m) THEN ~ InQueue(c)
       ELSE /\ queue # <<>> /\ queue[1] = c
            /\ Flight # <<>> /\ Follows(m, Flight[1])

HeadOK == queue # <<>> /\ chan[queue[1]] = <<>> =>
    IF Flight = <<>> THEN call[queue[1]].got = <<>> ELSE Continues(queue[1], Flight[1])

Senders   == {c \in Callers : call[c].pc = "send"}
Finals(q) == {i \in DOMAIN q : IsLast(q[i])}
Passing   == IF loop.pc = "pass" /\ IsLast(loop.msg) THEN 1 ELSE 0

\* No answer comes, or will come, without a call in the queue.
Awaited == Len(queue) >= Cardinality(Senders) + Len(up) + Cardinality(Finals(todo))
                           + Cardinality(Finals(down)) + Passing

IInv == Types /\ QueueOK /\ ChanOK /\ HeadOK /\ Chained(Flight) /\ Awaited

-----------------------------------------------------------------------------
(* The responses of a listing. *)

LEMMA PartFacts ==
    ASSUME NEW r \in Requests, NEW off \in 0 .. r, NEW m, m = Part(r, off)
    PROVE  /\ m \in Parts /\ m.req = r /\ m.items \in Seq(Items)
           /\ Len(m.items) = Smaller(MaxItems, r - off)
           /\ \A k \in 1 .. Len(m.items) : m.items[k] = <<r, off + k>>
           /\ IsLast(m) <=> r - off < MaxItems
           /\ Off(m) = off
<1>1. r \in Nat /\ MaxItems \in Nat /\ MaxItems > 1
  BY RequestsAssumption, CapsAssumption
<1>2. m \in Parts
  BY DEF Parts
<1> DEFINE n == Smaller(MaxItems, r - off)
           s == [k \in 1 .. n |-> <<r, off + k>>]
<1>3. n \in Nat /\ n <= r - off /\ n <= MaxItems /\ (n < MaxItems <=> r - off < MaxItems)
      /\ (n < MaxItems => n = r - off)
  BY <1>1 DEF Smaller
<1>4. m.req = r /\ m.items = s
  <2>1. \A k \in 1 .. n : Listing(r)[off + k] = <<r, off + k>>
    BY <1>1, <1>3 DEF Listing
  <2> QED
    BY <2>1 DEF Part, Resp
<1>5. s \in Seq(Items) /\ Len(s) = n /\ \A k \in 1 .. n : s[k] = <<r, off + k>>
  <2>1. \A k \in 1 .. n : <<r, off + k>> \in Items
    BY <1>1, <1>3 DEF Items
  <2> QED
    BY <1>3, <2>1
<1> HIDE DEF s, n
<1>6. IsLast(m) <=> r - off < MaxItems
  BY <1>3, <1>4, <1>5 DEF IsLast
<1>7. Off(m) = off
  <2>1. CASE IsLast(m)
    <3>1. m.req - Len(m.items) = off
      BY <1>1, <1>3, <1>4, <1>5, <1>6, <2>1
    <3> QED
      BY <2>1, <3>1 DEF Off
  <2>2. CASE ~ IsLast(m)
    <3>1. n >= 1 /\ s[1] = <<r, off + 1>>
      BY <1>1, <1>3, <1>5, <1>6, <2>2
    <3> QED
      BY <1>4, <2>2, <3>1 DEF Off
  <2> QED
    BY <2>1, <2>2
<1> QED
  BY <1>2, <1>4, <1>5, <1>6, <1>7 DEF n

\* Every response is a part of a listing.
LEMMA PartsFacts ==
    ASSUME NEW m \in Parts
    PROVE  /\ m.req \in Requests /\ m.req \in Nat /\ Off(m) \in 0 .. m.req
           /\ m.items \in Seq(Items)
           /\ \A k \in 1 .. Len(m.items) : m.items[k] = <<m.req, Off(m) + k>>
           /\ IF IsLast(m) THEN Off(m) + Len(m.items) = m.req
                           ELSE Len(m.items) = MaxItems /\ Off(m) + MaxItems <= m.req
<1>0. PICK r \in Requests : m \in {Part(r, off) : off \in 0 .. r}
  BY DEF Parts
<1>1. PICK off \in 0 .. r : m = Part(r, off)
  BY <1>0
<1>2. r \in Nat /\ MaxItems \in Nat
  BY RequestsAssumption, CapsAssumption
<1>3. /\ m.req = r /\ m.items \in Seq(Items) /\ Off(m) = off
      /\ Len(m.items) = Smaller(MaxItems, r - off)
      /\ \A k \in 1 .. Len(m.items) : m.items[k] = <<r, off + k>>
      /\ IsLast(m) <=> r - off < MaxItems
  BY <1>1, PartFacts
<1> QED
  BY <1>2, <1>3 DEF Smaller

LEMMA PrefixFacts ==
    ASSUME NEW r \in Requests, NEW n \in Nat
    PROVE  /\ Prefix(r, n) \in Seq(Items) /\ Len(Prefix(r, n)) = n
           /\ \A k \in 1 .. n : Prefix(r, n)[k] = <<r, k>>
  BY DEF Prefix, Items

\* A response appended to what comes before it.
LEMMA PrefixGrows ==
    ASSUME NEW m \in Parts
    PROVE  /\ Prefix(m.req, Off(m)) \in Seq(Items)
           /\ Prefix(m.req, Off(m)) \o m.items = Prefix(m.req, Off(m) + Len(m.items))
<1> DEFINE r == m.req
           o == Off(m)
           s == m.items
           p == Prefix(r, o)
           q == Prefix(r, o + Len(s))
<1>1. /\ r \in Requests /\ o \in Nat /\ s \in Seq(Items)
      /\ \A k \in 1 .. Len(s) : s[k] = <<r, o + k>>
  BY PartsFacts
<1>2. Len(s) \in Nat /\ o + Len(s) \in Nat
  BY <1>1, LenProperties
<1> HIDE DEF r, o, s
<1>3. p \in Seq(Items) /\ Len(p) = o /\ \A k \in 1 .. o : p[k] = <<r, k>>
  BY <1>1, PrefixFacts
<1>4. /\ q \in Seq(Items) /\ Len(q) = o + Len(s)
      /\ \A k \in 1 .. o + Len(s) : q[k] = <<r, k>>
  BY <1>1, <1>2, PrefixFacts
<1> HIDE DEF p, q
<1>5. /\ p \o s \in Seq(Items) /\ Len(p \o s) = o + Len(s)
      /\ \A i \in 1 .. o + Len(s) : (p \o s)[i] = IF i <= o THEN p[i] ELSE s[i - o]
  BY <1>1, <1>3, ConcatProperties
<1>6. ASSUME NEW k \in 1 .. o + Len(s)
      PROVE  (p \o s)[k] = q[k]
  <2>1. CASE k <= o
    <3>1. k \in 1 .. o /\ (p \o s)[k] = p[k]
      BY <1>1, <1>2, <1>5, <2>1
    <3>2. p[k] = <<r, k>> /\ q[k] = <<r, k>>
      BY <1>3, <1>4, <3>1
    <3> QED
      BY <3>1, <3>2
  <2>2. CASE ~ (k <= o)
    <3>1. k - o \in 1 .. Len(s) /\ o + (k - o) = k
      BY <1>1, <1>2, <2>2
    <3>2. s[k - o] = <<r, k>>
      BY <1>1, <3>1
    <3> QED
      BY <1>4, <1>5, <2>2, <3>2
  <2> QED
    BY <2>1, <2>2
<1>7. p \o s = q
  BY <1>4, <1>5, <1>6, SeqEqual
<1> QED
  BY <1>3, <1>7 DEF p, q, r, o, s

LEMMA PrefixEnds ==
    ASSUME NEW r \in Requests
    PROVE  Prefix(r, 0) = <<>> /\ Prefix(r, r) = Listing(r)
  BY DEF Prefix, Listing

LEMMA SplitFacts ==
    ASSUME NEW r \in Requests
    PROVE  LET s == Split(r) IN
           /\ s \in Seq(Parts) /\ Len(s) = Fulls(r) + 1 /\ Fulls(r) \in Nat
           /\ Off(s[1]) = 0 /\ s # <<>>
           /\ \A i \in DOMAIN s : s[i].req = r /\ (IsLast(s[i]) <=> i = Fulls(r) + 1)
           /\ Chained(s)
<1> DEFINE n == Fulls(r)
           off(i) == (i - 1) * MaxItems
           s == Split(r)
<1>1. r \in Nat /\ MaxItems \in Nat /\ MaxItems > 1
  BY RequestsAssumption, CapsAssumption
<1>2. n \in Nat /\ n * MaxItems <= r /\ r < n * MaxItems + MaxItems
  <2>1. MaxItems \in Nat \ {0}
    BY <1>1
  <2>2. /\ r = MaxItems * (r \div MaxItems) + (r % MaxItems)
        /\ r % MaxItems \in 0 .. MaxItems - 1 /\ r \div MaxItems \in Int
    BY <1>1, <2>1, DivMod
  <2>3. r \div MaxItems >= 0
    BY <1>1, <2>1
  <2> QED
    BY <1>1, <2>2, <2>3 DEF Fulls
<1>3. ASSUME NEW i \in 1 .. n + 1
      PROVE  /\ off(i) \in 0 .. r /\ (r - off(i) < MaxItems <=> i = n + 1)
             /\ i \in 1 .. n => off(i + 1) = off(i) + MaxItems
  <2>1. off(i) \in Nat /\ off(i) + (n + 1 - i) * MaxItems = n * MaxItems
    BY <1>1, <1>2
  <2>2. i = n + 1 => (n + 1 - i) * MaxItems = 0
    BY <1>1, <1>2
  <2>3. i # n + 1 => (n + 1 - i) * MaxItems >= MaxItems
    <3>1. ASSUME i # n + 1
          PROVE  (n + 1 - i) * MaxItems >= MaxItems
      <4>1. n - i \in Nat
        BY <1>2, <3>1
      <4>2. (n + 1 - i) * MaxItems = (n - i) * MaxItems + MaxItems /\ (n - i) * MaxItems \in Nat
        BY <1>1, <1>2, <4>1
      <4> QED
        BY <1>1, <4>2
    <3> QED
      BY <3>1
  <2>4. (n + 1 - i) * MaxItems \in Nat
    BY <1>1, <1>2, <2>2, <2>3
  <2>5. off(i + 1) = off(i) + MaxItems
    BY <1>1
  <2> QED
    BY <1>1, <1>2, <2>1, <2>2, <2>3, <2>4, <2>5
<1>4. ASSUME NEW i \in 1 .. n + 1
      PROVE  /\ Part(r, off(i)) \in Parts /\ Part(r, off(i)).req = r
             /\ Off(Part(r, off(i))) = off(i)
             /\ IsLast(Part(r, off(i))) <=> i = n + 1
  BY <1>3, PartFacts
<1>5. /\ s \in Seq(Parts) /\ Len(s) = n + 1 /\ DOMAIN s = 1 .. n + 1
      /\ \A i \in 1 .. n + 1 : s[i] = Part(r, off(i))
  BY <1>2, <1>4 DEF Split
<1> HIDE DEF s
<1>6. \A i \in 1 .. n + 1 : /\ s[i].req = r /\ Off(s[i]) = off(i)
                            /\ IsLast(s[i]) <=> i = n + 1
  BY <1>4, <1>5
<1>7. Off(s[1]) = 0 /\ s # <<>>
  <2>1. off(1) = 0
    BY <1>1
  <2> QED
    BY <1>2, <1>5, <1>6, <2>1
<1>8. Chained(s)
  <2>1. ASSUME NEW i \in 1 .. n
        PROVE  Follows(s[i], s[i + 1])
    <3>1. i \in 1 .. n + 1 /\ i + 1 \in 1 .. n + 1 /\ i # n + 1
      BY <1>2
    <3> QED
      BY <1>3, <1>6, <3>1 DEF Follows
  <2> QED
    BY <1>2, <1>5, <1>6, <2>1 DEF Chained
<1> QED
  BY <1>2, <1>5, <1>6, <1>7, <1>8 DEF s

-----------------------------------------------------------------------------
(* What is on its way, as one sequence. *)

LEMMA ChainTail ==
    ASSUME NEW q \in Seq(Parts), q # <<>>, Chained(q)
    PROVE  /\ Chained(Tail(q))
           /\ IF Tail(q) = <<>> THEN IsLast(q[1]) ELSE Follows(q[1], Tail(q)[1])
<1>1. /\ Len(q) \in Nat \ {0} /\ Tail(q) \in Seq(Parts) /\ Len(Tail(q)) = Len(q) - 1
      /\ \A i \in 1 .. Len(q) - 1 : Tail(q)[i] = q[i + 1]
      /\ (Tail(q) = <<>> <=> Len(q) = 1)
  <2>1. /\ Len(q) \in Nat \ {0} /\ Tail(q) \in Seq(Parts) /\ Len(Tail(q)) = Len(q) - 1
        /\ \A i \in 1 .. Len(Tail(q)) : Tail(q)[i] = q[i + 1]
    BY EmptySeq, HeadTailProperties
  <2>2. Tail(q) = <<>> <=> Len(Tail(q)) = 0
    BY <2>1, EmptySeq
  <2> QED
    BY <2>1, <2>2
<1>2. PICK t : t = Tail(q)
  OBVIOUS
<1>3. \A i \in 1 .. Len(t) - 1 : Follows(t[i], t[i + 1])
  <2>1. ASSUME NEW i \in 1 .. Len(t) - 1
        PROVE  Follows(t[i], t[i + 1])
    <3>1. i \in 1 .. Len(q) - 1 /\ i + 1 \in 1 .. Len(q) - 1
      BY <1>1, <1>2
    <3>2. t[i] = q[i + 1] /\ t[i + 1] = q[(i + 1) + 1]
      BY <1>1, <1>2, <3>1
    <3> QED
      BY <3>1, <3>2 DEF Chained
  <2> QED
    BY <2>1
<1>4. t # <<>> => IsLast(t[Len(t)])
  <2>1. t # <<>> => Len(t) \in 1 .. Len(q) - 1 /\ t[Len(t)] = q[Len(t) + 1]
                    /\ Len(t) + 1 = Len(q)
    BY <1>1, <1>2
  <2> QED
    BY <2>1 DEF Chained
<1>5. IF t = <<>> THEN IsLast(q[1]) ELSE Follows(q[1], t[1])
  <2>1. t = <<>> => Len(q) = 1
    BY <1>1, <1>2
  <2>2. t # <<>> => 1 \in 1 .. Len(q) - 1 /\ t[1] = q[1 + 1]
    BY <1>1, <1>2
  <2> QED
    BY <2>1, <2>2 DEF Chained
<1> QED
  BY <1>2, <1>3, <1>4, <1>5 DEF Chained

\* An answer begins where the last one ended.
LEMMA ChainAnswer ==
    ASSUME NEW q \in Seq(Parts), NEW s \in Seq(Parts), s # <<>>, Chained(q), Chained(s),
           Off(s[1]) = 0
    PROVE  /\ Chained(q \o s) /\ q \o s # <<>> /\ q \o s \in Seq(Parts)
           /\ (q \o s)[1] = IF q = <<>> THEN s[1] ELSE q[1]
<1>1. /\ Len(q) \in Nat /\ Len(s) \in Nat \ {0} /\ (q = <<>> <=> Len(q) = 0)
  BY EmptySeq
<1>2. /\ q \o s \in Seq(Parts) /\ Len(q \o s) = Len(q) + Len(s)
      /\ \A i \in 1 .. Len(q) + Len(s) :
             (q \o s)[i] = IF i <= Len(q) THEN q[i] ELSE s[i - Len(q)]
  BY ConcatProperties
<1>3. PICK u : u = q \o s
  OBVIOUS
<1>4. ASSUME NEW i \in 1 .. Len(q) + Len(s) - 1
      PROVE  Follows(u[i], u[i + 1])
  <2>1. /\ u[i] = IF i <= Len(q) THEN q[i] ELSE s[i - Len(q)]
        /\ u[i + 1] = IF i + 1 <= Len(q) THEN q[i + 1] ELSE s[(i + 1) - Len(q)]
    BY <1>1, <1>2, <1>3
  <2>2. CASE i < Len(q)
    <3>1. i \in 1 .. Len(q) - 1 /\ u[i] = q[i] /\ u[i + 1] = q[i + 1]
      BY <1>1, <2>1, <2>2
    <3> QED
      BY <3>1 DEF Chained
  <2>3. CASE i = Len(q)
    <3>1. u[i] = q[Len(q)] /\ u[i + 1] = s[1] /\ q # <<>>
      BY <1>1, <2>1, <2>3
    <3> QED
      BY <3>1 DEF Chained, Follows
  <2>4. CASE i > Len(q)
    <3>0. i - Len(q) \in 1 .. Len(s) - 1
      BY <1>1, <2>4
    <3>1. PICK j \in 1 .. Len(s) - 1 : j = i - Len(q)
      BY <3>0
    <3>2. u[i] = s[j] /\ u[i + 1] = s[j + 1]
      BY <1>1, <2>1, <2>4, <3>1
    <3> QED
      BY <3>2 DEF Chained
  <2> QED
    BY <1>1, <2>2, <2>3, <2>4
<1>5. u # <<>> /\ IsLast(u[Len(q) + Len(s)])
  <2>1. u[Len(q) + Len(s)] = s[Len(s)]
    BY <1>1, <1>2, <1>3
  <2> QED
    BY <1>1, <1>2, <1>3, <2>1 DEF Chained
<1>6. u[1] = IF q = <<>> THEN s[1] ELSE q[1]
  BY <1>1, <1>2, <1>3
<1> QED
  BY <1>2, <1>3, <1>4, <1>5, <1>6 DEF Chained

LEMMA FlightType ==
    ASSUME Types
    PROVE  /\ down \o todo \in Seq(Parts) /\ Flight \in Seq(Parts)
           /\ loop.pc = "pass" => /\ Flight # <<>> /\ Flight[1] = loop.msg
                                  /\ Tail(Flight) = down \o todo
<1>1. down \o todo \in Seq(Parts)
  BY ConcatProperties DEF Types
<1>2. CASE loop.pc = "pass"
  <2>1. <<loop.msg>> \in Seq(Parts) /\ Len(<<loop.msg>>) = 1 /\ <<loop.msg>>[1] = loop.msg
    BY <1>2 DEF Types
  <2>2. PICK d : d = down \o todo
    OBVIOUS
  <2>3. PICK f : f = <<loop.msg>> \o d
    OBVIOUS
  <2>4. /\ f \in Seq(Parts) /\ Len(f) = 1 + Len(d) /\ Len(d) \in Nat
        /\ \A i \in 1 .. 1 + Len(d) : f[i] = IF i <= 1 THEN <<loop.msg>>[i] ELSE d[i - 1]
    BY <1>1, <2>1, <2>2, <2>3, ConcatProperties, LenProperties
  <2>5. f # <<>> /\ f[1] = loop.msg
    BY <2>1, <2>4
  <2>6. /\ Tail(f) \in Seq(Parts) /\ Len(Tail(f)) = Len(d)
        /\ \A i \in 1 .. Len(d) : Tail(f)[i] = f[i + 1]
    BY <2>4, <2>5, HeadTailProperties
  <2>7. \A i \in 1 .. Len(d) : Tail(f)[i] = d[i]
    BY <2>4, <2>6
  <2>8. Tail(f) = d
    BY <1>1, <2>2, <2>6, <2>7, SeqEqual
  <2> QED
    BY <1>1, <1>2, <2>2, <2>3, <2>4, <2>5, <2>8 DEF Flight
<1>3. CASE loop.pc # "pass"
  BY <1>1, <1>3 DEF Flight
<1> QED
  BY <1>2, <1>3

\* The last response on its way is the last of an answer.
LEMMA FlightEnds ==
    ASSUME Types, Chained(Flight), Flight # <<>>
    PROVE  Cardinality(Finals(todo)) + Cardinality(Finals(down)) + Passing >= 1
<1>1. /\ todo \in Seq(Parts) /\ down \in Seq(Parts) /\ Len(todo) \in Nat /\ Len(down) \in Nat
      /\ (todo = <<>> <=> Len(todo) = 0) /\ (down = <<>> <=> Len(down) = 0)
  BY EmptySeq DEF Types
<1>2. /\ Cardinality(Finals(todo)) \in Nat /\ (Cardinality(Finals(todo)) = 0 <=> Finals(todo) = {})
      /\ Cardinality(Finals(down)) \in Nat /\ (Cardinality(Finals(down)) = 0 <=> Finals(down) = {})
      /\ Passing \in {0, 1}
  BY <1>1, CountType DEF Finals, Passing
<1>3. PICK d : d = down \o todo
  OBVIOUS
<1>4. /\ d \in Seq(Parts) /\ Len(d) = Len(down) + Len(todo)
      /\ \A i \in 1 .. Len(down) + Len(todo) :
             d[i] = IF i <= Len(down) THEN down[i] ELSE todo[i - Len(down)]
  BY <1>1, <1>3, ConcatProperties
<1>5. CASE d = <<>>
  <2>1. loop.pc = "pass"
    BY <1>3, <1>5 DEF Flight
  <2>2. Tail(Flight) = <<>> /\ Flight[1] = loop.msg /\ Flight \in Seq(Parts)
    BY <1>3, <1>5, <2>1, FlightType
  <2>3. IsLast(loop.msg)
    BY <2>2, ChainTail
  <2> QED
    BY <1>2, <2>1, <2>3 DEF Passing
<1>6. CASE d # <<>>
  <2>1. IsLast(d[Len(d)])
    <3>1. CASE loop.pc = "pass"
      <4>1. Tail(Flight) = d /\ Flight \in Seq(Parts)
        BY <1>3, <3>1, FlightType
      <4>2. Chained(d)
        BY <4>1, ChainTail
      <4> QED
        BY <1>6, <4>2 DEF Chained
    <3>2. CASE loop.pc # "pass"
      BY <1>3, <1>6, <3>2 DEF Flight, Chained
    <3> QED
      BY <3>1, <3>2
  <2>2. CASE todo # <<>>
    <3>1. d[Len(d)] = todo[Len(todo)] /\ Len(todo) \in DOMAIN todo
      BY <1>1, <1>4, <2>2
    <3>2. Finals(todo) # {}
      BY <2>1, <3>1 DEF Finals
    <3> QED
      BY <1>2, <3>2
  <2>3. CASE todo = <<>>
    <3>1. Len(down) >= 1
      BY <1>1, <1>4, <1>6, <2>3, EmptySeq
    <3>2. d[Len(d)] = down[Len(down)] /\ Len(down) \in DOMAIN down
      BY <1>1, <1>4, <2>3, <3>1
    <3>3. Finals(down) # {}
      BY <2>1, <3>2 DEF Finals
    <3> QED
      BY <1>2, <3>3
  <2> QED
    BY <2>2, <2>3
<1> QED
  BY <1>5, <1>6

\* There is a call for what is on its way.
LEMMA SomeoneWaits ==
    ASSUME IInv, Flight # <<>>
    PROVE  queue # <<>>
<1>1. Cardinality(Senders) \in Nat
  BY CallersAssumption, FS_Subset, FS_CardinalityType DEF Senders
<1>2. Len(up) \in Nat /\ Len(queue) \in Nat
  BY DEF IInv, Types
<1>3. Cardinality(Finals(todo)) + Cardinality(Finals(down)) + Passing >= 1
  BY FlightEnds DEF IInv
<1>4. Cardinality(Finals(todo)) \in Nat /\ Cardinality(Finals(down)) \in Nat
      /\ Passing \in {0, 1}
  BY CountType DEF IInv, Types, Finals, Passing
<1>5. Len(queue) >= 1
  BY <1>1, <1>2, <1>3, <1>4 DEF IInv, Awaited
<1> QED
  BY <1>5

LEMMA HeadTail ==
    ASSUME NEW q \in Seq(Parts), q # <<>>
    PROVE  /\ Head(q) = q[1] /\ q[1] \in Parts /\ Tail(q) \in Seq(Parts)
           /\ <<q[1]>> \in Seq(Parts) /\ <<q[1]>> \o Tail(q) = q
           /\ DOMAIN Tail(q) = 1 .. Len(q) - 1 /\ Len(Tail(q)) = Len(q) - 1
           /\ Len(q) \in Nat \ {0} /\ DOMAIN q = 1 .. Len(q)
           /\ \A i \in 1 .. Len(q) - 1 : Tail(q)[i] = q[i + 1]
<1>1. /\ Head(q) = q[1] /\ q[1] \in Parts /\ DOMAIN q = 1 .. Len(q)
      /\ Len(q) \in Nat \ {0}
  OBVIOUS
<1>2. PICK t : t = Tail(q)
  OBVIOUS
<1>3. /\ t \in Seq(Parts) /\ Len(t) = Len(q) - 1 /\ DOMAIN t = 1 .. Len(q) - 1
      /\ \A i \in 1 .. Len(q) - 1 : t[i] = q[i + 1]
  <2>1. /\ t \in Seq(Parts) /\ Len(t) = Len(q) - 1
        /\ \A i \in 1 .. Len(t) : t[i] = q[i + 1]
    BY <1>2, HeadTailProperties
  <2> QED
    BY <2>1, LenProperties
<1>4. PICK h : h = <<q[1]>>
  OBVIOUS
<1>5. h \in Seq(Parts) /\ Len(h) = 1 /\ h[1] = q[1]
  BY <1>1, <1>4
<1>6. /\ h \o t \in Seq(Parts) /\ Len(h \o t) = Len(q)
      /\ \A i \in 1 .. Len(q) : (h \o t)[i] = IF i <= 1 THEN h[i] ELSE t[i - 1]
  <2>1. /\ h \o t \in Seq(Parts) /\ Len(h \o t) = Len(h) + Len(t)
        /\ \A i \in 1 .. Len(h) + Len(t) :
               (h \o t)[i] = IF i <= Len(h) THEN h[i] ELSE t[i - Len(h)]
    <3>1. h \in Seq(Parts) /\ t \in Seq(Parts)
      BY <1>3, <1>5
    <3> QED
      BY <3>1, ConcatProperties
  <2>2. Len(h) + Len(t) = Len(q)
    BY <1>1, <1>3, <1>5
  <2> QED
    BY <1>5, <2>1, <2>2
<1>7. \A i \in 1 .. Len(q) : (h \o t)[i] = q[i]
  <2>1. ASSUME NEW i \in 1 .. Len(q)
        PROVE  (h \o t)[i] = q[i]
    <3>1. CASE i = 1
      BY <1>5, <1>6, <3>1
    <3>2. CASE i # 1
      <4>1. i - 1 \in 1 .. Len(q) - 1 /\ (i - 1) + 1 = i /\ ~ (i <= 1)
        BY <1>1, <3>2
      <4>2. t[i - 1] = q[i]
        BY <1>3, <4>1
      <4> QED
        BY <1>6, <4>1, <4>2
    <3> QED
      BY <3>1, <3>2
  <2> QED
    BY <2>1
<1>8. h \o t = q
  BY <1>6, <1>7, SeqEqual
<1> QED
  BY <1>1, <1>2, <1>3, <1>4, <1>5, <1>8

\* Responses move on without overtaking each other.
LEMMA SendKeepsFlight ==
    ASSUME Types, SendResponse
    PROVE  Flight' = Flight
<1>1. /\ todo \in Seq(Parts) /\ down \in Seq(Parts) /\ todo # <<>>
      /\ down' = Append(down, Head(todo)) /\ todo' = Tail(todo) /\ loop' = loop
  BY DEF Types, SendResponse
<1>2. PICK h : h = todo[1]
  OBVIOUS
<1>3. PICK t : t = Tail(todo)
  OBVIOUS
<1>4. h \in Parts /\ t \in Seq(Parts) /\ <<h>> \in Seq(Parts) /\ <<h>> \o t = todo /\ Head(todo) = h
  BY <1>1, <1>2, <1>3, HeadTail
<1>5. Append(down, h) = down \o <<h>>
  BY <1>1, <1>4, AppendIsConcat
<1>6. (down \o <<h>>) \o t = down \o (<<h>> \o t)
  BY <1>1, <1>4, ConcatAssociative
<1>7. down' \o todo' = down \o todo
  BY <1>1, <1>3, <1>4, <1>5, <1>6
<1> QED
  BY <1>1, <1>7 DEF Flight

LEMMA RecvKeepsFlight ==
    ASSUME Types, down # <<>>, loop.pc = "read", loop'.pc = "pass", loop'.msg = Head(down),
           down' = Tail(down), todo' = todo
    PROVE  Flight' = Flight
<1>1. todo \in Seq(Parts) /\ down \in Seq(Parts)
  BY DEF Types
<1>2. PICK h : h = down[1]
  OBVIOUS
<1>3. PICK t : t = Tail(down)
  OBVIOUS
<1>4. h \in Parts /\ t \in Seq(Parts) /\ <<h>> \in Seq(Parts) /\ <<h>> \o t = down /\ Head(down) = h
  BY <1>1, <1>2, <1>3, HeadTail
<1>5. (<<h>> \o t) \o todo = <<h>> \o (t \o todo)
  BY <1>1, <1>4, ConcatAssociative
<1>6. Flight = down \o todo
  BY DEF Flight
<1>7. Flight' = <<h>> \o (t \o todo)
  BY <1>3, <1>4 DEF Flight
<1> QED
  BY <1>4, <1>5, <1>6, <1>7

LEMMA ServeFlight ==
    ASSUME Types, Serve
    PROVE  LET s == Split(Head(up)) IN Head(up) \in Requests /\ Flight' = Flight \o s
<1>1. /\ up \in Seq(Requests) /\ up # <<>> /\ down \in Seq(Parts) /\ todo = <<>>
      /\ todo' = Split(Head(up)) /\ down' = down /\ loop' = loop
  BY DEF Types, Serve
<1>2. PICK r : r = Head(up)
  OBVIOUS
<1>3. r \in Requests
  BY <1>1, <1>2
<1>4. PICK s : s = Split(r)
  OBVIOUS
<1>5. s \in Seq(Parts)
  BY <1>3, <1>4, SplitFacts
<1>6. down \o todo = down /\ down' \o todo' = down \o s
  BY <1>1, <1>2, <1>4, ConcatEmptySeq
<1>7. CASE loop.pc = "pass"
  <2>1. <<loop.msg>> \in Seq(Parts)
    BY <1>7 DEF Types
  <2>2. (<<loop.msg>> \o down) \o s = <<loop.msg>> \o (down \o s)
    BY <1>1, <1>5, <2>1, ConcatAssociative
  <2> QED
    BY <1>1, <1>2, <1>3, <1>4, <1>6, <1>7, <2>2 DEF Flight
<1>8. CASE loop.pc # "pass"
  BY <1>1, <1>2, <1>3, <1>4, <1>6, <1>8 DEF Flight
<1> QED
  BY <1>7, <1>8

\* A channel holds one response at most.
LEMMA ChanFacts ==
    ASSUME Types, NEW c \in Callers
    PROVE  /\ chan[c] \in Seq(Parts)
           /\ chan[c] # <<>> => /\ chan[c][1] \in Parts /\ Head(chan[c]) = chan[c][1]
                                /\ Tail(chan[c]) = <<>>
<1>1. chan[c] \in Seq(Parts) /\ Len(chan[c]) <= 1
  BY DEF Types
<1>2. PICK q : q = chan[c]
  OBVIOUS
<1>3. ASSUME q # <<>>
      PROVE  q[1] \in Parts /\ Head(q) = q[1] /\ Tail(q) \in Seq(Parts) /\ Len(Tail(q)) = 0
  <2>1. /\ Head(q) = q[1] /\ q[1] \in Parts /\ Tail(q) \in Seq(Parts)
        /\ Len(Tail(q)) = Len(q) - 1 /\ Len(q) \in Nat \ {0}
    BY <1>1, <1>2, <1>3, HeadTail
  <2>2. Len(q) <= 1
    BY <1>1, <1>2
  <2>3. PICK t : t = Tail(q)
    OBVIOUS
  <2>4. Len(t) = 0
    BY <2>1, <2>2, <2>3
  <2> QED
    BY <2>1, <2>3, <2>4
<1>4. q # <<>> => Tail(q) = <<>>
  BY <1>3, EmptySeq
<1> QED
  BY <1>1, <1>2, <1>3, <1>4

\* What is counted are numbers.
\* The inequality of Awaited, when a call, its caller or its request is exchanged.
LEMMA Exchange ==
    ASSUME NEW q \in Nat, NEW s \in Nat, NEW u \in Nat, NEW t \in Nat, NEW d \in Nat,
           NEW p \in Nat, NEW qq \in Nat, NEW ss \in Nat, NEW uu \in Nat,
           q >= s + u + t + d + p, q + ss + uu <= qq + s + u
    PROVE  qq >= ss + uu + t + d + p
  OBVIOUS

LEMMA Counts ==
    ASSUME Types
    PROVE  /\ IsFiniteSet(Senders) /\ Cardinality(Senders) \in Nat
           /\ Len(up) \in Nat /\ Len(queue) \in Nat
           /\ Cardinality(Finals(todo)) \in Nat /\ Cardinality(Finals(down)) \in Nat
           /\ Passing \in {0, 1}
<1>1. IsFiniteSet(Senders) /\ Cardinality(Senders) \in Nat
  BY CallersAssumption, FS_Subset, FS_CardinalityType DEF Senders
<1>2. Len(up) \in Nat /\ Len(queue) \in Nat
  BY LenProperties DEF Types
<1>3. Cardinality(Finals(todo)) \in Nat /\ Cardinality(Finals(down)) \in Nat
  BY CountType DEF Types, Finals
<1> QED
  BY <1>1, <1>2, <1>3 DEF Passing

-----------------------------------------------------------------------------
(* The calls. *)

CallRec == [pc : {"idle", "send", "wait"}, req : Requests \cup {0}, got : Seq(Items)]

LEMMA AskInv ==
    ASSUME IInv, NEW c \in Callers, NEW r \in Requests, Ask(c, r)
    PROVE  IInv'
<1>1. /\ Types /\ QueueOK /\ ChanOK /\ HeadOK /\ Chained(Flight) /\ Awaited
      /\ call[c].pc = "idle" /\ ~ lost /\ chan[c] = <<>>
      /\ up' = up /\ todo' = todo /\ down' = down /\ loop' = loop
      /\ leaked' = leaked /\ lost' = lost
  BY DEF IInv, QueueOK, Ask
<1>2. PICK n : n = [pc |-> "send", req |-> r, got |-> <<>>]
  OBVIOUS
<1>3. n \in CallRec /\ n.pc = "send" /\ n.req = r /\ n.got = <<>>
  BY <1>2 DEF CallRec
<1>4. /\ call' \in [Callers -> CallRec] /\ call'[c] = n
      /\ \A d \in Callers \ {c} : call'[d] = call[d]
  BY <1>1, <1>2, <1>3 DEF Ask, Types, CallRec
<1>5. chan' = chan
  BY <1>1 DEF Ask, Types
<1>6. /\ queue \in Seq(Callers) /\ queue' \in Seq(Callers) /\ queue' # <<>>
      /\ Len(queue) \in Nat /\ DOMAIN queue = 1 .. Len(queue)
      /\ Len(queue') = Len(queue) + 1 /\ DOMAIN queue' = 1 .. Len(queue) + 1
      /\ queue'[Len(queue) + 1] = c /\ \A i \in 1 .. Len(queue) : queue'[i] = queue[i]
  <2>1. queue \in Seq(Callers) /\ queue' = Append(queue, c)
    BY <1>1 DEF Types, Ask
  <2> QED
    BY <2>1, AppendProperties, LenProperties
<1>7. \A i \in 1 .. Len(queue) : queue[i] # c /\ queue[i] \in Callers
  BY <1>1, <1>6 DEF QueueOK
<1>8. Types'
  BY <1>1, <1>4, <1>5, <1>6 DEF Types, CallRec
<1>9. QueueOK'
  <2>1. \A i, j \in 1 .. Len(queue) + 1 : queue'[i] = queue'[j] => i = j
    BY <1>1, <1>6, <1>7 DEF QueueOK
  <2>2. ASSUME NEW i \in 1 .. Len(queue) + 1
        PROVE  /\ i > 1 => chan'[queue'[i]] = <<>> /\ call'[queue'[i]].got = <<>>
               /\ call'[queue'[i]].pc # "idle"
    <3>1. CASE i \in 1 .. Len(queue)
      BY <1>1, <1>4, <1>5, <1>6, <1>7, <3>1 DEF QueueOK
    <3>2. CASE i = Len(queue) + 1
      BY <1>1, <1>3, <1>4, <1>5, <1>6, <3>2
    <3> QED
      BY <1>6, <3>1, <3>2
  <2>3. ASSUME NEW d \in Callers
        PROVE  /\ call'[d].pc = "send" => call'[d].got = <<>> /\ call'[d].req \in Requests
               /\ call'[d].pc = "idle" => chan'[d] = <<>>
    BY <1>1, <1>3, <1>4, <1>5 DEF QueueOK
  <2> QED
    BY <1>6, <2>1, <2>2, <2>3 DEF QueueOK
<1>10. Flight' = Flight
  BY <1>1 DEF Flight
<1>11. ChanOK'
  <2>1. ASSUME NEW d \in Callers, chan[d] # <<>>
        PROVE  LET m == chan[d][1] IN
               /\ call'[d].got = Prefix(m.req, Off(m))
               /\ IF IsLast(m) THEN \A i \in 1 .. Len(queue) + 1 : queue'[i] # d
                  ELSE queue'[1] = d /\ Flight # <<>> /\ Follows(m, Flight[1])
    <3>1. d # c
      BY <1>1, <2>1
    <3> DEFINE m == chan[d][1]
    <3>2. /\ call[d].got = Prefix(m.req, Off(m))
          /\ IF IsLast(m) THEN \A i \in 1 .. Len(queue) : queue[i] # d
             ELSE queue # <<>> /\ queue[1] = d /\ Flight # <<>> /\ Follows(m, Flight[1])
      BY <1>1, <1>6, <2>1 DEF ChanOK, Continues, InQueue
    <3>3. queue # <<>> => queue'[1] = queue[1]
      BY <1>6, EmptySeq
    <3> QED
      BY <1>4, <1>6, <3>1, <3>2, <3>3
  <2> QED
    BY <1>5, <1>6, <1>10, <2>1 DEF ChanOK, Continues, InQueue
<1>12. HeadOK'
  <2>1. CASE queue = <<>>
    <3>1. Flight = <<>> /\ queue'[1] = c
      BY <1>6, <2>1, SomeoneWaits, EmptySeq
    <3> QED
      BY <1>3, <1>4, <1>10, <3>1 DEF HeadOK
  <2>2. CASE queue # <<>>
    <3>1. queue'[1] = queue[1] /\ queue[1] \in Callers \ {c}
      BY <1>6, <1>7, <2>2, EmptySeq
    <3> QED
      BY <1>1, <1>4, <1>5, <1>10, <2>2, <3>1 DEF HeadOK, Continues
  <2> QED
    BY <2>1, <2>2
<1>13. Awaited'
  <2>1. Senders' = Senders \cup {c}
    BY <1>3, <1>4 DEF Senders
  <2>2. Cardinality(Senders') = Cardinality(Senders) + 1 /\ Cardinality(Senders') \in Nat
    <3>1. IsFiniteSet(Senders) /\ Cardinality(Senders) \in Nat /\ c \notin Senders
      BY <1>1, Counts DEF Senders
    <3>2. Cardinality(Senders \cup {c}) = Cardinality(Senders) + 1
      BY <3>1, FS_AddElement
    <3> QED
      BY <2>1, <3>1, <3>2
  <2>3. Finals(todo)' = Finals(todo) /\ Finals(down)' = Finals(down) /\ Passing' = Passing
    BY <1>1 DEF Finals, Passing
  <2>4. Len(up)' = Len(up)
    BY <1>1
  <2>5. /\ Cardinality(Senders) \in Nat /\ Len(up) \in Nat /\ Len(queue) \in Nat
        /\ Cardinality(Finals(todo)) \in Nat /\ Cardinality(Finals(down)) \in Nat
        /\ Passing \in Nat
    BY <1>1, Counts
  <2>6. Len(queue) >= Cardinality(Senders) + Len(up) + Cardinality(Finals(todo))
                        + Cardinality(Finals(down)) + Passing
    BY <1>1 DEF Awaited
  <2>7. Len(queue') = Len(queue) + 1
    BY <1>6
  <2>8. /\ Len(queue') \in Nat
        /\ Len(queue) + Cardinality(Senders') + Len(up) <= Len(queue') + Cardinality(Senders) + Len(up)
    BY <2>2, <2>5, <2>7
  <2>9. Len(queue') >= Cardinality(Senders') + Len(up) + Cardinality(Finals(todo))
                         + Cardinality(Finals(down)) + Passing
    BY <2>2, <2>5, <2>6, <2>8, Exchange, Zenon
  <2> QED
    BY <2>3, <2>4, <2>9 DEF Awaited
<1> QED
  BY <1>1, <1>8, <1>9, <1>10, <1>11, <1>12, <1>13 DEF IInv

\* A call that has not sent its request sends it or fails.
LEMMA PcStep ==
    ASSUME IInv, NEW c \in Callers, NEW p \in {"wait", "idle"}, call[c].pc = "send",
           call' = [call EXCEPT ![c].pc = p], p = "idle" => lost,
           up' \in Seq(Requests), Len(up') <= OutCap, Len(up') <= Len(up) + 1,
           queue' = queue, chan' = chan, todo' = todo, down' = down, loop' = loop,
           leaked' = leaked, lost' = lost
    PROVE  IInv'
<1>1. Types /\ QueueOK /\ ChanOK /\ HeadOK /\ Chained(Flight) /\ Awaited
  BY DEF IInv
<1>2. /\ call' \in [Callers -> CallRec] /\ call'[c].pc = p
      /\ \A d \in Callers : call'[d].got = call[d].got /\ call'[d].req = call[d].req
      /\ \A d \in Callers \ {c} : call'[d].pc = call[d].pc
  BY <1>1 DEF Types, CallRec
<1>3. Types'
  BY <1>1, <1>2 DEF Types, CallRec
<1>4. Flight' = Flight
  BY DEF Flight
<1>5. QueueOK'
  <2>1. queue \in Seq(Callers) /\ \A i \in DOMAIN queue : queue[i] \in Callers
    BY <1>1 DEF Types
  <2>2. \A i \in DOMAIN queue :
          /\ i > 1 => chan[queue[i]] = <<>> /\ call'[queue[i]].got = <<>>
          /\ ~ lost => call'[queue[i]].pc # "idle"
    BY <1>1, <1>2, <2>1 DEF QueueOK
  <2>3. \A d \in Callers :
          /\ call'[d].pc = "send" => call'[d].got = <<>> /\ call'[d].req \in Requests
          /\ ~ lost /\ call'[d].pc = "idle" => chan[d] = <<>>
    BY <1>1, <1>2 DEF QueueOK
  <2> QED
    BY <1>1, <2>2, <2>3 DEF QueueOK
<1>6. ChanOK'
  BY <1>1, <1>2, <1>4 DEF ChanOK, Continues, InQueue
<1>7. HeadOK'
  <2>1. queue # <<>> => queue[1] \in Callers
    BY <1>1, EmptySeq DEF Types
  <2> QED
    BY <1>1, <1>2, <1>4, <2>1 DEF HeadOK, Continues
<1>8. Awaited'
  <2>1. Senders' = Senders \ {c} /\ c \in Senders
    BY <1>2 DEF Senders
  <2>2. Cardinality(Senders') = Cardinality(Senders) - 1 /\ Cardinality(Senders') \in Nat
    BY <1>1, <2>1, Counts, FS_RemoveElement, FS_CardinalityType
  <2>3. Finals(todo)' = Finals(todo) /\ Finals(down)' = Finals(down) /\ Passing' = Passing
    BY DEF Finals, Passing
  <2>4. Len(up') \in Nat
    BY LenProperties
  <2>5. /\ Cardinality(Senders) \in Nat /\ Len(up) \in Nat /\ Len(queue) \in Nat
        /\ Cardinality(Finals(todo)) \in Nat /\ Cardinality(Finals(down)) \in Nat
        /\ Passing \in Nat
    BY <1>1, Counts
  <2>6. Len(queue) >= Cardinality(Senders) + Len(up) + Cardinality(Finals(todo))
                        + Cardinality(Finals(down)) + Passing
    BY <1>1 DEF Awaited
  <2>7. Len(up') <= Len(up) + 1
    OBVIOUS
  <2>8. Len(queue) + Cardinality(Senders') + Len(up') <= Len(queue) + Cardinality(Senders) + Len(up)
    BY <2>2, <2>4, <2>5, <2>7
  <2>9. Len(queue) >= Cardinality(Senders') + Len(up') + Cardinality(Finals(todo))
                        + Cardinality(Finals(down)) + Passing
    BY <2>2, <2>4, <2>5, <2>6, <2>8, Exchange, Zenon
  <2> QED
    BY <2>3, <2>9 DEF Awaited
<1> QED
  BY <1>1, <1>3, <1>4, <1>5, <1>6, <1>7, <1>8 DEF IInv

LEMMA SendRequestInv ==
    ASSUME IInv, NEW c \in Callers, SendRequest(c)
    PROVE  IInv'
<1>1. /\ Types /\ QueueOK /\ call[c].pc = "send" /\ call' = [call EXCEPT ![c].pc = "wait"]
      /\ up' = Append(up, call[c].req) /\ Len(up) < OutCap
      /\ queue' = queue /\ chan' = chan /\ todo' = todo /\ down' = down /\ loop' = loop
      /\ leaked' = leaked /\ lost' = lost
  BY DEF IInv, SendRequest, HasRoom
<1>2. PICK r \in Requests : r = call[c].req
  BY <1>1 DEF QueueOK
<1>3. up \in Seq(Requests) /\ OutCap \in Nat /\ Len(up) \in Nat
  BY <1>1, CapsAssumption, LenProperties DEF Types
<1>4. up' \in Seq(Requests) /\ Len(up') = Len(up) + 1
  BY <1>1, <1>2, <1>3, AppendProperties
<1>5. PICK p \in {"wait", "idle"} : p = "wait"
  OBVIOUS
<1>6. call' = [call EXCEPT ![c].pc = p] /\ (p = "idle" => lost)
  BY <1>1, <1>5
<1>7. Len(up') <= OutCap /\ Len(up') <= Len(up) + 1
  BY <1>1, <1>3, <1>4
<1> QED
  BY <1>1, <1>4, <1>6, <1>7, PcStep

LEMMA RefusedInv ==
    ASSUME IInv, NEW c \in Callers, Refused(c)
    PROVE  IInv'
<1>1. /\ call[c].pc = "send" /\ call' = [call EXCEPT ![c].pc = "idle"] /\ lost /\ up' = up
      /\ queue' = queue /\ chan' = chan /\ todo' = todo /\ down' = down /\ loop' = loop
      /\ leaked' = leaked /\ lost' = lost
  BY DEF Refused
<1>2. up' \in Seq(Requests) /\ Len(up') <= OutCap /\ Len(up') <= Len(up) + 1
  BY <1>1, LenProperties DEF IInv, Types
<1>3. PICK p \in {"wait", "idle"} : p = "idle"
  OBVIOUS
<1>4. call' = [call EXCEPT ![c].pc = p] /\ (p = "idle" => lost)
  BY <1>1, <1>3
<1> QED
  BY <1>1, <1>2, <1>4, PcStep

LEMMA ReadResponseInv ==
    ASSUME IInv, NEW c \in Callers, ReadResponse(c)
    PROVE  IInv'
<1> DEFINE m == chan[c][1]
<1>1. /\ Types /\ QueueOK /\ ChanOK /\ HeadOK /\ Chained(Flight) /\ Awaited
      /\ call[c].pc = "wait" /\ chan[c] # <<>>
      /\ UNCHANGED <<queue, up, todo, down, loop, leaked, lost>>
  BY DEF IInv, ReadResponse
<1>2. m \in Parts /\ Head(chan[c]) = m /\ Tail(chan[c]) = <<>>
  BY <1>1, ChanFacts
<1> DEFINE g == call[c].got \o m.items
           p == IF IsLast(m) THEN "idle" ELSE "wait"
<1>3. call' = [call EXCEPT ![c].got = g, ![c].pc = p] /\ chan' = [chan EXCEPT ![c] = <<>>]
  BY <1>2 DEF ReadResponse
<1>4. /\ call[c].got = Prefix(m.req, Off(m)) /\ m.req \in Requests
      /\ IF IsLast(m) THEN \A i \in DOMAIN queue : queue[i] # c
         ELSE queue # <<>> /\ queue[1] = c /\ Flight # <<>> /\ Follows(m, Flight[1])
  BY <1>1, <1>2, PartsFacts DEF ChanOK, Continues, InQueue
<1>5. g = Prefix(m.req, Off(m) + Len(m.items)) /\ Off(m) + Len(m.items) \in Nat
      /\ (~ IsLast(m) => Len(m.items) = MaxItems)
  <2>1. m.items \in Seq(Items) /\ Off(m) \in Nat
    BY <1>2, PartsFacts
  <2>2. Len(m.items) \in Nat
    BY <2>1, LenProperties
  <2>3. g = Prefix(m.req, Off(m) + Len(m.items))
    BY <1>2, <1>4, PrefixGrows
  <2>4. ~ IsLast(m) => Len(m.items) = MaxItems
    BY <1>2, PartsFacts
  <2> QED
    BY <2>1, <2>2, <2>3, <2>4
<1>6. g \in Seq(Items)
  BY <1>4, <1>5, PrefixFacts
<1> HIDE DEF g
<1>7. /\ call' \in [Callers -> CallRec] /\ call'[c].got = g /\ call'[c].pc = p
      /\ \A d \in Callers \ {c} : call'[d] = call[d]
      /\ chan' \in [Callers -> Seq(Parts)] /\ chan'[c] = <<>>
      /\ \A d \in Callers \ {c} : chan'[d] = chan[d]
  <2>0. PICK n : n = [call[c] EXCEPT !.got = g, !.pc = p]
    OBVIOUS
  <2>1. call \in [Callers -> CallRec] /\ call[c] \in CallRec
    BY <1>1 DEF Types, CallRec
  <2>2. n \in CallRec /\ n.got = g /\ n.pc = p
    BY <1>6, <2>0, <2>1 DEF CallRec
  <2>5. call' = [call EXCEPT ![c] = n]
    BY <1>3, <2>0
  <2>6. call' \in [Callers -> CallRec] /\ call'[c] = n /\ \A d \in Callers \ {c} : call'[d] = call[d]
    BY <2>1, <2>2, <2>5
  <2>3. <<>> \in Seq(Parts)
    OBVIOUS
  <2>4. /\ chan' \in [Callers -> Seq(Parts)] /\ chan'[c] = <<>>
        /\ \A d \in Callers \ {c} : chan'[d] = chan[d]
    BY <1>1, <1>3, <2>3 DEF Types
  <2> QED
    BY <2>2, <2>4, <2>6
<1>8. Types'
  <2>1. ASSUME NEW d \in Callers
        PROVE  Len(chan'[d]) <= 1
    <3>1. Len(chan[d]) <= 1 /\ (chan'[d] = <<>> \/ chan'[d] = chan[d])
      BY <1>1, <1>7 DEF Types
    <3>2. PICK q : q = chan'[d]
      OBVIOUS
    <3>3. q = <<>> \/ q = chan[d]
      BY <3>1, <3>2
    <3> QED
      BY <3>1, <3>2, <3>3
  <2> QED
    BY <1>1, <1>7, <2>1 DEF Types, CallRec
<1>9. Flight' = Flight
  BY <1>1 DEF Flight
<1>10. queue \in Seq(Callers) /\ \A i \in DOMAIN queue : queue[i] \in Callers
  BY <1>1 DEF Types
<1>11. QueueOK'
  <2>1. ASSUME NEW i \in DOMAIN queue
        PROVE  /\ i > 1 => chan'[queue[i]] = <<>> /\ call'[queue[i]].got = <<>>
               /\ ~ lost => call'[queue[i]].pc # "idle"
    <3>1. CASE queue[i] = c
      <4>1. ~ IsLast(m)
        BY <1>4, <3>1
      <4>2. i > 1 => chan[c] = <<>>
        BY <1>1, <3>1 DEF QueueOK
      <4> QED
        BY <1>1, <1>7, <3>1, <4>1, <4>2
    <3>2. CASE queue[i] # c
      BY <1>1, <1>7, <1>10, <3>2 DEF QueueOK
    <3> QED
      BY <3>1, <3>2
  <2>2. ASSUME NEW d \in Callers
        PROVE  /\ call'[d].pc = "send" => call'[d].got = <<>> /\ call'[d].req \in Requests
               /\ ~ lost /\ call'[d].pc = "idle" => chan'[d] = <<>>
    BY <1>1, <1>7 DEF QueueOK
  <2> QED
    BY <1>1, <2>1, <2>2 DEF QueueOK
<1>12. ChanOK'
  <2>1. ASSUME NEW d \in Callers, chan'[d] # <<>>
        PROVE  d # c /\ chan'[d] = chan[d] /\ call'[d] = call[d]
    BY <1>7, <2>1
  <2> QED
    BY <1>1, <1>9, <2>1 DEF ChanOK, Continues, InQueue
<1>13. HeadOK'
  <2>1. CASE queue # <<>> /\ queue[1] = c
    <3>1. 1 \in DOMAIN queue
      BY <1>10, <2>1, EmptySeq
    <3>2. ~ IsLast(m) /\ Flight # <<>> /\ Follows(m, Flight[1])
      BY <1>4, <2>1, <3>1
    <3>3. PICK n : n = Flight[1]
      OBVIOUS
    <3>4. n.req = m.req /\ Off(n) = Off(m) + Len(m.items)
      BY <1>5, <3>2, <3>3 DEF Follows
    <3> QED
      BY <1>1, <1>5, <1>7, <1>9, <2>1, <3>2, <3>3, <3>4 DEF HeadOK, Continues
  <2>2. CASE queue # <<>> /\ queue[1] # c
    <3>1. queue[1] \in Callers
      BY <1>10, <2>2, EmptySeq
    <3> QED
      BY <1>1, <1>7, <1>9, <2>2, <3>1 DEF HeadOK, Continues
  <2> QED
    BY <1>1, <2>1, <2>2 DEF HeadOK
<1>14. Awaited'
  <2>1. Senders' = Senders
    BY <1>1, <1>7 DEF Senders
  <2>2. Finals(todo)' = Finals(todo) /\ Finals(down)' = Finals(down) /\ Passing' = Passing
    BY <1>1 DEF Finals, Passing
  <2> QED
    BY <1>1, <2>1, <2>2 DEF Awaited
<1> QED
  BY <1>1, <1>8, <1>9, <1>11, <1>12, <1>13, <1>14 DEF IInv

-----------------------------------------------------------------------------
(* The loops of the server and of the client. *)

\* The last responses in a queue, counted as one is appended or taken.
LEMMA FinalsAppend ==
    ASSUME NEW q \in Seq(Parts), NEW m \in Parts
    PROVE  Cardinality(Finals(Append(q, m))) = Cardinality(Finals(q))
                                               + (IF IsLast(m) THEN 1 ELSE 0)
<1>1. PICK a : a = Append(q, m)
  OBVIOUS
<1>2. /\ Len(q) \in Nat /\ DOMAIN q = 1 .. Len(q) /\ DOMAIN a = 1 .. Len(q) + 1
      /\ a[Len(q) + 1] = m /\ \A i \in 1 .. Len(q) : a[i] = q[i]
  BY <1>1, AppendProperties, LenProperties
<1>3. Finals(a) \in SUBSET DOMAIN a /\ Finals(q) \in SUBSET DOMAIN q
  BY DEF Finals
<1>4. \A i \in DOMAIN q : i \in Finals(a) <=> i \in Finals(q)
  BY <1>2 DEF Finals
<1>5. Cardinality(Finals(a)) = Cardinality(Finals(q))
                               + (IF Len(q) + 1 \in Finals(a) THEN 1 ELSE 0)
  BY <1>1, <1>3, <1>4, CountAppend
<1>6. Len(q) + 1 \in Finals(a) <=> IsLast(m)
  BY <1>2 DEF Finals
<1> QED
  BY <1>1, <1>5, <1>6

LEMMA FinalsTail ==
    ASSUME NEW q \in Seq(Parts), q # <<>>
    PROVE  Cardinality(Finals(q)) = Cardinality(Finals(Tail(q)))
                                    + (IF IsLast(q[1]) THEN 1 ELSE 0)
<1>1. PICK t : t = Tail(q)
  OBVIOUS
<1>2. /\ Len(q) \in Nat \ {0} /\ DOMAIN q = 1 .. Len(q) /\ DOMAIN t = 1 .. Len(q) - 1
      /\ \A i \in 1 .. Len(q) - 1 : t[i] = q[i + 1]
  BY <1>1, HeadTail
<1>3. Finals(t) \in SUBSET DOMAIN t /\ Finals(q) \in SUBSET DOMAIN q
  BY DEF Finals
<1>4. \A i \in DOMAIN t : i \in Finals(t) <=> i + 1 \in Finals(q)
  BY <1>2 DEF Finals
<1>5. Cardinality(Finals(q)) = Cardinality(Finals(t)) + (IF 1 \in Finals(q) THEN 1 ELSE 0)
  BY <1>1, <1>3, <1>4, CountTail
<1>6. 1 \in Finals(q) <=> IsLast(q[1])
  BY <1>2 DEF Finals
<1> QED
  BY <1>1, <1>5, <1>6

\* An answer has one last response.
LEMMA FinalsSplit ==
    ASSUME NEW r \in Requests
    PROVE  Cardinality(Finals(Split(r))) = 1 /\ Cardinality(Finals(<<>>)) = 0
<1>1. PICK s : s = Split(r)
  OBVIOUS
<1>2. /\ s \in Seq(Parts) /\ Len(s) = Fulls(r) + 1 /\ Fulls(r) \in Nat
      /\ \A i \in DOMAIN s : IsLast(s[i]) <=> i = Fulls(r) + 1
  BY <1>1, SplitFacts
<1>3. DOMAIN s = 1 .. Fulls(r) + 1
  BY <1>2
<1>4. Finals(s) = {Fulls(r) + 1}
  BY <1>2, <1>3 DEF Finals
<1>5. Finals(<<>>) = {}
  BY DEF Finals
<1> QED
  BY <1>1, <1>4, <1>5, FS_Singleton, FS_EmptySet

LEMMA ServeInv ==
    ASSUME IInv, Serve
    PROVE  IInv'
<1>1. /\ Types /\ QueueOK /\ ChanOK /\ HeadOK /\ Chained(Flight) /\ Awaited
      /\ todo = <<>> /\ up # <<>> /\ todo' = Split(Head(up)) /\ up' = Tail(up)
      /\ call' = call /\ queue' = queue /\ chan' = chan /\ down' = down /\ loop' = loop
      /\ leaked' = leaked /\ lost' = lost
  BY DEF IInv, Serve
<1>2. PICK r \in Requests : r = Head(up)
  BY <1>1 DEF Types
<1>3. PICK s : s = Split(r)
  OBVIOUS
<1>4. /\ s \in Seq(Parts) /\ s # <<>> /\ Chained(s) /\ Off(s[1]) = 0 /\ s[1].req = r
  <2>1. s \in Seq(Parts) /\ s # <<>> /\ Chained(s) /\ Off(s[1]) = 0
        /\ \A i \in DOMAIN s : s[i].req = r
    BY <1>3, SplitFacts
  <2>2. 1 \in DOMAIN s
    BY <2>1
  <2> QED
    BY <2>1, <2>2
<1>5. todo' = s /\ Flight' = Flight \o s
  BY <1>1, <1>2, <1>3, ServeFlight
<1>6. /\ up' \in Seq(Requests) /\ Len(up) \in Nat /\ Len(up') = Len(up) - 1
  <2>1. up \in Seq(Requests) /\ up # <<>>
    BY <1>1 DEF Types
  <2> QED
    BY <1>1, <2>1, HeadTailProperties, LenProperties
<1>7. Types'
  BY <1>1, <1>4, <1>5, <1>6, CapsAssumption DEF Types
<1>8. QueueOK'
  BY <1>1 DEF QueueOK
<1>9. PICK f : f = Flight'
  OBVIOUS
<1>10. Flight \in Seq(Parts) /\ f = Flight \o s
  BY <1>1, <1>5, <1>9, FlightType
<1>11. Chained(f) /\ f # <<>> /\ f[1] = IF Flight = <<>> THEN s[1] ELSE Flight[1]
  BY <1>1, <1>4, <1>10, ChainAnswer
<1>12. ChanOK'
  BY <1>1, <1>9, <1>11 DEF ChanOK, Continues, InQueue
<1>13. HeadOK'
  <2>1. Prefix(r, 0) = <<>>
    BY PrefixEnds
  <2> QED
    BY <1>1, <1>4, <1>9, <1>11, <2>1 DEF HeadOK, Continues
<1>14. Awaited'
  <2>1. Cardinality(Finals(todo)) = 0 /\ Cardinality(Finals(s)) = 1
    BY <1>1, <1>3, FinalsSplit
  <2>2. Cardinality(Finals(todo)') = 1
    BY <1>5, <2>1 DEF Finals
  <2>3. Senders' = Senders /\ Finals(down)' = Finals(down) /\ Passing' = Passing
        /\ queue' = queue
    BY <1>1 DEF Finals, Passing, Senders
  <2> QED
    BY <1>1, <1>6, <2>1, <2>2, <2>3, Counts DEF Awaited
<1>15. Chained(Flight)'
  BY <1>9, <1>11 DEF Chained, Follows, IsLast, Off
<1> QED
  BY <1>7, <1>8, <1>12, <1>13, <1>14, <1>15 DEF IInv

LEMMA SendResponseInv ==
    ASSUME IInv, SendResponse
    PROVE  IInv'
<1>1. /\ Types /\ QueueOK /\ ChanOK /\ HeadOK /\ Chained(Flight) /\ Awaited
      /\ todo # <<>> /\ down' = Append(down, Head(todo)) /\ todo' = Tail(todo)
      /\ Len(down) < OutCap
      /\ call' = call /\ queue' = queue /\ chan' = chan /\ up' = up /\ loop' = loop
      /\ leaked' = leaked /\ lost' = lost
  BY DEF IInv, SendResponse, HasRoom
<1>2. Flight' = Flight
  BY <1>1, SendKeepsFlight
<1>3. todo \in Seq(Parts) /\ down \in Seq(Parts)
  BY <1>1 DEF Types
<1>4. PICK m \in Parts : m = todo[1]
  BY <1>1, <1>3, HeadTail
<1>5. Head(todo) = m /\ Tail(todo) \in Seq(Parts)
  BY <1>1, <1>3, <1>4, HeadTail
<1>6. /\ down' \in Seq(Parts) /\ Len(down') <= OutCap
  <2>1. Append(down, m) \in Seq(Parts) /\ Len(Append(down, m)) = Len(down) + 1
        /\ Len(down) \in Nat
    BY <1>3, AppendProperties, LenProperties
  <2> QED
    BY <1>1, <1>5, <2>1, CapsAssumption
<1>7. Types'
  BY <1>1, <1>5, <1>6 DEF Types
<1>8. QueueOK'
  BY <1>1 DEF QueueOK
<1>9. ChanOK'
  BY <1>1, <1>2 DEF ChanOK, Continues, InQueue
<1>10. HeadOK'
  BY <1>1, <1>2 DEF HeadOK, Continues
<1>11. Awaited'
  <2>1. Cardinality(Finals(Append(down, m))) = Cardinality(Finals(down))
                                               + (IF IsLast(m) THEN 1 ELSE 0)
    BY <1>3, FinalsAppend
  <2>2. Cardinality(Finals(todo)) = Cardinality(Finals(Tail(todo)))
                                    + (IF IsLast(m) THEN 1 ELSE 0)
    BY <1>1, <1>3, <1>4, FinalsTail
  <2>3. Finals(down)' = Finals(Append(down, m)) /\ Finals(todo)' = Finals(Tail(todo))
    BY <1>1, <1>5 DEF Finals
  <2>4. Cardinality(Finals(Tail(todo))) \in Nat
    BY <1>5, CountType DEF Finals
  <2>5. Senders' = Senders /\ Passing' = Passing
    BY <1>1 DEF Passing, Senders
  <2> QED
    BY <1>1, <2>1, <2>2, <2>3, <2>4, <2>5, Counts DEF Awaited
<1> QED
  BY <1>1, <1>2, <1>7, <1>8, <1>9, <1>10, <1>11 DEF IInv

\* A response on its way finds its request in the queue.
LEMMA RecvStep ==
    ASSUME IInv, RecvResponse
    PROVE  /\ queue # <<>> /\ down # <<>> /\ Head(down) \in Parts /\ Head(down) = down[1]
           /\ Tail(down) \in Seq(Parts) /\ Len(Tail(down)) = Len(down) - 1 /\ Len(down) \in Nat
           /\ loop.pc = "read" /\ loop' = [pc |-> "pass", msg |-> Head(down)]
           /\ down' = Tail(down) /\ todo' = todo /\ leaked' = leaked
           /\ call' = call /\ queue' = queue /\ chan' = chan /\ up' = up /\ lost' = lost
<1>1. /\ Types /\ down # <<>> /\ loop.pc = "read"
  BY DEF IInv, RecvResponse, LockFree
<1>2. down \in Seq(Parts) /\ todo \in Seq(Parts)
  BY <1>1 DEF Types
<1>3. Flight # <<>>
  <2>1. Len(down) \in Nat \ {0} /\ Len(todo) \in Nat
    BY <1>1, <1>2, HeadTail, LenProperties
  <2>2. PICK d : d = down \o todo
    OBVIOUS
  <2>3. Len(d) = Len(down) + Len(todo)
    BY <1>2, <2>2, ConcatProperties
  <2>4. d # <<>>
    BY <2>1, <2>3
  <2> QED
    BY <1>1, <2>2, <2>4 DEF Flight
<1>4. queue # <<>>
  BY <1>3, SomeoneWaits
<1>5. /\ Head(down) \in Parts /\ Head(down) = down[1] /\ Tail(down) \in Seq(Parts)
      /\ Len(Tail(down)) = Len(down) - 1 /\ Len(down) \in Nat
  BY <1>1, <1>2, HeadTail
<1> QED
  BY <1>1, <1>4, <1>5 DEF RecvResponse

LEMMA RecvResponseInv ==
    ASSUME IInv, RecvResponse
    PROVE  IInv'
<1>1. /\ Types /\ QueueOK /\ ChanOK /\ HeadOK /\ Chained(Flight) /\ Awaited
      /\ queue # <<>> /\ down # <<>> /\ Head(down) \in Parts /\ Head(down) = down[1]
      /\ Tail(down) \in Seq(Parts) /\ Len(Tail(down)) = Len(down) - 1 /\ Len(down) \in Nat
      /\ loop.pc = "read" /\ loop' = [pc |-> "pass", msg |-> Head(down)]
      /\ down' = Tail(down) /\ todo' = todo /\ leaked' = leaked
      /\ call' = call /\ queue' = queue /\ chan' = chan /\ up' = up /\ lost' = lost
  BY RecvStep DEF IInv
<1>2. PICK m \in Parts : m = down[1]
  BY <1>1
<1>3. loop'.pc = "pass" /\ loop'.msg = m
  BY <1>1, <1>2
<1>4. Flight' = Flight
  BY <1>1, <1>2, <1>3, RecvKeepsFlight
<1>5. Types'
  BY <1>1, <1>3, CapsAssumption DEF Types
<1>6. QueueOK'
  BY <1>1 DEF QueueOK
<1>7. ChanOK'
  BY <1>1, <1>4 DEF ChanOK, Continues, InQueue
<1>8. HeadOK'
  BY <1>1, <1>4 DEF HeadOK, Continues
<1>9. Awaited'
  <2>1. down \in Seq(Parts)
    BY <1>1 DEF Types
  <2>2. Cardinality(Finals(down)) = Cardinality(Finals(Tail(down)))
                                    + (IF IsLast(m) THEN 1 ELSE 0)
    BY <1>1, <1>2, <2>1, FinalsTail
  <2>3. Cardinality(Finals(Tail(down))) \in Nat
    BY <1>1, CountType DEF Finals
  <2>4. Finals(down)' = Finals(Tail(down)) /\ Finals(todo)' = Finals(todo)
        /\ Senders' = Senders
    BY <1>1 DEF Finals, Senders
  <2>5. Passing = 0 /\ Passing' = IF IsLast(m) THEN 1 ELSE 0
    <3>1. PICK l : l = loop'
      OBVIOUS
    <3> QED
      BY <1>1, <1>3, <3>1 DEF Passing, IsLast
  <2> QED
    BY <1>1, <2>2, <2>3, <2>4, <2>5, Counts DEF Awaited
<1> QED
  BY <1>1, <1>4, <1>5, <1>6, <1>7, <1>8, <1>9 DEF IInv

\* The response goes to the first in the queue, who leaves it after the last.
LEMMA PassOnStep ==
    ASSUME IInv, PassOn, NEW m, m = loop.msg, NEW h, h = queue[1]
    PROVE  /\ m \in Parts /\ h \in Callers /\ Len(queue) \in Nat \ {0}
           /\ chan[h] = <<>> /\ Continues(h, m)
           /\ chan' = [chan EXCEPT ![h] = <<m>>] /\ loop' = Reading
           /\ queue' \in Seq(Callers)
           /\ IF IsLast(m)
                THEN /\ Len(queue') = Len(queue) - 1 /\ DOMAIN queue' = 1 .. Len(queue) - 1
                     /\ \A i \in 1 .. Len(queue) - 1 : queue'[i] = queue[i + 1]
                ELSE queue' = queue
           /\ Flight # <<>> /\ Flight' = Tail(Flight) /\ Flight[1] = m
           /\ loop.pc = "pass" /\ call' = call /\ up' = up /\ todo' = todo /\ down' = down
           /\ leaked' = leaked /\ lost' = lost
<1>1. /\ Types /\ loop.pc = "pass" /\ loop' = Reading /\ call' = call /\ up' = up
      /\ todo' = todo /\ down' = down /\ leaked' = leaked /\ lost' = lost
  BY DEF IInv, PassOn
<1>2. Flight # <<>> /\ Flight[1] = m /\ Tail(Flight) = down \o todo /\ m \in Parts
  BY <1>1, FlightType DEF Types
<1>3. queue # <<>> /\ queue \in Seq(Callers)
  BY <1>1, <1>2, SomeoneWaits DEF Types
<1>4. /\ Head(queue) = h /\ h \in Callers /\ Len(queue) \in Nat \ {0}
  BY <1>3
<1>5. PICK t : t = Tail(queue)
  OBVIOUS
<1>6. /\ t \in Seq(Callers) /\ Len(t) = Len(queue) - 1 /\ DOMAIN t = 1 .. Len(queue) - 1
      /\ \A i \in 1 .. Len(queue) - 1 : t[i] = queue[i + 1]
  <2>1. /\ t \in Seq(Callers) /\ Len(t) = Len(queue) - 1
        /\ \A i \in 1 .. Len(t) : t[i] = queue[i + 1]
    BY <1>3, <1>5, HeadTailProperties
  <2> QED
    BY <2>1, LenProperties
<1>7. chan[h] = <<>> /\ chan' = [chan EXCEPT ![h] = <<m>>]
      /\ queue' = IF IsLast(m) THEN t ELSE queue
  BY <1>4, <1>5 DEF PassOn
<1>8. Continues(h, m)
  BY <1>2, <1>3, <1>7 DEF IInv, HeadOK
<1>9. Flight' = Tail(Flight)
  <2>1. loop'.pc = "read"
    BY <1>1 DEF Reading
  <2> QED
    BY <1>1, <1>2, <2>1 DEF Flight
<1> QED
  BY <1>1, <1>2, <1>3, <1>4, <1>6, <1>7, <1>8, <1>9

LEMMA PassOnInv ==
    ASSUME IInv, PassOn
    PROVE  IInv'
<1>1. PICK m : m = loop.msg
  OBVIOUS
<1>2. PICK h : h = queue[1]
  OBVIOUS
<1>3. /\ Types /\ QueueOK /\ ChanOK /\ HeadOK /\ Chained(Flight) /\ Awaited
  BY DEF IInv
<1>4. /\ m \in Parts /\ h \in Callers /\ Len(queue) \in Nat \ {0}
      /\ chan[h] = <<>> /\ Continues(h, m)
      /\ chan' = [chan EXCEPT ![h] = <<m>>] /\ loop' = Reading
      /\ queue' \in Seq(Callers)
      /\ IF IsLast(m)
           THEN /\ Len(queue') = Len(queue) - 1 /\ DOMAIN queue' = 1 .. Len(queue) - 1
                /\ \A i \in 1 .. Len(queue) - 1 : queue'[i] = queue[i + 1]
           ELSE queue' = queue
      /\ Flight # <<>> /\ Flight' = Tail(Flight) /\ Flight[1] = m
      /\ loop.pc = "pass" /\ call' = call /\ up' = up /\ todo' = todo /\ down' = down
      /\ leaked' = leaked /\ lost' = lost
  BY <1>1, <1>2, PassOnStep
<1>5. PICK u : u = <<m>>
  OBVIOUS
<1>6. u \in Seq(Parts) /\ Len(u) <= 1 /\ u[1] = m /\ u # <<>>
  BY <1>4, <1>5
<1>7. /\ chan' \in [Callers -> Seq(Parts)] /\ chan'[h] = u
      /\ \A d \in Callers \ {h} : chan'[d] = chan[d]
  BY <1>3, <1>4, <1>5, <1>6 DEF Types
<1>8. Types'
  <2>1. ASSUME NEW d \in Callers
        PROVE  Len(chan'[d]) <= 1
    <3>1. CASE d = h
      <4>1. chan'[d] = u
        BY <1>7, <3>1
      <4> QED
        BY <1>6, <4>1, Zenon
    <3>2. CASE d # h
      <4>1. chan'[d] = chan[d] /\ Len(chan[d]) <= 1
        BY <1>3, <1>7, <3>2 DEF Types
      <4> QED
        BY <4>1
    <3> QED
      BY <3>1, <3>2
  <2>2. loop'.pc = "read"
    BY <1>4 DEF Reading
  <2> QED
    BY <1>3, <1>4, <1>7, <2>1, <2>2 DEF Types
<1>9. /\ queue \in Seq(Callers) /\ DOMAIN queue = 1 .. Len(queue) /\ 1 \in DOMAIN queue
      /\ \A i \in DOMAIN queue : queue[i] \in Callers /\ (i > 1 => queue[i] # h)
  <2>1. queue \in Seq(Callers) /\ Len(queue) \in Nat \ {0}
    BY <1>3, <1>4 DEF Types
  <2>2. DOMAIN queue = 1 .. Len(queue) /\ 1 \in DOMAIN queue
    BY <2>1
  <2>3. \A i \in DOMAIN queue : queue[i] \in Callers
    BY <2>1
  <2>4. ASSUME NEW i \in DOMAIN queue, i > 1
        PROVE  queue[i] # h
    <3>1. queue[i] = queue[1] => i = 1
      BY <1>3, <2>2 DEF QueueOK
    <3> QED
      BY <1>2, <2>2, <2>4, <3>1
  <2> QED
    BY <2>1, <2>2, <2>3, <2>4
\* Where those in the queue were before.
<1>10. ASSUME NEW i \in DOMAIN queue'
       PROVE  LET o == IF IsLast(m) THEN i + 1 ELSE i IN
              i \in Nat /\ o \in DOMAIN queue /\ o >= i /\ queue'[i] = queue[o]
  <2>1. CASE IsLast(m)
    BY <1>4, <1>9, <2>1
  <2>2. CASE ~ IsLast(m)
    BY <1>4, <1>9, <2>2
  <2> QED
    BY <2>1, <2>2
<1>11. QueueOK'
  <2>1. ASSUME NEW i \in DOMAIN queue', NEW j \in DOMAIN queue', queue'[i] = queue'[j]
        PROVE  i = j
    <3>1. CASE IsLast(m)
      <4>1. i + 1 \in DOMAIN queue /\ j + 1 \in DOMAIN queue /\ queue[i + 1] = queue[j + 1]
            /\ i \in Int /\ j \in Int
        BY <1>4, <1>10, <2>1, <3>1
      <4>2. i + 1 = j + 1
        BY <1>3, <4>1 DEF QueueOK
      <4> QED
        BY <4>1, <4>2
    <3>2. CASE ~ IsLast(m)
      BY <1>3, <1>4, <2>1, <3>2 DEF QueueOK
    <3> QED
      BY <3>1, <3>2
  <2>2. ASSUME NEW i \in DOMAIN queue'
        PROVE  /\ i > 1 => chan'[queue'[i]] = <<>> /\ call[queue'[i]].got = <<>>
               /\ ~ lost => call[queue'[i]].pc # "idle"
    <3>1. PICK o \in DOMAIN queue : i \in Nat /\ o >= i /\ queue'[i] = queue[o]
      BY <1>10
    <3>2. i \in Nat /\ o \in Nat /\ (i > 1 => o > 1)
      BY <1>9, <3>1
    <3>3. /\ o > 1 => chan[queue[o]] = <<>> /\ call[queue[o]].got = <<>>
          /\ ~ lost => call[queue[o]].pc # "idle"
      BY <1>3 DEF QueueOK
    <3>4. o > 1 => chan'[queue[o]] = chan[queue[o]]
      BY <1>7, <1>9
    <3> QED
      BY <3>1, <3>2, <3>3, <3>4
  <2>3. ASSUME NEW d \in Callers
        PROVE  /\ call[d].pc = "send" => call[d].got = <<>> /\ call[d].req \in Requests
               /\ ~ lost /\ call[d].pc = "idle" => chan'[d] = <<>>
    <3>1. 1 \in DOMAIN queue
      BY <1>9
    <3>2. ~ lost => call[h].pc # "idle"
      BY <1>2, <1>3, <3>1 DEF QueueOK
    <3> QED
      BY <1>3, <1>7, <3>2 DEF QueueOK
  <2> QED
    BY <1>4, <2>1, <2>2, <2>3 DEF QueueOK
<1>12. PICK f : f = Tail(Flight)
  OBVIOUS
<1>13. /\ Flight' = f /\ f \in Seq(Parts) /\ Chained(f)
       /\ IF f = <<>> THEN IsLast(m) ELSE Follows(m, f[1]) /\ f[1] \in Parts
  <2>1. Flight \in Seq(Parts)
    BY <1>3, FlightType
  <2>2. Chained(f) /\ IF f = <<>> THEN IsLast(m) ELSE Follows(m, f[1])
    BY <1>3, <1>4, <1>12, <2>1, ChainTail
  <2>3. f \in Seq(Parts)
    BY <1>4, <1>12, <2>1, HeadTail
  <2>4. f # <<>> => f[1] \in Parts
    BY <2>3, HeadTail
  <2> QED
    BY <1>4, <1>12, <2>2, <2>3, <2>4
<1>14. \A d \in Callers : (\A i \in DOMAIN queue : queue[i] # d) => \A i \in DOMAIN queue' : queue'[i] # d
  BY <1>10
<1>15. ChanOK'
  <2>1. ASSUME NEW d \in Callers, chan'[d] # <<>>
        PROVE  LET n == chan'[d][1] IN
               /\ call[d].got = Prefix(n.req, Off(n))
               /\ IF IsLast(n) THEN \A i \in DOMAIN queue' : queue'[i] # d
                  ELSE queue' # <<>> /\ queue'[1] = d /\ f # <<>> /\ Follows(n, f[1])
    <3>1. CASE d = h
      <4>1. chan'[d][1] = m /\ call[d].got = Prefix(m.req, Off(m))
        BY <1>4, <1>6, <1>7, <3>1 DEF Continues
      <4>2. CASE IsLast(m)
        <5>1. \A i \in DOMAIN queue' : queue'[i] # d
          <6>1. ASSUME NEW i \in DOMAIN queue'
                PROVE  queue'[i] # d
            <7>1. i + 1 \in DOMAIN queue /\ queue'[i] = queue[i + 1] /\ i + 1 > 1
              BY <1>4, <1>10, <4>2
            <7> QED
              BY <1>9, <3>1, <7>1
          <6> QED
            BY <6>1
        <5> QED
          BY <4>1, <4>2, <5>1
      <4>3. CASE ~ IsLast(m)
        <5>1. queue' # <<>> /\ queue'[1] = d
          BY <1>2, <1>4, <3>1, <4>3
        <5> QED
          BY <1>13, <4>1, <4>3, <5>1
      <4> QED
        BY <4>2, <4>3
    <3>2. CASE d # h
      <4>0. PICK n : n = chan[d][1]
        OBVIOUS
      <4>1. chan'[d] = chan[d] /\ chan[d] # <<>>
        BY <1>7, <2>1, <3>2
      <4>2. /\ call[d].got = Prefix(n.req, Off(n))
            /\ IF IsLast(n) THEN \A i \in DOMAIN queue : queue[i] # d ELSE queue[1] = d
        BY <1>3, <4>0, <4>1 DEF ChanOK, Continues, InQueue
      <4>3. IsLast(n) /\ \A i \in DOMAIN queue' : queue'[i] # d
        BY <1>2, <1>14, <3>2, <4>2
      <4> QED
        BY <4>0, <4>1, <4>2, <4>3
    <3> QED
      BY <3>1, <3>2
  <2> QED
    BY <1>4, <1>13, <2>1 DEF ChanOK, Continues, InQueue
<1>16. HeadOK'
  <2>1. ASSUME queue' # <<>>, chan'[queue'[1]] = <<>>
        PROVE  IF f = <<>> THEN call[queue'[1]].got = <<>>
               ELSE call[queue'[1]].got = Prefix(f[1].req, Off(f[1]))
    <3>1. 1 \in DOMAIN queue'
      BY <1>4, <2>1, EmptySeq
    <3>2. IsLast(m)
      <4>1. ASSUME ~ IsLast(m)
            PROVE  FALSE
        <5>1. queue'[1] = h
          BY <1>2, <1>4, <4>1
        <5> QED
          BY <1>6, <1>7, <2>1, <5>1
      <4> QED
        BY <4>1
    <3>3. 2 \in DOMAIN queue /\ queue'[1] = queue[2]
      BY <1>10, <3>1, <3>2
    <3>4. call[queue'[1]].got = <<>>
      BY <1>3, <3>3 DEF QueueOK
    <3>5. ASSUME f # <<>>
          PROVE  Prefix(f[1].req, Off(f[1])) = <<>>
      <4>1. Off(f[1]) = 0 /\ f[1] \in Parts
        BY <1>13, <3>2, <3>5 DEF Follows
      <4>2. f[1].req \in Requests
        BY <4>1, PartsFacts
      <4> QED
        BY <4>1, <4>2, PrefixEnds
    <3> QED
      BY <3>4, <3>5
  <2> QED
    BY <1>4, <1>13, <2>1 DEF HeadOK, Continues
<1>17. Awaited'
  <2>1. Len(queue') = Len(queue) - (IF IsLast(m) THEN 1 ELSE 0)
    BY <1>4
  <2>2. Passing = IF IsLast(m) THEN 1 ELSE 0
    BY <1>1, <1>4 DEF Passing
  <2>3. Passing' = 0
    BY <1>4 DEF Passing, Reading
  <2>4. Senders' = Senders /\ Finals(todo)' = Finals(todo) /\ Finals(down)' = Finals(down)
    BY <1>4 DEF Senders, Finals
  <2> QED
    BY <1>3, <1>4, <2>1, <2>2, <2>3, <2>4, Counts DEF Awaited
<1> QED
  BY <1>8, <1>11, <1>13, <1>15, <1>16, <1>17 DEF IInv

LEMMA LoseInv ==
    ASSUME IInv, Lose
    PROVE  IInv'
<1>1. /\ Types /\ QueueOK /\ ChanOK /\ HeadOK /\ Chained(Flight) /\ Awaited
      /\ lost' = TRUE /\ call' = call /\ queue' = queue /\ chan' = chan /\ up' = up
      /\ todo' = todo /\ down' = down /\ loop' = loop /\ leaked' = leaked
  BY DEF IInv, Lose
<1>2. Flight' = Flight
  BY <1>1 DEF Flight
<1>3. Types'
  BY <1>1 DEF Types
<1>4. QueueOK'
  BY <1>1 DEF QueueOK
<1>5. ChanOK'
  BY <1>1, <1>2 DEF ChanOK, Continues, InQueue
<1>6. HeadOK'
  BY <1>1, <1>2 DEF HeadOK, Continues
<1>7. Awaited'
  BY <1>1 DEF Awaited, Senders, Finals, Passing
<1> QED
  BY <1>1, <1>2, <1>3, <1>4, <1>5, <1>6, <1>7 DEF IInv

\* Only outCtrl is closed, or nothing happens.
LEMMA QuietInv ==
    ASSUME IInv, (\E c \in Callers : Panic(c)) \/ CloseOut \/ UNCHANGED vars
    PROVE  IInv'
<1>1. /\ Types /\ QueueOK /\ ChanOK /\ HeadOK /\ Chained(Flight) /\ Awaited
      /\ call' = call /\ queue' = queue /\ chan' = chan /\ up' = up /\ lost' = lost
      /\ todo' = todo /\ down' = down /\ loop' = loop /\ leaked' = leaked
  BY DEF IInv, vars, Panic, CloseOut
<1>2. Flight' = Flight
  BY <1>1 DEF Flight
<1>3. Types'
  BY <1>1 DEF Types
<1>4. QueueOK'
  BY <1>1 DEF QueueOK
<1>5. ChanOK'
  BY <1>1, <1>2 DEF ChanOK, Continues, InQueue
<1>6. HeadOK'
  BY <1>1, <1>2 DEF HeadOK, Continues
<1>7. Awaited'
  BY <1>1 DEF Awaited, Senders, Finals, Passing
<1> QED
  BY <1>1, <1>2, <1>3, <1>4, <1>5, <1>6, <1>7 DEF IInv

LEMMA InitInv ==
    ASSUME Init
    PROVE  IInv
<1>1. /\ call = [c \in Callers |-> [pc |-> "idle", req |-> 0, got |-> <<>>]]
      /\ queue = <<>> /\ chan = [c \in Callers |-> <<>>] /\ up = <<>> /\ todo = <<>>
      /\ down = <<>> /\ loop = Reading /\ leaked = FALSE /\ lost = FALSE
  BY DEF Init
<1>2. \A T : <<>> \in Seq(T)
  OBVIOUS
<1>3. loop.pc = "read"
  BY <1>1 DEF Reading
<1>4. PICK n : n = [pc |-> "idle", req |-> 0, got |-> <<>>]
  OBVIOUS
<1>5. n \in CallRec /\ n.pc = "idle"
  BY <1>2, <1>4 DEF CallRec
<1>6. \A c \in Callers : call[c] = n /\ chan[c] = <<>>
  BY <1>1, <1>4
<1>7. Types
  <2>1. call \in [Callers -> CallRec]
    BY <1>1, <1>4, <1>5
  <2>2. chan \in [Callers -> Seq(Parts)]
    BY <1>1, <1>2
  <2>3. \A c \in Callers : Len(chan[c]) <= 1
    BY <1>6
  <2>4. Len(up) <= OutCap /\ Len(down) <= OutCap
    BY <1>1, CapsAssumption
  <2> QED
    BY <1>1, <1>2, <1>3, <2>1, <2>2, <2>3, <2>4 DEF Types, CallRec
<1>8. Flight = <<>>
  BY <1>1, <1>3, <1>2, ConcatEmptySeq DEF Flight
<1>9. QueueOK
  BY <1>1, <1>5, <1>6 DEF QueueOK
<1>10. ChanOK /\ HeadOK
  BY <1>1, <1>6 DEF ChanOK, HeadOK
<1>11. Chained(Flight)
  BY <1>8 DEF Chained
<1>12. Awaited
  <2>1. Senders = {} /\ Finals(todo) = {} /\ Finals(down) = {}
    BY <1>1, <1>5, <1>6 DEF Senders, Finals
  <2>2. Passing = 0
    BY <1>3 DEF Passing
  <2>3. Cardinality(Senders) = 0 /\ Cardinality(Finals(todo)) = 0
        /\ Cardinality(Finals(down)) = 0
    BY <2>1, FS_EmptySet
  <2>4. Len(queue) = 0 /\ Len(up) = 0
    BY <1>1
  <2> QED
    BY <2>2, <2>3, <2>4 DEF Awaited
<1> QED
  BY <1>7, <1>9, <1>10, <1>11, <1>12 DEF IInv

LEMMA StepInv ==
    ASSUME IInv, [Next]_vars
    PROVE  IInv'
<1>1. CASE \E c \in Callers, r \in Requests : Ask(c, r)
  BY <1>1, AskInv
<1>2. CASE \E c \in Callers : SendRequest(c)
  BY <1>2, SendRequestInv
<1>3. CASE \E c \in Callers : Refused(c)
  BY <1>3, RefusedInv
<1>4. CASE \E c \in Callers : ReadResponse(c)
  BY <1>4, ReadResponseInv
<1>5. CASE Serve
  BY <1>5, ServeInv
<1>6. CASE SendResponse
  BY <1>6, SendResponseInv
<1>7. CASE RecvResponse
  BY <1>7, RecvResponseInv
<1>8. CASE PassOn
  BY <1>8, PassOnInv
<1>9. CASE Lose
  BY <1>9, LoseInv
<1>10. CASE (\E c \in Callers : Panic(c)) \/ CloseOut \/ UNCHANGED vars
  BY <1>10, QuietInv
<1> QED
  BY <1>1, <1>2, <1>3, <1>4, <1>5, <1>6, <1>7, <1>8, <1>9, <1>10 DEF Next

LEMMA AlwaysInv == Spec => []IInv
<1>1. Init => IInv
  BY InitInv
<1>2. IInv /\ [Next]_vars => IInv'
  BY StepInv
<1> QED
  BY <1>1, <1>2, PTL DEF Spec

\* Every variable keeps its type, a caller's channel holds one response at most
\* and the queues in either direction what outCtrl may hold.
THEOREM TypeCorrect == Spec => []TypeOK
<1> DEFINE OutOK == out \in {"open", "closed", "panicked"}
<1>1. IInv /\ OutOK => TypeOK
  <2>1. ASSUME IInv, OutOK
        PROVE  TypeOK
    BY <2>1 DEF IInv, Types, TypeOK
  <2> QED
    BY <2>1
<1>2. Init => OutOK
  BY DEF Init
<1>3. OutOK /\ [Next]_vars => OutOK'
  BY DEF Next, vars, Ask, SendRequest, Refused, Panic, ReadResponse, Serve, SendResponse,
         RecvResponse, PassOn, Lose, CloseOut
<1> QED
  BY <1>1, <1>2, <1>3, AlwaysInv, PTL DEF Spec

\* handleClientConnection never reads a MetaResp for which no request waits, so
\* it never breaks out of its switch with metaDataRequestMu held, however many
\* calls overlap and whichever of them fail.
THEOREM StrayCorrect == Spec => []NoStray
<1>1. IInv => NoStray
  BY DEF IInv, Types, NoStray
<1> QED
  BY <1>1, AlwaysInv, PTL

\* A call waits with its request for room in outCtrl only if there are more calls
\* than outCtrl has places, whatever the answers that are on their way.
THEOREM RoomCorrect == Spec => []RoomForCalls
<1>1. ASSUME IInv, NEW c \in Callers, call[c].pc = "send", ~ lost, Len(up) >= OutCap
      PROVE  Cardinality(Calling) > OutCap
  <2> DEFINE n == Len(queue)
  <2>1. /\ queue \in Seq(Callers) /\ n \in Nat /\ DOMAIN queue = 1 .. n
        /\ \A i, j \in 1 .. n : queue[i] = queue[j] => i = j
        /\ \A i \in 1 .. n : queue[i] \in Calling
    <3>1. queue \in Seq(Callers)
      BY <1>1 DEF IInv, Types
    <3>2. n \in Nat /\ DOMAIN queue = 1 .. n /\ \A i \in 1 .. n : queue[i] \in Callers
      BY <3>1
    <3>3. /\ \A i, j \in DOMAIN queue : queue[i] = queue[j] => i = j
          /\ \A i \in DOMAIN queue : call[queue[i]].pc # "idle"
      BY <1>1 DEF IInv, QueueOK
    <3> HIDE DEF n
    <3>4. /\ \A i, j \in 1 .. n : queue[i] = queue[j] => i = j
          /\ \A i \in 1 .. n : call[queue[i]].pc # "idle"
      BY <3>2, <3>3
    <3> QED
      BY <3>1, <3>2, <3>4 DEF Calling
  <2>2. IsFiniteSet(Calling) /\ Cardinality(Calling) \in Nat
    BY CallersAssumption, FS_Subset, FS_CardinalityType DEF Calling
  <2>3. IsFiniteSet(1 .. n) /\ Cardinality(1 .. n) = n
    BY <2>1, FS_Interval
  <2>4. n <= Cardinality(Calling)
    <3> DEFINE f == [i \in 1 .. n |-> queue[i]]
    <3>1. f \in Injection(1 .. n, Calling)
      BY <2>1 DEF Injection, IsInjective
    <3> HIDE DEF f
    <3> QED
      BY <2>2, <2>3, <3>1, FS_Injection
  <2>5. Cardinality(Senders) >= 1
    <3>1. c \in Senders /\ IsFiniteSet(Senders) /\ Cardinality(Senders) \in Nat
      BY <1>1, Counts DEF Senders, IInv
    <3>2. Cardinality(Senders) # 0
      BY <3>1, FS_EmptySet
    <3> QED
      BY <3>1, <3>2
  <2>6. n >= Cardinality(Senders) + Len(up)
    <3>1. /\ Cardinality(Senders) \in Nat /\ Len(up) \in Nat
          /\ Cardinality(Finals(todo)) \in Nat /\ Cardinality(Finals(down)) \in Nat
          /\ Passing \in Nat
      BY <1>1, Counts DEF IInv
    <3> QED
      BY <1>1, <2>1, <3>1 DEF IInv, Awaited
  <2>7. Cardinality(Senders) \in Nat /\ Len(up) \in Nat /\ OutCap \in Nat
    BY <1>1, Counts, CapsAssumption DEF IInv
  <2> QED
    BY <1>1, <2>1, <2>2, <2>4, <2>5, <2>6, <2>7
<1>2. IInv => RoomForCalls
  BY <1>1 DEF RoomForCalls
<1> QED
  BY <1>2, AlwaysInv, PTL

-----------------------------------------------------------------------------
(* The calls as their callers see them. *)

Pending == [r \in Requests |-> OnTheWay(r)]
Answers == [c \in Callers |-> IF call[c].pc = "idle" THEN call[c].got ELSE <<>>]

SendersOf(r)   == {c \in Callers : call[c].pc = "send" /\ call[c].req = r}
AskedOf(r)     == {i \in DOMAIN up : up[i] = r}
FinalsOf(r, q) == {i \in DOMAIN q : q[i].req = r /\ IsLast(q[i])}
PassingOf(r)   == IF loop.pc = "pass" /\ loop.msg.req = r /\ IsLast(loop.msg) THEN 1 ELSE 0
UnreadOf(r)    == {c \in Callers : /\ chan[c] # <<>> /\ Head(chan[c]).req = r
                                   /\ IsLast(Head(chan[c]))}

\* Before the last response of its answer is on its way, and after.
Sending(r) == Cardinality(SendersOf(r)) + Cardinality(AskedOf(r))
              + Cardinality(FinalsOf(r, todo))
Coming(r)  == Cardinality(FinalsOf(r, down)) + PassingOf(r) + Cardinality(UnreadOf(r))

LEMMA OnTheWayIs ==
    ASSUME IInv, NEW r
    PROVE  /\ OnTheWay(r) = Sending(r) + Coming(r)
           /\ Cardinality(SendersOf(r)) \in Nat /\ Cardinality(AskedOf(r)) \in Nat
           /\ Cardinality(FinalsOf(r, todo)) \in Nat /\ Cardinality(FinalsOf(r, down)) \in Nat
           /\ PassingOf(r) \in {0, 1} /\ Cardinality(UnreadOf(r)) \in Nat
           /\ IsFiniteSet(SendersOf(r)) /\ IsFiniteSet(UnreadOf(r))
<1>1. IsFiniteSet(SendersOf(r)) /\ IsFiniteSet(UnreadOf(r))
  BY CallersAssumption, FS_Subset DEF SendersOf, UnreadOf
<1>2. Cardinality(SendersOf(r)) \in Nat /\ Cardinality(UnreadOf(r)) \in Nat
  BY <1>1, FS_CardinalityType
<1>3. Cardinality(AskedOf(r)) \in Nat
  BY CountType DEF IInv, Types, AskedOf
<1>4. Cardinality(FinalsOf(r, todo)) \in Nat /\ Cardinality(FinalsOf(r, down)) \in Nat
  BY CountType DEF IInv, Types, FinalsOf
<1>5. PassingOf(r) \in {0, 1}
  BY DEF PassingOf
<1>6. OnTheWay(r) = Cardinality(SendersOf(r)) + Cardinality(AskedOf(r))
                    + Cardinality(FinalsOf(r, todo)) + Cardinality(FinalsOf(r, down))
                    + PassingOf(r) + Cardinality(UnreadOf(r))
  BY DEF OnTheWay, SendersOf, AskedOf, FinalsOf, PassingOf, UnreadOf
<1> QED
  BY <1>1, <1>2, <1>3, <1>4, <1>5, <1>6 DEF Sending, Coming

LEMMA OnTheWayNext ==
    ASSUME IInv', NEW r
    PROVE  OnTheWay(r)' = Sending(r)' + Coming(r)'
<1>1. IsFiniteSet(SendersOf(r)') /\ IsFiniteSet(UnreadOf(r)')
  BY CallersAssumption, FS_Subset DEF SendersOf, UnreadOf
<1>2. Cardinality(SendersOf(r)') \in Nat /\ Cardinality(UnreadOf(r)') \in Nat
  BY <1>1, FS_CardinalityType
<1>3. up' \in Seq(Requests) /\ todo' \in Seq(Parts) /\ down' \in Seq(Parts)
  BY DEF IInv, Types, Parts, Part, Resp, Listing
<1>4. Cardinality(AskedOf(r)') \in Nat
  BY <1>3, CountType DEF AskedOf
<1>5. Cardinality(FinalsOf(r, todo)') \in Nat /\ Cardinality(FinalsOf(r, down)') \in Nat
  BY <1>3, CountType DEF FinalsOf
<1>6. PassingOf(r)' \in {0, 1}
  BY DEF PassingOf
<1>7. OnTheWay(r)' = Cardinality(SendersOf(r)') + Cardinality(AskedOf(r)')
                     + Cardinality(FinalsOf(r, todo)') + Cardinality(FinalsOf(r, down)')
                     + PassingOf(r)' + Cardinality(UnreadOf(r)')
  BY DEF OnTheWay, SendersOf, AskedOf, FinalsOf, PassingOf, UnreadOf
<1> QED
  BY <1>2, <1>4, <1>5, <1>6, <1>7 DEF Sending, Coming

LEMMA FinalsOfAppend ==
    ASSUME NEW q \in Seq(Parts), NEW m \in Parts, NEW r
    PROVE  Cardinality(FinalsOf(r, Append(q, m)))
               = Cardinality(FinalsOf(r, q)) + (IF m.req = r /\ IsLast(m) THEN 1 ELSE 0)
<1>1. PICK a : a = Append(q, m)
  OBVIOUS
<1>2. /\ Len(q) \in Nat /\ DOMAIN q = 1 .. Len(q) /\ DOMAIN a = 1 .. Len(q) + 1
      /\ a[Len(q) + 1] = m /\ \A i \in 1 .. Len(q) : a[i] = q[i]
  BY <1>1, AppendProperties, LenProperties
<1>3. FinalsOf(r, a) \in SUBSET DOMAIN a /\ FinalsOf(r, q) \in SUBSET DOMAIN q
  BY DEF FinalsOf
<1>4. \A i \in DOMAIN q : i \in FinalsOf(r, a) <=> i \in FinalsOf(r, q)
  BY <1>2 DEF FinalsOf
<1>5. Cardinality(FinalsOf(r, a)) = Cardinality(FinalsOf(r, q))
                                    + (IF Len(q) + 1 \in FinalsOf(r, a) THEN 1 ELSE 0)
  BY <1>1, <1>3, <1>4, CountAppend
<1>6. Len(q) + 1 \in FinalsOf(r, a) <=> m.req = r /\ IsLast(m)
  BY <1>2 DEF FinalsOf
<1> QED
  BY <1>1, <1>5, <1>6

LEMMA FinalsOfTail ==
    ASSUME NEW q \in Seq(Parts), q # <<>>, NEW r
    PROVE  /\ Cardinality(FinalsOf(r, Tail(q))) \in Nat
           /\ Cardinality(FinalsOf(r, q))
                  = Cardinality(FinalsOf(r, Tail(q)))
                    + (IF q[1].req = r /\ IsLast(q[1]) THEN 1 ELSE 0)
<1>1. PICK t : t = Tail(q)
  OBVIOUS
<1>2. /\ Len(q) \in Nat \ {0} /\ DOMAIN q = 1 .. Len(q) /\ DOMAIN t = 1 .. Len(q) - 1
      /\ t \in Seq(Parts) /\ \A i \in 1 .. Len(q) - 1 : t[i] = q[i + 1]
  BY <1>1, HeadTail
<1>3. FinalsOf(r, t) \in SUBSET DOMAIN t /\ FinalsOf(r, q) \in SUBSET DOMAIN q
  BY DEF FinalsOf
<1>4. \A i \in DOMAIN t : i \in FinalsOf(r, t) <=> i + 1 \in FinalsOf(r, q)
  BY <1>2 DEF FinalsOf
<1>5. Cardinality(FinalsOf(r, q)) = Cardinality(FinalsOf(r, t))
                                    + (IF 1 \in FinalsOf(r, q) THEN 1 ELSE 0)
  BY <1>1, <1>3, <1>4, CountTail
<1>6. 1 \in FinalsOf(r, q) <=> q[1].req = r /\ IsLast(q[1])
  BY <1>2 DEF FinalsOf
<1>7. Cardinality(FinalsOf(r, t)) \in Nat
  BY <1>2, <1>3, CountType
<1> QED
  BY <1>1, <1>5, <1>6, <1>7

LEMMA FinalsOfSplit ==
    ASSUME NEW r \in Requests, NEW s
    PROVE  /\ Cardinality(FinalsOf(s, Split(r))) = IF s = r THEN 1 ELSE 0
           /\ Cardinality(FinalsOf(s, <<>>)) = 0
<1>1. PICK a : a = Split(r)
  OBVIOUS
<1>2. /\ a \in Seq(Parts) /\ Len(a) = Fulls(r) + 1 /\ Fulls(r) \in Nat
      /\ \A i \in DOMAIN a : a[i].req = r /\ (IsLast(a[i]) <=> i = Fulls(r) + 1)
  BY <1>1, SplitFacts
<1>3. DOMAIN a = 1 .. Fulls(r) + 1
  BY <1>2
<1>4. s = r => FinalsOf(s, a) = {Fulls(r) + 1}
  BY <1>2, <1>3 DEF FinalsOf
<1>5. s # r => FinalsOf(s, a) = {}
  BY <1>2 DEF FinalsOf
<1>6. FinalsOf(s, <<>>) = {}
  BY DEF FinalsOf
<1> QED
  BY <1>1, <1>4, <1>5, <1>6, FS_Singleton, FS_EmptySet

\* Steps that no caller sees.
LEMMA ViewKept ==
    ASSUME \A c \in Callers : /\ call'[c].pc = "idle" <=> call[c].pc = "idle"
                              /\ call[c].pc = "idle" => call'[c].got = call[c].got,
           \A r \in Requests : OnTheWay(r)' = OnTheWay(r)
    PROVE  UNCHANGED Calls!vars
<1>1. Calling' = Calling
  BY DEF Calling
<1>2. Pending' = Pending
  BY DEF Pending
<1>3. Answers' = Answers
  BY DEF Answers
<1> QED
  BY <1>1, <1>2, <1>3 DEF Calls!vars, Calling, Pending, Answers

LEMMA AskMaps ==
    ASSUME IInv, IInv', NEW c \in Callers, NEW r \in Requests, Ask(c, r)
    PROVE  Calls!Ask(c, r)
<1>1. /\ Types /\ QueueOK /\ call[c].pc = "idle" /\ ~ lost /\ chan[c] = <<>>
      /\ up' = up /\ todo' = todo /\ down' = down /\ loop' = loop
  BY DEF IInv, QueueOK, Ask
<1>2. PICK n : n = [pc |-> "send", req |-> r, got |-> <<>>]
  OBVIOUS
<1>3. n.pc = "send" /\ n.req = r
  BY <1>2
<1>4. call'[c] = n /\ \A d \in Callers \ {c} : call'[d] = call[d]
  BY <1>1, <1>2 DEF Ask, Types
<1>5. chan' = chan
  BY <1>1 DEF Ask, Types
<1>6. ASSUME NEW s \in Requests
      PROVE  OnTheWay(s)' = OnTheWay(s) + (IF s = r THEN 1 ELSE 0)
  <2>1. Cardinality(SendersOf(s)') = Cardinality(SendersOf(s)) + (IF s = r THEN 1 ELSE 0)
    <3>1. SendersOf(s)' = (IF s = r THEN SendersOf(s) \cup {c} ELSE SendersOf(s))
      BY <1>1, <1>3, <1>4 DEF SendersOf
    <3>2. IsFiniteSet(SendersOf(s)) /\ c \notin SendersOf(s) /\ Cardinality(SendersOf(s)) \in Nat
      BY <1>1, OnTheWayIs DEF SendersOf
    <3>3. Cardinality(SendersOf(s) \cup {c}) = Cardinality(SendersOf(s)) + 1
      BY <3>2, FS_AddElement
    <3>4. CASE s = r
      BY <3>1, <3>3, <3>4
    <3>5. CASE s # r
      BY <3>1, <3>2, <3>5
    <3> QED
      BY <3>4, <3>5
  <2>2. /\ AskedOf(s)' = AskedOf(s) /\ FinalsOf(s, todo)' = FinalsOf(s, todo)
        /\ FinalsOf(s, down)' = FinalsOf(s, down) /\ PassingOf(s)' = PassingOf(s)
        /\ UnreadOf(s)' = UnreadOf(s)
    BY <1>1, <1>5 DEF AskedOf, FinalsOf, PassingOf, UnreadOf
  <2> QED
    BY <2>1, <2>2, OnTheWayIs, OnTheWayNext DEF Sending, Coming
<1>7. Calling' = Calling \cup {c} /\ c \notin Calling
  BY <1>1, <1>3, <1>4 DEF Calling
<1>8. Pending' = [Pending EXCEPT ![r] = @ + 1]
  <2>1. ASSUME NEW s \in Requests
        PROVE  OnTheWay(s)' = IF s = r THEN OnTheWay(r) + 1 ELSE OnTheWay(s)
    BY <1>6, <2>1, OnTheWayIs DEF Sending, Coming
  <2> QED
    BY <2>1 DEF Pending
<1>9. Answers' = [Answers EXCEPT ![c] = <<>>]
  BY <1>1, <1>3, <1>4 DEF Answers
<1> QED
  BY <1>7, <1>8, <1>9 DEF Calls!Ask, Calling, Pending, Answers

\* A request that is not sent any more because it is on its way, or given up.
LEMMA SenderLeaves ==
    ASSUME IInv, NEW c \in Callers, call[c].pc = "send", NEW p, p # "send",
           call' = [call EXCEPT ![c].pc = p]
    PROVE  /\ call[c].req \in Requests /\ call[c].got = <<>>
           /\ call'[c].pc = p /\ call'[c].got = <<>>
           /\ \A d \in Callers \ {c} : call'[d] = call[d]
           /\ \A s \in Requests : Cardinality(SendersOf(s)')
                  = Cardinality(SendersOf(s)) - (IF s = call[c].req THEN 1 ELSE 0)
           /\ c \in SendersOf(call[c].req)
<1>1. Types /\ call[c].req \in Requests /\ call[c].got = <<>>
  BY DEF IInv, QueueOK
<1>2. /\ call'[c].pc = p /\ call'[c].got = call[c].got
      /\ \A d \in Callers \ {c} : call'[d] = call[d]
  BY <1>1 DEF Types
<1>3. ASSUME NEW s \in Requests
      PROVE  Cardinality(SendersOf(s)')
                 = Cardinality(SendersOf(s)) - (IF s = call[c].req THEN 1 ELSE 0)
  <2>1. SendersOf(s)' = SendersOf(s) \ {c} /\ (s = call[c].req <=> c \in SendersOf(s))
    BY <1>2 DEF SendersOf
  <2>2. IsFiniteSet(SendersOf(s)) /\ Cardinality(SendersOf(s)) \in Nat
    BY OnTheWayIs
  <2>3. CASE s = call[c].req
    <3>1. Cardinality(SendersOf(s) \ {c}) = Cardinality(SendersOf(s)) - 1
      BY <2>1, <2>2, <2>3, FS_RemoveElement
    <3> QED
      BY <2>1, <2>3, <3>1
  <2>4. CASE s # call[c].req
    <3>1. SendersOf(s)' = SendersOf(s)
      BY <2>1, <2>4
    <3> QED
      BY <2>2, <2>4, <3>1
  <2> QED
    BY <2>3, <2>4
<1> QED
  BY <1>1, <1>2, <1>3 DEF SendersOf

LEMMA SendRequestMaps ==
    ASSUME IInv, IInv', NEW c \in Callers, SendRequest(c)
    PROVE  UNCHANGED Calls!vars
<1>1. /\ call[c].pc = "send" /\ call' = [call EXCEPT ![c].pc = "wait"]
      /\ up' = Append(up, call[c].req) /\ chan' = chan /\ todo' = todo /\ down' = down
      /\ loop' = loop
  BY DEF SendRequest
<1>2. PICK r : r = call[c].req
  OBVIOUS
<1>3. PICK p : p = "wait"
  OBVIOUS
<1>4. p # "send" /\ call' = [call EXCEPT ![c].pc = p]
  BY <1>1, <1>3
<1>5. /\ r \in Requests /\ call'[c].pc = p
      /\ \A d \in Callers \ {c} : call'[d] = call[d]
      /\ \A s \in Requests : Cardinality(SendersOf(s)')
             = Cardinality(SendersOf(s)) - (IF s = r THEN 1 ELSE 0)
  BY <1>1, <1>2, <1>4, SenderLeaves
<1>6. ASSUME NEW s \in Requests
      PROVE  OnTheWay(s)' = OnTheWay(s)
  <2>1. Cardinality(AskedOf(s)') = Cardinality(AskedOf(s)) + (IF s = r THEN 1 ELSE 0)
    <3>1. PICK a : a = Append(up, r)
      OBVIOUS
    <3>2. up \in Seq(Requests) /\ up' = a
      BY <1>1, <1>2, <3>1 DEF IInv, Types
    <3>3. /\ Len(up) \in Nat /\ DOMAIN up = 1 .. Len(up) /\ DOMAIN a = 1 .. Len(up) + 1
          /\ a[Len(up) + 1] = r /\ \A i \in 1 .. Len(up) : a[i] = up[i]
      BY <1>5, <3>1, <3>2, AppendProperties, LenProperties
    <3>4. PICK J : J = {i \in DOMAIN a : a[i] = s}
      OBVIOUS
    <3>5. J \in SUBSET DOMAIN a /\ AskedOf(s) \in SUBSET DOMAIN up
      BY <3>4 DEF AskedOf
    <3>6. \A i \in DOMAIN up : i \in J <=> i \in AskedOf(s)
      BY <3>3, <3>4 DEF AskedOf
    <3>7. Cardinality(J) = Cardinality(AskedOf(s)) + (IF Len(up) + 1 \in J THEN 1 ELSE 0)
      BY <1>5, <3>1, <3>2, <3>5, <3>6, CountAppend
    <3>8. Len(up) + 1 \in J <=> s = r
      BY <3>3, <3>4
    <3>9. AskedOf(s)' = J
      BY <3>2, <3>4 DEF AskedOf
    <3> QED
      BY <3>7, <3>8, <3>9
  <2>2. /\ FinalsOf(s, todo)' = FinalsOf(s, todo) /\ FinalsOf(s, down)' = FinalsOf(s, down)
        /\ PassingOf(s)' = PassingOf(s) /\ UnreadOf(s)' = UnreadOf(s)
    BY <1>1 DEF FinalsOf, PassingOf, UnreadOf
  <2> QED
    BY <1>5, <2>1, <2>2, OnTheWayIs, OnTheWayNext DEF Sending, Coming
<1>7. \A d \in Callers : /\ call'[d].pc = "idle" <=> call[d].pc = "idle"
                         /\ call[d].pc = "idle" => call'[d].got = call[d].got
  BY <1>1, <1>3, <1>5
<1> QED
  BY <1>6, <1>7, ViewKept

LEMMA RefusedMaps ==
    ASSUME IInv, IInv', NEW c \in Callers, Refused(c)
    PROVE  \E r \in Requests : Calls!Refuse(c, r)
<1>1. /\ call[c].pc = "send" /\ call' = [call EXCEPT ![c].pc = "idle"]
      /\ up' = up /\ chan' = chan /\ todo' = todo /\ down' = down /\ loop' = loop
  BY DEF Refused
<1>2. PICK r : r = call[c].req
  OBVIOUS
<1>3. PICK p : p = "idle"
  OBVIOUS
<1>4. p # "send" /\ call' = [call EXCEPT ![c].pc = p]
  BY <1>1, <1>3
<1>5. /\ r \in Requests /\ call'[c].pc = p /\ call'[c].got = <<>>
      /\ \A d \in Callers \ {c} : call'[d] = call[d]
      /\ \A s \in Requests : Cardinality(SendersOf(s)')
             = Cardinality(SendersOf(s)) - (IF s = r THEN 1 ELSE 0)
      /\ c \in SendersOf(r)
  BY <1>1, <1>2, <1>4, SenderLeaves
<1>6. ASSUME NEW s \in Requests
      PROVE  OnTheWay(s)' = OnTheWay(s) - (IF s = r THEN 1 ELSE 0)
  <2>1. /\ AskedOf(s)' = AskedOf(s)
        /\ FinalsOf(s, todo)' = FinalsOf(s, todo) /\ FinalsOf(s, down)' = FinalsOf(s, down)
        /\ PassingOf(s)' = PassingOf(s) /\ UnreadOf(s)' = UnreadOf(s)
    BY <1>1 DEF AskedOf, FinalsOf, PassingOf, UnreadOf
  <2>2. Cardinality(SendersOf(s)') = Cardinality(SendersOf(s)) - (IF s = r THEN 1 ELSE 0)
    BY <1>5
  <2> QED
    BY <2>1, <2>2, OnTheWayIs, OnTheWayNext DEF Sending, Coming
<1>7. Calling' = Calling \ {c} /\ c \in Calling
  BY <1>1, <1>3, <1>5 DEF Calling
<1>8. OnTheWay(r) \in Nat /\ OnTheWay(r) > 0
  <2>1. IsFiniteSet(SendersOf(r)) /\ SendersOf(r) # {}
    BY <1>5, OnTheWayIs
  <2>2. Cardinality(SendersOf(r)) # 0
    BY <2>1, FS_EmptySet
  <2> QED
    BY <2>2, OnTheWayIs DEF Sending, Coming
<1>9. Pending' = [Pending EXCEPT ![r] = @ - 1]
  <2>1. ASSUME NEW s \in Requests
        PROVE  OnTheWay(s)' = IF s = r THEN OnTheWay(r) - 1 ELSE OnTheWay(s)
    BY <1>6, <2>1, OnTheWayIs DEF Sending, Coming
  <2> QED
    BY <2>1 DEF Pending
<1>10. Answers' = Answers
  BY <1>1, <1>3, <1>5 DEF Answers
<1>11. Pending[r] > 0
  BY <1>5, <1>8 DEF Pending
<1>12. Calls!Refuse(c, r)
  BY <1>7, <1>9, <1>10, <1>11 DEF Calls!Refuse, Calling, Pending, Answers
<1> QED
  BY <1>5, <1>12

\* A response is read: the call goes on, or returns one whole listing.
LEMMA ReadResponseMaps ==
    ASSUME IInv, IInv', NEW c \in Callers, ReadResponse(c)
    PROVE  (\E r \in Requests : Calls!Answer(c, r)) \/ UNCHANGED Calls!vars
<1>1. /\ Types /\ QueueOK /\ ChanOK /\ call[c].pc = "wait" /\ chan[c] # <<>>
      /\ up' = up /\ todo' = todo /\ down' = down /\ loop' = loop
  BY DEF IInv, ReadResponse
<1>2. PICK m \in Parts : m = chan[c][1]
  BY <1>1, ChanFacts
<1>3. Head(chan[c]) = m /\ Tail(chan[c]) = <<>>
  BY <1>1, <1>2, ChanFacts
<1>4. PICK g : g = call[c].got \o m.items
  OBVIOUS
<1>5. PICK p : p = IF IsLast(m) THEN "idle" ELSE "wait"
  OBVIOUS
<1>6. call' = [call EXCEPT ![c].got = g, ![c].pc = p] /\ chan' = [chan EXCEPT ![c] = <<>>]
  BY <1>3, <1>4, <1>5 DEF ReadResponse
<1>7. /\ call'[c].got = g /\ call'[c].pc = p
      /\ \A d \in Callers \ {c} : call'[d] = call[d]
      /\ chan'[c] = <<>> /\ \A d \in Callers \ {c} : chan'[d] = chan[d]
  <2>1. PICK n : n = [call[c] EXCEPT !.got = g, !.pc = p]
    OBVIOUS
  <2>2. call' = [call EXCEPT ![c] = n]
    BY <1>6, <2>1
  <2>3. call \in [Callers -> CallRec] /\ call[c] \in CallRec
    BY <1>1 DEF Types, CallRec
  <2>4. n.got = g /\ n.pc = p
    BY <2>1, <2>3 DEF CallRec
  <2>5. call'[c] = n /\ \A d \in Callers \ {c} : call'[d] = call[d]
    BY <2>2, <2>3
  <2>6. chan'[c] = <<>> /\ \A d \in Callers \ {c} : chan'[d] = chan[d]
    BY <1>1, <1>6 DEF Types
  <2> QED
    BY <2>4, <2>5, <2>6
<1>8. PICK r \in Requests : r = m.req
  BY <1>2, PartsFacts
<1>9. ASSUME NEW s \in Requests
      PROVE  OnTheWay(s)' = OnTheWay(s) - (IF s = r /\ IsLast(m) THEN 1 ELSE 0)
  <2>1. /\ AskedOf(s)' = AskedOf(s) /\ SendersOf(s)' = SendersOf(s)
        /\ FinalsOf(s, todo)' = FinalsOf(s, todo) /\ FinalsOf(s, down)' = FinalsOf(s, down)
        /\ PassingOf(s)' = PassingOf(s)
    BY <1>1, <1>5, <1>7 DEF AskedOf, FinalsOf, PassingOf, SendersOf
  <2>2. Cardinality(UnreadOf(s)')
            = Cardinality(UnreadOf(s)) - (IF s = r /\ IsLast(m) THEN 1 ELSE 0)
    <3>1. UnreadOf(s)' = UnreadOf(s) \ {c}
      BY <1>7 DEF UnreadOf
    <3>2. c \in UnreadOf(s) <=> s = r /\ IsLast(m)
      BY <1>1, <1>3, <1>8 DEF UnreadOf
    <3>3. IsFiniteSet(UnreadOf(s)) /\ Cardinality(UnreadOf(s)) \in Nat
      BY OnTheWayIs
    <3>4. CASE c \in UnreadOf(s)
      <4>1. Cardinality(UnreadOf(s) \ {c}) = Cardinality(UnreadOf(s)) - 1
        BY <3>3, <3>4, FS_RemoveElement
      <4> QED
        BY <3>1, <3>2, <3>4, <4>1
    <3>5. CASE c \notin UnreadOf(s)
      <4>1. UnreadOf(s)' = UnreadOf(s)
        BY <3>1, <3>5
      <4> QED
        BY <3>2, <3>3, <3>5, <4>1
    <3> QED
      BY <3>4, <3>5
  <2> QED
    BY <2>1, <2>2, OnTheWayIs, OnTheWayNext DEF Sending, Coming
<1>10. CASE ~ IsLast(m)
  <2>1. \A s \in Requests : OnTheWay(s)' = OnTheWay(s)
    <3>1. ASSUME NEW s \in Requests
          PROVE  OnTheWay(s)' = OnTheWay(s)
      BY <1>9, <1>10, OnTheWayIs DEF Sending, Coming
    <3> QED
      BY <3>1
  <2>2. \A d \in Callers : /\ call'[d].pc = "idle" <=> call[d].pc = "idle"
                           /\ call[d].pc = "idle" => call'[d].got = call[d].got
    BY <1>1, <1>5, <1>7, <1>10
  <2> QED
    BY <2>1, <2>2, ViewKept
<1>11. CASE IsLast(m)
  <2>1. g = Listing(r)
    <3>1. call[c].got = Prefix(m.req, Off(m))
      BY <1>1, <1>2 DEF ChanOK, Continues
    <3>2. g = Prefix(m.req, Off(m) + Len(m.items))
      BY <1>4, <3>1, PrefixGrows
    <3>3. Off(m) + Len(m.items) = m.req
      BY <1>11, PartsFacts
    <3> QED
      BY <1>8, <3>2, <3>3, PrefixEnds
  <2>2. Calling' = Calling \ {c} /\ c \in Calling
    BY <1>1, <1>5, <1>7, <1>11 DEF Calling
  <2>3. OnTheWay(r) \in Nat /\ OnTheWay(r) > 0
    <3>1. c \in UnreadOf(r)
      BY <1>1, <1>3, <1>8, <1>11 DEF UnreadOf
    <3>2. Cardinality(UnreadOf(r)) # 0
      BY <3>1, OnTheWayIs, FS_EmptySet
    <3> QED
      BY <3>2, OnTheWayIs DEF Sending, Coming
  <2>4. Pending' = [Pending EXCEPT ![r] = @ - 1]
    <3>1. ASSUME NEW s \in Requests
          PROVE  OnTheWay(s)' = IF s = r THEN OnTheWay(r) - 1 ELSE OnTheWay(s)
      BY <1>9, <1>11, <3>1, OnTheWayIs DEF Sending, Coming
    <3> QED
      BY <3>1 DEF Pending
  <2>5. Answers' = [Answers EXCEPT ![c] = Listing(r)]
    BY <1>1, <1>5, <1>7, <1>11, <2>1 DEF Answers
  <2>6. Pending[r] > 0 /\ Calls!Listing(r) = Listing(r)
    BY <1>8, <2>3 DEF Pending, Listing, Calls!Listing
  <2>7. Calls!Answer(c, r)
    BY <2>2, <2>4, <2>5, <2>6 DEF Calls!Answer, Calling, Pending, Answers
  <2> QED
    BY <1>8, <2>7
<1> QED
  BY <1>10, <1>11

LEMMA ServeMaps ==
    ASSUME IInv, IInv', Serve
    PROVE  UNCHANGED Calls!vars
<1>1. /\ Types /\ todo = <<>> /\ up # <<>> /\ up \in Seq(Requests)
      /\ todo' = Split(Head(up)) /\ up' = Tail(up)
      /\ call' = call /\ chan' = chan /\ down' = down /\ loop' = loop
  BY DEF IInv, Types, Serve
<1>2. PICK r \in Requests : r = Head(up) /\ r = up[1]
  BY <1>1
<1>3. ASSUME NEW s \in Requests
      PROVE  OnTheWay(s)' = OnTheWay(s)
  <2>1. PICK t : t = Tail(up)
    OBVIOUS
  <2>2. /\ Len(up) \in Nat \ {0} /\ DOMAIN up = 1 .. Len(up)
        /\ t \in Seq(Requests) /\ Len(t) = Len(up) - 1
        /\ \A i \in 1 .. Len(t) : t[i] = up[i + 1]
    BY <1>1, <2>1, HeadTailProperties
  <2>3. DOMAIN t = 1 .. Len(up) - 1
    BY <2>2
  <2>4. PICK J : J = {i \in DOMAIN t : t[i] = s}
    OBVIOUS
  <2>5. J \in SUBSET DOMAIN t /\ AskedOf(s) \in SUBSET DOMAIN up
    BY <2>4 DEF AskedOf
  <2>6. \A i \in DOMAIN t : i \in J <=> i + 1 \in AskedOf(s)
    BY <2>2, <2>3, <2>4 DEF AskedOf
  <2>7. Cardinality(AskedOf(s)) = Cardinality(J) + (IF 1 \in AskedOf(s) THEN 1 ELSE 0)
    BY <1>1, <2>1, <2>5, <2>6, CountTail
  <2>8. /\ 1 \in AskedOf(s) <=> s = r
        /\ AskedOf(s)' = J /\ Cardinality(J) \in Nat
    BY <1>1, <1>2, <2>1, <2>2, <2>4, <2>5, CountType DEF AskedOf
  <2>9. Cardinality(FinalsOf(s, todo)') = (IF s = r THEN 1 ELSE 0)
        /\ Cardinality(FinalsOf(s, todo)) = 0
    <3>1. FinalsOf(s, todo)' = FinalsOf(s, Split(r)) /\ FinalsOf(s, todo) = FinalsOf(s, <<>>)
      BY <1>1, <1>2 DEF FinalsOf
    <3> QED
      BY <3>1, FinalsOfSplit
  <2>10. /\ SendersOf(s)' = SendersOf(s) /\ FinalsOf(s, down)' = FinalsOf(s, down)
         /\ PassingOf(s)' = PassingOf(s) /\ UnreadOf(s)' = UnreadOf(s)
    BY <1>1 DEF FinalsOf, PassingOf, UnreadOf, SendersOf
  <2> QED
    BY <2>7, <2>8, <2>9, <2>10, OnTheWayIs, OnTheWayNext DEF Sending, Coming
<1> QED
  BY <1>1, <1>3, ViewKept

LEMMA SendResponseMaps ==
    ASSUME IInv, IInv', SendResponse
    PROVE  UNCHANGED Calls!vars
<1>1. /\ todo # <<>> /\ down' = Append(down, Head(todo)) /\ todo' = Tail(todo)
      /\ todo \in Seq(Parts) /\ down \in Seq(Parts)
      /\ call' = call /\ chan' = chan /\ up' = up /\ loop' = loop
  BY DEF IInv, Types, SendResponse
<1>2. PICK m \in Parts : m = todo[1]
  BY <1>1, HeadTail
<1>3. Head(todo) = m
  BY <1>1, <1>2, HeadTail
<1>4. ASSUME NEW s \in Requests
      PROVE  OnTheWay(s)' = OnTheWay(s)
  <2>1. Cardinality(FinalsOf(s, Append(down, m)))
            = Cardinality(FinalsOf(s, down)) + (IF m.req = s /\ IsLast(m) THEN 1 ELSE 0)
    BY <1>1, FinalsOfAppend
  <2>2. /\ Cardinality(FinalsOf(s, Tail(todo))) \in Nat
        /\ Cardinality(FinalsOf(s, todo)) = Cardinality(FinalsOf(s, Tail(todo)))
                                            + (IF m.req = s /\ IsLast(m) THEN 1 ELSE 0)
    BY <1>1, <1>2, FinalsOfTail
  <2>3. FinalsOf(s, down)' = FinalsOf(s, Append(down, m))
        /\ FinalsOf(s, todo)' = FinalsOf(s, Tail(todo))
    BY <1>1, <1>3 DEF FinalsOf
  <2>4. /\ SendersOf(s)' = SendersOf(s) /\ AskedOf(s)' = AskedOf(s)
        /\ PassingOf(s)' = PassingOf(s) /\ UnreadOf(s)' = UnreadOf(s)
    BY <1>1 DEF AskedOf, PassingOf, UnreadOf, SendersOf
  <2> QED
    BY <2>1, <2>2, <2>3, <2>4, OnTheWayIs, OnTheWayNext DEF Sending, Coming
<1> QED
  BY <1>1, <1>4, ViewKept

LEMMA RecvResponseMaps ==
    ASSUME IInv, IInv', RecvResponse
    PROVE  UNCHANGED Calls!vars
<1>1. /\ down # <<>> /\ down \in Seq(Parts) /\ Head(down) \in Parts /\ Head(down) = down[1]
      /\ loop.pc = "read" /\ loop' = [pc |-> "pass", msg |-> Head(down)]
      /\ down' = Tail(down) /\ todo' = todo /\ call' = call /\ chan' = chan /\ up' = up
  BY RecvStep DEF IInv, Types
<1>2. PICK m \in Parts : m = down[1]
  BY <1>1
<1>3. loop'.pc = "pass" /\ loop'.msg = m
  BY <1>1, <1>2
<1>4. ASSUME NEW s \in Requests
      PROVE  OnTheWay(s)' = OnTheWay(s)
  <2>1. /\ Cardinality(FinalsOf(s, Tail(down))) \in Nat
        /\ Cardinality(FinalsOf(s, down)) = Cardinality(FinalsOf(s, Tail(down)))
                                            + (IF m.req = s /\ IsLast(m) THEN 1 ELSE 0)
    BY <1>1, <1>2, FinalsOfTail
  <2>2. FinalsOf(s, down)' = FinalsOf(s, Tail(down))
        /\ FinalsOf(s, todo)' = FinalsOf(s, todo)
    BY <1>1 DEF FinalsOf
  <2>3. PassingOf(s) = 0 /\ PassingOf(s)' = IF m.req = s /\ IsLast(m) THEN 1 ELSE 0
    <3>1. PICK l : l = loop'
      OBVIOUS
    <3> QED
      BY <1>1, <1>3, <3>1 DEF PassingOf, IsLast
  <2>4. /\ SendersOf(s)' = SendersOf(s) /\ AskedOf(s)' = AskedOf(s)
        /\ UnreadOf(s)' = UnreadOf(s)
    BY <1>1 DEF AskedOf, UnreadOf, SendersOf
  <2> QED
    BY <2>1, <2>2, <2>3, <2>4, OnTheWayIs, OnTheWayNext DEF Sending, Coming
<1> QED
  BY <1>1, <1>4, ViewKept

LEMMA PassOnMaps ==
    ASSUME IInv, IInv', PassOn
    PROVE  UNCHANGED Calls!vars
<1>1. PICK m : m = loop.msg
  OBVIOUS
<1>2. PICK h : h = queue[1]
  OBVIOUS
<1>3. /\ m \in Parts /\ h \in Callers /\ chan[h] = <<>> /\ chan \in [Callers -> Seq(Parts)]
      /\ chan' = [chan EXCEPT ![h] = <<m>>] /\ loop' = Reading /\ loop.pc = "pass"
      /\ call' = call /\ up' = up /\ todo' = todo /\ down' = down
  BY <1>1, <1>2, PassOnStep DEF IInv, Types
<1>4. PICK u : u = <<m>>
  OBVIOUS
<1>5. u # <<>> /\ Head(u) = m
  BY <1>4
<1>6. chan'[h] = u /\ \A d \in Callers \ {h} : chan'[d] = chan[d]
  BY <1>3, <1>4
<1>7. ASSUME NEW s \in Requests
      PROVE  OnTheWay(s)' = OnTheWay(s)
  <2>1. PassingOf(s) = (IF m.req = s /\ IsLast(m) THEN 1 ELSE 0) /\ PassingOf(s)' = 0
    BY <1>1, <1>3 DEF PassingOf, Reading
  <2>2. Cardinality(UnreadOf(s)')
            = Cardinality(UnreadOf(s)) + (IF m.req = s /\ IsLast(m) THEN 1 ELSE 0)
    <3>1. h \notin UnreadOf(s) /\ (m.req = s /\ IsLast(m) <=> h \in UnreadOf(s)')
      BY <1>3, <1>5, <1>6 DEF UnreadOf, IsLast
    <3>2. \A d \in Callers \ {h} : d \in UnreadOf(s)' <=> d \in UnreadOf(s)
      BY <1>6 DEF UnreadOf, IsLast
    <3>3. UnreadOf(s) \subseteq Callers /\ UnreadOf(s)' \subseteq Callers
      BY DEF UnreadOf
    <3>4. IsFiniteSet(UnreadOf(s)) /\ Cardinality(UnreadOf(s)) \in Nat
      BY OnTheWayIs
    <3>5. CASE m.req = s /\ IsLast(m)
      <4>1. UnreadOf(s)' = UnreadOf(s) \cup {h}
        BY <3>1, <3>2, <3>3, <3>5
      <4>2. Cardinality(UnreadOf(s) \cup {h}) = Cardinality(UnreadOf(s)) + 1
        BY <3>1, <3>4, FS_AddElement
      <4> QED
        BY <3>5, <4>1, <4>2
    <3>6. CASE ~ (m.req = s /\ IsLast(m))
      <4>1. UnreadOf(s)' = UnreadOf(s)
        BY <3>1, <3>2, <3>3, <3>6
      <4> QED
        BY <3>4, <3>6, <4>1
    <3> QED
      BY <3>5, <3>6
  <2>3. /\ SendersOf(s)' = SendersOf(s) /\ AskedOf(s)' = AskedOf(s)
        /\ FinalsOf(s, todo)' = FinalsOf(s, todo) /\ FinalsOf(s, down)' = FinalsOf(s, down)
    BY <1>3 DEF AskedOf, FinalsOf, SendersOf
  <2> QED
    BY <2>1, <2>2, <2>3, OnTheWayIs, OnTheWayNext DEF Sending, Coming
<1> QED
  BY <1>3, <1>7, ViewKept

LEMMA QuietMaps ==
    ASSUME IInv, IInv',
           (\E c \in Callers : Panic(c)) \/ Lose \/ CloseOut \/ UNCHANGED vars
    PROVE  UNCHANGED Calls!vars
<1>1. /\ call' = call /\ chan' = chan /\ up' = up /\ todo' = todo /\ down' = down
      /\ loop' = loop
  BY DEF Lose, Panic, CloseOut, vars
<1>2. ASSUME NEW s \in Requests
      PROVE  OnTheWay(s)' = OnTheWay(s)
  <2>1. /\ SendersOf(s)' = SendersOf(s) /\ AskedOf(s)' = AskedOf(s)
        /\ FinalsOf(s, todo)' = FinalsOf(s, todo) /\ FinalsOf(s, down)' = FinalsOf(s, down)
        /\ PassingOf(s)' = PassingOf(s) /\ UnreadOf(s)' = UnreadOf(s)
    BY <1>1 DEF AskedOf, FinalsOf, SendersOf, PassingOf, UnreadOf
  <2> QED
    BY <2>1, OnTheWayIs, OnTheWayNext DEF Sending, Coming
<1> QED
  BY <1>1, <1>2, ViewKept

LEMMA InitMaps ==
    ASSUME Init
    PROVE  Calls!Init
<1>1. /\ call = [c \in Callers |-> [pc |-> "idle", req |-> 0, got |-> <<>>]]
      /\ chan = [c \in Callers |-> <<>>] /\ up = <<>> /\ todo = <<>> /\ down = <<>>
      /\ loop.pc = "read"
  BY DEF Init, Reading
<1>2. \A c \in Callers : call[c].pc = "idle" /\ call[c].got = <<>> /\ chan[c] = <<>>
  BY <1>1
<1>3. Calling = {}
  BY <1>2 DEF Calling
<1>4. ASSUME NEW r \in Requests
      PROVE  OnTheWay(r) = 0
  <2>1. /\ SendersOf(r) = {} /\ AskedOf(r) = {} /\ FinalsOf(r, todo) = {}
        /\ FinalsOf(r, down) = {} /\ PassingOf(r) = 0 /\ UnreadOf(r) = {}
    BY <1>1, <1>2 DEF SendersOf, AskedOf, FinalsOf, PassingOf, UnreadOf
  <2>2. IInv
    BY InitInv
  <2>3. Sending(r) = 0 /\ Coming(r) = 0
    BY <2>1, FS_EmptySet DEF Sending, Coming
  <2> QED
    BY <2>2, <2>3, OnTheWayIs
<1>5. Pending = [r \in Requests |-> 0]
  BY <1>4 DEF Pending
<1>6. Answers = [c \in Callers |-> <<>>]
  BY <1>2 DEF Answers
<1> QED
  BY <1>3, <1>5, <1>6 DEF Calls!Init, Calling, Pending, Answers

LEMMA StepMaps ==
    ASSUME IInv, IInv', [Next]_vars
    PROVE  [Calls!Next]_Calls!vars
<1>1. CASE \E c \in Callers, r \in Requests : Ask(c, r)
  BY <1>1, AskMaps DEF Calls!Next
<1>2. CASE \E c \in Callers : SendRequest(c)
  BY <1>2, SendRequestMaps
<1>3. CASE \E c \in Callers : Refused(c)
  BY <1>3, RefusedMaps DEF Calls!Next
<1>4. CASE \E c \in Callers : ReadResponse(c)
  BY <1>4, ReadResponseMaps DEF Calls!Next
<1>5. CASE Serve
  BY <1>5, ServeMaps
<1>6. CASE SendResponse
  BY <1>6, SendResponseMaps
<1>7. CASE RecvResponse
  BY <1>7, RecvResponseMaps
<1>8. CASE PassOn
  BY <1>8, PassOnMaps
<1>9. CASE (\E c \in Callers : Panic(c)) \/ Lose \/ CloseOut \/ UNCHANGED vars
  BY <1>9, QuietMaps
<1> QED
  BY <1>1, <1>2, <1>3, <1>4, <1>5, <1>6, <1>7, <1>8, <1>9 DEF Next

\* However many goroutines call ListFileMetaData at once on one connection, a
\* call that returns returns the whole listing of one request, put together from
\* as many responses as NewMetaResps made of it, and no request is answered
\* twice; a call fails only before its request was sent.
THEOREM CallsCorrect == Spec => CallsSpec
<1>1. Init => Calls!Init
  BY InitMaps
<1>2. IInv /\ IInv' /\ [Next]_vars => [Calls!Next]_Calls!vars
  BY StepMaps
<1> QED
  BY <1>1, <1>2, AlwaysInv, PTL DEF Spec, CallsSpec, Calls!Spec
=============================================================================
