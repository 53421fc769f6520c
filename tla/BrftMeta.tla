------------------------------ MODULE BrftMeta ------------------------------
(***************************************************************************)
(* Metadata requests on one BRFT connection: goroutines that call          *)
(* ListFileMetaData, the client's queue of requests awaiting an answer     *)
(* with its lock, the client's connection loop that hands responses to the *)
(* first in the queue, and the server's loop that answers one request      *)
(* after the other, splitting a long listing.                              *)
(*                                                                         *)
(* outCtrl, the goroutine that empties it and the connection are one       *)
(* bounded queue in either direction (a connection delivers in order, see  *)
(* MsgStream).  A response carries no name in the code: its tag req serves *)
(* only to say whose listing it is a part of.                              *)
(***************************************************************************)
EXTENDS Integers, Sequences, FiniteSets

CONSTANTS
    Callers,   \* goroutines that call ListFileMetaData
    Requests,  \* their requests, each the length of its listing
    MaxItems,  \* MaxMetaItemsNum, 255 in the code
    OutCap     \* capacity of outCtrl, 100 in the code

ASSUME CallersAssumption == IsFiniteSet(Callers)
ASSUME RequestsAssumption == Requests \subseteq Nat
\* A file has a response of one item to itself, which must not be a full one.
ASSUME CapsAssumption == MaxItems \in Nat \ {0, 1} /\ OutCap \in Nat \ {0}

VARIABLES
    call,    \* each caller's call
    queue,   \* metaDataRequests: the callers awaiting an answer
    chan,    \* resp_chan of each caller's call, capacity one
    up,      \* requests on their way to the server
    todo,    \* responses handleMetaDataReq has yet to send
    down,    \* responses on their way to the client
    loop,    \* the client's connection loop: reading, or passing on msg
    leaked,  \* metaDataRequestMu is held for ever
    lost,    \* the client has noticed that the connection is lost
    out      \* the channel outCtrl: open, closed; or panicked, by a send once closed

vars == <<call, queue, chan, up, todo, down, loop, leaked, lost, out>>

-----------------------------------------------------------------------------
Listing(r) == [i \in 1 .. r |-> <<r, i>>]

Resp(r, items) == [req |-> r, items |-> items]

Reading == [pc |-> "read", msg |-> Resp(0, <<>>)]

Smaller(a, b) == IF a < b THEN a ELSE b

\* The response with the items after the first off ones, as many as it may hold.
Part(r, off) ==
    Resp(r, [k \in 1 .. Smaller(MaxItems, r - off) |-> Listing(r)[off + k]])

\* Wrong: a full response at the end is not followed by a shorter one.
BadFulls(r) == IF r = 0 THEN 0 ELSE (r - 1) \div MaxItems

\* NewMetaResps cuts off full responses as long as it can ...
Fulls(r) == r \div MaxItems

\* Wrong: every listing is followed by an empty response.
BadSplit(r) == [i \in 1 .. Fulls(r) + 2 |-> Part(r, (i - 1) * MaxItems)]

\* ... and ends with what is left, possibly an empty response.
Split(r) == [i \in 1 .. Fulls(r) + 1 |-> Part(r, (i - 1) * MaxItems)]

\* Wrong: a full response counts as the last one.
BadIsLast(resp) == Len(resp.items) <= MaxItems

\* "check if resp contains max item count": a response that is not full is last.
IsLast(resp) == Len(resp.items) < MaxItems

\* Wrong: the queue has one place more than its capacity.
BadHasRoom(q) == Len(q) <= OutCap

\* A send on the queue does not block.
HasRoom(q) == Len(q) < OutCap

Init == /\ call = [c \in Callers |-> [pc |-> "idle", req |-> 0, got |-> <<>>]]
        /\ queue = <<>> /\ chan = [c \in Callers |-> <<>>]
        /\ up = <<>> /\ todo = <<>> /\ down = <<>>
        /\ loop = Reading /\ leaked = FALSE /\ lost = FALSE /\ out = "open"

-----------------------------------------------------------------------------
(* ListFileMetaData. *)

LockFree == ~ leaked /\ loop.pc = "read"

\* The call is queued under the lock, before its request is sent.  Calls on a
\* connection that is already lost are left out.
Ask(c, r) ==
    /\ call[c].pc = "idle" /\ LockFree /\ ~ lost
    /\ call' = [call EXCEPT ![c] = [pc |-> "send", req |-> r, got |-> <<>>]]
    /\ queue' = Append(queue, c)
    /\ chan' = [chan EXCEPT ![c] = <<>>]
    /\ UNCHANGED <<up, todo, down, loop, leaked, lost, out>>

SendRequest(c) ==
    /\ call[c].pc = "send" /\ HasRoom(up) /\ out = "open"
    /\ up' = Append(up, call[c].req)
    /\ call' = [call EXCEPT ![c].pc = "wait"]
    /\ UNCHANGED <<queue, chan, todo, down, loop, leaked, lost, out>>

\* The select sees the closed close channel: the call fails and stays queued.
Refused(c) ==
    /\ call[c].pc = "send" /\ lost /\ out # "panicked"
    /\ call' = [call EXCEPT ![c].pc = "idle"]
    /\ UNCHANGED <<queue, chan, up, todo, down, loop, leaked, lost, out>>

\* The select may take the send instead, which by now ends the process.
Panic(c) ==
    /\ call[c].pc = "send" /\ out = "closed"
    /\ out' = "panicked"
    /\ UNCHANGED <<call, queue, chan, up, todo, down, loop, leaked, lost>>

\* The call collects responses up to the last; it does not look at close.
ReadResponse(c) ==
    /\ call[c].pc = "wait" /\ chan[c] # <<>> /\ out # "panicked"
    /\ LET resp == Head(chan[c]) IN
       call' = [call EXCEPT ![c].got = @ \o resp.items,
                            ![c].pc = IF IsLast(resp) THEN "idle" ELSE "wait"]
    /\ chan' = [chan EXCEPT ![c] = Tail(@)]
    /\ UNCHANGED <<queue, up, todo, down, loop, leaked, lost, out>>

-----------------------------------------------------------------------------
(* The server's loop. *)

\* handleMetaDataReq: the responses are made, then sent one by one before the
\* next message is read.
Serve ==
    /\ todo = <<>> /\ up # <<>> /\ ~ lost
    /\ todo' = Split(Head(up))
    /\ up' = Tail(up)
    /\ UNCHANGED <<call, queue, chan, down, loop, leaked, lost, out>>

SendResponse ==
    /\ todo # <<>> /\ HasRoom(down) /\ ~ lost
    /\ down' = Append(down, Head(todo))
    /\ todo' = Tail(todo)
    /\ UNCHANGED <<call, queue, chan, up, loop, leaked, lost, out>>

-----------------------------------------------------------------------------
(* The client's connection loop. *)

\* A response is read and the lock taken.  If nobody waits for it, break leaves
\* the switch with the lock held.
RecvResponse ==
    /\ down # <<>> /\ LockFree /\ ~ lost
    /\ down' = Tail(down)
    /\ IF queue = <<>>
         THEN leaked' = TRUE /\ UNCHANGED loop
         ELSE loop' = [pc |-> "pass", msg |-> Head(down)] /\ UNCHANGED leaked
    /\ UNCHANGED <<call, queue, chan, up, todo, lost, out>>

\* The response goes to the first in the queue, who leaves it after the last;
\* the lock is held while its channel is full.
PassOn ==
    /\ loop.pc = "pass" /\ chan[Head(queue)] = <<>>
    /\ chan' = [chan EXCEPT ![Head(queue)] = <<loop.msg>>]
    /\ queue' = IF IsLast(loop.msg) THEN Tail(queue) ELSE queue
    /\ loop' = Reading
    /\ UNCHANGED <<call, up, todo, down, leaked, lost, out>>

\* Read fails: the loop closes the connection and ends.
Lose ==
    /\ loop.pc = "read" /\ ~ lost
    /\ lost' = TRUE
    /\ UNCHANGED <<call, queue, chan, up, todo, down, loop, leaked, out>>

\* Close goes on when the connection's goroutines have ended.
CloseOut ==
    /\ lost /\ out = "open"
    /\ out' = "closed"
    /\ UNCHANGED <<call, queue, chan, up, todo, down, loop, leaked, lost>>

-----------------------------------------------------------------------------
Next == \/ \E c \in Callers : \/ \E r \in Requests : Ask(c, r)
                              \/ SendRequest(c) \/ Refused(c) \/ Panic(c)
                              \/ ReadResponse(c)
        \/ Serve \/ SendResponse \/ RecvResponse \/ PassOn \/ Lose \/ CloseOut

Spec == Init /\ [][Next]_vars

\* The goroutines are scheduled; those that wait to send on a channel are served
\* in turn.
FairSpec == /\ Spec
            /\ WF_vars(Serve) /\ WF_vars(SendResponse)
            /\ WF_vars(RecvResponse) /\ WF_vars(PassOn)
            /\ \A c \in Callers : SF_vars(SendRequest(c)) /\ WF_vars(ReadResponse(c))

-----------------------------------------------------------------------------
(* Properties. *)

\* Every variable keeps its type, and the channels their capacity.
TypeOK ==
    /\ \A c \in Callers : /\ call[c].pc \in {"idle", "send", "wait"}
                          /\ call[c].req \in Requests \cup {0}
                          /\ Len(chan[c]) <= 1
    /\ queue \in Seq(Callers)
    /\ up \in Seq(Requests) /\ Len(up) <= OutCap /\ Len(down) <= OutCap
    /\ loop.pc \in {"read", "pass"} /\ leaked \in BOOLEAN /\ lost \in BOOLEAN
    /\ out \in {"open", "closed", "panicked"}

\* A response always finds its request in the queue, so the lock is never left
\* held (handleClientConnection, "received MetaResp without matching request").
NoStray == ~ leaked

Calling == {c \in Callers : call[c].pc # "idle"}

\* A call has to wait with its request for room in outCtrl (ListFileMetaData) only
\* if there are more calls at once than outCtrl has places: requests whose calls
\* have returned never pile up in it.
RoomForCalls == \A c \in Callers :
                    call[c].pc = "send" /\ ~ lost /\ Len(up) >= OutCap =>
                        Cardinality(Calling) > OutCap

\* The first in the queue is given another's answer before it has sent its own
\* request, for which there is no place; so it takes no more than the first part,
\* the client's loop waits for it, the server's for the client's, and requests
\* for the server's.
Gridlock == /\ loop.pc = "pass" /\ call[Head(queue)].pc = "send" /\ chan[Head(queue)] # <<>>
            /\ todo # <<>> /\ Len(down) = OutCap /\ Len(up) = OutCap

\* Every call returns unless the connection is lost, however many responses its
\* answer is split into, or so many goroutines call at once that they block each
\* other in the one way that there is.
CallReturns == \A c \in Callers :
                   call[c].pc # "idle" ~> (call[c].pc = "idle" \/ lost \/ Gridlock)

\* The requests that are not answered yet: not sent, on their way, or with the
\* last part of their answer still on its way.
OnTheWay(r) ==
    LET Final(resp) == resp.req = r /\ IsLast(resp)
    IN Cardinality({c \in Callers : call[c].pc = "send" /\ call[c].req = r})
       + Cardinality({i \in DOMAIN up : up[i] = r})
       + Cardinality({i \in DOMAIN todo : Final(todo[i])})
       + Cardinality({i \in DOMAIN down : Final(down[i])})
       + (IF loop.pc = "pass" /\ Final(loop.msg) THEN 1 ELSE 0)
       + Cardinality({c \in Callers : chan[c] # <<>> /\ Final(Head(chan[c]))})

\* Whatever the order in which overlapping calls are queued and sent, a call
\* returns one whole listing and each request is answered once: a call that
\* overlaps no other gets its own ("single threaded", client.go).
Calls == INSTANCE MetaCalls WITH
    waiting <- Calling,
    pending <- [r \in Requests |-> OnTheWay(r)],
    answer  <- [c \in Callers |-> IF call[c].pc = "idle" THEN call[c].got ELSE <<>>]
CallsSpec == Calls!Spec
=============================================================================
