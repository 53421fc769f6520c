------------------------------ MODULE BrftConn ------------------------------
(***************************************************************************)
(* The two ends of a BRFT connection and the goroutines that share them:   *)
(* one per stream, the connection's loop that reads messages and hands     *)
(* them to the streams, the sender that empties outCtrl and outData, and   *)
(* whoever calls Close: the loop after a failed read, the client's last    *)
(* stream, the application.  What a download does to files is in           *)
(* BrftDownload; here a stream has a number of Data messages to move.      *)
(*                                                                         *)
(* The connection below delivers in order (MsgStream) until it goes down:  *)
(* then Read fails and Write sends on a closed channel (BtpClose).  If it  *)
(* is given up after too many retransmissions instead, it is not torn      *)
(* down, and nothing is read or sent any more.  A send on a closed         *)
(* channel, or closing one again, ends the process: the side has crashed.  *)
(***************************************************************************)
EXTENDS Naturals, Sequences, FiniteSets

CONSTANTS
    Streams,   \* the calls of DownloadFile, each with a stream ID of its own
    NumData,   \* Data messages of a file
    OutCap,    \* capacity of outCtrl and outData, 100 in the code
    InCap,     \* capacity of a stream's in channel, 50 in the code
    MaxFails,  \* streams that fail at the client: disk, checksum (bound)
    MayBreak,  \* may the connection below go down by itself?
    AppCloses  \* does the client's application call Close?

ASSUME NumsAssumption == NumData \in Nat /\ MaxFails \in Nat
ASSUME CapsAssumption == OutCap \in Nat \ {0} /\ InCap \in Nat \ {0}
ASSUME KindAssumption == MayBreak \in BOOLEAN /\ AppCloses \in BOOLEAN

Sides    == {"client", "server"}
Other(x) == IF x = "client" THEN "server" ELSE "client"
Loop     == "loop"
App      == "app"
Closers  == Streams \cup {Loop, App}

VARIABLES
    strm,   \* each side's streams: goroutine, entry in the map, in channel
    loop,   \* each side's connection loop
    out,    \* each side's outCtrl and outData
    wire,   \* messages a side has written that its peer has not read
    close,  \* how far each goroutine that calls Close has come
    conn,   \* each side: close channel, out channels, sender, BTP, process
    fails   \* failures of the client's streams so far

vars == <<strm, loop, out, wire, close, conn, fails>>

-----------------------------------------------------------------------------
\* A Close message with the reason TransferComplete has type "Complete".
Msg(type, s) == [type |-> type, s |-> s]

NoStream == [pc |-> "idle", reg |-> FALSE, closed |-> FALSE, in |-> <<>>,
             n |-> 0, complete |-> FALSE, says |-> "nothing", after |-> "done"]

NoStreams == [s \in Streams |-> NoStream]
Reading   == [pc |-> "read"]
NoOut     == [ctrl |-> <<>>, data |-> <<>>]
NotClosed == [k \in Closers |-> "no"]
Open      == [stop |-> FALSE, shut |-> FALSE, sender |-> "run", btp |-> "up",
              crashed |-> FALSE]

Init == /\ strm = [x \in Sides |-> NoStreams] /\ loop = [x \in Sides |-> Reading]
        /\ out = [x \in Sides |-> NoOut] /\ wire = [x \in Sides |-> <<>>]
        /\ close = [x \in Sides |-> NotClosed] /\ conn = [x \in Sides |-> Open]
        /\ fails = 0

\* The process ends, and with it all it had in memory.
Crash(x) == /\ conn' = [conn EXCEPT ![x] = [Open EXCEPT !.btp = "down", !.crashed = TRUE]]
            /\ strm' = [strm EXCEPT ![x] = NoStreams] /\ loop' = [loop EXCEPT ![x] = Reading]
            /\ out' = [out EXCEPT ![x] = NoOut] /\ close' = [close EXCEPT ![x] = NotClosed]
            /\ UNCHANGED fails

\* Wrong: the queue has one place more than its capacity.
BadHasRoom(q) == Len(q) <= OutCap

HasRoom(q) == Len(q) < OutCap

\* A case "out <- msg" of a select; the channel is open.
Put(x, q, m) == /\ ~ conn[x].shut
                /\ HasRoom(out[x][q])
                /\ out' = [out EXCEPT ![x][q] = Append(@, m)]

\* Wrong: a Close may overtake the Data messages before it.
BadCloseQueue == "ctrl"

\* sendClosePacket: not outCtrl, "otherwise, the close packet would arrive
\* before the remaining Data packets".
CloseQueue == "data"

Goto(x, s, pc) == strm' = [strm EXCEPT ![x][s].pc = pc]

-----------------------------------------------------------------------------
(* CloseStream and Close, on either side. *)

\* CloseStream takes the stream out of the map and closes its channels.  The Close
\* message for the peer, if any, is sent next; then the stream's goroutine ends, or
\* closes the connection if the stream was the client's last in the map.
EndStream(x, s, st, says) ==
    LET after == IF x = "client" /\ \A t \in Streams \ {s} : ~ strm[x][t].reg
                   THEN "close" ELSE "done"
    IN strm' = [strm EXCEPT ![x][s] =
           [NoStream EXCEPT !.closed = TRUE, !.complete = st.complete, !.n = st.n,
                            !.says = says, !.after = after,
                            !.pc = IF says = "nothing" THEN after ELSE "tell"]]

\* The message is queued unless the connection is being closed.
Tell(x, s) ==
    /\ strm[x][s].pc = "tell"
    /\ \/ Put(x, CloseQueue, Msg(strm[x][s].says, s))
       \/ conn[x].stop /\ UNCHANGED out
    /\ Goto(x, s, strm[x][s].after)
    /\ UNCHANGED <<loop, wire, close, conn, fails>>

\* Close, "select case <-c.close: default:": is the channel still open?
CloseCheck(x, k) ==
    /\ \/ close[x][k] = "check"
       \/ k \in Streams /\ strm[x][k].pc = "close" /\ close[x][k] = "no"
    /\ close' = [close EXCEPT ![x][k] = IF conn[x].stop THEN "wait" ELSE "close"]
    /\ UNCHANGED <<strm, loop, out, wire, conn, fails>>

\* close(c.close), which another goroutine may have closed in between.
CloseStop(x, k) ==
    /\ close[x][k] = "close"
    /\ IF conn[x].stop THEN Crash(x) /\ UNCHANGED wire
       ELSE /\ conn' = [conn EXCEPT ![x].stop = TRUE]
            /\ close' = [close EXCEPT ![x][k] = "wait"]
            /\ UNCHANGED <<strm, loop, out, wire, fails>>

\* The goroutines the wait group counts: a stream's once it has started.
Counted(x) == {s \in Streams : strm[x][s].pc \notin {"idle", "sent", "made", "done"}}

\* wg.Wait returns; outCtrl and outData are closed, then the BTP connection.
CloseWait(x, k) ==
    /\ close[x][k] = "wait"
    /\ Counted(x) = {} /\ conn[x].sender = "done"
    /\ IF conn[x].shut THEN Crash(x) /\ UNCHANGED wire
       ELSE /\ conn' = [conn EXCEPT ![x].shut = TRUE,
                                 ![x].btp = IF @ = "stuck" THEN @ ELSE "down"]
            /\ close' = [close EXCEPT ![x][k] = "end"]
            /\ out' = [out EXCEPT ![x] = NoOut]
            /\ UNCHANGED <<strm, loop, wire, fails>>

CloseStep(x, k) == CloseCheck(x, k) \/ CloseStop(x, k) \/ CloseWait(x, k)

AppClose ==
    /\ AppCloses /\ close["client"][App] = "no"
    /\ close' = [close EXCEPT !["client"][App] = "check"]
    /\ UNCHANGED <<strm, loop, out, wire, conn, fails>>

-----------------------------------------------------------------------------
(* DownloadFile and the client's streams. *)

\* Wrong: a stream that waits for a message does not look at the close channel.
BadStopped(x) == FALSE

\* A case "<-c.close" of a select.
Stopped(x) == conn[x].stop

\* DownloadFile sends its request, or finds the connection closed ...
Ask(s) ==
    /\ strm["client"][s].pc = "idle"
    /\ \/ Put("client", "ctrl", Msg("FileReq", s)) /\ Goto("client", s, "sent")
       \/ conn["client"].stop /\ Goto("client", s, "done") /\ UNCHANGED out
    /\ UNCHANGED <<loop, wire, close, conn, fails>>

\* ... only then puts the stream into the map and starts its goroutine.
Register(s) ==
    /\ strm["client"][s].pc = "sent"
    /\ strm' = [strm EXCEPT !["client"][s].pc = "made", !["client"][s].reg = TRUE]
    /\ UNCHANGED <<loop, out, wire, close, conn, fails>>

\* The goroutine runs and adds itself to the wait group.
Start(x, s) ==
    /\ strm[x][s].pc = "made"
    /\ Goto(x, s, IF x = "client" THEN "resp" ELSE "req")
    /\ UNCHANGED <<loop, out, wire, close, conn, fails>>

\* A stream that waits for a message finds the connection closed.
Abandon(x, s) ==
    /\ strm[x][s].pc \in {"resp", "recv", "req", "wait"} /\ Stopped(x)
    /\ EndStream(x, s, strm[x][s], "nothing")
    /\ UNCHANGED <<loop, out, wire, close, conn, fails>>

Receives(x, s, pc, type) ==
    /\ strm[x][s].pc = pc
    /\ strm[x][s].in # <<>> /\ Head(strm[x][s].in).type = type

Took(x, s) == [strm[x][s] EXCEPT !.in = Tail(@)]

RecvFileResp(s) ==
    /\ Receives("client", s, "resp", "FileResp")
    /\ strm' = [strm EXCEPT !["client"][s] = [Took("client", s) EXCEPT !.pc = "start"]]
    /\ UNCHANGED <<loop, out, wire, close, conn, fails>>

RecvData(s) ==
    /\ Receives("client", s, "recv", "Data")
    /\ strm' = [strm EXCEPT !["client"][s] = [Took("client", s) EXCEPT !.n = @ + 1]]
    /\ UNCHANGED <<loop, out, wire, close, conn, fails>>

\* The file cannot be created or written: "close the stream, but keep the
\* connection open".
Fail(s) ==
    /\ fails < MaxFails /\ fails' = fails + 1
    /\ Receives("client", s, "resp", "FileResp") \/ Receives("client", s, "recv", "Data")
    /\ EndStream("client", s, Took("client", s), "Close")
    /\ UNCHANGED <<loop, out, wire, close, conn>>

\* Another version is offered than was asked for: the error message is built from a
\* file that is not open yet.
Refuse(s) ==
    /\ MaxFails > 0 /\ Receives("client", s, "resp", "FileResp")
    /\ Crash("client") /\ UNCHANGED wire

\* A Close from the server; TransferComplete is what completes the file.
RecvClose(s) ==
    /\ \E pc \in {"resp", "recv"}, type \in {"Close", "Complete"} :
          /\ Receives("client", s, pc, type)
          /\ EndStream("client", s,
                       [Took("client", s) EXCEPT
                           !.complete = pc = "recv" /\ type = "Complete"], "nothing")
    /\ UNCHANGED <<loop, out, wire, close, conn, fails>>

\* The select that sends FileResp or StartTransmission.
SendCtrl(x, s, pc, type, next) ==
    /\ strm[x][s].pc = pc
    /\ \/ Put(x, "ctrl", Msg(type, s)) /\ Goto(x, s, next)
       \/ conn[x].stop /\ EndStream(x, s, strm[x][s], "nothing") /\ UNCHANGED out
    /\ UNCHANGED <<loop, wire, close, conn, fails>>

-----------------------------------------------------------------------------
(* The server's streams. *)

\* The request is turned down or its file opened.
RecvFileReq(s) ==
    /\ Receives("server", s, "req", "FileReq")
    /\ \/ strm' = [strm EXCEPT !["server"][s] = [Took("server", s) EXCEPT !.pc = "reply"]]
       \/ EndStream("server", s, Took("server", s), "Close")
    /\ UNCHANGED <<loop, out, wire, close, conn, fails>>

RecvStart(s) ==
    /\ strm["server"][s].pc = "wait" /\ strm["server"][s].in # <<>>
    /\ IF Head(strm["server"][s].in).type = "Start"
         THEN strm' = [strm EXCEPT !["server"][s] = [Took("server", s) EXCEPT !.pc = "send"]]
         ELSE EndStream("server", s, Took("server", s), "nothing")
    /\ UNCHANGED <<loop, out, wire, close, conn, fails>>

\* The file is sent without looking at what comes in; after the last Data the
\* stream ends.
SendData(s) ==
    /\ strm["server"][s].pc = "send"
    /\ \/ /\ strm["server"][s].n < NumData
          /\ Put("server", "data", Msg("Data", s))
          /\ strm' = [strm EXCEPT !["server"][s].n = @ + 1]
       \/ /\ strm["server"][s].n = NumData
          /\ EndStream("server", s, strm["server"][s], "Complete") /\ UNCHANGED out
       \/ /\ strm["server"][s].n < NumData /\ conn["server"].stop
          /\ EndStream("server", s, strm["server"][s], "nothing") /\ UNCHANGED out
    /\ UNCHANGED <<loop, wire, close, conn, fails>>

ClientStream(s) == \/ Register(s) \/ RecvFileResp(s) \/ RecvData(s) \/ RecvClose(s)
                   \/ SendCtrl("client", s, "start", "Start", "recv")
ServerStream(s) == \/ RecvFileReq(s) \/ RecvStart(s) \/ SendData(s)
                   \/ SendCtrl("server", s, "reply", "FileResp", "wait")
StreamStep(x, s) == \/ Start(x, s) \/ Abandon(x, s) \/ Tell(x, s)
                    \/ x = "client" /\ ClientStream(s)
                    \/ x = "server" /\ ServerStream(s)

-----------------------------------------------------------------------------
(* sendMessages. *)

\* Control messages first.  A message queued between the two selects might as
\* well have come after them, so they are one step.  Write fails by a panic; on a
\* connection that was given up, it leaves the message in txChan ...
Send(x) ==
    /\ conn[x].sender = "run"
    /\ \E q \in {"ctrl", "data"} :
          /\ out[x][q] # <<>> /\ (q = "data" => out[x].ctrl = <<>>)
          /\ IF conn[x].btp = "down" THEN Crash(x) /\ UNCHANGED wire
             ELSE /\ wire' = IF \A y \in Sides : conn[y].btp = "up"
                               THEN [wire EXCEPT ![x] = Append(@, Head(out[x][q]))]
                               ELSE wire
                  /\ out' = [out EXCEPT ![x][q] = Tail(@)]
                  /\ UNCHANGED <<strm, loop, close, conn, fails>>

\* ... and blocks when that is full.
Block(x) ==
    /\ conn[x].sender = "run" /\ conn[x].btp = "stuck" /\ out[x] # NoOut
    /\ conn' = [conn EXCEPT ![x].sender = "blocked"]
    /\ UNCHANGED <<strm, loop, out, wire, close, fails>>

StopSending(x) ==
    /\ conn[x].sender = "run" /\ conn[x].stop
    /\ conn' = [conn EXCEPT ![x].sender = "done"]
    /\ UNCHANGED <<strm, loop, out, wire, close, fails>>

-----------------------------------------------------------------------------
(* The connection's loop. *)

\* getStream and what follows when there is no such stream: a StartTransmission
\* is looked up in a nil stream, a Close is ignored, the rest is answered, and so
\* is a FileReq for a stream that there is (isDuplicateStreamID).
Dispatch(x, m) ==
    LET s == strm[x][m.s] IN
    IF m.type = "Start" /\ (~ s.reg \/ s.pc \in {"made", "req"})
      THEN Crash(x)
      ELSE /\ loop' = [loop EXCEPT ![x] =
                 IF s.reg /\ m.type # "FileReq" THEN [pc |-> "pass", msg |-> m]
                 ELSE IF m.type \in {"Close", "Complete"} THEN @
                 ELSE [pc |-> "tell", msg |-> m]]
           /\ UNCHANGED <<strm, out, close, conn, fails>>

\* Wrong: the stream's goroutine is started but the map is not written.
BadMade(s) == [NoStream EXCEPT !.pc = "made", !.in = <<Msg("FileReq", s)>>]

\* The server's new stream, its FileReq in its channel.
Made(s) == [NoStream EXCEPT !.pc = "made", !.reg = TRUE, !.in = <<Msg("FileReq", s)>>]

ReadMsg(x) ==
    /\ loop[x].pc = "read" /\ wire[Other(x)] # <<>>
    /\ wire' = [wire EXCEPT ![Other(x)] = Tail(@)]
    /\ LET m == Head(wire[Other(x)]) IN
       IF m.type # "FileReq" \/ strm[x][m.s].reg THEN Dispatch(x, m)
       ELSE /\ strm' = [strm EXCEPT ![x][m.s] = Made(m.s)]
            /\ UNCHANGED <<loop, out, close, conn, fails>>

\* "s.in <- msg": the stream may have been closed since it was looked up.
PassOn(x) ==
    /\ loop[x].pc = "pass"
    /\ LET m == loop[x].msg IN
       IF strm[x][m.s].closed THEN Crash(x) /\ UNCHANGED wire
       ELSE /\ Len(strm[x][m.s].in) < InCap
            /\ strm' = [strm EXCEPT ![x][m.s].in = Append(@, m)]
            /\ loop' = [loop EXCEPT ![x] = [pc |-> "read"]]
            /\ UNCHANGED <<out, wire, close, conn, fails>>

AnswerUnknown(x) ==
    /\ loop[x].pc = "tell"
    /\ \/ Put(x, CloseQueue, Msg("Close", loop[x].msg.s))
       \/ conn[x].stop /\ UNCHANGED out
    /\ loop' = [loop EXCEPT ![x] = [pc |-> "read"]]
    /\ UNCHANGED <<strm, wire, close, conn, fails>>

\* Read fails: the loop closes the connection and returns.
ReadFails(x) ==
    /\ loop[x].pc = "read" /\ conn[x].btp = "down"
    /\ loop' = [loop EXCEPT ![x] = [pc |-> "end"]]
    /\ close' = [close EXCEPT ![x][Loop] = "check"]
    /\ wire' = [wire EXCEPT ![Other(x)] = <<>>]
    /\ UNCHANGED <<strm, out, conn, fails>>

\* A goroutine is about to send on outCtrl or outData, which are closed: the
\* select may choose that case.
SendOnClosed(x) ==
    /\ conn[x].shut
    /\ \/ \E s \in Streams :
            \/ strm[x][s].pc = "idle" /\ x = "client"
            \/ strm[x][s].pc \in {"reply", "start", "tell"}
            \/ strm[x][s].pc = "send" /\ strm[x][s].n < NumData
       \/ loop[x].pc = "tell"
    /\ Crash(x) /\ UNCHANGED wire

\* A stream's goroutine may go on to CloseStream, which deletes it from the map.
MayEnd(x, s) ==
    \/ Stopped(x) /\ strm[x][s].pc \in {"resp", "start", "recv", "req", "reply", "wait", "send"}
    \/ /\ x = "client"
       /\ \/ \E pc \in {"resp", "recv"}, type \in {"Close", "Complete"} : Receives(x, s, pc, type)
          \/ /\ fails < MaxFails
             /\ Receives(x, s, "resp", "FileResp") \/ Receives(x, s, "recv", "Data")
    \/ /\ x = "server"
       /\ \/ Receives(x, s, "req", "FileReq") \/ Receives(x, s, "wait", "Close")
          \/ strm[x][s].pc = "send" /\ strm[x][s].n = NumData

\* newStreamID and isDuplicateStreamID go through the map for an ID for s; they
\* release the lock before they begin.
Looks(x, s) ==
    \/ x = "client" /\ strm[x][s].pc = "idle"
    \/ /\ x = "server" /\ loop[x].pc = "read"
       /\ wire["client"] # <<>> /\ Head(wire["client"]) = Msg("FileReq", s)

Racing(x) == \E s, t \in Streams : Looks(x, s) /\ strm[x][t].reg /\ MayEnd(x, t)

\* "fatal error: concurrent map iteration and map write", if the runtime sees it.
MapRace(x) == Racing(x) /\ Crash(x) /\ UNCHANGED wire

-----------------------------------------------------------------------------
(* The BTP connection. *)

\* It goes down after its peer did, and by itself when packets stay away.
GoDown(x) ==
    /\ conn[x].btp = "up"
    /\ conn[Other(x)].btp # "up" \/ MayBreak
    /\ conn' = [conn EXCEPT ![x].btp = "down"]
    /\ UNCHANGED <<strm, loop, out, wire, close, fails>>

\* Too many retransmissions: run() returns, without a teardown.
GiveUp(x) ==
    /\ conn[x].btp = "up" /\ MayBreak
    /\ conn' = [conn EXCEPT ![x].btp = "stuck"]
    /\ UNCHANGED <<strm, loop, out, wire, close, fails>>

\* The idle read timeout: nothing is on its way to this side.
IdleTimeout(x) == wire[Other(x)] = <<>> /\ GoDown(x)

LoopStep(x) == ReadMsg(x) \/ PassOn(x) \/ AnswerUnknown(x) \/ ReadFails(x)

Step(x) == \/ \E s \in Streams : StreamStep(x, s)
           \/ \E k \in Closers : CloseStep(x, k)
           \/ LoopStep(x) \/ Send(x) \/ Block(x) \/ StopSending(x) \/ SendOnClosed(x)
           \/ MapRace(x) \/ GoDown(x) \/ GiveUp(x)

Alive(x) == ~ conn[x].crashed

Next == \/ \E x \in Sides : Alive(x) /\ Step(x)
        \/ Alive("client") /\ (AppClose \/ \E s \in Streams : Ask(s) \/ Fail(s) \/ Refuse(s))

Spec == Init /\ [][Next]_vars

\* Every goroutine is scheduled, and a connection on which nothing arrives any
\* more times out (IdleReadTimeout).  Nothing makes the user ask or close.
FairSpec ==
    /\ Spec
    /\ \A x \in Sides :
         /\ WF_vars(Alive(x) /\ (LoopStep(x) \/ CloseStep(x, Loop)))
         /\ WF_vars(Alive(x) /\ (Send(x) \/ StopSending(x)))
         /\ WF_vars(Alive(x) /\ IdleTimeout(x))
         /\ \A s \in Streams : WF_vars(Alive(x) /\ (StreamStep(x, s) \/ CloseStep(x, s)))
    /\ WF_vars(Alive("client") /\ CloseStep("client", App))

-----------------------------------------------------------------------------
(* Properties. *)

\* Every variable keeps its type, and the queues their capacity.
TypeOK ==
    /\ \A x \in Sides :
         /\ \A s \in Streams :
              /\ strm[x][s].pc \in {"idle", "sent", "made", "resp", "start", "recv", "req",
                                    "reply", "wait", "send", "tell", "close", "done"}
              /\ strm[x][s].n \in 0 .. NumData /\ Len(strm[x][s].in) <= InCap
              /\ {strm[x][s].reg, strm[x][s].closed, strm[x][s].complete} \subseteq BOOLEAN
         /\ loop[x].pc \in {"read", "pass", "tell", "end"}
         /\ Len(out[x].ctrl) <= OutCap /\ Len(out[x].data) <= OutCap
         /\ conn[x].btp \in {"up", "down", "stuck"}
         /\ conn[x].sender \in {"run", "blocked", "done"}
         /\ {conn[x].stop, conn[x].shut, conn[x].crashed} \subseteq BOOLEAN
         /\ \A k \in Closers : close[x][k] \in {"no", "check", "close", "wait", "end"}
    /\ fails \in 0 .. MaxFails

\* TransferComplete never overtakes the file's Data, although control messages
\* have a queue of their own (conn.go sendClosePacket).
DataBeforeClose ==
    \A s \in Streams : strm["client"][s].complete => strm["client"][s].n = NumData

\* Until the connection goes down, the client closes it or one of its streams
\* fails, one thing alone ends the server's process: a request that is read while
\* another stream leaves the map.  No order of messages does, requests turned down
\* or answered too early included (handleServerConnection: "s.in <- msg",
\* "s.f.checksum").
ServerSurvives ==
    [][conn'["server"].crashed => \/ conn["server"].btp # "up" \/ Racing("server")
                                  \/ conn["client"].stop \/ conn["client"].crashed
                                  \/ fails > 0]_vars

\* Nor does anything but that, a refused version or the client's own closing end
\* the client's process until a stream has failed: after a Close nothing more comes
\* for its stream, so no message is passed on to a channel that the stream has
\* closed in the meantime (handleClientConnection, "s.in <- msg").
ClientSurvives ==
    [][conn'["client"].crashed => \/ conn["client"].crashed \/ conn["client"].btp # "up"
                                  \/ conn["client"].stop \/ Racing("client")
                                  \/ fails > 0 \/ \E s \in Streams : Refuse(s)]_vars

\* A stream in a side's map is taken out of it in the end: it does not wait for
\* ever for a message, or for room in a queue (CloseStream), unless the BTP
\* connection was given up without being torn down.
StreamsEnd == \A x \in Sides :
    (\E s \in Streams : strm[x][s].reg)
        ~> (conn[x].crashed \/ conn[x].btp = "stuck" \/ \A s \in Streams : ~ strm[x][s].reg)

\* When the connection below is torn down, the server's goroutines stop and the
\* connection is cleaned up, or the process has ended (Close, wg.Wait).
ServerCloses == conn["server"].btp = "down"
                  ~> (conn["server"].shut \/ conn["server"].crashed)

\* "Close sends close messages to all the (remaining) streams and closes the
\* btp.Conn" (conn.go): whoever starts it, it comes to that.
CloseCloses == conn["client"].stop ~> (conn["client"].shut \/ conn["client"].crashed)
=============================================================================
