---------------------------- MODULE BrftDownload ----------------------------
(***************************************************************************)
(* Downloading one file over BRFT: the client's stream, the server's       *)
(* stream, and the client's file, which carries a header (signature and    *)
(* checksum) until the download is complete so that a later attempt, over  *)
(* a new connection, can resume it.  Attempts may be cut short by a lost   *)
(* connection or by a crash of the client at any step, the answer to the   *)
(* request may be dropped because it comes before the stream is            *)
(* registered, and the server's file may be overwritten, cut or appended   *)
(* to while it is served.                                                  *)
(*                                                                         *)
(* A connection delivers messages in order, as BTP promises (MsgStream).   *)
(* A file is a sequence of units; unit i of version v of the file is the   *)
(* pair <<g, i>> where g is the version in which its content was new, and  *)
(* v stands for the checksum of that version.                              *)
(* Compression is agreed on for each stream and works on one chunk at a    *)
(* time: what matters of a Data message is whether it is compressed.       *)
(***************************************************************************)
EXTENDS Naturals, Sequences, SequencesExt

CONSTANTS
    FileSizes,    \* possible sizes of the file
    ServerChunk,  \* units in a full Data message: the server's own choice
    ClientChunk,  \* the same, asked for by a client that wants compression
    MinFileSize,  \* smaller files are not compressed
    Compressions, \* may a connection's client ask for compression? (subset of BOOLEAN)
    MaxVersions,  \* versions of the server's file (bound)
    MaxCuts,      \* connections lost, crashes and answers dropped (bound)
    Crashes,      \* may the client crash?
    Requests      \* checksums the user asks for: NoChecksum or versions

NoChecksum == 0   \* the zeroed checksum
Versions   == 1 .. MaxVersions

ASSUME SizesAssumption == FileSizes \subseteq Nat /\ MinFileSize \in Nat
ASSUME ChunksAssumption == /\ {ServerChunk, ClientChunk} \subseteq Nat \ {0}
                           /\ MinFileSize <= ServerChunk /\ MinFileSize <= ClientChunk
ASSUME CompressionsAssumption == Compressions \subseteq BOOLEAN
ASSUME CountsAssumption == MaxVersions \in Nat \ {0} /\ MaxCuts \in Nat /\ Crashes \in BOOLEAN
ASSUME RequestsAssumption == Requests \subseteq Versions \cup {NoChecksum}

VARIABLES
    files,  \* the versions of the server's file so far, the last one current
    disk,   \* the client's file
    cl,     \* the client's stream
    srv,    \* the server's stream
    up,     \* messages to the server
    down,   \* messages to the client
    cuts    \* connections lost, crashes and answers dropped so far

vars == <<files, disk, cl, srv, up, down, cuts>>

-----------------------------------------------------------------------------
File(gen, size) == [gen |-> gen, size |-> size]
Content(file)   == [i \in 1 .. file.size |-> <<file.gen, i>>]

ver      == Len(files)   \* the current version
Size(v)  == files[v].size
Whole(v) == Content(files[v])

\* comp: of a FileReq, the optional header that asks for gzip; of a FileResp, the
\* answer "Ok" to it; of a Data message, its payload is compressed.
FileReq(v, resume, comp) ==
    [type |-> "FileReq", checksum |-> v, resume |-> resume, comp |-> comp]
FileResp(v, comp)    == [type |-> "FileResp", checksum |-> v, comp |-> comp]
Start(v, offset)     == [type |-> "StartTransmission", checksum |-> v, offset |-> offset]
Data(units, comp)    == [type |-> "Data", units |-> units, comp |-> comp]
CloseMsg(reason)     == [type |-> "Close", reason |-> reason]

\* Client files: none; torn, created but without its whole header; partial,
\* with the header; whole, stripped of it.
NoFile           == [st |-> "none", checksum |-> NoChecksum, units |-> <<>>]
Partial(v, us)   == [st |-> "partial", checksum |-> v, units |-> us]

NoClient == [pc |-> "idle", asked |-> NoChecksum, resume |-> FALSE, offset |-> 0,
             comp |-> FALSE]
NoServer == [pc |-> "none", checksum |-> NoChecksum, pos |-> 0, chunk |-> ServerChunk,
             comp |-> FALSE]

Init == /\ files \in {<<File(1, n)>> : n \in FileSizes}
        /\ disk = NoFile
        /\ cl = NoClient /\ srv = NoServer
        /\ up = <<>> /\ down = <<>> /\ cuts = 0

\* The client's stream ends, and its connection with it (CloseStream).
Ends(pc) == /\ cl' = [NoClient EXCEPT !.pc = pc]
            /\ srv' = NoServer /\ up' = <<>> /\ down' = <<>>
EndOfAttempt == Ends("idle")

-----------------------------------------------------------------------------
(* The client. *)

\* No attempt is under way; after a panic the user has to start the client again.
Resting == cl.pc \in {"idle", "panicked"}

\* DownloadFile, up to its request: a file with a header is resumed and its checksum
\* asked for; any other file under that name is an error.
DownloadFile(want, comp) ==
    /\ Resting /\ disk.st \in {"none", "partial"}
    /\ LET resume == disk.st = "partial" IN
       /\ cl' = [NoClient EXCEPT !.pc = "asked", !.asked = want, !.resume = resume,
                                 !.offset = Len(disk.units)]
       /\ up' = <<FileReq(IF resume THEN disk.checksum ELSE want, resume, comp)>>
    /\ UNCHANGED <<files, disk, srv, down, cuts>>

\* The stream enters the map of streams, and its goroutine waits for the answer.
Register ==
    /\ cl.pc = "asked"
    /\ cl' = [cl EXCEPT !.pc = "request"]
    /\ UNCHANGED <<files, disk, srv, up, down, cuts>>

\* The connection's loop reads the answer before the stream is in the map: a
\* FileResp is answered with a Close, a Close ignored, and the stream will wait for
\* what has already come.
DropAnswer ==
    /\ cl.pc = "asked" /\ down # <<>>
    /\ cuts < MaxCuts /\ cuts' = cuts + 1
    /\ cl' = [cl EXCEPT !.pc = "missed"]
    /\ down' = Tail(down)
    /\ up' = IF Head(down).type = "FileResp" THEN Append(up, CloseMsg("Undefined")) ELSE up
    /\ UNCHANGED <<files, disk, srv>>

\* Nothing comes any more, and the read timeout closes the connection.
TimeOut ==
    /\ cl.pc = "missed" /\ down = <<>> /\ srv.pc # "send"
    /\ EndOfAttempt
    /\ UNCHANGED <<files, disk, cuts>>

Receives(type) == down # <<>> /\ Head(down).type = type

\* The error message is built from a file that is not open yet.
Refuse == Ends("panicked")

\* FileResp with another checksum than the user asked for.
RefuseFileResp ==
    /\ cl.pc = "request" /\ Receives("FileResp")
    /\ cl.asked \notin {NoChecksum, Head(down).checksum}
    /\ Refuse
    /\ UNCHANGED <<files, disk, cuts>>

\* FileResp, NewFile: the file is created; its header is written next.
CreateFile ==
    /\ cl.pc = "request" /\ Receives("FileResp") /\ disk.st = "none"
    /\ cl.asked \in {NoChecksum, Head(down).checksum}
    /\ disk' = [NoFile EXCEPT !.st = "torn", !.checksum = Head(down).checksum]
    /\ cl' = [cl EXCEPT !.pc = "create", !.comp = Head(down).comp]
    /\ down' = Tail(down)
    /\ UNCHANGED <<files, srv, up, cuts>>

WriteHeader ==
    /\ cl.pc = "create"
    /\ disk' = Partial(disk.checksum, <<>>)
    /\ cl' = [cl EXCEPT !.pc = "receive"]
    /\ up' = Append(up, Start(disk.checksum, 0))
    /\ UNCHANGED <<files, srv, down, cuts>>

\* FileResp, NewFile: the file is opened at its end.
ResumeFile ==
    /\ cl.pc = "request" /\ Receives("FileResp") /\ disk.st = "partial"
    /\ cl.asked \in {NoChecksum, Head(down).checksum}
    /\ cl' = [cl EXCEPT !.pc = "receive", !.comp = Head(down).comp]
    /\ down' = Tail(down)
    /\ up' = Append(up, Start(Head(down).checksum, IF cl.resume THEN cl.offset ELSE 0))
    /\ UNCHANGED <<files, disk, srv, cuts>>

\* A chunk that cannot be decompressed ends the stream; one that is not
\* decompressed is written as it came (CodingAgrees: neither happens).
WriteData ==
    /\ cl.pc = "receive" /\ Receives("Data")
    /\ IF cl.comp /\ ~ Head(down).comp
         THEN EndOfAttempt /\ UNCHANGED disk
         ELSE /\ disk' = [disk EXCEPT !.units = @ \o Head(down).units]
              /\ down' = Tail(down) /\ UNCHANGED <<cl, srv, up>>
    /\ UNCHANGED <<files, cuts>>

\* Wrong: the checksum of the complete file is not compared.
BadCheckChecksum == TRUE

\* The checksum of the file's content is the one of its header.
CheckChecksum == disk.units = Whole(disk.checksum)

\* StripChecksum: the content is copied to a temporary file, which is renamed.
StripChecksum == [disk EXCEPT !.st = "whole"]

\* Close: a complete file loses its header by a rename, a wrong one is removed;
\* after any other reason what was received stays for the next attempt.
RecvClose ==
    /\ cl.pc \in {"request", "receive"} /\ Receives("Close")
    /\ disk' = IF Head(down).reason # "TransferComplete" \/ cl.pc = "request"
                 THEN disk
                 ELSE IF CheckChecksum THEN StripChecksum ELSE NoFile
    /\ EndOfAttempt
    /\ UNCHANGED <<files, cuts>>

-----------------------------------------------------------------------------
(* The server. *)

Arrives(type) == up # <<>> /\ Head(up).type = type

Reply(msgs) == down' = down \o msgs /\ up' = Tail(up)

\* Wrong: the checksum asked for is not compared.
BadAccepts(req) == req.resume => req.checksum # NoChecksum

\* FileReq: the file's checksum is computed; a request for another one, a
\* resumption among them, is turned down.
Accepts(req) == /\ req.checksum \in {NoChecksum, ver}
                /\ req.resume => req.checksum # NoChecksum

\* Wrong: a request that is turned down is not answered.
BadTurnDown(reason) == <<>>

\* CloseStream with a Close message for the peer.
TurnDown(reason) == <<CloseMsg(reason)>>

\* The response's status for compression is "Ok", not "FileTooSmall".
Confirms(req) == req.comp /\ Size(ver) >= MinFileSize

\* Wrong: the compressor is kept when the file is too small.
BadCompresses(req) == req.comp

\* Has the stream a compressor?
Compresses(req) == Confirms(req)

\* The file opened for a stream, its checksum computed; with the compressor
\* comes the chunk size the client asked for.
Opened(req) == [pc |-> "wait", checksum |-> ver, pos |-> 0, comp |-> Compresses(req),
                chunk |-> IF Confirms(req) THEN ClientChunk ELSE ServerChunk]

OpenFile ==
    /\ srv.pc = "none" /\ Arrives("FileReq")
    /\ IF Accepts(Head(up))
         THEN /\ srv' = Opened(Head(up))
              /\ Reply(<<FileResp(ver, Confirms(Head(up)))>>)
         ELSE Reply(TurnDown("ChecksumInvalid")) /\ UNCHANGED srv
    /\ UNCHANGED <<files, disk, cl, cuts>>

\* Wrong: the reader stays at the start of the file.
BadSeekOffset(offset) == 0

\* SeekOffset.
SeekOffset(offset) == offset

\* The size of the stream's file, taken when it was opened.
Opening == Size(srv.checksum)

\* Wrong: an offset at the last unit is taken for one behind the end.
BadPasses(st) == st.checksum = srv.checksum /\ (st.offset = 0 \/ st.offset + 1 < Opening)

\* The connection's loop passes a StartTransmission on to the stream.
Passes(st) == st.checksum = srv.checksum /\ (st.offset = 0 \/ st.offset < Opening)

\* StartTransmission: one that the connection's loop turns down leaves the
\* stream waiting; the stream itself turns down, for an empty file, offset 0.
StartSending ==
    /\ srv.pc = "wait" /\ Arrives("StartTransmission")
    /\ LET st == Head(up) IN
       IF ~ Passes(st)
         THEN /\ Reply(TurnDown(IF st.checksum # srv.checksum THEN "ChecksumInvalid"
                                                               ELSE "InvalidOffset"))
              /\ UNCHANGED srv
         ELSE IF st.offset >= Opening
         THEN Reply(TurnDown("InvalidOffset")) /\ srv' = NoServer
         ELSE Reply(<<>>) /\ srv' = [srv EXCEPT !.pc = "send", !.pos = SeekOffset(st.offset)]
    /\ UNCHANGED <<files, disk, cl, cuts>>

\* Wrong: a full chunk may be the last one.
BadIsLast(n) == n <= srv.chunk

\* "n < len(d.Data)": a Data packet that is not full is the last one.
IsLast(n) == n < srv.chunk

\* The units of the file as it is now behind what was sent.
Left == IF srv.pos < Size(ver) THEN Size(ver) - srv.pos ELSE 0

\* One chunk is read and sent; after the last one the stream ends with a Close.
\* At the end of the file Read fails with io.EOF: another reason to close.
SendChunk ==
    /\ srv.pc = "send"
    /\ LET n == IF Left < srv.chunk THEN Left ELSE srv.chunk
           chunk == Data([i \in 1 .. n |-> <<files[ver].gen, srv.pos + i>>], srv.comp) IN
       IF n = 0
         THEN srv' = NoServer /\ down' = Append(down, CloseMsg("Undefined"))
         ELSE IF IsLast(n)
         THEN /\ srv' = NoServer
              /\ down' = down \o <<chunk, CloseMsg("TransferComplete")>>
         ELSE srv' = [srv EXCEPT !.pos = @ + n] /\ down' = Append(down, chunk)
    /\ UNCHANGED <<files, disk, cl, up, cuts>>

\* A stream that waits for its start hears that the client has none: it ends.
HearClose ==
    /\ Arrives("Close")
    /\ srv' = IF srv.pc = "wait" THEN NoServer ELSE srv
    /\ Reply(<<>>)
    /\ UNCHANGED <<files, disk, cl, cuts>>

-----------------------------------------------------------------------------
\* The server's file is overwritten in place, with new content or, shorter or
\* longer, the same; an open stream reads what is there now.
Overwrite ==
    /\ ver < MaxVersions
    /\ \E gen \in {files[ver].gen, ver + 1}, n \in FileSizes :
          /\ \A v \in 1 .. ver : Content(File(gen, n)) # Whole(v)
          /\ files' = Append(files, File(gen, n))
    /\ UNCHANGED <<disk, cl, srv, up, down, cuts>>

EndedBy == /\ cuts < MaxCuts /\ cuts' = cuts + 1
           /\ EndOfAttempt
           /\ UNCHANGED <<files, disk>>

\* The connection is lost: what is on disk stays.
LoseConnection == cl.pc \in {"asked", "request", "missed", "receive"} /\ EndedBy

\* The client crashes before the header is whole; at any other step a crash
\* leaves what a lost connection leaves.
Crash == Crashes /\ cl.pc = "create" /\ EndedBy

Client == \/ Register \/ RefuseFileResp \/ CreateFile \/ WriteHeader \/ ResumeFile
          \/ WriteData \/ RecvClose
Server == OpenFile \/ StartSending \/ SendChunk \/ HearClose
AskFor(want) == \E comp \in Compressions : DownloadFile(want, comp)
Begin  == \E want \in Requests : AskFor(want)

Next == Begin \/ Client \/ DropAnswer \/ TimeOut \/ Server
        \/ Overwrite \/ LoseConnection \/ Crash

Spec == Init /\ [][Next]_vars

\* The streams' goroutines are scheduled and a read timeout fires.  The user tries
\* again and again, and now and then for whatever version the server has: an
\* assumption about the user.
FairSpec == /\ Spec
            /\ WF_vars(Client) /\ WF_vars(Server) /\ WF_vars(TimeOut)
            /\ WF_vars(Begin) /\ SF_vars(AskFor(NoChecksum))

-----------------------------------------------------------------------------
(* Properties. *)

\* The places in a file.
Offsets == {i \in Nat : \E n \in FileSizes : i <= n}
Units   == Versions \X (Offsets \ {0})

\* Every variable keeps its type; no offset or place lies behind the end of the
\* longest file, nor does the client's file.
TypeOK ==
    /\ files \in Seq([gen : Versions, size : FileSizes]) /\ ver \in Versions
    /\ cuts \in 0 .. MaxCuts
    /\ disk.st \in {"none", "torn", "partial", "whole"}
    /\ disk.checksum \in 0 .. ver /\ disk.units \in Seq(Units) /\ Len(disk.units) \in Offsets
    /\ cl.pc \in {"idle", "asked", "missed", "request", "create", "receive", "panicked"}
    /\ cl.asked \in Requests \cup {NoChecksum} /\ cl.resume \in BOOLEAN /\ cl.offset \in Offsets
    /\ cl.comp \in BOOLEAN /\ srv.comp \in BOOLEAN /\ srv.chunk \in {ServerChunk, ClientChunk}
    /\ srv.pc \in {"none", "wait", "send"} /\ srv.pos \in Offsets
    /\ srv.checksum \in 0 .. ver

\* What loses its header at the end of a download is the whole of the version whose
\* checksum was advertised for it, whatever was overwritten, lost or resumed on the
\* way.  (A file that a crash left without its whole header is not meant.)
WholeIsRight == disk.st = "whole" => disk.units = Whole(disk.checksum)

\* How far into the file what is on disk and the first i messages on their way reach.
Reached(i) == IF i = 0 THEN Len(disk.units) ELSE down[i].units[Len(down[i].units)][2]

\* No unit is skipped or sent twice: what the client has written, the Data on its way
\* and the place where the server reads on fit together, resumed or not.
OffsetsAgree ==
    /\ \A i \in DOMAIN disk.units : disk.units[i][2] = i
    /\ \A i \in DOMAIN down :
          down[i].type = "Data" => down[i].units[1][2] = Reached(i - 1) + 1
    /\ srv.pc = "send" => srv.pos = Reached(Len(down))

\* While the server still has the version, a download is thrown away only when it is
\* wrong: a beginning of that version stays on disk until the file is whole
\* (handleClientStream, Remove).  Once the server's file is cut short, a download of
\* what it was is taken for complete, and a right beginning removed with it.
ProgressKept == [][disk.st = "partial" /\ disk.checksum = ver /\ IsPrefix(disk.units, Whole(ver))
                     => IsPrefix(disk.units, disk'.units)]_vars

\* Every attempt comes to its end: by a message of the server or, when the answer to
\* its request was dropped, by the read timeout, which no other attempt needs; or by
\* a panic, which OfferFits narrows down.
AttemptEnds == ~ Resting ~> Resting

\* A file that is resumed is offered the version it began with, and a new one the
\* version the user asked for, if any, whatever was overwritten since: versions are
\* never mixed, and the client refuses, which ends its process, only when the user
\* asked for another version than the file's (handleClientStream, "checksum").
OfferFits ==
    cl.pc = "request" /\ Receives("FileResp") =>
        /\ disk.st = "partial" => Head(down).checksum = disk.checksum
        /\ disk.st = "none" => cl.asked \in {NoChecksum, Head(down).checksum}

\* The client decompresses exactly what the server compresses, although each has
\* its own view of what was agreed (CompressionRespOptionalHeader), also when a
\* download that was begun one way is resumed the other way.
CodingAgrees == cl.pc = "receive" =>
    \A i \in DOMAIN down : down[i].type = "Data" => down[i].comp = cl.comp

\* What no later attempt can complete: a file without its whole header is taken for
\* another file; a version that was overwritten is not served any more; and nothing
\* is sent from an offset at the end of the file, which is where a file that has all
\* its content, but was not finished, would be resumed.
BeyondResuming ==
    /\ Resting
    /\ \/ disk.st = "torn"
       \/ disk.st = "partial" /\ (disk.checksum # ver \/ Len(disk.units) = Size(ver))

\* A user who tries again long enough gets the file, through lost connections,
\* resumptions and compression, but for exactly these cases.
DownloadCompletes == <>(disk.st = "whole" \/ BeyondResuming)
=============================================================================
