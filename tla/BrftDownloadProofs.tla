------------------------- MODULE BrftDownloadProofs -------------------------
(***************************************************************************)
(* What holds of BrftDownload for files and chunks of every size, any      *)
(* number of versions, cuts and attempts, compressed or not.               *)
(*                                                                         *)
(* IInv says for each state of the client's stream what may be on its way  *)
(* in either direction, where the server's stream then is, and how far     *)
(* into the file the client, the Data on its way and the server have come. *)
(***************************************************************************)
EXTENDS BrftDownload, TLAPS

Checksums == Versions \cup {NoChecksum}
Reasons   == {"ChecksumInvalid", "InvalidOffset", "Undefined", "TransferComplete"}
DataMsgs  == [type : {"Data"}, units : Seq(Units), comp : BOOLEAN]
CloseMsgs == [type : {"Close"}, reason : Reasons]

Files   == [gen : Versions, size : FileSizes]
Disks   == [st : {"none", "torn", "partial", "whole"}, checksum : Checksums,
            units : Seq(Units)]
Clients == [pc : {"idle", "asked", "missed", "request", "create", "receive", "panicked"},
            asked : Requests \cup {NoChecksum}, resume : BOOLEAN, offset : Offsets,
            comp : BOOLEAN]
Servers == [pc : {"none", "wait", "send"}, checksum : Checksums, pos : Offsets,
            chunk : {ServerChunk, ClientChunk}, comp : BOOLEAN]

Types == /\ files \in Seq(Files) /\ ver \in Versions /\ cuts \in 0 .. MaxCuts
         /\ disk \in Disks /\ cl \in Clients /\ srv \in Servers
         /\ disk.checksum <= ver /\ srv.checksum <= ver

\* The client's file holds the first units of some versions, each in its place.
DiskOK == /\ disk.st = "none" => disk = NoFile
          /\ disk.st = "torn" => disk.units = <<>>
          /\ disk.st # "none" => disk.checksum # NoChecksum
          /\ \A i \in DOMAIN disk.units : disk.units[i][2] = i
          /\ WholeIsRight

Idle == srv = NoServer /\ up = <<>> /\ down = <<>>

\* The request is on its way, or its answer, accepted or turned down.
Requesting ==
    /\ disk.st \in {"none", "partial"} /\ cl.resume = (disk.st = "partial")
    /\ cl.offset = Len(disk.units)
    /\ \/ /\ \E comp \in BOOLEAN :
               up = <<FileReq(IF cl.resume THEN disk.checksum ELSE cl.asked,
                              cl.resume, comp)>>
          /\ down = <<>> /\ srv = NoServer
       \/ /\ up = <<>> /\ down = <<FileResp(srv.checksum, srv.comp)>>
          /\ srv.pc = "wait" /\ srv.checksum # NoChecksum
          /\ IF cl.resume THEN srv.checksum = disk.checksum
                          ELSE cl.asked \in {NoChecksum, srv.checksum}
       \/ /\ up = <<>> /\ down = <<CloseMsg("ChecksumInvalid")>> /\ srv = NoServer

\* The answer was dropped: at most a Close to the server is on its way.
Missing == /\ down = <<>> /\ srv.pc # "send"
           /\ up \in {<<>>, <<CloseMsg("Undefined")>>}

Creating == /\ disk.st = "torn"
            /\ up = <<>> /\ down = <<>>
            /\ srv.pc = "wait" /\ srv.comp = cl.comp

\* Message i continues the file where what was sent before it ends.
Fits(i) == IF down[i].type = "Data"
             THEN /\ down[i].comp = cl.comp
                  /\ Len(down[i].units) > 0
                  /\ \A j \in DOMAIN down[i].units : down[i].units[j][2] = Reached(i - 1) + j
             ELSE /\ i = Len(down)
                  /\ srv.pc # "send"
                  /\ down[i].reason = "TransferComplete" /\ disk.checksum = ver =>
                         Reached(i - 1) = Size(ver)

Arriving == /\ down \in Seq(DataMsgs \cup CloseMsgs)
            /\ \A i \in DOMAIN down : Fits(i)
            /\ srv.pc = "send" => srv.pos = Reached(Len(down))

Receiving == /\ disk.st = "partial"
             /\ srv.pc # "none" => srv.comp = cl.comp
             /\ \/ /\ up = <<Start(disk.checksum, Len(disk.units))>> /\ down = <<>>
                   /\ srv.pc = "wait"
                \/ up = <<>> /\ Arriving

Phase == /\ Resting => Idle
         /\ cl.pc \in {"asked", "request"} => Requesting
         /\ cl.pc = "missed" => Missing
         /\ cl.pc = "create" => Creating
         /\ cl.pc = "receive" => Receiving

IInv == Types /\ DiskOK /\ Phase

-----------------------------------------------------------------------------
(* Helpers. *)

\* The constants as the provers need them.
LEMMA ConstantTypes ==
    /\ FileSizes \subseteq Nat /\ MinFileSize \in Nat
    /\ ServerChunk \in Nat \ {0} /\ ClientChunk \in Nat \ {0}
    /\ MaxVersions \in Nat \ {0} /\ MaxCuts \in Nat
    /\ Requests \subseteq Checksums /\ Compressions \subseteq BOOLEAN
    /\ NoChecksum \in Checksums /\ NoChecksum \notin Versions
    /\ 1 \in Versions
  BY SizesAssumption, ChunksAssumption, CompressionsAssumption, CountsAssumption,
     RequestsAssumption DEF Checksums, NoChecksum, Versions

\* The versions of the file, and the places in them.
LEMMA FileFacts ==
    ASSUME Types
    PROVE  /\ Len(files) \in Nat /\ ver = Len(files) /\ ver \in 1 .. Len(files)
           /\ files[ver] \in Files /\ 0 \in Offsets
           /\ \A v \in 1 .. ver : Size(v) \in FileSizes /\ Size(v) \in Nat
<1>1. files \in Seq(Files) /\ Len(files) \in Nat /\ ver = Len(files) /\ ver >= 1
  BY DEF Types, ver, Versions
<1>2. ASSUME NEW v \in 1 .. ver
      PROVE  Size(v) \in FileSizes /\ Size(v) \in Nat
  <2>1. v \in 1 .. Len(files)
    BY <1>1
  <2>2. files[v] \in Files
    BY <1>1, <2>1
  <2> QED
    BY <2>2, ConstantTypes DEF Size, Files
<1>3. 0 \in Offsets
  BY <1>1, <1>2 DEF Offsets
<1> QED
  BY <1>1, <1>2, <1>3

\* The client's file is never longer than the longest file there is.
LEMMA DiskFits ==
    ASSUME Types, DiskOK
    PROVE  Len(disk.units) \in Offsets /\ Len(disk.units) \in Nat
<1>1. disk.units \in Seq(Units) /\ Len(disk.units) \in Nat
  BY DEF Types, Disks
<1>2. CASE Len(disk.units) > 0
  <2>1. disk.units[Len(disk.units)] \in Units
    BY <1>1, <1>2
  <2>2. disk.units[Len(disk.units)][2] = Len(disk.units)
    BY <1>1, <1>2 DEF DiskOK
  <2> QED
    BY <1>1, <2>1, <2>2 DEF Units
<1>3. CASE Len(disk.units) = 0
  BY <1>3, FileFacts
<1> QED
  BY <1>1, <1>2, <1>3

LEMMA OneMessage ==
    ASSUME NEW msg
    PROVE  <<>> \o <<msg>> = <<msg>>
  OBVIOUS

LEMMA NoServerType ==
    ASSUME Types
    PROVE  NoServer \in Servers /\ NoServer.pc = "none" /\ NoServer.checksum <= ver
<1>1. 0 \in Offsets /\ ver \in Nat /\ ver >= 1
  BY FileFacts
<1> QED
  BY <1>1, ConstantTypes DEF NoServer, NoChecksum, Servers

\* An attempt's end leaves nothing behind but the file.
LEMMA AttemptOver ==
    ASSUME IInv, NEW pc \in {"idle", "panicked"}, Ends(pc), UNCHANGED files,
           cuts' \in 0 .. MaxCuts, disk' \in Disks, disk'.checksum <= ver, DiskOK'
    PROVE  IInv'
<1>1. /\ cl' \in Clients /\ cl'.pc = pc /\ srv' = NoServer /\ srv' \in Servers
      /\ srv'.checksum <= ver
  <2>1. 0 \in Offsets
    BY FileFacts DEF IInv
  <2>2. cl' = [pc |-> pc, asked |-> NoChecksum, resume |-> FALSE, offset |-> 0, comp |-> FALSE]
    BY DEF Ends, NoClient
  <2>3. cl' \in Clients
    BY <2>1, <2>2 DEF Clients
  <2>4. srv' = NoServer
    BY DEF Ends
  <2> QED
    BY <2>2, <2>3, <2>4, NoServerType DEF IInv
<1>2. ver' = ver
  BY DEF ver
<1>3. Types'
  BY <1>1, <1>2 DEF IInv, Types
<1>4. Phase'
  BY <1>1 DEF Ends, Phase, Idle, Resting
<1> QED
  BY <1>3, <1>4 DEF IInv

-----------------------------------------------------------------------------
LEMMA InitInv == Init => IInv
<1> SUFFICES ASSUME Init
             PROVE  IInv
  OBVIOUS
<1>0. PICK n \in FileSizes : files = <<File(1, n)>>
  BY DEF Init
<1>1. files \in Seq(Files) /\ ver = 1 /\ ver \in Versions /\ 0 \in Offsets
  BY <1>0, ConstantTypes DEF ver, Files, File, Offsets
<1>2. NoClient \in Clients /\ NoServer \in Servers /\ NoServer.checksum <= ver
  BY <1>1, ConstantTypes DEF NoClient, NoServer, NoChecksum, Clients, Servers
<1>3. NoFile \in Disks /\ NoFile.checksum <= ver
  BY <1>1, ConstantTypes DEF NoFile, NoChecksum, Disks
<1>4. Types
  BY <1>1, <1>2, <1>3, ConstantTypes DEF Init, Types
<1>5. DiskOK
  BY DEF Init, DiskOK, NoFile, WholeIsRight
<1>6. Phase
  BY DEF Init, Phase, Idle, NoClient, Resting
<1> QED
  BY <1>4, <1>5, <1>6 DEF IInv

LEMMA DownloadFileInv ==
    ASSUME IInv, NEW want \in Requests, NEW comp \in Compressions,
           DownloadFile(want, comp)
    PROVE  IInv'
<1>1. Types /\ DiskOK /\ Idle
  BY DEF IInv, Phase, DownloadFile
<1>2. /\ disk.st \in {"none", "partial"} /\ UNCHANGED <<files, disk, srv, down, cuts>>
      /\ cl' = [pc |-> "asked", asked |-> want, resume |-> disk.st = "partial",
                offset |-> Len(disk.units), comp |-> FALSE]
      /\ up' = <<FileReq(IF disk.st = "partial" THEN disk.checksum ELSE want,
                         disk.st = "partial", comp)>>
  BY DEF DownloadFile, NoClient
<1>3. cl' \in Clients
  BY <1>1, <1>2, DiskFits DEF Clients
<1>4. Types'
  BY <1>1, <1>2, <1>3 DEF Types, ver
<1>5. DiskOK'
  BY <1>1, <1>2 DEF DiskOK, WholeIsRight, Whole
<1>6. Requesting'
  BY <1>1, <1>2, ConstantTypes DEF Requesting, Idle
<1> QED
  BY <1>2, <1>4, <1>5, <1>6 DEF IInv, Phase, Resting

LEMMA RegisterInv ==
    ASSUME IInv, Register
    PROVE  IInv'
<1>1. /\ Types /\ DiskOK /\ Requesting /\ UNCHANGED <<files, disk, srv, up, down, cuts>>
      /\ cl' = [cl EXCEPT !.pc = "request"]
  BY DEF IInv, Phase, Register
<1>2. /\ cl' \in Clients /\ cl'.pc = "request" /\ cl'.asked = cl.asked
      /\ cl'.resume = cl.resume /\ cl'.offset = cl.offset
  BY <1>1 DEF Types, Clients
<1>3. Types'
  BY <1>1, <1>2 DEF Types, ver
<1>4. DiskOK'
  BY <1>1 DEF DiskOK, WholeIsRight, Whole
<1>5. Requesting'
  BY <1>1, <1>2 DEF Requesting
<1> QED
  BY <1>2, <1>3, <1>4, <1>5 DEF IInv, Phase, Resting

LEMMA DropAnswerInv ==
    ASSUME IInv, DropAnswer
    PROVE  IInv'
<1>1. /\ Types /\ DiskOK /\ Requesting /\ UNCHANGED <<files, disk, srv>> /\ down # <<>>
      /\ cuts < MaxCuts /\ cuts' = cuts + 1 /\ down' = Tail(down)
      /\ cl' = [cl EXCEPT !.pc = "missed"]
      /\ up' = IF Head(down).type = "FileResp" THEN Append(up, CloseMsg("Undefined")) ELSE up
  BY DEF IInv, Phase, DropAnswer
<1>2. cl' \in Clients /\ cl'.pc = "missed"
  BY <1>1 DEF Types, Clients
<1>3. cuts' \in 0 .. MaxCuts
  BY <1>1, ConstantTypes DEF Types
<1>4. Types'
  BY <1>1, <1>2, <1>3 DEF Types, ver
<1>5. DiskOK'
  BY <1>1 DEF DiskOK, WholeIsRight, Whole
<1>6. /\ up = <<>> /\ srv.pc # "send"
      /\ \/ down = <<FileResp(srv.checksum, srv.comp)>> \/ down = <<CloseMsg("ChecksumInvalid")>>
  BY <1>1 DEF Requesting, NoServer
<1>7. down' = <<>>
  <2>1. \A m : Tail(<<m>>) = <<>>
    OBVIOUS
  <2> QED
    BY <1>1, <1>6, <2>1
<1>8. up' \in {<<>>, <<CloseMsg("Undefined")>>}
  BY <1>1, <1>6
<1>9. Missing'
  BY <1>1, <1>6, <1>7, <1>8 DEF Missing, CloseMsg
<1> QED
  BY <1>2, <1>4, <1>5, <1>9 DEF IInv, Phase, Resting

\* Steps that end the attempt and leave the file as it was.
LEMMA CutShort ==
    ASSUME IInv, NEW pc \in {"idle", "panicked"}, Ends(pc), UNCHANGED <<files, disk>>,
           cuts' \in 0 .. MaxCuts
    PROVE  IInv'
<1>1. disk' \in Disks /\ disk'.checksum <= ver /\ DiskOK'
  BY DEF IInv, Types, Disks, DiskOK, WholeIsRight, Whole
<1> QED
  BY <1>1, AttemptOver

LEMMA CreateFileInv ==
    ASSUME IInv, CreateFile
    PROVE  IInv'
<1>1. Types /\ DiskOK /\ cl.pc = "request" /\ Requesting
  BY DEF IInv, Phase, CreateFile
<1>2. /\ UNCHANGED <<files, srv, up, cuts>> /\ disk.st = "none" /\ down # <<>>
      /\ disk' = [NoFile EXCEPT !.st = "torn", !.checksum = Head(down).checksum]
      /\ cl' = [cl EXCEPT !.pc = "create", !.comp = Head(down).comp]
      /\ down' = Tail(down) /\ Head(down).type = "FileResp"
  BY DEF CreateFile, Receives
<1>3. /\ up = <<>> /\ down = <<FileResp(srv.checksum, srv.comp)>>
      /\ srv.pc = "wait" /\ srv.checksum # NoChecksum
  BY <1>1, <1>2 DEF Requesting, CloseMsg
<1>4. down' = <<>> /\ Head(down).checksum = srv.checksum /\ Head(down).comp = srv.comp
  BY <1>2, <1>3 DEF FileResp
<1>5. srv.checksum \in Checksums /\ srv.checksum <= ver /\ srv.comp \in BOOLEAN
  BY <1>1 DEF Types, Servers
<1>6. disk' = [st |-> "torn", checksum |-> srv.checksum, units |-> <<>>]
  BY <1>2, <1>4 DEF NoFile
<1>7. disk' \in Disks /\ disk'.checksum <= ver
  BY <1>5, <1>6 DEF Disks
<1>11. cl' \in Clients
  BY <1>1, <1>2, <1>4, <1>5 DEF Types, Clients
<1>8. Types'
  BY <1>1, <1>2, <1>7, <1>11 DEF Types, ver
<1>9. DiskOK'
  BY <1>3, <1>6 DEF DiskOK, WholeIsRight
<1>10. cl'.pc = "create" /\ Creating'
  BY <1>1, <1>2, <1>3, <1>4, <1>6 DEF Creating, Types, Clients
<1> QED
  BY <1>8, <1>9, <1>10 DEF IInv, Phase, Resting

LEMMA WriteHeaderInv ==
    ASSUME IInv, WriteHeader
    PROVE  IInv'
<1>1. Types /\ DiskOK /\ cl.pc = "create" /\ Creating
  BY DEF IInv, Phase, WriteHeader
<1>2. /\ UNCHANGED <<files, srv, down, cuts>>
      /\ disk' = [st |-> "partial", checksum |-> disk.checksum, units |-> <<>>]
      /\ cl' = [cl EXCEPT !.pc = "receive"]
      /\ up' = <<Start(disk.checksum, 0)>>
  BY <1>1 DEF WriteHeader, Partial, Creating
<1>3. disk' \in Disks /\ cl' \in Clients /\ disk'.checksum <= ver
  BY <1>1, <1>2 DEF Types, Disks, Clients
<1>4. Types'
  BY <1>1, <1>2, <1>3 DEF Types, ver
<1>5. DiskOK'
  BY <1>1, <1>2 DEF DiskOK, WholeIsRight, Creating
<1>6. cl'.pc = "receive" /\ cl'.comp = cl.comp
  BY <1>1, <1>2 DEF Types, Clients
<1>7. Receiving'
  BY <1>1, <1>2, <1>6 DEF Creating, Receiving
<1> QED
  BY <1>4, <1>5, <1>6, <1>7 DEF IInv, Phase, Resting

LEMMA ResumeFileInv ==
    ASSUME IInv, ResumeFile
    PROVE  IInv'
<1>1. Types /\ DiskOK /\ cl.pc = "request" /\ Requesting
  BY DEF IInv, Phase, ResumeFile
<1>2. /\ UNCHANGED <<files, disk, srv, cuts>> /\ disk.st = "partial" /\ down # <<>>
      /\ cl' = [cl EXCEPT !.pc = "receive", !.comp = Head(down).comp]
      /\ down' = Tail(down) /\ Head(down).type = "FileResp"
      /\ up' = Append(up, Start(Head(down).checksum, IF cl.resume THEN cl.offset ELSE 0))
  BY DEF ResumeFile, Receives
<1>3. /\ up = <<>> /\ down = <<FileResp(srv.checksum, srv.comp)>>
      /\ srv.pc = "wait" /\ cl.resume = TRUE /\ srv.checksum = disk.checksum
      /\ cl.offset = Len(disk.units)
  <2>1. down # <<CloseMsg("ChecksumInvalid")>>
    BY <1>2 DEF CloseMsg
  <2> QED
    BY <1>1, <1>2, <2>1 DEF Requesting
<1>4. down' = <<>> /\ Head(down).checksum = disk.checksum /\ Head(down).comp = srv.comp
  BY <1>2, <1>3 DEF FileResp
<1>5. up' = <<Start(disk.checksum, Len(disk.units))>>
  BY <1>2, <1>3, <1>4
<1>6. srv.comp \in BOOLEAN
  BY <1>1 DEF Types, Servers
<1>7. cl' \in Clients /\ cl'.pc = "receive" /\ cl'.comp = srv.comp
  BY <1>1, <1>2, <1>4, <1>6 DEF Types, Clients
<1>8. Types'
  BY <1>1, <1>2, <1>7 DEF Types, ver
<1>9. DiskOK'
  BY <1>1, <1>2 DEF DiskOK, WholeIsRight, Whole
<1>10. Receiving'
  BY <1>2, <1>3, <1>4, <1>5, <1>7 DEF Receiving
<1> QED
  BY <1>7, <1>8, <1>9, <1>10 DEF IInv, Phase, Resting

\* What is first on its way to a client that receives continues its file.
LEMMA NextData ==
    ASSUME IInv, cl.pc = "receive", down # <<>>
    PROVE  /\ up = <<>> /\ Arriving /\ disk.st = "partial"
           /\ Head(down) = down[1] /\ 1 \in DOMAIN down /\ Fits(1)
           /\ Reached(0) = Len(disk.units)
           /\ Head(down).type = "Data" => /\ Head(down) \in DataMsgs
                                          /\ Head(down).comp = cl.comp
           /\ Head(down).type = "Close" => Head(down) \in CloseMsgs
<1>1. up = <<>> /\ Arriving /\ disk.st = "partial"
  BY DEF IInv, Phase, Receiving, Resting
<1>2. down \in Seq(DataMsgs \cup CloseMsgs)
  BY <1>1 DEF Arriving
<1>3. 1 \in DOMAIN down /\ Head(down) = down[1] /\ down[1] \in DataMsgs \cup CloseMsgs
  BY <1>2
<1>4. Fits(1)
  BY <1>1, <1>3 DEF Arriving
<1> QED
  BY <1>1, <1>3, <1>4 DEF Fits, Reached, DataMsgs, CloseMsgs

LEMMA WriteDataInv ==
    ASSUME IInv, WriteData
    PROVE  IInv'
<1> DEFINE us == Head(down).units
<1>1. Types /\ DiskOK /\ cl.pc = "receive" /\ Receiving /\ down # <<>>
      /\ Head(down).type = "Data"
  BY DEF IInv, Phase, WriteData, Receives
<1>2. /\ up = <<>> /\ Arriving /\ disk.st = "partial" /\ us \in Seq(Units)
      /\ down[1] = Head(down) /\ Head(down).comp = cl.comp
  BY <1>1, NextData DEF DataMsgs
<1>3. /\ UNCHANGED <<files, cuts, cl, srv, up>> /\ down' = Tail(down)
      /\ disk' = [disk EXCEPT !.units = disk.units \o us]
  BY <1>1, <1>2 DEF WriteData, Types, Clients
<1>4. /\ Len(us) > 0 /\ \A j \in 1 .. Len(us) : us[j][2] = Len(disk.units) + j
  <2>1. Fits(1)
    BY <1>1, NextData
  <2>2. down[1].type = "Data" /\ down[1].units = us
    BY <1>1, <1>2
  <2>3. /\ Len(us) > 0
        /\ \A j \in DOMAIN us : us[j][2] = (IF 1 - 1 = 0 THEN Len(disk.units)
                                             ELSE down[1 - 1].units[Len(down[1 - 1].units)][2]) + j
    BY <2>1, <2>2 DEF Fits, Reached
  <2>4. 1 - 1 = 0 /\ DOMAIN us = 1 .. Len(us)
    BY <1>2
  <2> QED
    BY <2>3, <2>4
<1>5. disk.units \in Seq(Units)
  BY <1>1 DEF Types, Disks
<1> HIDE DEF us
<1>6. /\ disk' \in Disks /\ disk'.st = "partial" /\ disk'.checksum = disk.checksum
      /\ disk'.units = disk.units \o us
  <2>1. disk.units \o us \in Seq(Units)
    BY <1>2, <1>5
  <2> QED
    BY <1>1, <1>2, <1>3, <2>1 DEF Types, Disks
<1>7. Types'
  BY <1>1, <1>3, <1>6 DEF Types, ver
<1>8. DiskOK'
  <2>1. ASSUME NEW i \in 1 .. Len(disk.units) + Len(us)
        PROVE  (disk.units \o us)[i][2] = i
    <3>1. CASE i <= Len(disk.units)
      BY <1>1, <1>2, <1>5, <3>1 DEF DiskOK
    <3>2. CASE i > Len(disk.units)
      <4>1. /\ (disk.units \o us)[i] = us[i - Len(disk.units)]
            /\ i - Len(disk.units) \in 1 .. Len(us)
        BY <1>2, <1>5, <3>2
      <4> QED
        BY <1>4, <1>5, <4>1
    <3> QED
      BY <1>5, <3>1, <3>2
  <2>2. \A i \in DOMAIN disk'.units : disk'.units[i][2] = i
    BY <1>2, <1>5, <1>6, <2>1
  <2> QED
    BY <1>1, <1>2, <1>6, <2>2 DEF DiskOK, WholeIsRight
<1>9. down \in Seq(DataMsgs \cup CloseMsgs)
  BY <1>2 DEF Arriving
<1>10. /\ down' \in Seq(DataMsgs \cup CloseMsgs) /\ Len(down') = Len(down) - 1
       /\ Len(down) \in Nat \ {0} /\ DOMAIN down' = 1 .. Len(down) - 1
       /\ \A i \in 1 .. Len(down) - 1 : down'[i] = down[i + 1]
  BY <1>1, <1>3, <1>9
<1>11. \A i \in 0 .. Len(down) - 1 : Reached(i)' = Reached(i + 1)
  <2>1. Reached(0)' = Reached(1)
    <3>1. Reached(0)' = Len(disk.units) + Len(us)
      BY <1>2, <1>5, <1>6 DEF Reached
    <3>2. Reached(1) = us[Len(us)][2]
      BY <1>2 DEF Reached, us
    <3>3. Len(us) \in 1 .. Len(us)
      BY <1>2, <1>4
    <3> QED
      BY <1>4, <3>1, <3>2, <3>3
  <2>2. ASSUME NEW i \in 1 .. Len(down) - 1
        PROVE  Reached(i)' = Reached(i + 1)
    BY <1>9, <1>10 DEF Reached
  <2> QED
    BY <1>9, <2>1, <2>2
<1>12. Arriving'
  <2>1. ASSUME NEW i \in 1 .. Len(down) - 1
        PROVE  Fits(i)'
    <3>1. Fits(i + 1) /\ i + 1 \in DOMAIN down
      BY <1>2, <1>9 DEF Arriving
    <3>2. down'[i] = down[i + 1] /\ (i + 1) - 1 = i /\ i \in Nat /\ Len(down) \in Nat
      BY <1>9, <1>10
    <3>3. Reached(i - 1)' = Reached(i)
      <4>1. i - 1 \in 0 .. Len(down) - 1 /\ (i - 1) + 1 = i
        BY <1>10
      <4> QED
        BY <1>11, <4>1
    <3>4. Reached((i + 1) - 1) = Reached(i)
      BY <3>2
    <3>5. /\ cl' = cl /\ srv' = srv /\ ver' = ver /\ Size(ver)' = Size(ver)
          /\ disk'.checksum = disk.checksum /\ Len(down') = Len(down) - 1
      BY <1>3, <1>6, <1>10 DEF ver, Size
    <3>6. CASE down[i + 1].type = "Data"
      <4>1. /\ down[i + 1].comp = cl.comp /\ Len(down[i + 1].units) > 0
            /\ \A j \in DOMAIN down[i + 1].units :
                  down[i + 1].units[j][2] = Reached((i + 1) - 1) + j
        BY <3>1, <3>6 DEF Fits
      <4> QED
        BY <3>2, <3>3, <3>4, <3>5, <3>6, <4>1 DEF Fits
    <3>7. CASE down[i + 1].type # "Data"
      <4>1. /\ i + 1 = Len(down) /\ srv.pc # "send"
            /\ down[i + 1].reason = "TransferComplete" /\ disk.checksum = ver =>
                   Reached((i + 1) - 1) = Size(ver)
        BY <3>1, <3>7 DEF Fits
      <4>2. i = Len(down')
        BY <3>2, <3>5, <4>1
      <4> QED
        BY <3>2, <3>3, <3>4, <3>5, <3>7, <4>1, <4>2 DEF Fits
    <3> QED
      BY <3>6, <3>7
  <2>2. srv'.pc = "send" => srv'.pos = Reached(Len(down))'
    <3>1. PICK n \in 0 .. Len(down) - 1 : n + 1 = Len(down) /\ Len(down') = n
      BY <1>10
    <3>2. Reached(Len(down))' = Reached(n)' /\ Reached(n)' = Reached(Len(down))
      BY <1>11, <3>1
    <3>3. srv' = srv
      BY <1>3
    <3> QED
      BY <1>2, <3>2, <3>3 DEF Arriving
  <2>4. (\A i \in DOMAIN down : Fits(i))'
    BY <1>10, <2>1
  <2> QED
    BY <1>10, <2>2, <2>4 DEF Arriving
<1>13. Receiving'
  BY <1>1, <1>2, <1>3, <1>6, <1>12 DEF Receiving
<1> QED
  BY <1>1, <1>3, <1>7, <1>8, <1>13 DEF IInv, Phase, Resting

LEMMA RecvCloseInv ==
    ASSUME IInv, RecvClose
    PROVE  IInv'
<1>1. /\ Ends("idle") /\ UNCHANGED <<files, cuts>> /\ cuts \in 0 .. MaxCuts
      /\ disk \in Disks /\ disk.checksum <= ver /\ DiskOK
  BY DEF IInv, Types, RecvClose, EndOfAttempt
<1>2. CASE disk' = disk
  BY <1>1, <1>2, CutShort
<1>3. CASE disk' = NoFile
  <2>1. disk' \in Disks /\ disk'.checksum <= ver
    BY <1>3, ConstantTypes, FileFacts DEF NoFile, NoChecksum, Disks, IInv
  <2>2. DiskOK'
    BY <1>3 DEF DiskOK, NoFile, WholeIsRight
  <2> QED
    BY <1>1, <2>1, <2>2, AttemptOver
<1>5. CASE cl.pc = "receive" /\ CheckChecksum /\ disk' = StripChecksum
  <2>1. disk' \in Disks /\ disk'.st = "whole" /\ disk'.units = disk.units
        /\ disk'.checksum = disk.checksum
    BY <1>1, <1>5 DEF StripChecksum, Disks
  <2>2. disk.st # "none"
    BY <1>5 DEF IInv, Phase, Receiving
  <2>3. DiskOK'
    BY <1>1, <1>5, <2>1, <2>2 DEF DiskOK, WholeIsRight, CheckChecksum, Whole
  <2> QED
    BY <1>1, <2>1, <2>3, AttemptOver
<1> QED
  BY <1>2, <1>3, <1>5 DEF RecvClose

-----------------------------------------------------------------------------
LEMMA OpenFileInv ==
    ASSUME IInv, OpenFile
    PROVE  IInv'
<1> DEFINE req == Head(up)
<1>1. Types /\ DiskOK /\ srv.pc = "none" /\ up # <<>> /\ req.type = "FileReq"
      /\ UNCHANGED <<files, disk, cl, cuts>>
  BY DEF IInv, OpenFile, Arrives
<1>2. cl.pc \in {"asked", "request"} /\ Requesting
  <2>1. cl.pc \notin {"idle", "panicked", "create", "missed"}
    BY <1>1 DEF IInv, Phase, Idle, Creating, Missing, CloseMsg, Resting
  <2>2. cl.pc # "receive"
    BY <1>1 DEF IInv, Phase, Receiving, Resting
  <2> QED
    BY <1>1, <2>1, <2>2 DEF IInv, Phase, Types, Clients
<1>3. PICK comp \in BOOLEAN :
        up = <<FileReq(IF cl.resume THEN disk.checksum ELSE cl.asked, cl.resume, comp)>>
  BY <1>1, <1>2 DEF Requesting
<1>4. /\ down = <<>> /\ srv = NoServer /\ cl.resume \in BOOLEAN
      /\ disk.st \in {"none", "partial"} /\ cl.resume = (disk.st = "partial")
      /\ cl.offset = Len(disk.units)
  BY <1>1, <1>2 DEF Requesting, Types, Clients
<1>5. /\ req.checksum = IF cl.resume THEN disk.checksum ELSE cl.asked
      /\ req.resume = cl.resume /\ req.comp \in BOOLEAN /\ Tail(up) = <<>>
  BY <1>3 DEF FileReq
<1> HIDE DEF req
<1>6. CASE Accepts(req)
  <2>1. srv' = Opened(req) /\ up' = <<>> /\ down' = <<FileResp(ver, Confirms(req))>>
    <3>1. srv' = Opened(req) /\ Reply(<<FileResp(ver, Confirms(req))>>)
      BY <1>6 DEF OpenFile, req
    <3> QED
      BY <1>4, <1>5, <3>1, OneMessage DEF Reply
  <2>2. Confirms(req) \in BOOLEAN
    BY <1>5 DEF Confirms
  <2>3. /\ srv' \in Servers /\ srv'.pc = "wait" /\ srv'.checksum = ver
        /\ srv'.comp = Confirms(req) /\ srv'.checksum <= ver
    <3>1. ver \in Versions /\ 0 \in Offsets /\ ver <= ver
      BY <1>1, FileFacts DEF Types
    <3> QED
      BY <2>1, <2>2, <3>1, ConstantTypes DEF Opened, Compresses, Servers, Checksums
  <2>4. Types'
    BY <1>1, <2>3 DEF Types, ver
  <2>5. IF cl.resume THEN ver = disk.checksum ELSE cl.asked \in {NoChecksum, ver}
    BY <1>5, <1>6 DEF Accepts
  <2>6. ver # NoChecksum
    BY <1>1, ConstantTypes DEF Types
  <2>7. Requesting'
    BY <1>1, <1>4, <2>1, <2>3, <2>5, <2>6 DEF Requesting
  <2>8. DiskOK'
    BY <1>1 DEF DiskOK, WholeIsRight, Whole
  <2> QED
    BY <1>1, <1>2, <2>4, <2>7, <2>8 DEF IInv, Phase, Resting
<1>7. CASE ~ Accepts(req)
  <2>1. srv' = NoServer /\ up' = <<>> /\ down' = <<CloseMsg("ChecksumInvalid")>>
    <3>1. srv' = srv /\ Reply(<<CloseMsg("ChecksumInvalid")>>)
      BY <1>7 DEF OpenFile, req, TurnDown
    <3> QED
      BY <1>4, <1>5, <3>1, OneMessage DEF Reply
  <2>2. Types'
    BY <1>1, <1>4, <2>1 DEF Types, ver
  <2>3. Requesting'
    BY <1>1, <1>4, <2>1 DEF Requesting
  <2>4. DiskOK'
    BY <1>1 DEF DiskOK, WholeIsRight, Whole
  <2> QED
    BY <1>1, <1>2, <2>2, <2>3, <2>4 DEF IInv, Phase, Resting
<1> QED
  BY <1>6, <1>7

\* A stream that is closed while nothing else is on its way to the client.
LEMMA ClosedEarly ==
    ASSUME IInv, cl.pc = "receive", UNCHANGED <<files, disk, cl, cuts>>, up' = <<>>,
           NEW reason \in Reasons \ {"TransferComplete"}, down' = <<CloseMsg(reason)>>,
           srv' \in {srv, NoServer}, srv'.pc # "send"
    PROVE  IInv'
<1>1. Types /\ DiskOK /\ Receiving
  BY DEF IInv, Phase, Resting
<1>2. /\ srv' \in Servers /\ srv'.checksum <= ver
      /\ srv'.pc # "none" => srv'.comp = cl.comp
  <2>1. NoServer \in Servers /\ NoServer.pc = "none" /\ NoServer.checksum <= ver
    BY <1>1, NoServerType
  <2> QED
    BY <1>1, <2>1 DEF Types, Receiving
<1>3. Types'
  BY <1>1, <1>2 DEF Types, ver
<1>4. DiskOK'
  BY <1>1 DEF DiskOK, WholeIsRight, Whole
<1>5. CloseMsg(reason) \in CloseMsgs'
  BY DEF CloseMsg, CloseMsgs, Reasons
<1>6. Arriving'
  <2>1. down' \in Seq(DataMsgs \cup CloseMsgs)' /\ DOMAIN down' = {1} /\ Len(down') = 1
    BY <1>5
  <2>2. down'[1].type = "Close" /\ down'[1].reason # "TransferComplete"
    BY DEF CloseMsg
  <2>3. Fits(1)'
    BY <2>1, <2>2 DEF Fits
  <2> QED
    BY <2>1, <2>3 DEF Arriving
<1> QED
  BY <1>1, <1>2, <1>3, <1>4, <1>6 DEF IInv, Phase, Receiving, Resting

LEMMA StartSendingInv ==
    ASSUME IInv, StartSending
    PROVE  IInv'
<1> DEFINE st == Head(up)
<1>1. Types /\ DiskOK /\ srv.pc = "wait" /\ up # <<>> /\ st.type = "StartTransmission"
      /\ UNCHANGED <<files, disk, cl, cuts>>
  BY DEF IInv, StartSending, Arrives
<1>2. cl.pc = "receive" /\ Receiving
  <2>1. cl.pc \notin {"idle", "panicked", "create", "missed"}
    BY <1>1 DEF IInv, Phase, Idle, Creating, Missing, CloseMsg, Resting
  <2>2. cl.pc \notin {"asked", "request"}
    BY <1>1 DEF IInv, Phase, Requesting, FileReq
  <2> QED
    BY <1>1, <2>1, <2>2 DEF IInv, Phase, Types, Clients
<1>3. up = <<Start(disk.checksum, Len(disk.units))>> /\ down = <<>> /\ disk.st = "partial"
      /\ srv.comp = cl.comp
  BY <1>1, <1>2 DEF Receiving
<1>4. /\ st.checksum = disk.checksum /\ st.offset = Len(disk.units) /\ Tail(up) = <<>>
      /\ st.offset \in Offsets
  BY <1>1, <1>3, DiskFits DEF Start
<1> HIDE DEF st
<1>5. CASE ~ Passes(st)
  <2>1. PICK reason \in {"ChecksumInvalid", "InvalidOffset"} :
          Reply(<<CloseMsg(reason)>>) /\ srv' = srv
    BY <1>5 DEF StartSending, TurnDown, st
  <2>2. up' = <<>> /\ down' = <<CloseMsg(reason)>>
    BY <1>3, <1>4, <2>1, OneMessage DEF Reply
  <2> QED
    BY <1>1, <1>2, <2>1, <2>2, ClosedEarly DEF Reasons
<1>6. CASE Passes(st) /\ st.offset >= Opening
  <2>1. Reply(<<CloseMsg("InvalidOffset")>>) /\ srv' = NoServer
    BY <1>6 DEF StartSending, TurnDown, st
  <2>2. up' = <<>> /\ down' = <<CloseMsg("InvalidOffset")>>
    BY <1>3, <1>4, <2>1, OneMessage DEF Reply
  <2>3. srv'.pc # "send"
    BY <2>1 DEF NoServer
  <2> QED
    BY <1>1, <1>2, <2>1, <2>2, <2>3, ClosedEarly DEF Reasons
<1>7. CASE Passes(st) /\ ~ (st.offset >= Opening)
  <2>1. Reply(<<>>) /\ srv' = [srv EXCEPT !.pc = "send", !.pos = st.offset]
    BY <1>7 DEF StartSending, SeekOffset, st
  <2>2. up' = <<>> /\ down' = <<>>
    BY <1>3, <1>4, <2>1 DEF Reply
  <2>3. /\ srv' \in Servers /\ srv'.comp = cl.comp /\ srv'.pos = Len(disk.units)
        /\ srv'.pc = "send" /\ srv'.checksum = srv.checksum
    <3>1. PICK o \in Offsets : o = Len(disk.units)
      BY <1>1, DiskFits
    <3>2. srv' = [srv EXCEPT !.pc = "send", !.pos = o]
      BY <1>3, <1>4, <2>1, <3>1
    <3>3. srv \in Servers /\ srv.comp = cl.comp
      BY <1>1, <1>3, <1>4 DEF Types
    <3> QED
      BY <3>1, <3>2, <3>3 DEF Servers
  <2>4. Types'
    BY <1>1, <2>3 DEF Types, ver
  <2>5. DiskOK'
    BY <1>1 DEF DiskOK, WholeIsRight, Whole
  <2>6. Arriving'
    <3>1. Len(down') = 0 /\ DOMAIN down' = {} /\ down' \in Seq(DataMsgs \cup CloseMsgs)'
      BY <2>2
    <3>2. Reached(Len(down))' = Len(disk.units)
      BY <1>1, <3>1 DEF Reached
    <3> QED
      BY <2>3, <3>1, <3>2 DEF Arriving
  <2> QED
    BY <1>1, <1>2, <1>3, <2>2, <2>3, <2>4, <2>5, <2>6 DEF IInv, Phase, Receiving, Resting
<1> QED
  BY <1>5, <1>6, <1>7

-----------------------------------------------------------------------------
\* What is on its way stays in its place when the server sends more.
LEMMA StillFits ==
    ASSUME IInv, cl.pc = "receive", srv.pc = "send", UNCHANGED <<files, disk, cl>>,
           \A i \in 1 .. Len(down) : down'[i] = down[i]
    PROVE  /\ Arriving /\ up = <<>> /\ srv.comp = cl.comp /\ disk.st = "partial"
           /\ down \in Seq(DataMsgs \cup CloseMsgs) /\ Len(down) \in Nat
           /\ srv.pos = Reached(Len(down))
           /\ \A i \in 0 .. Len(down) : Reached(i)' = Reached(i)
           /\ \A i \in 1 .. Len(down) : Fits(i)'
<1>1. /\ Arriving /\ up = <<>> /\ srv.comp = cl.comp /\ disk.st = "partial"
  BY DEF IInv, Phase, Receiving, Resting
<1>2. down \in Seq(DataMsgs \cup CloseMsgs) /\ Len(down) \in Nat
      /\ DOMAIN down = 1 .. Len(down) /\ srv.pos = Reached(Len(down))
  BY <1>1 DEF Arriving
<1>3. ASSUME NEW i \in 0 .. Len(down)
      PROVE  Reached(i)' = Reached(i)
  BY <1>2 DEF Reached
<1>4. ASSUME NEW i \in 1 .. Len(down)
      PROVE  Fits(i)'
  <2>1. Fits(i) /\ down[i].type = "Data" /\ down'[i] = down[i]
    BY <1>1, <1>2 DEF Arriving, Fits
  <2>2. Reached(i - 1)' = Reached(i - 1)
    <3>1. i - 1 \in 0 .. Len(down)
      BY <1>2
    <3> QED
      BY <1>3, <3>1
  <2> QED
    BY <2>1, <2>2 DEF Fits
<1> QED
  BY <1>1, <1>2, <1>3, <1>4

LEMMA SendChunkInv ==
    ASSUME IInv, SendChunk
    PROVE  IInv'
<1> DEFINE n == IF Left < srv.chunk THEN Left ELSE srv.chunk
           gen == files[ver].gen
           us == [i \in 1 .. n |-> <<gen, srv.pos + i>>]
           chunk == Data(us, srv.comp)
           more == IF n = 0 THEN <<CloseMsg("Undefined")>>
                   ELSE IF IsLast(n) THEN <<chunk, CloseMsg("TransferComplete")>>
                   ELSE <<chunk>>
<1>1. Types /\ DiskOK /\ srv.pc = "send" /\ UNCHANGED <<files, disk, cl, up, cuts>>
  BY DEF IInv, SendChunk
<1>2. cl.pc = "receive" /\ Receiving
  <2>1. cl.pc \notin {"idle", "panicked", "create", "asked", "request", "missed"}
    BY <1>1 DEF IInv, Phase, Idle, Creating, Requesting, Missing, NoServer, Resting
  <2> QED
    BY <1>1, <2>1 DEF IInv, Phase, Types, Clients
<1>3. down \in Seq(DataMsgs \cup CloseMsgs)
  BY <1>1, <1>2 DEF Receiving, Arriving, IInv, Phase, Start
<1>0. \/ n = 0 /\ srv' = NoServer /\ down' = Append(down, CloseMsg("Undefined"))
      \/ /\ n # 0 /\ IsLast(n) /\ srv' = NoServer
         /\ down' = down \o <<chunk, CloseMsg("TransferComplete")>>
      \/ /\ n # 0 /\ ~ IsLast(n) /\ srv' = [srv EXCEPT !.pos = @ + n]
         /\ down' = Append(down, chunk)
  BY DEF SendChunk
<1>4. /\ n \in Nat /\ n <= srv.chunk /\ srv.pos + n \in Nat
      /\ srv.pos \in Nat /\ Size(ver) \in Nat /\ Size(ver) \in FileSizes
      /\ srv.chunk \in Nat \ {0}
      /\ n > 0 => srv.pos + n <= Size(ver)
      /\ n > 0 /\ IsLast(n) => srv.pos + n = Size(ver)
  <2>1. Size(ver) \in Nat /\ Size(ver) \in FileSizes
    BY <1>1, FileFacts
  <2>2. srv.pos \in Nat /\ srv.chunk \in Nat \ {0}
    BY <1>1, ConstantTypes DEF Types, Servers, Offsets
  <2> QED
    BY <2>1, <2>2 DEF IsLast, Left
<1>5. us \in Seq(Units) /\ Len(us) = n /\ \A j \in 1 .. n : us[j] = <<gen, srv.pos + j>>
  <2>1. gen \in Versions
    BY <1>1, FileFacts DEF Files
  <2> HIDE DEF n, gen
  <2>2. \A j \in 1 .. n : srv.pos + j \in Nat \ {0} /\ srv.pos + j <= Size(ver)
    BY <1>4
  <2>3. \A j \in 1 .. n : srv.pos + j \in Offsets \ {0}
    BY <1>4, <2>2 DEF Offsets
  <2>4. \A j \in 1 .. n : <<gen, srv.pos + j>> \in Units
    BY <2>1, <2>3 DEF Units
  <2> QED
    BY <1>4, <2>4
<1> HIDE DEF n, us, gen
<1>6. /\ chunk \in DataMsgs /\ chunk.type = "Data" /\ chunk.units = us
      /\ chunk.comp = srv.comp
  BY <1>1, <1>5 DEF Data, DataMsgs, Types, Servers
<1> HIDE DEF chunk
<1>7. down' = down \o more
  <2>1. \A msg \in DataMsgs \cup CloseMsgs : Append(down, msg) = down \o <<msg>>
    BY <1>3
  <2>2. CloseMsg("Undefined") \in CloseMsgs
    BY DEF CloseMsg, CloseMsgs, Reasons
  <2> QED
    BY <1>0, <1>6, <2>1, <2>2
<1>8. /\ srv' \in Servers /\ srv'.checksum <= ver
      /\ srv'.pc # "none" => /\ n > 0 /\ ~ IsLast(n) /\ srv'.comp = srv.comp
                             /\ srv'.pc = "send" /\ srv'.pos = srv.pos + n
      /\ n = 0 \/ IsLast(n) => srv'.pc = "none"
  <2>1. NoServer \in Servers /\ NoServer.pc = "none" /\ NoServer.checksum <= ver
    BY <1>1, NoServerType
  <2>2. CASE n = 0 \/ IsLast(n)
    BY <1>0, <2>1, <2>2
  <2>3. CASE ~ (n = 0 \/ IsLast(n))
    <3>1. srv' = [srv EXCEPT !.pos = srv.pos + n]
      BY <1>0, <2>3
    <3>2. n > 0 /\ srv.pos + n \in Offsets
      BY <1>4, <2>3 DEF Offsets
    <3> QED
      BY <1>1, <2>3, <3>1, <3>2 DEF Types, Servers
  <2> QED
    BY <2>2, <2>3
<1>9. Types'
  BY <1>1, <1>8 DEF Types, ver
<1>10. DiskOK'
  BY <1>1 DEF DiskOK, WholeIsRight, Whole
<1>11. \A reason \in Reasons : CloseMsg(reason) \in CloseMsgs
                              /\ CloseMsg(reason).type = "Close"
                              /\ CloseMsg(reason).reason = reason
  BY DEF CloseMsg, CloseMsgs
<1>12. /\ more \in Seq(DataMsgs \cup CloseMsgs)
       /\ Len(more) \in 1 .. 2
  <2>1. PICK end, broken, msg \in DataMsgs \cup CloseMsgs :
          /\ broken = CloseMsg("Undefined") /\ end = CloseMsg("TransferComplete")
          /\ msg = chunk
    BY <1>6, <1>11 DEF Reasons
  <2>2. more \in {<<broken>>, <<msg>>, <<msg, end>>}
    BY <2>1
  <2>3. <<broken>> \in Seq(DataMsgs \cup CloseMsgs) /\ Len(<<broken>>) = 1
    OBVIOUS
  <2>4. <<msg>> \in Seq(DataMsgs \cup CloseMsgs) /\ Len(<<msg>>) = 1
    OBVIOUS
  <2>5. <<msg, end>> \in Seq(DataMsgs \cup CloseMsgs) /\ Len(<<msg, end>>) = 2
    OBVIOUS
  <2> HIDE DEF more
  <2>6. 1 \in 1 .. 2 /\ 2 \in 1 .. 2
    OBVIOUS
  <2> QED
    BY <2>2, <2>3, <2>4, <2>5, <2>6, Zenon
<1>13. /\ down' \in Seq(DataMsgs \cup CloseMsgs) /\ Len(down') = Len(down) + Len(more)
       /\ \A i \in 1 .. Len(down) : down'[i] = down[i]
       /\ \A i \in 1 .. Len(more) : down'[Len(down) + i] = more[i]
  <2> HIDE DEF more
  <2> QED
    BY <1>3, <1>7, <1>12
<1>14. /\ up = <<>> /\ srv.comp = cl.comp /\ disk.st = "partial"
       /\ Len(down) \in Nat /\ srv.pos = Reached(Len(down))
       /\ \A i \in 0 .. Len(down) : Reached(i)' = Reached(i)
       /\ \A i \in 1 .. Len(down) : Fits(i)'
  BY <1>1, <1>2, <1>13, StillFits
<1>15. PICK last \in Nat : last = Len(down)
  BY <1>14
<1>16. Reached(last)' = srv.pos
  BY <1>14, <1>15
<1>17. ASSUME n > 0
       PROVE  Fits(last + 1)' /\ Reached(last + 1)' = srv.pos + n
  <2>1. down'[last + 1] = chunk
    BY <1>12, <1>13, <1>15, <1>17
  <2>2. (last + 1) - 1 = last /\ last + 1 # 0
    BY <1>15
  <2>3. Reached((last + 1) - 1)' = srv.pos
    BY <1>16, <2>2
  <2>4. Fits(last + 1)'
    BY <1>1, <1>4, <1>5, <1>6, <1>14, <1>17, <2>1, <2>3 DEF Fits
  <2>5. Reached(last + 1)' = us[n][2]
    BY <1>5, <1>6, <2>1, <2>2 DEF Reached
  <2>6. us[n] = <<gen, srv.pos + n>>
    BY <1>4, <1>5, <1>17
  <2> QED
    BY <2>4, <2>5, <2>6
<1>18. Arriving'
  <2>1. down' \in Seq(DataMsgs \cup CloseMsgs)'
    BY <1>13
  <2>2. CASE n = 0
    <3>1. more[1] = CloseMsg("Undefined") /\ Len(more) = 1
      BY <2>2
    <3>2. /\ Len(down') = last + 1 /\ down'[last + 1] = CloseMsg("Undefined")
          /\ srv'.pc = "none" /\ DOMAIN down' = 1 .. last + 1
      BY <1>8, <1>13, <1>15, <2>2, <3>1
    <3>3. Fits(last + 1)'
      BY <3>2 DEF Fits, CloseMsg
    <3>4. \A i \in 1 .. last + 1 : Fits(i)'
      BY <1>14, <1>15, <3>3
    <3> QED
      BY <2>1, <3>2, <3>4 DEF Arriving
  <2>3. CASE n # 0 /\ IsLast(n)
    <3>1. /\ more[1] = chunk /\ more[2] = CloseMsg("TransferComplete")
          /\ Len(more) = 2
      BY <2>3
    <3>2. /\ Len(down') = last + 2 /\ down'[last + 2] = CloseMsg("TransferComplete")
          /\ srv'.pc = "none" /\ DOMAIN down' = 1 .. last + 2
      BY <1>8, <1>13, <1>15, <2>3, <3>1
    <3>3. Fits(last + 1)' /\ Reached(last + 1)' = Size(ver)
      BY <1>4, <1>17, <2>3
    <3>4. Fits(last + 2)'
      <4>1. (last + 2) - 1 = last + 1
        BY <1>15
      <4>2. Reached((last + 2) - 1)' = Size(ver)'
        BY <1>1, <3>3, <4>1 DEF Size, ver
      <4> QED
        BY <3>2, <4>2 DEF Fits, CloseMsg
    <3>5. \A i \in 1 .. last + 2 : Fits(i)'
      BY <1>14, <1>15, <3>3, <3>4
    <3> QED
      BY <2>1, <3>2, <3>5 DEF Arriving
  <2>4. CASE n # 0 /\ ~ IsLast(n)
    <3>1. more[1] = chunk /\ Len(more) = 1
      BY <2>4
    <3>2. /\ Len(down') = last + 1 /\ DOMAIN down' = 1 .. last + 1
          /\ srv'.pos = srv.pos + n \/ srv'.pc = "none"
      BY <1>8, <1>13, <1>15, <2>4, <3>1
    <3>3. Fits(last + 1)' /\ Reached(last + 1)' = srv.pos + n
      BY <1>4, <1>17, <2>4
    <3>4. \A i \in 1 .. last + 1 : Fits(i)'
      BY <1>14, <1>15, <3>3
    <3>5. Reached(Len(down))' = Reached(last + 1)'
      BY <3>2
    <3> QED
      BY <2>1, <3>2, <3>3, <3>4, <3>5 DEF Arriving
  <2> QED
    BY <2>2, <2>3, <2>4
<1> QED
  BY <1>1, <1>2, <1>8, <1>9, <1>10, <1>14, <1>18 DEF IInv, Phase, Receiving, Resting

LEMMA HearCloseInv ==
    ASSUME IInv, HearClose
    PROVE  IInv'
<1>1. /\ Types /\ DiskOK /\ Phase /\ UNCHANGED <<files, disk, cl, cuts>>
      /\ up # <<>> /\ Head(up).type = "Close"
      /\ srv' = (IF srv.pc = "wait" THEN NoServer ELSE srv)
      /\ down' = down \o <<>> /\ up' = Tail(up)
  BY DEF IInv, HearClose, Arrives, Reply
<1>2. cl.pc = "missed" /\ Missing
  <2>1. ~ Resting /\ cl.pc \notin {"asked", "request", "create"}
    BY <1>1 DEF Phase, Idle, Requesting, Creating, FileReq
  <2>2. cl.pc # "receive"
    BY <1>1 DEF Phase, Receiving, Start
  <2> QED
    BY <1>1, <2>1, <2>2 DEF Types, Clients, Phase, Resting
<1>3. down' = <<>> /\ up' = <<>>
  <2>1. up = <<CloseMsg("Undefined")>> /\ down = <<>>
    BY <1>1, <1>2 DEF Missing
  <2> QED
    BY <1>1, <2>1
<1>4. srv' \in Servers /\ srv'.pc # "send" /\ srv'.checksum <= ver
  <2>1. NoServer \in Servers /\ NoServer.pc = "none" /\ NoServer.checksum <= ver
    BY <1>1, NoServerType
  <2> QED
    BY <1>1, <1>2, <2>1 DEF Types, Missing
<1>5. Types'
  BY <1>1, <1>4 DEF Types, ver
<1>6. DiskOK'
  BY <1>1 DEF DiskOK, WholeIsRight, Whole
<1>7. Missing'
  BY <1>3, <1>4 DEF Missing
<1> QED
  BY <1>1, <1>2, <1>5, <1>6, <1>7 DEF IInv, Phase, Resting

\* Another version changes neither those before it nor what is on its way.
LEMMA OverwriteInv ==
    ASSUME IInv, Overwrite
    PROVE  IInv'
<1>1. Types /\ DiskOK /\ Phase /\ UNCHANGED <<disk, cl, srv, up, down, cuts>>
  BY DEF IInv, Overwrite
<1>2. PICK f : f \in Files /\ files' = Append(files, f)
  <2>1. PICK gen \in {files[ver].gen, ver + 1}, m \in FileSizes :
          files' = Append(files, File(gen, m))
    BY DEF Overwrite
  <2>2. files[ver].gen \in Versions /\ ver + 1 \in Versions
    BY <1>1, FileFacts, ConstantTypes DEF Files, Overwrite, Versions
  <2> QED
    BY <2>1, <2>2 DEF Files, File
<1>3. /\ files' \in Seq(Files) /\ Len(files') = Len(files) + 1 /\ Len(files) \in Nat
      /\ \A v \in 1 .. Len(files) : files'[v] = files[v]
  BY <1>1, <1>2 DEF Types
<1>4. ver' = ver + 1 /\ ver = Len(files) /\ ver' \in Versions
  BY <1>1, <1>3, ConstantTypes DEF ver, Overwrite, Versions, Types
<1>5. disk.checksum \in Nat /\ srv.checksum \in Nat /\ disk.checksum <= ver /\ srv.checksum <= ver
  BY <1>1 DEF Types, Disks, Servers, Checksums, Versions, NoChecksum
<1>6. Types'
  <2>1. disk'.checksum <= ver' /\ srv'.checksum <= ver'
    BY <1>1, <1>3, <1>4, <1>5
  <2> QED
    BY <1>1, <1>3, <1>4, <2>1 DEF Types
<1>7. DiskOK'
  <2>1. disk.st = "whole" => Whole(disk.checksum)' = Whole(disk.checksum)
    <3>1. ASSUME disk.st = "whole"
          PROVE  files'[disk.checksum] = files[disk.checksum]
      <4>1. disk.checksum \in 1 .. Len(files)
        BY <1>1, <1>4, <1>5, <3>1 DEF DiskOK, NoChecksum
      <4> QED
        BY <1>3, <4>1
    <3> QED
      BY <1>1, <3>1 DEF Whole
  <2> QED
    BY <1>1, <2>1 DEF DiskOK, WholeIsRight
<1>8. Arriving => Arriving'
  <2>1. disk.checksum # ver'
    BY <1>3, <1>4, <1>5
  <2>2. \A i : Reached(i)' = Reached(i)
    BY <1>1 DEF Reached
  <2>3. \A i : Fits(i) => Fits(i)'
    BY <1>1, <2>1, <2>2 DEF Fits
  <2>4. (\A i \in DOMAIN down : Fits(i)) => (\A i \in DOMAIN down : Fits(i))'
    BY <1>1, <2>3
  <2> QED
    BY <1>1, <2>2, <2>4 DEF Arriving
<1>9. Phase'
  BY <1>1, <1>8 DEF Phase, Idle, Requesting, Missing, Creating, Receiving, Resting
<1> QED
  BY <1>6, <1>7, <1>9 DEF IInv

-----------------------------------------------------------------------------
LEMMA StepInv == IInv /\ [Next]_vars => IInv'
<1> SUFFICES ASSUME IInv, [Next]_vars
             PROVE  IInv'
  OBVIOUS
<1>1. CASE Begin
  BY <1>1, DownloadFileInv DEF Begin, AskFor
<1>2. CASE Client
  <2>1. CASE RefuseFileResp
    BY <2>1, CutShort DEF RefuseFileResp, Refuse, IInv, Types
  <2> QED
    BY <1>2, <2>1, RegisterInv, CreateFileInv, WriteHeaderInv, ResumeFileInv, WriteDataInv,
       RecvCloseInv DEF Client
<1>3. CASE Server
  BY <1>3, OpenFileInv, StartSendingInv, SendChunkInv, HearCloseInv DEF Server
<1>4. CASE Overwrite
  BY <1>4, OverwriteInv
<1>5. CASE LoseConnection \/ Crash
  <2>1. Ends("idle") /\ UNCHANGED <<files, disk>> /\ cuts < MaxCuts /\ cuts' = cuts + 1
    BY <1>5 DEF LoseConnection, Crash, EndedBy, EndOfAttempt
  <2>2. cuts' \in 0 .. MaxCuts
    BY <2>1, ConstantTypes DEF IInv, Types
  <2> QED
    BY <2>1, <2>2, CutShort
<1>6. CASE UNCHANGED vars
  <2>1. UNCHANGED <<files, disk, cl, srv, up, down, cuts>>
    BY <1>6 DEF vars
  <2>2. Types' /\ DiskOK'
    BY <2>1 DEF IInv, Types, ver, DiskOK, WholeIsRight, Whole
  <2>3. Arriving <=> Arriving'
    BY <2>1 DEF Arriving, Fits, Reached, Size, ver
  <2>4. Phase'
    BY <2>1, <2>3 DEF IInv, Phase, Idle, Requesting, Missing, Creating, Receiving, Resting
  <2> QED
    BY <2>2, <2>4 DEF IInv
<1>7. CASE DropAnswer
  BY <1>7, DropAnswerInv
<1>8. CASE TimeOut
  <2>1. Ends("idle") /\ UNCHANGED <<files, disk, cuts>> /\ cuts \in 0 .. MaxCuts
    BY <1>8 DEF TimeOut, EndOfAttempt, IInv, Types
  <2> QED
    BY <2>1, CutShort
<1> QED
  BY <1>1, <1>2, <1>3, <1>4, <1>5, <1>6, <1>7, <1>8 DEF Next

LEMMA AlwaysInv == Spec => []IInv
  BY InitInv, StepInv, PTL DEF Spec

\* Data is on its way, and the server sends, only to a client that receives.
LEMMA DataIsReceived ==
    ASSUME IInv, cl.pc # "receive"
    PROVE  srv.pc # "send" /\ \A i \in DOMAIN down : down[i].type # "Data"
  BY DEF IInv, Types, Clients, Phase, Idle, Requesting, Missing, Creating, NoServer, FileResp,
         CloseMsg, Resting

\* The answer that the client waits for offers what it has, or what was asked for.
LEMMA AnswerFits == IInv => OfferFits
<1> SUFFICES ASSUME IInv, cl.pc = "request", Receives("FileResp")
             PROVE  /\ disk.st = "partial" => Head(down).checksum = disk.checksum
                    /\ disk.st = "none" => cl.asked \in {NoChecksum, Head(down).checksum}
  BY DEF OfferFits
<1>1. Requesting /\ down # <<>> /\ Head(down).type = "FileResp"
  BY DEF IInv, Phase, Receives
<1>2. /\ down = <<FileResp(srv.checksum, srv.comp)>> /\ cl.resume = (disk.st = "partial")
      /\ IF cl.resume THEN srv.checksum = disk.checksum
                      ELSE cl.asked \in {NoChecksum, srv.checksum}
  BY <1>1 DEF Requesting, CloseMsg
<1>3. Head(down).checksum = srv.checksum
  BY <1>2 DEF FileResp
<1>4. CASE disk.st = "partial"
  BY <1>2, <1>3, <1>4
<1>5. CASE disk.st # "partial"
  BY <1>2, <1>3, <1>5
<1> QED
  BY <1>4, <1>5

LEMMA InvImplies == IInv => TypeOK /\ WholeIsRight /\ OffsetsAgree /\ CodingAgrees
<1>1. IInv => TypeOK /\ WholeIsRight
  <2>1. ASSUME IInv
        PROVE  TypeOK /\ WholeIsRight
    <3>1. Len(disk.units) \in Offsets
      BY <2>1, DiskFits DEF IInv
    <3>2. disk.checksum \in 0 .. ver /\ srv.checksum \in 0 .. ver
      BY <2>1, FileFacts DEF IInv, Types, Disks, Servers, Checksums, Versions, NoChecksum
    <3> QED
      BY <2>1, <3>1, <3>2 DEF IInv, Types, DiskOK, TypeOK, Files, Disks, Clients, Servers
  <2> QED
    BY <2>1
<1> SUFFICES ASSUME IInv
             PROVE  OffsetsAgree /\ CodingAgrees
  BY <1>1
<1>2. CASE cl.pc = "receive"
  <2>1. Receiving
    BY <1>2 DEF IInv, Phase, Resting
  <2>2. CASE down = <<>> /\ srv.pc = "wait"
    <3>1. DOMAIN down = {} /\ srv.pc # "send"
      BY <2>2
    <3> QED
      BY <3>1 DEF IInv, DiskOK, OffsetsAgree, CodingAgrees
  <2>3. CASE Arriving
    <3>1. ASSUME NEW i \in DOMAIN down, down[i].type = "Data"
          PROVE  down[i].units[1][2] = Reached(i - 1) + 1 /\ down[i].comp = cl.comp
      <4>1. Fits(i) /\ down[i] \in DataMsgs
        BY <2>3, <3>1 DEF Arriving, CloseMsgs
      <4>2. 1 \in DOMAIN down[i].units
        BY <3>1, <4>1 DEF Fits, DataMsgs
      <4>3. /\ down[i].comp = cl.comp
            /\ \A j \in DOMAIN down[i].units : down[i].units[j][2] = Reached(i - 1) + j
        BY <3>1, <4>1 DEF Fits
      <4> QED
        BY <4>2, <4>3
    <3>2. /\ srv.pc = "send" => srv.pos = Reached(Len(down))
          /\ \A i \in DOMAIN disk.units : disk.units[i][2] = i
      BY <2>3 DEF IInv, DiskOK, Arriving
    <3> QED
      BY <3>1, <3>2 DEF OffsetsAgree, CodingAgrees
  <2> QED
    BY <2>1, <2>2, <2>3 DEF Receiving
<1>3. CASE cl.pc # "receive"
  BY <1>3, DataIsReceived DEF IInv, DiskOK, OffsetsAgree, CodingAgrees
<1> QED
  BY <1>2, <1>3

-----------------------------------------------------------------------------
(* What is on disk is thrown away only when it is wrong. *)

LEMMA SubSeqAll ==
    ASSUME NEW S, NEW s \in Seq(S)
    PROVE  SubSeq(s, 1, Len(s)) = s
  OBVIOUS

LEMMA ConcatPrefix ==
    ASSUME NEW S, NEW s \in Seq(S), NEW t \in Seq(S)
    PROVE  IsPrefix(s, s \o t)
<1>1. Len(s) <= Len(s \o t)
  OBVIOUS
<1>2. SubSeq(s \o t, 1, Len(s)) = s
  OBVIOUS
<1> QED
  BY <1>1, <1>2, SubSeqAll, Zenon DEF IsPrefix

\* Data only adds to the client's file (WriteAt at its end).
LEMMA WriteDataKeeps ==
    ASSUME IInv, WriteData
    PROVE  IsPrefix(disk.units, disk'.units)
<1>1. /\ disk \in Disks /\ cl.pc = "receive" /\ down # <<>> /\ Head(down).type = "Data"
  BY DEF IInv, Types, WriteData, Receives
<1>2. /\ disk.units \in Seq(Units) /\ Head(down).units \in Seq(Units)
      /\ Head(down).comp = cl.comp
  BY <1>1, NextData DEF Disks, DataMsgs
<1>3. disk'.units = disk.units \o Head(down).units
  <2>1. disk' = [disk EXCEPT !.units = disk.units \o Head(down).units]
    BY <1>2 DEF WriteData, IInv, Types, Clients
  <2> QED
    BY <1>1, <2>1 DEF Disks
<1> QED
  BY <1>2, <1>3, ConcatPrefix

\* A file whose download is over is removed only when it is not a beginning of the
\* right one: then it is the whole of it.
LEMMA RecvCloseKeeps ==
    ASSUME IInv, RecvClose, disk.st = "partial", disk.checksum = ver,
           IsPrefix(disk.units, Whole(ver))
    PROVE  disk'.units = disk.units
<1>1. disk \in Disks /\ Types /\ DiskOK /\ down # <<>> /\ Head(down).type = "Close"
  BY DEF IInv, Types, RecvClose, Receives
<1>2. CASE Head(down).reason # "TransferComplete" \/ cl.pc = "request"
  BY <1>2 DEF RecvClose
<1>3. CASE Head(down).reason = "TransferComplete" /\ cl.pc = "receive"
  <2>1. Fits(1) /\ Head(down) = down[1] /\ Reached(0) = Len(disk.units)
    BY <1>1, <1>3, NextData
  <2>2. Len(disk.units) = Size(ver)
    <3>1. Reached(1 - 1) = Size(ver)
      BY <1>1, <1>3, <2>1 DEF Fits
    <3> QED
      BY <2>1, <3>1
  <2>3. disk.units \in Seq(Units) /\ Size(ver) \in Nat
    BY <1>1, FileFacts DEF Types, Disks
  <2>4. PICK n \in Nat : n = Size(ver)
    BY <2>3
  <2>5. PICK w : w = Whole(ver)
    OBVIOUS
  <2>7. w \in Seq({files[ver].gen} \X (1 .. n)) /\ Len(w) = n
    BY <2>4, <2>5 DEF Whole, Content, Size
  <2>8. disk.units = w
    <3>1. SubSeq(disk.units, 1, n) = SubSeq(w, 1, n)
      BY <2>2, <2>4, <2>5, <2>7 DEF IsPrefix
    <3>2. SubSeq(disk.units, 1, n) = disk.units
      BY <2>2, <2>3, <2>4
    <3>3. SubSeq(w, 1, n) = w
      BY <2>7
    <3> QED
      BY <3>1, <3>2, <3>3
  <2>6. disk' = StripChecksum
    BY <1>3, <2>5, <2>8 DEF RecvClose, CheckChecksum
  <2> QED
    BY <1>1, <2>6 DEF StripChecksum, Disks
<1> QED
  BY <1>2, <1>3 DEF RecvClose

LEMMA StepKeeps ==
    ASSUME IInv, Next, disk.st = "partial", disk.checksum = ver,
           IsPrefix(disk.units, Whole(ver))
    PROVE  IsPrefix(disk.units, disk'.units)
<1>1. disk.units \in Seq(Units) /\ disk \in Disks
  BY DEF IInv, Types, Disks
<1>2. IsPrefix(disk.units, disk.units)
  BY <1>1 DEF IsPrefix
<1>3. CASE Client
  <2>1. CASE WriteHeader
    <3>1. FALSE
      BY <2>1 DEF WriteHeader, IInv, Phase, Creating
    <3> QED
      BY <3>1
  <2>2. CASE CreateFile
    BY <2>2 DEF CreateFile
  <2>3. CASE Register \/ RefuseFileResp \/ ResumeFile
    BY <1>2, <2>3 DEF Register, RefuseFileResp, ResumeFile
  <2> QED
    BY <1>2, <1>3, <2>1, <2>2, <2>3, WriteDataKeeps, RecvCloseKeeps DEF Client
<1>4. CASE ~ Client
  BY <1>2, <1>4 DEF Next, Begin, AskFor, DownloadFile, DropAnswer, TimeOut, Server, OpenFile,
                    StartSending, SendChunk, HearClose, Overwrite, LoseConnection, Crash, EndedBy
<1> QED
  BY <1>3, <1>4

-----------------------------------------------------------------------------
\* Every variable keeps its type: among them, no offset that the client asks for and
\* no place from which the server reads lies behind the end of the longest file.
THEOREM TypeCorrect == Spec => []TypeOK
  BY AlwaysInv, InvImplies, PTL

\* A file that has lost its header (StripChecksum) is the whole of the version that
\* was advertised for it, for every number of attempts, cuts and overwrites.
THEOREM WholeCorrect == Spec => []WholeIsRight
  BY AlwaysInv, InvImplies, PTL

\* No unit is skipped or sent twice: each Data message starts where the file and the
\* Data before it end (SeekOffset, WriteAt), and the server reads on behind the last.
THEOREM OffsetsCorrect == Spec => []OffsetsAgree
  BY AlwaysInv, InvImplies, PTL

\* A resumed file is offered the version it began with, and a new one the version that
\* was asked for: only a user who asks for two of them meets the client's refusal.
THEOREM OfferCorrect == Spec => []OfferFits
  BY AlwaysInv, AnswerFits, PTL

\* The client decompresses exactly what the server compresses.
THEOREM CodingCorrect == Spec => []CodingAgrees
  BY AlwaysInv, InvImplies, PTL

\* A beginning of the version that the server still has is never thrown away
\* (handleClientStream, Remove).
THEOREM ProgressCorrect == Spec => ProgressKept
<1>1. IInv /\ [Next]_vars =>
          [disk.st = "partial" /\ disk.checksum = ver /\ IsPrefix(disk.units, Whole(ver))
             => IsPrefix(disk.units, disk'.units)]_vars
  BY StepKeeps
<1> QED
  BY <1>1, AlwaysInv, StepInv, PTL DEF ProgressKept, Spec
=============================================================================
