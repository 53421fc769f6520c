----------------------------- MODULE MsgStream -----------------------------
(***************************************************************************)
(* What a BTP connection promises one direction of an application stream:  *)
(* the messages handed to Conn.Write are returned by the reader at the     *)
(* other end in the order they were written, each once, none invented.     *)
(* Message i is the i-th packet payload the writer handed over; how bytes  *)
(* are cut into payloads is left out.  A connection may break down, so the *)
(* promise says nothing about how far delivery gets.                       *)
(***************************************************************************)
EXTENDS Naturals, Sequences

CONSTANT NumMsgs      \* how many messages the application writes

VARIABLES written,    \* number of messages written so far
          delivered   \* the messages returned to the reader, oldest first

vars == <<written, delivered>>

Init == written = 0 /\ delivered = <<>>

Write == /\ written < NumMsgs
         /\ written' = written + 1
         /\ UNCHANGED delivered

Deliver == /\ Len(delivered) < written
           /\ delivered' = Append(delivered, Len(delivered) + 1)
           /\ UNCHANGED written

Next == Write \/ Deliver

Spec == Init /\ [][Next]_vars
=============================================================================
