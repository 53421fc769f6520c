------------------------- MODULE CongestionControl -------------------------
(***************************************************************************)
(* The arithmetic of btp/congestioncontrol, shared by the modules that     *)
(* send packets: what the elastic algorithm, the default, does to the      *)
(* congestion window (cwnd) and to the number of messages it counts as on  *)
(* the wire (pipe).                                                        *)
(***************************************************************************)
EXTENDS Integers

\* Operators named Bad... hold a plausible mistake and are used by no module.

\* Wrong: off by one, a full window still lets a message out.
BadNumFreeSend(cwnd, pipe) == cwnd - pipe + 1

\* How many messages the elastic algorithm lets the caller send now.
NumFreeSend(cwnd, pipe) == cwnd - pipe

\* Wrong: truncates instead of rounding, so that a window of one becomes zero.
BadDecreased(cwnd) == (7 * cwnd) \div 10

\* int(math.Round(cwnd * 0.7)): half a message rounds up.  The float product
\* agrees with this for every window up to 44; the default maximum is 25.
Decreased(cwnd) == (7 * cwnd + 5) \div 10

\* The pipe never goes below zero, whatever is acknowledged.
AfterAcks(pipe, n) == IF pipe - n < 0 THEN 0 ELSE pipe - n
=============================================================================
