----------------------------- MODULE MetaCalls -----------------------------
(***************************************************************************)
(* What ListFileMetaData promises its callers: every call that returns     *)
(* without an error returns the whole listing of one request that was      *)
(* pending, and each request is answered once.  A call made while no other *)
(* is pending can therefore only return its own listing; calls that        *)
(* overlap may have theirs exchanged.                                      *)
(*                                                                         *)
(* A request stands for the number of items of its listing: none for a     *)
(* file that does not exist, one for a file, any number for the directory. *)
(***************************************************************************)
EXTENDS Naturals, Sequences

CONSTANTS
    Callers,  \* goroutines that call ListFileMetaData
    Requests  \* the requests they make, each the length of its listing

VARIABLES
    waiting,  \* callers whose call is pending
    pending,  \* request -> number of calls for it that are not answered
    answer    \* caller -> the items its last call returned

vars == <<waiting, pending, answer>>

\* The items of a listing.
Listing(r) == [i \in 1 .. r |-> <<r, i>>]

Init == /\ waiting = {}
        /\ pending = [r \in Requests |-> 0]
        /\ answer = [c \in Callers |-> <<>>]

Ask(c, r) == /\ c \notin waiting
             /\ waiting' = waiting \cup {c}
             /\ pending' = [pending EXCEPT ![r] = @ + 1]
             /\ answer' = [answer EXCEPT ![c] = <<>>]

Answer(c, r) == /\ c \in waiting
                /\ pending[r] > 0
                /\ waiting' = waiting \ {c}
                /\ pending' = [pending EXCEPT ![r] = @ - 1]
                /\ answer' = [answer EXCEPT ![c] = Listing(r)]

\* The connection is closed before the request could be sent.
Refuse(c, r) == /\ c \in waiting
                /\ pending[r] > 0
                /\ waiting' = waiting \ {c}
                /\ pending' = [pending EXCEPT ![r] = @ - 1]
                /\ UNCHANGED answer

Next == \E c \in Callers, r \in Requests : Ask(c, r) \/ Answer(c, r) \/ Refuse(c, r)

Spec == Init /\ [][Next]_vars
=============================================================================
