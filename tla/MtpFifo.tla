------------------------------- MODULE MtpFifo -------------------------------
(****************************************************************************)
(* What one direction of a reliable MTP channel promises its user: the      *)
(* packets handed to Connection::Send are received exactly once and in the  *)
(* order they were handed over, and none is held back for ever.             *)
(*                                                                          *)
(* A packet is named by its position in the stream: the k-th packet handed  *)
(* over is k - 1.                                                           *)
(****************************************************************************)
EXTENDS Naturals, Sequences

CONSTANTS
    MaxChunks,    \* the most packets one Send is cut into
    MaxSubmitted  \* bound: how many packets are handed over altogether

VARIABLES
    submitted,    \* how many packets were handed over
    delivered     \* the packets the other side received, in order

vars == <<submitted, delivered>>

Init == submitted = 0 /\ delivered = <<>>

Submit(n) ==
    /\ submitted + n =< MaxSubmitted
    /\ submitted' = submitted + n
    /\ UNCHANGED delivered

Deliver ==
    /\ Len(delivered) < submitted
    /\ delivered' = Append(delivered, Len(delivered))
    /\ UNCHANGED submitted

Next == (\E n \in 1..MaxChunks : Submit(n)) \/ Deliver

Spec == Init /\ [][Next]_vars

FairSpec == Spec /\ WF_vars(Deliver)
=============================================================================
