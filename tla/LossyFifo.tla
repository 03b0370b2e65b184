------------------------------ MODULE LossyFifo ------------------------------
(***************************************************************************)
(* What the capture side of a JackThread promises to its DetectorThread:   *)
(* the stream of captured buffers, in capture order, each at most once.    *)
(* Buffers may be lost only when a backlog of at least Limit of them has   *)
(* built up, and then the whole backlog is lost at once.                   *)
(* Buffers are numbered in the order JACK captured them.                   *)
(***************************************************************************)
EXTENDS Naturals, Sequences

CONSTANT Limit

VARIABLES
    accepted,   \* how many buffers have been captured
    pending,    \* captured buffers that are not yet delivered
    delivered   \* the buffers handed to the detector, oldest first

vars == <<accepted, pending, delivered>>

Init ==
    /\ accepted = 0
    /\ pending = <<>>
    /\ delivered = <<>>

Accept ==
    /\ accepted' = accepted + 1
    /\ pending' = Append(pending, accepted + 1)
    /\ UNCHANGED delivered

Deliver ==
    /\ pending # <<>>
    /\ delivered' = Append(delivered, Head(pending))
    /\ pending' = Tail(pending)
    /\ UNCHANGED accepted

LoseBacklog ==
    /\ Len(pending) >= Limit
    /\ pending' = <<>>
    /\ UNCHANGED <<accepted, delivered>>

Next == Accept \/ Deliver \/ LoseBacklog

Spec == Init /\ [][Next]_vars
=============================================================================
