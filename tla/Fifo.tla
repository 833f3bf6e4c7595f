-------------------------------- MODULE Fifo --------------------------------
(***************************************************************************)
(* What a command link promises at best: every value sent is delivered      *)
(* once, in the order of sending.                                           *)
(***************************************************************************)
EXTENDS Naturals, Sequences

CONSTANTS Values, MaxSends

VARIABLES
    sent,        \* the values sent so far, in order
    pending,     \* those not yet delivered
    delivered    \* those delivered, in order

vars == <<sent, pending, delivered>>

Init ==
    /\ sent = <<>>
    /\ pending = <<>>
    /\ delivered = <<>>

Send(v) ==
    /\ Len(sent) < MaxSends
    /\ sent' = Append(sent, v)
    /\ pending' = Append(pending, v)
    /\ UNCHANGED delivered

Deliver ==
    /\ pending # <<>>
    /\ pending' = Tail(pending)
    /\ delivered' = Append(delivered, Head(pending))
    /\ UNCHANGED sent

Next == (\E v \in Values : Send(v)) \/ Deliver

Spec     == Init /\ [][Next]_vars
FairSpec == Spec /\ WF_vars(Deliver)
=============================================================================
