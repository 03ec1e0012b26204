-------------------------- MODULE OrderedDelivery --------------------------
(***************************************************************************)
(* What both directions of a session promise: the items accepted at one    *)
(* end come out at the other whole, once and in order; and all of them do. *)
(* Incoming, the items are the packets a client sends and the server       *)
(* handles, however TCP cuts the stream.  Outgoing, they are the messages  *)
(* given to PostSend and handed to WSASend.                                *)
(***************************************************************************)
EXTENDS Naturals, Sequences

CONSTANTS
    Items,
    MaxItems    \* bound: items accepted

VARIABLES accepted, delivered

vars == <<accepted, delivered>>

Init == accepted = <<>> /\ delivered = <<>>

Accept(item) ==
    /\ Len(accepted) < MaxItems
    /\ accepted' = Append(accepted, item)
    /\ UNCHANGED delivered

Deliver ==
    /\ Len(delivered) < Len(accepted)
    /\ delivered' = Append(delivered, accepted[Len(delivered) + 1])
    /\ UNCHANGED accepted

Next == Deliver \/ \E item \in Items : Accept(item)

Spec == Init /\ [][Next]_vars
Fairness == WF_vars(Deliver)
FairSpec == Spec /\ Fairness
=============================================================================
