--------------------------- MODULE ChunkDelivery ---------------------------
(***************************************************************************)
(* What the gateway promises the two ends of an update: to the sender, that  *)
(* it takes the chunks one after the other and, when it asks for one, asks   *)
(* for the first it has not taken; to the device, that chunks come in order, *)
(* each at most once, none before its update was announced and none that was *)
(* not taken.  Chunks may be lost between the two, and a restart forgets the *)
(* update.                                                                 *)
(***************************************************************************)
EXTENDS Integers, Sequences

CONSTANTS Device, NotReady, NoNack

VARIABLES
    open,      \* the update of the device has been announced
    accepted,  \* number of its chunks taken, from chunk 0 on
    got,       \* the chunks the device got, as they came
    nack       \* what was last asked of the sender

deliveryVars == <<open, accepted, got, nack>>

Fresh ==
    /\ open = [d \in Device |-> FALSE]
    /\ accepted = [d \in Device |-> 0]
    /\ got = [d \in Device |-> <<>>]

Init == Fresh /\ nack = [d \in Device |-> NoNack]

Announce(d) ==
    /\ ~open[d]
    /\ open' = [open EXCEPT ![d] = TRUE]
    /\ UNCHANGED <<accepted, got, nack>>

Accept(d) ==
    /\ open[d]
    /\ accepted' = [accepted EXCEPT ![d] = @ + 1]
    /\ UNCHANGED <<open, got, nack>>

Ask(d) ==
    /\ nack' = [nack EXCEPT ![d] = IF open[d] THEN accepted[d] ELSE NotReady]
    /\ UNCHANGED <<open, accepted, got>>

\* Chunk k, later than all the device has; those in between are lost to it.
Deliver(d, k) ==
    /\ k < accepted[d]
    /\ \A i \in DOMAIN got[d] : got[d][i] < k
    /\ got' = [got EXCEPT ![d] = Append(@, k)]
    /\ UNCHANGED <<open, accepted, nack>>

Restart == Fresh' /\ UNCHANGED nack

Next ==
    \/ \E d \in Device :
        \/ Announce(d) \/ Accept(d) \/ Ask(d)
        \/ \E k \in 0..(accepted[d] - 1) : Deliver(d, k)
    \/ Restart

Spec == Init /\ [][Next]_deliveryVars
=============================================================================
