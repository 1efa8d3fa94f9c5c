------------------------ MODULE OrderedLossyChannel ------------------------
(***************************************************************************)
(* What one direction of the aggregator promises to whoever puts packets    *)
(* into it: packets, numbered as they are offered, come out in the order    *)
(* they were offered, each at most once and none that was not offered.      *)
(* Packets may be lost.                                                     *)
(***************************************************************************)
EXTENDS Naturals

VARIABLES
    sent,     \* number of packets offered so far
    pending,  \* those that may still come out
    latest    \* number of the last one that came out, 0 before the first

channelVars == <<sent, pending, latest>>

Init ==
    /\ sent = 0
    /\ pending = {}
    /\ latest = 0

\* A packet is offered; it, or others that wait, may be lost.
Offer ==
    /\ sent' = sent + 1
    /\ pending' \in SUBSET (pending \cup {sent + 1})
    /\ UNCHANGED latest

\* A packet comes out; earlier ones never will.
Deliver ==
    /\ latest' \in pending
    /\ pending' = {n \in pending : n > latest'}
    /\ UNCHANGED sent

Next == Offer \/ Deliver

Spec == Init /\ [][Next]_channelVars
=============================================================================
