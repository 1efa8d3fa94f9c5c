------------------------- MODULE AggregatorHistory -------------------------
(***************************************************************************)
(* The aggregator with a record of what it was offered and what it handed   *)
(* on.  The packets of each direction are numbered 1, 2, 3, ... as the      *)
(* callers put them, so that order and loss can be stated.                  *)
(***************************************************************************)
EXTENDS Aggregator

VARIABLES
    offered,  \* packets put so far in each direction
    handed    \* packets a get has taken out in each direction

historyVars == <<offered, handed>>
vars == <<fifo, entry_count, heap_free, pc, out, irq_masked, offered, handed>>

HInit ==
    /\ Init
    /\ offered = [d \in Direction |-> 0]
    /\ handed = [d \in Direction |-> {}]

HPut(d) ==
    /\ (offered[d] + 1) \in Packet
    /\ offered' = [offered EXCEPT ![d] = @ + 1]
    /\ IF d = "uplink" THEN uplink_aggregator_put(offered[d] + 1)
                       ELSE downlink_aggregator_put(offered[d] + 1)
    /\ UNCHANGED handed

HGet(d) ==
    /\ IF d = "uplink" THEN uplink_aggregator_get ELSE DownlinkDequeue
    /\ handed' = [handed EXCEPT ![d] = @ \cup {Head(fifo[d])}]
    /\ UNCHANGED offered

HOther(d) ==
    /\ \/ StartWork(d)
       \/ d = "downlink" /\ DownlinkRelease
       \/ PacketDone(d)
       \/ WorkEnds(d)
    /\ UNCHANGED historyVars

HNext == \E d \in Direction : HPut(d) \/ HGet(d) \/ HOther(d)

HSpec == HInit /\ [][HNext]_vars
-----------------------------------------------------------------------------
\* What waits in a FIFO is in the order it was put, comes after everything
\* handed on, and nothing in it was not put.
InOrder ==
    \A d \in Direction :
        /\ \A i \in 1..Len(fifo[d]) :
            /\ fifo[d][i] \in 1..offered[d]
            /\ \A n \in handed[d] : n < fifo[d][i]
            /\ \A j \in 1..(i - 1) : fifo[d][j] < fifo[d][i]
        /\ \A n \in handed[d] : n \in 1..offered[d]

\* "The most recent X datapoints can be transferred": with room in the heap, a
\* packet is lost only to FIFO_MAX_ELEMENT_COUNT - 1 packets put after it (one
\* less than the limit, for the entry a downlink get has not counted out yet).
MostRecentKept ==
    HeapBlocks >= 2 * FIFO_MAX_ELEMENT_COUNT =>
        \A d \in Direction : \A n \in 1..offered[d] :
            \/ n \in handed[d]
            \/ \E i \in 1..Len(fifo[d]) : fifo[d][i] = n
            \/ n + FIFO_MAX_ELEMENT_COUNT - 1 <= offered[d]

\* With room in the heap the FIFO holds consecutive packets up to the last one
\* put: a packet is never lost from the middle or the end.
FifoIsSuffix ==
    HeapBlocks >= 2 * FIFO_MAX_ELEMENT_COUNT =>
        \A d \in Direction : \A i \in 1..Len(fifo[d]) :
            fifo[d][i] = offered[d] - Len(fifo[d]) + i

\* The three together: of what is put, only the oldest is lost, and the rest
\* stays in order.
OnlyOldestLost == InOrder /\ MostRecentKept /\ FifoIsSuffix

LastHanded(d) ==
    IF handed[d] = {} THEN 0
    ELSE CHOOSE n \in handed[d] : \A m \in handed[d] : m <= n

Waiting(d) == {fifo[d][i] : i \in 1..Len(fifo[d])}

UplinkChannel == INSTANCE OrderedLossyChannel
    WITH sent <- offered["uplink"], pending <- Waiting("uplink"),
         latest <- LastHanded("uplink")

DownlinkChannel == INSTANCE OrderedLossyChannel
    WITH sent <- offered["downlink"], pending <- Waiting("downlink"),
         latest <- LastHanded("downlink")

\* The uplink FIFO is an ordered lossy channel from the BLE callbacks to the
\* publishing work item.
UplinkIsChannel == UplinkChannel!Spec

\* The downlink FIFO is an ordered lossy channel from the MQTT handler and the
\* BLE callbacks to the transmitting work item.
DownlinkIsChannel == DownlinkChannel!Spec
=============================================================================
