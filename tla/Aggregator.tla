----------------------------- MODULE Aggregator -----------------------------
(***************************************************************************)
(* The packet aggregator of the nRF9160 gateway, aggregator.c: one FIFO of  *)
(* at most FIFO_MAX_ELEMENT_COUNT packets in each direction, and the two    *)
(* periodic work items that drain them, publish_aggregated_data towards     *)
(* MQTT and transmit_aggregated_data towards the BLE devices.               *)
(*                                                                         *)
(* A put runs inside irq_lock and is one step.  uplink_aggregator_get too.  *)
(* downlink_aggregator_get takes the entry off the FIFO before it takes the *)
(* lock, so it is two steps and entry_count trails the FIFO in between.     *)
(* Both work items run on the system work queue, a single thread, and give  *)
(* the processor up while a packet is being sent.                           *)
(***************************************************************************)
EXTENDS Integers, Sequences

CONSTANTS
    Packet,                  \* what the callers put
    NoPacket,                \* out_data holds nothing yet
    FIFO_MAX_ELEMENT_COUNT,  \* 12 in aggregator.h
    HeapBlocks               \* entries the kernel heap has room for

Direction == {"uplink", "downlink"}

ASSUME AggregatorAssumption ==
    /\ NoPacket \notin Packet
    /\ FIFO_MAX_ELEMENT_COUNT \in Nat /\ FIFO_MAX_ELEMENT_COUNT >= 2
    /\ HeapBlocks \in Nat

VARIABLES
    fifo,         \* uplink_aggregator_fifo and downlink_aggregator_fifo
    entry_count,  \* uplink_entry_count and downlink_entry_count
    heap_free,    \* entries k_malloc can still hand out
    pc,           \* where the work item that drains each FIFO is
    out,          \* the packet that work item has in hand
    irq_masked    \* the work queue thread runs with interrupts masked

queueVars == <<fifo, entry_count, heap_free>>
workVars == <<pc, out, irq_masked>>
aggregatorVars == <<fifo, entry_count, heap_free, pc, out, irq_masked>>

Init ==
    /\ fifo = [d \in Direction |-> <<>>]
    /\ entry_count = [d \in Direction |-> 0]
    /\ heap_free = HeapBlocks
    /\ pc = [d \in Direction |-> "waiting"]
    /\ out = [d \in Direction |-> NoPacket]
    /\ irq_masked = FALSE
-----------------------------------------------------------------------------
\* Variants with a mistake in them; no action of the system uses them.
PutWhenFullDropsNewest(d, p) ==
    /\ entry_count[d] = FIFO_MAX_ELEMENT_COUNT
    /\ UNCHANGED queueVars

PutWhenFullForgetsDecrement(d, p) ==
    /\ entry_count[d] = FIFO_MAX_ELEMENT_COUNT
    /\ fifo[d] # <<>>
    /\ fifo' = [fifo EXCEPT ![d] = Append(Tail(@), p)]
    /\ entry_count' = [entry_count EXCEPT ![d] = @ + 1]
    /\ UNCHANGED heap_free

PutInNewEntryAtFront(d, p) ==
    /\ entry_count[d] # FIFO_MAX_ELEMENT_COUNT
    /\ heap_free > 0
    /\ fifo' = [fifo EXCEPT ![d] = <<p>> \o @]
    /\ entry_count' = [entry_count EXCEPT ![d] = @ + 1]
    /\ heap_free' = heap_free - 1

StartWorkOnTwoThreads(d) ==
    /\ pc[d] = "waiting"
    /\ pc' = [pc EXCEPT ![d] = "polling"]
    /\ UNCHANGED <<fifo, entry_count, heap_free, out, irq_masked>>

UplinkGetWithoutFree ==
    /\ pc["uplink"] = "polling"
    /\ fifo["uplink"] # <<>>
    /\ out' = [out EXCEPT !["uplink"] = Head(fifo["uplink"])]
    /\ fifo' = [fifo EXCEPT !["uplink"] = Tail(@)]
    /\ entry_count' = [entry_count EXCEPT !["uplink"] = @ - 1]
    /\ pc' = [pc EXCEPT !["uplink"] = "sending"]
    /\ UNCHANGED <<heap_free, irq_masked>>

WorkEndsUnscheduled(d) ==
    /\ pc[d] = "polling"
    /\ fifo[d] = <<>>
    /\ pc' = [pc EXCEPT ![d] = "stopped"]
    /\ IF d = "downlink" THEN irq_masked' \in BOOLEAN ELSE UNCHANGED irq_masked
    /\ UNCHANGED <<fifo, entry_count, heap_free, out>>

DownlinkReleaseWithoutCount ==
    /\ pc["downlink"] = "dequeued"
    /\ heap_free' = heap_free + 1
    /\ pc' = [pc EXCEPT !["downlink"] = "sending"]
    /\ UNCHANGED <<fifo, entry_count, out, irq_masked>>
-----------------------------------------------------------------------------
\* The oldest entry is taken off the full FIFO and its block reused.  An
\* empty FIFO fails the assertion here (see AssertionHolds).
PutWhenFull(d, p) ==
    /\ entry_count[d] = FIFO_MAX_ELEMENT_COUNT
    /\ fifo[d] # <<>>
    /\ fifo' = [fifo EXCEPT ![d] = Append(Tail(@), p)]
    /\ UNCHANGED <<entry_count, heap_free>>

PutInNewEntry(d, p) ==
    /\ entry_count[d] # FIFO_MAX_ELEMENT_COUNT
    /\ heap_free > 0
    /\ fifo' = [fifo EXCEPT ![d] = Append(@, p)]
    /\ entry_count' = [entry_count EXCEPT ![d] = @ + 1]
    /\ heap_free' = heap_free - 1

\* -ENOMEM: it is the new packet that is lost.
PutFailsNoMemory(d) ==
    /\ entry_count[d] # FIFO_MAX_ELEMENT_COUNT
    /\ heap_free = 0
    /\ UNCHANGED queueVars

Put(d, p) ==
    PutWhenFull(d, p) \/ PutInNewEntry(d, p) \/ PutFailsNoMemory(d)

uplink_aggregator_put(p) == Put("uplink", p) /\ UNCHANGED workVars

downlink_aggregator_put(p) == Put("downlink", p) /\ UNCHANGED workVars
-----------------------------------------------------------------------------
\* The timer of a work item expires and the work queue thread starts it.
StartWork(d) ==
    /\ \A e \in Direction : pc[e] = "waiting"
    /\ pc' = [pc EXCEPT ![d] = "polling"]
    /\ UNCHANGED <<fifo, entry_count, heap_free, out, irq_masked>>

uplink_aggregator_get ==
    /\ pc["uplink"] = "polling"
    /\ fifo["uplink"] # <<>>
    /\ out' = [out EXCEPT !["uplink"] = Head(fifo["uplink"])]
    /\ fifo' = [fifo EXCEPT !["uplink"] = Tail(@)]
    /\ heap_free' = heap_free + 1
    /\ entry_count' = [entry_count EXCEPT !["uplink"] = @ - 1]
    /\ pc' = [pc EXCEPT !["uplink"] = "sending"]
    /\ UNCHANGED irq_masked

\* First half of downlink_aggregator_get, outside the lock.
DownlinkDequeue ==
    /\ pc["downlink"] = "polling"
    /\ fifo["downlink"] # <<>>
    /\ out' = [out EXCEPT !["downlink"] = Head(fifo["downlink"])]
    /\ fifo' = [fifo EXCEPT !["downlink"] = Tail(@)]
    /\ pc' = [pc EXCEPT !["downlink"] = "dequeued"]
    /\ UNCHANGED <<entry_count, heap_free, irq_masked>>

\* Second half: copy the packet, free the entry and count it out.
DownlinkRelease ==
    /\ pc["downlink"] = "dequeued"
    /\ heap_free' = heap_free + 1
    /\ entry_count' = [entry_count EXCEPT !["downlink"] = @ - 1]
    /\ pc' = [pc EXCEPT !["downlink"] = "sending"]
    /\ UNCHANGED <<fifo, out, irq_masked>>

\* -ENODATA ends the loop and the work item is rescheduled.  The downlink get
\* then unlocks with a key it never read: the mask it leaves is arbitrary.
WorkEnds(d) ==
    /\ pc[d] = "polling"
    /\ fifo[d] = <<>>
    /\ pc' = [pc EXCEPT ![d] = "waiting"]
    /\ IF d = "downlink" THEN irq_masked' \in BOOLEAN ELSE UNCHANGED irq_masked
    /\ UNCHANGED <<fifo, entry_count, heap_free, out>>

\* The packet is published, transmitted or found unfit; whatever the outcome,
\* the loop goes on to the next one.
PacketDone(d) ==
    /\ pc[d] = "sending"
    /\ pc' = [pc EXCEPT ![d] = "polling"]
    /\ out' = [out EXCEPT ![d] = NoPacket]
    /\ UNCHANGED <<fifo, entry_count, heap_free, irq_masked>>

publish_aggregated_data ==
    StartWork("uplink") \/ uplink_aggregator_get
        \/ PacketDone("uplink") \/ WorkEnds("uplink")

transmit_aggregated_data ==
    StartWork("downlink") \/ DownlinkDequeue \/ DownlinkRelease
        \/ PacketDone("downlink") \/ WorkEnds("downlink")

Next ==
    \/ \E p \in Packet : uplink_aggregator_put(p) \/ downlink_aggregator_put(p)
    \/ publish_aggregated_data
    \/ transmit_aggregated_data

Spec == Init /\ [][Next]_aggregatorVars

\* The work queue thread keeps running what it has started, and the timers of
\* the two work items expire again and again: the work queue takes expired
\* items in turn, so an item whose turn comes up again and again is started.
Fairness ==
    /\ WF_aggregatorVars(uplink_aggregator_get \/ DownlinkDequeue \/ DownlinkRelease)
    /\ \A d \in Direction :
        /\ WF_aggregatorVars(PacketDone(d))
        /\ WF_aggregatorVars(WorkEnds(d))
        /\ SF_aggregatorVars(StartWork(d))

FairSpec == Spec /\ Fairness
-----------------------------------------------------------------------------
TypeOK ==
    /\ fifo \in [Direction -> Seq(Packet)]
    /\ entry_count \in [Direction -> 0..FIFO_MAX_ELEMENT_COUNT]
    /\ heap_free \in 0..HeapBlocks
    /\ pc \in [Direction -> {"waiting", "polling", "dequeued", "sending"}]
    /\ out \in [Direction -> Packet \cup {NoPacket}]
    /\ irq_masked \in BOOLEAN

\* entry_count is the length of the FIFO, except inside downlink_aggregator_get,
\* where it is one more: no interleaving of puts and gets loses a decrement.
CountMatchesFifo ==
    \A d \in Direction :
        entry_count[d] = IF pc[d] = "dequeued" THEN Len(fifo[d]) + 1
                                               ELSE Len(fifo[d])

\* The assertion of both puts: a FIFO whose count says full has an entry to
\* give up, even when a downlink get has taken one and not counted it out.
AssertionHolds ==
    \A d \in Direction :
        entry_count[d] = FIFO_MAX_ELEMENT_COUNT => fifo[d] # <<>>

\* Every block of the heap is free or holds exactly one counted entry: no path
\* through put and get leaks an entry or frees one twice.
HeapAccounted ==
    heap_free + entry_count["uplink"] + entry_count["downlink"] = HeapBlocks

\* The work queue is one thread: at most one work item is under way, and it
\* holds a packet exactly while it processes one.
OneWorkItem ==
    /\ \E d \in Direction : pc[d] = "waiting"
    /\ pc["uplink"] # "dequeued"
    /\ \A d \in Direction : (out[d] = NoPacket) <=> (pc[d] \in {"waiting", "polling"})

\* Both together: blocks and packets in hand are accounted for.
NothingLeaks == HeapAccounted /\ OneWorkItem

\* With room for both FIFOs in the heap, as prj.conf gives it, no put ever
\* fails for lack of memory.
HeapSuffices ==
    HeapBlocks >= 2 * FIFO_MAX_ELEMENT_COUNT =>
        \A d \in Direction :
            entry_count[d] # FIFO_MAX_ELEMENT_COUNT => heap_free > 0

\* As long as the work queue comes to rest again and again (neither drain loop
\* is fed faster than it empties its FIFO), no packet is left in a FIFO whose
\* work item is never run: a non-empty FIFO is served.
Served ==
    []<>(\A d \in Direction : pc[d] \notin {"polling", "dequeued", "sending"}) =>
        \A d \in Direction : fifo[d] # <<>> ~> out[d] # NoPacket
=============================================================================
