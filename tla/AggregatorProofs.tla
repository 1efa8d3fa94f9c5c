-------------------------- MODULE AggregatorProofs --------------------------
(***************************************************************************)
(* The aggregator's counters, FIFOs and heap blocks agree in every state,   *)
(* for every FIFO limit of at least two and every heap size; its assertions *)
(* never fail; and with room for both FIFOs no put fails.                   *)
(***************************************************************************)
EXTENDS Aggregator, TLAPS

\* The inductive invariant.  CountMatchesFifo needs OneWorkItem (nothing but a
\* downlink get is ever between its two halves), and HeapAccounted bounds
\* heap_free.
IInv == TypeOK /\ CountMatchesFifo /\ HeapAccounted /\ OneWorkItem

\* Every action but the puts needs only these facts about sequences.
LEMMA HeadTail ==
    ASSUME NEW S, NEW s \in Seq(S), s # <<>>
    PROVE  /\ Head(s) \in S
           /\ Tail(s) \in Seq(S)
           /\ Len(Tail(s)) = Len(s) - 1
           /\ Len(s) \in Nat /\ Len(s) > 0
  OBVIOUS

\* Both aggregators start empty with the whole heap free.
LEMMA InitIInv == Init => IInv
<1> SUFFICES ASSUME Init PROVE IInv
  OBVIOUS
<1> USE AggregatorAssumption DEF AggregatorAssumption, Init, Direction
<1>1. TypeOK
  <2>1. <<>> \in Seq(Packet)
    OBVIOUS
  <2>2. 0 \in 0..FIFO_MAX_ELEMENT_COUNT /\ HeapBlocks \in 0..HeapBlocks
    OBVIOUS
  <2> QED
    BY <2>1, <2>2 DEF TypeOK
<1>2. CountMatchesFifo
  BY DEF CountMatchesFifo
<1>3. HeapAccounted
  BY DEF HeapAccounted
<1>4. OneWorkItem
  BY DEF OneWorkItem
<1> QED
  BY <1>1, <1>2, <1>3, <1>4 DEF IInv

\* A put, into either FIFO and down any of its three paths, keeps the invariant.
LEMMA PutIInv ==
    ASSUME IInv, NEW d \in Direction, NEW p \in Packet,
           Put(d, p), UNCHANGED workVars
    PROVE  IInv'
<1> USE AggregatorAssumption DEF AggregatorAssumption, Direction, workVars, queueVars
<1>1. /\ fifo[d] \in Seq(Packet) /\ Len(fifo[d]) \in Nat
      /\ entry_count[d] \in 0..FIFO_MAX_ELEMENT_COUNT
      /\ entry_count["uplink"] \in Nat /\ entry_count["downlink"] \in Nat
  BY DEF IInv, TypeOK
<1>2. CASE PutWhenFull(d, p)
  <2>1. Append(Tail(fifo[d]), p) \in Seq(Packet)
        /\ Len(Append(Tail(fifo[d]), p)) = Len(fifo[d])
    BY <1>1, <1>2, HeadTail DEF PutWhenFull
  <2>2. TypeOK'
    BY <1>2, <2>1 DEF IInv, TypeOK, PutWhenFull
  <2>3. CountMatchesFifo'
    BY <1>2, <2>1 DEF IInv, TypeOK, CountMatchesFifo, PutWhenFull
  <2>4. HeapAccounted' /\ OneWorkItem'
    BY <1>2 DEF IInv, HeapAccounted, OneWorkItem, PutWhenFull
  <2> QED
    BY <2>2, <2>3, <2>4 DEF IInv
<1>3. CASE PutInNewEntry(d, p)
  <2>1. Append(fifo[d], p) \in Seq(Packet)
        /\ Len(Append(fifo[d], p)) = Len(fifo[d]) + 1
    BY <1>1
  <2>2. heap_free \in 0..HeapBlocks /\ heap_free > 0
    BY <1>3 DEF IInv, TypeOK, PutInNewEntry
  <2>3. TypeOK'
    BY <1>1, <1>3, <2>1, <2>2 DEF IInv, TypeOK, PutInNewEntry
  <2>4. CountMatchesFifo'
    <3> SUFFICES ASSUME NEW e \in Direction
                 PROVE  entry_count'[e] = IF pc[e] = "dequeued"
                                          THEN Len(fifo'[e]) + 1 ELSE Len(fifo'[e])
      BY DEF CountMatchesFifo
    <3>1. entry_count[e] = IF pc[e] = "dequeued" THEN Len(fifo[e]) + 1 ELSE Len(fifo[e])
      BY DEF IInv, CountMatchesFifo
    <3>2. CASE e = d
      <4>1. /\ entry_count'[e] = entry_count[e] + 1
            /\ Len(fifo'[e]) = Len(fifo[e]) + 1
        BY <1>3, <2>1, <3>2 DEF IInv, TypeOK, PutInNewEntry
      <4> QED
        BY <1>1, <3>1, <3>2, <4>1
    <3>3. CASE e # d
      BY <1>3, <3>1, <3>3 DEF IInv, TypeOK, PutInNewEntry
    <3> QED
      BY <3>2, <3>3
  <2>5. HeapAccounted'
    <3>1. /\ heap_free' = heap_free - 1
          /\ \/ /\ entry_count'["uplink"] = entry_count["uplink"] + 1
                /\ entry_count'["downlink"] = entry_count["downlink"]
             \/ /\ entry_count'["uplink"] = entry_count["uplink"]
                /\ entry_count'["downlink"] = entry_count["downlink"] + 1
      BY <1>3 DEF IInv, TypeOK, PutInNewEntry
    <3> QED
      BY <1>1, <2>2, <3>1 DEF IInv, HeapAccounted
  <2>6. OneWorkItem'
    BY <1>3 DEF IInv, OneWorkItem, PutInNewEntry
  <2> QED
    BY <2>3, <2>4, <2>5, <2>6 DEF IInv
<1>4. CASE PutFailsNoMemory(d)
  BY <1>4 DEF PutFailsNoMemory, IInv, TypeOK, CountMatchesFifo, HeapAccounted,
              OneWorkItem
<1> QED
  BY <1>2, <1>3, <1>4 DEF Put

\* No step of either drain loop breaks the invariant.
LEMMA WorkIInv ==
    ASSUME IInv, publish_aggregated_data \/ transmit_aggregated_data
    PROVE  IInv'
<1> USE AggregatorAssumption DEF AggregatorAssumption, Direction
<1>0. /\ fifo["uplink"] \in Seq(Packet) /\ fifo["downlink"] \in Seq(Packet)
      /\ Len(fifo["uplink"]) \in Nat /\ Len(fifo["downlink"]) \in Nat
      /\ entry_count["uplink"] \in 0..FIFO_MAX_ELEMENT_COUNT
      /\ entry_count["downlink"] \in 0..FIFO_MAX_ELEMENT_COUNT
      /\ heap_free \in 0..HeapBlocks
      /\ heap_free + entry_count["uplink"] + entry_count["downlink"] = HeapBlocks
  BY DEF IInv, TypeOK, HeapAccounted
<1>1. ASSUME NEW d \in Direction, StartWork(d)
      PROVE  IInv'
  BY <1>1 DEF IInv, TypeOK, CountMatchesFifo, HeapAccounted, OneWorkItem, StartWork
<1>2. CASE uplink_aggregator_get
  <2>1. Head(fifo["uplink"]) \in Packet /\ Tail(fifo["uplink"]) \in Seq(Packet)
        /\ Len(Tail(fifo["uplink"])) = Len(fifo["uplink"]) - 1
        /\ Len(fifo["uplink"]) > 0
    BY <1>0, <1>2, HeadTail DEF uplink_aggregator_get
  <2>2. entry_count["uplink"] = Len(fifo["uplink"])
    BY <1>0, <1>2 DEF IInv, CountMatchesFifo, uplink_aggregator_get
  <2>3. TypeOK'
    BY <1>0, <1>2, <2>1, <2>2 DEF IInv, TypeOK, uplink_aggregator_get
  <2>4. CountMatchesFifo'
    <3>1. /\ entry_count'["uplink"] = entry_count["uplink"] - 1
          /\ entry_count'["downlink"] = entry_count["downlink"]
          /\ fifo'["uplink"] = Tail(fifo["uplink"])
          /\ fifo'["downlink"] = fifo["downlink"]
          /\ pc'["uplink"] = "sending" /\ pc'["downlink"] = pc["downlink"]
      BY <1>2 DEF IInv, TypeOK, uplink_aggregator_get
    <3> QED
      BY <1>0, <2>1, <2>2, <3>1 DEF IInv, CountMatchesFifo
  <2>5. HeapAccounted'
    BY <1>0, <1>2 DEF IInv, TypeOK, HeapAccounted, uplink_aggregator_get
  <2>6. OneWorkItem'
    BY <1>2, <2>1 DEF IInv, TypeOK, OneWorkItem, uplink_aggregator_get
  <2> QED
    BY <2>3, <2>4, <2>5, <2>6 DEF IInv
<1>3. CASE DownlinkDequeue
  <2>1. Head(fifo["downlink"]) \in Packet /\ Tail(fifo["downlink"]) \in Seq(Packet)
        /\ Len(Tail(fifo["downlink"])) = Len(fifo["downlink"]) - 1
        /\ Len(fifo["downlink"]) > 0
    BY <1>0, <1>3, HeadTail DEF DownlinkDequeue
  <2>2. TypeOK'
    BY <1>3, <2>1 DEF IInv, TypeOK, DownlinkDequeue
  <2>3. CountMatchesFifo'
    <3>1. /\ entry_count' = entry_count
          /\ fifo'["downlink"] = Tail(fifo["downlink"])
          /\ fifo'["uplink"] = fifo["uplink"]
          /\ pc["downlink"] = "polling"
          /\ pc'["downlink"] = "dequeued" /\ pc'["uplink"] = pc["uplink"]
      BY <1>3 DEF IInv, TypeOK, DownlinkDequeue
    <3>2. entry_count["downlink"] = Len(fifo["downlink"])
      BY <3>1 DEF IInv, CountMatchesFifo
    <3>3. entry_count'["downlink"] = Len(fifo'["downlink"]) + 1
      BY <1>0, <2>1, <3>1, <3>2
    <3> QED
      BY <3>1, <3>3 DEF IInv, CountMatchesFifo
  <2>4. HeapAccounted'
    BY <1>3 DEF IInv, HeapAccounted, DownlinkDequeue
  <2>5. OneWorkItem'
    BY <1>3, <2>1 DEF IInv, TypeOK, OneWorkItem, DownlinkDequeue
  <2> QED
    BY <2>2, <2>3, <2>4, <2>5 DEF IInv
<1>4. CASE DownlinkRelease
  <2>1. entry_count["downlink"] = Len(fifo["downlink"]) + 1
    BY <1>0, <1>4 DEF IInv, CountMatchesFifo, DownlinkRelease
  <2>2. TypeOK'
    BY <1>0, <1>4, <2>1 DEF IInv, TypeOK, DownlinkRelease
  <2>3. CountMatchesFifo'
    <3>1. /\ entry_count'["downlink"] = entry_count["downlink"] - 1
          /\ entry_count'["uplink"] = entry_count["uplink"]
          /\ fifo' = fifo
          /\ pc'["downlink"] = "sending" /\ pc'["uplink"] = pc["uplink"]
      BY <1>4 DEF IInv, TypeOK, DownlinkRelease
    <3> QED
      BY <1>0, <2>1, <3>1 DEF IInv, CountMatchesFifo
  <2>4. HeapAccounted'
    BY <1>0, <1>4 DEF IInv, TypeOK, HeapAccounted, DownlinkRelease
  <2>5. OneWorkItem'
    BY <1>4 DEF IInv, TypeOK, OneWorkItem, DownlinkRelease
  <2> QED
    BY <2>2, <2>3, <2>4, <2>5 DEF IInv
<1>5. ASSUME NEW d \in Direction, PacketDone(d)
      PROVE  IInv'
  BY <1>5 DEF IInv, TypeOK, CountMatchesFifo, HeapAccounted, OneWorkItem, PacketDone
<1>6. ASSUME NEW d \in Direction, WorkEnds(d)
      PROVE  IInv'
  BY <1>6 DEF IInv, TypeOK, CountMatchesFifo, HeapAccounted, OneWorkItem, WorkEnds
<1> QED
  BY <1>1, <1>2, <1>3, <1>4, <1>5, <1>6
  DEF publish_aggregated_data, transmit_aggregated_data

\* A step that leaves the aggregator alone keeps the invariant.
LEMMA SameIInv == ASSUME IInv, UNCHANGED aggregatorVars PROVE IInv'
  BY DEF aggregatorVars, IInv, TypeOK, CountMatchesFifo, HeapAccounted, OneWorkItem

\* The invariant holds in every reachable state.
THEOREM Inductive == Spec => []IInv
<1>1. IInv /\ [Next]_aggregatorVars => IInv'
  <2> SUFFICES ASSUME IInv, [Next]_aggregatorVars PROVE IInv'
    OBVIOUS
  <2>1. ASSUME NEW p \in Packet, uplink_aggregator_put(p) \/ downlink_aggregator_put(p)
        PROVE  IInv'
    BY <2>1, PutIInv DEF uplink_aggregator_put, downlink_aggregator_put, Direction
  <2> QED
    BY <2>1, SameIInv, WorkIInv DEF Next
<1> QED
  BY InitIInv, <1>1, PTL DEF Spec

\* The variables keep their types: in particular the counters, unsigned in the
\* code, never wrap below zero and never pass the limit.
THEOREM TypeCorrect == Spec => []TypeOK
  BY Inductive, PTL DEF IInv

\* Each counter is the length of its FIFO, plus the one entry a downlink get
\* may be holding.
THEOREM CountsAreRight == Spec => []CountMatchesFifo
  BY Inductive, PTL DEF IInv

\* Every heap block is free or holds an entry that is counted, and at most one
\* work item runs: no path of a put or a get leaks an entry.
THEOREM NothingIsLeaked == Spec => []NothingLeaks
  BY Inductive, PTL DEF IInv, NothingLeaks

\* The __ASSERT of uplink_aggregator_put and downlink_aggregator_put holds
\* whenever it is evaluated.
THEOREM AssertionsHold == Spec => []AssertionHolds
<1>1. IInv => AssertionHolds
  <2> SUFFICES ASSUME IInv, NEW d \in Direction,
                      entry_count[d] = FIFO_MAX_ELEMENT_COUNT, fifo[d] = <<>>
               PROVE  FALSE
    BY DEF AssertionHolds
  <2>1. Len(fifo[d]) = 0
    OBVIOUS
  <2>2. entry_count[d] \in {Len(fifo[d]), Len(fifo[d]) + 1}
    BY DEF IInv, CountMatchesFifo
  <2> QED
    BY <2>1, <2>2, AggregatorAssumption DEF AggregatorAssumption
<1> QED
  BY Inductive, <1>1, PTL

\* A full heap and a FIFO that is not full do not go together.
LEMMA HeapRoom == IInv => HeapSuffices
  BY AggregatorAssumption
  DEF AggregatorAssumption, IInv, TypeOK, HeapAccounted, HeapSuffices, Direction

\* With room in the heap for both FIFOs no put fails with -ENOMEM.
THEOREM NoPutFails == Spec => []HeapSuffices
  BY Inductive, HeapRoom, PTL
=============================================================================
