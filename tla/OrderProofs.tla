---------------------------- MODULE OrderProofs ----------------------------
(***************************************************************************)
(* What passes the aggregator keeps its order and is lost only where the    *)
(* code means to lose it, for every limit of the FIFOs, every heap size and *)
(* any number of packets.                                                  *)
(*                                                                         *)
(* First the aggregator by itself: packets stay in order, each direction    *)
(* implements the ordered lossy channel, and with room for both FIFOs in    *)
(* the heap only the packets before the last FIFO_MAX_ELEMENT_COUNT - 1 are *)
(* ever lost.  Then what BLE makes of it: camera images are shown, and      *)
(* reports published, in the order in which they came, through time-outs,   *)
(* late answers and lost connections.                                      *)
(***************************************************************************)
EXTENDS AggregatorHistory, Traffic, AggregatorProofs, SequenceTheorems

HistoryTypeOK ==
    /\ offered \in [Direction -> Nat]
    /\ handed \in [Direction -> SUBSET Nat]

\* The order is inductive together with the aggregator's own invariant.
HInv == IInv /\ HistoryTypeOK /\ InOrder

\* InOrder for one direction, with FIFO s, last packet m and those handed on h.
OrderedFifo(s, m, h) ==
    /\ \A i \in 1..Len(s) :
        /\ s[i] \in 1..m
        /\ \A n \in h : n < s[i]
        /\ \A j \in 1..(i - 1) : s[j] < s[i]
    /\ \A n \in h : n \in 1..m

\* InOrder is that of each direction.
LEMMA InOrderByDirection ==
    InOrder <=> \A d \in Direction : OrderedFifo(fifo[d], offered[d], handed[d])
  BY DEF InOrder, OrderedFifo

\* Elements of a sequence with one element added or the first one removed.
LEMMA AppendTail ==
    ASSUME NEW S, NEW s \in Seq(S), NEW p \in S
    PROVE  /\ Len(Append(s, p)) = Len(s) + 1 /\ Len(s) \in Nat
           /\ \A i \in 1..Len(s) : Append(s, p)[i] = s[i]
           /\ Append(s, p)[Len(s) + 1] = p
           /\ s # <<>> => /\ Len(s) > 0 /\ Len(Tail(s)) = Len(s) - 1
                          /\ Head(s) = s[1] /\ Tail(s) \in Seq(S)
                          /\ \A i \in 1..(Len(s) - 1) : Tail(s)[i] = s[i + 1]
  OBVIOUS

\* A packet put at the end is later than every other.
LEMMA OrderedAppend ==
    ASSUME NEW S, NEW s \in Seq(S), NEW m \in Nat, m + 1 \in S,
           NEW h \in SUBSET Nat, OrderedFifo(s, m, h)
    PROVE  OrderedFifo(Append(s, m + 1), m + 1, h)
<1> DEFINE t == Append(s, m + 1)
<1>1. /\ Len(t) = Len(s) + 1 /\ Len(s) \in Nat
      /\ \A i \in 1..Len(s) : t[i] = s[i]
      /\ t[Len(s) + 1] = m + 1
  BY AppendTail
<1> HIDE DEF t
<1>2. ASSUME NEW i \in 1..Len(t)
      PROVE  /\ t[i] \in 1..(m + 1)
             /\ \A n \in h : n < t[i]
             /\ \A j \in 1..(i - 1) : t[j] < t[i]
  <2>1. CASE i <= Len(s)
    <3>1. i \in 1..Len(s) /\ t[i] = s[i] /\ s[i] \in 1..m
      BY <1>1, <2>1 DEF OrderedFifo
    <3>2. \A j \in 1..(i - 1) : j \in 1..Len(s) /\ t[j] = s[j]
      BY <1>1, <2>1
    <3> QED
      BY <3>1, <3>2 DEF OrderedFifo
  <2>2. CASE i = Len(s) + 1
    <3>1. \A j \in 1..(i - 1) : t[j] \in 1..m
      BY <1>1, <2>2 DEF OrderedFifo
    <3>2. \A n \in h : n \in 1..m
      BY DEF OrderedFifo
    <3> QED
      BY <1>1, <2>2, <3>1, <3>2
  <2> QED
    BY <1>1, <2>1, <2>2
<1>3. \A n \in h : n \in 1..(m + 1)
  BY DEF OrderedFifo
<1> QED
  BY <1>2, <1>3 DEF OrderedFifo, t

\* Dropping the oldest packet keeps the order of the others.
LEMMA OrderedTail ==
    ASSUME NEW S, NEW s \in Seq(S), s # <<>>, NEW m \in Nat,
           NEW h \in SUBSET Nat, OrderedFifo(s, m, h)
    PROVE  /\ OrderedFifo(Tail(s), m, h)
           /\ OrderedFifo(Tail(s), m, h \cup {Head(s)})
           /\ Head(s) \in Nat
<1> DEFINE t == Tail(s)
<1>1. /\ Len(s) \in Nat /\ Len(s) > 0 /\ Len(t) = Len(s) - 1 /\ Head(s) = s[1]
      /\ \A i \in 1..Len(t) : t[i] = s[i + 1]
  BY AppendTail
<1> HIDE DEF t
<1>2. \A i \in 1..Len(t) : i + 1 \in 1..Len(s) /\ t[i] = s[i + 1] /\ 1 \in 1..((i + 1) - 1)
  BY <1>1
<1>3. Head(s) \in 1..m
  BY <1>1 DEF OrderedFifo
<1>4. ASSUME NEW i \in 1..Len(t)
      PROVE  /\ t[i] \in 1..m
             /\ \A n \in h : n < t[i]
             /\ Head(s) < t[i]
             /\ \A j \in 1..(i - 1) : t[j] < t[i]
  <2>1. t[i] \in 1..m /\ Head(s) < t[i] /\ \A n \in h : n < t[i]
    BY <1>1, <1>2 DEF OrderedFifo
  <2>2. ASSUME NEW j \in 1..(i - 1) PROVE t[j] < t[i]
    <3>1. j \in 1..Len(t) /\ j + 1 \in 1..((i + 1) - 1)
      BY <1>1
    <3> QED
      BY <1>2, <3>1 DEF OrderedFifo
  <2> QED
    BY <2>1, <2>2
<1>5. \A n \in h : n \in 1..m
  BY DEF OrderedFifo
<1> QED
  BY <1>3, <1>4, <1>5 DEF OrderedFifo, t

\* A packet that is refused leaves the order as it is.
LEMMA OrderedRefused ==
    ASSUME NEW S, NEW s \in Seq(S), NEW m \in Nat,
           NEW h \in SUBSET Nat, OrderedFifo(s, m, h)
    PROVE  OrderedFifo(s, m + 1, h)
  BY DEF OrderedFifo

\* The three outcomes of a put, on one direction and on the other.
LEMMA PutOutcome ==
    ASSUME HInv, NEW d \in Direction, HPut(d)
    PROVE  /\ Put(d, offered[d] + 1) /\ UNCHANGED workVars /\ UNCHANGED handed
           /\ offered[d] + 1 \in Packet
           /\ offered' = [offered EXCEPT ![d] = offered[d] + 1]
           /\ \A e \in Direction : e # d => fifo'[e] = fifo[e]
           /\ \/ fifo[d] # <<>> /\ fifo'[d] = Append(Tail(fifo[d]), offered[d] + 1)
                   /\ entry_count[d] = FIFO_MAX_ELEMENT_COUNT
              \/ fifo'[d] = Append(fifo[d], offered[d] + 1)
              \/ fifo'[d] = fifo[d] /\ heap_free = 0
                   /\ entry_count[d] # FIFO_MAX_ELEMENT_COUNT
<1>1. /\ Put(d, offered[d] + 1) /\ UNCHANGED workVars /\ UNCHANGED handed
      /\ offered[d] + 1 \in Packet /\ offered' = [offered EXCEPT ![d] = offered[d] + 1]
  BY DEF HPut, uplink_aggregator_put, downlink_aggregator_put, Direction
<1>2. DOMAIN fifo = Direction
  BY DEF HInv, IInv, TypeOK
<1> QED
  BY <1>1, <1>2 DEF Put, PutWhenFull, PutInNewEntry, PutFailsNoMemory, queueVars

\* A put keeps the order.
LEMMA PutHInv == ASSUME HInv, NEW d \in Direction, HPut(d) PROVE HInv'
<1>1. IInv'
  BY PutOutcome, PutIInv DEF HInv
<1>2. HistoryTypeOK'
  BY PutOutcome DEF HInv, HistoryTypeOK
<1>3. ASSUME NEW e \in Direction
      PROVE  OrderedFifo(fifo'[e], offered'[e], handed'[e])
  <2>1. /\ fifo[e] \in Seq(Packet) /\ offered[e] \in Nat /\ handed[e] \in SUBSET Nat
        /\ OrderedFifo(fifo[e], offered[e], handed[e])
        /\ handed'[e] = handed[e]
    BY PutOutcome, InOrderByDirection DEF HInv, IInv, TypeOK, HistoryTypeOK
  <2>2. CASE e # d
    BY <2>1, <2>2, PutOutcome DEF HInv, HistoryTypeOK
  <2>3. CASE e = d
    <3>1. offered'[e] = offered[e] + 1 /\ offered[e] + 1 \in Packet
      BY <2>3, PutOutcome DEF HInv, HistoryTypeOK
    <3>2. CASE fifo[d] # <<>> /\ fifo'[d] = Append(Tail(fifo[d]), offered[d] + 1)
      <4>1. Tail(fifo[e]) \in Seq(Packet) /\ OrderedFifo(Tail(fifo[e]), offered[e], handed[e])
        BY <2>1, <2>3, <3>2, OrderedTail, HeadTail
      <4> QED
        BY <2>1, <2>3, <3>1, <3>2, <4>1, OrderedAppend
    <3>3. CASE fifo'[d] = Append(fifo[d], offered[d] + 1)
      BY <2>1, <2>3, <3>1, <3>3, OrderedAppend
    <3>4. CASE fifo'[d] = fifo[d]
      BY <2>1, <2>3, <3>1, <3>4, OrderedRefused
    <3> QED
      BY <3>2, <3>3, <3>4, PutOutcome
  <2> QED
    BY <2>2, <2>3
<1>4. InOrder'
  BY <1>3 DEF InOrder, OrderedFifo
<1> QED
  BY <1>1, <1>2, <1>4 DEF HInv

\* What a get does to the FIFO of its direction.
LEMMA GetOutcome ==
    ASSUME HInv, NEW d \in Direction, HGet(d)
    PROVE  /\ publish_aggregated_data \/ transmit_aggregated_data
           /\ fifo[d] # <<>> /\ fifo' = [fifo EXCEPT ![d] = Tail(fifo[d])]
           /\ handed' = [handed EXCEPT ![d] = handed[d] \cup {Head(fifo[d])}]
           /\ UNCHANGED offered
  BY DEF HGet, uplink_aggregator_get, DownlinkDequeue, publish_aggregated_data,
      transmit_aggregated_data, Direction

\* So does a get, which hands on the packet before all that still wait.
LEMMA GetHInv == ASSUME HInv, NEW d \in Direction, HGet(d) PROVE HInv'
<1>1. IInv'
  BY GetOutcome, WorkIInv DEF HInv
<1>2. /\ fifo[d] \in Seq(Packet) /\ offered[d] \in Nat /\ handed[d] \in SUBSET Nat
      /\ OrderedFifo(fifo[d], offered[d], handed[d])
  BY InOrderByDirection DEF HInv, IInv, TypeOK, HistoryTypeOK
<1>3. /\ OrderedFifo(Tail(fifo[d]), offered[d], handed[d] \cup {Head(fifo[d])})
      /\ Head(fifo[d]) \in Nat
  BY <1>2, GetOutcome, OrderedTail
<1>4. HistoryTypeOK'
  BY <1>3, GetOutcome DEF HInv, HistoryTypeOK
<1>5. ASSUME NEW e \in Direction
      PROVE  OrderedFifo(fifo'[e], offered'[e], handed'[e])
  <2>1. CASE e = d
    BY <1>3, <2>1, GetOutcome DEF HInv, IInv, TypeOK, HistoryTypeOK
  <2>2. CASE e # d
    BY <2>2, GetOutcome, InOrderByDirection DEF HInv, IInv, TypeOK, HistoryTypeOK
  <2> QED
    BY <2>1, <2>2
<1>6. InOrder'
  BY <1>5 DEF InOrder, OrderedFifo
<1> QED
  BY <1>1, <1>4, <1>6 DEF HInv

\* The other steps of the work items do not touch the FIFOs.
LEMMA OtherHInv == ASSUME HInv, NEW d \in Direction, HOther(d) PROVE HInv'
<1>1. UNCHANGED <<fifo, offered, handed>>
  BY DEF HOther, historyVars, StartWork, DownlinkRelease, PacketDone, WorkEnds
<1>2. publish_aggregated_data \/ transmit_aggregated_data
  BY DEF HOther, publish_aggregated_data, transmit_aggregated_data, Direction
<1>3. IInv'
  BY <1>2, WorkIInv DEF HInv
<1> QED
  BY <1>1, <1>3 DEF HInv, HistoryTypeOK, InOrder

\* Nothing has been put at the start.
LEMMA HistoryInit == HInit => HInv
<1>1. HInit => IInv
  BY InitIInv DEF HInit
<1>2. HInit => HistoryTypeOK
  BY DEF HInit, HistoryTypeOK
<1>3. HInit => InOrder
  BY DEF HInit, Init, InOrder
<1> QED
  BY <1>1, <1>2, <1>3 DEF HInv

\* Every step keeps the order.
LEMMA HistoryStep == HInv /\ [HNext]_vars => HInv'
<1>1. ASSUME HInv, UNCHANGED vars PROVE HInv'
  BY <1>1 DEF vars, HInv, IInv, TypeOK, CountMatchesFifo, HeapAccounted,
      OneWorkItem, HistoryTypeOK, InOrder
<1>2. ASSUME HInv, HNext PROVE HInv'
  BY <1>2, PutHInv, GetHInv, OtherHInv DEF HNext
<1> QED
  BY <1>1, <1>2

\* The order and the aggregator's invariant hold in every state.
THEOREM HistoryInductive == HSpec => []HInv
  BY HistoryInit, HistoryStep, PTL DEF HSpec

\* Packets wait in the order they were put, after all that were handed on, and
\* none is invented: in both directions, however puts and gets interleave.
THEOREM OrderKept == HSpec => []InOrder
<1>1. HInv => InOrder
  BY DEF HInv
<1> QED
  BY HistoryInductive, <1>1, PTL
-----------------------------------------------------------------------------
RoomInHeap == HeapBlocks >= 2 * FIFO_MAX_ELEMENT_COUNT

\* FifoIsSuffix and MostRecentKept for one direction.
Suffix(s, m) == \A i \in 1..Len(s) : s[i] = m - Len(s) + i

Recent(s, m, h) ==
    \A n \in 1..m : \/ n \in h
                    \/ \E i \in 1..Len(s) : s[i] = n
                    \/ n + FIFO_MAX_ELEMENT_COUNT - 1 <= m

\* MostRecentKept needs FifoIsSuffix: the packet that a full FIFO drops is the
\* one FIFO_MAX_ELEMENT_COUNT - 1 puts back.
LossInv == HInv /\ FifoIsSuffix /\ MostRecentKept

\* The two properties are those of each direction.
LEMMA LossByDirection ==
    /\ FifoIsSuffix <=> (RoomInHeap => \A d \in Direction : Suffix(fifo[d], offered[d]))
    /\ MostRecentKept <=>
        (RoomInHeap => \A d \in Direction : Recent(fifo[d], offered[d], handed[d]))
  BY DEF FifoIsSuffix, MostRecentKept, Suffix, Recent, RoomInHeap

\* A packet put at the end of the FIFO is the next one.
LEMMA LossAppend ==
    ASSUME NEW S, NEW s \in Seq(S), NEW m \in Nat, m + 1 \in S, NEW h
    PROVE  /\ Suffix(s, m) => Suffix(Append(s, m + 1), m + 1)
           /\ Recent(s, m, h) => Recent(Append(s, m + 1), m + 1, h)
<1> DEFINE t == Append(s, m + 1)
<1>1. /\ Len(t) = Len(s) + 1 /\ Len(s) \in Nat
      /\ \A i \in 1..Len(s) : t[i] = s[i]
      /\ t[Len(s) + 1] = m + 1
  BY AppendTail
<1> HIDE DEF t
<1>2. ASSUME Suffix(s, m), NEW i \in 1..Len(t) PROVE t[i] = m + 1 - Len(t) + i
  <2>1. CASE i \in 1..Len(s)
    BY <1>1, <1>2, <2>1 DEF Suffix
  <2>2. CASE i = Len(s) + 1
    BY <1>1, <2>2
  <2> QED
    BY <1>1, <2>1, <2>2
<1>3. ASSUME Recent(s, m, h), NEW n \in 1..(m + 1)
      PROVE  \/ n \in h
             \/ \E i \in 1..Len(t) : t[i] = n
             \/ n + FIFO_MAX_ELEMENT_COUNT - 1 <= m + 1
  <2>1. CASE n = m + 1
    BY <1>1, <2>1
  <2>2. CASE n \in 1..m
    <3>1. CASE \E i \in 1..Len(s) : s[i] = n
      <4>1. PICK i \in 1..Len(s) : s[i] = n
        BY <3>1
      <4>2. i \in 1..Len(t) /\ t[i] = n
        BY <1>1, <4>1
      <4> QED
        BY <4>2
    <3>2. CASE n \in h \/ n + FIFO_MAX_ELEMENT_COUNT - 1 <= m
      BY <2>2, <3>2, AggregatorAssumption DEF AggregatorAssumption
    <3> QED
      BY <1>3, <2>2, <3>1, <3>2 DEF Recent
  <2> QED
    BY <2>1, <2>2
<1> QED
  BY <1>2, <1>3 DEF Suffix, Recent, t

\* Taking the oldest packet off leaves a suffix; it is handed on, or dropped
\* from a full FIFO for the next packet.
LEMMA LossTail ==
    ASSUME NEW S, NEW s \in Seq(S), s # <<>>, NEW m \in Nat, NEW h
    PROVE  /\ Suffix(s, m) => Suffix(Tail(s), m)
           /\ Recent(s, m, h) => Recent(Tail(s), m, h \cup {Head(s)})
<1> DEFINE t == Tail(s)
<1>1. /\ Len(s) \in Nat /\ Len(s) > 0 /\ Len(t) = Len(s) - 1 /\ Head(s) = s[1]
      /\ \A i \in 1..Len(t) : t[i] = s[i + 1]
  BY AppendTail
<1> HIDE DEF t
<1>2. Suffix(s, m) => Suffix(t, m)
  BY <1>1 DEF Suffix
<1>3. ASSUME Recent(s, m, h), NEW n \in 1..m
      PROVE  \/ n \in h \cup {Head(s)}
             \/ \E i \in 1..Len(t) : t[i] = n
             \/ n + FIFO_MAX_ELEMENT_COUNT - 1 <= m
  <2>1. CASE \E i \in 1..Len(s) : s[i] = n
    <3>1. PICK i \in 1..Len(s) : s[i] = n
      BY <2>1
    <3>2. CASE i = 1
      BY <1>1, <3>1, <3>2
    <3>3. CASE i # 1
      <4>1. i - 1 \in 1..Len(t) /\ t[i - 1] = n
        BY <1>1, <3>1, <3>3
      <4> QED
        BY <4>1
    <3> QED
      BY <3>2, <3>3
  <2> QED
    BY <1>3, <2>1 DEF Recent
<1> QED
  BY <1>2, <1>3 DEF Recent, t

\* A put into a full FIFO loses only the packet that has become too old.
LEMMA LossReplace ==
    ASSUME NEW S, NEW s \in Seq(S), s # <<>>, NEW m \in Nat, m + 1 \in S, NEW h,
           Suffix(s, m), Recent(s, m, h), Len(s) >= FIFO_MAX_ELEMENT_COUNT - 1
    PROVE  Recent(Append(Tail(s), m + 1), m + 1, h)
<1> DEFINE t == Append(Tail(s), m + 1)
<1>1. /\ Len(s) \in Nat /\ Len(s) > 0 /\ Len(Tail(s)) = Len(s) - 1 /\ Tail(s) \in Seq(S)
      /\ Head(s) = s[1] /\ s[1] = m - Len(s) + 1
  BY AppendTail DEF Suffix
<1>2. Recent(t, m + 1, h \cup {Head(s)})
  BY <1>1, LossTail, LossAppend
<1>3. Head(s) + FIFO_MAX_ELEMENT_COUNT - 1 <= m + 1
  BY <1>1, AggregatorAssumption DEF AggregatorAssumption
<1> HIDE DEF t
<1>4. Recent(t, m + 1, h)
  BY <1>2, <1>3 DEF Recent
<1> QED
  BY <1>4 DEF t

\* The loss of a put.
LEMMA PutLoss == ASSUME LossInv, NEW d \in Direction, HPut(d) PROVE LossInv'
<1>1. HInv /\ HInv'
  BY PutHInv DEF LossInv
<1>2. ASSUME RoomInHeap, NEW e \in Direction
      PROVE  Suffix(fifo'[e], offered'[e]) /\ Recent(fifo'[e], offered'[e], handed'[e])
  <2>1. /\ fifo[e] \in Seq(Packet) /\ offered[e] \in Nat /\ handed'[e] = handed[e]
        /\ Suffix(fifo[e], offered[e]) /\ Recent(fifo[e], offered[e], handed[e])
    BY <1>1, <1>2, PutOutcome, LossByDirection DEF LossInv, HInv, IInv, TypeOK, HistoryTypeOK
  <2>2. CASE e # d
    BY <1>1, <2>1, <2>2, PutOutcome DEF HInv, HistoryTypeOK
  <2>3. CASE e = d
    <3>1. offered'[e] = offered[e] + 1 /\ offered[e] + 1 \in Packet
      BY <1>1, <2>3, PutOutcome DEF HInv, HistoryTypeOK
    <3>2. CASE /\ fifo[d] # <<>> /\ fifo'[d] = Append(Tail(fifo[d]), offered[d] + 1)
               /\ entry_count[d] = FIFO_MAX_ELEMENT_COUNT
      <4>1. Tail(fifo[e]) \in Seq(Packet) /\ Len(fifo[e]) \in Nat
        BY <2>1, <2>3, <3>2, HeadTail
      <4>2. Len(fifo[e]) >= FIFO_MAX_ELEMENT_COUNT - 1
        BY <1>1, <2>3, <3>2, <4>1, AggregatorAssumption
        DEF AggregatorAssumption, HInv, IInv, CountMatchesFifo
      <4>3. Suffix(Tail(fifo[e]), offered[e])
        BY <2>1, <2>3, <3>2, LossTail
      <4>4. Suffix(fifo'[e], offered'[e])
        BY <2>1, <2>3, <3>1, <3>2, <4>1, <4>3, LossAppend
      <4>5. Recent(fifo'[e], offered'[e], handed'[e])
        BY <2>1, <2>3, <3>1, <3>2, <4>2, LossReplace
      <4> QED
        BY <4>4, <4>5
    <3>3. CASE fifo'[d] = Append(fifo[d], offered[d] + 1)
      BY <2>1, <2>3, <3>1, <3>3, LossAppend
    <3>4. CASE heap_free = 0 /\ entry_count[d] # FIFO_MAX_ELEMENT_COUNT
      BY <1>1, <1>2, <3>4, HeapRoom DEF HInv, HeapSuffices, RoomInHeap
    <3> QED
      BY <3>2, <3>3, <3>4, <1>1, PutOutcome
  <2> QED
    BY <2>2, <2>3
<1>3. FifoIsSuffix' /\ MostRecentKept'
  BY <1>2 DEF FifoIsSuffix, MostRecentKept, Suffix, Recent, RoomInHeap
<1> QED
  BY <1>1, <1>3 DEF LossInv

\* A get loses nothing.
LEMMA GetLoss == ASSUME LossInv, NEW d \in Direction, HGet(d) PROVE LossInv'
<1>1. HInv /\ HInv'
  BY GetHInv DEF LossInv
<1>2. ASSUME RoomInHeap, NEW e \in Direction
      PROVE  Suffix(fifo'[e], offered'[e]) /\ Recent(fifo'[e], offered'[e], handed'[e])
  <2>1. /\ fifo[e] \in Seq(Packet) /\ offered[e] \in Nat /\ offered'[e] = offered[e]
        /\ Suffix(fifo[e], offered[e]) /\ Recent(fifo[e], offered[e], handed[e])
    BY <1>1, <1>2, GetOutcome, LossByDirection DEF LossInv, HInv, IInv, TypeOK, HistoryTypeOK
  <2>2. CASE e = d
    <3>1. /\ fifo[e] # <<>> /\ fifo'[e] = Tail(fifo[e])
          /\ handed'[e] = handed[e] \cup {Head(fifo[e])}
      BY <1>1, <2>2, GetOutcome DEF HInv, IInv, TypeOK, HistoryTypeOK
    <3> QED
      BY <2>1, <3>1, LossTail
  <2>3. CASE e # d
    BY <1>1, <2>1, <2>3, GetOutcome DEF HInv, IInv, TypeOK, HistoryTypeOK
  <2> QED
    BY <2>2, <2>3
<1>3. FifoIsSuffix' /\ MostRecentKept'
  BY <1>2 DEF FifoIsSuffix, MostRecentKept, Suffix, Recent, RoomInHeap
<1> QED
  BY <1>1, <1>3 DEF LossInv

\* What waits and what was handed on bound the loss in every state.
THEOREM LossInductive == HSpec => []LossInv
<1>1. HInit => LossInv
  <2>1. HInit => FifoIsSuffix /\ MostRecentKept
    BY DEF HInit, Init, FifoIsSuffix, MostRecentKept
  <2> QED
    BY <2>1, HistoryInit DEF LossInv
<1>2. LossInv /\ [HNext]_vars => LossInv'
  <2>1. ASSUME LossInv, UNCHANGED vars PROVE LossInv'
    BY <2>1, HistoryStep DEF vars, LossInv, FifoIsSuffix, MostRecentKept
  <2>2. ASSUME LossInv, NEW d \in Direction, HOther(d) PROVE LossInv'
    <3>1. UNCHANGED <<fifo, offered, handed>>
      BY <2>2 DEF HOther, historyVars, StartWork, DownlinkRelease, PacketDone, WorkEnds
    <3>2. HInv'
      BY <2>2, OtherHInv DEF LossInv
    <3> QED
      BY <2>2, <3>1, <3>2 DEF LossInv, FifoIsSuffix, MostRecentKept
  <2> QED
    BY <2>1, <2>2, PutLoss, GetLoss DEF HNext
<1> QED
  BY <1>1, <1>2, PTL DEF HSpec

\* With room in the heap a packet is lost only to FIFO_MAX_ELEMENT_COUNT - 1
\* packets put after it.
THEOREM RecentAreKept == HSpec => []MostRecentKept
<1>1. LossInv => MostRecentKept
  BY DEF LossInv
<1> QED
  BY LossInductive, <1>1, PTL

\* With room in the heap the FIFO holds consecutive packets up to the last put.
THEOREM FifosAreSuffixes == HSpec => []FifoIsSuffix
<1>1. LossInv => FifoIsSuffix
  BY DEF LossInv
<1> QED
  BY LossInductive, <1>1, PTL

\* Of what is put only the oldest is lost, and the rest stays in order.
THEOREM OldestAreLost == HSpec => []OnlyOldestLost
<1>1. LossInv => OnlyOldestLost
  BY DEF LossInv, HInv, OnlyOldestLost
<1> QED
  BY LossInductive, <1>1, PTL

-----------------------------------------------------------------------------
\* The largest of a set of numbers is what LastHanded chooses.
LEMMA LargestChosen ==
    ASSUME NEW H \in SUBSET Nat, NEW x \in H, \A m \in H : m <= x
    PROVE  (CHOOSE n \in H : \A m \in H : m <= n) = x
<1> DEFINE y == CHOOSE n \in H : \A m \in H : m <= n
<1>1. y \in H /\ \A m \in H : m <= y
  OBVIOUS
<1> HIDE DEF y
<1>2. y \in Nat /\ x \in Nat /\ y <= x /\ x <= y
  BY <1>1
<1>3. y = x
  BY <1>2
<1> QED
  BY <1>3 DEF y

\* Elements of a sequence as a set.
LEMMA WaitingAfter ==
    ASSUME NEW S, NEW s \in Seq(S), NEW p \in S
    PROVE  LET W(t) == {t[i] : i \in 1..Len(t)} IN
           /\ W(Append(s, p)) \subseteq W(s) \cup {p}
           /\ s # <<>> => Head(s) \in W(s) /\ W(Tail(s)) \subseteq W(s)
  BY AppendTail

\* A step of the aggregator, seen from direction d of the channel, is an offer,
\* a delivery of the oldest packet that waits, or nothing.
ChannelStep(d) ==
    \/ /\ offered'[d] = offered[d] + 1
       /\ Waiting(d)' \subseteq Waiting(d) \cup {offered[d] + 1}
       /\ LastHanded(d)' = LastHanded(d)
    \/ /\ LastHanded(d)' \in Waiting(d)
       /\ Waiting(d)' = {n \in Waiting(d) : n > LastHanded(d)'}
       /\ offered'[d] = offered[d]
    \/ /\ offered'[d] = offered[d]
       /\ Waiting(d)' = Waiting(d)
       /\ LastHanded(d)' = LastHanded(d)

\* The last packet handed on depends on nothing but those handed on.
LEMMA LastHandedSame ==
    ASSUME NEW d, handed'[d] = handed[d]
    PROVE  LastHanded(d)' = LastHanded(d)
<1> DEFINE L(H) == IF H = {} THEN 0 ELSE CHOOSE n \in H : \A m \in H : m <= n
<1>1. LastHanded(d) = L(handed[d]) /\ LastHanded(d)' = L(handed'[d])
  BY DEF LastHanded
<1> HIDE DEF L
<1> QED
  BY <1>1

\* A put is an offer on its own direction.
LEMMA PutIsOffer ==
    ASSUME HInv, NEW d \in Direction, NEW e \in Direction, HPut(e)
    PROVE  ChannelStep(d)
<1>1. LastHanded(d)' = LastHanded(d)
  BY PutOutcome, LastHandedSame
<1>2. fifo[d] \in Seq(Packet)
  BY DEF HInv, IInv, TypeOK
<1>3. CASE e # d
  BY <1>1, <1>3, PutOutcome DEF HInv, HistoryTypeOK, ChannelStep, Waiting
<1>4. CASE e = d
  <2> DEFINE p == offered[d] + 1
             W(t) == {t[i] : i \in 1..Len(t)}
  <2>1. offered'[d] = p /\ p \in Packet
    BY <1>4, PutOutcome DEF HInv, HistoryTypeOK
  <2>2. W(fifo'[d]) \subseteq W(fifo[d]) \cup {p}
    <3> HIDE DEF p
    <3>1. CASE fifo[d] # <<>> /\ fifo'[d] = Append(Tail(fifo[d]), p)
      <4>1. Tail(fifo[d]) \in Seq(Packet)
        BY <1>2, <3>1, HeadTail
      <4>2. W(Append(Tail(fifo[d]), p)) \subseteq W(Tail(fifo[d])) \cup {p}
        BY <2>1, <4>1, WaitingAfter
      <4>3. W(Tail(fifo[d])) \subseteq W(fifo[d])
        BY <1>2, <2>1, <3>1, WaitingAfter
      <4> QED
        BY <3>1, <4>2, <4>3
    <3>2. CASE fifo'[d] = Append(fifo[d], p)
      BY <1>2, <2>1, <3>2, WaitingAfter
    <3>3. CASE fifo'[d] = fifo[d]
      BY <3>3
    <3> QED
      BY <1>4, <3>1, <3>2, <3>3, PutOutcome DEF p
  <2> QED
    BY <1>1, <2>1, <2>2 DEF ChannelStep, Waiting
<1> QED
  BY <1>3, <1>4

\* A get delivers the first of those that wait, and the rest is later.
LEMMA GetIsDelivery ==
    ASSUME HInv, NEW d \in Direction, NEW e \in Direction, HGet(e)
    PROVE  ChannelStep(d)
<1>1. CASE e # d
  <2>1. fifo'[d] = fifo[d] /\ handed'[d] = handed[d] /\ offered'[d] = offered[d]
    BY <1>1, GetOutcome DEF HInv, IInv, TypeOK, HistoryTypeOK
  <2> QED
    BY <2>1, LastHandedSame DEF ChannelStep, Waiting
<1>2. CASE e = d
  <2> DEFINE s == fifo[d]
             h == Head(s)
  <2>1. /\ s \in Seq(Packet) /\ s # <<>> /\ offered[d] \in Nat /\ handed[d] \in SUBSET Nat
        /\ OrderedFifo(s, offered[d], handed[d])
        /\ fifo'[d] = Tail(s) /\ handed'[d] = handed[d] \cup {h}
        /\ offered'[d] = offered[d]
    BY <1>2, GetOutcome, InOrderByDirection DEF HInv, IInv, TypeOK, HistoryTypeOK
  <2> HIDE DEF s
  <2>2. /\ Len(s) \in Nat /\ Len(s) > 0 /\ Len(Tail(s)) = Len(s) - 1 /\ h = s[1]
        /\ \A i \in 1..(Len(s) - 1) : Tail(s)[i] = s[i + 1]
    BY <2>1, AppendTail
  <2> HIDE DEF h
  <2>3. /\ \A i \in 1..Len(s) : s[i] \in Nat
        /\ \A n \in handed[d] : n < h
        /\ \A i \in 2..Len(s) : h < s[i]
    BY <2>1, <2>2 DEF OrderedFifo
  <2>4. LastHanded(d)' = h
    <3>1. h \in handed'[d] /\ handed'[d] \in SUBSET Nat /\ \A m \in handed'[d] : m <= h
      BY <2>1, <2>2, <2>3
    <3> QED
      BY <3>1, LargestChosen DEF LastHanded
  <2>5. Waiting(d) = {s[i] : i \in 1..Len(s)}
    BY DEF Waiting, s
  <2>6. Waiting(d)' = {Tail(s)[i] : i \in 1..(Len(s) - 1)}
    BY <2>1, <2>2 DEF Waiting
  <2>7. ASSUME NEW n PROVE n \in Waiting(d)' <=> n \in Waiting(d) /\ n > h
    <3>1. ASSUME n \in Waiting(d)' PROVE n \in Waiting(d) /\ n > h
      <4>1. PICK i \in 1..(Len(s) - 1) : n = Tail(s)[i]
        BY <2>6, <3>1
      <4>2. i + 1 \in 2..Len(s) /\ i + 1 \in 1..Len(s) /\ n = s[i + 1]
        BY <2>2, <4>1
      <4> QED
        BY <2>2, <2>3, <2>5, <4>2
    <3>2. ASSUME n \in Waiting(d), n > h PROVE n \in Waiting(d)'
      <4>1. PICK i \in 1..Len(s) : n = s[i]
        BY <2>5, <3>2
      <4>2. i # 1
        BY <2>2, <2>3, <3>2, <4>1
      <4>3. i - 1 \in 1..(Len(s) - 1) /\ Tail(s)[i - 1] = n
        BY <2>2, <4>1, <4>2
      <4> QED
        BY <2>6, <4>3
    <3> QED
      BY <3>1, <3>2
  <2>8. h \in Waiting(d)
    BY <2>2, <2>5
  <2>9. Waiting(d)' = {n \in Waiting(d) : n > LastHanded(d)'}
    BY <2>4, <2>7
  <2> QED
    BY <2>1, <2>4, <2>8, <2>9 DEF ChannelStep
<1> QED
  BY <1>1, <1>2

\* So every step of the aggregator is one of the channel.
LEMMA StepIsChannelStep ==
    ASSUME HInv, [HNext]_vars, NEW d \in Direction
    PROVE  ChannelStep(d)
<1>1. CASE UNCHANGED <<fifo, offered, handed>>
  BY <1>1, LastHandedSame DEF ChannelStep, Waiting
<1>2. ASSUME NEW e \in Direction, HOther(e) PROVE UNCHANGED <<fifo, offered, handed>>
  BY <1>2 DEF HOther, historyVars, StartWork, DownlinkRelease, PacketDone, WorkEnds
<1> QED
  BY <1>1, <1>2, PutIsOffer, GetIsDelivery DEF HNext, vars

\* Nothing waits and nothing was handed on at the start.
LEMMA ChannelStart ==
    ASSUME HInit, NEW d \in Direction
    PROVE  offered[d] = 0 /\ Waiting(d) = {} /\ LastHanded(d) = 0
  BY DEF HInit, Init, Waiting, LastHanded

\* The uplink implements the channel: packets from the devices are published in
\* the order they came, each at most once.
THEOREM UplinkImplementsChannel == HSpec => UplinkIsChannel
<1>1. HInit => UplinkChannel!Init
  BY ChannelStart DEF UplinkChannel!Init, Direction
<1>2. HInv /\ [HNext]_vars => [UplinkChannel!Next]_(UplinkChannel!channelVars)
  <2> SUFFICES ASSUME HInv, [HNext]_vars
               PROVE  [UplinkChannel!Next]_(UplinkChannel!channelVars)
    OBVIOUS
  <2>1. ChannelStep("uplink")
    BY StepIsChannelStep DEF Direction
  <2> QED
    BY <2>1 DEF ChannelStep, UplinkChannel!Next, UplinkChannel!Offer,
        UplinkChannel!Deliver, UplinkChannel!channelVars
<1> QED
  BY <1>1, <1>2, HistoryInductive, PTL DEF HSpec, UplinkIsChannel, UplinkChannel!Spec

\* The downlink implements the channel: packets for the devices are sent in the
\* order they were put, each at most once.
THEOREM DownlinkImplementsChannel == HSpec => DownlinkIsChannel
<1>1. HInit => DownlinkChannel!Init
  BY ChannelStart DEF DownlinkChannel!Init, Direction
<1>2. HInv /\ [HNext]_vars => [DownlinkChannel!Next]_(DownlinkChannel!channelVars)
  <2> SUFFICES ASSUME HInv, [HNext]_vars
               PROVE  [DownlinkChannel!Next]_(DownlinkChannel!channelVars)
    OBVIOUS
  <2>1. ChannelStep("downlink")
    BY StepIsChannelStep DEF Direction
  <2> QED
    BY <2>1 DEF ChannelStep, DownlinkChannel!Next, DownlinkChannel!Offer,
        DownlinkChannel!Deliver, DownlinkChannel!channelVars
<1> QED
  BY <1>1, <1>2, HistoryInductive, PTL DEF HSpec, DownlinkIsChannel, DownlinkChannel!Spec
-----------------------------------------------------------------------------
\* The numbers that the packets of a FIFO, or the one in hand, carry in field f.
Numbers(t, f) == [i \in 1..Len(t) |-> t[i][f]]

Number(p, f) == IF p = NoPacket THEN 0 ELSE p[f]

\* Numbers on their way: those in s have arrived, w is being written, o is in
\* the hands of the work item and q waits in the FIFO, each after all those
\* before it and none after m.  Zero stands for no number.
Staged(s, w, o, q, m) ==
    /\ Increasing(s)
    /\ \A i \in 1..Len(s) : s[i] <= m /\ (w # 0 => s[i] < w) /\ (o # 0 => s[i] < o)
    /\ w <= m /\ o <= m /\ (o # 0 => w < o)
    /\ \A i \in 1..Len(q) :
        /\ q[i] <= m
        /\ q[i] # 0 => /\ w < q[i] /\ o < q[i]
                       /\ \A j \in 1..Len(s) : s[j] < q[i]
                       /\ \A j \in 1..(i - 1) : q[j] < q[i]

ImagesStaged ==
    Staged(shown, write["RPi"].image, Number(out["downlink"], "image"),
           Numbers(fifo["downlink"], "image"), taken)

ReportsStaged ==
    Staged(Numbers(read, "report"), 0, Number(out["uplink"], "report"),
           Numbers(fifo["uplink"], "report"), reported)

\* Each direction carries packets of its kind.
PacketsTyped ==
    /\ fifo["downlink"] \in Seq(DownlinkPacket) /\ fifo["uplink"] \in Seq(UplinkPacket)
    /\ out["downlink"] \in DownlinkPacket \cup {NoPacket}
    /\ out["uplink"] \in UplinkPacket \cup {NoPacket}

LinkTyped ==
    /\ nus_write_sem \in 0..1
    /\ write \in [Device -> {NoWrite, Ping} \cup DownlinkPacket]
    /\ linked \subseteq Device /\ listening \subseteq linked
    /\ giver \in Device \cup {"none", "late"} /\ waited \in BOOLEAN

CountsTyped ==
    /\ taken \in 0..MaxImages /\ shown \in Seq(1..MaxImages)
    /\ reported \in 0..MaxReports /\ read \in Seq([report : 1..MaxReports, topic : Topic])

\* A device whose write is pending has not given the semaphore that is there,
\* unless late; between the halves of ble_transmit every answer is late.
GiverIsOther ==
    /\ \A d \in Device :
        write[d] # NoWrite /\ write[d] # Ping /\ nus_write_sem = 1 => giver # d
    /\ waited => giver \in {"none", "late"}

TrafficInv ==
    /\ IInv /\ PacketsTyped /\ LinkTyped /\ CountsTyped
    /\ ImagesStaged /\ ReportsStaged /\ GiverIsOther
-----------------------------------------------------------------------------
\* What the fields of packets and of pending writes can be.
LEMMA PacketFields ==
    /\ \A p \in DownlinkPacket :
        /\ p["image"] = p.image /\ p.image \in 0..MaxImages /\ p.image \in Nat
        /\ p.destination \in Device /\ p # NoWrite /\ p # Ping /\ p # NoPacket
    /\ \A p \in UplinkPacket :
        /\ p["report"] = p.report /\ p.report \in 1..MaxReports /\ p.report \in Nat
        /\ p.type \in ReportType /\ p # NoWrite /\ p # Ping /\ p # NoPacket
    /\ NoWrite.image = 0 /\ Ping.image = 0 /\ NoWrite # Ping
    /\ DownlinkPacket \subseteq Packet /\ UplinkPacket \subseteq Packet
<1>1. NoWrite.image = 0 /\ Ping.image = 0 /\ NoWrite # Ping
  BY DEF NoWrite, Ping
<1>2. DownlinkPacket \subseteq Packet /\ UplinkPacket \subseteq Packet /\ NoPacket \notin Packet
  BY TrafficAssumption, AggregatorAssumption
  DEF TrafficAssumption, AggregatorAssumption, TrafficPacket
<1>3. ASSUME NEW p \in DownlinkPacket
      PROVE  /\ p["image"] = p.image /\ p.image \in 0..MaxImages /\ p.image \in Nat
             /\ p.destination \in Device /\ p # NoWrite /\ p # Ping /\ p # NoPacket
  <2>1. p.image \in 0..MaxImages /\ p.destination \in {"ESP32", "RPi"}
    BY DEF DownlinkPacket, Device
  <2>2. NoWrite.destination = "none" /\ Ping.destination = "ping"
    BY DEF NoWrite, Ping
  <2> QED
    BY <1>2, <2>1, <2>2, TrafficAssumption DEF TrafficAssumption, Device
<1>4. ASSUME NEW p \in UplinkPacket
      PROVE  /\ p["report"] = p.report /\ p.report \in 1..MaxReports /\ p.report \in Nat
             /\ p.type \in ReportType /\ p # NoWrite /\ p # Ping /\ p # NoPacket
  <2>1. p.report \in 1..MaxReports /\ p.type \in ReportType
    BY DEF UplinkPacket
  <2>2. "report" \in DOMAIN p /\ "report" \notin DOMAIN NoWrite /\ "report" \notin DOMAIN Ping
    BY DEF UplinkPacket, NoWrite, Ping
  <2> QED
    BY <1>2, <2>1, <2>2, TrafficAssumption DEF TrafficAssumption
<1> QED
  BY <1>1, <1>2, <1>3, <1>4

\* The elements of S carry a number in field f.
Numbered(S, f) == \A x \in S : x[f] \in Nat

\* Images, reports and published reports do.
LEMMA PacketsNumbered ==
    /\ Numbered(DownlinkPacket, "image") /\ Numbered(UplinkPacket, "report")
    /\ Numbered([report : 1..MaxReports, topic : Topic], "report")
<1>1. \A x \in [report : 1..MaxReports, topic : Topic] : x["report"] \in Nat
  BY TrafficAssumption DEF TrafficAssumption
<1> QED
  BY <1>1, PacketFields DEF Numbered

\* The numbers of packets, one by one.
LEMMA NumbersSeq ==
    ASSUME NEW S, NEW f, Numbered(S, f), NEW t \in Seq(S)
    PROVE  /\ Numbers(t, f) \in Seq(Nat) /\ Len(Numbers(t, f)) = Len(t)
           /\ \A i \in 1..Len(t) : Numbers(t, f)[i] = t[i][f]
  BY DEF Numbers, Numbered

\* Taking the numbers of packets commutes with adding a packet at the end,
LEMMA NumbersAppend ==
    ASSUME NEW S, NEW f, Numbered(S, f), NEW t \in Seq(S), NEW p \in S
    PROVE  Numbers(Append(t, p), f) = Append(Numbers(t, f), p[f])
<1>0. p[f] \in Nat
  BY DEF Numbered
<1>1. Append(t, p) \in Seq(S) /\ Append(Numbers(t, f), p[f]) \in Seq(Nat)
  BY NumbersSeq, <1>0
<1>2. /\ Len(Append(t, p)) = Len(t) + 1 /\ Len(t) \in Nat
      /\ \A i \in 1..(Len(t) + 1) : Append(t, p)[i] = IF i = Len(t) + 1 THEN p ELSE t[i]
  OBVIOUS
<1>3. Len(Append(Numbers(t, f), p[f])) = Len(t) + 1
      /\ \A i \in 1..(Len(t) + 1) : Append(Numbers(t, f), p[f])[i] =
            IF i = Len(t) + 1 THEN p[f] ELSE Numbers(t, f)[i]
  BY NumbersSeq, <1>0, <1>2
<1>4. \A i \in 1..(Len(t) + 1) : i # Len(t) + 1 => i \in 1..Len(t)
  BY <1>2
<1> DEFINE a == Numbers(Append(t, p), f)
           b == Append(Numbers(t, f), p[f])
<1>5. /\ a \in Seq(Nat) /\ Len(a) = Len(t) + 1
      /\ \A i \in 1..(Len(t) + 1) : a[i] = Append(t, p)[i][f]
  <2>1. Len(Append(t, p)) = Len(t) + 1
    BY <1>2
  <2> QED
    BY NumbersSeq, <1>1, <2>1
<1>6. \A i \in 1..Len(t) : Numbers(t, f)[i] = t[i][f]
  BY NumbersSeq
<1>7. ASSUME NEW i \in 1..(Len(t) + 1) PROVE a[i] = b[i]
  <2>1. CASE i = Len(t) + 1
    <3>1. Append(t, p)[i] = p
      BY <1>2, <2>1
    <3>2. a[i] = p[f]
      BY <1>5, <3>1
    <3> QED
      BY <1>3, <2>1, <3>2
  <2>2. CASE i # Len(t) + 1
    <3>1. i \in 1..Len(t) /\ Append(t, p)[i] = t[i]
      BY <1>2, <1>4, <2>2
    <3>2. a[i] = t[i][f]
      BY <1>5, <3>1
    <3>3. b[i] = Numbers(t, f)[i]
      BY <1>3, <2>2
    <3> QED
      BY <1>6, <3>1, <3>2, <3>3
  <2> QED
    BY <2>1, <2>2
<1>8. a \in Seq(Nat) /\ b \in Seq(Nat) /\ Len(a) = Len(b) /\ \A i \in 1..Len(a) : a[i] = b[i]
  BY <1>1, <1>3, <1>5, <1>7
<1> HIDE DEF a, b
<1>9. a = b
  BY <1>8, SeqEqual
<1> QED
  BY <1>9 DEF a, b

\* and with removing the first.
LEMMA NumbersTail ==
    ASSUME NEW S, NEW f, Numbered(S, f), NEW t \in Seq(S), t # <<>>
    PROVE  /\ Numbers(t, f) # <<>> /\ Head(Numbers(t, f)) = Head(t)[f]
           /\ Numbers(Tail(t), f) = Tail(Numbers(t, f))
<1>1. /\ Len(t) \in Nat /\ Len(t) > 0 /\ Tail(t) \in Seq(S) /\ Len(Tail(t)) = Len(t) - 1
      /\ Head(t) = t[1] /\ \A i \in 1..(Len(t) - 1) : Tail(t)[i] = t[i + 1]
  OBVIOUS
<1>2. Numbers(t, f) # <<>> /\ Head(Numbers(t, f)) = Head(t)[f]
  BY NumbersSeq, <1>1
<1>3. /\ Tail(Numbers(t, f)) \in Seq(Nat) /\ Len(Tail(Numbers(t, f))) = Len(t) - 1
      /\ \A i \in 1..(Len(t) - 1) : Tail(Numbers(t, f))[i] = Numbers(t, f)[i + 1]
  BY NumbersSeq, <1>1, <1>2
<1>4. \A i \in 1..(Len(t) - 1) : i + 1 \in 1..Len(t)
  BY <1>1
<1> DEFINE a == Numbers(Tail(t), f)
           b == Tail(Numbers(t, f))
<1>5. /\ a \in Seq(Nat) /\ Len(a) = Len(t) - 1
      /\ \A i \in 1..(Len(t) - 1) : a[i] = Tail(t)[i][f]
  <2> DEFINE r == Tail(t)
  <2>1. r \in Seq(S) /\ Len(r) = Len(t) - 1
    BY <1>1
  <2> HIDE DEF r
  <2>2. /\ Numbers(r, f) \in Seq(Nat) /\ Len(Numbers(r, f)) = Len(r)
        /\ \A i \in 1..Len(r) : Numbers(r, f)[i] = r[i][f]
    BY <2>1, NumbersSeq
  <2> QED
    BY <2>1, <2>2 DEF r
<1>6. \A i \in 1..Len(t) : Numbers(t, f)[i] = t[i][f]
  BY NumbersSeq
<1>7. ASSUME NEW i \in 1..(Len(t) - 1) PROVE a[i] = b[i]
  <2>1. a[i] = t[i + 1][f]
    BY <1>1, <1>5
  <2>2. b[i] = Numbers(t, f)[i + 1]
    BY <1>3
  <2> QED
    BY <1>4, <1>6, <2>1, <2>2
<1>8. a \in Seq(Nat) /\ b \in Seq(Nat) /\ Len(a) = Len(b) /\ \A i \in 1..Len(a) : a[i] = b[i]
  BY <1>3, <1>5, <1>7
<1> HIDE DEF a, b
<1>9. a = b
  BY <1>8, SeqEqual
<1> QED
  BY <1>2, <1>9 DEF a, b
-----------------------------------------------------------------------------
\* A number put at the end is none or a later one.
LEMMA StagedAppend ==
    ASSUME NEW s \in Seq(Nat), NEW w \in Nat, NEW o \in Nat, NEW q \in Seq(Nat), NEW m \in Nat,
           NEW n \in Nat, m <= n, Staged(s, w, o, q, m)
    PROVE  /\ Staged(s, w, o, q, n)
           /\ \A k \in 0..n : (k = 0 \/ m < k) => Staged(s, w, o, Append(q, k), n)
<1>1. \A i \in 1..Len(s) : s[i] \in Nat
  OBVIOUS
<1>2. \A i \in 1..Len(q) : q[i] \in Nat
  OBVIOUS
<1>3. Staged(s, w, o, q, n)
  BY <1>1, <1>2 DEF Staged
<1>4. ASSUME NEW k \in 0..n, k = 0 \/ m < k PROVE Staged(s, w, o, Append(q, k), n)
  <2> DEFINE r == Append(q, k)
  <2>1. /\ Len(r) = Len(q) + 1 /\ Len(q) \in Nat /\ r[Len(q) + 1] = k
        /\ \A i \in 1..Len(q) : r[i] = q[i]
    OBVIOUS
  <2> HIDE DEF r
  <2>2. ASSUME NEW i \in 1..Len(r)
        PROVE  /\ r[i] <= n
               /\ r[i] # 0 => /\ w < r[i] /\ o < r[i]
                              /\ \A j \in 1..Len(s) : s[j] < r[i]
                              /\ \A j \in 1..(i - 1) : r[j] < r[i]
    <3>1. CASE i \in 1..Len(q)
      <4>1. \A j \in 1..(i - 1) : j \in 1..Len(q) /\ r[j] = q[j]
        BY <2>1, <3>1
      <4>2. r[i] = q[i]
        BY <2>1, <3>1
      <4> QED
        BY <1>3, <3>1, <4>1, <4>2 DEF Staged
    <3>2. CASE i = Len(q) + 1
      <4>1. \A j \in 1..(i - 1) : j \in 1..Len(q) /\ r[j] = q[j] /\ q[j] <= m
        BY <2>1, <3>2 DEF Staged
      <4>2. r[i] = k
        BY <2>1, <3>2
      <4>3. w <= m /\ o <= m /\ \A j \in 1..Len(s) : s[j] <= m
        BY DEF Staged
      <4> QED
        BY <1>1, <1>2, <1>4, <4>1, <4>2, <4>3
    <3> QED
      BY <2>1, <3>1, <3>2
  <2> QED
    BY <1>3, <2>2 DEF Staged, r
<1> QED
  BY <1>3, <1>4

\* The first of the queue is dropped, or taken by idle hands.
LEMMA StagedTail ==
    ASSUME NEW s \in Seq(Nat), NEW w \in Nat, NEW o \in Nat, NEW q \in Seq(Nat), NEW m \in Nat,
           q # <<>>, Staged(s, w, o, q, m)
    PROVE  /\ Tail(q) \in Seq(Nat) /\ Head(q) \in Nat
           /\ Staged(s, w, o, Tail(q), m)
           /\ o = 0 => Staged(s, w, Head(q), Tail(q), m)
<1> DEFINE r == Tail(q)
<1>1. /\ r \in Seq(Nat) /\ Len(r) = Len(q) - 1 /\ Len(q) \in Nat /\ Len(q) > 0
      /\ Head(q) = q[1] /\ Head(q) \in Nat
      /\ \A i \in 1..(Len(q) - 1) : r[i] = q[i + 1]
  OBVIOUS
<1> HIDE DEF r
<1>2. ASSUME NEW i \in 1..Len(r)
      PROVE  /\ r[i] <= m
             /\ r[i] # 0 => /\ w < r[i] /\ o < r[i] /\ Head(q) < r[i]
                            /\ \A j \in 1..Len(s) : s[j] < r[i]
                            /\ \A j \in 1..(i - 1) : r[j] < r[i]
  <2>1. i + 1 \in 1..Len(q) /\ r[i] = q[i + 1] /\ 1 \in 1..((i + 1) - 1)
    BY <1>1
  <2>2. ASSUME NEW j \in 1..(i - 1)
        PROVE  j \in 1..(Len(q) - 1) /\ j + 1 \in 1..((i + 1) - 1) /\ r[j] = q[j + 1]
    <3>1. j \in 1..(Len(q) - 1) /\ j + 1 \in 1..((i + 1) - 1)
      BY <1>1
    <3> QED
      BY <1>1, <3>1
  <2> QED
    BY <1>1, <2>1, <2>2 DEF Staged
<1>3. /\ Head(q) <= m
      /\ Head(q) # 0 => w < Head(q) /\ \A j \in 1..Len(s) : s[j] < Head(q)
  <2>1. 1 \in 1..Len(q)
    BY <1>1
  <2> QED
    BY <1>1, <2>1 DEF Staged
<1>4. Staged(s, w, o, r, m)
  BY <1>2 DEF Staged
<1>5. ASSUME o = 0 PROVE Staged(s, w, Head(q), r, m)
  BY <1>1, <1>2, <1>3 DEF Staged
<1> QED
  BY <1>1, <1>4, <1>5 DEF r

\* What is in hand, or being written, moves on or is lost.
LEMMA StagedMoves ==
    ASSUME NEW s \in Seq(Nat), NEW w \in Nat, NEW o \in Nat, NEW q \in Seq(Nat), NEW m \in Nat,
           Staged(s, w, o, q, m)
    PROVE  /\ Staged(s, w, 0, q, m)
           /\ Staged(s, 0, o, q, m)
           /\ w = 0 => Staged(s, o, 0, q, m)
           /\ w # 0 => Staged(Append(s, w), 0, o, q, m)
<1>1. /\ \A i \in 1..Len(s) : s[i] \in Nat
      /\ \A i \in 1..Len(q) : q[i] \in Nat
  OBVIOUS
<1>2. Staged(s, w, 0, q, m) /\ Staged(s, 0, o, q, m)
  BY <1>1 DEF Staged
<1>3. w = 0 => Staged(s, o, 0, q, m)
  BY <1>1 DEF Staged
<1>4. ASSUME w # 0 PROVE Staged(Append(s, w), 0, o, q, m)
  <2> DEFINE t == Append(s, w)
  <2>1. /\ Len(t) = Len(s) + 1 /\ Len(s) \in Nat /\ t[Len(s) + 1] = w
        /\ \A i \in 1..Len(s) : t[i] = s[i]
    OBVIOUS
  <2> HIDE DEF t
  <2>2. \A i \in 1..Len(t) : i \in 1..Len(s) \/ i = Len(s) + 1
    BY <2>1
  <2>3. Increasing(t)
    <3> SUFFICES ASSUME NEW i \in 1..Len(t), NEW j \in 1..(i - 1) PROVE t[j] < t[i]
      BY DEF Increasing
    <3>1. j \in 1..Len(s) /\ t[j] = s[j]
      BY <2>1
    <3> QED
      BY <1>4, <2>1, <2>2, <3>1 DEF Staged, Increasing
  <2>4. \A i \in 1..Len(t) : t[i] <= m /\ (o # 0 => t[i] < o)
    BY <2>1, <2>2 DEF Staged
  <2>5. \A i \in 1..Len(q) : q[i] # 0 => \A j \in 1..Len(t) : t[j] < q[i]
    BY <2>1, <2>2 DEF Staged
  <2>6. Staged(t, 0, o, q, m)
    BY <1>1, <1>2, <2>3, <2>4, <2>5 DEF Staged
  <2> QED
    BY <2>6 DEF t
<1> QED
  BY <1>2, <1>3, <1>4

\* However a put ends, the numbers stay staged.
LEMMA StagedPut ==
    ASSUME NEW S, NEW f, Numbered(S, f), NEW t \in Seq(S), NEW p \in S, NEW u,
           NEW s \in Seq(Nat), NEW w \in Nat, NEW o \in Nat, NEW m \in Nat, NEW n \in Nat,
           Staged(s, w, o, Numbers(t, f), m), m <= n, p[f] <= n, p[f] = 0 \/ m < p[f],
           u = t \/ u = Append(t, p) \/ (t # <<>> /\ u = Append(Tail(t), p))
    PROVE  u \in Seq(S) /\ Staged(s, w, o, Numbers(u, f), n)
<1> DEFINE q == Numbers(t, f)
<1>1. q \in Seq(Nat)
  BY NumbersSeq
<1>5. p[f] \in Nat
  BY DEF Numbered
<1>6. p[f] \in 0..n
  BY <1>5
<1>7. Staged(s, w, o, q, n) /\ Staged(s, w, o, Append(q, p[f]), n)
  <2> HIDE DEF q
  <2>1. Staged(s, w, o, q, m)
    BY DEF q
  <2> QED
    BY <1>1, <1>6, <2>1, StagedAppend
<1>2. CASE u = t
  BY <1>2, <1>7
<1>3. CASE u = Append(t, p)
  <2>1. Numbers(u, f) = Append(q, p[f]) /\ u \in Seq(S)
    BY <1>3, NumbersAppend
  <2> QED
    BY <1>7, <2>1
<1>4. CASE t # <<>> /\ u = Append(Tail(t), p)
  <2>1. Tail(t) \in Seq(S)
    BY <1>4
  <2>2. q # <<>> /\ Numbers(Tail(t), f) = Tail(q)
    BY <1>4, NumbersTail
  <2>3. Numbers(u, f) = Append(Numbers(Tail(t), f), p[f]) /\ u \in Seq(S)
    <3> DEFINE r == Tail(t)
    <3>1. r \in Seq(S)
      BY <2>1
    <3> HIDE DEF r
    <3>2. Numbers(Append(r, p), f) = Append(Numbers(r, f), p[f]) /\ Append(r, p) \in Seq(S)
      BY <3>1, NumbersAppend
    <3> QED
      BY <1>4, <3>2 DEF r
  <2>4. Tail(q) \in Seq(Nat) /\ Staged(s, w, o, Tail(q), m)
    BY <1>1, <2>2, StagedTail
  <2>5. Staged(s, w, o, Append(Tail(q), p[f]), n)
    BY <1>6, <2>4, StagedAppend
  <2> QED
    BY <2>2, <2>3, <2>5
<1> QED
  BY <1>2, <1>3, <1>4

-----------------------------------------------------------------------------
\* The numbers of each FIFO, and of the packets in hand, are naturals.
LEMMA NumbersAreNat ==
    ASSUME TrafficInv
    PROVE  /\ Numbers(fifo["downlink"], "image") \in Seq(Nat)
           /\ Numbers(fifo["uplink"], "report") \in Seq(Nat)
           /\ Numbers(read, "report") \in Seq(Nat) /\ shown \in Seq(Nat)
           /\ Number(out["downlink"], "image") \in Nat /\ Number(out["uplink"], "report") \in Nat
           /\ \A d \in Device : write[d].image \in Nat
           /\ taken \in Nat /\ reported \in Nat
<1> USE TrafficAssumption DEF TrafficAssumption
<1>1. Numbers(fifo["downlink"], "image") \in Seq(Nat) /\ Numbers(fifo["uplink"], "report") \in Seq(Nat)
  BY PacketsNumbered, NumbersSeq DEF TrafficInv, PacketsTyped
<1>2. Numbers(read, "report") \in Seq(Nat)
  BY PacketsNumbered, NumbersSeq DEF TrafficInv, CountsTyped
<1>3. Number(out["downlink"], "image") \in Nat /\ Number(out["uplink"], "report") \in Nat
  BY PacketFields DEF TrafficInv, PacketsTyped, Number
<1>4. \A d \in Device : write[d].image \in Nat
  BY PacketFields DEF TrafficInv, LinkTyped
<1>5. shown \in Seq(Nat) /\ taken \in Nat /\ reported \in Nat
  BY DEF TrafficInv, CountsTyped
<1> QED
  BY <1>1, <1>2, <1>3, <1>4, <1>5

\* What a put of a packet does: the FIFO of its direction grows by it, maybe
\* without its oldest packet, or stays; nothing else of the packets changes.
LEMMA PutPackets ==
    ASSUME IInv, NEW d \in Direction, NEW p, Put(d, p), UNCHANGED workVars
    PROVE  /\ \A e \in Direction : e # d => fifo'[e] = fifo[e]
           /\ out' = out /\ pc' = pc
           /\ \/ fifo'[d] = fifo[d]
              \/ fifo'[d] = Append(fifo[d], p)
              \/ fifo[d] # <<>> /\ fifo'[d] = Append(Tail(fifo[d]), p)
  BY DEF IInv, TypeOK, Put, PutWhenFull, PutInNewEntry, PutFailsNoMemory, queueVars, workVars

\* A packet put in the downlink FIFO is no image, or a later one; whatever
\* happens to the numbers before the FIFO in the same step is left open.
LEMMA PutDownlink ==
    ASSUME TrafficInv, NEW p \in DownlinkPacket, downlink_aggregator_put(p),
           NEW n \in Nat, taken <= n, p.image <= n, p.image = 0 \/ taken < p.image,
           NEW s \in Seq(Nat), NEW w \in Nat,
           Staged(s, w, Number(out["downlink"], "image"), Numbers(fifo["downlink"], "image"), taken)
    PROVE  /\ IInv' /\ PacketsTyped'
           /\ Staged(s, w, Number(out["downlink"], "image")',
                     Numbers(fifo["downlink"], "image")', n)
           /\ (UNCHANGED <<read, reported>>) => ReportsStaged'
<1>1. Put("downlink", p) /\ UNCHANGED workVars /\ p \in Packet
  BY PacketFields DEF downlink_aggregator_put
<1>2. IInv'
  BY <1>1, PutIInv DEF TrafficInv, Direction
<1>3. /\ fifo'["uplink"] = fifo["uplink"] /\ out' = out
      /\ \/ fifo'["downlink"] = fifo["downlink"]
         \/ fifo'["downlink"] = Append(fifo["downlink"], p)
         \/ fifo["downlink"] # <<>> /\ fifo'["downlink"] = Append(Tail(fifo["downlink"]), p)
  BY <1>1, PutPackets DEF TrafficInv, Direction
<1>4. /\ fifo["downlink"] \in Seq(DownlinkPacket)
      /\ Number(out["downlink"], "image") \in Nat /\ taken \in Nat
  BY NumbersAreNat DEF TrafficInv, PacketsTyped
<1>5. Numbered(DownlinkPacket, "image") /\ p["image"] = p.image
  BY PacketsNumbered, PacketFields
<1> DEFINE t == fifo["downlink"]
           u == fifo'["downlink"]
           o == Number(out["downlink"], "image")
<1>6. u \in Seq(DownlinkPacket) /\ Staged(s, w, o, Numbers(u, "image"), n)
  <2>1. /\ t \in Seq(DownlinkPacket) /\ o \in Nat /\ taken \in Nat
        /\ Staged(s, w, o, Numbers(t, "image"), taken)
        /\ u = t \/ u = Append(t, p) \/ (t # <<>> /\ u = Append(Tail(t), p))
        /\ p["image"] <= n /\ (p["image"] = 0 \/ taken < p["image"])
    BY <1>3, <1>4, <1>5
  <2> HIDE DEF t, u, o
  <2> QED
    BY <1>5, <2>1, StagedPut
<1>7. PacketsTyped'
  BY <1>3, <1>6 DEF TrafficInv, PacketsTyped
<1>8. Staged(s, w, Number(out["downlink"], "image")', Numbers(fifo["downlink"], "image")', n)
  BY <1>3, <1>6 DEF Number, Numbers
<1>9. (UNCHANGED <<read, reported>>) => ReportsStaged'
  BY <1>3 DEF TrafficInv, ReportsStaged, Number, Numbers
<1> QED
  BY <1>2, <1>7, <1>8, <1>9

\* A report put in the uplink FIFO is a later one.
LEMMA PutUplink ==
    ASSUME TrafficInv, NEW p \in UplinkPacket, uplink_aggregator_put(p),
           reported' = p.report, p.report = reported + 1, UNCHANGED <<read, shown, taken, write>>
    PROVE  IInv' /\ PacketsTyped' /\ ImagesStaged' /\ ReportsStaged'
<1>1. Put("uplink", p) /\ UNCHANGED workVars /\ p \in Packet
  BY PacketFields DEF uplink_aggregator_put
<1>2. IInv'
  BY <1>1, PutIInv DEF TrafficInv, Direction
<1>3. /\ fifo'["downlink"] = fifo["downlink"] /\ out' = out
      /\ \/ fifo'["uplink"] = fifo["uplink"]
         \/ fifo'["uplink"] = Append(fifo["uplink"], p)
         \/ fifo["uplink"] # <<>> /\ fifo'["uplink"] = Append(Tail(fifo["uplink"]), p)
  BY <1>1, PutPackets DEF TrafficInv, Direction
<1>4. /\ fifo["uplink"] \in Seq(UplinkPacket) /\ Numbers(read, "report") \in Seq(Nat)
      /\ Number(out["uplink"], "report") \in Nat /\ reported \in Nat
  BY NumbersAreNat DEF TrafficInv, PacketsTyped
<1>5. /\ Numbered(UplinkPacket, "report")
      /\ p["report"] = p.report /\ p.report \in Nat /\ reported' \in Nat
  BY PacketsNumbered, PacketFields
<1>6. Staged(Numbers(read, "report"), 0, Number(out["uplink"], "report"),
             Numbers(fifo["uplink"], "report"), reported)
  BY DEF TrafficInv, ReportsStaged
<1>7. reported <= reported' /\ p["report"] <= reported' /\ reported < p["report"] /\ 0 \in Nat
  BY <1>4, <1>5
<1> DEFINE t == fifo["uplink"]
           u == fifo'["uplink"]
           o == Number(out["uplink"], "report")
           s == Numbers(read, "report")
           n == reported'
<1>8. u \in Seq(UplinkPacket) /\ Staged(s, 0, o, Numbers(u, "report"), n)
  <2>1. /\ t \in Seq(UplinkPacket) /\ o \in Nat /\ s \in Seq(Nat)
        /\ Staged(s, 0, o, Numbers(t, "report"), reported)
        /\ u = t \/ u = Append(t, p) \/ (t # <<>> /\ u = Append(Tail(t), p))
    BY <1>3, <1>4, <1>6
  <2>2. /\ 0 \in Nat /\ reported \in Nat /\ n \in Nat /\ reported <= n
        /\ p["report"] <= n /\ (p["report"] = 0 \/ reported < p["report"])
    BY <1>4, <1>5, <1>7
  <2> HIDE DEF t, u, o, s, n
  <2>3. Numbered(UplinkPacket, "report")
    BY <1>5
  <2> QED
    BY ONLY <2>1, <2>2, <2>3, p \in UplinkPacket, StagedPut
<1>9. PacketsTyped'
  BY <1>3, <1>8 DEF TrafficInv, PacketsTyped
<1>10. ReportsStaged'
  BY <1>3, <1>8 DEF ReportsStaged, Number, Numbers
<1>11. ImagesStaged'
  BY <1>3 DEF TrafficInv, ImagesStaged, Number, Numbers
<1> QED
  BY <1>2, <1>9, <1>10, <1>11
-----------------------------------------------------------------------------
\* Nothing is on its way at the start.
LEMMA InitTrafficInv == TInit => TrafficInv
<1> SUFFICES ASSUME TInit PROVE TrafficInv
  OBVIOUS
<1>1. IInv
  BY InitIInv DEF TInit
<1>2. PacketsTyped
  <2>1. <<>> \in Seq(DownlinkPacket) /\ <<>> \in Seq(UplinkPacket)
    OBVIOUS
  <2> QED
    BY <2>1 DEF TInit, Init, PacketsTyped, Direction
<1>3. LinkTyped /\ GiverIsOther
  <2>1. nus_write_sem = 0 /\ waited = FALSE /\ giver = "none"
    BY DEF TInit
  <2>2. write \in [Device -> {NoWrite, Ping} \cup DownlinkPacket]
        /\ linked \subseteq Device /\ listening \subseteq linked
    BY DEF TInit
  <2>3. waited \in BOOLEAN
    BY <2>1, Zenon
  <2>4. LinkTyped
    BY <2>1, <2>2, <2>3 DEF LinkTyped
  <2>5. GiverIsOther
    BY <2>1 DEF GiverIsOther
  <2> QED
    BY <2>4, <2>5
<1>4. CountsTyped
  <2>1. <<>> \in Seq(1..MaxImages) /\ <<>> \in Seq([report : 1..MaxReports, topic : Topic])
    OBVIOUS
  <2> QED
    BY <2>1, TrafficAssumption DEF TrafficAssumption, TInit, CountsTyped
<1>5. Staged(<<>>, 0, 0, <<>>, 0)
  BY DEF Staged, Increasing
<1>6. \A f : Numbers(<<>>, f) = <<>> /\ Number(NoPacket, f) = 0
  BY DEF Numbers, Number
<1>7. ImagesStaged /\ ReportsStaged
  <2>1. /\ fifo["downlink"] = <<>> /\ fifo["uplink"] = <<>> /\ out["downlink"] = NoPacket
        /\ out["uplink"] = NoPacket /\ shown = <<>> /\ read = <<>> /\ taken = 0 /\ reported = 0
        /\ write["RPi"] = NoWrite
    BY DEF TInit, Init, Direction, Device
  <2> QED
    BY <1>5, <1>6, <2>1, PacketFields DEF ImagesStaged, ReportsStaged
<1> QED
  BY <1>1, <1>2, <1>3, <1>4, <1>7 DEF TrafficInv

\* The work item has a packet in hand while it is sending.
LEMMA SendingHasPacket ==
    ASSUME TrafficInv, NEW d \in Direction, pc[d] = "sending"
    PROVE  /\ out[d] # NoPacket
           /\ d = "downlink" => out[d] \in DownlinkPacket
                                /\ Number(out[d], "image") = out[d].image
           /\ d = "uplink" => out[d] \in UplinkPacket
                              /\ Number(out[d], "report") = out[d].report
<1>1. out[d] # NoPacket
  BY DEF TrafficInv, IInv, OneWorkItem
<1> QED
  BY <1>1, PacketFields DEF TrafficInv, PacketsTyped, Number

\* The semaphore is taken or not there, and its giver forgotten.
LEMMA WaitTraffic == ASSUME TrafficInv, WaitForWrite PROVE TrafficInv'
<1>1. /\ nus_write_sem' \in 0..1 /\ giver' = "none" /\ waited' = TRUE
      /\ UNCHANGED <<aggregatorVars, write, linked, listening, countVars>>
  BY DEF WaitForWrite, TakeOrTimeOut, TrafficInv, LinkTyped
<1>2. IInv'
  BY <1>1, SameIInv DEF TrafficInv
<1>3. fifo' = fifo /\ out' = out
  BY <1>1 DEF aggregatorVars
<1>4. PacketsTyped' /\ ImagesStaged' /\ ReportsStaged'
  BY <1>1, <1>3 DEF countVars, TrafficInv, PacketsTyped, ImagesStaged, ReportsStaged, Number, Numbers
<1>5. LinkTyped' /\ GiverIsOther' /\ CountsTyped'
  BY <1>1 DEF countVars, TrafficInv, LinkTyped, GiverIsOther, CountsTyped, Device
<1> QED
  BY <1>2, <1>4, <1>5 DEF TrafficInv

\* What is in hand goes, to a write or to nowhere; if the semaphore is there by
\* then, a late answer gave it.
LEMMA TransmitTraffic == ASSUME TrafficInv, ble_transmit PROVE TrafficInv'
<1> DEFINE p == out["downlink"]
<1>1. PacketDone("downlink") /\ pc["downlink"] = "sending" /\ waited
  BY DEF ble_transmit, PacketDone, WriteStarts, WriteRefused, queueVars
<1>2. IInv'
  BY <1>1, WorkIInv DEF transmit_aggregated_data, TrafficInv
<1>3. p \in DownlinkPacket /\ Number(p, "image") = p.image /\ p.destination \in Device /\ p.image \in Nat
  BY <1>1, SendingHasPacket, PacketFields DEF Direction
<1>4. /\ fifo' = fifo /\ out' = [out EXCEPT !["downlink"] = NoPacket]
      /\ out'["downlink"] = NoPacket /\ out'["uplink"] = out["uplink"]
      /\ UNCHANGED <<linked, listening, countVars, nus_write_sem, giver>> /\ waited' = FALSE
  BY DEF ble_transmit, WriteStarts, WriteRefused, queueVars, TrafficInv, IInv, TypeOK, Direction
<1>5. PacketsTyped'
  BY <1>4 DEF TrafficInv, PacketsTyped
<1>6. \/ write' = write
      \/ /\ write[p.destination] = NoWrite
         /\ write' = [write EXCEPT ![p.destination] = p]
  BY DEF ble_transmit, WriteStarts, WriteRefused
<1>7. LinkTyped'
  BY <1>3, <1>4, <1>6 DEF TrafficInv, LinkTyped
<1>8. CountsTyped'
  BY <1>4 DEF TrafficInv, CountsTyped, countVars
<1>9. GiverIsOther'
  BY <1>1, <1>4 DEF TrafficInv, GiverIsOther, Device
<1>10. ReportsStaged'
  BY <1>4 DEF TrafficInv, ReportsStaged, countVars, Number, Numbers
<1>11. ImagesStaged'
  <2> DEFINE w == write["RPi"].image
             q == Numbers(fifo["downlink"], "image")
  <2>1. Staged(shown, w, p.image, q, taken)
    BY <1>3 DEF TrafficInv, ImagesStaged
  <2>2. shown \in Seq(Nat) /\ w \in Nat /\ q \in Seq(Nat) /\ taken \in Nat
    BY NumbersAreNat DEF Device
  <2>3. Staged(shown, w, 0, q, taken) /\ (w = 0 => Staged(shown, p.image, 0, q, taken))
    <3> HIDE DEF w, q, p
    <3> QED
      BY <1>3, <2>1, <2>2, StagedMoves
  <2>4. write'["RPi"].image = w \/ (w = 0 /\ write'["RPi"].image = p.image)
    <3>1. "RPi" \in Device /\ DOMAIN write = Device
      BY DEF Device, TrafficInv, LinkTyped
    <3>2. CASE write' = write
      BY <3>2
    <3>3. CASE write[p.destination] = NoWrite /\ write' = [write EXCEPT ![p.destination] = p]
      BY <3>1, <3>3, PacketFields
    <3> QED
      BY <1>6, <3>2, <3>3
  <2>5. Number(out["downlink"], "image")' = 0 /\ Numbers(fifo["downlink"], "image")' = q
        /\ shown' = shown /\ taken' = taken
    BY <1>4 DEF Number, Numbers, countVars
  <2> QED
    BY <2>3, <2>4, <2>5 DEF ImagesStaged
<1> QED
  BY <1>2, <1>5, <1>7, <1>8, <1>9, <1>10, <1>11 DEF TrafficInv

\* When the pending write of a device ends, its image may have been shown.
LEMMA WriteEnds ==
    ASSUME TrafficInv, NEW d \in Device, NEW s \in {shown, Shown(d)},
           NEW w, w = IF d = "RPi" THEN 0 ELSE write["RPi"].image
    PROVE  /\ s \in Seq(1..MaxImages) /\ s \in Seq(Nat) /\ w \in Nat
           /\ Staged(s, w, Number(out["downlink"], "image"),
                     Numbers(fifo["downlink"], "image"), taken)
<1> DEFINE o == Number(out["downlink"], "image")
           q == Numbers(fifo["downlink"], "image")
           v == write["RPi"].image
<1>1. /\ v \in Nat /\ o \in Nat /\ q \in Seq(Nat) /\ taken \in Nat /\ shown \in Seq(Nat)
  BY NumbersAreNat DEF Device
<1>2. shown \in Seq(1..MaxImages) /\ v \in 0..MaxImages /\ Staged(shown, v, o, q, taken)
  <2>1. \A x \in {NoWrite, Ping} \cup DownlinkPacket : x.image \in 0..MaxImages
    BY PacketFields, TrafficAssumption DEF TrafficAssumption
  <2> QED
    BY <2>1 DEF TrafficInv, CountsTyped, LinkTyped, ImagesStaged, Device
<1>3. \/ s = shown
      \/ d = "RPi" /\ v # 0 /\ s = Append(shown, v)
  BY DEF Shown
<1> HIDE DEF o, q, v
<1>4. /\ Staged(shown, 0, o, q, taken)
      /\ v # 0 => Staged(Append(shown, v), 0, o, q, taken)
  BY <1>1, <1>2, StagedMoves
<1>5. s \in Seq(1..MaxImages) /\ s \in Seq(Nat)
  <2>1. CASE s = shown
    BY <1>1, <1>2, <2>1
  <2>2. CASE v # 0 /\ s = Append(shown, v)
    <3>1. v \in 1..MaxImages
      BY <1>2, <2>2, TrafficAssumption DEF TrafficAssumption
    <3> QED
      BY <1>1, <1>2, <2>2, <3>1
  <2> QED
    BY <1>3, <2>1, <2>2
<1>6. w = IF d = "RPi" THEN 0 ELSE v
  BY DEF v
<1>7. Staged(s, w, o, q, taken)
  BY <1>2, <1>3, <1>4, <1>6
<1> QED
  BY <1>1, <1>5, <1>6, <1>7 DEF o, q

\* The write of d ends; d gives the semaphore and has nothing pending.
LEMMA SentTraffic ==
    ASSUME TrafficInv, NEW d \in Device, ble_data_sent(d)
    PROVE  TrafficInv'
<1>1. /\ shown' = Shown(d) /\ write' = [write EXCEPT ![d] = NoWrite] /\ nus_write_sem' = 1
      /\ giver' = (IF waited THEN "late" ELSE d)
      /\ UNCHANGED <<aggregatorVars, waited, linked, listening, taken, reported, read>>
  BY DEF ble_data_sent, k_sem_give
<1>2. IInv'
  BY <1>1, SameIInv DEF TrafficInv
<1>3. fifo' = fifo /\ out' = out
  BY <1>1 DEF aggregatorVars
<1>4. PacketsTyped' /\ ReportsStaged'
  BY <1>1, <1>3 DEF TrafficInv, PacketsTyped, ReportsStaged, Number, Numbers
<1>5. LinkTyped' /\ GiverIsOther'
  BY <1>1 DEF TrafficInv, LinkTyped, GiverIsOther, Device
<1>6. write'["RPi"].image = IF d = "RPi" THEN 0 ELSE write["RPi"].image
  BY <1>1, PacketFields DEF TrafficInv, LinkTyped, Device
<1>7. /\ shown' \in Seq(1..MaxImages)
      /\ Staged(shown', write'["RPi"].image, Number(out["downlink"], "image"),
                Numbers(fifo["downlink"], "image"), taken)
  BY <1>1, <1>6, WriteEnds
<1>8. ImagesStaged'
  BY <1>1, <1>3, <1>7 DEF ImagesStaged, Number, Numbers
<1>9. CountsTyped'
  BY <1>1, <1>7 DEF TrafficInv, CountsTyped
<1> QED
  BY <1>2, <1>4, <1>5, <1>8, <1>9 DEF TrafficInv

\* A step that puts a text, or nothing, keeps all that is said of the packets.
LEMMA TextTraffic ==
    ASSUME TrafficInv, NEW p \in DownlinkPacket, p.image = 0,
           downlink_aggregator_put(p) \/ UNCHANGED aggregatorVars,
           UNCHANGED <<taken, read, reported>>,
           NEW s, s = shown', s \in Seq(Nat), NEW w, w = write'["RPi"].image, w \in Nat,
           Staged(s, w, Number(out["downlink"], "image"), Numbers(fifo["downlink"], "image"), taken)
    PROVE  IInv' /\ PacketsTyped' /\ ImagesStaged' /\ ReportsStaged'
<1>1. CASE UNCHANGED aggregatorVars
  <2>1. IInv' /\ fifo' = fifo /\ out' = out
    BY <1>1, SameIInv DEF TrafficInv, aggregatorVars
  <2>2. PacketsTyped' /\ ReportsStaged'
    BY <2>1 DEF TrafficInv, PacketsTyped, ReportsStaged, Number, Numbers
  <2>3. ImagesStaged'
    BY <2>1 DEF ImagesStaged, Number, Numbers
  <2> QED
    BY <2>1, <2>2, <2>3
<1>2. CASE downlink_aggregator_put(p)
  <2>1. taken \in Nat /\ taken <= taken /\ p.image <= taken
    BY NumbersAreNat
  <2>2. /\ IInv' /\ PacketsTyped' /\ ReportsStaged'
        /\ Staged(s, w, Number(out["downlink"], "image")',
                  Numbers(fifo["downlink"], "image")', taken)
    BY <1>2, <2>1, PutDownlink
  <2>3. ImagesStaged'
    BY <2>2 DEF ImagesStaged
  <2> QED
    BY <2>2, <2>3
<1> QED
  BY <1>1, <1>2

\* Texts and firmware chunks are packets without a number.
LEMMA TextIsPacket ==
    /\ Text \in DownlinkPacket /\ Text.image = 0
    /\ \A d \in Device : [image |-> 0, destination |-> d] \in DownlinkPacket
  BY TrafficAssumption DEF TrafficAssumption, DownlinkPacket, Text, Device

\* The greeting takes the place of whatever was being written to d.
LEMMA DiscoveredTraffic ==
    ASSUME TrafficInv, NEW d \in Device, Discovered(d)
    PROVE  TrafficInv'
<1>1. /\ linked' = linked \cup {d} /\ listening' = listening \cup {d}
      /\ write' = [write EXCEPT ![d] = Ping]
      /\ UNCHANGED <<nus_write_sem, waited, giver, taken, shown, reported, read>>
      /\ downlink_aggregator_put(Text) \/ UNCHANGED aggregatorVars
  BY DEF Discovered, countVars
<1>2. LinkTyped' /\ GiverIsOther'
  BY <1>1 DEF TrafficInv, LinkTyped, GiverIsOther
<1>3. write'["RPi"].image = IF d = "RPi" THEN 0 ELSE write["RPi"].image
  BY <1>1, PacketFields DEF TrafficInv, LinkTyped, Device
<1>4. /\ shown' \in Seq(Nat) /\ write'["RPi"].image \in Nat
      /\ Staged(shown', write'["RPi"].image, Number(out["downlink"], "image"),
                Numbers(fifo["downlink"], "image"), taken)
  BY <1>1, <1>3, WriteEnds
<1>5. IInv' /\ PacketsTyped' /\ ImagesStaged' /\ ReportsStaged'
  BY <1>1, <1>4, TextTraffic, TextIsPacket
<1>6. CountsTyped'
  BY <1>1 DEF TrafficInv, CountsTyped
<1> QED
  BY <1>2, <1>5, <1>6 DEF TrafficInv

\* So does the loss of the connection, whether or not d got the data.
LEMMA DisconnectedTraffic ==
    ASSUME TrafficInv, NEW d \in Device, Disconnected(d)
    PROVE  TrafficInv'
<1>1. /\ linked' = linked \ {d} /\ listening' = listening \ {d}
      /\ write' = [write EXCEPT ![d] = NoWrite] /\ shown' \in {shown, Shown(d)}
      /\ UNCHANGED <<waited, taken, reported, read>>
      /\ downlink_aggregator_put(Text) \/ UNCHANGED aggregatorVars
      /\ \/ write[d] = NoWrite /\ UNCHANGED <<nus_write_sem, giver>>
         \/ nus_write_sem' = 1 /\ giver' = IF waited THEN "late" ELSE d
  BY DEF Disconnected, k_sem_give
<1>2. LinkTyped' /\ GiverIsOther'
  BY <1>1 DEF TrafficInv, LinkTyped, GiverIsOther, Device
<1>3. write'["RPi"].image = IF d = "RPi" THEN 0 ELSE write["RPi"].image
  BY <1>1, PacketFields DEF TrafficInv, LinkTyped, Device
<1>4. /\ shown' \in Seq(Nat) /\ write'["RPi"].image \in Nat /\ shown' \in Seq(1..MaxImages)
      /\ Staged(shown', write'["RPi"].image, Number(out["downlink"], "image"),
                Numbers(fifo["downlink"], "image"), taken)
  BY <1>1, <1>3, WriteEnds
<1>5. IInv' /\ PacketsTyped' /\ ImagesStaged' /\ ReportsStaged'
  BY <1>1, <1>4, TextTraffic, TextIsPacket
<1>6. CountsTyped'
  BY <1>1, <1>4 DEF TrafficInv, CountsTyped
<1> QED
  BY <1>2, <1>5, <1>6 DEF TrafficInv
\* A chunk is no image; the image that arrives is later than all others, and so
\* is the report; a malformed header only ends the subscription.
LEMMA ReceivedTraffic ==
    ASSUME TrafficInv, NEW d \in Device, ForwardChunk(d) \/ ble_data_received(d)
    PROVE  TrafficInv'
<1> DEFINE v == write["RPi"].image
<1>1. /\ shown \in Seq(Nat) /\ v \in Nat
      /\ Staged(shown, v, Number(out["downlink"], "image"), Numbers(fifo["downlink"], "image"), taken)
  BY NumbersAreNat DEF TrafficInv, ImagesStaged, Device
<1>2. CASE ForwardChunk(d)
  <2>1. /\ downlink_aggregator_put([image |-> 0, destination |-> d])
        /\ UNCHANGED <<bleVars, countVars>>
    BY <1>2 DEF ForwardChunk
  <2>2. IInv' /\ PacketsTyped' /\ ImagesStaged' /\ ReportsStaged'
    BY <1>1, <2>1, TextTraffic, TextIsPacket DEF bleVars, countVars
  <2>3. LinkTyped' /\ GiverIsOther' /\ CountsTyped'
    BY <2>1 DEF bleVars, countVars, TrafficInv, LinkTyped, GiverIsOther, CountsTyped
  <2> QED
    BY <2>2, <2>3 DEF TrafficInv
<1>3. CASE ImageReceived(d)
  <2> DEFINE p == [image |-> taken + 1, destination |-> "RPi"]
  <2>1. /\ taken < MaxImages /\ taken' = taken + 1 /\ downlink_aggregator_put(p)
        /\ UNCHANGED <<bleVars, shown, reported, read>>
    BY <1>3 DEF ImageReceived
  <2>2. taken \in Nat /\ taken' \in Nat /\ taken + 1 \in 0..MaxImages /\ taken' \in 0..MaxImages
    BY <2>1, NumbersAreNat, TrafficAssumption DEF TrafficAssumption
  <2>3. p \in DownlinkPacket /\ p.image = taken'
    BY <2>1, <2>2 DEF DownlinkPacket, Device
  <2> HIDE DEF p
  <2>4. taken <= taken' /\ p.image <= taken' /\ taken < p.image
    BY <2>1, <2>2, <2>3
  <2>5. /\ IInv' /\ PacketsTyped' /\ (UNCHANGED <<read, reported>> => ReportsStaged')
        /\ Staged(shown, v, Number(out["downlink"], "image")',
                  Numbers(fifo["downlink"], "image")', taken')
    BY <1>1, <2>1, <2>2, <2>3, <2>4, PutDownlink
  <2>6. ImagesStaged' /\ ReportsStaged'
    BY <2>1, <2>5 DEF ImagesStaged, bleVars
  <2>7. LinkTyped' /\ GiverIsOther' /\ CountsTyped'
    BY <2>1, <2>2 DEF bleVars, TrafficInv, LinkTyped, GiverIsOther, CountsTyped
  <2> QED
    BY <2>5, <2>6, <2>7 DEF TrafficInv
<1>4. ASSUME NEW t \in ReportType, ReportReceived(d, t) PROVE TrafficInv'
  <2> DEFINE p == [report |-> reported + 1, type |-> t]
  <2>1. /\ reported < MaxReports /\ reported' = reported + 1 /\ uplink_aggregator_put(p)
        /\ UNCHANGED <<bleVars, taken, shown, read>>
    BY <1>4 DEF ReportReceived
  <2>2. reported \in Nat /\ reported + 1 \in 1..MaxReports /\ reported' \in 0..MaxReports
    BY <2>1, NumbersAreNat, TrafficAssumption DEF TrafficAssumption
  <2>3. p \in UplinkPacket /\ p.report = reported' /\ p.report = reported + 1
    BY <2>1, <2>2 DEF UplinkPacket
  <2> HIDE DEF p
  <2>4. IInv' /\ PacketsTyped' /\ ImagesStaged' /\ ReportsStaged'
    BY <2>1, <2>3, PutUplink DEF bleVars
  <2>5. LinkTyped' /\ GiverIsOther' /\ CountsTyped'
    BY <2>1, <2>2 DEF bleVars, TrafficInv, LinkTyped, GiverIsOther, CountsTyped
  <2> QED
    BY <2>4, <2>5 DEF TrafficInv
<1>5. CASE HeaderMalformed(d)
  <2>1. /\ listening' = listening \ {d}
        /\ UNCHANGED <<aggregatorVars, nus_write_sem, waited, write, linked, giver, countVars>>
    BY <1>5 DEF HeaderMalformed
  <2>2. IInv' /\ fifo' = fifo /\ out' = out
    BY <2>1, SameIInv DEF TrafficInv, aggregatorVars
  <2>3. PacketsTyped' /\ ImagesStaged' /\ ReportsStaged'
    BY <2>1, <2>2 DEF countVars, TrafficInv, PacketsTyped, ImagesStaged, ReportsStaged, Number, Numbers
  <2>4. LinkTyped' /\ GiverIsOther' /\ CountsTyped'
    BY <2>1 DEF countVars, TrafficInv, LinkTyped, GiverIsOther, CountsTyped
  <2> QED
    BY <2>2, <2>3, <2>4 DEF TrafficInv
<1> QED
  BY <1>2, <1>3, <1>4, <1>5 DEF ble_data_received

\* A report in hand is published or lost.
LEMMA PublishTraffic == ASSUME TrafficInv, Publish \/ PublishFails PROVE TrafficInv'
<1> DEFINE p == out["uplink"]
           s == Numbers(read, "report")
           q == Numbers(fifo["uplink"], "report")
<1>1. /\ PacketDone("uplink") /\ pc["uplink"] = "sending"
      /\ UNCHANGED <<bleVars, taken, shown, reported>>
      /\ read' = read \/ read' = Append(read, Published(p))
  BY DEF Publish, PublishFails, PacketDone, countVars
<1>2. IInv'
  BY <1>1, WorkIInv DEF publish_aggregated_data, TrafficInv
<1>3. p \in UplinkPacket /\ Number(p, "report") = p.report /\ p.report \in 1..MaxReports
      /\ p.report \in Nat /\ p.report # 0 /\ p.type \in ReportType
  BY <1>1, SendingHasPacket, PacketFields DEF Direction
<1>4. /\ fifo' = fifo /\ out'["uplink"] = NoPacket /\ out'["downlink"] = out["downlink"]
  BY <1>1 DEF PacketDone, TrafficInv, IInv, TypeOK, Direction
<1>5. PacketsTyped' /\ ImagesStaged'
  BY <1>1, <1>4 DEF bleVars, TrafficInv, PacketsTyped, ImagesStaged, Number, Numbers
<1>6. LinkTyped' /\ GiverIsOther'
  BY <1>1 DEF bleVars, TrafficInv, LinkTyped, GiverIsOther
<1> DEFINE R == [report : 1..MaxReports, topic : Topic]
<1>7. Published(p) \in R /\ Published(p)["report"] = p.report /\ read \in Seq(R)
  BY <1>3 DEF Published, Topic, TrafficInv, CountsTyped
<1>8. CountsTyped'
  <2>1. read' \in Seq(R)
    <3> HIDE DEF R, p
    <3> QED
      BY <1>1, <1>7
  <2> QED
    BY <1>1, <2>1 DEF TrafficInv, CountsTyped
<1>9. /\ s \in Seq(Nat) /\ q \in Seq(Nat) /\ reported \in Nat
      /\ Staged(s, 0, p.report, q, reported)
  BY <1>3, NumbersAreNat DEF TrafficInv, ReportsStaged
<1>10. Numbers(Append(read, Published(p)), "report") = Append(s, p.report)
  <2>1. Numbered(R, "report")
    BY PacketsNumbered
  <2> DEFINE x == Published(p)
  <2>2. x \in R /\ x["report"] = p.report
    BY <1>7
  <2> HIDE DEF R, x
  <2>3. Numbers(Append(read, x), "report") = Append(s, x["report"])
    BY <1>7, <2>1, <2>2, NumbersAppend
  <2> QED
    BY <2>2, <2>3 DEF x
<1>11. /\ Staged(s, 0, 0, q, reported)
       /\ Staged(Append(s, p.report), 0, 0, q, reported)
  <2> HIDE DEF s, q, p
  <2>1. Staged(s, p.report, 0, q, reported)
    BY <1>3, <1>9, StagedMoves
  <2> QED
    BY <1>3, <1>9, <2>1, StagedMoves
<1>12. ReportsStaged'
  <2>1. Number(out["uplink"], "report")' = 0 /\ Numbers(fifo["uplink"], "report")' = q
        /\ reported' = reported /\ Numbers(read, "report")' = Numbers(read', "report")
    BY <1>1, <1>4 DEF Number, Numbers
  <2> QED
    BY <1>1, <1>10, <1>11, <2>1 DEF ReportsStaged
<1> QED
  BY <1>2, <1>5, <1>6, <1>8, <1>12 DEF TrafficInv
\* A get takes the first packet, which comes before all that wait, into hands
\* that are empty; the other steps of the work items do not touch the packets.
LEMMA WorkTraffic == ASSUME TrafficInv, AggregatorWork PROVE TrafficInv'
<1>1. UNCHANGED <<bleVars, countVars>>
  BY DEF AggregatorWork
<1>2. publish_aggregated_data \/ transmit_aggregated_data
  BY DEF AggregatorWork, publish_aggregated_data, transmit_aggregated_data, Direction
<1>3. IInv'
  BY <1>2, WorkIInv DEF TrafficInv
<1>4. LinkTyped' /\ GiverIsOther' /\ CountsTyped'
  BY <1>1 DEF bleVars, countVars, TrafficInv, LinkTyped, GiverIsOther, CountsTyped
<1>5. /\ \A d \in Direction : Numbers(fifo[d], "image")' = Numbers(fifo'[d], "image")
                              /\ Numbers(fifo[d], "report")' = Numbers(fifo'[d], "report")
      /\ Numbers(read, "report")' = Numbers(read, "report")
  BY <1>1 DEF Numbers, countVars
<1>6. CASE uplink_aggregator_get
  <2> DEFINE t == fifo["uplink"]
             s == Numbers(read, "report")
             q == Numbers(t, "report")
  <2>1. /\ t # <<>> /\ t \in Seq(UplinkPacket) /\ out["uplink"] = NoPacket
        /\ fifo'["uplink"] = Tail(t) /\ fifo'["downlink"] = fifo["downlink"]
        /\ out'["uplink"] = Head(t) /\ out'["downlink"] = out["downlink"]
    BY <1>6 DEF uplink_aggregator_get, TrafficInv, IInv, TypeOK, OneWorkItem, PacketsTyped, Direction
  <2>2. Head(t) \in UplinkPacket /\ Tail(t) \in Seq(UplinkPacket)
    BY <2>1
  <2>3. PacketsTyped' /\ ImagesStaged'
    BY <1>1, <2>1, <2>2
    DEF bleVars, countVars, TrafficInv, PacketsTyped, ImagesStaged, Number, Numbers
  <2>4. s \in Seq(Nat) /\ q \in Seq(Nat) /\ reported \in Nat /\ Staged(s, 0, 0, q, reported)
    BY <2>1, NumbersAreNat DEF TrafficInv, ReportsStaged, Number
  <2>5. q # <<>> /\ Head(q) = Head(t)["report"] /\ Numbers(Tail(t), "report") = Tail(q)
    BY <2>1, PacketsNumbered, NumbersTail
  <2>6. Staged(s, 0, Head(q), Tail(q), reported)
    <3> HIDE DEF s, q
    <3> QED
      BY <2>4, <2>5, StagedTail
  <2>7. Number(out["uplink"], "report")' = Head(q)
    BY <2>1, <2>2, <2>5, PacketFields DEF Number
  <2>8. ReportsStaged'
    BY <1>1, <1>5, <2>1, <2>5, <2>6, <2>7 DEF ReportsStaged, countVars, Direction
  <2> QED
    BY <1>3, <1>4, <2>3, <2>8 DEF TrafficInv
<1>7. CASE DownlinkDequeue
  <2> DEFINE t == fifo["downlink"]
             w == write["RPi"].image
             q == Numbers(t, "image")
  <2>1. /\ t # <<>> /\ t \in Seq(DownlinkPacket) /\ out["downlink"] = NoPacket
        /\ fifo'["downlink"] = Tail(t) /\ fifo'["uplink"] = fifo["uplink"]
        /\ out'["downlink"] = Head(t) /\ out'["uplink"] = out["uplink"]
    BY <1>7 DEF DownlinkDequeue, TrafficInv, IInv, TypeOK, OneWorkItem, PacketsTyped, Direction
  <2>2. Head(t) \in DownlinkPacket /\ Tail(t) \in Seq(DownlinkPacket)
    BY <2>1
  <2>3. PacketsTyped' /\ ReportsStaged'
    BY <1>1, <2>1, <2>2 DEF countVars, TrafficInv, PacketsTyped, ReportsStaged, Number, Numbers
  <2>4. /\ shown \in Seq(Nat) /\ w \in Nat /\ q \in Seq(Nat) /\ taken \in Nat
        /\ Staged(shown, w, 0, q, taken)
    BY <2>1, NumbersAreNat DEF TrafficInv, ImagesStaged, Number, Device
  <2>5. q # <<>> /\ Head(q) = Head(t)["image"] /\ Numbers(Tail(t), "image") = Tail(q)
    BY <2>1, PacketsNumbered, NumbersTail
  <2>6. Staged(shown, w, Head(q), Tail(q), taken)
    <3> HIDE DEF w, q
    <3> QED
      BY <2>4, <2>5, StagedTail
  <2>7. Number(out["downlink"], "image")' = Head(q)
    BY <2>1, <2>2, <2>5, PacketFields DEF Number
  <2>8. ImagesStaged'
    BY <1>1, <1>5, <2>1, <2>5, <2>6, <2>7 DEF ImagesStaged, bleVars, countVars, Direction
  <2> QED
    BY <1>3, <1>4, <2>3, <2>8 DEF TrafficInv
<1>8. CASE DownlinkRelease \/ \E d \in Direction : StartWork(d) \/ WorkEnds(d)
  <2>1. fifo' = fifo /\ out' = out
    BY <1>8 DEF DownlinkRelease, StartWork, WorkEnds
  <2>2. PacketsTyped' /\ ImagesStaged' /\ ReportsStaged'
    BY <1>1, <2>1
    DEF bleVars, countVars, TrafficInv, PacketsTyped, ImagesStaged, ReportsStaged, Number, Numbers
  <2> QED
    BY <1>3, <1>4, <2>2 DEF TrafficInv
<1> QED
  BY <1>6, <1>7, <1>8 DEF AggregatorWork
-----------------------------------------------------------------------------
\* The types, the order of images and reports and the semaphore's giver hold
\* together in every state.
THEOREM TrafficInductive == TSpec => []TrafficInv
<1>1. TrafficInv /\ [TNext]_trafficVars => TrafficInv'
  <2> SUFFICES ASSUME TrafficInv, [TNext]_trafficVars PROVE TrafficInv'
    OBVIOUS
  <2>1. CASE UNCHANGED trafficVars
    <3>1. IInv'
      BY <2>1, SameIInv DEF trafficVars, TrafficInv
    <3>2. UNCHANGED <<fifo, out, bleVars, countVars>>
      BY <2>1 DEF trafficVars, aggregatorVars
    <3>3. PacketsTyped' /\ ImagesStaged' /\ ReportsStaged'
      BY <3>2 DEF bleVars, countVars, TrafficInv, PacketsTyped, ImagesStaged, ReportsStaged,
                  Number, Numbers
    <3>4. LinkTyped' /\ GiverIsOther' /\ CountsTyped'
      BY <3>2 DEF bleVars, countVars, TrafficInv, LinkTyped, GiverIsOther, CountsTyped
    <3> QED
      BY <3>1, <3>3, <3>4 DEF TrafficInv
  <2> QED
    BY <2>1, WaitTraffic, TransmitTraffic, SentTraffic, DiscoveredTraffic, DisconnectedTraffic,
       ReceivedTraffic, PublishTraffic, WorkTraffic DEF TNext
<1> QED
  BY InitTrafficInv, <1>1, PTL DEF TSpec

\* The types hold in every state, for any number of images and reports, any FIFO
\* and any heap.
THEOREM TrafficTypeCorrect == TSpec => []TrafficTypeOK
<1>1. TrafficInv => TrafficTypeOK
  BY DEF TrafficInv, IInv, LinkTyped, CountsTyped, TrafficTypeOK, TrafficPacket
<1> QED
  BY TrafficInductive, <1>1, PTL

\* The semaphore is opened behind a packet that is being written by the other
\* device or by an answer between wait and write, never by a time-out, a greeting
\* or a refused write: the type of a packet tells it from the greeting.
THEOREM OpenedByOtherOrLate == TSpec => []OtherOrLateOpens
<1>1. TrafficInv => OtherOrLateOpens
  BY PacketFields DEF TrafficInv, GiverIsOther, OtherOrLateOpens, TrafficPacket
<1> QED
  BY TrafficInductive, <1>1, PTL

\* However many images the camera takes, the train shows them in that order and
\* none twice, through overflows, late answers and lost connections.
THEOREM ImagesKeepOrder == TSpec => []ImagesInOrder
<1>1. TrafficInv => ImagesInOrder
  BY DEF TrafficInv, ImagesStaged, Staged, ImagesInOrder
<1> QED
  BY TrafficInductive, <1>1, PTL

\* However many reports the devices send, they are published in that order and
\* none twice.
THEOREM ReportsKeepOrder == TSpec => []ReportsInOrder
<1>1. Numbers(read, "report") = [i \in 1..Len(read) |-> read[i].report]
  BY DEF Numbers
<1>2. TrafficInv => ReportsInOrder
  BY <1>1 DEF TrafficInv, ReportsStaged, Staged, ReportsInOrder
<1> QED
  BY TrafficInductive, <1>2, PTL
-----------------------------------------------------------------------------
\* What may still come out once number w has, of those up to m.
LEMMA LaterNumbers ==
    ASSUME NEW l \in Nat, NEW m \in Nat, NEW w \in Nat, l < w, w <= m
    PROVE  w \in (l + 1)..m /\ (w + 1)..m = {n \in (l + 1)..m : n > w}
  OBVIOUS

\* Each published report has its number.
LEMMA ReadHasNumbers ==
    ASSUME TrafficInv
    PROVE  /\ read \in Seq([report : 1..MaxReports, topic : Topic]) /\ Len(read) \in Nat
           /\ Len(Numbers(read, "report")) = Len(read)
           /\ \A i \in 1..Len(read) : /\ Numbers(read, "report")[i] = read[i]["report"]
                                      /\ read[i]["report"] \in Nat
<1> DEFINE S == [report : 1..MaxReports, topic : Topic]
<1>1. read \in Seq(S)
  BY DEF TrafficInv, CountsTyped
<1>2. Numbered(S, "report")
  BY PacketsNumbered
<1> HIDE DEF S
<1>3. Len(read) \in Nat /\ \A i \in 1..Len(read) : read[i] \in S
  BY <1>1
<1>4. \A i \in 1..Len(read) : read[i]["report"] \in Nat
  BY ONLY <1>2, <1>3 DEF Numbered
<1>5. Len(Numbers(read, "report")) = Len(read)
  BY ONLY <1>1, <1>2, NumbersSeq
<1>6. \A i \in 1..Len(read) : Numbers(read, "report")[i] = read[i]["report"]
  BY ONLY <1>1, <1>2, NumbersSeq
<1> QED
  BY <1>1, <1>3, <1>4, <1>5, <1>6 DEF S

\* The last image shown, and the last report published, are numbers among those
\* that arrived.
LEMMA LastNumbers ==
    ASSUME TrafficInv
    PROVE  /\ LastShown \in Nat /\ taken \in Nat /\ LastShown <= taken
           /\ LastRead \in Nat /\ reported \in Nat /\ LastRead <= reported
<1>1. /\ shown \in Seq(Nat) /\ Numbers(read, "report") \in Seq(Nat)
      /\ taken \in Nat /\ reported \in Nat
  BY NumbersAreNat
<1>2. LastShown \in Nat /\ LastShown <= taken
  <2>1. \A i \in 1..Len(shown) : shown[i] <= taken
    BY DEF TrafficInv, ImagesStaged, Staged
  <2>2. CASE shown = <<>>
    BY <1>1, <2>2 DEF LastShown
  <2>3. CASE shown # <<>>
    <3>1. Len(shown) \in 1..Len(shown) /\ shown[Len(shown)] \in Nat
      BY <1>1, <2>3
    <3> QED
      BY <2>1, <2>3, <3>1 DEF LastShown
  <2> QED
    BY <2>2, <2>3
<1>3. LastRead \in Nat /\ LastRead <= reported
  <2>1. /\ Len(read) \in Nat /\ Len(Numbers(read, "report")) = Len(read)
        /\ \A i \in 1..Len(read) : /\ Numbers(read, "report")[i] = read[i]["report"]
                                   /\ read[i]["report"] \in Nat
    BY ReadHasNumbers
  <2>2. \A i \in 1..Len(Numbers(read, "report")) : Numbers(read, "report")[i] <= reported
    BY DEF TrafficInv, ReportsStaged, Staged
  <2>3. CASE read = <<>>
    BY <1>1, <2>3 DEF LastRead
  <2>4. CASE read # <<>>
    <3>1. Len(read) \in 1..Len(read)
      <4>1. read \in Seq([report : 1..MaxReports, topic : Topic])
        BY ReadHasNumbers
      <4> QED
        BY <2>4, <4>1
    <3>2. LastRead = read[Len(read)]["report"]
      BY <2>4 DEF LastRead
    <3> QED
      BY ONLY <2>1, <2>2, <3>1, <3>2
  <2> QED
    BY <2>3, <2>4
<1> QED
  BY <1>1, <1>2, <1>3

\* An image is shown when its write ends: it has been taken, and comes after the
\* last one shown.
LEMMA ShownIsLater ==
    ASSUME TrafficInv, shown' = Append(shown, write["RPi"].image), write["RPi"].image # 0
    PROVE  /\ LastShown' = write["RPi"].image /\ write["RPi"].image \in Nat
           /\ LastShown < LastShown' /\ LastShown' <= taken
<1> DEFINE w == write["RPi"].image
<1>1. shown \in Seq(Nat) /\ w \in Nat /\ w # 0 /\ taken \in Nat /\ shown' = Append(shown, w)
  BY NumbersAreNat DEF Device
<1>2. w <= taken /\ \A i \in 1..Len(shown) : w # 0 => shown[i] < w
  BY DEF TrafficInv, ImagesStaged, Staged
<1> HIDE DEF w
<1>3. LastShown' = w
  BY <1>1 DEF LastShown
<1>4. LastShown < w
  <2>1. CASE shown = <<>>
    BY <1>1, <2>1 DEF LastShown
  <2>2. CASE shown # <<>>
    <3>1. Len(shown) \in 1..Len(shown)
      BY <1>1, <2>2
    <3> QED
      BY <1>1, <1>2, <2>2, <3>1 DEF LastShown
  <2> QED
    BY <2>1, <2>2
<1> QED
  BY <1>1, <1>2, <1>3, <1>4 DEF w

\* A report is published out of the hands of the work item: it has arrived, and
\* comes after the last one published.
LEMMA PublishedIsLater ==
    ASSUME TrafficInv, Publish
    PROVE  LastRead' \in Nat /\ LastRead < LastRead' /\ LastRead' <= reported
<1> DEFINE p == out["uplink"]
           r == p.report
<1>1. read' = Append(read, Published(p)) /\ p \in UplinkPacket
  <2>1. pc["uplink"] = "sending" /\ read' = Append(read, Published(out["uplink"]))
    BY DEF Publish
  <2>2. out["uplink"] \in UplinkPacket
    BY <2>1, SendingHasPacket DEF Direction
  <2> QED
    BY <2>1, <2>2
<1>2. r \in Nat /\ r # 0 /\ Number(p, "report") = r /\ Published(p).report = r
  BY <1>1, PacketFields DEF Number, Published
<1>3. read \in Seq([report : 1..MaxReports, topic : Topic])
  BY ReadHasNumbers
<1>4. /\ Len(read) \in Nat /\ Len(Numbers(read, "report")) = Len(read)
      /\ \A i \in 1..Len(read) : /\ Numbers(read, "report")[i] = read[i]["report"]
                                 /\ read[i]["report"] \in Nat
  BY ReadHasNumbers
<1>5. /\ r <= reported
      /\ \A i \in 1..Len(Numbers(read, "report")) : Numbers(read, "report")[i] < r
  BY <1>2 DEF TrafficInv, ReportsStaged, Staged
<1> HIDE DEF p, r
<1>6. LastRead' = r
  <2>1. read' # <<>> /\ read'[Len(read')] = Published(p)
    BY <1>1, <1>3
  <2> QED
    BY <1>2, <2>1 DEF LastRead
<1>7. LastRead < r
  <2>1. CASE read = <<>>
    BY <1>2, <2>1 DEF LastRead
  <2>2. CASE read # <<>>
    <3>1. Len(read) \in 1..Len(read)
      BY <1>3, <2>2
    <3>2. LastRead = read[Len(read)]["report"]
      BY <2>2 DEF LastRead
    <3> QED
      BY ONLY <1>4, <1>5, <3>1, <3>2
  <2> QED
    BY <2>1, <2>2
<1> QED
  BY <1>2, <1>5, <1>6, <1>7

\* Seen from the counts, every step takes an image, shows one, or neither,
LEMMA ImageSteps ==
    ASSUME TrafficInv, [TNext]_trafficVars
    PROVE  \/ taken' = taken /\ shown' = shown
           \/ taken' = taken + 1 /\ shown' = shown
           \/ /\ taken' = taken /\ write["RPi"].image # 0
              /\ shown' = Append(shown, write["RPi"].image)
<1>1. CASE UNCHANGED trafficVars
  BY <1>1 DEF trafficVars, countVars
<1>2. ASSUME NEW d \in Device, ble_data_sent(d) \/ Disconnected(d)
      PROVE  /\ taken' = taken
             /\ \/ shown' = shown
                \/ write["RPi"].image # 0 /\ shown' = Append(shown, write["RPi"].image)
  BY <1>2 DEF ble_data_sent, Disconnected, Shown
<1>3. ASSUME NEW d \in Device, ble_data_received(d)
      PROVE  shown' = shown /\ taken' \in {taken, taken + 1}
  BY <1>3 DEF ble_data_received, ImageReceived, ReportReceived, HeaderMalformed, countVars
<1>4. ASSUME NEW d \in Device, Discovered(d) \/ ForwardChunk(d)
      PROVE  taken' = taken /\ shown' = shown
  BY <1>4 DEF Discovered, ForwardChunk, countVars
<1>5. CASE WaitForWrite \/ ble_transmit \/ Publish \/ PublishFails \/ AggregatorWork
  BY <1>5 DEF WaitForWrite, ble_transmit, Publish, PublishFails, AggregatorWork, countVars
<1> QED
  BY <1>1, <1>2, <1>3, <1>4, <1>5 DEF TNext

\* and lets a report in, publishes one, or neither.
LEMMA ReportSteps ==
    ASSUME [TNext]_trafficVars
    PROVE  \/ reported' = reported /\ read' = read
           \/ reported' = reported + 1 /\ read' = read
           \/ reported' = reported /\ Publish
<1>1. CASE UNCHANGED trafficVars
  BY <1>1 DEF trafficVars, countVars
<1>2. ASSUME NEW d \in Device, ble_data_sent(d) \/ Disconnected(d) \/ Discovered(d) \/ ForwardChunk(d)
      PROVE  reported' = reported /\ read' = read
  BY <1>2 DEF ble_data_sent, Disconnected, Discovered, ForwardChunk, countVars
<1>3. ASSUME NEW d \in Device, ble_data_received(d)
      PROVE  read' = read /\ reported' \in {reported, reported + 1}
  BY <1>3 DEF ble_data_received, ImageReceived, ReportReceived, HeaderMalformed, countVars
<1>4. CASE WaitForWrite \/ ble_transmit \/ PublishFails \/ AggregatorWork
  BY <1>4 DEF WaitForWrite, ble_transmit, PublishFails, AggregatorWork, countVars
<1>5. Publish => reported' = reported
  BY DEF Publish
<1> QED
  BY <1>1, <1>2, <1>3, <1>4, <1>5 DEF TNext

\* The way of the images, from the camera to the train, implements the ordered
\* lossy channel: an image that is shown has been taken and is later than all
\* shown before, whatever FIFO, semaphore, time-outs and connections do.
THEOREM ImagesImplementChannel == TSpec => ImageChannel!Spec
<1>1. TInit => ImageChannel!Init
  <2> SUFFICES ASSUME TInit PROVE taken = 0 /\ LastShown = 0 /\ (LastShown + 1)..taken = {}
    BY DEF ImageChannel!Init
  <2>1. taken = 0 /\ LastShown = 0
    BY DEF TInit, LastShown
  <2> QED
    BY <2>1
<1>2. TrafficInv /\ [TNext]_trafficVars => [ImageChannel!Next]_(ImageChannel!channelVars)
  <2> SUFFICES ASSUME TrafficInv, [TNext]_trafficVars
               PROVE  [ImageChannel!Next]_(ImageChannel!channelVars)
    OBVIOUS
  <2>1. LastShown \in Nat /\ taken \in Nat /\ LastShown <= taken
    BY LastNumbers
  <2>2. CASE taken' = taken /\ shown' = shown
    BY <2>2 DEF ImageChannel!channelVars, LastShown
  <2>3. CASE taken' = taken + 1 /\ shown' = shown
    <3>1. LastShown' = LastShown
      BY <2>3 DEF LastShown
    <3>2. (LastShown + 1)..(taken + 1) \in SUBSET ((LastShown + 1)..taken \cup {taken + 1})
      BY <2>1
    <3> QED
      BY <2>3, <3>1, <3>2 DEF ImageChannel!Next, ImageChannel!Offer
  <2>4. CASE /\ taken' = taken /\ write["RPi"].image # 0
             /\ shown' = Append(shown, write["RPi"].image)
    <3>1. LastShown' \in Nat /\ LastShown < LastShown' /\ LastShown' <= taken
      BY <2>4, ShownIsLater
    <3>2. /\ LastShown' \in (LastShown + 1)..taken
          /\ (LastShown' + 1)..taken = {n \in (LastShown + 1)..taken : n > LastShown'}
      BY <2>1, <3>1, LaterNumbers
    <3> QED
      BY <2>4, <3>2 DEF ImageChannel!Next, ImageChannel!Deliver
  <2> QED
    BY <2>2, <2>3, <2>4, ImageSteps
<1> QED
  BY <1>1, <1>2, TrafficInductive, PTL DEF TSpec, ImageChannel!Spec

\* The way of the reports, from the devices to the broker, implements it too.
THEOREM ReportsImplementChannel == TSpec => ReportChannel!Spec
<1>1. TInit => ReportChannel!Init
  <2> SUFFICES ASSUME TInit PROVE reported = 0 /\ LastRead = 0 /\ (LastRead + 1)..reported = {}
    BY DEF ReportChannel!Init
  <2>1. reported = 0 /\ LastRead = 0
    BY DEF TInit, LastRead
  <2> QED
    BY <2>1
<1>2. TrafficInv /\ [TNext]_trafficVars => [ReportChannel!Next]_(ReportChannel!channelVars)
  <2> SUFFICES ASSUME TrafficInv, [TNext]_trafficVars
               PROVE  [ReportChannel!Next]_(ReportChannel!channelVars)
    OBVIOUS
  <2>1. LastRead \in Nat /\ reported \in Nat /\ LastRead <= reported
    BY LastNumbers
  <2>2. CASE reported' = reported /\ read' = read
    BY <2>2 DEF ReportChannel!channelVars, LastRead
  <2>3. CASE reported' = reported + 1 /\ read' = read
    <3>1. LastRead' = LastRead
      BY <2>3 DEF LastRead
    <3>2. (LastRead + 1)..(reported + 1) \in SUBSET ((LastRead + 1)..reported \cup {reported + 1})
      BY <2>1
    <3> QED
      BY <2>3, <3>1, <3>2 DEF ReportChannel!Next, ReportChannel!Offer
  <2>4. CASE reported' = reported /\ Publish
    <3>1. LastRead' \in Nat /\ LastRead < LastRead' /\ LastRead' <= reported
      BY <2>4, PublishedIsLater
    <3>2. /\ LastRead' \in (LastRead + 1)..reported
          /\ (LastRead' + 1)..reported = {n \in (LastRead + 1)..reported : n > LastRead'}
      BY <2>1, <3>1, LaterNumbers
    <3> QED
      BY <2>4, <3>2 DEF ReportChannel!Next, ReportChannel!Deliver
  <2> QED
    BY <2>2, <2>3, <2>4, ReportSteps
<1> QED
  BY <1>1, <1>2, TrafficInductive, PTL DEF TSpec, ReportChannel!Spec

\* End to end, for any number of images and reports, any FIFO and any heap, what
\* the gateway offers its devices is the abstract channel, both ways.
THEOREM TrafficImplementsChannels == TSpec => ThroughChannels
  BY ImagesImplementChannel, ReportsImplementChannel DEF ThroughChannels
=============================================================================
