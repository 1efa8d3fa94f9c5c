------------------------ MODULE ChunkForwardingProofs ------------------------
(***************************************************************************)
(* Chunks on their way through the gateway, for any number of devices and    *)
(* chunks, any length of the FIFO and any size of the heap: in order, at     *)
(* most once, never before the notification, and never skipped by a resend   *)
(* that a NACK asks for.                                                    *)
(***************************************************************************)
EXTENDS ChunkForwarding, AggregatorProofs

\* The chunks of d are in order: first those delivered, then the one in the
\* work item's hands, then those in the FIFO, all before chunk n.
Ordered(d, s, o, del, n) ==
    /\ \A i \in 1..Len(s) : s[i].dest = d => s[i].id < n
    /\ \A i \in 1..Len(s) : s[i].dest = d /\ s[i].id # NotAChunk =>
        /\ \A k \in del : k < s[i].id
        /\ \A j \in 1..(i - 1) : s[j].dest = d => s[j].id < s[i].id
        /\ o # NoPacket /\ o.dest = d => o.id < s[i].id
    /\ \A k \in del : k < n
    /\ o # NoPacket /\ o.dest = d => o.id < n
    /\ o # NoPacket /\ o.dest = d /\ o.id # NotAChunk => \A k \in del : k < o.id

AllOrdered ==
    \A d \in Device : Ordered(d, Downlink, out["downlink"], Got(d), NextChunk(d))

\* What AllOrdered needs to know of the aggregator: the work item has a packet
\* in hand when it is about to transmit.
WorkInv ==
    /\ fifo \in [Direction -> Seq(DownlinkPacket)]
    /\ pc \in [Direction -> {"waiting", "polling", "dequeued", "sending"}]
    /\ out \in [Direction -> DownlinkPacket \cup {NoPacket}]
    /\ pc["downlink"] \in {"dequeued", "sending"} => out["downlink"] # NoPacket

\* Before the notification nothing is counted or about to be.
ControlInv ==
    /\ ControlTypeOK
    /\ handler \in Device \cup {NoDevice}
    /\ delivered \in [Device -> Seq(ChunkId)]
    /\ \A d \in Device : ~flag[d] => current[d] = 0 /\ handler # d

ForwardInv == WorkInv /\ ControlInv /\ AllOrdered
-----------------------------------------------------------------------------
\* Facts about packets and the numbers they carry.
LEMMA PacketFacts ==
  /\ \A p \in DownlinkPacket : p.dest \in Device /\ p.id \in Int /\ (p.id # NotAChunk => p.id \in ChunkId)
  /\ NoPacket \notin DownlinkPacket
  /\ ChunkId \subseteq Nat
<1>1. ChunkId \subseteq Nat
  BY UpdateAssumption DEF UpdateAssumption
<1>2. NoPacket \notin DownlinkPacket
  BY AggregatorAssumption, ForwardingAssumption DEF AggregatorAssumption, ForwardingAssumption
<1>3. ASSUME NEW p \in DownlinkPacket
      PROVE  p.dest \in Device /\ p.id \in Int /\ (p.id # NotAChunk => p.id \in ChunkId)
  <2>1. p.dest \in Device /\ p.id \in ChunkId \cup {NotAChunk}
    BY DEF DownlinkPacket
  <2>2. NotAChunk \in Int
    BY DEF NotAChunk
  <2>3. \A k \in ChunkId : k \in Int
    BY <1>1
  <2> QED
    BY <2>1, <2>2, <2>3
<1> QED
  BY <1>1, <1>2, <1>3

\* Nothing on its way is in order, whatever number comes next,
LEMMA OrderedEmpty ==
  ASSUME NEW d, NEW n
  PROVE  Ordered(d, <<>>, NoPacket, {}, n)
  BY DEF Ordered

\* and what is in order stays so when a later number comes next.
LEMMA OrderedMore ==
  ASSUME NEW d \in Device, NEW s \in Seq(DownlinkPacket), NEW o \in DownlinkPacket \cup {NoPacket},
         NEW del \in SUBSET ChunkId, NEW n \in Nat, NEW m \in Nat, n <= m,
         Ordered(d, s, o, del, n)
  PROVE  Ordered(d, s, o, del, m)
<1>1. \A i \in 1..Len(s) : s[i].id \in Int
  BY PacketFacts
<1> QED
  BY <1>1, PacketFacts DEF Ordered

\* The entry given up when the FIFO is full.
LEMMA OrderedTail ==
  ASSUME NEW d \in Device, NEW s \in Seq(DownlinkPacket), s # <<>>,
         NEW o, NEW del, NEW n, Ordered(d, s, o, del, n)
  PROVE  Tail(s) \in Seq(DownlinkPacket) /\ Ordered(d, Tail(s), o, del, n)
<1>1. /\ Tail(s) \in Seq(DownlinkPacket) /\ Len(Tail(s)) = Len(s) - 1 /\ Len(s) \in Nat
      /\ \A i \in 1..Len(Tail(s)) : Tail(s)[i] = s[i + 1] /\ i + 1 \in 1..Len(s)
  OBVIOUS
<1>2. \A i \in 1..Len(Tail(s)) : \A j \in 1..(i - 1) : j \in 1..Len(Tail(s)) /\ j + 1 \in 1..((i + 1) - 1)
  BY <1>1
<1> QED
  BY <1>1, <1>2 DEF Ordered

\* A packet added, which carries the next chunk of d or none of them.
LEMMA OrderedAppend ==
  ASSUME NEW d \in Device, NEW s \in Seq(DownlinkPacket), NEW o \in DownlinkPacket \cup {NoPacket},
         NEW del \in SUBSET ChunkId, NEW n \in Nat, NEW m \in Nat, n <= m,
         NEW p \in DownlinkPacket, p.dest = d => p.id < m /\ (p.id # NotAChunk => n <= p.id),
         Ordered(d, s, o, del, n)
  PROVE  Append(s, p) \in Seq(DownlinkPacket) /\ Ordered(d, Append(s, p), o, del, m)
<1> DEFINE t == Append(s, p)
<1>1. /\ t \in Seq(DownlinkPacket) /\ Len(t) = Len(s) + 1 /\ Len(s) \in Nat
      /\ t[Len(s) + 1] = p /\ \A i \in 1..Len(s) : t[i] = s[i]
  OBVIOUS
<1>2. Ordered(d, s, o, del, m)
  BY OrderedMore
<1> HIDE DEF t
<1>3. \A i \in 1..Len(t) : i \in 1..Len(s) \/ i = Len(s) + 1
  BY <1>1
<1>4. \A i \in 1..Len(t) : t[i].dest = d => t[i].id < m
  BY <1>1, <1>2, <1>3 DEF Ordered
<1>5. ASSUME NEW i \in 1..Len(t), t[i].dest = d, t[i].id # NotAChunk
      PROVE  /\ \A k \in del : k < t[i].id
             /\ \A j \in 1..(i - 1) : t[j].dest = d => t[j].id < t[i].id
             /\ o # NoPacket /\ o.dest = d => o.id < t[i].id
  <2>1. CASE i \in 1..Len(s)
    <3>1. \A j \in 1..(i - 1) : j \in 1..Len(s)
      BY <1>1, <2>1
    <3> QED
      BY <1>1, <1>5, <2>1, <3>1 DEF Ordered
  <2>2. CASE i = Len(s) + 1
    <3>1. t[i] = p /\ n <= p.id /\ p.id \in Int
      BY <1>1, <1>5, <2>2, PacketFacts
    <3>2. \A j \in 1..(i - 1) : j \in 1..Len(s) /\ t[j] = s[j] /\ s[j].id \in Int
      BY <1>1, <2>2, PacketFacts
    <3>3. \A j \in 1..(i - 1) : t[j].dest = d => t[j].id < t[i].id
      BY <3>1, <3>2 DEF Ordered
    <3>4. \A k \in del : k < t[i].id
      BY <3>1, PacketFacts DEF Ordered
    <3>5. o # NoPacket /\ o.dest = d => o.id < t[i].id
      BY <3>1, PacketFacts DEF Ordered
    <3> QED
      BY <3>3, <3>4, <3>5
  <2> QED
    BY <1>3, <2>1, <2>2
<1>6. Ordered(d, t, o, del, m)
  BY <1>2, <1>4, <1>5 DEF Ordered
<1> QED
  BY <1>1, <1>6 DEF t

\* The work item takes the first entry of the FIFO.
LEMMA OrderedHead ==
  ASSUME NEW d \in Device, NEW s \in Seq(DownlinkPacket), s # <<>>,
         NEW o, NEW del, NEW n, Ordered(d, s, o, del, n)
  PROVE  Head(s) \in DownlinkPacket /\ Ordered(d, Tail(s), Head(s), del, n)
<1>1. /\ Head(s) = s[1] /\ Head(s) \in DownlinkPacket /\ 1 \in 1..Len(s)
      /\ Len(s) \in Nat /\ Len(Tail(s)) = Len(s) - 1
      /\ \A i \in 1..Len(Tail(s)) : /\ Tail(s)[i] = s[i + 1] /\ i + 1 \in 1..Len(s)
                                    /\ 1 \in 1..((i + 1) - 1)
  OBVIOUS
<1>2. Ordered(d, Tail(s), NoPacket, del, n)
  BY OrderedTail DEF Ordered
<1> QED
  BY <1>1, <1>2 DEF Ordered

\* The packet in hand is transmitted, or lost.
LEMMA OrderedSent ==
  ASSUME NEW d \in Device, NEW s \in Seq(DownlinkPacket), NEW o \in DownlinkPacket,
         NEW del \in SUBSET ChunkId, NEW n, Ordered(d, s, o, del, n)
  PROVE  /\ Ordered(d, s, NoPacket, del, n)
         /\ o.dest = d /\ o.id # NotAChunk => Ordered(d, s, NoPacket, del \cup {o.id}, n)
<1>1. o # NoPacket
  BY PacketFacts
<1> QED
  BY <1>1 DEF Ordered
-----------------------------------------------------------------------------
\* After start-up nothing is on its way.
LEMMA InitForwardInv == FInit => ForwardInv
<1> SUFFICES ASSUME FInit PROVE ForwardInv
  OBVIOUS
<1>1. /\ fifo = [e \in Direction |-> <<>>] /\ pc = [e \in Direction |-> "waiting"]
      /\ out = [e \in Direction |-> NoPacket]
  BY DEF FInit, Init
<1>2. WorkInv
  <2>1. <<>> \in Seq(DownlinkPacket)
    OBVIOUS
  <2> QED
    BY <1>1, <2>1 DEF WorkInv, Direction
<1>3. ControlInv
  BY ForwardingAssumption
  DEF ForwardingAssumption, FInit, ControlInit, ControlInv, ControlTypeOK, NotReady, NoNack
<1>4. AllOrdered
  <2>1. \A d \in Device : Got(d) = {}
    BY DEF FInit, Got
  <2> QED
    BY <1>1, <2>1, OrderedEmpty DEF AllOrdered, FInit, Downlink, Direction
<1> QED
  BY <1>2, <1>3, <1>4 DEF ForwardInv

\* The first chunk of a device not yet put in the FIFO is a number.
LEMMA NextIsNat == ControlInv => \A d \in Device : NextChunk(d) \in Nat /\ current[d] \in Nat
  BY DEF ControlInv, ControlTypeOK, NextChunk

\* What a device got is a set of chunk numbers, which no step changes that leaves
\* delivered alone.
LEMMA GotAreChunks == ControlInv => \A d \in Device : Got(d) \in SUBSET ChunkId
  BY DEF ControlInv, Got
LEMMA GotSame == delivered' = delivered => \A d \in Device : Got(d)' = Got(d)
  BY DEF Got

\* A chunk the device gets is added.
LEMMA GotAppend ==
  ASSUME ControlInv, NEW e \in Device, NEW k \in ChunkId,
         delivered' = [delivered EXCEPT ![e] = Append(@, k)]
  PROVE  \A d \in Device : Got(d)' = IF d = e THEN Got(e) \cup {k} ELSE Got(d)
<1>1. ASSUME NEW d \in Device, d # e PROVE Got(d)' = Got(d)
  BY <1>1 DEF Got, ControlInv
<1>2. Got(e)' = Got(e) \cup {k}
  <2> DEFINE s == delivered[e]
             t == Append(s, k)
  <2>1. s \in Seq(ChunkId) /\ delivered'[e] = t
    BY DEF ControlInv
  <2> HIDE DEF s
  <2>2. /\ Len(s) \in Nat /\ Len(t) = Len(s) + 1 /\ t[Len(s) + 1] = k
        /\ \A i \in 1..Len(s) : t[i] = s[i]
    BY <2>1
  <2> HIDE DEF t
  <2>3. {t[i] : i \in 1..Len(t)} = {s[i] : i \in 1..Len(s)} \cup {k}
    BY <2>2
  <2> QED
    BY <2>1, <2>3 DEF Got, s
<1> QED
  BY <1>1, <1>2

\* What AllOrdered is about.
orderVars == <<fifo, out, pc>>

\* A step that moves no packet and counts no chunk keeps the order.
LEMMA SameOrder ==
  ASSUME ForwardInv, UNCHANGED orderVars, ControlInv', delivered' = delivered,
         \A d \in Device : NextChunk(d)' = NextChunk(d)
  PROVE  ForwardInv'
<1>1. WorkInv'
  BY DEF orderVars, ForwardInv, WorkInv
<1>2. AllOrdered'
  BY GotSame DEF orderVars, ForwardInv, AllOrdered, Downlink
<1> QED
  BY <1>1, <1>2 DEF ForwardInv

\* A put of p, in its three outcomes; m is the next chunk afterwards.
LEMMA PutForwardInv ==
  ASSUME ForwardInv, NEW p \in DownlinkPacket, downlink_aggregator_put(p), ControlInv',
         delivered' = delivered,
         \A d \in Device :
            /\ NextChunk(d) <= NextChunk(d)'
            /\ p.dest = d => p.id < NextChunk(d)' /\ (p.id # NotAChunk => NextChunk(d) <= p.id)
  PROVE  ForwardInv'
<1> DEFINE s == Downlink
<1>1. s \in Seq(DownlinkPacket) /\ out["downlink"] \in DownlinkPacket \cup {NoPacket}
  BY DEF ForwardInv, WorkInv, Direction, Downlink
<1>2. /\ \A d \in Device : NextChunk(d) \in Nat
      /\ \A d \in Device : NextChunk(d)' \in Nat
  <2>1. \A d \in Device : NextChunk(d)' \in Nat
    BY DEF ControlInv, ControlTypeOK, NextChunk
  <2> QED
    BY <2>1, NextIsNat DEF ForwardInv
<1>3. \A d \in Device : Got(d) \in SUBSET ChunkId /\ Got(d)' = Got(d)
  BY GotAreChunks, GotSame DEF ForwardInv
<1>4. \A d \in Device : Ordered(d, s, out["downlink"], Got(d), NextChunk(d))
  BY DEF ForwardInv, AllOrdered
<1>5. out' = out /\ pc' = pc
  BY DEF downlink_aggregator_put, workVars
<1>6. ASSUME NEW u \in Seq(DownlinkPacket), fifo' = [fifo EXCEPT !["downlink"] = u],
             \A d \in Device : Ordered(d, u, out["downlink"], Got(d), NextChunk(d)')
      PROVE  ForwardInv'
  <2>1. WorkInv' /\ Downlink' = u
    BY <1>5, <1>6 DEF ForwardInv, WorkInv, Downlink, Direction
  <2>2. AllOrdered'
    BY <1>3, <1>5, <1>6, <2>1 DEF AllOrdered
  <2> QED
    BY <2>1, <2>2 DEF ForwardInv
<1>7. CASE PutWhenFull("downlink", p)
  <2>1. s # <<>> /\ fifo' = [fifo EXCEPT !["downlink"] = Append(Tail(s), p)]
    BY <1>7 DEF PutWhenFull, Downlink
  <2>2. \A d \in Device : /\ Tail(s) \in Seq(DownlinkPacket)
                          /\ Ordered(d, Tail(s), out["downlink"], Got(d), NextChunk(d))
    BY <1>1, <1>4, <2>1, OrderedTail
  <2>3. \A d \in Device : Ordered(d, Append(Tail(s), p), out["downlink"], Got(d), NextChunk(d)')
    BY <1>1, <1>2, <1>3, <2>2, OrderedAppend
  <2>4. Append(Tail(s), p) \in Seq(DownlinkPacket)
    BY <1>1, <2>1
  <2> QED
    BY <1>6, <2>1, <2>3, <2>4
<1>8. CASE PutInNewEntry("downlink", p)
  <2>1. fifo' = [fifo EXCEPT !["downlink"] = Append(s, p)]
    BY <1>8 DEF PutInNewEntry, Downlink
  <2>2. \A d \in Device : Ordered(d, Append(s, p), out["downlink"], Got(d), NextChunk(d)')
    BY <1>1, <1>2, <1>3, <1>4, OrderedAppend
  <2>3. Append(s, p) \in Seq(DownlinkPacket)
    BY <1>1
  <2> QED
    BY <1>6, <2>1, <2>2, <2>3
<1>9. CASE PutFailsNoMemory("downlink")
  <2>1. fifo' = fifo
    BY <1>9 DEF PutFailsNoMemory, queueVars
  <2>2. \A d \in Device : Ordered(d, s, out["downlink"], Got(d), NextChunk(d)')
    BY <1>1, <1>2, <1>3, <1>4, OrderedMore
  <2>3. WorkInv' /\ AllOrdered'
    BY <1>3, <1>5, <2>1, <2>2 DEF ForwardInv, WorkInv, AllOrdered, Downlink
  <2> QED
    BY <2>3 DEF ForwardInv
<1> QED
  BY <1>7, <1>8, <1>9 DEF downlink_aggregator_put, Put
-----------------------------------------------------------------------------
\* The steps of the event handler.
LEMMA HandlerForwardInv ==
  ASSUME ForwardInv,
         \/ \E d \in Device, n \in ChunkTotal : NotifyPackage(d, n)
         \/ \E d \in Device, c \in ChunkMessage :
                DropChunk(d, c) \/ ChunkTooLong(d, c) \/ ForwardChunk(d, c)
         \/ CountChunk
         \/ \E d \in Device : PutOther(d)
  PROVE  ForwardInv'
<1> USE ForwardingAssumption DEF ForwardingAssumption
<1>1. ASSUME NEW d \in Device, NEW n \in ChunkTotal, NotifyPackage(d, n) PROVE ForwardInv'
  <2>1. ControlInv'
    BY <1>1 DEF NotifyPackage, extractPackage, forwardVars, ForwardInv, ControlInv, ControlTypeOK
  <2> QED
    BY <1>1, <2>1, SameOrder
    DEF NotifyPackage, extractPackage, forwardVars, queueVars, workVars, orderVars, NextChunk
<1>2. ASSUME NEW d \in Device, NEW c \in ChunkMessage, DropChunk(d, c) PROVE ForwardInv'
  <2>1. UNCHANGED <<flag, total, current>> /\ UNCHANGED forwardVars /\ UNCHANGED orderVars
    BY <1>2 DEF DropChunk, ChunkUndecodable, ChunkRejected, controlVars, queueVars, workVars,
                orderVars
  <2>2. nack' \in {nack, [nack EXCEPT ![d] = NackValue(d)]}
    BY <1>2 DEF DropChunk, ChunkUndecodable, ChunkRejected, controlVars
  <2>3. NackValue(d) \in Nat \cup {NotReady, NoNack}
    BY DEF NackValue, ForwardInv, ControlInv, ControlTypeOK
  <2>4. nack' \in [Device -> Nat \cup {NotReady, NoNack}]
    BY <2>2, <2>3 DEF ForwardInv, ControlInv, ControlTypeOK
  <2>5. ControlInv'
    BY <2>1, <2>4 DEF forwardVars, ForwardInv, ControlInv, ControlTypeOK
  <2> QED
    BY <2>1, <2>5, SameOrder DEF forwardVars, NextChunk
<1>3. ASSUME NEW d \in Device, NEW c \in ChunkMessage, ChunkTooLong(d, c) PROVE ForwardInv'
  BY <1>3, SameOrder
  DEF ChunkTooLong, vars, orderVars, ForwardInv, ControlInv, ControlTypeOK, NextChunk
<1>4. ASSUME NEW d \in Device, NEW c \in ChunkMessage, ForwardChunk(d, c) PROVE ForwardInv'
  <2>1. /\ handler = NoDevice /\ handler' = d /\ flag[d] /\ c.id = current[d]
        /\ UNCHANGED controlVars /\ delivered' = delivered
        /\ downlink_aggregator_put([dest |-> d, id |-> c.id])
    BY <1>4 DEF ForwardChunk, Acceptable
  <2>2. c.id \in ChunkId /\ c.id \in Nat /\ [dest |-> d, id |-> c.id] \in DownlinkPacket
    BY PacketFacts DEF ChunkMessage, DownlinkPacket
  <2>3. ControlInv'
    BY <2>1 DEF controlVars, ForwardInv, ControlInv, ControlTypeOK
  <2>4. \A e \in Device : NextChunk(e) = current[e]
    BY <2>1 DEF NextChunk
  <2>5. \A e \in Device : NextChunk(e)' = IF e = d THEN current[d] + 1 ELSE current[e]
    BY <2>1 DEF NextChunk, controlVars
  <2>6. \A e \in Device : current[e] \in Nat
    BY NextIsNat DEF ForwardInv
  <2> QED
    BY <2>1, <2>2, <2>3, <2>4, <2>5, <2>6, PutForwardInv
<1>5. CASE CountChunk
  <2>1. /\ handler \in Device /\ handler' = NoDevice
        /\ current' = [current EXCEPT ![handler] = @ + 1]
        /\ UNCHANGED <<flag, total, nack, delivered>> /\ UNCHANGED orderVars
    BY <1>5 DEF CountChunk, incrementChunk, ForwardInv, ControlInv, queueVars, workVars, orderVars
  <2>2. current \in [Device -> Nat] /\ current' \in [Device -> Nat]
    BY <2>1 DEF ForwardInv, ControlInv, ControlTypeOK
  <2>3. ControlInv'
    BY <2>1, <2>2 DEF ForwardInv, ControlInv, ControlTypeOK
  <2>4. \A e \in Device : NextChunk(e)' = NextChunk(e)
    BY <2>1, <2>2 DEF NextChunk
  <2> QED
    BY <2>1, <2>3, <2>4, SameOrder
<1>6. ASSUME NEW d \in Device, PutOther(d) PROVE ForwardInv'
  <2>1. /\ downlink_aggregator_put([dest |-> d, id |-> NotAChunk])
        /\ UNCHANGED controlVars /\ UNCHANGED forwardVars
    BY <1>6 DEF PutOther
  <2>2. [dest |-> d, id |-> NotAChunk] \in DownlinkPacket
    BY DEF DownlinkPacket
  <2>3. ControlInv'
    BY <2>1 DEF controlVars, forwardVars, ForwardInv, ControlInv, ControlTypeOK
  <2>4. \A e \in Device : NextChunk(e)' = NextChunk(e) /\ NextChunk(e) \in Nat
    BY <2>1, NextIsNat DEF controlVars, forwardVars, NextChunk, ForwardInv
  <2>5. NotAChunk < 0 /\ NotAChunk \in Int
    BY DEF NotAChunk
  <2> QED
    BY <2>1, <2>2, <2>3, <2>4, <2>5, PutForwardInv DEF forwardVars
<1> QED
  BY <1>1, <1>2, <1>3, <1>4, <1>5, <1>6
-----------------------------------------------------------------------------
\* The steps of the work item that transmits.
LEMMA TransmitForwardInv ==
  ASSUME ForwardInv, TransmitWork \/ TransmitDelivers \/ TransmitLoses
  PROVE  ForwardInv'
<1> USE DEF Direction
<1>1. Downlink \in Seq(DownlinkPacket) /\ out["downlink"] \in DownlinkPacket \cup {NoPacket}
  BY DEF ForwardInv, WorkInv, Downlink
<1>2. \A d \in Device : Ordered(d, Downlink, out["downlink"], Got(d), NextChunk(d))
  BY DEF ForwardInv, AllOrdered
<1>3. ASSUME UNCHANGED controlVars, UNCHANGED forwardVars
      PROVE  ControlInv' /\ \A d \in Device : NextChunk(d)' = NextChunk(d) /\ Got(d)' = Got(d)
  BY <1>3, GotSame DEF controlVars, forwardVars, ForwardInv, ControlInv, ControlTypeOK, NextChunk
<1>4. CASE TransmitWork
  <2>1. UNCHANGED controlVars /\ UNCHANGED forwardVars
    BY <1>4 DEF TransmitWork
  <2>2. CASE StartWork("downlink") \/ DownlinkRelease \/ WorkEnds("downlink")
    <3>1. WorkInv' /\ fifo' = fifo /\ out' = out
      BY <2>2 DEF StartWork, DownlinkRelease, WorkEnds, ForwardInv, WorkInv
    <3>2. AllOrdered'
      BY <1>2, <1>3, <2>1, <3>1 DEF AllOrdered, Downlink, forwardVars
    <3> QED
      BY <1>3, <2>1, <3>1, <3>2 DEF ForwardInv
  <2>3. CASE DownlinkDequeue
    <3>1. /\ Downlink # <<>>
          /\ out' = [out EXCEPT !["downlink"] = Head(Downlink)]
          /\ fifo' = [fifo EXCEPT !["downlink"] = Tail(Downlink)]
          /\ pc' = [pc EXCEPT !["downlink"] = "dequeued"]
      BY <2>3 DEF DownlinkDequeue, Downlink
    <3>2. Head(Downlink) \in DownlinkPacket /\ Tail(Downlink) \in Seq(DownlinkPacket)
      BY <1>1, <3>1
    <3>3. WorkInv' /\ Downlink' = Tail(Downlink) /\ out'["downlink"] = Head(Downlink)
      BY <3>1, <3>2, PacketFacts DEF ForwardInv, WorkInv, Downlink
    <3>4. \A d \in Device : Ordered(d, Tail(Downlink), Head(Downlink), Got(d), NextChunk(d))
      BY <1>1, <1>2, <3>1, OrderedHead
    <3>5. AllOrdered'
      BY <1>3, <2>1, <3>3, <3>4 DEF AllOrdered, forwardVars
    <3> QED
      BY <1>3, <2>1, <3>3, <3>5 DEF ForwardInv
  <2> QED
    BY <1>4, <2>2, <2>3 DEF TransmitWork
<1>5. ASSUME PacketDone("downlink")
      PROVE  /\ out["downlink"] \in DownlinkPacket /\ out'["downlink"] = NoPacket
             /\ Downlink' = Downlink /\ WorkInv'
  BY <1>1, <1>5 DEF PacketDone, ForwardInv, WorkInv, Downlink
<1>6. \A d \in Device : Got(d) \in SUBSET ChunkId
  BY GotAreChunks DEF ForwardInv
<1>7. CASE TransmitLoses
  <2>1. PacketDone("downlink") /\ UNCHANGED controlVars /\ UNCHANGED forwardVars
    BY <1>7 DEF TransmitLoses
  <2>2. \A d \in Device : Ordered(d, Downlink, NoPacket, Got(d), NextChunk(d))
    BY <1>1, <1>2, <1>5, <1>6, <2>1, OrderedSent
  <2>3. AllOrdered'
    BY <1>3, <1>5, <2>1, <2>2 DEF AllOrdered, forwardVars
  <2> QED
    BY <1>3, <1>5, <2>1, <2>3 DEF ForwardInv
<1>8. CASE TransmitDelivers
  <2> DEFINE o == out["downlink"]
  <2>1. /\ PacketDone("downlink") /\ UNCHANGED controlVars /\ handler' = handler
        /\ delivered' = IF o.id = NotAChunk THEN delivered
                        ELSE [delivered EXCEPT ![o.dest] = Append(@, o.id)]
    BY <1>8 DEF TransmitDelivers
  <2>2. o \in DownlinkPacket /\ o.dest \in Device /\ (o.id # NotAChunk => o.id \in ChunkId)
    BY <1>5, <2>1, PacketFacts
  <2>3. \A d \in Device : Ordered(d, Downlink, NoPacket, Got(d), NextChunk(d))
    BY <1>1, <1>2, <1>6, <2>2, OrderedSent
  <2>4. o.id # NotAChunk =>
            Ordered(o.dest, Downlink, NoPacket, Got(o.dest) \cup {o.id}, NextChunk(o.dest))
    BY <1>1, <1>2, <1>6, <2>2, OrderedSent
  <2>5. delivered' \in [Device -> Seq(ChunkId)]
    BY <2>1, <2>2 DEF ForwardInv, ControlInv
  <2>6. ControlInv' /\ \A d \in Device : NextChunk(d)' = NextChunk(d)
    BY <2>1, <2>5 DEF controlVars, ForwardInv, ControlInv, ControlTypeOK, NextChunk
  <2>7. \A d \in Device : Ordered(d, Downlink, NoPacket, Got(d)', NextChunk(d))
    <3>1. CASE o.id = NotAChunk
      BY <2>1, <2>3, <3>1, GotSame
    <3>2. CASE o.id # NotAChunk
      <4>1. delivered' = [delivered EXCEPT ![o.dest] = Append(@, o.id)]
        BY <2>1, <3>2
      <4>2. \A d \in Device : Got(d)' = IF d = o.dest THEN Got(o.dest) \cup {o.id} ELSE Got(d)
        BY <2>2, <3>2, <4>1, GotAppend DEF ForwardInv
      <4> QED
        BY <2>3, <2>4, <3>2, <4>2
    <3> QED
      BY <3>1, <3>2
  <2>8. AllOrdered'
    BY <1>5, <2>1, <2>6, <2>7 DEF AllOrdered
  <2> QED
    BY <1>5, <2>1, <2>6, <2>8 DEF ForwardInv
<1> QED
  BY <1>4, <1>7, <1>8

\* After a restart everything is as at the start, but for the last NACK.
LEMMA RestartForwardInv ==
  ASSUME ForwardInv, Restart
  PROVE  ForwardInv'
<1>1. /\ fifo' = [e \in Direction |-> <<>>] /\ pc' = [e \in Direction |-> "waiting"]
      /\ out' = [e \in Direction |-> NoPacket] /\ delivered' = [d \in Device |-> <<>>]
  BY DEF Restart
<1>2. WorkInv'
  <2>1. <<>> \in Seq(DownlinkPacket)
    OBVIOUS
  <2> QED
    BY <1>1, <2>1 DEF WorkInv, Direction
<1>3. ControlInv'
  BY ForwardingAssumption
  DEF ForwardingAssumption, Restart, ControlReset, ForwardInv, ControlInv, ControlTypeOK
<1>4. AllOrdered'
  <2>1. \A d \in Device : Got(d)' = {}
    BY <1>1 DEF Got
  <2> QED
    BY <1>1, <2>1, OrderedEmpty DEF AllOrdered, Downlink, Direction
<1> QED
  BY <1>2, <1>3, <1>4 DEF ForwardInv
-----------------------------------------------------------------------------
\* Every step of the handler, the work item or a restart keeps the invariant.
LEMMA NextForwardInv == ForwardInv /\ [FNext]_vars => ForwardInv'
<1> SUFFICES ASSUME ForwardInv, [FNext]_vars PROVE ForwardInv'
  OBVIOUS
<1>1. CASE FNext
  BY <1>1, HandlerForwardInv, TransmitForwardInv, RestartForwardInv DEF FNext
<1>2. CASE UNCHANGED vars
  BY <1>2, SameOrder DEF vars, orderVars, ForwardInv, ControlInv, ControlTypeOK, NextChunk
<1> QED
  BY <1>1, <1>2

\* The invariant holds in every reachable state.
THEOREM ForwardInductive == FSpec => []ForwardInv
  BY InitForwardInv, NextForwardInv, PTL DEF FSpec

\* Chunks reach a device in order and at most once between restarts, and none
\* before the notification, whatever the broker sends and the links lose.
THEOREM DeliveryIsSound == FSpec => []DeliverySound
<1>1. ForwardInv => ForwardedInOrder
  BY DEF ForwardInv, AllOrdered, Ordered, ForwardedInOrder
<1>2. ForwardInv => NothingBeforeNotification
  <2> SUFFICES ASSUME ForwardInv, NEW d \in Device, ~flag[d]
               PROVE  /\ current[d] = 0 /\ delivered[d] = <<>>
                      /\ \A k \in ChunkId : ~InTransit(d, k)
    BY DEF NothingBeforeNotification
  <2>1. current[d] = 0 /\ NextChunk(d) = 0
    BY DEF ForwardInv, ControlInv, NextChunk
  <2>2. Ordered(d, Downlink, out["downlink"], Got(d), 0)
    BY <2>1 DEF ForwardInv, AllOrdered
  <2>3. \A k \in ChunkId : ~(k < 0)
    BY PacketFacts
  <2>4. delivered[d] = <<>>
    BY <2>2, <2>3 DEF Ordered, Got, ForwardInv, ControlInv
  <2>5. ASSUME NEW k \in ChunkId PROVE ~InTransit(d, k)
    <3>1. ASSUME NEW i \in 1..Len(Downlink), Downlink[i] = [dest |-> d, id |-> k]
          PROVE  FALSE
      BY <2>2, <2>3, <3>1 DEF Ordered
    <3>2. [dest |-> d, id |-> k] \in DownlinkPacket
      BY DEF DownlinkPacket
    <3>3. out["downlink"] # [dest |-> d, id |-> k]
      BY <2>2, <2>3, <3>2, PacketFacts DEF Ordered
    <3> QED
      BY <3>1, <3>3 DEF InTransit
  <2> QED
    BY <2>1, <2>4, <2>5
<1> QED
  BY ForwardInductive, <1>1, <1>2, PTL DEF DeliverySound

\* No NACK asks the sender to go on beyond a chunk the gateway has not accepted.
THEOREM NackStaysBehind == FSpec => NackNotAhead
<1>1. ForwardInv /\ [FNext]_vars => [\A d \in Device : nack'[d] # nack[d] => nack'[d] <= NextChunk(d)]_vars
  <2> SUFFICES ASSUME ForwardInv, FNext, NEW d \in Device, nack'[d] # nack[d]
               PROVE  nack'[d] <= NextChunk(d)
    BY DEF vars
  <2>1. PICK e \in Device, c \in ChunkMessage : DropChunk(e, c) /\ ChunkRejected(e, c)
    BY DEF FNext, NotifyPackage, extractPackage, DropChunk, ChunkUndecodable, controlVars,
           ChunkTooLong, vars, ForwardChunk, CountChunk, incrementChunk, PutOther, TransmitWork,
           TransmitDelivers, TransmitLoses, Restart, ControlReset
  <2>2. handler = NoDevice /\ nack' = [nack EXCEPT ![e] = NackValue(e)]
    BY <2>1 DEF DropChunk, ChunkRejected
  <2>3. nack'[d] = NackValue(d) /\ NextChunk(d) = current[d] /\ current[d] \in Nat
    BY <2>2, ForwardingAssumption
    DEF ForwardingAssumption, ForwardInv, ControlInv, ControlTypeOK, NextChunk
  <2> QED
    BY <2>3 DEF NackValue, NotReady
<1> QED
  BY ForwardInductive, <1>1, PTL DEF FSpec, NackNotAhead
-----------------------------------------------------------------------------
\* No step of the forwarding breaks the aggregator's invariant: chunks and other
\* packets are put like any packet, and a restart empties everything.
LEMMA StepIInv == IInv /\ [FNext]_vars => IInv'
<1> SUFFICES ASSUME IInv, [FNext]_vars PROVE IInv'
  OBVIOUS
<1>1. CASE UNCHANGED <<queueVars, workVars>>
  BY <1>1, SameIInv DEF aggregatorVars, queueVars, workVars
<1>2. ASSUME NEW d \in Device, NEW k \in ChunkId \cup {NotAChunk},
             downlink_aggregator_put([dest |-> d, id |-> k])
      PROVE  IInv'
  <2>1. [dest |-> d, id |-> k] \in Packet
    BY ForwardingAssumption DEF ForwardingAssumption, DownlinkPacket
  <2> QED
    BY <1>2, <2>1, PutIInv DEF downlink_aggregator_put, Direction
<1>3. CASE TransmitWork \/ TransmitDelivers \/ TransmitLoses
  BY <1>3, WorkIInv
  DEF TransmitWork, TransmitDelivers, TransmitLoses, transmit_aggregated_data
<1>4. CASE Restart
  <2>1. Init'
    BY <1>4 DEF Restart, Init
  <2>2. Init' => IInv'
    BY InitIInv, PTL
  <2> QED
    BY <2>1, <2>2
<1>5. ASSUME NEW d \in Device, NEW c \in ChunkMessage,
             DropChunk(d, c) \/ ChunkTooLong(d, c) \/ ForwardChunk(d, c)
      PROVE  IInv'
  <2>1. c.id \in ChunkId
    BY DEF ChunkMessage
  <2> QED
    BY <1>1, <1>2, <1>5, <2>1 DEF DropChunk, ChunkTooLong, ForwardChunk, vars, queueVars, workVars
<1>6. CASE CountChunk \/ \E d \in Device, n \in ChunkTotal : NotifyPackage(d, n)
  BY <1>1, <1>6 DEF CountChunk, NotifyPackage
<1>7. CASE \E d \in Device : PutOther(d)
  BY <1>2, <1>7 DEF PutOther
<1> QED
  BY <1>1, <1>3, <1>4, <1>5, <1>6, <1>7 DEF FNext, vars, queueVars, workVars

\* The aggregator keeps its counters, FIFOs and heap in step under the handler,
\* the BLE callbacks and the restarts, and every variable of the gateway its
\* type: no counter wraps and nothing but a chunk counts as delivered.
THEOREM ForwardTypeCorrect == FSpec => []FTypeOK
<1>1. FInit => IInv
  BY InitIInv DEF FInit
<1>2. IInv /\ ForwardInv => FTypeOK
  BY DEF IInv, ForwardInv, ControlInv, FTypeOK
<1> QED
  BY <1>1, <1>2, StepIInv, ForwardInductive, PTL DEF FSpec
-----------------------------------------------------------------------------
\* The rest relates the steps to those of ChunkDelivery.
Accepted == [d \in Device |-> NextChunk(d)]

\* At the start-up no update is open, nothing accepted, delivered or asked for.
LEMMA InitIsDelivery == FInit => Delivery!Init
<1> SUFFICES ASSUME FInit PROVE Delivery!Init
  OBVIOUS
<1>1. \A d \in Device : NextChunk(d) = 0
  BY ForwardingAssumption DEF ForwardingAssumption, FInit, ControlInit, NextChunk
<1> QED
  BY <1>1 DEF FInit, ControlInit, Delivery!Init, Delivery!Fresh

\* What neither end sees: the FIFO, the work item, and whether the chunk that was
\* put has been counted.
LEMMA UnseenStep ==
  ASSUME UNCHANGED <<flag, nack, delivered>>, \A d \in Device : NextChunk(d)' = NextChunk(d)
  PROVE  UNCHANGED Delivery!deliveryVars
BY DEF Delivery!deliveryVars

\* The steps of the event handler, as the sender sees them.
LEMMA HandlerIsDelivery ==
  ASSUME ForwardInv,
         \/ \E d \in Device, n \in ChunkTotal : NotifyPackage(d, n)
         \/ \E d \in Device, c \in ChunkMessage :
                DropChunk(d, c) \/ ChunkTooLong(d, c) \/ ForwardChunk(d, c)
         \/ CountChunk
         \/ \E d \in Device : PutOther(d)
  PROVE  [Delivery!Next]_(Delivery!deliveryVars)
<1>1. ASSUME NEW d \in Device, NEW n \in ChunkTotal, NotifyPackage(d, n)
      PROVE  Delivery!Announce(d)
  <2>1. /\ ~flag[d] /\ flag' = [flag EXCEPT ![d] = TRUE]
        /\ UNCHANGED <<current, nack, handler, delivered>>
    BY <1>1 DEF NotifyPackage, extractPackage, forwardVars
  <2> QED
    BY <2>1 DEF Delivery!Announce, NextChunk
<1>2. ASSUME NEW d \in Device, NEW c \in ChunkMessage, DropChunk(d, c)
      PROVE  Delivery!Ask(d) \/ UNCHANGED Delivery!deliveryVars
  <2>1. /\ handler = NoDevice /\ UNCHANGED <<flag, current, handler, delivered>>
        /\ nack' \in {nack, [nack EXCEPT ![d] = NackValue(d)]}
    BY <1>2 DEF DropChunk, ChunkUndecodable, ChunkRejected, controlVars, forwardVars
  <2>2. \A e \in Device : NextChunk(e) = current[e] /\ NextChunk(e)' = NextChunk(e)
    BY <2>1, ForwardingAssumption DEF ForwardingAssumption, NextChunk
  <2>3. NackValue(d) = IF flag[d] THEN Accepted[d] ELSE NotReady
    BY <2>2 DEF NackValue, Accepted
  <2>4. CASE nack' = nack
    BY <2>1, <2>2, <2>4, UnseenStep
  <2>5. CASE nack' = [nack EXCEPT ![d] = NackValue(d)]
    BY <2>1, <2>2, <2>3, <2>5 DEF Delivery!Ask, Accepted
  <2> QED
    BY <2>1, <2>4, <2>5
<1>3. ASSUME NEW d \in Device, NEW c \in ChunkMessage, ForwardChunk(d, c)
      PROVE  Delivery!Accept(d)
  <2>1. /\ handler = NoDevice /\ handler' = d /\ flag[d]
        /\ UNCHANGED <<flag, current, nack, delivered>>
    BY <1>3 DEF ForwardChunk, Acceptable, controlVars
  <2>2. \A e \in Device : NextChunk(e) = current[e]
    BY <2>1, ForwardingAssumption DEF ForwardingAssumption, NextChunk
  <2>3. \A e \in Device : NextChunk(e)' = IF e = d THEN current[d] + 1 ELSE current[e]
    BY <2>1 DEF NextChunk
  <2>4. Accepted' = [Accepted EXCEPT ![d] = @ + 1]
    BY <2>2, <2>3 DEF Accepted
  <2> QED
    BY <2>1, <2>4 DEF Delivery!Accept, Accepted
<1>4. ASSUME CountChunk PROVE UNCHANGED Delivery!deliveryVars
  <2>1. /\ handler \in Device /\ handler' = NoDevice
        /\ current' = [current EXCEPT ![handler] = @ + 1]
        /\ UNCHANGED <<flag, nack, delivered>>
    BY <1>4 DEF CountChunk, incrementChunk, ForwardInv, ControlInv
  <2>2. \A e \in Device : NextChunk(e)' = NextChunk(e)
    BY <2>1, ForwardingAssumption
    DEF ForwardingAssumption, ForwardInv, ControlInv, ControlTypeOK, NextChunk
  <2> QED
    BY <2>1, <2>2, UnseenStep
<1>5. ASSUME NEW d \in Device, PutOther(d) PROVE UNCHANGED Delivery!deliveryVars
  BY <1>5, UnseenStep DEF PutOther, controlVars, forwardVars, NextChunk
<1>6. ASSUME NEW d \in Device, NEW c \in ChunkMessage, ChunkTooLong(d, c)
      PROVE  UNCHANGED Delivery!deliveryVars
  BY <1>6, UnseenStep DEF ChunkTooLong, vars, NextChunk
<1> QED
  BY <1>1, <1>2, <1>3, <1>4, <1>5, <1>6 DEF Delivery!Next

\* The chunk in the work item's hands is accepted, and later than all the device
\* has got: the order of what is on its way makes its delivery one of the abstract
\* delivery's.
LEMMA TransmitIsDelivery ==
  ASSUME ForwardInv, TransmitWork \/ TransmitDelivers \/ TransmitLoses
  PROVE  [Delivery!Next]_(Delivery!deliveryVars)
<1> DEFINE o == out["downlink"]
           e == o.dest
<1>1. CASE TransmitWork \/ TransmitLoses
  BY <1>1, UnseenStep DEF TransmitWork, TransmitLoses, controlVars, forwardVars, NextChunk
<1>2. ASSUME TransmitDelivers
      PROVE  /\ o \in DownlinkPacket /\ o # NoPacket /\ e \in Device
             /\ UNCHANGED <<flag, nack>> /\ \A d \in Device : NextChunk(d)' = NextChunk(d)
  BY <1>2, PacketFacts
  DEF TransmitDelivers, PacketDone, ForwardInv, WorkInv, Direction, controlVars, NextChunk
<1>3. ASSUME TransmitDelivers, o.id = NotAChunk
      PROVE  UNCHANGED Delivery!deliveryVars
  <2>1. delivered' = delivered
    BY <1>3 DEF TransmitDelivers
  <2> QED
    BY <1>2, <1>3, <2>1, UnseenStep
<1>4. ASSUME TransmitDelivers, o.id # NotAChunk
      PROVE  o.id \in 0..(Accepted[e] - 1) /\ Delivery!Deliver(e, o.id)
  <2>1. delivered' = [delivered EXCEPT ![e] = Append(@, o.id)]
    BY <1>4 DEF TransmitDelivers
  <2>2. o.id \in Nat /\ NextChunk(e) \in Nat
    BY <1>2, <1>4, PacketFacts, NextIsNat DEF ForwardInv
  <2>3. o.id < NextChunk(e) /\ \A k \in Got(e) : k < o.id
    BY <1>2, <1>4 DEF ForwardInv, AllOrdered, Ordered
  <2>4. \A i \in DOMAIN delivered[e] : delivered[e][i] < o.id
    <3>1. delivered[e] \in Seq(ChunkId)
      BY <1>2, <1>4 DEF ForwardInv, ControlInv
    <3>2. DOMAIN delivered[e] = 1..Len(delivered[e])
      BY <3>1
    <3> QED
      BY <2>3, <3>2 DEF Got
  <2>5. Accepted[e] = NextChunk(e) /\ Accepted' = Accepted
    BY <1>2, <1>4 DEF Accepted
  <2>6. o.id \in 0..(Accepted[e] - 1)
    BY <2>2, <2>3, <2>5
  <2>7. Delivery!Deliver(e, o.id)
    BY <1>2, <1>4, <2>1, <2>3, <2>4, <2>5 DEF Delivery!Deliver, Accepted
  <2> QED
    BY <2>6, <2>7
<1>5. CASE TransmitDelivers
  <2> HIDE DEF e
  <2> QED
    BY <1>2, <1>3, <1>4, <1>5 DEF Delivery!Next, Accepted
<1> QED
  BY <1>1, <1>5

\* A restart forgets every update, but not what the sender was asked.
LEMMA RestartIsDelivery ==
  ASSUME Restart
  PROVE  Delivery!Next
<1>1. \A d \in Device : NextChunk(d)' = 0
  BY ForwardingAssumption DEF ForwardingAssumption, Restart, ControlReset, NextChunk
<1>2. Delivery!Restart
  BY <1>1 DEF Restart, ControlReset, Delivery!Restart, Delivery!Fresh
<1> QED
  BY <1>2 DEF Delivery!Next

\* For any number of devices and chunks, any FIFO and any heap, the gateway with
\* its restarts, losses and interleavings is the abstract delivery.
THEOREM ForwardingImplementsDelivery == FSpec => ForwardingIsDelivery
<1>1. ForwardInv /\ [FNext]_vars => [Delivery!Next]_(Delivery!deliveryVars)
  <2> SUFFICES ASSUME ForwardInv, [FNext]_vars
               PROVE  [Delivery!Next]_(Delivery!deliveryVars)
    OBVIOUS
  <2>1. CASE FNext
    BY <2>1, HandlerIsDelivery, TransmitIsDelivery, RestartIsDelivery DEF FNext
  <2>2. CASE UNCHANGED vars
    BY <2>2, UnseenStep DEF vars, NextChunk
  <2> QED
    BY <2>1, <2>2
<1> QED
  BY <1>1, InitIsDelivery, ForwardInductive, PTL DEF FSpec, ForwardingIsDelivery, Delivery!Spec
=============================================================================
