-------------------------- MODULE ChunkForwarding --------------------------
(***************************************************************************)
(* Firmware chunks on their way through the gateway: from the update topic  *)
(* of the ESP32 or the Raspberry Pi, through the checks of the MQTT event   *)
(* handler and the downlink FIFO, to the device over BLE.  Packets of the   *)
(* BLE callbacks (images, "rpiConnected") share the FIFO.                   *)
(*                                                                         *)
(* The broker and the webapp may send any chunk message in any order, so    *)
(* loss, duplication, reordering and resending are all covered.  Whether a  *)
(* BLE transmission reaches the device is left open: transmit_aggregated_   *)
(* data ignores the result of ble_transmit.                                 *)
(***************************************************************************)
EXTENDS Aggregator, UpdateControl

VARIABLES
    handler,   \* device whose accepted chunk the event handler has put in the
               \* FIFO and not yet counted, or NoDevice
    delivered  \* chunks each device got since the gateway started, as they came

CONSTANT NoDevice

NotAChunk == -1

\* A downlink packet: a chunk, or something else, for a device.
DownlinkPacket == [dest : Device, id : ChunkId \cup {NotAChunk}]

ASSUME ForwardingAssumption ==
    DownlinkPacket \subseteq Packet /\ NoDevice \notin Device

forwardVars == <<handler, delivered>>
vars == <<fifo, entry_count, heap_free, pc, out, irq_masked,
          flag, total, current, nack, handler, delivered>>

FInit ==
    /\ Init
    /\ ControlInit
    /\ handler = NoDevice
    /\ delivered = [d \in Device |-> <<>>]
-----------------------------------------------------------------------------
\* Variants with a mistake in them; no action of the system uses them.
TransmitRequeuesFailed ==
    /\ pc["downlink"] = "sending"
    /\ entry_count["downlink"] # FIFO_MAX_ELEMENT_COUNT /\ heap_free > 0
    /\ pc' = [pc EXCEPT !["downlink"] = "polling"]
    /\ out' = [out EXCEPT !["downlink"] = NoPacket]
    /\ fifo' = [fifo EXCEPT !["downlink"] = Append(@, out["downlink"])]
    /\ entry_count' = [entry_count EXCEPT !["downlink"] = @ + 1]
    /\ heap_free' = heap_free - 1
    /\ UNCHANGED <<irq_masked, controlVars, forwardVars>>
-----------------------------------------------------------------------------
\* A message on the notification topic.
NotifyPackage(d, n) ==
    /\ handler = NoDevice
    /\ extractPackage(d, n)
    /\ UNCHANGED <<queueVars, workVars, forwardVars>>

\* A chunk message the handler does not let through.
DropChunk(d, c) ==
    /\ handler = NoDevice
    /\ ChunkUndecodable(d, c) \/ ChunkRejected(d, c)
    /\ UNCHANGED <<queueVars, workVars, forwardVars>>

\* An acceptable chunk too long for a FIFO entry is dropped without a NACK.
ChunkTooLong(d, c) ==
    /\ handler = NoDevice
    /\ Readable(c) /\ Acceptable(d, c) /\ c.len > ENTRY_MAX_SIZE
    /\ UNCHANGED vars

\* An acceptable chunk is put in the downlink FIFO, result ignored ...
ForwardChunk(d, c) ==
    /\ handler = NoDevice
    /\ Readable(c) /\ Acceptable(d, c) /\ c.len <= ENTRY_MAX_SIZE
    /\ downlink_aggregator_put([dest |-> d, id |-> c.id])
    /\ handler' = d
    /\ UNCHANGED <<controlVars, delivered>>

\* ... and then counted.  The work queue may run in between.
CountChunk ==
    /\ handler # NoDevice
    /\ incrementChunk(handler)
    /\ handler' = NoDevice
    /\ UNCHANGED <<queueVars, workVars, delivered>>

\* A BLE callback puts an image or a text for d in the downlink FIFO.
PutOther(d) ==
    /\ downlink_aggregator_put([dest |-> d, id |-> NotAChunk])
    /\ UNCHANGED <<controlVars, forwardVars>>

\* The steps of transmit_aggregated_data that only concern the aggregator.
TransmitWork ==
    /\ StartWork("downlink") \/ DownlinkDequeue \/ DownlinkRelease \/ WorkEnds("downlink")
    /\ UNCHANGED <<controlVars, forwardVars>>

\* ble_transmit reaches the device ...
TransmitDelivers ==
    /\ PacketDone("downlink")
    /\ LET p == out["downlink"] IN
        delivered' = IF p.id = NotAChunk THEN delivered
                     ELSE [delivered EXCEPT ![p.dest] = Append(@, p.id)]
    /\ UNCHANGED <<controlVars, handler>>

\* ... or not: no such device, the send fails, the link drops.  The packet is
\* gone either way.
TransmitLoses ==
    /\ PacketDone("downlink")
    /\ UNCHANGED <<controlVars, forwardVars>>

\* The gateway restarts: error_handler, a fault, a power cycle, or the end of
\* its own update.  Everything in RAM is lost.
Restart ==
    /\ ControlReset
    /\ fifo' = [d \in Direction |-> <<>>]
    /\ entry_count' = [d \in Direction |-> 0]
    /\ heap_free' = HeapBlocks
    /\ pc' = [d \in Direction |-> "waiting"]
    /\ out' = [d \in Direction |-> NoPacket]
    /\ irq_masked' = FALSE
    /\ handler' = NoDevice
    /\ delivered' = [d \in Device |-> <<>>]

FNext ==
    \/ \E d \in Device, n \in ChunkTotal : NotifyPackage(d, n)
    \/ \E d \in Device, c \in ChunkMessage :
        DropChunk(d, c) \/ ChunkTooLong(d, c) \/ ForwardChunk(d, c)
    \/ CountChunk
    \/ \E d \in Device : PutOther(d)
    \/ TransmitWork \/ TransmitDelivers \/ TransmitLoses
    \/ Restart

FSpec == FInit /\ [][FNext]_vars
-----------------------------------------------------------------------------
Downlink == fifo["downlink"]

\* The first chunk of d that has not been put in the FIFO.
NextChunk(d) == IF handler = d THEN current[d] + 1 ELSE current[d]

Got(d) == {delivered[d][i] : i \in 1..Len(delivered[d])}

\* Chunk k of d is on its way: in the FIFO or in the hands of the work item.
InTransit(d, k) ==
    \/ \E i \in 1..Len(Downlink) : Downlink[i] = [dest |-> d, id |-> k]
    \/ out["downlink"] = [dest |-> d, id |-> k]

FTypeOK ==
    /\ TypeOK
    /\ ControlTypeOK
    /\ handler \in Device \cup {NoDevice}
    /\ delivered \in [Device -> Seq(ChunkId)]

\* Chunks reach a device in order and at most once between two restarts,
\* whatever the broker sends and whatever is lost: each chunk in the FIFO is
\* later than all those before it and than all those delivered, and none is
\* later than the chunks accepted so far.
ForwardedInOrder ==
    \A d \in Device : \A i \in 1..Len(Downlink) :
        Downlink[i].dest = d /\ Downlink[i].id # NotAChunk =>
            /\ Downlink[i].id < NextChunk(d)
            /\ \A k \in Got(d) : k < Downlink[i].id
            /\ \A j \in 1..(i - 1) :
                Downlink[j].dest = d => Downlink[j].id < Downlink[i].id
            /\ out["downlink"] # NoPacket /\ out["downlink"].dest = d =>
                out["downlink"].id < Downlink[i].id

\* "The 9160DK will only deal with update chunks once the update flag for a
\* specific board is set": before that no chunk is counted, queued, in flight or
\* delivered, so every update starts from chunk zero.
NothingBeforeNotification ==
    \A d \in Device : ~flag[d] =>
        /\ current[d] = 0
        /\ delivered[d] = <<>>
        /\ \A k \in ChunkId : ~InTransit(d, k)

\* Both together: what a device may rely on between two restarts of the gateway.
DeliverySound == NothingBeforeNotification /\ ForwardedInOrder

\* Resending from the chunk a NACK names never skips a chunk that the gateway
\* has not accepted since it last started.
NackNotAhead ==
    [][\A d \in Device : nack'[d] # nack[d] => nack'[d] <= NextChunk(d)]_vars

\* Seen from its two ends, the sender and a device, the gateway is the abstract
\* delivery: no chunk overtakes another, comes twice or comes unaccepted, none is
\* taken before the notification, and a NACK names the first one not taken.
Delivery == INSTANCE ChunkDelivery
    WITH open <- flag, accepted <- [d \in Device |-> NextChunk(d)], got <- delivered

ForwardingIsDelivery == Delivery!Spec

\* "If both of these checks pass, then the expected chunk number is incremented
\* and the packet is forwarded over BLE" (firmwareUpdate.md): a chunk that was
\* counted is on its way or delivered.
CountedIsForwarded ==
    \A d \in Device : \A k \in ChunkId :
        k < current[d] => InTransit(d, k) \/ k \in Got(d)

\* "The 9160DK will then forward this information to the device" (firmwareUpdate.
\* md): an update opens with a packet for the device in the downlink FIFO.
NotificationForwarded ==
    [][\A d \in Device : flag'[d] /\ ~flag[d] =>
        \E i \in 1..Len(Downlink') : Downlink'[i].dest = d]_vars
=============================================================================
