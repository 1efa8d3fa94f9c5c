------------------------------ MODULE Traffic -------------------------------
(***************************************************************************)
(* What travels over BLE once the devices are found: ble_transmit with its  *)
(* write semaphore, ble_data_received, and the publishing of reports, on    *)
(* top of the aggregator.  All of it is ble.c and aggregator.c.             *)
(*                                                                         *)
(* The NUS client library is external: it takes one write per device at a   *)
(* time (-EALREADY otherwise) and calls ble_data_sent when that write is    *)
(* answered, however late, or fails with its connection.  Images and        *)
(* reports are numbered as they arrive at the gateway, so that order can    *)
(* be stated; empty data (a header and nothing else) is not sent.           *)
(***************************************************************************)
EXTENDS Aggregator

CONSTANTS
    MaxImages, MaxReports,  \* bounds on what the devices send
    ReportType              \* uplink packet types the devices report

Device == {"ESP32", "RPi"}

\* A downlink packet names its destination; number 0 is a text or a firmware
\* chunk, the others are camera images.  An uplink packet is a report.
DownlinkPacket == [image : 0..MaxImages, destination : Device]

UplinkPacket == [report : 1..MaxReports, type : ReportType]

TrafficPacket == DownlinkPacket \cup UplinkPacket

ASSUME TrafficAssumption ==
    TrafficPacket \subseteq Packet /\ MaxImages \in Nat /\ MaxReports \in Nat

NoWrite == [image |-> 0, destination |-> "none"]
Ping == [image |-> 0, destination |-> "ping"]

\* setTopic; the source of every packet is the ESP32 (ble.c:734).
setTopic(type) ==
    CASE type \in {"FIRMWARE_ERROR", "FIRMWARE_ACK"} -> "/ESP32/Update"
      [] type = "FIRMWARE_VERSION" -> "/oneM2M/resp/capstone-iot/NRFParent/json"
      [] type = "TRAIN_LOCATION" -> "/RaspberryPi/Data"

Topic == {setTopic(t) : t \in ReportType}

Published(p) == [report |-> p.report, topic |-> setTopic(p.type)]

VARIABLES
    nus_write_sem,  \* the semaphore of ble_transmit, 0 or 1
    waited,         \* ble_transmit is past k_sem_take and has yet to write
    write,          \* the write the NUS client of each device has pending
    linked,         \* devices discovered, mapped and connected
    listening,      \* devices whose notifications still reach ble_data_received
    taken, shown,   \* images arrived from the camera; those shown to the train
    reported, read, \* reports arrived; those published and where
    giver           \* (history) whose write gave the semaphore; "late" when it
                    \* did so between the two halves of a ble_transmit

bleVars == <<nus_write_sem, waited, write, linked, listening, giver>>
countVars == <<taken, shown, reported, read>>
trafficVars == <<aggregatorVars, bleVars, countVars>>

TInit ==
    /\ Init
    /\ nus_write_sem = 0 /\ waited = FALSE
    /\ write = [d \in Device |-> NoWrite]
    /\ linked = {} /\ listening = {}
    /\ taken = 0 /\ shown = <<>>
    /\ reported = 0 /\ read = <<>>
    /\ giver = "none"
-----------------------------------------------------------------------------
\* Variants with a mistake in them; no action of the system uses them.
SemaphoreUntouched == UNCHANGED <<nus_write_sem, giver>>

WriteAndRetry(p) ==
    /\ p.destination \in linked
    /\ IF write[p.destination] = NoWrite
       THEN write' = [write EXCEPT ![p.destination] = p] /\ UNCHANGED queueVars
       ELSE UNCHANGED write /\ Put("downlink", p)

PublishLater ==
    /\ pc["uplink"] = "sending"
    /\ read' = Append(read, Published(out["uplink"]))
    /\ pc' = [pc EXCEPT !["uplink"] = "polling"]
    /\ \/ UNCHANGED <<fifo, entry_count, heap_free>>
       \/ Put("uplink", out["uplink"])
    /\ out' = [out EXCEPT !["uplink"] = NoPacket]
    /\ UNCHANGED <<irq_masked, bleVars, taken, shown, reported>>
-----------------------------------------------------------------------------
\* ble_transmit.

\* k_sem_take: the semaphore is there, or 50 ms pass and the write is tried
\* all the same.
TakeOrTimeOut ==
    /\ \/ nus_write_sem = 1 /\ nus_write_sem' = 0
       \/ nus_write_sem = 0 /\ UNCHANGED nus_write_sem
    /\ giver' = "none"

\* The first half of ble_transmit, up to the return of k_sem_take.  A thread that
\* had to wait is not the next to run: callbacks may come before its write.
WaitForWrite ==
    /\ pc["downlink"] = "sending" /\ ~waited
    /\ TakeOrTimeOut
    /\ waited' = TRUE
    /\ UNCHANGED <<aggregatorVars, write, linked, listening, countVars>>

\* k_sem_give, for a write of d that ended.
k_sem_give(d) ==
    /\ nus_write_sem' = 1
    /\ giver' = IF waited THEN "late" ELSE d

\* bt_nus_client_send accepts the packet.
WriteStarts(p) ==
    /\ p.destination \in linked
    /\ write[p.destination] = NoWrite
    /\ write' = [write EXCEPT ![p.destination] = p]
    /\ UNCHANGED queueVars

\* No device of that name, a write still pending, or no buffer: the packet is
\* gone, and so is the semaphore that was taken for it.
WriteRefused(p) == UNCHANGED <<write, queueVars>>

\* The second half: look the device up by name and write.
ble_transmit ==
    /\ pc["downlink"] = "sending" /\ waited
    /\ waited' = FALSE
    /\ WriteStarts(out["downlink"]) \/ WriteRefused(out["downlink"])
    /\ pc' = [pc EXCEPT !["downlink"] = "polling"]
    /\ out' = [out EXCEPT !["downlink"] = NoPacket]
    /\ UNCHANGED <<irq_masked, nus_write_sem, giver, linked, listening, countVars>>

Shown(d) ==
    IF d = "RPi" /\ write[d].image # 0 THEN Append(shown, write[d].image) ELSE shown

\* ble_data_sent: the device has answered the pending write, possibly long
\* after ble_transmit gave up waiting for it.
ble_data_sent(d) ==
    /\ write[d] # NoWrite
    /\ shown' = Shown(d)
    /\ write' = [write EXCEPT ![d] = NoWrite]
    /\ k_sem_give(d)
    /\ UNCHANGED <<aggregatorVars, waited, linked, listening, taken, reported, read>>
-----------------------------------------------------------------------------
Text == [image |-> 0, destination |-> "ESP32"]

\* discovery_completed: map the device, subscribe to it, greet it past the
\* semaphore, and tell the camera when the train is there.
Discovered(d) ==
    /\ d \notin linked
    /\ linked' = linked \cup {d}
    /\ listening' = listening \cup {d}
    /\ write' = [write EXCEPT ![d] = Ping]
    /\ IF "RPi" \in linked' THEN downlink_aggregator_put(Text) ELSE UNCHANGED aggregatorVars
    /\ UNCHANGED <<nus_write_sem, waited, giver, countVars>>

\* disconnected: a pending write ends with an error, which gives the semaphore
\* too; whether the device got it is open.  The camera is told of the train.
Disconnected(d) ==
    /\ d \in linked
    /\ linked' = linked \ {d}
    /\ listening' = listening \ {d}
    /\ write' = [write EXCEPT ![d] = NoWrite]
    /\ shown' \in {shown, Shown(d)}
    /\ IF write[d] = NoWrite THEN UNCHANGED <<nus_write_sem, giver>>
                             ELSE k_sem_give(d)
    /\ IF d = "RPi" THEN downlink_aggregator_put(Text) ELSE UNCHANGED aggregatorVars
    /\ UNCHANGED <<waited, taken, reported, read>>

\* The MQTT handler forwards a firmware chunk.
ForwardChunk(d) ==
    /\ downlink_aggregator_put([image |-> 0, destination |-> d])
    /\ UNCHANGED <<bleVars, countVars>>
-----------------------------------------------------------------------------
\* ble_data_received, by the header of the data.

\* Header 04: an image, whoever sent it, for the train.
ImageReceived(d) ==
    /\ d \in listening
    /\ taken < MaxImages
    /\ taken' = taken + 1
    /\ downlink_aggregator_put([image |-> taken + 1, destination |-> "RPi"])
    /\ UNCHANGED <<bleVars, shown, reported, read>>

\* Headers 01, 02, 03 and 05.
ReportReceived(d, t) ==
    /\ d \in listening
    /\ reported < MaxReports
    /\ reported' = reported + 1
    /\ uplink_aggregator_put([report |-> reported + 1, type |-> t])
    /\ UNCHANGED <<bleVars, taken, shown, read>>

\* Anything but two digits: BT_GATT_ITER_STOP ends the subscription, and only
\* the next discovery starts another one.
HeaderMalformed(d) ==
    /\ d \in listening
    /\ listening' = listening \ {d}
    /\ UNCHANGED <<aggregatorVars, nus_write_sem, waited, write, linked, giver, countVars>>

ble_data_received(d) ==
    ImageReceived(d) \/ (\E t \in ReportType : ReportReceived(d, t)) \/ HeaderMalformed(d)
-----------------------------------------------------------------------------
\* The body of the loop of publish_aggregated_data: serialise, publish.
Publish ==
    /\ pc["uplink"] = "sending"
    /\ read' = Append(read, Published(out["uplink"]))
    /\ PacketDone("uplink")
    /\ UNCHANGED <<bleVars, taken, shown, reported>>

\* No memory for the JSON text, or no connection: the packet is gone.
PublishFails ==
    /\ PacketDone("uplink")
    /\ UNCHANGED <<bleVars, countVars>>

\* The steps of the two work items that the aggregator defines.
AggregatorWork ==
    /\ \/ uplink_aggregator_get \/ DownlinkDequeue \/ DownlinkRelease
       \/ \E d \in Direction : StartWork(d) \/ WorkEnds(d)
    /\ UNCHANGED <<bleVars, countVars>>

TNext ==
    \/ WaitForWrite \/ ble_transmit
    \/ \E d \in Device :
        \/ ble_data_sent(d) \/ Discovered(d) \/ Disconnected(d)
        \/ ForwardChunk(d) \/ ble_data_received(d)
    \/ Publish \/ PublishFails
    \/ AggregatorWork

TSpec == TInit /\ [][TNext]_trafficVars
-----------------------------------------------------------------------------
TrafficTypeOK ==
    /\ TypeOK
    /\ nus_write_sem \in 0..1 /\ waited \in BOOLEAN
    /\ write \in [Device -> {NoWrite, Ping} \cup TrafficPacket]
    /\ linked \subseteq Device /\ listening \subseteq linked
    /\ taken \in 0..MaxImages /\ shown \in Seq(1..MaxImages)
    /\ reported \in 0..MaxReports /\ read \in Seq([report : 1..MaxReports, topic : Topic])
    /\ giver \in Device \cup {"none", "late"}

\* How far ble_transmit holds back: while the write of a packet is pending, the
\* semaphore can have been opened by the end of the other device's write, or by
\* an answer (its own too) that came late, when the wait was over and the packet
\* not yet written.  Nothing else opens it: no time-out, greeting or refused write.
OtherOrLateOpens ==
    \A d \in Device :
        write[d] \in TrafficPacket /\ nus_write_sem = 1 => giver # d

Increasing(s) == \A i \in 1..Len(s) : \A j \in 1..(i - 1) : s[j] < s[i]

\* From the camera to the train, through the FIFO, the semaphore and the link:
\* images arrive in the order they were taken, none twice, though answers come
\* late and connections drop in the middle of a write.
ImagesInOrder == Increasing(shown)

\* From the devices to the broker: reports are published in the order they
\* arrived, none twice.
ReportsInOrder == Increasing([i \in 1..Len(read) |-> read[i].report])

LastShown == IF shown = <<>> THEN 0 ELSE shown[Len(shown)]

LastRead == IF read = <<>> THEN 0 ELSE read[Len(read)].report

\* End to end, any later number may still come out: what is lost on the way
\* nobody sees.
ImageChannel == INSTANCE OrderedLossyChannel
    WITH sent <- taken, pending <- (LastShown + 1)..taken, latest <- LastShown

ReportChannel == INSTANCE OrderedLossyChannel
    WITH sent <- reported, pending <- (LastRead + 1)..reported, latest <- LastRead

\* The whole way from the camera to the train (downlink FIFO, semaphore, write,
\* answer) is an ordered lossy channel, like the FIFO at its beginning: one
\* image is shown at a time, it has been taken, and it is later than the last.
\* So is the way of the reports, from the devices to the broker.
ThroughChannels == ImageChannel!Spec /\ ReportChannel!Spec
=============================================================================
