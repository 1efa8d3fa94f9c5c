------------------------ MODULE MqttConnectionProofs ------------------------
(***************************************************************************)
(* The main thread of the gateway, for every size of its buffers and heap,   *)
(* every set of devices and any number of reboots: no update of a device for *)
(* which nothing came, and the bits of the connection untouched.             *)
(***************************************************************************)
EXTENDS MqttConnection, TLAPS

\* A package in the buffer, whole or spliced, is of a device that was sent one.
BufferAnnounced == payload_buf \in Packaged => payload_buf \in announced

\* Where main is tells how far the session is.
SessionStage ==
    /\ main \in {"modem", "lte", "client", "announce", "init", "connect"} => session = "closed"
    /\ main \in {"clear", "set", "subscribe"} => session = "open" /\ connacked
    /\ main \in {"modem", "lte", "client", "announce", "init"} => ~connacked

\* The bits of a connection and of connecting change for good, whatever else
\* the copy of led_condition misses.
ConnectedBit ==
    /\ connacked /\ main \notin {"clear", "set"} => "MQTT_LTE_CONNECTED" \in led_condition
    /\ ~connacked => "MQTT_LTE_CONNECTED" \notin led_condition
    /\ connacked /\ main \notin {"clear", "set"} => "MQTT_CONNECTING" \notin led_condition
    /\ main = "set" => "MQTT_CONNECTING" \notin copy

IInv == MTypeOK /\ UpdateWasAnnounced /\ BufferAnnounced /\ SessionStage /\ ConnectedBit

Started ==
    /\ main = "modem" /\ led_condition = {} /\ ble_on = FALSE
    /\ session = "closed" /\ subscribed = FALSE /\ connacked = FALSE
    /\ payload_buf = "nothing" /\ heap_free = HeapTrees
    /\ flagged = {} /\ announced = {}
-----------------------------------------------------------------------------
\* The state after a boot.
LEMMA StartedIInv ==
  ASSUME Started, net_good \in BOOLEAN, faults \in 0..MaxFaults
  PROVE  IInv
<1>1. heap_free \in 0..HeapTrees
  BY GatewayAssumption DEF GatewayAssumption, Started
<1>2. MTypeOK
  BY <1>1 DEF Started, MTypeOK
<1>3. UpdateWasAnnounced /\ BufferAnnounced
  BY GatewayAssumption DEF GatewayAssumption, Started, UpdateWasAnnounced, BufferAnnounced
<1>4. SessionStage /\ ConnectedBit
  BY DEF Started, SessionStage, ConnectedBit
<1> QED
  BY <1>2, <1>3, <1>4 DEF IInv

\* The state main starts in.
LEMMA InitIInv == Init => IInv
<1> SUFFICES ASSUME Init PROVE IInv
  OBVIOUS
<1>1. Started /\ net_good \in BOOLEAN /\ faults = 0
  BY DEF Init, Started
<1>2. faults \in 0..MaxFaults
  BY <1>1, GatewayAssumption DEF GatewayAssumption
<1> QED
  BY <1>1, <1>2, StartedIInv

\* A reboot, which starts main again.
LEMMA FaultIInv ==
  ASSUME IInv, Fault
  PROVE  IInv'
<1>1. Started' /\ net_good' \in BOOLEAN
  BY DEF Fault, Started, IInv, MTypeOK
<1>2. faults' \in 0..MaxFaults
  BY GatewayAssumption DEF GatewayAssumption, Fault, IInv, MTypeOK
<1>3. heap_free' \in 0..HeapTrees
  BY <1>1, GatewayAssumption DEF GatewayAssumption, Started
<1>4. MTypeOK'
  BY <1>1, <1>2, <1>3 DEF Started, MTypeOK
<1>5. UpdateWasAnnounced' /\ BufferAnnounced'
  BY <1>1, GatewayAssumption DEF GatewayAssumption, Started, UpdateWasAnnounced, BufferAnnounced
<1>6. SessionStage' /\ ConnectedBit'
  BY <1>1 DEF Started, SessionStage, ConnectedBit
<1> QED
  BY <1>4, <1>5, <1>6 DEF IInv

\* The steps of main.c and of CONNACK leave the handler's state alone.
LEMMA MainIInv ==
  ASSUME IInv, MainStep
  PROVE  IInv'
<1> USE DEF IInv, MainAt, ledVars, mqttVars
<1>1. CASE Fault
  BY <1>1, FaultIInv
<1>2. ASSUME UNCHANGED <<handlerVars, net_good, faults>>, ble_on' \in BOOLEAN,
             connacked' \in BOOLEAN, subscribed' \in BOOLEAN, subscribed' => session' = "open",
             main' \in {"modem", "lte", "client", "announce", "init", "connect", "poll",
                        "clear", "set", "subscribe", "disconnect", "ended"},
             session' \in {"closed", "opening", "open"}
      PROVE  MTypeOK' /\ UpdateWasAnnounced' /\ BufferAnnounced'
  BY <1>2 DEF handlerVars, MTypeOK, UpdateWasAnnounced, BufferAnnounced
<1>3. ASSUME modem_configure \/ LteConnected \/ client_init \/ StartBle
      PROVE  IInv'
  <2>1. MTypeOK' /\ UpdateWasAnnounced' /\ BufferAnnounced'
    BY <1>2, <1>3 DEF modem_configure, LteConnected, client_init, StartBle, MTypeOK
  <2>2. SessionStage' /\ ConnectedBit'
    BY <1>3 DEF modem_configure, LteConnected, client_init, StartBle, SessionStage, ConnectedBit
  <2> QED
    BY <2>1, <2>2
<1>4. CASE AnnounceGateway
  <2>1. CASE main = "announce" /\ main' = "init" /\ UNCHANGED <<ledVars, ble_on, mqttVars, net_good, handlerVars, faults>>
    <3>1. MTypeOK' /\ UpdateWasAnnounced' /\ BufferAnnounced'
      BY <1>2, <2>1 DEF MTypeOK
    <3>2. SessionStage' /\ ConnectedBit'
      BY <2>1 DEF SessionStage, ConnectedBit
    <3> QED
      BY <3>1, <3>2
  <2> QED
    BY <1>1, <1>4, <2>1 DEF AnnounceGateway
<1>5. ASSUME Connect \/ ConnectionError \/ Disconnect
      PROVE  IInv'
  <2>1. MTypeOK' /\ UpdateWasAnnounced' /\ BufferAnnounced'
    BY <1>2, <1>5 DEF Connect, ConnectionError, Disconnect, MTypeOK, SessionStage
  <2>2. SessionStage' /\ ConnectedBit'
    BY <1>5 DEF Connect, ConnectionError, Disconnect, SessionStage, ConnectedBit
  <2> QED
    BY <2>1, <2>2
<1>6. ASSUME Connack \/ ClearConnecting \/ SetConnected
      PROVE  IInv'
  <2>1. MTypeOK' /\ UpdateWasAnnounced' /\ BufferAnnounced'
    BY <1>2, <1>6 DEF Connack, ClearConnecting, SetConnected, MTypeOK
  <2>2. SessionStage' /\ ConnectedBit'
    BY <1>6 DEF Connack, ClearConnecting, SetConnected, SessionStage, ConnectedBit
  <2> QED
    BY <2>1, <2>2
<1>7. CASE Subscribe
  <2>1. subscribed' \in BOOLEAN /\ session' = "open"
    BY <1>7 DEF Subscribe, SessionStage
  <2>2. MTypeOK' /\ UpdateWasAnnounced' /\ BufferAnnounced'
    BY <1>2, <1>7, <2>1 DEF Subscribe, MTypeOK
  <2>3. SessionStage' /\ ConnectedBit'
    BY <1>7 DEF Subscribe, SessionStage, ConnectedBit
  <2> QED
    BY <2>2, <2>3
<1> QED
  BY <1>3, <1>4, <1>5, <1>6, <1>7 DEF MainStep
-----------------------------------------------------------------------------
\* A message: its memory comes from what is left, and a flag it sets is that
\* of the package in the buffer.
LEMMA HandleType ==
  ASSUME heap_free \in 0..HeapTrees, NEW t, NEW j, Handle(t, j)
  PROVE  /\ heap_free' \in 0..HeapTrees
         /\ flagged' = flagged \/ (j \in Packaged /\ flagged' = flagged \cup {j})
  BY GatewayAssumption
  DEF GatewayAssumption, Handle, Notification, NotificationAccepted, NotificationRefused,
      NotificationForeign, Update

\* A publication in any topic, read whole, in part or not at all.
LEMMA PublishIInv ==
  ASSUME IInv, NEW t \in Topic, NEW j \in Json, NEW r \in ReadOutcome, PublishEvent(t, j, r)
  PROVE  IInv'
<1> USE DEF IInv
<1>1. /\ payload_buf' \in Json \cup {"nothing"}
      /\ payload_buf' \in Packaged => payload_buf' \in announced'
      /\ announced \subseteq announced' /\ announced' \subseteq Packaged
  <2>1. announced' = Announced(j, r)
    BY DEF PublishEvent
  <2>2. payload_buf' \in Buffer(j, r)
    BY DEF PublishEvent
  <2>3. announced \subseteq announced' /\ announced' \subseteq Packaged
    BY <2>1 DEF Announced, MTypeOK
  <2>4. payload_buf' \in {j, payload_buf, "nothing", "chunk", "other"} \cup announced'
    BY <2>1, <2>2 DEF Buffer, ReadOutcome
  <2>5. payload_buf' \in Json \cup {"nothing"}
    BY <2>3, <2>4 DEF MTypeOK, Json
  <2>6. ASSUME payload_buf' \in Packaged PROVE payload_buf' \in announced'
    <3>1. "nothing" \notin Packaged /\ "chunk" \notin Packaged /\ "other" \notin Packaged
      BY GatewayAssumption DEF GatewayAssumption
    <3>2. CASE payload_buf' = payload_buf
      BY <2>3, <2>6, <3>2 DEF BufferAnnounced
    <3>3. CASE payload_buf' # payload_buf
      <4>1. r # "empty"
        BY <2>2, <3>3 DEF Buffer
      <4>2. announced' = announced \cup ({j} \cap Packaged)
        BY <2>1, <4>1 DEF Announced
      <4> QED
        BY <2>4, <2>6, <3>1, <3>3, <4>2
    <3> QED
      BY <3>2, <3>3
  <2> QED
    BY <2>3, <2>5, <2>6
<1>2. /\ heap_free' \in 0..HeapTrees
      /\ flagged' = flagged \/ (payload_buf' \in Packaged /\ flagged' = flagged \cup {payload_buf'})
  BY HandleType DEF PublishEvent, MTypeOK
<1>3. main = "poll" /\ main' \in {"poll", "disconnect"}
  BY DEF PublishEvent
<1>4. UNCHANGED <<copy, led_condition, ble_on, session, subscribed, connacked, net_good, faults>>
  BY DEF PublishEvent, ledVars, mqttVars
<1>5. MTypeOK'
  BY <1>1, <1>2, <1>3, <1>4 DEF MTypeOK
<1>6. UpdateWasAnnounced' /\ BufferAnnounced'
  BY <1>1, <1>2 DEF UpdateWasAnnounced, BufferAnnounced
<1>7. SessionStage' /\ ConnectedBit'
  BY <1>3, <1>4 DEF SessionStage, ConnectedBit
<1> QED
  BY <1>5, <1>6, <1>7
-----------------------------------------------------------------------------
\* The Bluetooth callbacks, which touch other bits than that of the connection,
\* and the network.
LEMMA OthersIInv ==
  ASSUME IInv, (\E b \in BleBits : BleBit(b)) \/ NetChanges
  PROVE  IInv'
<1> USE DEF IInv
<1>1. ASSUME NEW b \in BleBits, BleBit(b) PROVE IInv'
  <2>1. "MQTT_LTE_CONNECTED" \notin b[1] \cup b[2] /\ "MQTT_CONNECTING" \notin b[2]
    BY DEF BleBits
  <2>2. /\ led_condition' = (led_condition \ b[1]) \cup b[2]
        /\ UNCHANGED <<main, copy, ble_on, session, subscribed, connacked, net_good,
                       payload_buf, heap_free, flagged, announced, faults>>
    BY <1>1 DEF BleBit, mqttVars, handlerVars
  <2>3. SessionStage' /\ ConnectedBit'
    BY <2>1, <2>2 DEF SessionStage, ConnectedBit
  <2> QED
    BY <2>2, <2>3 DEF MTypeOK, UpdateWasAnnounced, BufferAnnounced
<1>2. CASE NetChanges
  BY <1>2 DEF NetChanges, ledVars, mqttVars, handlerVars, MTypeOK, UpdateWasAnnounced,
              BufferAnnounced, SessionStage, ConnectedBit
<1> QED
  BY <1>1, <1>2

\* The invariant holds in every reachable state.
THEOREM Inductive == Spec => []IInv
<1>1. IInv /\ [Next]_vars => IInv'
  <2> SUFFICES ASSUME IInv, [Next]_vars PROVE IInv'
    OBVIOUS
  <2>1. CASE Fault
    BY <2>1, FaultIInv
  <2>2. CASE Next
    BY <2>1, <2>2, MainIInv, PublishIInv, OthersIInv DEF Next, NotificationFaults, AnnounceFaults
  <2>3. CASE UNCHANGED vars
    BY <2>3 DEF vars, ledVars, mqttVars, handlerVars, IInv, MTypeOK, UpdateWasAnnounced,
                BufferAnnounced, SessionStage, ConnectedBit
  <2> QED
    BY <2>2, <2>3
<1> QED
  BY InitIInv, <1>1, PTL DEF Spec

\* The variables keep their types: in particular the memory leaked never
\* exceeds the heap.
THEOREM TypeCorrect == Spec => []MTypeOK
  BY Inductive, PTL DEF IInv

\* No payload, stale, cut off or spliced, starts an update of a device for which
\* no package was sent, if the name in a splice is one of its parts'.
THEOREM NoUpdateUnannounced == Spec => []UpdateWasAnnounced
  BY Inductive, PTL DEF IInv

\* What subscribe() does to the bits of the connection stays done, whatever the
\* Bluetooth callbacks do between its loads and stores of led_condition.
THEOREM ConnectionBitsKept == Spec => []MqttBitsKept
<1>1. IInv => MqttBitsKept
  <2> SUFFICES ASSUME IInv, main \notin {"clear", "set"}
               PROVE  /\ connacked <=> "MQTT_LTE_CONNECTED" \in led_condition
                      /\ connacked => "MQTT_CONNECTING" \notin led_condition
    BY DEF MqttBitsKept
  <2> QED
    BY DEF IInv, MTypeOK, ConnectedBit
<1> QED
  BY Inductive, <1>1, PTL
=============================================================================
