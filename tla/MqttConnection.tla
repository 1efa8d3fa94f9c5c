--------------------------- MODULE MqttConnection ---------------------------
(***************************************************************************)
(* The main thread of the gateway: start-up, the connect loop of main.c, and *)
(* mqtt_evt_handler of mqtt_connection.c as far as it is about the           *)
(* connection, the payload buffer, the parser's memory and the LEDs.  What   *)
(* a chunk or a notification does to an update is in UpdateControl.          *)
(*                                                                         *)
(* The Bluetooth callbacks are cooperative: they interrupt the main thread   *)
(* between the load and the store of led_condition, never the reverse.       *)
(* Undefined behaviour (strlen of a null pointer, reads and frees of         *)
(* indeterminate pointers) either goes on or faults, and a fault reboots.    *)
(***************************************************************************)
EXTENDS Integers

CONSTANTS
    MESSAGE_BUFFER_SIZE,  \* CONFIG_MQTT_MESSAGE_BUFFER_SIZE, tx_buffer
    HeapTrees,            \* parsed messages the C library's heap has room for
    Packaged,             \* devices that packages are sent for
    MaxFaults             \* bound on faults

ASSUME GatewayAssumption ==
    /\ HeapTrees \in Nat /\ MaxFaults \in Nat
    /\ Packaged \cap {"chunk", "other", "nothing"} = {}

Topic == {"resp", "esp32", "9160", "rpi", "notif"}

\* Lengths of the topics subscribe() names; each takes two more bytes for the
\* length and one for the QoS, after five kept for the header and two of id.
TopicLength ==
    [t \in Topic |-> CASE t = "resp" -> 48 [] t = "esp32" -> 13 [] t = "9160" -> 12
                       [] t = "rpi" -> 19 [] t = "notif" -> 30]

SubscribeSize ==
    LET Entry(t) == TopicLength[t] + 3
    IN  7 + Entry("resp") + Entry("esp32") + Entry("9160") + Entry("rpi") + Entry("notif")

\* What a message holds: a chunk, the package of a device, or other JSON.
Json == {"chunk", "other"} \cup Packaged

VARIABLES
    main,           \* where main() is; "ended" once it has returned
    copy,           \* led_condition as the main thread has loaded it
    led_condition,  \* set of the condition bits
    ble_on,         \* work_init and ble_init have run
    session,        \* the MQTT client's connection
    subscribed,     \* the broker holds the subscriptions of this session
    net_good,       \* LTE and broker are reachable
    payload_buf,    \* what the payload buffer holds; "nothing" does not parse
    heap_free,      \* of HeapTrees, those not leaked
    flagged,        \* devices whose update flag is set
    connacked,      \* (history) the broker accepted a connection since the boot
    announced,      \* (history) devices whose package came since the boot, or part of it
    faults          \* faults so far

ledVars == <<copy, led_condition>>
mqttVars == <<session, subscribed, connacked>>
handlerVars == <<payload_buf, heap_free, flagged, announced>>
vars == <<main, ledVars, ble_on, mqttVars, net_good, handlerVars, faults>>

Init ==
    /\ main = "modem" /\ copy = {} /\ led_condition = {} /\ ble_on = FALSE
    /\ session = "closed" /\ subscribed = FALSE /\ connacked = FALSE
    /\ net_good = TRUE
    /\ payload_buf = "nothing" /\ heap_free = HeapTrees
    /\ flagged = {} /\ announced = {}
    /\ faults = 0

\* error_handler, or the kernel's fault handler: the board reboots.
Fault ==
    /\ faults < MaxFaults
    /\ faults' = faults + 1
    /\ main' = "modem" /\ copy' = {} /\ led_condition' = {} /\ ble_on' = FALSE
    /\ session' = "closed" /\ subscribed' = FALSE /\ connacked' = FALSE
    /\ payload_buf' = "nothing" /\ heap_free' = HeapTrees
    /\ flagged' = {} /\ announced' = {}
    /\ UNCHANGED net_good

MainAt(l, next) == main = l /\ main' = next
-----------------------------------------------------------------------------
\* The bits a Bluetooth callback clears and sets: connected,
\* discovery_completed and disconnected.
BleBits == {<<{"SCANNING"}, {"CONNECTING"}>>, <<{"CONNECTING"}, {"CONNECTED"}>>,
            <<{"CONNECTED"}, {}>>}

\* Variants with a mistake in them; no action of the system uses them.
BleBitFromOldCopy(b) ==
    /\ ble_on
    /\ led_condition' = (copy \ b[1]) \cup b[2]
    /\ UNCHANGED <<main, copy, ble_on, mqttVars, net_good, handlerVars, faults>>

ConnectAtFirstOnly ==
    /\ MainAt("connect", "poll")
    /\ net_good /\ ~connacked
    /\ session' = "opening"
    /\ UNCHANGED <<ledVars, ble_on, subscribed, connacked, net_good, handlerVars, faults>>

NotificationKept(j) ==
    /\ heap_free >= 2 /\ j \in Packaged
    /\ heap_free' = heap_free - 3
    /\ flagged' = flagged \cup {j}

NotificationForAnother(j) ==
    /\ heap_free >= 2 /\ j \in Packaged \ flagged
    /\ heap_free' = heap_free - 1
    /\ \E d \in Packaged \ {j} : flagged' = flagged \cup {d}
-----------------------------------------------------------------------------
\* main.c: from reset to the first connection.

modem_configure ==
    /\ \/ MainAt("modem", "ended")  \* nrf_modem_lib_init or lte_lc failed
       \/ MainAt("modem", "lte")
    /\ led_condition' = led_condition \cup {"LTE_CONNECTING"}
    /\ UNCHANGED <<copy, ble_on, mqttVars, net_good, handlerVars, faults>>

\* lte_handler gives lte_connected, which modem_configure waits for.
LteConnected ==
    /\ MainAt("lte", "client")
    /\ net_good
    /\ led_condition' = (led_condition \ {"LTE_CONNECTING"}) \cup {"MQTT_CONNECTING"}
    /\ UNCHANGED <<copy, ble_on, mqttVars, net_good, handlerVars, faults>>

\* client_init fails when the name of the broker cannot be resolved, and main
\* then returns for good.
client_init ==
    /\ \/ ~net_good /\ MainAt("client", "ended")
       \/ MainAt("client", "announce")
    /\ UNCHANGED <<ledVars, ble_on, mqttVars, net_good, handlerVars, faults>>

\* updateFlexContainerForConnectedDevice("9160"): strlen of a null pointer,
\* and a publish on a client that is not connected, which is ignored.
AnnounceGateway ==
    /\ main = "announce"
    /\ \/ Fault
       \/ main' = "init" /\ UNCHANGED <<ledVars, ble_on, mqttVars, net_good, handlerVars, faults>>

\* work_init, ble_init (scan_init lights the LED) and OTAInit; an error in one
\* of the last two ends main, and what runs on other threads goes on.
StartBle ==
    /\ MainAt("init", "connect") \/ MainAt("init", "ended")
    /\ ble_on' = TRUE
    /\ led_condition' = led_condition \cup {"SCANNING"}
    /\ UNCHANGED <<copy, mqttVars, net_good, handlerVars, faults>>
-----------------------------------------------------------------------------
\* main.c: the connect loop.

\* mqtt_connect and fds_init; a failure waits and tries again.
Connect ==
    /\ MainAt("connect", "poll")
    /\ net_good
    /\ session' = "opening"
    /\ UNCHANGED <<ledVars, ble_on, subscribed, connacked, net_good, handlerVars, faults>>

\* poll, mqtt_live or mqtt_input fails, or CONNACK refuses the connection.
ConnectionError ==
    /\ MainAt("poll", "disconnect")
    /\ ~net_good
    /\ UNCHANGED <<ledVars, ble_on, mqttVars, net_good, handlerVars, faults>>

Disconnect ==
    /\ MainAt("disconnect", "connect")
    /\ session' = "closed" /\ subscribed' = FALSE
    /\ UNCHANGED <<ledVars, ble_on, connacked, net_good, handlerVars, faults>>

\* CONNACK: subscribe() loads led_condition ...
Connack ==
    /\ MainAt("poll", "clear")
    /\ session = "opening"
    /\ session' = "open" /\ connacked' = TRUE
    /\ copy' = led_condition
    /\ UNCHANGED <<led_condition, ble_on, subscribed, net_good, handlerVars, faults>>

\* ... stores it without one bit and loads it again ...
ClearConnecting ==
    /\ MainAt("clear", "set")
    /\ led_condition' = copy \ {"MQTT_CONNECTING"}
    /\ copy' = led_condition'
    /\ UNCHANGED <<ble_on, mqttVars, net_good, handlerVars, faults>>

\* ... stores it with another ...
SetConnected ==
    /\ MainAt("set", "subscribe")
    /\ led_condition' = copy \cup {"MQTT_LTE_CONNECTED"}
    /\ copy' = {}
    /\ UNCHANGED <<ble_on, mqttVars, net_good, handlerVars, faults>>

\* ... and sends SUBSCRIBE if it fits the buffer.  The caller ignores -ENOMEM.
Subscribe ==
    /\ MainAt("subscribe", "poll")
    /\ subscribed' = (SubscribeSize <= MESSAGE_BUFFER_SIZE)
    /\ UNCHANGED <<ledVars, ble_on, session, connacked, net_good, handlerVars, faults>>
-----------------------------------------------------------------------------
\* MQTT_EVT_PUBLISH.

ReadOutcome == {"whole", "empty", "too long", "failed"}

Announced(j, r) == IF r = "empty" THEN announced ELSE announced \cup ({j} \cap Packaged)

\* get_received_payload: the result of reading is not looked at, so what is
\* handled may be left from an earlier message, the last part of a message
\* that is too long, or a splice: the first part of a message whose reading
\* failed, and after it what was in the buffer, itself a splice perhaps.  A part
\* or a splice may parse, as a package too; the name in it is that of a device
\* whose package it has a part of, as no name is made of parts of two others.
Buffer(j, r) ==
    CASE r = "whole" -> {j}
      [] r = "empty" -> {payload_buf}
      [] r = "too long" -> {"nothing", "chunk", "other"} \cup ({j} \cap Packaged)
      [] r = "failed" -> {payload_buf, "nothing", "chunk", "other"} \cup Announced(j, r)

\* extractPackage takes the device's flag; json_payload and the structure are
\* freed, the strings it points to are not.
NotificationAccepted(j) ==
    /\ heap_free >= 2 /\ j \in Packaged \ flagged
    /\ heap_free' = heap_free - 1
    /\ flagged' = flagged \cup {j}

\* The flag is set, or there is no memory to parse the text a second time:
\* the handler returns without freeing json_payload.
NotificationRefused(j) ==
    /\ heap_free = 1 \/ j \in flagged
    /\ heap_free' = heap_free - 1
    /\ UNCHANGED flagged

\* No package inside: the handler goes on with an indeterminate device name.
NotificationForeign(j) ==
    /\ heap_free >= 2 /\ j \notin Packaged
    /\ UNCHANGED <<heap_free, flagged>>

Notification(j) ==
    NotificationAccepted(j) \/ NotificationRefused(j) \/ NotificationForeign(j)

\* A chunk frees its tree on every path; what has no other name is
\* "Unrecognized message format" and keeps it.
Update(j) ==
    /\ heap_free' = IF j = "chunk" THEN heap_free ELSE heap_free - 1
    /\ UNCHANGED flagged

Handle(t, j) ==
    IF j = "nothing" \/ heap_free = 0  \* cJSON_Parse fails
    THEN UNCHANGED <<heap_free, flagged>>
    ELSE IF t = "notif" THEN Notification(j) ELSE Update(j)

PublishEvent(t, j, r) ==
    /\ main = "poll" /\ session = "open" /\ subscribed
    /\ r = "failed" => ~net_good
    /\ main' = IF r = "failed" THEN "disconnect" ELSE "poll"
    /\ payload_buf' \in Buffer(j, r)
    /\ announced' = Announced(j, r)
    /\ Handle(t, payload_buf')
    /\ UNCHANGED <<ledVars, ble_on, mqttVars, net_good, faults>>

\* A refused notification frees a pointer never set, a foreign one compares a
\* string never set: either may fault.
NotificationFaults(j) ==
    /\ main = "poll" /\ session = "open" /\ subscribed
    /\ heap_free >= 2 /\ j \notin Packaged \ flagged
    /\ Fault
-----------------------------------------------------------------------------
\* A Bluetooth callback changes the bits of its device, and announces the
\* device: strlen of a null pointer again.
BleBit(b) ==
    /\ ble_on
    /\ led_condition' = (led_condition \ b[1]) \cup b[2]
    /\ UNCHANGED <<main, copy, ble_on, mqttVars, net_good, handlerVars, faults>>

AnnounceFaults == ble_on /\ Fault

NetChanges ==
    /\ net_good' = ~net_good
    /\ UNCHANGED <<main, ledVars, ble_on, mqttVars, handlerVars, faults>>

MainStep ==
    \/ modem_configure \/ LteConnected \/ client_init \/ AnnounceGateway \/ StartBle
    \/ Connect \/ ConnectionError \/ Disconnect
    \/ Connack \/ ClearConnecting \/ SetConnected \/ Subscribe

Next ==
    \/ MainStep
    \/ \E t \in Topic, j \in Json, r \in ReadOutcome : PublishEvent(t, j, r)
    \/ \E j \in Json : NotificationFaults(j)
    \/ \E b \in BleBits : BleBit(b)
    \/ AnnounceFaults \/ NetChanges

Spec == Init /\ [][Next]_vars

\* The main thread runs: mqtt_connect, CONNACK and errors come in finite time.
FairSpec == Spec /\ WF_vars(MainStep)
-----------------------------------------------------------------------------
\* leds_update: LED 3 is lit by a steady condition, or by a blinking one while
\* its phase is on.
Led3(c, fast, slow) ==
    \/ "LTE_CONNECTING" \in c /\ slow
    \/ "MQTT_CONNECTING" \in c /\ fast
    \/ "MQTT_LTE_CONNECTED" \in c

MTypeOK ==
    /\ main \in {"modem", "lte", "client", "announce", "init", "connect", "poll",
                 "clear", "set", "subscribe", "disconnect", "ended"}
    /\ session \in {"closed", "opening", "open"}
    /\ subscribed => session = "open"
    /\ ble_on \in BOOLEAN /\ subscribed \in BOOLEAN
    /\ net_good \in BOOLEAN /\ connacked \in BOOLEAN
    /\ payload_buf \in Json \cup {"nothing"}
    /\ heap_free \in 0..HeapTrees
    /\ flagged \subseteq Packaged /\ announced \subseteq Packaged
    /\ faults \in 0..MaxFaults

\* The Bluetooth callbacks never undo what subscribe() does to led_condition,
\* wherever they run between its loads and stores: after it, and for good, the
\* bit of a connection is set and that of connecting is not.  That LED 3 then
\* tells the state of the network is another matter: see BlinksWhileConnecting.
MqttBitsKept ==
    main \notin {"clear", "set"} =>
        /\ connacked <=> "MQTT_LTE_CONNECTED" \in led_condition
        /\ connacked => "MQTT_CONNECTING" \notin led_condition

\* No update starts of a device for which nothing came: though the handler
\* takes what an empty, overlong or broken message leaves in the buffer for that
\* message's payload, under whatever topic, the package in it is of a device
\* that was sent one since the boot, if not whole.
UpdateWasAnnounced == flagged \subseteq announced

\* However often the network fails, once it stays good the gateway ends up
\* connected for good, and subscribed if the request fits, unless main() has
\* returned in a start-up that failed.
Recovers ==
    <>[]net_good =>
        <>[](\/ main = "ended"
             \/ /\ session = "open" /\ main = "poll"
                /\ subscribed \/ SubscribeSize > MESSAGE_BUFFER_SIZE)

\* "Subscribe to the topic CONFIG_MQTT_SUB_TOPIC when we have a successful
\* connection": connected and back in the loop, the gateway is subscribed.
SubscribedOnceConnected == session = "open" /\ main = "poll" => subscribed

\* "LED 3 blinking: The device is connecting to the LTE network" (readme.md):
\* with nothing reachable and the connect loop trying, LED 3 is dark in some
\* phase.  It is at the first attempt; after a connection was lost it is lit.
BlinksWhileConnecting ==
    main = "connect" /\ ~net_good =>
        \E fast, slow \in BOOLEAN : ~Led3(led_condition, fast, slow)

BleConditions == UNION {b[1] \cup b[2] : b \in BleBits}

\* "LED 1 and LED 2 reflect the device connections" (readme.md): only the
\* callbacks change their bits.  The stores of subscribe() put back old ones.
StoresKeepBleBits ==
    [][ClearConnecting \/ SetConnected =>
          led_condition' \cap BleConditions = led_condition \cap BleConditions]_vars

\* "Return an error if the payload is larger than the payload buffer"
\* (get_received_payload): what was not read whole starts no update.  Nobody looks
\* at the error.
UpdateReadWhole ==
    [][\A t \in Topic, j \in Json, r \in ReadOutcome \ {"whole"} :
          PublishEvent(t, j, r) => flagged' = flagged]_vars
=============================================================================
