----------------------------- MODULE BleCentral -----------------------------
(***************************************************************************)
(* The gateway as a BLE central, ble.c: it scans for one device name at a   *)
(* time, connects to what it finds, gives each connection a context,        *)
(* discovers the NUS service and records in device_maps which context       *)
(* belongs to which name, for ble_transmit to find it by.                   *)
(*                                                                         *)
(* The callbacks connected, security_changed and discovery_* run on the     *)
(* Bluetooth RX thread; switch_device_name and disconnected run on the      *)
(* system work queue.  Both threads are cooperative, so a callback runs     *)
(* until it waits: for the context mutex, or in updateFlexContainerFor-     *)
(* ConnectedDevice, which publishes over the modem.  There it is cut into   *)
(* two steps and the other thread may run.                                  *)
(*                                                                         *)
(* External, modelled as ble.c uses them: the scan module connects to a     *)
(* match and stops scanning; a connection object lives as long as it is     *)
(* referenced and its peer cannot be connected to again meanwhile; the      *)
(* context library guards its contexts by one mutex, which                  *)
(* bt_conn_ctx_get, _get_by_id and _alloc lock and bt_conn_ctx_release      *)
(* unlocks; one GATT discovery runs at a time.                              *)
(***************************************************************************)
EXTENDS Integers, FiniteSets

CONSTANTS
    NoName,     \* an empty device name, or a context nobody uses
    NoContext,  \* no discovery is running
    CountLimit  \* bound on numConnectedDevices, both ways, in the model

Name == {"RPi", "ESP32"}
Context == 0..1  \* MAX_CONNECTED_DEVICES

ASSUME BleAssumption ==
    NoName \notin Name /\ NoContext \notin Context /\ CountLimit \in Nat

VARIABLES
    \* globals of ble.c
    target_device_name, connected_device_name, device_maps,
    is_connected,         \* RPiConnected and ESP32Connected, by name
    default_conn,         \* device scan_connecting has seen last, or NoName
    numConnectedDevices, switchEnabled,
    rpi_text,             \* last text about the Raspberry Pi put in the
                          \* downlink FIFO for the ESP32
    \* Zephyr
    switch_scheduled,     \* periodic_switch_work is scheduled
    filter, scanning,     \* name the scan module looks for; it is looking
    link,                 \* connection to the device of each name
    object_kept,          \* its connection object is still referenced
    contexts,             \* whose connection each context belongs to
    discovering,          \* context whose service is being discovered
    ctx_locks,            \* times the work queue thread holds the context mutex
    rx_at,                \* the RX thread: "idle", "blocked" on that mutex for good,
                          \* or "publishing" in discovery_completed
    wq_losing             \* device whose disconnected callback is publishing

nameVars == <<target_device_name, connected_device_name>>
mapVars == <<device_maps, is_connected, numConnectedDevices, rpi_text>>
switchVars == <<switchEnabled, switch_scheduled>>
scanVars == <<filter, scanning>>
linkVars == <<link, object_kept, default_conn>>
contextVars == <<contexts, discovering, ctx_locks>>
threadVars == <<rx_at, wq_losing>>
vars == <<nameVars, mapVars, switchVars, scanVars, linkVars, contextVars, threadVars>>

Other(n) == IF n = "RPi" THEN "ESP32" ELSE "RPi"

CInit ==
    /\ target_device_name = "RPi" /\ connected_device_name = NoName
    /\ device_maps = [i \in Context |-> NoName]
    /\ is_connected = [n \in Name |-> FALSE]
    /\ numConnectedDevices = 0 /\ default_conn = NoName /\ rpi_text = "none"
    /\ switchEnabled = FALSE /\ switch_scheduled = TRUE
    /\ filter = "RPi" /\ scanning = TRUE
    /\ link = [n \in Name |-> "down"] /\ object_kept = [n \in Name |-> FALSE]
    /\ contexts = [i \in Context |-> NoName] /\ discovering = NoContext
    /\ ctx_locks = 0 /\ rx_at = "idle" /\ wq_losing = NoName
-----------------------------------------------------------------------------
\* bt_scan_start fails, for want of memory or because it is on already.
ScanStart == scanning' \in {scanning, TRUE}

\* The three lines that look for device n from now on.
ScanFor(n) == filter' = n /\ ScanStart

\* One device is connected and the other not: look for the other.
SearchForMissing ==
    IF \E n \in Name : is_connected[n] /\ ~is_connected[Other(n)]
    THEN ScanFor(CHOOSE n \in Name : ~is_connected[n])
    ELSE UNCHANGED scanVars

\* bt_conn_ctx_alloc, _get and _get_by_id on the RX thread wait for the mutex.
ContextMutexFree == ctx_locks = 0

RxThreadBlocks ==
    /\ ~ContextMutexFree
    /\ rx_at' = "blocked"
    /\ UNCHANGED contextVars

ContextOf(n) == CHOOSE i \in Context : contexts[i] = n

HasContext(n) == \E i \in Context : contexts[i] = n

\* gatt_discover: the discovery starts unless another one is running.
StartDiscovery(i) == discovering' = IF discovering = NoContext THEN i ELSE discovering

\* The scan module finds the device it looks for and connects to it.
ScanMatch(n) ==
    /\ scanning /\ filter = n /\ link[n] = "down" /\ rx_at = "idle"
    /\ scanning' = FALSE
    /\ IF object_kept[n] THEN UNCHANGED linkVars  \* scan_connecting_error
       ELSE /\ link' = [link EXCEPT ![n] = "pending"]
            /\ object_kept' = [object_kept EXCEPT ![n] = TRUE]
            /\ default_conn' = n
    /\ UNCHANGED <<nameVars, mapVars, switchVars, filter, contextVars, threadVars>>

\* connected, called with an error: release the connection and scan again,
\* unless disconnected has reset default_conn meanwhile.
ConnectFails(n) ==
    /\ link[n] = "pending" /\ rx_at = "idle"
    /\ link' = [link EXCEPT ![n] = "down"]
    /\ connected_device_name' = target_device_name
    /\ IF default_conn = n
       THEN /\ object_kept' = [object_kept EXCEPT ![n] = FALSE]
            /\ default_conn' = NoName
            /\ ScanStart
       ELSE UNCHANGED <<object_kept, default_conn, scanning>>
    /\ UNCHANGED <<target_device_name, mapVars, switchVars, filter, contextVars,
                   threadVars>>

\* connected: the connection gets a context and its discovery is started;
\* scanning stops.  The MTU exchange or the NUS client may fail first.
Connected(n) ==
    /\ link[n] = "pending" /\ rx_at = "idle"
    /\ numConnectedDevices > -CountLimit
    /\ link' = [link EXCEPT ![n] = "up"]
    /\ connected_device_name' = target_device_name
    /\ \/ RxThreadBlocks /\ UNCHANGED scanning
       \/ /\ ContextMutexFree
          /\ LET i == CHOOSE j \in Context :
                        contexts[j] = NoName /\ \A k \in 0..(j - 1) : contexts[k] # NoName
             IN /\ contexts' = [contexts EXCEPT ![i] = n]
                /\ \/ StartDiscovery(i) /\ scanning' \in {scanning, FALSE}
                   \/ UNCHANGED <<discovering, scanning>>
          /\ UNCHANGED <<ctx_locks, rx_at>>
    /\ UNCHANGED <<target_device_name, mapVars, switchVars, filter, object_kept,
                   default_conn, wq_losing>>

\* security_changed: discover the services of n, maybe once more.
SecurityChanged(n) ==
    /\ link[n] = "up" /\ wq_losing # n /\ rx_at = "idle"
    /\ numConnectedDevices < CountLimit
    /\ \/ RxThreadBlocks
       \/ /\ ContextMutexFree /\ HasContext(n)
          /\ StartDiscovery(ContextOf(n))
          /\ UNCHANGED <<contexts, ctx_locks, rx_at>>
    /\ UNCHANGED <<nameVars, mapVars, switchVars, scanVars, linkVars, wq_losing>>

InUse == {i \in Context : contexts[i] # NoName}

\* discovery_completed looks at the first Cardinality(InUse) contexts, one by
\* one, and follows a null pointer if one of them is free.
MeetsFreeContext == \E k \in 0..(Cardinality(InUse) - 1) : contexts[k] = NoName

\* discovery_completed: the context is mapped to the name last connected to, the
\* ESP32 hears of the Raspberry Pi, and the CSE is told ...
DiscoveryCompleted ==
    /\ discovering # NoContext /\ rx_at = "idle"
    /\ \/ RxThreadBlocks /\ UNCHANGED mapVars
       \/ /\ ContextMutexFree /\ ~MeetsFreeContext
          /\ device_maps' = [device_maps EXCEPT ![discovering] = connected_device_name]
          /\ is_connected' = [is_connected EXCEPT ![connected_device_name] = TRUE]
          /\ rpi_text' = IF is_connected'["RPi"] THEN "rpiConnected" ELSE rpi_text
          /\ discovering' = NoContext
          /\ rx_at' = "publishing"
          /\ UNCHANGED <<numConnectedDevices, contexts, ctx_locks>>
    /\ UNCHANGED <<nameVars, switchVars, scanVars, linkVars, wq_losing>>

\* ... then the connection is counted, and the scan goes on for the device still
\* missing.
DiscoveryEnds ==
    /\ rx_at = "publishing"
    /\ numConnectedDevices' = numConnectedDevices + 1
    /\ IF numConnectedDevices' = Cardinality(Context)
       THEN switchEnabled' = FALSE /\ UNCHANGED scanVars
       ELSE UNCHANGED switchEnabled /\ SearchForMissing
    /\ rx_at' = "idle"
    /\ UNCHANGED <<nameVars, device_maps, is_connected, rpi_text, switch_scheduled,
                   linkVars, contextVars, wq_losing>>

\* discovery_service_not_found and discovery_error.
DiscoveryFails ==
    /\ discovering # NoContext /\ rx_at = "idle"
    /\ discovering' = NoContext
    /\ UNCHANGED <<nameVars, mapVars, switchVars, scanVars, linkVars,
                   contexts, ctx_locks, threadVars>>
-----------------------------------------------------------------------------
Mapped == {i \in Context : device_maps[i] # NoName}

FirstMapped == CHOOSE i \in Mapped : \A j \in Mapped : i <= j

\* Variants with a mistake in them; no action of the system uses them.
ForgetFlagTextSwapped(i) ==
    /\ is_connected' = [is_connected EXCEPT ![device_maps[i]] = FALSE]
    /\ rpi_text' = IF device_maps[i] = "ESP32" THEN "rpiDisconnected" ELSE rpi_text

KeepContext(n) == UNCHANGED contexts

ContextGetAndRelease == UNCHANGED ctx_locks

ContextGetAndReleaseTwice == ctx_locks' = ctx_locks - 1

KeepEntry(i) == UNCHANGED device_maps

\* The flag of entry i is cleared and the ESP32 hears of it if it is the
\* Raspberry Pi's.
ForgetFlag(i) ==
    /\ is_connected' = [is_connected EXCEPT ![device_maps[i]] = FALSE]
    /\ rpi_text' = IF device_maps[i] = "RPi" THEN "rpiDisconnected" ELSE rpi_text

ClearEntry(i) == device_maps' = [device_maps EXCEPT ![i] = NoName]

\* bt_conn_ctx_get locks the context mutex, and nothing unlocks it.
ContextGet == ctx_locks' = ctx_locks + 1

\* bt_conn_ctx_free.
FreeContext(n) ==
    contexts' = [i \in Context |-> IF contexts[i] = n THEN NoName ELSE contexts[i]]

\* The rest of disconnected: the context goes, bt_conn_lookup_addr_le's reference
\* to the connection stays, and one of the searches starts.
ConnectionLost(n) ==
    /\ link' = [link EXCEPT ![n] = "down"]
    /\ object_kept' = [object_kept EXCEPT ![n] = Mapped # {}]
    /\ default_conn' = NoName
    /\ FreeContext(n)
    /\ numConnectedDevices' = numConnectedDevices - 1
    /\ IF \A m \in Name : ~is_connected[m]
       THEN /\ switch_scheduled' = (switch_scheduled \/ ~switchEnabled)
            /\ UNCHANGED scanVars
       ELSE UNCHANGED switch_scheduled /\ SearchForMissing
    /\ UNCHANGED <<nameVars, is_connected, rpi_text, switchEnabled, rx_at>>

\* A discovery on the connection ends before disconnected is called.
EndDiscovery(n) ==
    discovering' = IF discovering # NoContext /\ contexts[discovering] = n
                   THEN NoContext ELSE discovering

\* disconnected finds no mapped context, or none of this connection.
DisconnectedUnmapped(n) ==
    /\ link[n] = "up" /\ wq_losing = NoName
    /\ Mapped = {} \/ ~HasContext(n)
    /\ EndDiscovery(n)
    /\ ConnectionLost(n)
    /\ UNCHANGED <<device_maps, ctx_locks, wq_losing>>

\* disconnected takes the first mapped context, whichever device it belongs to,
\* and tells the CSE ...
DisconnectedMapped(n) ==
    /\ link[n] = "up" /\ wq_losing = NoName
    /\ Mapped # {} /\ HasContext(n)
    /\ EndDiscovery(n)
    /\ ForgetFlag(FirstMapped)
    /\ ContextGet
    /\ wq_losing' = n
    /\ UNCHANGED <<nameVars, device_maps, numConnectedDevices, switchVars, scanVars,
                   linkVars, contexts, rx_at>>

\* ... then clears that entry: it is still the first one, as the mutex it holds
\* keeps discovery_completed from adding any.
DisconnectedEnds ==
    /\ wq_losing # NoName
    /\ ClearEntry(FirstMapped)
    /\ ConnectionLost(wq_losing)
    /\ wq_losing' = NoName
    /\ UNCHANGED <<discovering, ctx_locks>>

\* switch_device_name looks for the other device, unless both or that one are
\* connected; then it is not scheduled again.
SwitchDeviceName ==
    /\ switch_scheduled /\ wq_losing = NoName
    /\ IF numConnectedDevices = Cardinality(Context)
       THEN /\ switchEnabled' = FALSE /\ switch_scheduled' = FALSE
            /\ UNCHANGED <<target_device_name, scanVars>>
       ELSE /\ switchEnabled' = TRUE
            /\ IF is_connected[Other(target_device_name)]
               THEN /\ switch_scheduled' = FALSE
                    /\ UNCHANGED <<target_device_name, scanVars>>
               ELSE /\ target_device_name' = Other(target_device_name)
                    /\ filter' = target_device_name'
                    /\ scanning' \in BOOLEAN
                    /\ UNCHANGED switch_scheduled
    /\ UNCHANGED <<connected_device_name, mapVars, linkVars, contextVars, threadVars>>

\* The gateway restarts after error_handler, a fault (such as discovery_completed
\* meeting a free context) or a power cycle; the connections are lost.
Restart ==
    /\ target_device_name' = "RPi" /\ connected_device_name' = NoName
    /\ device_maps' = [i \in Context |-> NoName]
    /\ is_connected' = [n \in Name |-> FALSE]
    /\ numConnectedDevices' = 0 /\ default_conn' = NoName /\ rpi_text' = "none"
    /\ switchEnabled' = FALSE /\ switch_scheduled' = TRUE
    /\ filter' = "RPi" /\ scanning' = TRUE
    /\ link' = [n \in Name |-> "down"] /\ object_kept' = [n \in Name |-> FALSE]
    /\ contexts' = [i \in Context |-> NoName] /\ discovering' = NoContext
    /\ ctx_locks' = 0 /\ rx_at' = "idle" /\ wq_losing' = NoName

RxThread ==
    \/ \E n \in Name :
        ScanMatch(n) \/ ConnectFails(n) \/ Connected(n) \/ SecurityChanged(n)
    \/ DiscoveryCompleted \/ DiscoveryEnds \/ DiscoveryFails

WorkQueue ==
    \/ SwitchDeviceName \/ DisconnectedEnds
    \/ \E n \in Name : DisconnectedUnmapped(n) \/ DisconnectedMapped(n)

CNext == RxThread \/ WorkQueue \/ Restart

CSpec == CInit /\ [][CNext]_vars
-----------------------------------------------------------------------------
CTypeOK ==
    /\ target_device_name \in Name /\ connected_device_name \in Name \cup {NoName}
    /\ device_maps \in [Context -> Name \cup {NoName}]
    /\ is_connected \in [Name -> BOOLEAN]
    /\ numConnectedDevices \in Int
    /\ default_conn \in Name \cup {NoName}
    /\ rpi_text \in {"none", "rpiConnected", "rpiDisconnected"}
    /\ switchEnabled \in BOOLEAN /\ switch_scheduled \in BOOLEAN
    /\ filter \in Name /\ scanning \in BOOLEAN
    /\ link \in [Name -> {"down", "pending", "up"}]
    /\ object_kept \in [Name -> BOOLEAN]
    /\ contexts \in [Context -> Name \cup {NoName}]
    /\ discovering \in Context \cup {NoContext}
    /\ ctx_locks \in Nat
    /\ rx_at \in {"idle", "blocked", "publishing"} /\ wq_losing \in Name \cup {NoName}

\* The connection table is sound whatever fails and whoever disconnects, also in
\* the middle of a discovery: a context belongs to one live connection, the
\* context under discovery is in use, and a live connection has a context unless
\* the RX thread is stuck in connected.
ContextsOwned ==
    /\ \A i \in InUse : link[contexts[i]] = "up"
    /\ \A i, j \in InUse : contexts[i] = contexts[j] => i = j
    /\ discovering # NoContext => discovering \in InUse
    /\ \A n \in Name : link[n] = "up" /\ ~HasContext(n) => rx_at = "blocked"

\* ble_transmit gets a connection for every name in device_maps as long as no
\* mapped connection has been lost.
MappedContextInUse == ContextMutexFree => Mapped \subseteq InUse

\* disconnected leaks the context mutex at most once per entry of device_maps:
\* the leaks stop all new entries, and each uses one up.
LeaksBounded ==
    wq_losing = NoName => ctx_locks + Cardinality(Mapped) <= Cardinality(Context)

\* The three together: what ble_transmit and the callbacks rely on.
ContextsSound == ContextsOwned /\ MappedContextInUse /\ LeaksBounded

\* What the ESP32 has heard of the Raspberry Pi last agrees with the gateway's
\* flags, in whichever order the two came.  That is not yet the truth: see
\* RpiHeardTruly.
FlagAnnounced ==
    /\ rpi_text = "rpiConnected" => is_connected["RPi"]
    /\ (\A n \in Name : is_connected[n]) => rpi_text = "rpiConnected"

\* Of the connections it tells this much: until a mapped one is lost, and the
\* mutex with it, the ESP32 hears of no disconnection, and of a connection
\* only if some mapped one is up, of whichever device.
ConnectionAnnounced ==
    ContextMutexFree =>
        /\ rpi_text # "rpiDisconnected"
        /\ rpi_text = "rpiConnected" =>
              \E i \in Mapped \cap InUse : link[contexts[i]] = "up"

\* The two together: what discovery_completed and disconnected announce.
RpiAnnounced == FlagAnnounced /\ ConnectionAnnounced
-----------------------------------------------------------------------------
\* Claims of the code's comments, logs and docs that the code does not keep.

\* "Then, we map that device to the table so we can pick the device using the
\* name when we send data later" (discovery_completed): a mapped connection is
\* that of the device it is mapped to.
MappedByName == \A i \in Mapped \cap InUse : contexts[i] = device_maps[i]

\* "Removing connection from device maps and updating flags" (disconnected):
\* the flag of the device that disconnects is false afterwards.
DisconnectUpdatesFlag ==
    [][\A n \in Name : link[n] = "up" /\ link'[n] = "down" => ~is_connected'[n]]_vars

\* What the ESP32 would make of the text, though no comment spells it out: the
\* Raspberry Pi is connected.  It need not be: its context may be mapped to the
\* other name, and disconnected may clear the other's flag instead.
RpiHeardTruly == rpi_text = "rpiConnected" => link["RPi"] = "up"

\* "Switch scan target every 10 seconds if nothing found" (scan_init): with no
\* device connected or connecting the switch is scheduled.
NothingFoundKeepsSwitching == (\A n \in Name : link[n] = "down") => switch_scheduled

\* "So we have to iterate through the context library to find the device that
\* matches" (discovery_completed): the iteration gets there, and meets only
\* contexts in use.
DiscoveryFindsContext ==
    discovering # NoContext /\ ContextMutexFree => ~MeetsFreeContext
=============================================================================
