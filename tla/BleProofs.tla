----------------------------- MODULE BleProofs -----------------------------
(***************************************************************************)
(* The two ends of a BLE connection: the gateway's connection table and     *)
(* what it tells of it, and the receive buffer of the ESP32.                *)
(***************************************************************************)
EXTENDS BleCentral, CameraNode, TLAPS, FiniteSetTheorems, SequenceTheorems

\* A disconnection that is publishing holds the context mutex and still has a
\* mapped entry to clear, and no discovery runs on its connection.
LosingKept ==
    wq_losing # NoName =>
        /\ ctx_locks > 0 /\ Mapped # {}
        /\ ctx_locks + Cardinality(Mapped) <= Cardinality(Context) + 1
        /\ discovering # NoContext => contexts[discovering] # wq_losing

\* A context in use has a name to be mapped to, and until a mapped connection is
\* lost, what the ESP32 hears stands on an entry of device_maps.
TextBacked ==
    /\ connected_device_name = NoName => InUse = {}
    /\ ContextMutexFree =>
          /\ rpi_text # "rpiDisconnected"
          /\ rpi_text = "rpiConnected" => Mapped # {}

CentralInv == CTypeOK /\ ContextsSound /\ LosingKept /\ FlagAnnounced /\ TextBacked
-----------------------------------------------------------------------------
\* The two names, and what is no name or context.
LEMMA NameFacts ==
    /\ \A n \in Name : Other(n) \in Name /\ Other(n) # n /\ n # NoName
    /\ \A n, m \in Name : m = n \/ m = Other(n)
    /\ "RPi" \in Name /\ "ESP32" \in Name /\ NoName \notin Name /\ NoContext \notin Context
<1>1. "RPi" \in Name /\ "ESP32" \in Name
  BY DEF Name
<1>2. ASSUME NEW n \in Name PROVE Other(n) \in Name /\ Other(n) # n
  BY DEF Name, Other
<1>3. ASSUME NEW n \in Name, NEW m \in Name PROVE m = n \/ m = Other(n)
  BY DEF Name, Other
<1> QED
  BY <1>1, <1>2, <1>3, BleAssumption DEF BleAssumption

\* The sizes of sets of contexts.
LEMMA ContextSets ==
    /\ Cardinality(Context) = 2 /\ Cardinality({}) = 0
    /\ \A S \in SUBSET Context :
        /\ Cardinality(S) \in 0..2
        /\ \A i \in S : Cardinality(S \ {i}) = Cardinality(S) - 1
<1>1. IsFiniteSet(Context) /\ Cardinality(Context) = 2
  <2>1. 0 \in Int /\ 1 \in Int
    OBVIOUS
  <2>2. IsFiniteSet(0..1) /\ Cardinality(0..1) = IF 0 > 1 THEN 0 ELSE 1 - 0 + 1
    BY ONLY <2>1, FS_Interval, Zenon
  <2>3. (IF 0 > 1 THEN 0 ELSE 1 - 0 + 1) = 2
    OBVIOUS
  <2>4. Context = 0..1
    BY DEF Context
  <2> DEFINE Size == IF 0 > 1 THEN 0 ELSE 1 - 0 + 1
  <2>5. Cardinality(0..1) = Size /\ Size = 2
    BY ONLY <2>2, <2>3, Zenon
  <2> HIDE DEF Size
  <2> QED
    BY ONLY <2>2, <2>4, <2>5, Zenon
<1>2. ASSUME NEW S \in SUBSET Context
      PROVE  IsFiniteSet(S) /\ Cardinality(S) \in 0..2
  <2>1. IsFiniteSet(S) /\ Cardinality(S) <= 2
    BY <1>1, FS_Subset
  <2>2. Cardinality(S) \in Nat
    BY <2>1, FS_CardinalityType
  <2> QED
    BY <2>1, <2>2
<1>3. ASSUME NEW S \in SUBSET Context, NEW i \in S
      PROVE  Cardinality(S \ {i}) = Cardinality(S) - 1
  BY <1>2, FS_RemoveElement
<1> QED
  BY <1>1, <1>2, <1>3, FS_EmptySet

\* What the code picks exists: a context of a connection that has one,
LEMMA ContextOfIs ==
    ASSUME NEW n, HasContext(n)
    PROVE  ContextOf(n) \in Context /\ contexts[ContextOf(n)] = n
  BY DEF HasContext, ContextOf

\* the first mapped entry,
LEMMA FirstMappedIs == ASSUME Mapped # {} PROVE FirstMapped \in Mapped
<1>1. \E i \in Mapped : \A j \in Mapped : i <= j
  BY DEF Mapped, Context
<1> QED
  BY <1>1 DEF FirstMapped

\* and the device to search for.
LEMMA SearchTypes ==
    ASSUME CTypeOK, SearchForMissing
    PROVE  filter' \in Name /\ scanning' \in BOOLEAN
<1>1. CASE \E n \in Name : is_connected[n] /\ ~is_connected[Other(n)]
  <2>1. \E n \in Name : ~is_connected[n]
    BY <1>1, NameFacts
  <2>2. (CHOOSE n \in Name : ~is_connected[n]) \in Name
    BY <2>1
  <2> QED
    BY <1>1, <2>2 DEF SearchForMissing, ScanFor, ScanStart, CTypeOK
<1>2. CASE ~\E n \in Name : is_connected[n] /\ ~is_connected[Other(n)]
  BY <1>2 DEF SearchForMissing, scanVars, CTypeOK
<1> QED
  BY <1>1, <1>2

\* A context is free when a device without one connects: the two contexts belong
\* to different connections, and there are two devices.
LEMMA FreeContextIs ==
    ASSUME CTypeOK, ContextsOwned, NEW n \in Name, link[n] = "pending",
           NEW i, i = CHOOSE j \in Context :
                        contexts[j] = NoName /\ \A k \in 0..(j - 1) : contexts[k] # NoName
    PROVE  i \in Context /\ contexts[i] = NoName
<1>1. \A j \in Context : contexts[j] = NoName \/ contexts[j] = Other(n)
  BY NameFacts DEF CTypeOK, ContextsOwned, InUse
<1>2. contexts[0] = NoName \/ contexts[1] = NoName
  BY <1>1, NameFacts DEF ContextsOwned, InUse, Context
<1>3. \E j \in Context : contexts[j] = NoName /\ \A k \in 0..(j - 1) : contexts[k] # NoName
  <2>1. CASE contexts[0] = NoName
    <3>1. 0..(0 - 1) = {} /\ 0 \in Context
      BY DEF Context
    <3> QED
      BY <2>1, <3>1
  <2>2. CASE contexts[0] # NoName
    <3>1. 0..(1 - 1) = {0} /\ 1 \in Context
      BY DEF Context
    <3> QED
      BY <1>2, <2>2, <3>1
  <2> QED
    BY <2>1, <2>2
<1> QED
  BY <1>3
-----------------------------------------------------------------------------
\* The state after initialisation and after a restart.
LEMMA InitCentralInv == CInit => CentralInv
<1> SUFFICES ASSUME CInit PROVE CentralInv
  OBVIOUS
<1>1. CTypeOK
  <2>1. /\ device_maps \in [Context -> Name \cup {NoName}] /\ is_connected \in [Name -> BOOLEAN]
        /\ contexts \in [Context -> Name \cup {NoName}] /\ object_kept \in [Name -> BOOLEAN]
    BY DEF CInit
  <2>2. link \in [Name -> {"down", "pending", "up"}]
    BY DEF CInit
  <2>3. target_device_name \in Name /\ filter \in Name /\ connected_device_name \in Name \cup {NoName}
    BY NameFacts DEF CInit
  <2>4. default_conn \in Name \cup {NoName} /\ wq_losing \in Name \cup {NoName}
    BY DEF CInit
  <2>5. switchEnabled \in BOOLEAN /\ switch_scheduled \in BOOLEAN /\ scanning \in BOOLEAN
    BY Zenon DEF CInit
  <2>7. numConnectedDevices \in Int /\ ctx_locks \in Nat
    <3>1. numConnectedDevices = 0 /\ ctx_locks = 0
      BY DEF CInit
    <3> QED
      BY ONLY <3>1
  <2>6. /\ rpi_text \in {"none", "rpiConnected", "rpiDisconnected"}
        /\ rx_at \in {"idle", "blocked", "publishing"} /\ discovering \in Context \cup {NoContext}
    BY DEF CInit
  <2> QED
    BY <2>1, <2>2, <2>3, <2>4, <2>5, <2>6, <2>7, Zenon DEF CTypeOK
<1>2. Mapped = {} /\ InUse = {} /\ wq_losing = NoName /\ ctx_locks = 0
  BY DEF CInit, Mapped, InUse
<1>3. ContextsOwned
  BY <1>2 DEF CInit, ContextsOwned
<1>4. MappedContextInUse /\ LeaksBounded /\ LosingKept
  BY <1>2, ContextSets DEF MappedContextInUse, LeaksBounded, LosingKept
<1>5. FlagAnnounced
  BY NameFacts DEF CInit, FlagAnnounced
<1>6. TextBacked
  BY <1>2 DEF CInit, TextBacked
<1> QED
  BY <1>1, <1>3, <1>4, <1>5, <1>6 DEF CentralInv, ContextsSound

\* Every variable keeps its type.
LEMMA TypeStep == ASSUME CTypeOK, ContextsOwned, RxThread \/ WorkQueue PROVE CTypeOK'
<1>1. link' \in [Name -> {"down", "pending", "up"}]
  <2>1. link \in [Name -> {"down", "pending", "up"}]
    BY DEF CTypeOK
  <2>2. \/ link' = link
        \/ \E n \in Name : \E x \in {"down", "pending", "up"} : link' = [link EXCEPT ![n] = x]
    BY NameFacts
    DEF RxThread, WorkQueue, ScanMatch, ConnectFails, Connected, SecurityChanged,
        DiscoveryCompleted, DiscoveryEnds, DiscoveryFails, SwitchDeviceName, DisconnectedEnds,
        DisconnectedUnmapped, DisconnectedMapped, ConnectionLost, linkVars, CTypeOK
  <2> QED
    BY <2>1, <2>2
<1>2. object_kept' \in [Name -> BOOLEAN]
  <2>1. object_kept \in [Name -> BOOLEAN]
    BY DEF CTypeOK
  <2>2. \/ object_kept' = object_kept
        \/ \E n \in Name : \E x \in BOOLEAN : object_kept' = [object_kept EXCEPT ![n] = x]
    BY NameFacts
    DEF RxThread, WorkQueue, ScanMatch, ConnectFails, Connected, SecurityChanged,
        DiscoveryCompleted, DiscoveryEnds, DiscoveryFails, SwitchDeviceName, DisconnectedEnds,
        DisconnectedUnmapped, DisconnectedMapped, ConnectionLost, linkVars, CTypeOK
  <2> QED
    BY <2>1, <2>2
<1>3. is_connected' \in [Name -> BOOLEAN]
  <2>1. is_connected \in [Name -> BOOLEAN]
    BY DEF CTypeOK
  <2>2. \/ is_connected' = is_connected
        \/ \E n : \E x \in BOOLEAN : is_connected' = [is_connected EXCEPT ![n] = x]
    BY DEF RxThread, WorkQueue, ScanMatch, ConnectFails, Connected, SecurityChanged,
        DiscoveryCompleted, DiscoveryEnds, DiscoveryFails, SwitchDeviceName, DisconnectedEnds,
        DisconnectedUnmapped, DisconnectedMapped, ConnectionLost, mapVars, ForgetFlag
  <2> QED
    BY <2>1, <2>2
<1>4. device_maps' \in [Context -> Name \cup {NoName}]
  <2>1. device_maps \in [Context -> Name \cup {NoName}] /\ connected_device_name \in Name \cup {NoName}
    BY DEF CTypeOK
  <2>2. \/ device_maps' = device_maps
        \/ \E i : device_maps' = [device_maps EXCEPT ![i] = NoName]
        \/ \E i : device_maps' = [device_maps EXCEPT ![i] = connected_device_name]
    BY DEF RxThread, WorkQueue, ScanMatch, ConnectFails, Connected, SecurityChanged,
        DiscoveryCompleted, DiscoveryEnds, DiscoveryFails, SwitchDeviceName, DisconnectedEnds,
        DisconnectedUnmapped, DisconnectedMapped, ConnectionLost, mapVars, ClearEntry
  <2> QED
    BY <2>1, <2>2
<1>5. contexts' \in [Context -> Name \cup {NoName}]
  <2>1. contexts \in [Context -> Name \cup {NoName}]
    BY DEF CTypeOK
  <2>2. \/ contexts' = contexts
        \/ \E n \in Name : \E i : contexts' = [contexts EXCEPT ![i] = n]
        \/ \E n : FreeContext(n)
    BY DEF RxThread, WorkQueue, ScanMatch, ConnectFails, Connected, SecurityChanged,
        DiscoveryCompleted, DiscoveryEnds, DiscoveryFails, SwitchDeviceName, DisconnectedEnds,
        DisconnectedUnmapped, DisconnectedMapped, ConnectionLost, contextVars, RxThreadBlocks
  <2>3. ASSUME NEW n, FreeContext(n) PROVE contexts' \in [Context -> Name \cup {NoName}]
    BY <2>1, <2>3 DEF FreeContext
  <2> QED
    BY <2>1, <2>2, <2>3
<1>6. target_device_name' \in Name /\ connected_device_name' \in Name \cup {NoName}
  <2>1. target_device_name \in Name /\ connected_device_name \in Name \cup {NoName}
    BY DEF CTypeOK
  <2>2. \/ target_device_name' = target_device_name
        \/ target_device_name' = Other(target_device_name)
    BY DEF RxThread, WorkQueue, ScanMatch, ConnectFails, Connected, SecurityChanged,
        DiscoveryCompleted, DiscoveryEnds, DiscoveryFails, SwitchDeviceName, DisconnectedEnds,
        DisconnectedUnmapped, DisconnectedMapped, ConnectionLost, nameVars
  <2>3. \/ connected_device_name' = connected_device_name
        \/ connected_device_name' = target_device_name
    BY DEF RxThread, WorkQueue, ScanMatch, ConnectFails, Connected, SecurityChanged,
        DiscoveryCompleted, DiscoveryEnds, DiscoveryFails, SwitchDeviceName, DisconnectedEnds,
        DisconnectedUnmapped, DisconnectedMapped, ConnectionLost, nameVars
  <2> QED
    BY <2>1, <2>2, <2>3, NameFacts
<1>7. filter' \in Name /\ scanning' \in BOOLEAN
  <2>1. filter \in Name /\ scanning \in BOOLEAN /\ target_device_name \in Name
    BY DEF CTypeOK
  <2>2. \/ filter' = filter \/ filter' = Other(target_device_name)
        \/ SearchForMissing
    BY DEF RxThread, WorkQueue, ScanMatch, ConnectFails, Connected, SecurityChanged,
        DiscoveryCompleted, DiscoveryEnds, DiscoveryFails, SwitchDeviceName, DisconnectedEnds,
        DisconnectedUnmapped, DisconnectedMapped, ConnectionLost, scanVars
  <2>3. scanning' \in {scanning, TRUE, FALSE} \/ SearchForMissing
    BY <2>1 DEF RxThread, WorkQueue, ScanMatch, ConnectFails, Connected, SecurityChanged,
        DiscoveryCompleted, DiscoveryEnds, DiscoveryFails, SwitchDeviceName, DisconnectedEnds,
        DisconnectedUnmapped, DisconnectedMapped, ConnectionLost, scanVars, ScanStart
  <2> QED
    BY <2>1, <2>2, <2>3, SearchTypes, NameFacts
<1>8. switchEnabled' \in BOOLEAN /\ switch_scheduled' \in BOOLEAN
  BY DEF CTypeOK, RxThread, WorkQueue, ScanMatch, ConnectFails, Connected, SecurityChanged,
        DiscoveryCompleted, DiscoveryEnds, DiscoveryFails, SwitchDeviceName, DisconnectedEnds,
        DisconnectedUnmapped, DisconnectedMapped, ConnectionLost, switchVars
<1>9. default_conn' \in Name \cup {NoName} /\ wq_losing' \in Name \cup {NoName}
  <2>1. default_conn' = default_conn \/ default_conn' \in Name \cup {NoName}
    BY DEF RxThread, WorkQueue, ScanMatch, ConnectFails, Connected, SecurityChanged,
        DiscoveryCompleted, DiscoveryEnds, DiscoveryFails, SwitchDeviceName, DisconnectedEnds,
        DisconnectedUnmapped, DisconnectedMapped, ConnectionLost, linkVars
  <2>2. wq_losing' = wq_losing \/ wq_losing' \in Name \cup {NoName}
    BY DEF RxThread, WorkQueue, ScanMatch, ConnectFails, Connected, SecurityChanged,
        DiscoveryCompleted, DiscoveryEnds, DiscoveryFails, SwitchDeviceName, DisconnectedEnds,
        DisconnectedUnmapped, DisconnectedMapped, ConnectionLost, threadVars
  <2> QED
    BY <2>1, <2>2 DEF CTypeOK
<1>10. discovering' \in Context \cup {NoContext}
  <2>1. ASSUME NEW n \in Name, Connected(n) PROVE discovering' \in Context \cup {NoContext}
    BY <2>1, FreeContextIs DEF Connected, RxThreadBlocks, StartDiscovery, contextVars, CTypeOK
  <2>2. ASSUME NEW n \in Name, SecurityChanged(n) PROVE discovering' \in Context \cup {NoContext}
    BY <2>2, ContextOfIs DEF SecurityChanged, RxThreadBlocks, StartDiscovery, contextVars, CTypeOK
  <2>3. \/ discovering' = discovering \/ discovering' = NoContext
        \/ \E n \in Name : Connected(n) \/ SecurityChanged(n)
    BY DEF RxThread, WorkQueue, ScanMatch, ConnectFails,
        DiscoveryCompleted, DiscoveryEnds, DiscoveryFails, SwitchDeviceName, DisconnectedEnds,
        DisconnectedUnmapped, DisconnectedMapped, contextVars, RxThreadBlocks, EndDiscovery
  <2> QED
    BY <2>1, <2>2, <2>3 DEF CTypeOK
<1>11. ctx_locks' \in Nat /\ numConnectedDevices' \in Int
  <2>1. ctx_locks' = ctx_locks \/ ctx_locks' = ctx_locks + 1
    BY DEF RxThread, WorkQueue, ScanMatch, ConnectFails, Connected, SecurityChanged,
        DiscoveryCompleted, DiscoveryEnds, DiscoveryFails, SwitchDeviceName, DisconnectedEnds,
        DisconnectedUnmapped, DisconnectedMapped, ConnectionLost, contextVars, RxThreadBlocks, ContextGet
  <2>2. \/ numConnectedDevices' = numConnectedDevices
        \/ numConnectedDevices' = numConnectedDevices + 1
        \/ numConnectedDevices' = numConnectedDevices - 1
    BY DEF RxThread, WorkQueue, ScanMatch, ConnectFails, Connected, SecurityChanged,
        DiscoveryCompleted, DiscoveryEnds, DiscoveryFails, SwitchDeviceName, DisconnectedEnds,
        DisconnectedUnmapped, DisconnectedMapped, ConnectionLost, mapVars
  <2> QED
    BY <2>1, <2>2 DEF CTypeOK
<1>12. rpi_text' \in {"none", "rpiConnected", "rpiDisconnected"}
  BY DEF CTypeOK, RxThread, WorkQueue, ScanMatch, ConnectFails, Connected, SecurityChanged,
        DiscoveryCompleted, DiscoveryEnds, DiscoveryFails, SwitchDeviceName, DisconnectedEnds,
        DisconnectedUnmapped, DisconnectedMapped, ConnectionLost, mapVars, ForgetFlag
<1>13. rx_at' \in {"idle", "blocked", "publishing"}
  BY DEF CTypeOK, RxThread, WorkQueue, ScanMatch, ConnectFails, Connected, SecurityChanged,
        DiscoveryCompleted, DiscoveryEnds, DiscoveryFails, SwitchDeviceName, DisconnectedEnds,
        DisconnectedUnmapped, DisconnectedMapped, ConnectionLost, threadVars, RxThreadBlocks
<1> QED
  BY <1>1, <1>2, <1>3, <1>4, <1>5, <1>6, <1>7, <1>8, <1>9, <1>10, <1>11, <1>12, <1>13, Zenon
  DEF CTypeOK
-----------------------------------------------------------------------------
\* A step that changes neither the contexts nor which connections are up, and
\* starts a discovery only of a context in use, keeps the table sound.
LEMMA OwnedKept ==
    ASSUME ContextsOwned, contexts' = contexts,
           \A n \in Name : link'[n] = "up" <=> link[n] = "up",
           contexts \in [Context -> Name \cup {NoName}],
           discovering' \in {discovering, NoContext} \cup InUse,
           rx_at = "blocked" => rx_at' = "blocked"
    PROVE  ContextsOwned'
<1>1. InUse' = InUse /\ \A n : HasContext(n)' <=> HasContext(n)
  BY DEF InUse, HasContext
<1>2. \A i \in InUse : contexts[i] \in Name
  BY DEF InUse
<1> QED
  BY <1>1, <1>2 DEF ContextsOwned

\* So does the loss of a connection: its context goes with it, and no discovery
\* runs on it any more.
LEMMA OwnedLost ==
    ASSUME CTypeOK, ContextsOwned, NEW n \in Name, link' = [link EXCEPT ![n] = "down"],
           FreeContext(n), rx_at' = rx_at, discovering' \in {discovering, NoContext},
           discovering' # NoContext => contexts[discovering] # n
    PROVE  ContextsOwned'
<1> DEFINE Left == {i \in InUse : contexts[i] # n}
<1>1. InUse' = Left /\ \A i \in Left : contexts'[i] = contexts[i] /\ contexts[i] \in Name
  BY NameFacts DEF FreeContext, InUse, CTypeOK
<1>2. \A m \in Name : link'[m] = IF m = n THEN "down" ELSE link[m]
  BY DEF CTypeOK
<1>3. \A m \in Name : m # n /\ HasContext(m) => HasContext(m)'
  BY NameFacts DEF FreeContext, HasContext
<1>4. \A i \in InUse' : link'[contexts'[i]] = "up"
  BY <1>1, <1>2 DEF ContextsOwned
<1>5. \A i, j \in InUse' : contexts'[i] = contexts'[j] => i = j
  BY <1>1 DEF ContextsOwned
<1>6. discovering' # NoContext => discovering' \in InUse'
  BY <1>1 DEF ContextsOwned
<1>7. \A m \in Name : link'[m] = "up" /\ ~HasContext(m)' => rx_at' = "blocked"
  BY <1>2, <1>3 DEF ContextsOwned
<1> QED
  BY <1>4, <1>5, <1>6, <1>7 DEF ContextsOwned

\* And a new connection: it gets a free context, or the RX thread is stuck.
LEMMA OwnedConnected ==
    ASSUME CTypeOK, ContextsOwned, NEW n \in Name, Connected(n)
    PROVE  ContextsOwned'
<1>1. \A m \in Name : link'[m] = IF m = n THEN "up" ELSE link[m]
  BY DEF CTypeOK, Connected
<1>2. link[n] = "pending" /\ \A i \in Context : contexts[i] # n
  BY NameFacts DEF Connected, ContextsOwned, InUse
<1>3. rx_at = "idle"
  BY DEF Connected
<1>4. CASE contexts' = contexts /\ discovering' = discovering /\ rx_at' = "blocked"
  <2>1. InUse' = InUse /\ \A m : HasContext(m)' <=> HasContext(m)
    BY <1>4 DEF InUse, HasContext
  <2>2. \A i \in InUse : contexts[i] \in Name
    BY DEF InUse, CTypeOK
  <2> QED
    BY <1>1, <1>4, <2>1, <2>2 DEF ContextsOwned
<1>5. ASSUME NEW i \in Context, contexts[i] = NoName, contexts' = [contexts EXCEPT ![i] = n],
             discovering' \in {discovering, i}, rx_at' = rx_at
      PROVE  ContextsOwned'
  <2>1. \A j \in Context : contexts'[j] = IF j = i THEN n ELSE contexts[j]
    BY <1>5 DEF CTypeOK
  <2>2. InUse' = InUse \cup {i} /\ i \notin InUse
    BY <1>5, <2>1, NameFacts DEF InUse
  <2>3. \A j \in InUse : contexts[j] \in Name
    BY DEF InUse, CTypeOK
  <2>4. \A j \in InUse' : link'[contexts'[j]] = "up"
    BY <1>1, <2>1, <2>2, <2>3 DEF ContextsOwned, InUse
  <2>5. \A j, k \in InUse' : contexts'[j] = contexts'[k] => j = k
    BY <1>2, <2>1, <2>2 DEF ContextsOwned, InUse
  <2>6. discovering' # NoContext => discovering' \in InUse'
    BY <1>5, <2>2 DEF ContextsOwned
  <2>7. \A m \in Name : HasContext(m) \/ m = n => HasContext(m)'
    BY <1>5, <2>1, NameFacts DEF HasContext
  <2>8. \A m \in Name : link'[m] = "up" /\ ~HasContext(m)' => rx_at' = "blocked"
    BY <1>1, <1>5, <2>7 DEF ContextsOwned
  <2> QED
    BY <2>4, <2>5, <2>6, <2>8 DEF ContextsOwned
<1>6. \/ contexts' = contexts /\ discovering' = discovering /\ rx_at' = "blocked"
      \/ \E i \in Context :
            /\ contexts[i] = NoName /\ contexts' = [contexts EXCEPT ![i] = n]
            /\ discovering' \in {discovering, i} /\ rx_at' = rx_at
  BY <1>2, FreeContextIs DEF Connected, RxThreadBlocks, StartDiscovery, contextVars
<1> QED
  BY <1>4, <1>5, <1>6
-----------------------------------------------------------------------------
\* Every step of ble.c keeps the table sound.
LEMMA OwnedStep ==
    ASSUME CentralInv, RxThread \/ WorkQueue
    PROVE  ContextsOwned'
<1> USE DEF CentralInv, ContextsSound
<1>t. contexts \in [Context -> Name \cup {NoName}] /\ link \in [Name -> {"down", "pending", "up"}]
  BY DEF CTypeOK
<1>1. ASSUME NEW n \in Name, ScanMatch(n) PROVE ContextsOwned'
  <2>1. \A m \in Name : link'[m] = "up" <=> link[m] = "up"
    BY <1>1, <1>t DEF ScanMatch, linkVars
  <2> QED
    BY <1>1, <1>t, <2>1, OwnedKept DEF ScanMatch, contextVars, threadVars
<1>2. ASSUME NEW n \in Name, ConnectFails(n) PROVE ContextsOwned'
  <2>1. \A m \in Name : link'[m] = "up" <=> link[m] = "up"
    BY <1>2, <1>t DEF ConnectFails
  <2> QED
    BY <1>2, <1>t, <2>1, OwnedKept DEF ConnectFails, contextVars, threadVars
<1>3. ASSUME NEW n \in Name, Connected(n) PROVE ContextsOwned'
  BY <1>3, OwnedConnected
<1>4. ASSUME NEW n \in Name, SecurityChanged(n) PROVE ContextsOwned'
  <2>1. HasContext(n) => ContextOf(n) \in InUse
    BY ContextOfIs, NameFacts DEF InUse
  <2>2. link' = link /\ contexts' = contexts /\ rx_at = "idle"
    BY <1>4 DEF SecurityChanged, linkVars, contextVars, RxThreadBlocks
  <2>3. discovering' \in {discovering, NoContext} \cup InUse
    BY <1>4, <2>1 DEF SecurityChanged, contextVars, RxThreadBlocks, StartDiscovery
  <2> QED
    BY <1>t, <2>2, <2>3, OwnedKept
<1>5. CASE DiscoveryCompleted \/ DiscoveryEnds \/ DiscoveryFails
  <2>1. link' = link /\ contexts' = contexts /\ rx_at # "blocked"
    BY <1>5 DEF DiscoveryCompleted, DiscoveryEnds, DiscoveryFails, linkVars, contextVars,
                RxThreadBlocks
  <2>2. discovering' \in {discovering, NoContext}
    BY <1>5 DEF DiscoveryCompleted, DiscoveryEnds, DiscoveryFails, contextVars, RxThreadBlocks
  <2> QED
    BY <1>t, <2>1, <2>2, OwnedKept
<1>6. CASE SwitchDeviceName
  BY <1>6, <1>t, OwnedKept DEF SwitchDeviceName, linkVars, contextVars, threadVars
<1>7. ASSUME NEW n \in Name, DisconnectedUnmapped(n) PROVE ContextsOwned'
  <2>1. /\ link' = [link EXCEPT ![n] = "down"] /\ FreeContext(n) /\ rx_at' = rx_at
        /\ EndDiscovery(n)
    BY <1>7 DEF DisconnectedUnmapped, ConnectionLost
  <2> QED
    BY <2>1, OwnedLost DEF EndDiscovery
<1>8. ASSUME NEW n \in Name, DisconnectedMapped(n) PROVE ContextsOwned'
  BY <1>8, <1>t, OwnedKept DEF DisconnectedMapped, EndDiscovery, linkVars
<1>9. CASE DisconnectedEnds
  <2>1. /\ link' = [link EXCEPT ![wq_losing] = "down"] /\ FreeContext(wq_losing)
        /\ rx_at' = rx_at /\ discovering' = discovering
        /\ wq_losing \in Name /\ wq_losing # NoName
    BY <1>9 DEF DisconnectedEnds, ConnectionLost, CTypeOK
  <2> QED
    BY <2>1, OwnedLost DEF LosingKept
<1> QED
  BY <1>1, <1>2, <1>3, <1>4, <1>5, <1>6, <1>7, <1>8, <1>9 DEF RxThread, WorkQueue

\* The entries of device_maps, the leaked locks and the disconnection that is
\* publishing.
LEMMA MappedStep ==
    ASSUME CentralInv, RxThread \/ WorkQueue
    PROVE  MappedContextInUse' /\ LeaksBounded' /\ LosingKept'
<1> USE DEF CentralInv, ContextsSound
<1> DEFINE Goal == MappedContextInUse' /\ LeaksBounded' /\ LosingKept'
<1>t. /\ contexts \in [Context -> Name \cup {NoName}] /\ ctx_locks \in Nat
      /\ device_maps \in [Context -> Name \cup {NoName}] /\ wq_losing \in Name \cup {NoName}
  BY DEF CTypeOK
<1>c. Cardinality(Context) = 2 /\ Mapped \in SUBSET Context /\ Mapped' \in SUBSET Context
  BY ContextSets DEF Mapped
\* Steps that leave all of it alone but for contexts that come into use and
\* discoveries that start, with the mutex free, or end.
<1>k. ASSUME device_maps' = device_maps, ctx_locks' = ctx_locks, wq_losing' = wq_losing,
             InUse \subseteq InUse',
             \/ contexts' = contexts /\ discovering' \in {discovering, NoContext}
             \/ ctx_locks = 0
      PROVE  Goal
  <2>1. Mapped' = Mapped
    BY <1>k DEF Mapped
  <2> QED
    BY <1>k, <1>t, <2>1 DEF MappedContextInUse, LeaksBounded, LosingKept, ContextMutexFree
<1>1. ASSUME NEW n \in Name, ScanMatch(n) \/ ConnectFails(n) PROVE Goal
  <2>1. /\ device_maps' = device_maps /\ ctx_locks' = ctx_locks /\ wq_losing' = wq_losing
        /\ contexts' = contexts /\ discovering' = discovering
    BY <1>1 DEF ScanMatch, ConnectFails, mapVars, contextVars, threadVars
  <2> QED
    BY <1>k, <2>1 DEF InUse
<1>2. ASSUME NEW n \in Name, Connected(n) PROVE Goal
  <2>1. device_maps' = device_maps /\ ctx_locks' = ctx_locks /\ wq_losing' = wq_losing
    BY <1>2 DEF Connected, mapVars, contextVars, RxThreadBlocks
  <2>2. \/ contexts' = contexts /\ discovering' = discovering
        \/ ctx_locks = 0 /\ \E i : contexts' = [contexts EXCEPT ![i] = n]
    BY <1>2 DEF Connected, contextVars, RxThreadBlocks, ContextMutexFree
  <2>3. InUse \subseteq InUse'
    BY <1>t, <2>2, NameFacts DEF InUse
  <2> QED
    BY <1>k, <2>1, <2>2, <2>3
<1>3. ASSUME NEW n \in Name, SecurityChanged(n) PROVE Goal
  <2>1. /\ device_maps' = device_maps /\ ctx_locks' = ctx_locks /\ wq_losing' = wq_losing
        /\ contexts' = contexts /\ (discovering' = discovering \/ ctx_locks = 0)
    BY <1>3 DEF SecurityChanged, mapVars, contextVars, RxThreadBlocks, ContextMutexFree
  <2> QED
    BY <1>k, <2>1 DEF InUse
<1>4. CASE DiscoveryCompleted
  <2>1. CASE RxThreadBlocks
    <3>1. /\ device_maps' = device_maps /\ ctx_locks' = ctx_locks /\ wq_losing' = wq_losing
          /\ contexts' = contexts /\ discovering' = discovering
      BY <1>4, <2>1 DEF DiscoveryCompleted, RxThreadBlocks, ContextMutexFree, contextVars, mapVars
    <3> QED
      BY <1>k, <3>1 DEF InUse
  <2>2. CASE ~RxThreadBlocks
    <3>1. /\ ctx_locks = 0 /\ ctx_locks' = 0 /\ wq_losing' = wq_losing /\ contexts' = contexts
          /\ device_maps' = [device_maps EXCEPT ![discovering] = connected_device_name]
          /\ discovering # NoContext
      BY <1>4, <2>2 DEF DiscoveryCompleted, ContextMutexFree
    <3>2. wq_losing = NoName /\ wq_losing' = NoName
      BY <1>t, <3>1 DEF LosingKept
    <3>3. discovering \in InUse /\ Mapped \subseteq InUse /\ InUse' = InUse
      BY <3>1 DEF ContextsOwned, MappedContextInUse, ContextMutexFree, InUse
    <3>4. Mapped' \subseteq Mapped \cup {discovering}
      BY <1>t, <3>1 DEF Mapped
    <3>5. Cardinality(Mapped') <= 2
      BY <1>c, ContextSets
    <3> QED
      BY <1>c, <3>1, <3>2, <3>3, <3>4, <3>5, ContextSets
      DEF MappedContextInUse, LeaksBounded, LosingKept
  <2> QED
    BY <2>1, <2>2
<1>5. CASE DiscoveryEnds \/ DiscoveryFails \/ SwitchDeviceName
  <2>1. /\ device_maps' = device_maps /\ ctx_locks' = ctx_locks /\ wq_losing' = wq_losing
        /\ contexts' = contexts /\ discovering' \in {discovering, NoContext}
    BY <1>5 DEF DiscoveryEnds, DiscoveryFails, SwitchDeviceName, mapVars, contextVars, threadVars
  <2> QED
    BY <1>k, <2>1 DEF InUse
<1>6. ASSUME NEW n \in Name, DisconnectedUnmapped(n) PROVE Goal
  <2>1. /\ device_maps' = device_maps /\ ctx_locks' = ctx_locks /\ wq_losing' = wq_losing
        /\ wq_losing = NoName /\ (Mapped = {} \/ ~HasContext(n)) /\ FreeContext(n)
    BY <1>6 DEF DisconnectedUnmapped, ConnectionLost
  <2>2. Mapped' = Mapped
    BY <2>1 DEF Mapped
  <2>3. ~HasContext(n) => InUse' = InUse
    BY <1>t, <2>1 DEF HasContext, FreeContext, InUse
  <2> QED
    BY <2>1, <2>2, <2>3 DEF MappedContextInUse, LeaksBounded, LosingKept, ContextMutexFree
<1>7. ASSUME NEW n \in Name, DisconnectedMapped(n) PROVE Goal
  <2>1. /\ device_maps' = device_maps /\ ctx_locks' = ctx_locks + 1 /\ contexts' = contexts
        /\ wq_losing = NoName /\ wq_losing' = n /\ Mapped # {} /\ EndDiscovery(n)
    BY <1>7 DEF DisconnectedMapped, ContextGet
  <2>2. Mapped' = Mapped
    BY <2>1 DEF Mapped
  <2>3. ctx_locks + Cardinality(Mapped) <= 2 /\ Cardinality(Mapped) \in 0..2
    BY <1>c, <2>1, ContextSets DEF LeaksBounded
  <2>4. discovering' # NoContext => contexts'[discovering'] # n
    BY <2>1 DEF EndDiscovery
  <2> QED
    BY <1>c, <1>t, <2>1, <2>2, <2>3, <2>4, NameFacts
    DEF MappedContextInUse, LeaksBounded, LosingKept, ContextMutexFree
<1>8. CASE DisconnectedEnds
  <2>1. /\ device_maps' = [device_maps EXCEPT ![FirstMapped] = NoName]
        /\ ctx_locks' = ctx_locks /\ wq_losing # NoName /\ wq_losing' = NoName
    BY <1>8 DEF DisconnectedEnds, ClearEntry
  <2>2. ctx_locks > 0 /\ FirstMapped \in Mapped /\ ctx_locks + Cardinality(Mapped) <= 3
    BY <1>c, <2>1, FirstMappedIs DEF LosingKept
  <2>3. Mapped' = Mapped \ {FirstMapped}
    BY <1>t, <2>1, <2>2 DEF Mapped
  <2>4. Cardinality(Mapped') = Cardinality(Mapped) - 1 /\ Cardinality(Mapped) \in 0..2
    BY <1>c, <2>2, <2>3, ContextSets
  <2> QED
    BY <1>c, <1>t, <2>1, <2>2, <2>4
    DEF MappedContextInUse, LeaksBounded, LosingKept, ContextMutexFree
<1> QED
  BY <1>1, <1>2, <1>3, <1>4, <1>5, <1>6, <1>7, <1>8 DEF RxThread, WorkQueue

\* What the ESP32 has heard last.
LEMMA AnnouncedStep ==
    ASSUME CentralInv, RxThread \/ WorkQueue
    PROVE  FlagAnnounced'
<1> USE DEF CentralInv
<1>t. /\ is_connected \in [Name -> BOOLEAN] /\ device_maps \in [Context -> Name \cup {NoName}]
      /\ connected_device_name \in Name \cup {NoName}
  BY DEF CTypeOK
<1>1. CASE is_connected' = is_connected /\ rpi_text' = rpi_text
  BY <1>1 DEF FlagAnnounced
<1>2. CASE DiscoveryCompleted /\ ~RxThreadBlocks
  <2>1. /\ is_connected' = [is_connected EXCEPT ![connected_device_name] = TRUE]
        /\ rpi_text' = IF is_connected'["RPi"] THEN "rpiConnected" ELSE rpi_text
    BY <1>2 DEF DiscoveryCompleted
  <2>2. is_connected["RPi"] => is_connected'["RPi"]
    BY <1>t, <2>1, NameFacts
  <2> QED
    BY <2>1, <2>2, NameFacts DEF FlagAnnounced
<1>3. ASSUME NEW n \in Name, DisconnectedMapped(n) PROVE FlagAnnounced'
  <2>1. FirstMapped \in Mapped /\ ForgetFlag(FirstMapped)
    BY <1>3, FirstMappedIs DEF DisconnectedMapped
  <2> DEFINE m == device_maps[FirstMapped]
  <2>2. m \in Name
    BY <1>t, <2>1 DEF Mapped
  <2>3. /\ is_connected' = [is_connected EXCEPT ![m] = FALSE]
        /\ rpi_text' = IF m = "RPi" THEN "rpiDisconnected" ELSE rpi_text
    BY <2>1 DEF ForgetFlag
  <2>4. ~is_connected'[m] /\ (m # "RPi" => is_connected'["RPi"] = is_connected["RPi"])
    BY <1>t, <2>2, <2>3, NameFacts
  <2> HIDE DEF m
  <2>5. CASE m = "RPi"
    <3>1. rpi_text' = "rpiDisconnected" /\ ~is_connected'["RPi"]
      BY <2>3, <2>4, <2>5
    <3> QED
      BY <3>1, NameFacts DEF FlagAnnounced
  <2>6. CASE m # "RPi"
    <3>1. rpi_text' = rpi_text /\ is_connected'["RPi"] = is_connected["RPi"] /\ ~is_connected'[m]
      BY <2>3, <2>4, <2>6
    <3>2. rpi_text' = "rpiConnected" => is_connected'["RPi"]
      BY <3>1 DEF FlagAnnounced
    <3> QED
      BY <2>2, <3>1, <3>2, Zenon DEF FlagAnnounced
  <2> QED
    BY <2>5, <2>6
<1>4. \/ is_connected' = is_connected /\ rpi_text' = rpi_text
      \/ DiscoveryCompleted /\ ~RxThreadBlocks
      \/ \E n \in Name : DisconnectedMapped(n)
  <2>1. CASE DiscoveryCompleted
    BY <2>1 DEF DiscoveryCompleted, RxThreadBlocks, mapVars
  <2>2. ASSUME NEW n \in Name, ScanMatch(n) \/ ConnectFails(n) \/ Connected(n) \/ SecurityChanged(n)
        PROVE  is_connected' = is_connected /\ rpi_text' = rpi_text
    BY <2>2 DEF ScanMatch, ConnectFails, Connected, SecurityChanged, mapVars
  <2>3. ASSUME NEW n \in Name, DisconnectedUnmapped(n)
        PROVE  is_connected' = is_connected /\ rpi_text' = rpi_text
    BY <2>3 DEF DisconnectedUnmapped, ConnectionLost
  <2>4. CASE DiscoveryEnds \/ DiscoveryFails \/ SwitchDeviceName \/ DisconnectedEnds
    BY <2>4 DEF DiscoveryEnds, DiscoveryFails, SwitchDeviceName, DisconnectedEnds, ConnectionLost,
                mapVars
  <2> QED
    BY <2>1, <2>2, <2>3, <2>4 DEF RxThread, WorkQueue
<1> QED
  BY <1>1, <1>2, <1>3, <1>4

\* What it stands on.
LEMMA TextStep ==
    ASSUME CentralInv, RxThread \/ WorkQueue
    PROVE  TextBacked'
<1> USE DEF CentralInv, ContextsSound
<1>t. /\ connected_device_name \in Name \cup {NoName} /\ target_device_name \in Name
      /\ device_maps \in [Context -> Name \cup {NoName}] /\ ctx_locks \in Nat
      /\ contexts \in [Context -> Name \cup {NoName}]
  BY DEF CTypeOK
\* Steps that leave names, entries and text alone, with the locks kept, but for
\* contexts that go.
<1>k. ASSUME UNCHANGED <<connected_device_name, device_maps, rpi_text>>, InUse' \subseteq InUse,
             ctx_locks' = ctx_locks
      PROVE  TextBacked'
  BY <1>k DEF TextBacked, ContextMutexFree, Mapped
<1>1. ASSUME NEW n \in Name, ConnectFails(n) \/ Connected(n) PROVE TextBacked'
  <2>1. connected_device_name' # NoName
    BY <1>1, <1>t, NameFacts DEF ConnectFails, Connected
  <2>2. UNCHANGED <<device_maps, rpi_text, ctx_locks>>
    BY <1>1 DEF ConnectFails, Connected, mapVars, contextVars, RxThreadBlocks
  <2> QED
    BY <2>1, <2>2 DEF TextBacked, ContextMutexFree, Mapped
<1>2. ASSUME NEW n \in Name, ScanMatch(n) \/ SecurityChanged(n) PROVE TextBacked'
  <2>1. UNCHANGED <<connected_device_name, device_maps, rpi_text, contexts, ctx_locks>>
    BY <1>2 DEF ScanMatch, SecurityChanged, nameVars, mapVars, contextVars, RxThreadBlocks
  <2> QED
    BY <1>k, <2>1 DEF InUse
<1>3. CASE DiscoveryCompleted
  <2>1. CASE RxThreadBlocks
    <3>1. UNCHANGED <<connected_device_name, device_maps, rpi_text, contexts, ctx_locks>>
      BY <1>3, <2>1 DEF DiscoveryCompleted, RxThreadBlocks, ContextMutexFree, nameVars, mapVars,
                        contextVars
    <3> QED
      BY <1>k, <3>1 DEF InUse
  <2>2. CASE ~RxThreadBlocks
    <3>1. /\ ctx_locks = 0 /\ contexts' = contexts /\ discovering # NoContext
          /\ device_maps' = [device_maps EXCEPT ![discovering] = connected_device_name]
          /\ rpi_text' = "rpiConnected" \/ rpi_text' = rpi_text
          /\ connected_device_name' = connected_device_name
      BY <1>3, <2>2 DEF DiscoveryCompleted, ContextMutexFree, nameVars
    <3>2. discovering \in InUse /\ InUse' = InUse /\ InUse \subseteq Context
      BY <3>1 DEF ContextsOwned, InUse
    <3>3. connected_device_name # NoName
      BY <3>2 DEF TextBacked
    <3>4. Mapped' # {}
      BY <1>t, <3>1, <3>2, <3>3 DEF Mapped
    <3>5. rpi_text' # "rpiDisconnected"
      BY <3>1 DEF TextBacked, ContextMutexFree
    <3> QED
      BY <3>1, <3>3, <3>4, <3>5 DEF TextBacked
  <2> QED
    BY <2>1, <2>2
<1>4. CASE DiscoveryEnds \/ DiscoveryFails \/ SwitchDeviceName
  <2>1. UNCHANGED <<connected_device_name, device_maps, rpi_text, contexts, ctx_locks>>
    BY <1>4 DEF DiscoveryEnds, DiscoveryFails, SwitchDeviceName, nameVars, mapVars, contextVars
  <2> QED
    BY <1>k, <2>1 DEF InUse
<1>5. ASSUME NEW n \in Name, DisconnectedUnmapped(n) PROVE TextBacked'
  <2>1. /\ UNCHANGED <<connected_device_name, device_maps, rpi_text, ctx_locks>>
        /\ FreeContext(n)
    BY <1>5 DEF DisconnectedUnmapped, ConnectionLost, nameVars
  <2>2. InUse' \subseteq InUse
    BY <2>1 DEF FreeContext, InUse
  <2> QED
    BY <1>k, <2>1, <2>2
<1>6. ASSUME NEW n \in Name, DisconnectedMapped(n) PROVE TextBacked'
  <2>1. /\ connected_device_name' = connected_device_name /\ contexts' = contexts
        /\ ctx_locks' = ctx_locks + 1
    BY <1>6 DEF DisconnectedMapped, ContextGet, nameVars
  <2> QED
    BY <1>t, <2>1 DEF TextBacked, ContextMutexFree, InUse
<1>7. CASE DisconnectedEnds
  <2>1. /\ UNCHANGED <<connected_device_name, ctx_locks>> /\ wq_losing # NoName
        /\ FreeContext(wq_losing)
    BY <1>7 DEF DisconnectedEnds, ConnectionLost, nameVars
  <2>2. InUse' \subseteq InUse /\ ctx_locks > 0
    BY <2>1 DEF FreeContext, InUse, LosingKept
  <2> QED
    BY <2>1, <2>2 DEF TextBacked, ContextMutexFree
<1> QED
  BY <1>1, <1>2, <1>3, <1>4, <1>5, <1>6, <1>7 DEF RxThread, WorkQueue
-----------------------------------------------------------------------------
\* The inductive invariant of the central.
THEOREM CentralInductive == CSpec => []CentralInv
<1>1. CInit => CentralInv
  BY InitCentralInv
<1>2. CentralInv /\ [CNext]_vars => CentralInv'
  <2> SUFFICES ASSUME CentralInv, [CNext]_vars PROVE CentralInv'
    OBVIOUS
  <2>1. CASE RxThread \/ WorkQueue
    BY <2>1, TypeStep, OwnedStep, MappedStep, AnnouncedStep, TextStep DEF CentralInv, ContextsSound
  <2>2. CASE Restart
    <3>1. CInit'
      BY <2>2 DEF Restart, CInit
    <3>2. (CInit => CentralInv)'
      BY InitCentralInv, PTL
    <3> QED
      BY <3>1, <3>2
  <2>3. CASE UNCHANGED vars
    <3>1. /\ UNCHANGED nameVars /\ UNCHANGED mapVars /\ UNCHANGED switchVars
          /\ UNCHANGED scanVars /\ UNCHANGED linkVars /\ UNCHANGED contextVars
          /\ UNCHANGED threadVars
      BY <2>3 DEF vars
    <3>2. CTypeOK' /\ ContextsOwned' /\ MappedContextInUse' /\ LeaksBounded' /\ LosingKept'
      BY <3>1 DEF CentralInv, ContextsSound, CTypeOK, ContextsOwned, MappedContextInUse,
         LeaksBounded, LosingKept, ContextMutexFree, Mapped, InUse, HasContext, nameVars, mapVars,
         switchVars, scanVars, linkVars, contextVars, threadVars
    <3>3. FlagAnnounced' /\ TextBacked'
      BY <3>1 DEF CentralInv, FlagAnnounced, TextBacked, ContextMutexFree, Mapped, InUse, nameVars,
         mapVars, contextVars
    <3> QED
      BY <3>2, <3>3 DEF CentralInv, ContextsSound
  <2> QED
    BY <2>1, <2>2, <2>3 DEF CNext
<1> QED
  BY <1>1, <1>2, PTL DEF CSpec

\* Every variable of ble.c keeps its type, through callbacks that fail, stop
\* halfway or never return.
THEOREM CentralTypeCorrect == CSpec => []CTypeOK
BY CentralInductive, PTL DEF CentralInv

\* The connection table is sound: each context belongs to one live connection,
\* ble_transmit finds a connection for each name while no mapped one has been
\* lost, and the context mutex leaks at most once per entry of device_maps.
THEOREM ContextsAreSound == CSpec => []ContextsSound
BY CentralInductive, PTL DEF CentralInv

\* What discovery_completed and disconnected tell the ESP32 of the Raspberry Pi
\* agrees with RPiConnected, and with some connection that is mapped and up, or
\* with none lost, as long as the context mutex can still be taken.
THEOREM RpiIsAnnounced == CSpec => []RpiAnnounced
<1>1. CentralInv => RpiAnnounced
  <2> SUFFICES ASSUME CentralInv PROVE ConnectionAnnounced
    BY DEF CentralInv, RpiAnnounced
  <2> SUFFICES ASSUME ContextMutexFree, rpi_text = "rpiConnected"
               PROVE  \E i \in Mapped \cap InUse : link[contexts[i]] = "up"
    BY DEF CentralInv, TextBacked, ConnectionAnnounced
  <2>1. PICK i \in Mapped : i \in InUse
    BY DEF CentralInv, TextBacked, ContextsSound, MappedContextInUse
  <2> QED
    BY <2>1 DEF CentralInv, ContextsSound, ContextsOwned
<1> QED
  BY <1>1, CentralInductive, PTL
-----------------------------------------------------------------------------
(***************************************************************************)
(* The ESP32's receive buffer.                                             *)
(***************************************************************************)

\* What has arrived and been written, and what is written just now.
WriteCounted ==
    /\ arrived \in Nat /\ unwritten \in Nat /\ incomingChar \in Nat
    /\ unwritten <= arrived
    /\ callback = "writing" <=> unwritten > 0

\* While the two tasks have never met in the string, loop is not erasing while
\* onWrite appends, reads and erases only what is there, and the buffer is what
\* has been written and not erased.
BufferWhole ==
    ~raced =>
        /\ loop = "erase" => callback # "writing" /\ receiveBuffer # <<>>
        /\ loop = "read" => callback = "writing" \/ receiveBuffer # <<>>
        /\ Erased \in Nat /\ Erased <= arrived - unwritten
        /\ receiveBuffer = After(Erased, arrived - unwritten - Erased)

NodeInv == WriteCounted /\ BufferWhole

\* Consecutive numbers: more at the end, the first of them, and the others.
LEMMA AfterAppended ==
    ASSUME NEW e \in Nat, NEW n \in Nat, NEW k \in Nat
    PROVE  After(e, n) \o After(e + n, k) = After(e, n + k)
<1> DEFINE s == After(e, n)
           w == After(e + n, k)
           t == After(e, n + k)
<1>1. /\ s \in Seq(Nat) /\ Len(s) = n /\ \A i \in 1..n : s[i] = e + i
      /\ w \in Seq(Nat) /\ Len(w) = k /\ \A i \in 1..k : w[i] = e + n + i
      /\ t \in Seq(Nat) /\ Len(t) = n + k /\ \A i \in 1..(n + k) : t[i] = e + i
  BY DEF After
<1> HIDE DEF s, w, t
<1>2. /\ s \o w \in Seq(Nat) /\ Len(s \o w) = n + k
      /\ \A i \in 1..(n + k) : (s \o w)[i] = IF i <= n THEN s[i] ELSE w[i - n]
  <2>1. /\ s \o w \in Seq(Nat) /\ Len(s \o w) = Len(s) + Len(w)
        /\ \A i \in 1..(Len(s) + Len(w)) :
              (s \o w)[i] = IF i <= Len(s) THEN s[i] ELSE w[i - Len(s)]
    BY <1>1, ConcatProperties, Zenon
  <2> QED
    BY ONLY <1>1, <2>1, Zenon
<1>3. ASSUME NEW i \in 1..(n + k) PROVE (s \o w)[i] = t[i]
  <2>1. i <= n => i \in 1..n
    OBVIOUS
  <2>2. ~(i <= n) => i - n \in 1..k /\ e + n + (i - n) = e + i
    OBVIOUS
  <2>3. (s \o w)[i] = e + i
    BY ONLY <1>1, <1>2, <2>1, <2>2, Zenon
  <2> QED
    BY <1>1, <2>3
<1>4. s \o w = t
  BY <1>1, <1>2, <1>3, SeqEqual
<1> QED
  BY <1>4 DEF s, w, t

\* See AfterAppended.
LEMMA AfterErased ==
    ASSUME NEW e \in Nat, NEW n \in Nat, After(e, n) # <<>>
    PROVE  /\ n > 0 /\ Head(After(e, n)) = e + 1
           /\ Tail(After(e, n)) = After(e + 1, n - 1)
<1>1. n > 0
  BY DEF After
<1>2. Head(After(e, n)) = e + 1
  BY <1>1 DEF After
<1>3. Tail(After(e, n)) = After(e + 1, n - 1)
  BY <1>1 DEF After
<1> QED
  BY ONLY <1>1, <1>2, <1>3, Zenon

\* onWrite begins.
LEMMA WrittenNodeInv == ASSUME NodeInv, NEW k \in 1..MaxWrite, Written(k) PROVE NodeInv'
<1>1. k \in Nat /\ k > 0
  BY NodeAssumption DEF NodeAssumption
<1>2. /\ callback = "idle" /\ callback' = "writing" /\ arrived' = arrived + k /\ unwritten' = k
      /\ raced' = (raced \/ loop = "erase")
      /\ UNCHANGED <<receiveBuffer, loop, incomingChar>>
  BY DEF Written, loopVars
<1>3. unwritten = 0 /\ arrived \in Nat /\ arrived' - unwritten' = arrived - unwritten
  BY <1>1, <1>2 DEF NodeInv, WriteCounted
<1>4. WriteCounted'
  BY <1>1, <1>2, <1>3 DEF NodeInv, WriteCounted
<1>5. BufferWhole'
  <2>1. Erased' = Erased
    BY <1>2 DEF Erased
  <2> QED
    BY <1>2, <1>3, <2>1 DEF NodeInv, BufferWhole
<1> QED
  BY <1>4, <1>5 DEF NodeInv

\* onWrite ends.
LEMMA OnWriteNodeInv == ASSUME NodeInv, onWrite PROVE NodeInv'
<1>1. /\ callback = "writing" /\ callback' = "idle" /\ unwritten' = 0
      /\ UNCHANGED <<arrived, raced, loop, incomingChar>>
  BY DEF onWrite, loopVars
<1>2. WriteCounted'
  BY <1>1 DEF NodeInv, WriteCounted
<1>3. BufferWhole'
  <2> SUFFICES ASSUME ~raced PROVE BufferWhole'
    BY <1>1 DEF BufferWhole
  <2>1. /\ receiveBuffer' = receiveBuffer \o After(arrived - unwritten, unwritten)
        /\ loop # "erase" /\ Erased' = Erased
    BY <1>1 DEF onWrite, NodeInv, BufferWhole, Erased
  <2> DEFINE n == arrived - unwritten - Erased
  <2>2. /\ Erased \in Nat /\ n \in Nat /\ unwritten \in Nat /\ unwritten > 0
        /\ Erased + n = arrived - unwritten /\ n + unwritten = arrived' - unwritten' - Erased'
        /\ Erased <= arrived' - unwritten' /\ receiveBuffer = After(Erased, n)
    BY <1>1, <2>1 DEF NodeInv, WriteCounted, BufferWhole
  <2>3. receiveBuffer' = After(Erased, n + unwritten)
    <3> HIDE DEF n
    <3>1. After(Erased, n) \o After(Erased + n, unwritten) = After(Erased, n + unwritten)
      BY <2>2, AfterAppended
    <3> QED
      BY ONLY <2>1, <2>2, <3>1, Zenon
  <2>4. receiveBuffer' # <<>>
    BY <2>2, <2>3 DEF After
  <2> HIDE DEF n
  <2>5. receiveBuffer' = After(Erased', arrived' - unwritten' - Erased')
    BY ONLY <2>1, <2>2, <2>3, Zenon
  <2> QED
    BY <1>1, <2>1, <2>2, <2>4, <2>5 DEF BufferWhole
<1> QED
  BY <1>2, <1>3 DEF NodeInv

\* loop takes the first character,
LEMMA ReadNodeInv == ASSUME NodeInv, read PROVE NodeInv'
<1>1. /\ loop = "read" /\ loop' = "erase" /\ raced' = (raced \/ callback = "writing")
      /\ UNCHANGED <<callback, arrived, unwritten, receiveBuffer>>
  BY DEF read, bleVars
<1>2. /\ incomingChar' \in IF raced' THEN 0..arrived ELSE {Head(receiveBuffer)}
  BY DEF read
<1>3. ASSUME ~raced'
      PROVE  /\ incomingChar' = Erased + 1 /\ Erased' = Erased
             /\ receiveBuffer # <<>> /\ callback # "writing"
             /\ Erased \in Nat /\ Erased <= arrived - unwritten
             /\ receiveBuffer = After(Erased, arrived - unwritten - Erased)
  <2>1. ~raced /\ callback # "writing"
    BY <1>1, <1>3
  <2>2. /\ receiveBuffer # <<>>
        /\ Erased \in Nat /\ Erased <= arrived - unwritten
        /\ receiveBuffer = After(Erased, arrived - unwritten - Erased)
    BY <1>1, <2>1 DEF NodeInv, BufferWhole
  <2>3. arrived - unwritten - Erased \in Nat
    BY <2>2 DEF NodeInv, WriteCounted
  <2>4. Head(receiveBuffer) = Erased + 1
    BY <2>2, <2>3, AfterErased
  <2>5. incomingChar' = Erased + 1
    BY <1>2, <1>3, <2>4
  <2>6. Erased' = Erased
    <3>1. Erased' = incomingChar' - 1
      BY <1>1 DEF Erased
    <3> QED
      BY ONLY <2>2, <2>5, <3>1
  <2> QED
    BY <2>1, <2>2, <2>5, <2>6
<1>4. WriteCounted'
  <2>1. incomingChar' \in Nat
    <3>1. CASE raced'
      BY <1>2, <3>1 DEF NodeInv, WriteCounted
    <3>2. CASE ~raced'
      BY <1>3, <3>2
    <3> QED
      BY <3>1, <3>2
  <2> QED
    BY <1>1, <2>1 DEF NodeInv, WriteCounted
<1>5. BufferWhole'
  BY <1>1, <1>3 DEF BufferWhole
<1> QED
  BY <1>4, <1>5 DEF NodeInv

\* and erases it.
LEMMA EraseNodeInv == ASSUME NodeInv, erase PROVE NodeInv'
<1>1. /\ loop = "erase" /\ loop' = "report"
      /\ UNCHANGED <<callback, arrived, unwritten, raced, incomingChar>>
  BY DEF erase, bleVars
<1>2. WriteCounted'
  BY <1>1 DEF NodeInv, WriteCounted
<1>3. BufferWhole'
  <2> SUFFICES ASSUME ~raced PROVE BufferWhole'
    BY <1>1 DEF BufferWhole
  <2> DEFINE n == arrived - unwritten - Erased
  <2>1. /\ receiveBuffer' = Tail(receiveBuffer) /\ Erased' = Erased + 1
        /\ receiveBuffer # <<>> /\ Erased \in Nat /\ n \in Nat
        /\ receiveBuffer = After(Erased, n)
    BY <1>1 DEF erase, NodeInv, WriteCounted, BufferWhole, Erased
  <2> HIDE DEF n
  <2>2. n > 0 /\ receiveBuffer' = After(Erased + 1, n - 1)
    BY <2>1, AfterErased
  <2>3. Erased' <= arrived' - unwritten' /\ arrived' - unwritten' - Erased' = n - 1
    BY <1>1, <2>1, <2>2 DEF n, NodeInv, WriteCounted
  <2> QED
    BY <1>1, <2>1, <2>2, <2>3 DEF BufferWhole
<1> QED
  BY <1>2, <1>3 DEF NodeInv

\* The other steps leave the string alone; loop starts to read only what is
\* there, or about to be.
LEMMA OtherNodeInv ==
    ASSUME NodeInv,
           UNCHANGED <<receiveBuffer, raced, arrived, unwritten, incomingChar>>,
           callback' = callback \/ (callback # "writing" /\ callback' # "writing"),
           \/ loop' = loop
           \/ loop # "erase" /\ loop' \notin {"read", "erase"}
           \/ /\ loop # "erase" /\ loop' = "read" /\ callback' = callback
              /\ receiveBuffer # <<>> \/ callback = "writing"
    PROVE  NodeInv'
<1>1. WriteCounted'
  BY DEF NodeInv, WriteCounted
<1>2. Erased' = Erased
  BY DEF Erased
<1>3. BufferWhole'
  BY <1>2 DEF NodeInv, BufferWhole
<1> QED
  BY <1>1, <1>3 DEF NodeInv

\* The inductive invariant of the receive buffer, for any number of characters
\* in writes of any length, through races and restarts.
THEOREM NodeInductive == NSpec => []NodeInv
<1>0. After(0, 0) = <<>>
  BY DEF After
<1>1. NInit => NodeInv
  <2> SUFFICES ASSUME NInit PROVE NodeInv
    OBVIOUS
  <2>1. /\ receiveBuffer = <<>> /\ arrived = 0 /\ unwritten = 0 /\ incomingChar = 0
        /\ callback = "idle" /\ loop = "available"
    BY DEF NInit
  <2>2. Erased = 0 /\ arrived - unwritten - Erased = 0
    BY <2>1 DEF Erased
  <2> QED
    BY <1>0, <2>1, <2>2 DEF NodeInv, WriteCounted, BufferWhole
<1>2. NodeInv /\ [NNext]_nodeVars => NodeInv'
  <2> SUFFICES ASSUME NodeInv, [NNext]_nodeVars PROVE NodeInv'
    OBVIOUS
  <2>1. CASE UNCHANGED nodeVars
    BY <2>1, OtherNodeInv DEF nodeVars, bleVars, bufferVars, loopVars
  <2>2. CASE Connect \/ onConnect \/ Disconnect \/ onDisconnect
    BY <2>2, OtherNodeInv DEF Connect, onConnect, Disconnect, onDisconnect, bufferVars, loopVars
  <2>3. CASE available
    <3>1. /\ UNCHANGED <<receiveBuffer, raced, arrived, unwritten, incomingChar, callback>>
          /\ loop = "available" /\ loop' \in {"read", "report"}
          /\ loop' = "read" => receiveBuffer # <<>> \/ callback = "writing"
      BY <2>3 DEF available, bleVars, bufferVars
    <3> QED
      BY <3>1, OtherNodeInv
  <2>4. CASE captureAndProcessImage \/ Ping \/ write
    <3>1. /\ UNCHANGED <<receiveBuffer, raced, arrived, unwritten, incomingChar, callback>>
          /\ loop # "erase" /\ loop' \notin {"read", "erase"}
      BY <2>4 DEF captureAndProcessImage, Ping, write, bleVars, bufferVars
    <3> QED
      BY <3>1, OtherNodeInv
  <2>5. CASE NodeRestart
    <3>1. /\ receiveBuffer' = <<>> /\ arrived' = 0 /\ unwritten' = 0 /\ incomingChar' = 0
          /\ callback' = "idle" /\ loop' = "available"
      BY <2>5 DEF NodeRestart
    <3>2. Erased' = 0 /\ arrived' - unwritten' - Erased' = 0
      BY <3>1 DEF Erased
    <3> QED
      BY <1>0, <3>1, <3>2 DEF NodeInv, WriteCounted, BufferWhole
  <2> QED
    BY <2>1, <2>2, <2>3, <2>4, <2>5, WrittenNodeInv, OnWriteNodeInv, ReadNodeInv, EraseNodeInv
    DEF NNext, Loop
<1> QED
  BY <1>1, <1>2, PTL DEF NSpec

\* Until onWrite and loop are in the string at the same time, no character is
\* lost, repeated or out of order, whoever runs between two accesses of the other.
THEOREM OnlyRacesLose == NSpec => []InOrderUnlessRaced
<1>1. NodeInv => InOrderUnlessRaced
  BY DEF NodeInv, BufferWhole, InOrderUnlessRaced
<1> QED
  BY <1>1, NodeInductive, PTL

\* A double is truncated towards zero by less than one, and clamped.
LEMMA TruncatedClose ==
    ASSUME NEW m \in Int
    PROVE  LET c == Clamp(Truncated(m))
               e == IF m < 0 THEN 0 ELSE IF m > 255 * Million THEN 255 * Million ELSE m
           IN  c \in 0..255 /\ e - Million < Million * c /\ Million * c <= e
<1>1. CASE m >= 0
  <2>1. /\ Truncated(m) \in Int /\ Million * Truncated(m) <= m
        /\ m < Million * Truncated(m) + Million
    BY <1>1, SMT DEF Truncated, Million
  <2> QED
    BY <1>1, <2>1, SMT DEF Clamp, Million
<1>2. CASE m < 0
  <2>1. Truncated(m) \in Int /\ Truncated(m) <= 0
    BY <1>2, SMT DEF Truncated, Million
  <2> QED
    BY <1>2, <2>1, SMT DEF Clamp, Million
<1> QED
  BY <1>1, <1>2

\* A colour YUVToRGB computes of a pixel fits a byte and falls short of the exact
\* one, brought between 0 and 255, by less than one.
LEMMA ColourIsClose ==
    ASSUME NEW y \in Byte, NEW u \in Byte, NEW v \in Byte, NEW k \in Colour
    PROVE  /\ YUVToRGB(y, u, v)[k] \in Byte /\ ExactColour(y, u, v, k) \in Int
           /\ ExactColour(y, u, v, k) - Million < Million * YUVToRGB(y, u, v)[k]
           /\ Million * YUVToRGB(y, u, v)[k] <= ExactColour(y, u, v, k)
<1> DEFINE m == Millionths(y, u, v)[k]
           e == IF m < 0 THEN 0 ELSE IF m > 255 * Million THEN 255 * Million ELSE m
<1>1. m \in Int
  <2>1. y \in Int /\ u - 128 \in Int /\ v - 128 \in Int
    BY DEF Byte
  <2>2. k = "R" \/ k = "G" \/ k = "B"
    BY DEF Colour
  <2>3. CASE k = "R"
    <3>1. m = Million * y + 1402000 * (v - 128)
      BY <2>3 DEF Millionths
    <3> QED
      BY ONLY <2>1, <3>1, SMT DEF Million
  <2>4. CASE k = "G"
    <3>1. m = Million * y - 344136 * (u - 128) - 714136 * (v - 128)
      BY <2>4 DEF Millionths
    <3> QED
      BY ONLY <2>1, <3>1, SMT DEF Million
  <2>5. CASE k = "B"
    <3>1. m = Million * y + 1772000 * (u - 128)
      BY <2>5 DEF Millionths
    <3> QED
      BY ONLY <2>1, <3>1, SMT DEF Million
  <2> QED
    BY ONLY <2>2, <2>3, <2>4, <2>5
<1>2. YUVToRGB(y, u, v)[k] = Clamp(Truncated(m))
  BY SMT DEF YUVToRGB, Colour
<1> HIDE DEF m
<1>3. ExactColour(y, u, v, k) = e
  BY SMT DEF ExactColour, m
<1>4. e \in Int
  BY <1>1, SMT DEF Million
<1>5. Clamp(Truncated(m)) \in Byte /\ e - Million < Million * Clamp(Truncated(m))
      /\ Million * Clamp(Truncated(m)) <= e
  BY <1>1, TruncatedClose DEF Byte
<1> HIDE DEF e
<1> QED
  BY ONLY <1>2, <1>3, <1>4, <1>5

\* No pixel, whatever its bytes, loses one or more in any of its three colours when
\* YUVToRGB converts it, and none gains.
THEOREM PixelIsClose ==
    \A y, u, v \in Byte : \A k \in Colour :
        LET c == YUVToRGB(y, u, v)[k]
            e == ExactColour(y, u, v, k)
        IN  c \in Byte /\ e - Million < Million * c /\ Million * c <= e
<1> SUFFICES ASSUME NEW y \in Byte, NEW u \in Byte, NEW v \in Byte,
                    NEW k \in Colour
             PROVE  LET c == YUVToRGB(y, u, v)[k]
                        e == ExactColour(y, u, v, k)
                    IN  c \in Byte /\ e - Million < Million * c /\ Million * c <= e
  OBVIOUS
<1> QED
  BY ColourIsClose
-----------------------------------------------------------------------------
\* Induction on the natural numbers, for a set: below a number that is missing,
\* adding one would map the set into itself, one to one and not onto.
LEMMA NatSet ==
    ASSUME NEW S, 0 \in S, \A n \in Nat : n \in S => n + 1 \in S
    PROVE  Nat \subseteq S
<1> SUFFICES ASSUME NEW x \in Nat, x \notin S PROVE FALSE
  OBVIOUS
<1> DEFINE U == {i \in 0..x : i \in S}
           next == [i \in U |-> i + 1]
<1>1. IsFiniteSet(U)
  BY FS_Interval, FS_Subset, 0 \in Int, x \in Int
<1>2. next \in Injection(U, U)
  BY DEF Injection, IsInjective
<1>3. next \in Surjection(U, U)
  <2> HIDE DEF U, next
  <2> QED
    BY <1>1, <1>2, FS_Injection
<1>4. 0 \in U /\ \A i \in U : next[i] # 0
  OBVIOUS
<1> HIDE DEF U, next
<1> QED
  BY <1>3, <1>4 DEF Surjection

\* f holds the sums of the beginnings of s, up to that of the first n.
Sums(f, s, n) ==
    f \in [0..n -> Int] /\ f[0] = 0 /\ \A i \in 1..n : f[i] = f[i - 1] + s[i]

\* The recursive function exists:
LEMMA SumsExist ==
    ASSUME NEW s \in Seq(Int)
    PROVE  \E f : Sums(f, s, Len(s))
<1> DEFINE S == {n \in Nat : n <= Len(s) => \E f : Sums(f, s, n)}
<1>1. 0 \in S
  <2>1. Sums([i \in 0..0 |-> 0], s, 0)
    BY DEF Sums
  <2> QED
    BY <2>1
<1>2. ASSUME NEW n \in Nat, n \in S PROVE n + 1 \in S
  <2>1. CASE ~(n + 1 <= Len(s))
    BY <2>1
  <2>2. CASE n + 1 <= Len(s)
    <3>1. PICK f : Sums(f, s, n)
      BY <1>2, <2>2
    <3> DEFINE g == [i \in 0..(n + 1) |-> IF i = n + 1 THEN f[n] + s[n + 1] ELSE f[i]]
    <3>2. s[n + 1] \in Int /\ f[n] \in Int
      BY <2>2, <3>1 DEF Sums
    <3>3. g \in [0..(n + 1) -> Int] /\ g[0] = 0
      BY <3>1, <3>2 DEF Sums
    <3>4. \A i \in 1..(n + 1) : g[i] = g[i - 1] + s[i]
      BY <3>1, <3>2 DEF Sums
    <3>5. Sums(g, s, n + 1)
      BY <3>3, <3>4 DEF Sums
    <3> QED
      BY <3>5
  <2> QED
    BY <2>1, <2>2
<1>3. Nat \subseteq S
  <2> HIDE DEF S
  <2> QED
    BY <1>1, <1>2, NatSet
<1> QED
  BY <1>3

\* and is the one TLA+ chooses.
LEMMA SumIs ==
    ASSUME NEW s \in Seq(Int)
    PROVE  \E f : Sums(f, s, Len(s)) /\ SumOf(s) = f[Len(s)]
<1> DEFINE n == Len(s)
           R(g) == [i \in 0..n |-> IF i = 0 THEN 0 ELSE g[i - 1] + s[i]]
           sum == CHOOSE g : g = R(g)
<1>1. PICK f : Sums(f, s, n)
  BY SumsExist
<1>2. f = R(f)
  BY <1>1 DEF Sums
<1>3. sum = R(sum)
  <2> HIDE DEF R
  <2> QED
    BY <1>2
<1>4. SumOf(s) = sum[n]
  BY DEF SumOf
<1> HIDE DEF sum
<1>5. \A i \in 0..n : sum[i] = f[i]
  <2> DEFINE S == {i \in Nat : i <= n => sum[i] = f[i]}
  <2>1. 0 \in S
    BY <1>1, <1>3 DEF Sums
  <2>2. ASSUME NEW i \in Nat, i \in S PROVE i + 1 \in S
    BY <1>1, <1>3, <2>2 DEF Sums
  <2>3. Nat \subseteq S
    <3> HIDE DEF S
    <3> QED
      BY <2>1, <2>2, NatSet
  <2> QED
    BY <2>3
<1> QED
  BY <1>1, <1>4, <1>5

\* A sum of numbers between c and d is between as many times c and d.
LEMMA SumBounds ==
    ASSUME NEW s \in Seq(Int), NEW c \in Int, NEW d \in Int,
           \A i \in 1..Len(s) : c <= s[i] /\ s[i] <= d
    PROVE  SumOf(s) \in Int /\ Len(s) * c <= SumOf(s) /\ SumOf(s) <= Len(s) * d
<1>1. PICK f : Sums(f, s, Len(s)) /\ SumOf(s) = f[Len(s)]
  BY SumIs
<1> DEFINE S == {n \in Nat : n <= Len(s) => n * c <= f[n] /\ f[n] <= n * d}
<1>2. 0 \in S
  BY <1>1 DEF Sums
<1>3. ASSUME NEW n \in Nat, n \in S PROVE n + 1 \in S
  <2> SUFFICES ASSUME n + 1 <= Len(s)
               PROVE  (n + 1) * c <= f[n + 1] /\ f[n + 1] <= (n + 1) * d
    OBVIOUS
  <2>1. n * c <= f[n] /\ f[n] <= n * d
    BY <1>3
  <2>2. f[n] \in Int /\ s[n + 1] \in Int /\ f[n + 1] = f[n] + s[n + 1]
        /\ c <= s[n + 1] /\ s[n + 1] <= d
    <3>1. n \in 0..Len(s) /\ n + 1 \in 1..Len(s) /\ (n + 1) - 1 = n
      OBVIOUS
    <3>2. s[n + 1] \in Int /\ c <= s[n + 1] /\ s[n + 1] <= d
      BY <3>1
    <3> QED
      BY <1>1, <3>1, <3>2 DEF Sums
  <2>3. (n + 1) * c = n * c + c /\ (n + 1) * d = n * d + d /\ n * c \in Int /\ n * d \in Int
    OBVIOUS
  <2> QED
    BY <2>1, <2>2, <2>3
<1>4. Nat \subseteq S
  <2> HIDE DEF S
  <2> QED
    BY <1>2, <1>3, NatSet
<1> QED
  BY <1>1, <1>4 DEF Sums

\* What t falls short of m times s, number by number.
Diff(m, s, t) == [i \in 1..Len(t) |-> m * s[i] - t[i]]

\* Sums are linear.
LEMMA SumLinear ==
    ASSUME NEW m \in Int, NEW s \in Seq(Int), NEW t \in Seq(Int), Len(s) = Len(t)
    PROVE  SumOf(s) \in Int /\ SumOf(t) \in Int
           /\ SumOf(Diff(m, s, t)) = m * SumOf(s) - SumOf(t)
<1> DEFINE l == Len(t)
           r == Diff(m, s, t)
<1>0. r \in Seq(Int) /\ Len(r) = l /\ \A i \in 1..l : r[i] = m * s[i] - t[i]
  <2>1. \A i \in 1..l : m * s[i] - t[i] \in Int
    OBVIOUS
  <2> QED
    BY <2>1 DEF Diff
<1> HIDE DEF r
<1>1. PICK f : Sums(f, s, l) /\ SumOf(s) = f[l]
  BY SumIs
<1>2. PICK g : Sums(g, t, l) /\ SumOf(t) = g[l]
  BY SumIs
<1>3. PICK h : Sums(h, r, l) /\ SumOf(r) = h[l]
  BY <1>0, SumIs
<1> DEFINE S == {n \in Nat : n <= l => h[n] = m * f[n] - g[n]}
<1>4. 0 \in S
  BY <1>1, <1>2, <1>3 DEF Sums
<1>5. ASSUME NEW n \in Nat, n \in S PROVE n + 1 \in S
  <2> SUFFICES ASSUME n + 1 <= l PROVE h[n + 1] = m * f[n + 1] - g[n + 1]
    OBVIOUS
  <2>1. h[n] = m * f[n] - g[n]
    BY <1>5
  <2>2. n \in 0..l /\ n + 1 \in 1..l /\ (n + 1) - 1 = n
    OBVIOUS
  <2>3. f[n] \in Int /\ f[n + 1] = f[n] + s[n + 1]
    BY <1>1, <2>2 DEF Sums
  <2>4. g[n] \in Int /\ g[n + 1] = g[n] + t[n + 1]
    BY <1>2, <2>2 DEF Sums
  <2>5. h[n] \in Int /\ h[n + 1] = h[n] + (m * s[n + 1] - t[n + 1])
    BY <1>0, <1>3, <2>2 DEF Sums
  <2>6. s[n + 1] \in Int /\ t[n + 1] \in Int
    BY <2>2
  <2> DEFINE a == f[n]  b == s[n + 1]  x == g[n]  y == t[n + 1]
  <2>7. a \in Int /\ b \in Int /\ x \in Int /\ y \in Int
    BY <2>3, <2>4, <2>6
  <2>8. f[n + 1] = a + b /\ g[n + 1] = x + y /\ h[n + 1] = (m * a - x) + (m * b - y)
    BY <2>1, <2>3, <2>4, <2>5
  <2> HIDE DEF a, b, x, y
  <2>9. (m * a - x) + (m * b - y) = m * (a + b) - (x + y)
    BY ONLY <2>7, m \in Int
  <2> QED
    BY ONLY <2>8, <2>9, Zenon
<1>6. Nat \subseteq S
  <2> HIDE DEF S
  <2> QED
    BY <1>4, <1>5, NatSet
<1> QED
  BY <1>1, <1>2, <1>3, <1>6 DEF Sums, r

\* What whole-number division gives.
LEMMA Quotient ==
    ASSUME NEW a \in Nat, NEW b \in Nat \ {0}
    PROVE  a \div b \in Nat /\ b * (a \div b) <= a /\ a < b * (a \div b) + b
  BY SMT
LEMMA QuotientSmall ==
    ASSUME NEW a \in Nat, NEW b \in Nat \ {0}, a <= 255 * b
    PROVE  a \div b \in 0..255 /\ (a \div b) % 256 = a \div b
<1> DEFINE q == a \div b
<1>1. q \in Nat /\ b * q <= a
  BY Quotient
<1> HIDE DEF q
<1>2. q <= 255
  BY <1>1
<1>3. q % 256 = q
  BY <1>1, <1>2
<1> QED
  BY <1>1, <1>2, <1>3 DEF q

\* The same of the two pixels of a sample.
LEMMA PairIsClose ==
    ASSUME NEW s \in Sample, NEW k \in Colour
    PROVE  /\ PairColour(s, k) \in Int /\ 0 <= PairColour(s, k) /\ PairColour(s, k) <= 510
           /\ ExactPair(s, k) \in Int
           /\ -2 * Million + 2 <= Million * PairColour(s, k) - ExactPair(s, k)
           /\ Million * PairColour(s, k) - ExactPair(s, k) <= 0
<1> DEFINE Y1 == s.Y1  U == s.U  Y2 == s.Y2  V == s.V
<1>1. Y1 \in Byte /\ U \in Byte /\ Y2 \in Byte /\ V \in Byte
  BY SampleAssumption DEF SampleAssumption
<1>2. /\ PairColour(s, k) = YUVToRGB(Y1, U, V)[k] + YUVToRGB(Y2, U, V)[k]
      /\ ExactPair(s, k) = ExactColour(Y1, U, V, k) + ExactColour(Y2, U, V, k)
  BY DEF PairColour, ExactPair
<1> HIDE DEF Y1, U, Y2, V
<1> DEFINE c1 == YUVToRGB(Y1, U, V)[k]  e1 == ExactColour(Y1, U, V, k)
           c2 == YUVToRGB(Y2, U, V)[k]  e2 == ExactColour(Y2, U, V, k)
<1>3. c1 \in Byte /\ e1 \in Int /\ e1 - Million < Million * c1 /\ Million * c1 <= e1
  BY <1>1, ColourIsClose
<1>4. c2 \in Byte /\ e2 \in Int /\ e2 - Million < Million * c2 /\ Million * c2 <= e2
  BY <1>1, ColourIsClose
<1> HIDE DEF c1, e1, c2, e2
<1>5. c1 + c2 \in Int /\ 0 <= c1 + c2 /\ c1 + c2 <= 510 /\ e1 + e2 \in Int
  BY <1>3, <1>4 DEF Byte
<1>6. -2 * Million + 2 <= Million * (c1 + c2) - (e1 + e2) /\ Million * (c1 + c2) - (e1 + e2) <= 0
  BY ONLY <1>3, <1>4, SMT DEF Million, Byte
<1>7. PairColour(s, k) = c1 + c2 /\ ExactPair(s, k) = e1 + e2
  BY <1>2 DEF c1, e1, c2, e2
<1> QED
  BY ONLY <1>5, <1>6, <1>7

\* The sums over a frame: what the pixels fall short of adds up, and no sum is
\* more than white all over.
LEMMA FrameSums ==
    ASSUME NEW frame \in Seen, NEW k \in Colour
    PROVE  /\ Len(frame) \in Nat \ {0} /\ Len(frame) <= FrameSamples
           /\ PixelSum(frame, k) \in Nat /\ PixelSum(frame, k) <= 510 * Len(frame)
           /\ ExactSum(frame, k) \in Int
           /\ ExactSum(frame, k) - Million * (2 * Len(frame)) < Million * PixelSum(frame, k)
           /\ Million * PixelSum(frame, k) <= ExactSum(frame, k)
<1> DEFINE n == Len(frame)
           C(i) == PairColour(frame[i], k)
           E(i) == ExactPair(frame[i], k)
           low == -2 * Million + 2
           white == 510
<1>1. n \in Nat \ {0} /\ n <= FrameSamples /\ \A i \in 1..n : frame[i] \in Sample
  <2>1. frame \in Seq(Sample) /\ frame # <<>> /\ Len(frame) <= FrameSamples
    BY SampleAssumption DEF SampleAssumption
  <2> QED
    BY <2>1
<1>2. Million \in Int /\ low \in Int /\ white \in Int
  BY SMT DEF Million
<1>3. \A i \in 1..n : /\ C(i) \in Int /\ 0 <= C(i) /\ C(i) <= white /\ E(i) \in Int
                      /\ low <= Million * C(i) - E(i) /\ Million * C(i) - E(i) <= 0
  BY <1>1, PairIsClose
<1> DEFINE cs == [i \in 1..n |-> C(i)]
           es == [i \in 1..n |-> E(i)]
           ds == Diff(Million, cs, es)
<1>4. PixelSum(frame, k) = SumOf(cs) /\ ExactSum(frame, k) = SumOf(es)
  BY DEF PixelSum, ExactSum
<1> HIDE DEF n, C, E, low, white
<1>5. cs \in Seq(Int) /\ Len(cs) = n /\ \A i \in 1..Len(cs) : 0 <= cs[i] /\ cs[i] <= white
  BY <1>1, <1>3
<1>6. es \in Seq(Int) /\ Len(es) = n
  BY <1>1, <1>3
<1>7. \A i \in 1..n : Million * C(i) - E(i) \in Int
  BY <1>2, <1>3
<1>8. ds \in Seq(Int) /\ Len(ds) = n /\ \A i \in 1..Len(ds) : low <= ds[i] /\ ds[i] <= 0
  <2> DEFINE D(i) == Million * C(i) - E(i)
  <2>1. ds = [i \in 1..n |-> D(i)]
    BY <1>6 DEF Diff
  <2>2. \A i \in 1..n : D(i) \in Int /\ low <= D(i) /\ D(i) <= 0
    BY <1>3, <1>7
  <2> HIDE DEF D, ds
  <2> QED
    BY ONLY <1>1, <2>1, <2>2
<1> HIDE DEF cs, es, ds
<1>10. SumOf(cs) \in Int /\ Len(cs) * 0 <= SumOf(cs) /\ SumOf(cs) <= Len(cs) * white
  BY ONLY <1>2, <1>5, SumBounds, 0 \in Int, Zenon
<1>11. SumOf(ds) \in Int /\ Len(ds) * low <= SumOf(ds) /\ SumOf(ds) <= Len(ds) * 0
  BY ONLY <1>2, <1>8, SumBounds, 0 \in Int, Zenon
<1>12. SumOf(es) \in Int /\ SumOf(ds) = Million * SumOf(cs) - SumOf(es)
  <2>1. SumOf(Diff(Million, cs, es)) = Million * SumOf(cs) - SumOf(es) /\ SumOf(es) \in Int
    BY ONLY <1>2, <1>5, <1>6, SumLinear
  <2> QED
    BY ONLY <2>1 DEF ds
<1>13. /\ SumOf(cs) \in Nat /\ SumOf(cs) <= 510 * n
       /\ SumOf(es) - Million * (2 * n) < Million * SumOf(cs)
       /\ Million * SumOf(cs) <= SumOf(es)
  BY ONLY <1>1, <1>5, <1>8, <1>10, <1>11, <1>12, SMT DEF Million, low, white
<1> QED
  BY ONLY <1>1, <1>4, <1>12, <1>13 DEF n

\* The sums stay far below the limit of a long, which has 32 bits on the ESP32.
THEOREM SumsFitLong ==
    \A frame \in Seen : \A k \in Colour : PixelSum(frame, k) \in 0..LongMax
<1> SUFFICES ASSUME NEW frame \in Seen, NEW k \in Colour
             PROVE  PixelSum(frame, k) \in 0..LongMax
  OBVIOUS
<1>1. /\ Len(frame) \in Nat /\ Len(frame) <= FrameSamples
      /\ PixelSum(frame, k) \in Nat /\ PixelSum(frame, k) <= 510 * Len(frame)
  BY FrameSums
<1>2. FrameSamples = 19200
  BY SMT DEF FrameSamples
<1>3. 510 * 19200 <= LongMax /\ LongMax \in Nat
  BY SMT DEF LongMax
<1> QED
  BY ONLY <1>1, <1>2, <1>3, SMT

\* Whatever the camera sees, at HVGA or less, the colour the node reports is that
\* of the frame, to less than two: each pixel loses less than one when it is
\* converted, and the mean of all of them less than one again.
THEOREM ReportIsMean == NSpec => []AverageIsMean
<1>1. ASSUME NEW frame \in Seen, notified = Report[frame], NEW k \in Colour
      PROVE  LET pixels == 2 * Len(frame)
                 error == Million * pixels * notified.colour[k] - ExactSum(frame, k)
             IN  -2 * Million * pixels < error /\ error <= 0
  <2> DEFINE c == PixelSum(frame, k)
             e == ExactSum(frame, k)
             p == 2 * Len(frame)
             mean == c \div p
  <2>1. /\ p \in Nat \ {0} /\ c \in Nat /\ c <= 255 * p /\ e \in Int
        /\ e - Million * p < Million * c /\ Million * c <= e
    <3>1. /\ Len(frame) \in Nat \ {0} /\ c \in Nat /\ c <= 510 * Len(frame) /\ e \in Int
          /\ e - Million * p < Million * c /\ Million * c <= e
      BY FrameSums
    <3>2. p \in Nat \ {0} /\ c <= 255 * p
      BY <3>1
    <3> QED
      BY <3>1, <3>2
  <2>2. notified.colour[k] = mean % 256
    <3>1. notified.colour = computeAverageColor(frame)
      BY <1>1 DEF Report
    <3> QED
      BY <3>1 DEF computeAverageColor
  <2> HIDE DEF c, e, p
  <2>3. /\ mean \in Nat /\ p * mean <= c /\ c < p * mean + p
        /\ mean % 256 = mean
    BY <2>1, Quotient, QuotientSmall
  <2> HIDE DEF mean
  <2>4. -2 * Million * p < Million * p * mean - e /\ Million * p * mean - e <= 0
    BY ONLY <2>1, <2>3, SMT DEF Million
  <2>5. Million * p * notified.colour[k] - e = Million * p * mean - e
    BY ONLY <2>2, <2>3
  <2> QED
    BY ONLY <2>4, <2>5 DEF p, e
<1>2. AverageIsMean
  BY <1>1 DEF AverageIsMean
<1> QED
  BY <1>2, PTL
=============================================================================
