# Verification of the train and gateway system

TLA+ models, TLC runs and TLAPS proofs for the system of this repository: an nRF9160 gateway
(`src/9160dk/IPE_OTA_BLE`) between a oneM2M CSE (MQTT) and two BLE devices, a Raspberry Pi
train (`src/RaspberryPi`) and an ESP32 camera (`src/ESP32`), all updated over the air, and a
smart light that talks to the CSE itself (`src/onem2msmartled`).

`AG` is `aggregator.c`, `MQ` `mqtt_connection.c`, `UP` `update.c`, `BL` `ble.c`, `MA` `main.c`,
all in `src/9160dk/IPE_OTA_BLE/src/`.

## 1. The system

### Components

| component | state | operations | interacts with |
|---|---|---|---|
| packet aggregator (AG) | two `k_fifo`s, `uplink_entry_count`, `downlink_entry_count`, heap entries | `*_aggregator_put`, `*_aggregator_get`, `publish_aggregated_data`, `transmit_aggregated_data` | filled by BL (uplink, and downlink texts and images) and MQ (chunks), drained by the system work queue into MQTT and BLE |
| update control (MQ, UP) | per device: update flag, total, expected chunk | `extractPackage`, `chunkErrorChecker`, `increment*Chunk`, NACKs | called by the MQTT event handler |
| chunk forwarding (MQ, AG) | the chunk in the handler's hands | the `/ESP32/Update` and `/RPi/Update` branches of `mqtt_evt_handler` | update control, downlink FIFO, `ble_transmit` |
| self-update (UP) | secondary flash slot, upgrade request, image confirmation | `process_firmware_chunk`, `finalize_firmware_update`, `OTAInit` | update control, MCUboot |
| BLE central (BL) | scan filter, `device_maps`, contexts, flags, counters, two work items | connection, discovery and disconnection callbacks, `switch_device_name` | Zephyr BT, CSE (flex containers), downlink FIFO |
| BLE traffic (BL) | `nus_write_sem`, a pending write per device, subscriptions | `ble_transmit`, `ble_data_sent`, `ble_data_received` | aggregator, NUS client |
| MQTT connection (MQ, MA) | session, subscriptions, `payload_buf`, parsed trees | start-up and connect loop of `main`, `mqtt_evt_handler` | modem, broker |
| LEDs, button, modem (MA) | `led_condition` | LED thread, `lte_handler`, `error_handler` | all |
| oneM2M messages | none | formatting | `data_publish` |
| Raspberry Pi supervisor (`control.py`) | `A.py`, its backup, the child process | `on_message`: replace and restart `A.py` | MQTT, file system |
| Raspberry Pi train (`Demo_v2_smart.py`, `A.py`) | `CommandGoal`, motor | `on_message` on the MQTT thread, the loop | GPIO, `datafile.txt` |
| Raspberry Pi BLE peripheral | `datafile.txt` | `WriteValue` | gateway, train |
| ESP32 sketches | `receiveBuffer`, connection | BLE callbacks, `loop`, `computeAverageColor` | gateway, camera |
| smart light (`onem2msmartled`) | one JSON document, two LEDs, toggle semaphore, button | `setup`, poll, toggle and notification tasks | CSE over HTTP |
| ESP32 flash test; vendored or built: cJSON, `hci_lpuart` | | | |

### Threads, and what can interleave

Gateway:

* The **main thread** runs start-up, the connect loop and `mqtt_input`, hence `mqtt_evt_handler`; it is
  preemptible. The handler runs to completion with respect to other messages.
* The **Bluetooth RX thread** (cooperative) runs `connected`, `security_changed`, the
  discovery callbacks, `ble_data_received` and `ble_data_sent`.
* The **system work queue** (cooperative) runs `publish_aggregated_data`,
  `transmit_aggregated_data`, `switch_device_name` and, in this Zephyr version,
  `disconnected`. One item at a time; the thread gives the processor up when it waits.
* Build facts used: `CONFIG_ASSERT=y`; `HEAP_MEM_POOL_SIZE=32768`, more than 24 entries, so
  `-ENOMEM` does not occur with the configuration as it stands; `BT_MAX_CONN=2`;
  `CONFIG_MQTT_PAYLOAD_BUFFER_SIZE` and `CONFIG_MQTT_MESSAGE_BUFFER_SIZE` default to 128.

Elsewhere:

* `control.py` is one thread, cut short by exceptions and power failures between any two file operations. `A.py` has
  paho's thread (`on_message`) and its loop over the same globals.
* The ESP32 sketches have the Bluetooth task (callbacks) and `loop`, over the same string.
* The smart light has `setup`, then a task that polls the button, one that toggles, and one in which the notification
  server runs its handler from the moment the network is up. All build their requests in one document.

### What is hard, and what correctness means

`PROJECT.json` lists the hazards at their lines. In short:

* aggregator: several threads that put, a get in two steps; overflow of FIFO and heap.
  Right when the counters, FIFOs and heap agree, assertions hold, order is kept, nothing
  repeats, only the oldest is lost, and nothing waits for ever.
* update control and forwarding: a broker that loses, repeats, reorders; a sender that
  resends after a NACK; restarts in mid-update; silent loss between handler and device.
  Right when chunks arrive in order, at most once, none before its update is announced,
  a NACK never skips, and (not so in the code) what is counted is forwarded.
* self-update: failing flash writes, power failures between write, request, swap and
  confirmation. Right when the count never runs ahead of the flash, only whole images are
  requested and the fallback image survives until the new one is confirmed.
* BLE central: callbacks on two threads over unlocked globals, a mutex taken and not given
  back, references not dropped, an index that is taken for a count. Right when the table
  of connections matches the connections and what the camera is told of the train is what the gateway knows (not so in the code: that it is the truth).
* BLE traffic: a write that is tried though the wait for the last one timed out, answers that come late, a greeting that
  bypasses the semaphore, disconnections in mid-write. Right when images and reports keep their order, none is
  repeated, and the drain loop never hangs.
* MQTT connection: a payload buffer that keeps the last message, parsed trees not freed, a condition word changed under
  the main thread. Right when nothing starts an update but a package, condition bits are not lost (only the main thread's are safe), and the gateway comes back after a lost network.
* Raspberry Pi: crashes between file operations, a supervisor that is killed; a command that arrives while the loop sleeps. Right when a program is always left,
  only one runs (not so after a kill), and STOP prevails.
* ESP32 and smart light: tasks that share a string, a document, a semaphore. Right when no character is skipped (not so in the code, once both are in the string at once), no press is
  answered twice or never, the LEDs agree, and the light registers as itself.

## 2. Modules

| module | models | built on |
|---|---|---|
| `Aggregator` | AG: puts, two-step downlink get, both work items | |
| `AggregatorHistory` | the same with packets numbered as offered, and what was handed on | `Aggregator` |
| `OrderedLossyChannel` | abstract specification: what one direction of the aggregator promises its callers, and what the whole way of images and reports promises | |
| `ChunkDelivery` | abstract specification: what the gateway promises the sender and the receiver of an update | |
| `TrialUpdate` | abstract specification: what it promises of the firmware it runs itself | |
| `UpdateControl` | flags, totals, counts, checks, NACKs (no specification of its own) | |
| `ChunkForwarding` | handler + update control + downlink aggregator + restarts | `Aggregator`, `UpdateControl`, `ChunkDelivery` |
| `SelfUpdate` | handler + update control + flash + MCUboot (external) + restarts | `UpdateControl`, `TrialUpdate` |
| `BleCentral` | connection management of BL | |
| `Traffic` | what travels over BLE and is published, both ways | `Aggregator`, `OrderedLossyChannel` |
| `MqttConnection` | main thread, event handler's memory, condition bits | |
| `RaspberryPi` | `control.py`, `Demo_v2_smart.py`, `WriteValue` | |
| `SmartLed` | `onem2msmartled`, with the CSE as external state | |
| `CameraNode` | both ESP32 sketches | |
| `MCAggregator`, `MCChunkForwarding`, `MCSelfUpdate`, `MCTraffic`, `MCCameraNode` | finite sets for TLC | |
| `AggregatorProofs`, `ChunkForwardingProofs`, `SelfUpdateProofs`, `MqttConnectionProofs`, `RaspberryPiProofs`, `SmartLedProofs` | theorems | the module named |
| `OrderProofs` | theorems: what passes the aggregator keeps its order | `AggregatorHistory`, `Traffic`, `AggregatorProofs` |
| `BleProofs` | theorems: both ends of a BLE connection | `BleCentral`, `CameraNode` |

Operators named `...WithoutFree`, `...OneMore` and the like, under "Variants with a mistake in
them", are what the properties are tested against: with one of them in place of the
definition it mimics, the property named beside it in `PROJECT.json` is violated.

### Correspondence with the code

**Aggregator.** `fifo[d]` is the queue, `entry_count[d]` the counter, `heap_free` counts
blocks `k_malloc` can give. A put is inside `irq_lock`: one step, with three outcomes
(`PutWhenFull` reuses the oldest block, `PutInNewEntry`, `PutFailsNoMemory`). The uplink get is one
step; the downlink get calls `k_fifo_get` before `irq_lock` (AG:119), so it is
`DownlinkDequeue` and `DownlinkRelease`; puts may come between the two, which is more than this build does, whose work queue thread is
cooperative and does not wait there. `pc[d]` is where the work item of direction d is;
`StartWork` needs both waiting because the work queue is one thread. The empty path of the downlink get
unlocks with an unread key (AG:137): `irq_masked` takes any value there.

**UpdateControl.** One action per outcome of `chunkErrorChecker`, in the order of its tests:
undecodable (silent), bad CRC, flag not set or wrong number (NACK), acceptable. A chunk message is its number,
the state of its data and its length. `extractPackage` refuses a second notification; nothing in
the code ever clears a flag.

**ChunkForwarding.** `ForwardChunk` puts the packet, result ignored, and `CountChunk` counts it
(MQ:675, 677): two steps, with the work queue free to run between them. `TransmitDelivers` and `TransmitLoses`
stand for `ble_transmit`, whose result is ignored (AG:323). `Restart` loses all of RAM.
`handler` is the device whose chunk is between the two; `delivered` is history, the chunks each device got in their order. `ChunkDelivery` hides the FIFO,
the work item and the two steps: a chunk is taken when it is put, a NACK names the first one not taken, and what is delivered is any later chunk of those taken.

**SelfUpdate.** `slot[k]` is the set of images whose bytes were written at chunk place k; nothing erases
the slot, so a place written with two images is unreadable as either. `StoreChunk` /
`StoreFails` are `write_firmware_chunk_to_flash`; `LastChunk` compares before the count, as UP:119 does.
`Reboot` (three cases of MCUboot, external) may happen in any state; `OTAInit` confirms the image before the
broker is reached. `TrialUpdate` hides flash, handler and request: announce, take a chunk, start the trial when all are taken, then confirm or put back.

**BleCentral.** Callbacks of the RX thread and the work queue. A callback is one step unless it waits: for the
context mutex (for ever, once `disconnected` has leaked it), or in
`updateFlexContainerForConnectedDevice`, which publishes over the modem. Scan module, connection objects, context
library and discovery manager are external and modelled as BL uses them.

**Traffic.** `ble_transmit` is what a drain loop does with its packet, in two steps: `WaitForWrite` takes `nus_write_sem` or gives up after 50 ms; then,
since a thread that had to wait is not the next to run and callbacks may come first, `ble_transmit` writes, or is refused because the device is gone or its
last write is unanswered; either way the packet is done with, and a disconnection between the two steps may leave it with a device that is gone. `write[d]` is the
NUS client's pending write (external); `ble_data_sent` answers it at any later time and gives the semaphore,
`Disconnected` fails it and gives it too. `Discovered` maps, subscribes and greets the device past the semaphore, and tells the camera of
the train. `ble_data_received` has a case per header; a malformed header returns `BT_GATT_ITER_STOP`, after which
`listening` lacks the device. `Publish` and `PublishFails` are the body of the uplink loop. A device's connection
state is taken to be right here (who is mapped to which context is BleCentral's subject). `giver` is history: whose write gave the semaphore, or "late" if
that was between the two steps.

**MqttConnection.** `main` is the stage the main thread is at, from `modem_configure` to the connect loop; it is "ended" when `main()` returns.
Changing a condition bit is a load and a store: `copy` holds what the main thread has loaded, and the callbacks (`BleBit`) may change
`led_condition` before it stores; the callbacks cannot be interrupted by it. `payload_buf` is what `get_received_payload` left in the buffer,
its result being ignored: an earlier payload, the last part of one that is too long, or, when reading fails half way, the first part of the new one spliced with what
was there (`Buffer`). A splice may parse as anything, but its device is one of those its parts came from: names are short, and one is not made of parts of two. `heap_free` counts the trees `cJSON_Parse` still has memory for: a notification parses two. `Fault` is a reboot,
by `error_handler` or by one of the undefined behaviours the header of the module names.

**RaspberryPi.** `control` steps through `on_message` one file operation at a time; each may raise, which ends `control.py`
("dead") until it is started again. `file[f]` is missing, partial, written but unsynced, or intact; `PowerFailure` makes unsynced
files partial or leaves them. `train` steps through the loop of `A.py`, a test or a motor call at a time, and `callback` through
`on_message`, which sets the goal and the motor in two steps. That is the A.py that `a_py_process` names; `Killed` ends `control.py` anywhere, and may leave its A.py behind, one of the
`orphans`, of which only the motor is kept (`OrphanActs`). `TrainEnds` distinguishes the exception (the `finally` stops the motor) from the signal (it does not).

**SmartLed.** `setup` is the resource `setup()` is at, `posting` whether its request has been built in `document` and not yet sent. A job of
`Task` steps through internal LED, building and posting the status, external LED. A post sends whatever `document` then holds. `PollButton`
gives the semaphore on a press it has not seen; `Finger` presses and releases. `Restart` keeps `cse` and the button. `overlapped` is history: a job
has mixed with another and no notified one has begun alone since.

**CameraNode.** The Bluetooth task and `loop` run on two cores and share a `std::string` without a lock, so none of its operations is atomic. `onWrite` copies the string, extends
the copy and assigns it, from `Written` to `onWrite`; `loop` reads the first character and erases it, from `read` to `erase`. If the two overlap, `raced` is set, and from then on what an
operation leaves (`Torn`) or reads is any bytes, or the board faults and restarts; the length that `available` reads meanwhile is the old or the new one. `computeAverageColor` and `YUVToRGB` are functions over frames, a frame being a sequence of the four bytes used of each sixteen,
with coefficients in millionths, the conversion to `int` truncating and the result in eight bits. The loop over the frame is a recursive function (`SumOf`), about
which the proofs reason; `Report` is what is notified of a frame. The mean is that of the pixels the loop looks at, two of the eight in each sixteen bytes.

## 3. Model checking

| run | shows | bounds |
|---|---|---|
| `aggregator_live` | counters, FIFOs and heap blocks agree, also when the heap is the limit; assertions hold; `Served` under `FairSpec` | any number of puts of one packet value, FIFO limit 3, heap 4; 148 states |
| `aggregator` | with room in the heap only the oldest are lost, order and at-most-once; both directions refine `OrderedLossyChannel` | 5 numbered packets each way, FIFO limit 3, heap 6; 11 800 states |
| `forwarding` | two devices with restarts: nothing before the notification, chunks in order and at most once; refines `ChunkDelivery`, NACKs included | FIFO limit and heap 2, chunks 0..1; 487 600 states |
| `self_update` | count follows flash, only complete upgrades, fallback kept; refines `TrialUpdate` | 2 images of 2 chunks, totals 0, 2, 3, chunk numbers 0..3; 9 207 states |
| `ble_central` | contexts sound, leaks bounded, what the ESP32 hears agrees with the flags | both devices, connection count within 3 of 0 both ways; 41 398 states |
| `traffic` | the semaphore opens only by the other device's write or a late answer, images and reports in order and at most once; both ways refine `OrderedLossyChannel` end to end | 2 images, 2 reports, any number of texts and chunks, FIFO limit and heap 2; 1 734 762 states |
| `mqtt` | the bits of the connection are kept, no update of a device that was sent nothing, the gateway recovers | transmit buffer 256, 3 trees, two packaged devices, 1 fault; 44 876 states |
| `raspberry_pi` | a program is kept, none runs beside `control.py`'s but those left by kills, the colour is the dominant one, STOP prevails | speed 50, shades 0, 149, 150, 200, 255, one kill from power-on to power-off that leaves A.py; 97 392 states |
| `smart_led` | no toggle without a press, no press forgotten, LEDs agree, the AE registers | 3 presses between restarts; 92 683 states |
| `esp32` | all unread characters in the buffer, in order, until the tasks overlap; averages near the mean | 5 characters, up to 2 per write, 24 frames; 319 634 states |

`forwarding_loss` and `mqtt_subscribed` each check one claim of a document or a comment and show a behaviour of
the code that breaks it (section 5).

**Why the bounds are enough.** Five packets overfill a FIFO of three while a get is between its
halves and leave two to come after. A heap of four is exhausted by two FIFOs before either is full, one of six
never; the order of packets with an exhausted heap is not a run, the proofs cover it for every heap. In `forwarding` a
FIFO of two overflows with the chunks of one device or of both, mixed with images and texts; its
properties relate one device's flag, count and packets, for which two chunk numbers give right, repeated and early chunks. Totals 2 and 3 against
images of 2 chunks give complete, short and long announcements. `MessageLength` holds a length that
fits, one over `ENTRY_MAX_SIZE` and one over the payload buffer; the buffer is set to 300 so that the
second case exists, with the default of 128 it is part of the third. `CountLimit` cuts the one counter of
BleCentral that drifts without bound; three either way passes the value 2 the code compares it with.
In `traffic` order and repetition take two of a kind; texts and chunks, which are not counted, keep the FIFO of two full and the links busy, and the
heap runs out at once; one report type is enough where only the topic depends on it. `mqtt` needs a device to have a flag set and refused, and a second one for its package to be mistaken for; three trees
leave room for two leaks before nothing parses; one fault separates what survives a reboot from what does not; a buffer of 256 is what
makes the subscription fit (144 bytes). The shades straddle the limit of 150, reach that of a byte and have equal, larger and smaller pairs. Three presses are one being answered, one in the
semaphore and one that collapses into it. The frames are of one and of two samples, with the extremes and the middle of each byte; five characters leave some unread while two more come.
For every safety property the proofs of section 4 remove the bounds.

**Deadlock** is checked in `traffic`, `mqtt`, `raspberry_pi`, `smart_led` and `esp32`. It is not in the others: `aggregator` stops when the
`MaxOffered` packets are used up; chunk numbers beyond `MaxChunk` do not exist in `forwarding` and `self_update`;
both threads of BleCentral can end up waiting for the leaked mutex; `aggregator_live` states the progress that matters instead.

**Fairness.**
`FairSpec` of Aggregator: the work queue is a thread of its own that goes on with what it has
started (weak fairness of each step of a drain loop), and takes expired items in FIFO order, so that an item whose
timer expires again and again is started (strong fairness of `StartWork`: it is disabled each time the other
item runs). Puts are not fair. `Served` assumes that the queue comes to rest again and again: nothing in the code
prevents a loop that is fed faster than it drains from keeping the thread.
For the downlink this rests on the wait of `ble_transmit` having a limit: `WaitForWrite` is enabled whether the semaphore is there or not, and `ble_transmit` after it, so that one of the two is in
every state of `traffic` in which the work item is sending. No device need answer.
`FairSpec` of MqttConnection: the main thread runs, and connecting, CONNACK and errors take finite time; messages, callbacks and
the network are not fair, and `Recovers` assumes a network that is good from some time on.
`FairSpec` of RaspberryPi: the loop and the callback once begun go on; commands, updates and failures are not fair.
`FairSpec` of SmartLed: the toggle task is scheduled and an HTTP post returns, with an error if need be; nobody has to press the button.

## 4. Proofs

All for every value of the constants that satisfies the named assumptions:
`AggregatorAssumption` (a FIFO limit of at least 2, any heap), `UpdateAssumption` and
`SelfUpdateAssumption` (numbers are naturals, the image's chunk numbers are chunk numbers), `ForwardingAssumption` (downlink packets are
packets, "no device" is no device), `GatewayAssumption` (sizes are naturals, a device is not called a chunk),
`TrainAssumption` (shades are bytes, kills have some bound), `LightAssumption` (`MaxPresses` is a natural),
`TrafficAssumption` (what travels are packets, the numbers of images and reports have some bound), `BleAssumption` ("no name" and "no context" are none,
the drift of the connection count has some bound), `NodeAssumption` (so do characters and writes),
`SampleAssumption` (samples are bytes, a frame has some and not more than `initCamera` asks for, HVGA).

* `AggregatorProofs`: `IInv == TypeOK /\ CountMatchesFifo /\ HeapAccounted /\ OneWorkItem` is inductive.
  Counters staying in 0..limit needs the count to match the FIFO; that needs `OneWorkItem`, as only a downlink
  get sits between its halves; `heap_free` stays in range by `HeapAccounted`. `AssertionsHold` follows
  because a count of at least 2 leaves an entry even when one is held, `NothingIsLeaked` joins the last two conjuncts, `NoPutFails` is arithmetic.
  `SameIInv` carries it over every step that leaves the aggregator alone, for the two modules built on it.
* `OrderProofs`, the aggregator: `HInv`, the above with `InOrder`, is inductive. Two lemmas on sequences do
  the work: appending the next number and dropping the head keep a FIFO ordered (`OrderedAppend`, `OrderedTail`).
  `LossInv` adds `FifoIsSuffix` and `MostRecentKept`; the second needs the first, to know
  which packet a full FIFO drops, and `HeapRoom`, to know that no packet is refused; `OldestAreLost` is their conjunction. `ChannelStep` shows every step to be an
  offer, a delivery of the oldest packet or a stutter, and gives
  `UplinkImplementsChannel` and `DownlinkImplementsChannel`; these need `InOrder`, since a delivery must leave
  exactly the later packets.
* `OrderProofs`, the BLE traffic: `TrafficInv` is the aggregator's invariant, the types, and three conjuncts. `Staged(s, w, o, q, m)` says that the
  numbers on their way increase from those that have arrived (s), through the one being written (w) and the one the work item holds (o), to those queued (q), and
  that none is beyond the last one taken (m); packets without a number (texts, chunks) are anywhere in between. `ImagesStaged` and `ReportsStaged` say it of the two
  kinds. A put at the end (`StagedPut`, which may drop the head first), a get (`StagedTail`) and whatever moves or loses the number in hand or being written (`StagedMoves`)
  keep it. That `ImagesInOrder` alone is not inductive is the point of the model: a late answer shows an image after others have been tried, and only the
  stage it is in says that none of those was shown. `GiverIsOther` (a device with a packet of its own pending has not given the
  semaphore that is there) is what `OpenedByOtherOrLate` needs: it survives the greeting, which takes the place of the device's pending write, and the answers that come between the two halves of
  `ble_transmit`, which count as late (`WaitTraffic`).
  `TrafficImplementsChannels` states the same end to end, as a refinement: seen from the counts every step lets a number in, lets one out, or
  neither (`ImageSteps`, `ReportSteps`); one that comes out has arrived and is beyond the last (`ShownIsLater`, `PublishedIsLater`, from `Staged`). `pending` is mapped to
  every arrived number beyond the last one out, since a loss on the way is seen by nobody at its ends.
* `ChunkForwardingProofs`: `ForwardInv`, for any number of devices and chunks. `Ordered(d, s, o, del, n)` says that d's chunks are in order from
  those delivered, through the one in the work item's hands and those in the FIFO, to the next expected number n; `AllOrdered` says it of the state. Appending chunk n
  and raising n keep it (`OrderedAppend`), and so do dropping the oldest (`OrderedTail`), taking the head (`OrderedHead`) and delivering or losing it (`OrderedSent`). `WorkInv` and `ControlInv` tell
  when the work item has a packet and that nothing is counted before its notification. `DeliveryIsSound` follows, and `NackStaysBehind`
  (an action property) from `ControlInv`. `ForwardingImplementsDelivery` is the refinement of `ChunkDelivery`, with the first chunk not yet put (`NextChunk`) for the number taken: putting
  a chunk is the abstract step and counting it is none (`HandlerIsDelivery`), a chunk that reaches the device is later than all it has because of `Ordered` (`TransmitIsDelivery`), and whatever is lost is seen by neither end (`UnseenStep`).
  `ForwardTypeCorrect` joins the types to the aggregator's invariant, since the counter and the heap keep
  their ranges only by it (`StepIInv`: every step is one of the aggregator or leaves it alone).
* `BleProofs`, the central: `CentralInv` adds one conjunct, `LosingKept`, to the types and the two properties. While a disconnection is publishing,
  the context mutex is held and one entry is still mapped (so the first mapped entry exists when it is cleared), the locks may exceed `LeaksBounded` by one (the entry goes when it ends), and
  no discovery runs on the connection it is about to drop; without the last, `DisconnectedEnds` would leave a discovery on a free context. A new connection finds a free
  context because the two in use would belong to two other devices, and there is only one (`FreeContextIs`). `OwnedKept`, `OwnedLost` and `OwnedConnected` are the three ways a step
  may touch the table. `RpiIsAnnounced` needs one more conjunct for what holds until the mutex leaks: the text is behind some mapped connection that is up
  (`TextBacked`, `TextStep`).
* `BleProofs`, the ESP32: `NodeInv` is `WriteCounted` (how many characters have arrived and been written) and `BufferWhole`: until the first overlap the buffer is what was written and not erased, `loop` does not
  erase while `onWrite` appends, and reads only what is there. `OnlyRacesLose` follows. After an overlap nothing is claimed of the buffer but the counts.
* `BleProofs`, the colours: `PixelIsClose` bounds what `YUVToRGB` loses of every colour of every pixel. `ReportIsMean` carries it over a frame of any length by induction over its samples.
  The induction is `NatSet`: a set that holds 0 and each successor of its numbers is all of `Nat`, for below a missing number adding one would map a finite set into itself,
  one to one but not onto. By it the recursion of `SumOf` has a solution (`SumsExist`, `SumIs`), a sum is bounded by its terms (`SumBounds`) and sums subtract term by term (`SumLinear`), so that what the
  pixels lose adds up (`FrameSums`); the division loses less than one more, and the mean of bytes is a byte, so that the eight bits cut nothing. `SumsFitLong` bounds
  the sums by 510 times the 19 200 samples of an HVGA frame, which a `long` of 32 bits holds.
* `SelfUpdateProofs`: three strengthenings. `CountedAreIds` (every counted number was a chunk number) and
  `RequestIsLast` (the handler does not return between request and reboot) carry `UpgradeIsComplete`;
  `TrialIsStarting` (an unconfirmed image has not reached `OTAInit`) carries `FallbackIntact`.
  `SelfUpdateImplementsTrial` is the refinement of `TrialUpdate`. It needs `TrialInv` besides: a chunk is in hand only of an announced update and under a confirmed image, the count never passes the
  total, and has reached it when the upgrade is asked for; so a swap (`RebootIsTrial`) finds all chunks taken.
* `MqttConnectionProofs`: `BufferAnnounced` (a package in the buffer, whole or spliced, is of a device that was sent one since the boot) carries `NoUpdateUnannounced`;
  `SessionStage` and `ConnectedBit` carry `ConnectionBitsKept`: a callback's bit may be lost to the main thread's store, the main
  thread's own never is.
* `RaspberryPiProofs`: `TrainWhileListening` (`control.py`'s own `A.py` runs only while it waits for messages, so that none is forgotten when the next one starts) gives `OneTrainRuns`; `IntactSomewhere`
  says which of the two files is intact at each step of an update and gives `ProgramIsKept`. `ColourIsRight` rests on the lemma `FoundIsDominant` about `detect_color`, for all bytes (above 255 the code finds no colour).
* `SmartLedProofs`: `PressFresh` (a press not yet polled is not yet used up) gives `NoToggleUnasked`; `JobsAtWork` and `LedsPaired` (what a lone job has
  done to each LED so far) give `LedsAgreeAlways`; `SetupOrder` (what has started by when) gives `AEIsPosted`.

Only model-checked: everything live (`Served`, `Recovers`, `StopPrevails`, `PressServed`), as fairness and ENABLED are beyond the
prover; and both findings, which are counterexamples. `HeapSuffices` and `NackNotAhead` are proved and in no run: `OnlyOldestLost` fails
where the first does, and `ChunkDelivery` says more than the second.

## 5. Where code and text disagree

Each is the counterexample of a run; `PROJECT.json` quotes the text.

| run | the code |
|---|---|
| `forwarding_loss` | counts a chunk whatever becomes of it in the FIFO, the heap or the link |
| `mqtt_subscribed` | sends no SUBSCRIBE with the default buffer: its 144 bytes do not fit in 128, and the error is ignored |

Claims of comments and documents, or what their readers would rely on, that the models contradict too; they are defined in the module, without a run of their own:

| claim | the code |
|---|---|
| `NotificationForwarded` (ChunkForwarding) | builds the packet that announces an update to the device and drops it |
| `LastChunkFinalises` (SelfUpdate) | finalises on the chunk after the last announced one |
| `MappedByName` (BleCentral) | maps a connection to the name being scanned for when its discovery completes |
| `DisconnectUpdatesFlag` (BleCentral) | on a disconnection clears the first mapped entry, whoever disconnected |
| `NothingFoundKeepsSwitching` (BleCentral) | stops switching names and does not start again |
| `DiscoveryFindsContext` (BleCentral) | walks the contexts by how many are used |
| `RpiHeardTruly` (BleCentral) | leaves the ESP32 with "rpiConnected" while the Raspberry Pi's link is down: the flag it goes by is that of the mapped name, or the other device's was cleared |
| `BlinksWhileConnecting` (MqttConnection) | keeps LED 3 lit while it connects again: nothing clears `MQTT_LTE_CONNECTED` |
| `StoresKeepBleBits` (MqttConnection) | overwrites what a callback did to `led_condition` between the load and the store of `subscribe` |
| `UpdateReadWhole` (MqttConnection) | starts an update from a payload it did not read whole |
| `NoCharSkipped` (CameraNode) | lets `loop` skip, repeat or make up characters when it and `onWrite` are in the string at once |

Seen while modelling, and modelled:

* the newest packet, not the oldest, is lost when the heap is the limit (AG:159; not with the heap of `prj.conf`);
* chunks of 200 bytes are stored 273 bytes apart (UP:82), so that what is stored is not the image;
* `disconnected` keeps a reference to the lost connection (BL:489): with two connection objects its device cannot come back;
* `numConnectedDevices` counts discoveries, not devices (BL:284);
* every uplink packet is given `SOURCE_ESP32` (BL:734), so the Raspberry Pi's reports go to the ESP32's topics, against the comment at BL:706;
* a message without a two-digit header, which each letter of the test sketch's ping is, ends the subscription to its sender (BL:731);
* the greeting does not take the semaphore (BL:237), but its answer gives it; an answer that comes after the 50 ms and before the write opens the semaphore while that write is pending, also for
  the same device;
* the context mutex that `disconnected` leaks (BL:491) stops the RX thread for ever at its next use;
* the topic of requests is never subscribed to, so MQ:498-547 is not reached; refused and unrecognised messages leave their trees on the
  heap (MQ:618) until nothing parses; `freePackageInfo` may free a `url` that was never set;
* a toggle reports the negation of the level it has just set (`onem2msmartled/src/main.cpp:75`); once registered, a notification may overwrite the request
  `setup` is about to post, and the container or the subscription is then not created;
* an update that `control.py` begins while `A.py` is not intact can lose both programs; a `control.py` killed while `A.py` runs leaves it to drive the motor beside the next one; a terminated `A.py` leaves the motor pin as it was; `A.py` does not subscribe
  again after a lost session; a `datafile.txt` that holds no colour ends `A.py`; a speed of 1200, as in `A.py`, stops the motor;
* `detect_color` answers "Red" when green and blue are equal and brighter;
* a string that `onWrite` and `loop` have changed at once may hold anything, or fault.

And not modelled:

* the packet put for a device names `message.payload.data` as its bytes (MQ:669), a field the handler does not fill: the payload
  is read into `payload_buf`;
* `reqId` is sent uninitialised (`onem2msmartled/src/wifiSetup.cpp:91`);
* the camera sketch's `sendFirmwareVersion` does not compile.

## 6. Not modelled, and what is left

Left to do, in this order: the composition of BleCentral with Traffic, so that a packet goes to the context its device is wrongly mapped to, with the types and
the order of images carried over from both invariants; the sensor callback and
the reports of `A.py`.

Left out for good:

* JSON and base64 formatting, cJSON, GPIO, modem and HCI access, oneM2M request formatting (no state); the request builders nothing calls;
* within AG, `serialize_uplink_packet_to_json` (the packet a work item holds is done with, whatever it
  returns) and the element counts, `aggregator_clear` and `aggregator_init`, which nothing calls;
* the closed loop of an update: its sender, the web application, is not in the repository, nor is the CSE; the models let them send
  anything, so nothing is said of an update that ends (an over-long chunk is dropped without a NACK, and a flag is never cleared: modelled, but
  who waits is not here);
* the other three LEDs beyond who changes their bits, and the phases of blinking in time;
* the ESP32 flash test, an experiment of its own, and the earlier forms of the train program, whose loops are parts of the one modelled;
* the BlueZ example around `WriteValue`; the sketches' camera set-up and the methods of BLESerial nothing calls.
