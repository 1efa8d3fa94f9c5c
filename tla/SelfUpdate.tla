----------------------------- MODULE SelfUpdate -----------------------------
(***************************************************************************)
(* The gateway's update of its own firmware: chunks on "/9160/Update" pass  *)
(* chunkErrorChecker, are written to the secondary flash slot by            *)
(* process_firmware_chunk, and the last one asks MCUboot for a test upgrade *)
(* and reboots.  At start-up main confirms the running image (OTAInit)      *)
(* before it connects to the broker.  Power may fail between any two steps; *)
(* flash survives, RAM does not.                                            *)
(*                                                                         *)
(* Flash is written without being erased.  Each chunk-sized place of the    *)
(* slot is the set of images whose bytes were programmed there: empty when  *)
(* erased, and unreadable as either image when it holds two.  MCUboot is    *)
(* external: it boots a requested image only when the slot holds it whole.  *)
(***************************************************************************)
EXTENDS UpdateControl

CONSTANTS
    Gateway,           \* the device that is this board, "9160"
    Image,             \* firmware images
    FactoryImage,      \* the one the board starts with
    ImageChunks,       \* chunks an image is cut into
    FIXED_CHUNK_SIZE,  \* 273 in update.c: the stride of the slot
    DataLength,        \* bytes a decoded chunk holds
    SlotSize           \* fa_size of the secondary slot

ASSUME SelfUpdateAssumption ==
    /\ Gateway \in Device
    /\ FactoryImage \in Image
    /\ ImageChunks \in Nat \ {0} /\ 0..(ImageChunks - 1) \subseteq ChunkId
    /\ FIXED_CHUNK_SIZE \in Nat /\ DataLength \in Nat /\ SlotSize \in Nat

VARIABLES
    phase,      \* "starting" until OTAInit has run, then "up"
    handler,    \* what process_firmware_chunk has done with the chunk in hand
    slot,       \* contents of the secondary slot
    upgrade,    \* the upgrade MCUboot is asked for
    running,    \* image in the primary slot
    previous,   \* image MCUboot reverts to
    confirmed   \* the running image is confirmed

flashVars == <<slot, upgrade, running, previous, confirmed>>
vars == <<flag, total, current, nack, phase, handler,
          slot, upgrade, running, previous, confirmed>>

Filled(v) == [k \in ChunkId |-> IF k < ImageChunks THEN {v} ELSE {}]

SInit ==
    /\ ControlInit
    /\ phase = "up"
    /\ handler = "idle"
    /\ slot = [k \in ChunkId |-> {}]
    /\ upgrade = "none"
    /\ running = FactoryImage
    /\ previous = FactoryImage
    /\ confirmed = TRUE

\* Where write_firmware_chunk_to_flash puts chunk k.
Offset(k) == k * FIXED_CHUNK_SIZE

FitsSlot(k) == Offset(k) + DataLength <= SlotSize

\* MCUboot finds image v in the secondary slot: all of it, over nothing else,
\* and without gaps.
Bootable(v) ==
    /\ \A k \in 0..(ImageChunks - 1) : slot[k] = {v}
    /\ \A k \in 1..(ImageChunks - 1) : Offset(k) = Offset(k - 1) + DataLength
-----------------------------------------------------------------------------
\* Variants with a mistake in them; no action of the system uses them.
ListeningBeforeConfirm == handler = "idle"

LastChunkOneEarly == current[Gateway] + 2 >= total[Gateway]

StoreChunkIgnoresError(c, v) ==
    /\ phase = "up" /\ handler = "idle"
    /\ Readable(c) /\ Acceptable(Gateway, c) /\ c.len <= ENTRY_MAX_SIZE
    /\ slot' \in {slot, [slot EXCEPT ![c.id] = @ \cup {v}]}
    /\ handler' = "stored"
    /\ UNCHANGED <<controlVars, phase, upgrade, running, previous, confirmed>>
-----------------------------------------------------------------------------
\* The event handler takes a message: the broker connection exists only after
\* OTAInit, and the handler runs to completion on the main thread.
Listening == phase = "up" /\ handler = "idle"

NotifyPackage(n) ==
    /\ Listening
    /\ extractPackage(Gateway, n)
    /\ UNCHANGED <<phase, handler, flashVars>>

DropChunk(c) ==
    /\ Listening
    /\ ChunkUndecodable(Gateway, c) \/ ChunkRejected(Gateway, c)
    /\ UNCHANGED <<phase, handler, flashVars>>

\* An acceptable chunk too long for a downlink packet is dropped even though it
\* goes into none.
ChunkTooLong(c) ==
    /\ Listening
    /\ Readable(c) /\ Acceptable(Gateway, c) /\ c.len > ENTRY_MAX_SIZE
    /\ UNCHANGED vars

StoreChunk(c, v) ==
    /\ Listening
    /\ Readable(c) /\ Acceptable(Gateway, c) /\ c.len <= ENTRY_MAX_SIZE
    /\ FitsSlot(c.id)
    /\ slot' = [slot EXCEPT ![c.id] = @ \cup {v}]
    /\ handler' = "stored"
    /\ UNCHANGED <<controlVars, phase, upgrade, running, previous, confirmed>>

\* The slot cannot be opened, the chunk lies beyond its end or the write fails,
\* maybe half done: the chunk is not counted and no NACK is sent.
StoreFails(c, v) ==
    /\ Listening
    /\ Readable(c) /\ Acceptable(Gateway, c) /\ c.len <= ENTRY_MAX_SIZE
    /\ slot' \in {slot} \cup
            IF FitsSlot(c.id) THEN {[slot EXCEPT ![c.id] = @ \cup {v}]} ELSE {}
    /\ UNCHANGED <<controlVars, phase, handler, upgrade, running, previous, confirmed>>

\* "Check if this is the last chunk": process_firmware_chunk compares the total
\* with the number of chunks counted before this one.
LastChunk == current[Gateway] = total[Gateway]

CountChunk ==
    /\ handler = "stored" /\ ~LastChunk
    /\ incrementChunk(Gateway)
    /\ handler' = "idle"
    /\ UNCHANGED <<phase, flashVars>>

\* finalize_firmware_update: boot_request_upgrade succeeds; sys_reboot follows.
RequestUpgrade ==
    /\ handler = "stored" /\ LastChunk
    /\ upgrade' = "test"
    /\ handler' = "rebooting"
    /\ UNCHANGED <<controlVars, phase, slot, running, previous, confirmed>>

\* boot_request_upgrade fails: the handler returns without counting the chunk.
RequestFails ==
    /\ handler = "stored" /\ LastChunk
    /\ handler' = "idle"
    /\ UNCHANGED <<controlVars, phase, flashVars>>
-----------------------------------------------------------------------------
\* RAM after a reset.
Reset ==
    /\ ControlReset
    /\ phase' = "starting"
    /\ handler' = "idle"

\* MCUboot (external) swaps in a requested image that is whole, for a trial.
BootSwaps(v) ==
    /\ upgrade = "test" /\ Bootable(v)
    /\ running' = v
    /\ previous' = running
    /\ slot' = Filled(running)
    /\ upgrade' = "none"
    /\ confirmed' = FALSE
    /\ Reset

\* It reverts an image that was never confirmed.
BootReverts ==
    /\ upgrade = "none" /\ ~confirmed
    /\ running' = previous
    /\ slot' = Filled(running)
    /\ confirmed' = TRUE
    /\ UNCHANGED <<previous, upgrade>>
    /\ Reset

\* Otherwise it boots what was running and forgets the request.
BootStays ==
    /\ IF upgrade = "test" THEN \A v \in Image : ~Bootable(v) ELSE confirmed
    /\ upgrade' = "none"
    /\ UNCHANGED <<slot, running, previous, confirmed>>
    /\ Reset

\* sys_reboot, or a restart for any other reason at any time.
Reboot == (\E v \in Image : BootSwaps(v)) \/ BootReverts \/ BootStays

\* main reaches OTAInit once the modem, LTE and BLE are up.
OTAInit ==
    /\ phase = "starting"
    /\ confirmed' = TRUE
    /\ phase' = "up"
    /\ UNCHANGED <<controlVars, handler, slot, upgrade, running, previous>>

SNext ==
    \/ \E n \in ChunkTotal : NotifyPackage(n)
    \/ \E c \in ChunkMessage : DropChunk(c) \/ ChunkTooLong(c)
    \/ \E c \in ChunkMessage, v \in Image : StoreChunk(c, v) \/ StoreFails(c, v)
    \/ CountChunk \/ RequestUpgrade \/ RequestFails
    \/ Reboot \/ OTAInit

SSpec == SInit /\ [][SNext]_vars
-----------------------------------------------------------------------------
STypeOK ==
    /\ ControlTypeOK
    /\ phase \in {"starting", "up"}
    /\ handler \in {"idle", "stored", "rebooting"}
    /\ slot \in [ChunkId -> SUBSET Image]
    /\ upgrade \in {"none", "test"}
    /\ running \in Image /\ previous \in Image
    /\ confirmed \in BOOLEAN

\* Every chunk counted, and the one in hand once written, is in the slot: the
\* count never runs ahead of the flash, whatever writes fail and wherever the
\* board restarts.
CountedIsStored ==
    \A k \in ChunkId :
        k < current[Gateway] \/ (k = current[Gateway] /\ handler # "idle") => slot[k] # {}

\* MCUboot is asked for an upgrade only when every chunk of the announced
\* update has been written, never for part of an image.
UpgradeIsComplete ==
    upgrade = "test" => \A k \in 0..(total[Gateway] - 1) : k \in ChunkId /\ slot[k] # {}

\* Until the running image is confirmed, the secondary slot still holds the
\* whole of the image MCUboot would revert to: nothing of a next update is
\* accepted before OTAInit has run.
FallbackIntact == ~confirmed => slot = Filled(previous)

\* Whatever writes and requests fail and wherever the power does, what the board
\* runs changes as the abstract update allows: to an image only after every chunk
\* announced since the start-up was taken, and back to the one before it unless it
\* has confirmed itself; and while it has not, it takes no chunk.
Trial == INSTANCE TrialUpdate
    WITH announced <- flag[Gateway], size <- total[Gateway], taken <- current[Gateway]

SelfUpdateIsTrial == Trial!Spec

\* "Check if this is the last chunk" (update.c): when the announced number of
\* chunks has been counted, the upgrade has been requested.
LastChunkFinalises ==
    current[Gateway] = total[Gateway] /\ total[Gateway] > 0 => upgrade = "test"
=============================================================================
