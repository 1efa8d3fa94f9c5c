--------------------------- MODULE UpdateControl ---------------------------
(***************************************************************************)
(* The gateway's record of the firmware updates in progress and its check   *)
(* of every chunk: extractPackage, which opens the update of a device when  *)
(* the CSE notifies a new package, and chunkErrorChecker, which lets a      *)
(* chunk through or publishes a NACK on the update topic of the device.     *)
(* Both run in the MQTT event handler, on the main thread.  Each update     *)
(* topic belongs to one device, so topics are named by devices here.        *)
(***************************************************************************)
EXTENDS Integers

CONSTANTS
    Device,               \* devices with an update topic
    ChunkId,              \* chunk numbers ("I") the chunk messages carry
    ChunkTotal,           \* numbers of chunks the notifications announce
    MessageLength,        \* lengths of the chunk messages, in bytes
    PAYLOAD_BUFFER_SIZE,  \* CONFIG_MQTT_PAYLOAD_BUFFER_SIZE, 128
    ENTRY_MAX_SIZE        \* 247 in aggregator.h

ASSUME UpdateAssumption ==
    /\ ChunkId \subseteq Nat
    /\ ChunkTotal \subseteq Nat
    /\ MessageLength \subseteq Nat
    /\ PAYLOAD_BUFFER_SIZE \in Nat
    /\ ENTRY_MAX_SIZE \in Nat

NotReady == -1  \* the NACK "Not Ready for Update"
NoNack == -2    \* nothing published yet

VARIABLES
    flag,     \* update9160Flag, updateESP32Flag, updateRPiFlag
    total,    \* total9160Chunks, totalESP32Chunks, totalRPiChunks
    current,  \* current9160Chunk, currentESP32Chunk, currentRPiChunk
    nack      \* the last error message published on each update topic

controlVars == <<flag, total, current, nack>>

\* A chunk message: its number, what its data is worth (the base64 text does
\* not decode, its CRC32 differs from "C", or it is good) and its length.
ChunkMessage ==
    [id : ChunkId, data : {"good", "corrupt", "undecodable"}, len : MessageLength]

ControlInit ==
    /\ flag = [d \in Device |-> FALSE]
    /\ total = [d \in Device |-> 0]
    /\ current = [d \in Device |-> 0]
    /\ nack = [d \in Device |-> NoNack]

\* What a restart of the gateway does to them; the last NACK is out.
ControlReset ==
    /\ flag' = [d \in Device |-> FALSE]
    /\ total' = [d \in Device |-> 0]
    /\ current' = [d \in Device |-> 0]
    /\ UNCHANGED nack
-----------------------------------------------------------------------------
\* Variants with a mistake in them; no action of the system uses them.
AcceptableWithoutFlag(d, c) ==
    c.data = "good" /\ c.id = current[d]

ExtractPackageOneMore(d, n) ==
    /\ ~flag[d]
    /\ flag' = [flag EXCEPT ![d] = TRUE]
    /\ total' = [total EXCEPT ![d] = n + 1]
    /\ UNCHANGED <<current, nack>>
-----------------------------------------------------------------------------
\* The message fits the payload buffer.  Of a longer one only the tail is kept,
\* which is not the JSON of a chunk, and the handler drops it.
Readable(c) == c.len <= PAYLOAD_BUFFER_SIZE

\* Every check of chunkErrorChecker is passed.
Acceptable(d, c) ==
    c.data = "good" /\ flag[d] /\ c.id = current[d]

\* The chunk number create_json_error_message puts in the NACK.
NackValue(d) == IF flag[d] THEN current[d] ELSE NotReady

\* extractPackage opens the update of d, in n chunks, unless one is open
\* already; then the notification is dropped.  (It also frees a URL pointer
\* nobody set: a fault there is one of the restarts the actions allow anywhere.)
extractPackage(d, n) ==
    /\ ~flag[d]
    /\ flag' = [flag EXCEPT ![d] = TRUE]
    /\ total' = [total EXCEPT ![d] = n]
    /\ UNCHANGED <<current, nack>>

\* Data that does not decode is dropped without a word.
ChunkUndecodable(d, c) ==
    /\ Readable(c) => c.data = "undecodable"
    /\ UNCHANGED controlVars

\* A readable chunk that fails a check is answered with a NACK, which
\* data_publish may fail to send.
ChunkRejected(d, c) ==
    /\ Readable(c) /\ c.data # "undecodable" /\ ~Acceptable(d, c)
    /\ nack' \in {nack, [nack EXCEPT ![d] = NackValue(d)]}
    /\ UNCHANGED <<flag, total, current>>

incrementChunk(d) ==
    /\ current' = [current EXCEPT ![d] = @ + 1]
    /\ UNCHANGED <<flag, total, nack>>
-----------------------------------------------------------------------------
ControlTypeOK ==
    /\ flag \in [Device -> BOOLEAN]
    /\ total \in [Device -> ChunkTotal \cup {0}]
    /\ current \in [Device -> Nat]
    /\ nack \in [Device -> Nat \cup {NotReady, NoNack}]
=============================================================================
