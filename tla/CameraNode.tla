----------------------------- MODULE CameraNode -----------------------------
(***************************************************************************)
(* The ESP32 as the gateway knows it, with either of its two sketches:       *)
(* DemoBLEFirmware.ino, which reports the average colour of what the camera  *)
(* sees, and ESP32BLETest.ino, which pings.  Both hold the same BLESerial.   *)
(*                                                                         *)
(* The callbacks run in the Bluetooth task, on another core than loop, and   *)
(* share receiveBuffer with it, a std::string nothing guards.  Copying,      *)
(* assigning and erasing take time: each has a first and a last step, and    *)
(* from the first overlap on (raced) an operation on the string may leave or *)
(* return any bytes, since length, data and heap may have parted; or the     *)
(* board faults and restarts.  Characters are numbered as they arrive; the   *)
(* words loop makes of them are printed and nothing else.  The camera        *)
(* sketch's answer to a version request is left out: it names variables      *)
(* that are not declared.                                                  *)
(***************************************************************************)
EXTENDS Integers, Sequences

CONSTANTS
    MaxChars, MaxWrite, \* bounds on the characters sent, and sent at a time
    Sample,             \* first four bytes of sixteen: [Y1, U, Y2, V]
    Seen                \* frames the camera takes, sequences of samples

Byte == 0..255
Colour == {"R", "G", "B"}

\* initCamera asks for HVGA, 480 by 320 pixels of two bytes each.
FrameSamples == (480 * 320 * 2) \div 16

\* The largest long of the ESP32.
LongMax == 2147483647

ASSUME SampleAssumption ==
    /\ Sample \subseteq [Y1 : Byte, U : Byte, Y2 : Byte, V : Byte]
    /\ Seen \subseteq Seq(Sample) \ {<<>>}
    /\ \A frame \in Seen : Len(frame) <= FrameSamples

ASSUME NodeAssumption == MaxChars \in Nat /\ MaxWrite \in Nat

VARIABLES
    sketch,        \* the program in the flash
    connected, advertising,
    callback,      \* what the Bluetooth task is doing
    arrived,       \* number of characters that have arrived
    unwritten,     \* those of them onWrite is appending to the buffer
    receiveBuffer, \* numbers of characters; 0 is a byte nobody sent
    raced,         \* both tasks have been inside the string at once
    loop,          \* where loop is
    incomingChar,
    notified       \* the value notified last: a letter, or a header and a colour

bleVars == <<connected, advertising, callback, arrived, unwritten>>
bufferVars == <<receiveBuffer, raced>>
loopVars == <<loop, incomingChar, notified>>
nodeVars == <<sketch, bleVars, bufferVars, loopVars>>

NInit ==
    /\ sketch \in {"demo", "test"}
    /\ connected = FALSE /\ advertising = TRUE /\ callback = "idle"
    /\ arrived = 0 /\ unwritten = 0
    /\ receiveBuffer = <<>> /\ raced = FALSE
    /\ loop = "available" /\ incomingChar = 0
    /\ notified = [letter |-> "none"]
-----------------------------------------------------------------------------
Clamp(n) == IF n < 0 THEN 0 ELSE IF n > 255 THEN 255 ELSE n

\* What doubles are counted in here.
Million == 1000000

\* The conversion of a double to int.
Truncated(millionths) ==
    IF millionths >= 0 THEN millionths \div Million ELSE -((-millionths) \div Million)

Millionths(y, u, v) ==
    [R |-> Million * y + 1402000 * (v - 128),
     G |-> Million * y - 344136 * (u - 128) - 714136 * (v - 128),
     B |-> Million * y + 1772000 * (u - 128)]

YUVToRGB(y, u, v) ==
    [k \in Colour |-> Clamp(Truncated(Millionths(y, u, v)[k]))]

\* The sum of a sequence, as a loop over it leaves it; no community operator,
\* because the proofs look into the recursion.
SumOf(s) ==
    LET sum[i \in 0..Len(s)] == IF i = 0 THEN 0 ELSE sum[i - 1] + s[i]
    IN  sum[Len(s)]

PairColour(s, k) == YUVToRGB(s.Y1, s.U, s.V)[k] + YUVToRGB(s.Y2, s.U, s.V)[k]

\* The sum of colour k over both pixels of every sample.
PixelSum(frame, k) == SumOf([i \in 1..Len(frame) |-> PairColour(frame[i], k)])

\* A variant with a mistake, not used: the samples counted, not their pixels.
AverageOfSamples(frame) ==
    [k \in Colour |-> (PixelSum(frame, k) \div Len(frame)) % 256]

\* A frame has two bytes to a pixel, and the loop looks at two pixels of every
\* sixteen bytes: len is a multiple of 16 for the frames of HVGA, and len / 8 the
\* number of pixels it adds up.
computeAverageColor(frame) ==
    [k \in Colour |-> (PixelSum(frame, k) \div (2 * Len(frame))) % 256]
-----------------------------------------------------------------------------
\* The numbers of the n characters that come after number e.
After(e, n) == [i \in 1..n |-> e + i]

\* A variant with a mistake, not used: what was not yet read is dropped.
WriteOverUnread ==
    /\ callback = "writing"
    /\ callback' = "idle" /\ unwritten' = 0
    /\ receiveBuffer' = After(arrived - unwritten, unwritten)
    /\ UNCHANGED <<sketch, connected, advertising, arrived, raced, loopVars>>

\* The Bluetooth task; onConnect keeps it for a second.
Connect ==
    /\ callback = "idle" /\ advertising
    /\ connected' = TRUE /\ advertising' = FALSE
    /\ callback' = "onConnect"
    /\ UNCHANGED <<sketch, arrived, unwritten, bufferVars, loopVars>>

onConnect ==
    /\ callback = "onConnect"
    /\ callback' = "idle"
    /\ UNCHANGED <<sketch, connected, advertising, arrived, unwritten, bufferVars, loopVars>>

Disconnect ==
    /\ callback = "idle" /\ connected
    /\ connected' = FALSE
    /\ callback' = "onDisconnect"
    /\ UNCHANGED <<sketch, advertising, arrived, unwritten, bufferVars, loopVars>>

onDisconnect ==
    /\ callback = "onDisconnect"
    /\ callback' = "idle" /\ advertising' = TRUE
    /\ UNCHANGED <<sketch, connected, arrived, unwritten, bufferVars, loopVars>>

\* What a string operation in or after a race may leave, a characters having arrived.
Torn(a) == UNION {[1..n -> 0..a] : n \in 0..a}

\* onWrite begins to copy the buffer, to append k characters to the copy and to
\* assign it: a race if loop is reading.
Written(k) ==
    /\ callback = "idle" /\ connected
    /\ arrived + k <= MaxChars
    /\ arrived' = arrived + k /\ unwritten' = k
    /\ callback' = "writing"
    /\ raced' = (raced \/ loop = "erase")
    /\ UNCHANGED <<sketch, connected, advertising, receiveBuffer, loopVars>>

onWrite ==
    /\ callback = "writing"
    /\ callback' = "idle" /\ unwritten' = 0
    /\ receiveBuffer' \in
          IF raced THEN Torn(arrived)
          ELSE {receiveBuffer \o After(arrived - unwritten, unwritten)}
    /\ UNCHANGED <<sketch, connected, advertising, arrived, raced, loopVars>>

\* A power cycle, or a fault on what a race has left.
NodeRestart ==
    /\ connected' = FALSE /\ advertising' = TRUE /\ callback' = "idle"
    /\ arrived' = 0 /\ unwritten' = 0
    /\ receiveBuffer' = <<>> /\ raced' = FALSE
    /\ loop' = "available" /\ incomingChar' = 0
    /\ notified' = [letter |-> "none"]
    /\ UNCHANGED sketch
-----------------------------------------------------------------------------
\* loop.

\* The length, while onWrite assigns the string, is the old or the new one.
available ==
    /\ loop = "available"
    /\ loop' \in (IF receiveBuffer = <<>> THEN {"report"} ELSE {"read"})
                   \cup (IF callback = "writing" THEN {"report", "read"} ELSE {})
    /\ UNCHANGED <<sketch, bleVars, bufferVars, incomingChar, notified>>

\* read takes the first character and begins to erase it: a race if onWrite is
\* at work.
read ==
    /\ loop = "read"
    /\ loop' = "erase"
    /\ raced' = (raced \/ callback = "writing")
    /\ incomingChar' \in IF raced' THEN 0..arrived ELSE {Head(receiveBuffer)}
    /\ UNCHANGED <<sketch, bleVars, receiveBuffer, notified>>

erase ==
    /\ loop = "erase"
    /\ loop' = "report"
    /\ receiveBuffer' \in IF raced THEN Torn(arrived) ELSE {Tail(receiveBuffer)}
    /\ UNCHANGED <<sketch, bleVars, raced, incomingChar, notified>>

Report == [frame \in Seen |-> [header |-> "04", colour |-> computeAverageColor(frame)]]

\* captureAndProcessImage: one notification with the header and the colour, if
\* the camera gives a frame and a device is connected.
captureAndProcessImage ==
    /\ sketch = "demo" /\ loop = "report"
    /\ loop' = "available"
    /\ \/ UNCHANGED notified
       \/ \E frame \in Seen :
            connected /\ notified' = Report[frame]
    /\ UNCHANGED <<sketch, bleVars, bufferVars, incomingChar>>

\* The test sketch pings at most every five seconds, a notification for each
\* character; a connection lost in between loses the rest.
Ping ==
    /\ sketch = "test" /\ loop = "report"
    /\ loop' \in {"available"} \cup (IF connected THEN {"P"} ELSE {})
    /\ UNCHANGED <<sketch, bleVars, bufferVars, incomingChar, notified>>

write ==
    /\ loop \in {"P", "i", "n", "g"}
    /\ loop' = [P |-> "i", i |-> "n", n |-> "g", g |-> "available"][loop]
    /\ notified' = IF connected THEN [letter |-> loop] ELSE notified
    /\ UNCHANGED <<sketch, bleVars, bufferVars, incomingChar>>

Loop == available \/ read \/ erase \/ captureAndProcessImage \/ Ping \/ write

NNext ==
    \/ Connect \/ onConnect \/ Disconnect \/ onDisconnect
    \/ (\E k \in 1..MaxWrite : Written(k)) \/ onWrite
    \/ Loop \/ NodeRestart

NSpec == NInit /\ [][NNext]_nodeVars
-----------------------------------------------------------------------------
\* The last character loop has taken off the buffer.
Erased == IF loop = "erase" THEN incomingChar - 1 ELSE incomingChar

\* Only the overlap loses characters: as long as onWrite and loop have not been in
\* the string at the same time, what loop has read is followed in the buffer by
\* what else has arrived, in order, complete and without repetition, also when
\* one runs between two accesses of the other.
InOrderUnlessRaced ==
    ~raced => receiveBuffer = After(Erased, arrived - unwritten - Erased)

\* The exact value of colour k, in millionths.
ExactColour(y, u, v, k) ==
    LET m == Millionths(y, u, v)[k]
    IN  IF m < 0 THEN 0 ELSE IF m > 255 * Million THEN 255 * Million ELSE m

\* The exact sum over both pixels of every sample of colour k, in millionths.
ExactPair(s, k) == ExactColour(s.Y1, s.U, s.V, k) + ExactColour(s.Y2, s.U, s.V, k)

ExactSum(frame, k) == SumOf([i \in 1..Len(frame) |-> ExactPair(frame[i], k)])

\* What the camera reports of a frame, in the eight bits and the whole numbers
\* it is computed in, is never above the exact means of the colours of the pixels
\* sampled, each between 0 and 255, and less than two below.
AverageIsMean ==
    \A frame \in Seen : notified = Report[frame] =>
        \A k \in Colour :
            LET pixels == 2 * Len(frame)
                error == Million * pixels * notified.colour[k] - ExactSum(frame, k)
            IN  -2 * Million * pixels < error /\ error <= 0
-----------------------------------------------------------------------------
\* What the code does not keep: with no lock, loop may skip characters, read one
\* twice or read one that was never sent.
NoCharSkipped == [][incomingChar' \in {incomingChar, incomingChar + 1}]_nodeVars
=============================================================================
