---------------------------- MODULE RaspberryPi -----------------------------
(***************************************************************************)
(* The Raspberry Pi of the train: control.py, which replaces and restarts    *)
(* A.py; A.py itself in the form of Demo_v2_smart.py, with its loop and its  *)
(* MQTT thread; and WriteValue of uart_peripheral.py, which leaves what      *)
(* comes over BLE in datafile.txt.                                           *)
(*                                                                         *)
(* Files survive a power failure, but what was written and not yet synced    *)
(* may not.  The MQTT thread of A.py and its loop interleave between any two *)
(* statements; the sensor callback only measures laps and is left out.       *)
(* Of a program that outlived the control.py that had started it only its     *)
(* hold on the motor is kept.                                                *)
(***************************************************************************)
EXTENDS Integers

CONSTANTS
    Speed,  \* the program's speed, 50 in Demo_v2_smart.py
    Shade,  \* values of a colour component
    MaxKills \* bound on the kills of control.py that leave its A.py running

\* What comes as a shade of a colour, the average of the ESP32, is a byte.
Byte == 0..255

ASSUME TrainAssumption == Shade \subseteq Byte /\ MaxKills \in Nat

File == {"A.py", "A_backup.py"}

\* "unsynced": complete for readers, lost in part by a power failure.
FileState == {"missing", "partial", "unsynced", "intact"}

Datum == {"None", "Red", "Green", "Blue", "bad"}

Goal == {"", "RUN", "STOP", "APPLE", "LIME", "BLUEBERRY"}

VARIABLES
    file,        \* state of the two program files
    control,     \* where control.py is
    orphans,     \* A.py processes no control.py knows of (any longer)
    abandoned,   \* (history) kills of control.py since power-on that left an A.py
    train,       \* where the loop of control.py's own A.py is
    callback,    \* where on_message of A.py is
    CommandGoal,
    colour,      \* colour read in this round of the loop
    moving,      \* the motor turns
    subscribed,  \* the broker sends A.py its commands
    datafile,    \* colour in datafile.txt, or "bad" if it is no colour
    writing,     \* WriteValue has truncated the file and not yet written it
    begun_broken \* (history) an update began while A.py was not intact

updateVars == <<file, control, begun_broken>>
bleVars == <<datafile, writing>>
orphanVars == <<orphans, abandoned>>
trainVars == <<orphanVars, train, callback, CommandGoal, colour, moving, subscribed>>
vars == <<updateVars, bleVars, trainVars>>

Init ==
    /\ file = [f \in File |-> "intact"]
    /\ control = "off" /\ begun_broken = FALSE
    /\ orphans = 0 /\ abandoned = 0 /\ train = "off" /\ callback = "idle"
    /\ CommandGoal = "" /\ colour = "None"
    /\ moving = FALSE /\ subscribed = FALSE
    /\ datafile = "None" /\ writing = FALSE
-----------------------------------------------------------------------------
\* A variant with a mistake, not used: bright green always wins.
detect_color_green_first(r, g, b) ==
    IF g >= 150 THEN "Green" ELSE IF r >= 150 THEN "Red" ELSE IF b >= 150 THEN "Blue" ELSE "None"

\* Of the components in range(150, 256) the largest counts, but ties are broken
\* in the order the code compares them.
detect_color(r, g, b) ==
    LET bright == 150..255
        red == r \in bright
        green == g \in bright
        blue == b \in bright
    IN  CASE red /\ ~green /\ ~blue -> "Red"
          [] green /\ ~red /\ ~blue -> "Green"
          [] blue /\ ~red /\ ~green -> "Blue"
          [] red /\ green /\ ~blue -> IF r > g THEN "Red" ELSE "Green"
          [] red /\ ~green /\ blue -> IF r > b THEN "Red" ELSE "Blue"
          [] ~red /\ green /\ blue -> IF b > g THEN "Blue" ELSE "Green"
          [] red /\ green /\ blue -> IF b > g /\ b > r THEN "Blue"
                                     ELSE IF g > b /\ g > r THEN "Green" ELSE "Red"
          [] OTHER -> "None"

GoalColour(c) == CASE c = "Red" -> "APPLE" [] c = "Green" -> "LIME"
                   [] c = "Blue" -> "BLUEBERRY" [] OTHER -> "no fruit"

\* A speed out of range stops the motor.
motor_go == moving' = (Speed \in 0..100)

Runs(f) == file[f] \in {"unsynced", "intact"}

\* What A.py holds before its first step and after its last.
TrainAt(l) ==
    /\ train' = l /\ callback' = "idle"
    /\ CommandGoal' = "" /\ colour' = "None" /\ subscribed' = FALSE

\* A program ends: by an exception the motor is stopped in finally, by a
\* signal its pin stays as the software PWM left it.
TrainEnds(motor) ==
    /\ TrainAt("off")
    /\ moving' \in motor
    /\ UNCHANGED orphanVars

\* Popen: a file that does not run ends at once; one that does stops the
\* motor first of all (pwm.start(0)).  a_py_process then names the new program
\* only, whether or not the earlier one still runs.
TrainStarts ==
    IF Runs("A.py")
    THEN /\ TrainAt("setup")
         /\ orphans' = orphans + (IF train = "off" THEN 0 ELSE 1)
         /\ moving' = FALSE
         /\ UNCHANGED abandoned
    ELSE UNCHANGED trainVars
-----------------------------------------------------------------------------
\* Variants with a mistake in them; no action of the system uses them.
RemoveKeepsGoing ==
    /\ control = "remove"
    /\ control' = "open"
    /\ file' = [file EXCEPT !["A_backup.py"] = "missing"]
    /\ UNCHANGED <<begun_broken, bleVars, trainVars>>

MessageWithoutTerminate ==
    /\ control = "listening"
    /\ control' = "remove"
    /\ begun_broken' = (begun_broken \/ file["A.py"] # "intact")
    /\ UNCHANGED <<file, bleVars, trainVars>>

StopTestOnlyReports ==
    /\ train = "stop?"
    /\ train' = "read"
    /\ UNCHANGED <<updateVars, bleVars, orphanVars, callback, CommandGoal, colour, moving, subscribed>>
-----------------------------------------------------------------------------
\* control.py.

Start ==
    /\ control = "off"
    /\ \/ control' = "dead" /\ UNCHANGED trainVars  \* no broker: connect raises
       \/ control' = "listening" /\ TrainStarts
    /\ UNCHANGED <<file, begun_broken, bleVars>>

\* on_message: terminate A.py if it still runs, and wait for its end.
Terminate ==
    /\ control = "listening"
    /\ control' = "remove"
    /\ begun_broken' = (begun_broken \/ file["A.py"] # "intact")
    /\ IF train # "off" THEN TrainEnds({moving, FALSE}) ELSE UNCHANGED trainVars
    /\ UNCHANGED <<file, bleVars>>

\* A file that is not there raises, and control.py ends.
RemoveBackup ==
    /\ control = "remove"
    /\ IF file["A_backup.py"] = "missing"
       THEN control' = "dead" /\ UNCHANGED file
       ELSE /\ control' = "rename"
            /\ file' = [file EXCEPT !["A_backup.py"] = "missing"]
    /\ UNCHANGED <<begun_broken, bleVars, trainVars>>

Rename ==
    /\ control = "rename"
    /\ IF file["A.py"] = "missing"
       THEN control' = "dead" /\ UNCHANGED file
       ELSE /\ control' = "open"
            /\ file' = [f \in File |-> IF f = "A.py" THEN "missing" ELSE file["A.py"]]
    /\ UNCHANGED <<begun_broken, bleVars, trainVars>>

Open ==
    /\ control = "open"
    /\ control' = "write"
    /\ file' = [file EXCEPT !["A.py"] = "partial"]
    /\ UNCHANGED <<begun_broken, bleVars, trainVars>>

\* The payload is decoded after the file is opened; an error leaves it empty.
Write ==
    /\ control = "write"
    /\ \/ control' = "popen" /\ file' = [file EXCEPT !["A.py"] = "unsynced"]
       \/ control' = "dead" /\ UNCHANGED file
    /\ UNCHANGED <<begun_broken, bleVars, trainVars>>

Popen ==
    /\ control = "popen"
    /\ control' = "listening"
    /\ TrainStarts
    /\ UNCHANGED <<file, begun_broken, bleVars>>

Synced(f) ==
    /\ file[f] = "unsynced"
    /\ file' = [file EXCEPT ![f] = "intact"]
    /\ UNCHANGED <<control, begun_broken, bleVars, trainVars>>

\* control.py is killed at any point.  Its A.py runs on without it, unless it
\* was ended by the same interrupt (Ctrl-C reaches both, and finally stops the
\* motor).
Killed ==
    /\ control \notin {"off", "dead"}
    /\ control' = "dead"
    /\ \/ train = "off" /\ UNCHANGED trainVars
       \/ train # "off" /\ TrainEnds({FALSE})
       \/ /\ train # "off" /\ abandoned < MaxKills
          /\ orphans' = orphans + 1 /\ abandoned' = abandoned + 1
          /\ TrainAt("off") /\ UNCHANGED moving
    /\ UNCHANGED <<file, begun_broken, bleVars>>

\* A program left behind drives the motor as its loop and its commands have
\* it, and may end.
OrphanActs ==
    /\ orphans > 0
    /\ orphans' \in {orphans, orphans - 1}
    /\ moving' \in BOOLEAN
    /\ UNCHANGED <<updateVars, bleVars, abandoned, train, callback, CommandGoal, colour, subscribed>>

\* Somebody starts control.py again; it knows of no earlier A.py.
Restart ==
    /\ control = "dead"
    /\ control' = "off"
    /\ UNCHANGED <<file, begun_broken, bleVars, trainVars>>

PowerFailure ==
    /\ control' = "off"
    /\ \E lost \in SUBSET {f \in File : file[f] = "unsynced"} :
        file' = [f \in File |-> IF f \in lost THEN "partial" ELSE file[f]]
    /\ TrainAt("off") /\ orphans' = 0 /\ abandoned' = 0
    /\ moving' = FALSE /\ writing' = FALSE
    /\ UNCHANGED <<begun_broken, datafile>>
-----------------------------------------------------------------------------
\* A.py: start-up and the loop.

\* Connect, start the MQTT thread and subscribe once; connect may raise.
Setup ==
    /\ train = "setup"
    /\ \/ TrainEnds({FALSE})
       \/ /\ train' = "read" /\ subscribed' = TRUE
          /\ UNCHANGED <<orphanVars, callback, CommandGoal, colour, moving>>
    /\ UNCHANGED <<updateVars, bleVars>>

LoopAt(l, next) == train = l /\ train' = next

\* Text that is no colour raises ValueError or IndexError.
ReadColour ==
    /\ \/ train = "read" /\ datafile = "bad" /\ TrainEnds({FALSE})
       \/ /\ datafile # "bad" /\ LoopAt("read", "fruit?")
          /\ colour' = datafile
          /\ UNCHANGED <<orphanVars, callback, CommandGoal, moving, subscribed>>
    /\ UNCHANGED <<updateVars, bleVars>>

\* At the fruit of the goal: stop, and sleep three seconds.
FruitTest ==
    /\ \/ CommandGoal = GoalColour(colour) /\ LoopAt("fruit?", "asleep") /\ moving' = FALSE
       \/ CommandGoal # GoalColour(colour) /\ LoopAt("fruit?", "run?") /\ UNCHANGED moving
    /\ colour' = "None"
    /\ UNCHANGED <<updateVars, bleVars, orphanVars, callback, CommandGoal, subscribed>>

WakeUp ==
    /\ LoopAt("asleep", "run?")
    /\ motor_go
    /\ UNCHANGED <<updateVars, bleVars, orphanVars, callback, CommandGoal, colour, subscribed>>

RunTest ==
    /\ LoopAt("run?", IF CommandGoal = "RUN" THEN "go" ELSE "stop?")
    /\ UNCHANGED <<updateVars, bleVars, orphanVars, callback, CommandGoal, colour, moving, subscribed>>

Go ==
    /\ LoopAt("go", "stop?")
    /\ motor_go
    /\ UNCHANGED <<updateVars, bleVars, orphanVars, callback, CommandGoal, colour, subscribed>>

StopTest ==
    /\ LoopAt("stop?", IF CommandGoal = "STOP" THEN "halt" ELSE "read")
    /\ UNCHANGED <<updateVars, bleVars, orphanVars, callback, CommandGoal, colour, moving, subscribed>>

Halt ==
    /\ LoopAt("halt", "read")
    /\ moving' = FALSE
    /\ UNCHANGED <<updateVars, bleVars, orphanVars, callback, CommandGoal, colour, subscribed>>

TrainLoop ==
    Setup \/ ReadColour \/ FruitTest \/ WakeUp \/ RunTest \/ Go \/ StopTest \/ Halt
-----------------------------------------------------------------------------
\* A.py: on_message, in the MQTT thread.

\* RUN sets the goal and then starts the motor, STOP stops it and then sets
\* the goal; the colours only set the goal.
CommandBegins(c) ==
    /\ train \notin {"off", "setup"} /\ subscribed /\ callback = "idle"
    /\ CASE c = "RUN" -> callback' = "RUN" /\ CommandGoal' = "RUN" /\ UNCHANGED moving
         [] c = "STOP" -> callback' = "STOP" /\ moving' = FALSE /\ UNCHANGED CommandGoal
         [] OTHER -> CommandGoal' = c /\ UNCHANGED <<callback, moving>>
    /\ UNCHANGED <<updateVars, bleVars, orphanVars, train, colour, subscribed>>

CommandEnds ==
    /\ \/ callback = "RUN" /\ motor_go /\ UNCHANGED CommandGoal
       \/ callback = "STOP" /\ CommandGoal' = "STOP" /\ UNCHANGED moving
    /\ callback' = "idle"
    /\ UNCHANGED <<updateVars, bleVars, orphanVars, train, colour, subscribed>>

\* paho connects again, but only main subscribes: later commands are lost.
SessionLost ==
    /\ subscribed
    /\ subscribed' = FALSE
    /\ UNCHANGED <<updateVars, bleVars, orphanVars, train, callback, CommandGoal, colour, moving>>
-----------------------------------------------------------------------------
\* WriteValue: open for writing, then write; an image gives a colour, any
\* other text but the greeting gives none.
WriteValueOpens ==
    /\ ~writing
    /\ writing' = TRUE /\ datafile' = "None"
    /\ UNCHANGED <<updateVars, trainVars>>

WriteValueEnds ==
    /\ writing
    /\ writing' = FALSE
    /\ \/ \E r, g, b \in Shade : datafile' = detect_color(r, g, b)
       \/ datafile' \in {"None", "bad"}
    /\ UNCHANGED <<updateVars, trainVars>>

Update == Terminate \/ RemoveBackup \/ Rename \/ Open \/ Write \/ Popen

Next ==
    \/ Start \/ Update \/ Killed \/ Restart \/ PowerFailure \/ OrphanActs
    \/ \E f \in File : Synced(f)
    \/ TrainLoop
    \/ \E c \in Goal \ {""} : CommandBegins(c)
    \/ CommandEnds \/ SessionLost
    \/ WriteValueOpens \/ WriteValueEnds

Spec == Init /\ [][Next]_vars

\* Both threads of A.py run.
FairSpec == Spec /\ WF_vars(TrainLoop) /\ WF_vars(CommandEnds)
-----------------------------------------------------------------------------
UpdateType ==
    /\ file \in [File -> FileState]
    /\ control \in {"off", "dead", "listening", "remove", "rename", "open", "write", "popen"}
    /\ begun_broken \in BOOLEAN

BleType == datafile \in Datum /\ writing \in BOOLEAN

TrainType ==
    /\ orphans \in 0..MaxKills /\ abandoned \in 0..MaxKills
    /\ train \in {"off", "setup", "read", "fruit?", "asleep", "run?", "go", "stop?", "halt"}
    /\ callback \in {"idle", "RUN", "STOP"}
    /\ CommandGoal \in Goal /\ colour \in Datum
    /\ moving \in BOOLEAN /\ subscribed \in BOOLEAN

RTypeOK == UpdateType /\ BleType /\ TrainType

\* Some complete program stays on disk through power failures at any step of
\* an update and through errors that end control.py, unless an update is begun
\* while A.py is missing, damaged or not yet synced.
ProgramKept == ~begun_broken => \E f \in File : Runs(f)

\* No second program drives the motor, but for those that a kill of control.py
\* left running: wherever control.py ends by an exception and is started again,
\* and in every update, the earlier A.py is gone before a new one starts.
OneTrain == orphans <= abandoned

\* If the goal is STOP for good and no other program is left to drive the
\* motor, the motor stops for good, though the loop may
\* have been asleep at a fruit, or between the test for RUN and the motor,
\* when the command came.
StopPrevails ==
    <>[](train # "off" /\ orphans = 0 /\ CommandGoal = "STOP" /\ callback = "idle")
        => <>[]~moving

\* Whatever the shades that the colour in the file was found from, it is bright
\* and no other is brighter, unless the two others are equally bright and
\* brighter (then it is "Red").
ColourIsDominant ==
    \A r, g, b \in Shade :
        LET v == [Red |-> r, Green |-> g, Blue |-> b]
        IN  datafile = detect_color(r, g, b) =>
                IF datafile = "None" THEN \A k \in DOMAIN v : v[k] < 150
                ELSE /\ v[datafile] >= 150
                     /\ \/ \A k \in DOMAIN v : v[k] <= v[datafile]
                        \/ datafile = "Red" /\ g = b
=============================================================================
