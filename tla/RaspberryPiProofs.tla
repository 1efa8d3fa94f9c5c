------------------------- MODULE RaspberryPiProofs -------------------------
(***************************************************************************)
(* The Raspberry Pi, for every set of shades, every speed and any number of   *)
(* kills of control.py: no train program beside its own but those the kills    *)
(* left, a program left on disk, and the colour that dominates.               *)
(***************************************************************************)
EXTENDS RaspberryPi, TLAPS

\* Only while control.py waits for messages can its A.py be running, so none is
\* forgotten when the next one starts.
TrainWhileListening ==
    /\ control # "listening" => train = "off"
    /\ orphans <= abandoned

\* Which program file survives a power failure at each point of an update.
IntactSomewhere ==
    ~begun_broken =>
        /\ \E f \in File : file[f] = "intact"
        /\ control \in {"remove", "rename"} => file["A.py"] = "intact"
        /\ control \in {"open", "write", "popen"} => file["A_backup.py"] = "intact"

IInv == RTypeOK /\ TrainWhileListening /\ IntactSomewhere
-----------------------------------------------------------------------------
\* Of any three shades one dominates or all are dark.
LEMMA Dominant ==
  ASSUME NEW r \in Byte, NEW g \in Byte, NEW b \in Byte
  PROVE  LET c == detect_color(r, g, b)
         IN  \/ c = "None" /\ r < 150 /\ g < 150 /\ b < 150
             \/ c = "Red" /\ r >= 150 /\ ((g <= r /\ b <= r) \/ g = b)
             \/ c = "Green" /\ g >= 150 /\ r <= g /\ b <= g
             \/ c = "Blue" /\ b >= 150 /\ r <= b /\ g <= b
<1>1. ASSUME NEW x \in Byte PROVE x \in Int /\ (x \in 150..255) = (x >= 150)
  BY DEF Byte
<1>2. r \in Int /\ g \in Int /\ b \in Int
  BY <1>1
<1>3. /\ (r \in 150..255) = (r >= 150)
      /\ (g \in 150..255) = (g >= 150)
      /\ (b \in 150..255) = (b >= 150)
  BY <1>1
<1> QED
  BY ONLY <1>2, <1>3 DEF detect_color

\* Shades that detect_color calls c, with c bright and no other brighter, but
\* for the tie of the two others that gives "Red".
LEMMA FoundIsDominant ==
  ASSUME NEW r \in Byte, NEW g \in Byte, NEW b \in Byte, NEW c, c = detect_color(r, g, b),
         NEW v, v = [Red |-> r, Green |-> g, Blue |-> b]
  PROVE  IF c = "None" THEN \A k \in DOMAIN v : v[k] < 150
         ELSE v[c] >= 150 /\ ((\A k \in DOMAIN v : v[k] <= v[c]) \/ (c = "Red" /\ g = b))
<1>1. \/ c = "None" /\ r < 150 /\ g < 150 /\ b < 150
      \/ c = "Red" /\ r >= 150 /\ ((g <= r /\ b <= r) \/ g = b)
      \/ c = "Green" /\ g >= 150 /\ r <= g /\ b <= g
      \/ c = "Blue" /\ b >= 150 /\ r <= b /\ g <= b
  BY Dominant
<1>2. DOMAIN v = {"Red", "Green", "Blue"} /\ v["Red"] = r /\ v["Green"] = g /\ v["Blue"] = b
  OBVIOUS
<1>3. CASE c = "None"
  BY ONLY <1>1, <1>2, <1>3
<1>4. CASE c = "Red"
  BY ONLY <1>1, <1>2, <1>4, r \in Byte, g \in Byte, b \in Byte DEF Byte
<1>5. CASE c = "Green"
  BY ONLY <1>1, <1>2, <1>5, r \in Byte, g \in Byte, b \in Byte DEF Byte
<1>6. CASE c = "Blue"
  BY ONLY <1>1, <1>2, <1>6, r \in Byte, g \in Byte, b \in Byte DEF Byte
<1> QED
  BY ONLY <1>1, <1>3, <1>4, <1>5, <1>6

\* The colour left in the file is the brightest of the bright components of
\* whatever shades of a byte it was found from.
THEOREM ColourIsRight == Spec => []ColourIsDominant
<1>1. ColourIsDominant
  <2>1. \A r, g, b \in Shade : r \in Byte /\ g \in Byte /\ b \in Byte
    BY TrainAssumption DEF TrainAssumption
  <2> QED
    BY <2>1, FoundIsDominant DEF ColourIsDominant
<1> QED
  BY <1>1, PTL
-----------------------------------------------------------------------------
\* The state control.py is first started in.
LEMMA InitIInv == Init => IInv
<1> SUFFICES ASSUME Init PROVE IInv
  OBVIOUS
<1>1. UpdateType /\ BleType
  BY DEF Init, UpdateType, BleType, FileState, Datum
<1>2. orphans = 0 /\ abandoned = 0 /\ MaxKills \in Nat
  BY TrainAssumption DEF Init, TrainAssumption
<1>3. TrainType
  <2>1. orphans \in 0..MaxKills /\ abandoned \in 0..MaxKills
    BY <1>2
  <2> QED
    BY <2>1 DEF Init, TrainType, Goal, Datum
<1>4. TrainWhileListening
  <2>1. orphans <= abandoned
    BY <1>2
  <2> QED
    BY <2>1 DEF Init, TrainWhileListening
<1>5. IntactSomewhere
  BY DEF Init, IntactSomewhere, File
<1> QED
  BY <1>1, <1>3, <1>4, <1>5 DEF IInv, RTypeOK

\* A call of motor_go sets the motor one way or the other.
LEMMA MotorType == motor_go => moving' \in BOOLEAN
  BY DEF motor_go

\* An A.py that is started when the earlier one has ended, and one that ends.
LEMMA StartType ==
  ASSUME IInv, train = "off", TrainStarts
  PROVE  TrainType' /\ UNCHANGED orphanVars
<1>1. CASE Runs("A.py")
  <2>1. orphans' = orphans /\ abandoned' = abandoned
    BY <1>1, TrainAssumption DEF TrainStarts, IInv, RTypeOK, TrainType, TrainAssumption
  <2> QED
    BY <1>1, <2>1 DEF TrainStarts, TrainAt, orphanVars, TrainType, Goal, Datum, IInv, RTypeOK
<1>2. CASE ~Runs("A.py")
  BY <1>2 DEF TrainStarts, trainVars, orphanVars, TrainType, IInv, RTypeOK
<1> QED
  BY <1>1, <1>2

\* It leaves the types as they are.
LEMMA EndType ==
  ASSUME IInv, NEW motor \in SUBSET BOOLEAN, TrainEnds(motor)
  PROVE  TrainType' /\ train' = "off" /\ UNCHANGED orphanVars
  BY DEF TrainEnds, TrainAt, orphanVars, TrainType, Goal, Datum, IInv, RTypeOK
-----------------------------------------------------------------------------
\* The steps of control.py.
LEMMA ControlIInv ==
  ASSUME IInv, Start \/ Update \/ Killed \/ Restart \/ PowerFailure
  PROVE  IInv'
<1> USE DEF IInv, RTypeOK
<1>1. CASE Start
  <2>1. BleType' /\ TrainType' /\ UNCHANGED orphanVars
    BY <1>1, StartType
    DEF Start, bleVars, trainVars, orphanVars, BleType, TrainType, TrainWhileListening
  <2>2. TrainWhileListening'
    BY <1>1, <2>1 DEF Start, trainVars, orphanVars, TrainWhileListening
  <2>3. UpdateType' /\ IntactSomewhere'
    BY <1>1 DEF Start, UpdateType, IntactSomewhere
  <2> QED
    BY <2>1, <2>2, <2>3
<1>2. CASE Terminate
  <2>1. BleType' /\ TrainType' /\ train' = "off" /\ UNCHANGED orphanVars
    <3>1. CASE TrainEnds({moving, FALSE})
      BY <1>2, <3>1, EndType DEF Terminate, bleVars, BleType, TrainType
    <3>2. CASE train = "off" /\ UNCHANGED trainVars
      BY <1>2, <3>2 DEF Terminate, bleVars, trainVars, orphanVars, BleType, TrainType
    <3> QED
      BY <1>2, <3>1, <3>2 DEF Terminate
  <2>2. TrainWhileListening' /\ UpdateType'
    BY <1>2, <2>1 DEF Terminate, orphanVars, TrainWhileListening, UpdateType
  <2>3. IntactSomewhere'
    BY <1>2 DEF Terminate, IntactSomewhere, UpdateType
  <2> QED
    BY <2>1, <2>2, <2>3
<1>3. ASSUME RemoveBackup \/ Rename \/ Open \/ Write \/ Restart
      PROVE  IInv'
  <2>1. BleType' /\ TrainType' /\ TrainWhileListening'
    BY <1>3 DEF RemoveBackup, Rename, Open, Write, Restart, bleVars, trainVars, orphanVars,
                BleType, TrainType, TrainWhileListening
  <2>2. UpdateType'
    BY <1>3 DEF RemoveBackup, Rename, Open, Write, Restart, UpdateType, File, FileState
  <2>3. IntactSomewhere'
    BY <1>3 DEF RemoveBackup, Rename, Open, Write, Restart, UpdateType, File, IntactSomewhere
  <2> QED
    BY <2>1, <2>2, <2>3
<1>4. CASE Popen
  <2>1. BleType' /\ TrainType' /\ UNCHANGED orphanVars
    BY <1>4, StartType DEF Popen, bleVars, BleType, TrainWhileListening
  <2>2. TrainWhileListening' /\ UpdateType' /\ IntactSomewhere'
    BY <1>4, <2>1 DEF Popen, orphanVars, TrainWhileListening, UpdateType, IntactSomewhere
  <2> QED
    BY <2>1, <2>2
<1>5. CASE PowerFailure
  <2>1. BleType' /\ orphans' = 0 /\ abandoned' = 0
    BY <1>5 DEF PowerFailure, BleType
  <2>2. TrainWhileListening' /\ TrainType'
    <3>1. orphans' \in 0..MaxKills /\ abandoned' \in 0..MaxKills /\ orphans' <= abandoned'
      BY <2>1, TrainAssumption DEF TrainAssumption
    <3> QED
      BY <1>5, <3>1 DEF PowerFailure, TrainAt, TrainWhileListening, TrainType, Goal, Datum
  <2>3. PICK lost \in SUBSET {f \in File : file[f] = "unsynced"} :
            file' = [f \in File |-> IF f \in lost THEN "partial" ELSE file[f]]
    BY <1>5 DEF PowerFailure
  <2>4. UpdateType'
    BY <1>5, <2>3 DEF PowerFailure, UpdateType, FileState
  <2>5. IntactSomewhere'
    BY <1>5, <2>3 DEF PowerFailure, UpdateType, IntactSomewhere
  <2> QED
    BY <2>1, <2>2, <2>4, <2>5
<1>6. CASE Killed
  <2>1. BleType' /\ UpdateType' /\ IntactSomewhere'
    BY <1>6 DEF Killed, bleVars, BleType, UpdateType, IntactSomewhere
  <2>2. TrainType' /\ train' = "off" /\ orphans' <= abandoned'
    <3>1. CASE train = "off" /\ UNCHANGED trainVars
      BY <3>1 DEF trainVars, orphanVars, TrainType, TrainWhileListening
    <3>2. CASE TrainEnds({FALSE})
      BY <3>2, EndType DEF orphanVars, TrainWhileListening
    <3>3. CASE /\ abandoned < MaxKills /\ orphans' = orphans + 1 /\ abandoned' = abandoned + 1
               /\ TrainAt("off") /\ UNCHANGED moving
      <4>1. orphans' \in 0..MaxKills /\ abandoned' \in 0..MaxKills /\ orphans' <= abandoned'
        BY <3>3, TrainAssumption DEF TrainAssumption, TrainType, TrainWhileListening
      <4> QED
        BY <3>3, <4>1 DEF TrainAt, TrainType, Goal, Datum
    <3> QED
      BY <1>6, <3>1, <3>2, <3>3 DEF Killed
  <2> QED
    BY <2>1, <2>2 DEF TrainWhileListening
<1> QED
  BY <1>1, <1>2, <1>3, <1>4, <1>5, <1>6 DEF Update

\* A write that reaches the disk.
LEMMA SyncIInv ==
  ASSUME IInv, NEW f \in File, Synced(f)
  PROVE  IInv'
<1>1. BleType' /\ TrainType' /\ TrainWhileListening'
  BY DEF Synced, bleVars, trainVars, orphanVars, IInv, RTypeOK, BleType, TrainType,
         TrainWhileListening
<1>2. UpdateType' /\ IntactSomewhere'
  BY DEF Synced, IInv, RTypeOK, UpdateType, IntactSomewhere, File, FileState
<1> QED
  BY <1>1, <1>2 DEF IInv, RTypeOK

\* The steps of A.py, of a program left behind and of what comes over BLE start
\* no program and change no file of a program.
LEMMA TrainIInv ==
  ASSUME IInv, \/ TrainLoop \/ CommandEnds \/ SessionLost \/ OrphanActs
               \/ \E c \in Goal \ {""} : CommandBegins(c)
               \/ WriteValueOpens \/ WriteValueEnds
  PROVE  IInv'
<1> USE DEF IInv, RTypeOK
<1>1. ASSUME UNCHANGED <<updateVars, bleVars>>, TrainType', train = "off" => train' = "off",
             orphans' <= abandoned'
      PROVE  IInv'
  <2>1. UpdateType' /\ BleType' /\ IntactSomewhere'
    BY <1>1 DEF updateVars, bleVars, UpdateType, BleType, IntactSomewhere
  <2>2. TrainWhileListening'
    BY <1>1 DEF updateVars, TrainWhileListening
  <2> QED
    BY <1>1, <2>1, <2>2
<1>2. ASSUME NEW motor \in SUBSET BOOLEAN, TrainEnds(motor), UNCHANGED <<updateVars, bleVars>>
      PROVE  IInv'
  BY <1>1, <1>2, EndType DEF orphanVars, TrainWhileListening
<1>3. CASE Setup
  <2>1. CASE TrainEnds({FALSE})
    BY <1>2, <1>3, <2>1 DEF Setup
  <2>2. CASE ~TrainEnds({FALSE})
    BY <1>1, <1>3, <2>2 DEF Setup, TrainType, orphanVars, TrainWhileListening
  <2> QED
    BY <2>1, <2>2
<1>4. CASE ReadColour
  <2>1. CASE TrainEnds({FALSE})
    BY <1>2, <1>4, <2>1 DEF ReadColour
  <2>2. CASE ~TrainEnds({FALSE})
    BY <1>1, <1>4, <2>2 DEF ReadColour, LoopAt, TrainType, BleType, orphanVars, TrainWhileListening
  <2> QED
    BY <2>1, <2>2
<1>5. CASE FruitTest \/ Halt
  BY <1>1, <1>5 DEF FruitTest, Halt, LoopAt, TrainType, Datum, orphanVars, TrainWhileListening
<1>6. CASE WakeUp \/ Go
  BY <1>1, <1>6, MotorType DEF WakeUp, Go, LoopAt, TrainType, orphanVars, TrainWhileListening
<1>7. CASE RunTest \/ StopTest
  BY <1>1, <1>7 DEF RunTest, StopTest, LoopAt, TrainType, orphanVars, TrainWhileListening
<1>8. CASE CommandEnds
  BY <1>1, <1>8, MotorType DEF CommandEnds, TrainType, Goal, orphanVars, TrainWhileListening
<1>9. CASE SessionLost
  BY <1>1, <1>9 DEF SessionLost, TrainType, orphanVars, TrainWhileListening
<1>10. ASSUME NEW c \in Goal \ {""}, CommandBegins(c)
       PROVE  IInv'
  <2>1. CommandGoal' \in Goal /\ callback' \in {"idle", "RUN", "STOP"} /\ moving' \in BOOLEAN
    BY <1>10 DEF CommandBegins, Goal, TrainType
  <2> QED
    BY <1>1, <1>10, <2>1 DEF CommandBegins, TrainType, orphanVars, TrainWhileListening
<1>11. ASSUME UNCHANGED <<updateVars, trainVars>>, BleType'
       PROVE  IInv'
  <2>1. UpdateType' /\ TrainType' /\ IntactSomewhere'
    <3>1. UpdateType /\ TrainType /\ IntactSomewhere
      OBVIOUS
    <3>2. UpdateType'
      BY ONLY <1>11, <3>1 DEF updateVars, UpdateType
    <3>3. TrainType'
      BY ONLY <1>11, <3>1 DEF trainVars, orphanVars, TrainType
    <3>4. IntactSomewhere'
      BY ONLY <1>11, <3>1 DEF updateVars, IntactSomewhere
    <3> QED
      BY <3>2, <3>3, <3>4
  <2>2. TrainWhileListening'
    BY <1>11 DEF updateVars, trainVars, orphanVars, TrainWhileListening
  <2> QED
    BY <1>11, <2>1, <2>2
<1>12. CASE WriteValueOpens
  BY <1>11, <1>12 DEF WriteValueOpens, BleType, Datum
<1>13. CASE WriteValueEnds
  <2>1. ASSUME NEW r, NEW g, NEW b PROVE detect_color(r, g, b) \in Datum
    BY DEF detect_color, Datum
  <2> QED
    BY <1>11, <1>13, <2>1 DEF WriteValueEnds, BleType, Datum
<1>14. CASE OrphanActs
  <2>1. /\ orphans \in 0..MaxKills /\ abandoned \in 0..MaxKills /\ orphans <= abandoned
        /\ MaxKills \in Nat
    BY TrainAssumption DEF TrainType, TrainWhileListening, TrainAssumption
  <2>2. orphans > 0 /\ orphans' \in {orphans, orphans - 1} /\ abandoned' = abandoned
    BY <1>14 DEF OrphanActs
  <2>3. orphans' \in 0..MaxKills /\ orphans' <= abandoned'
    BY ONLY <2>1, <2>2
  <2> QED
    BY <1>1, <1>14, <2>3 DEF OrphanActs, TrainType
<1> QED
  BY <1>3, <1>4, <1>5, <1>6, <1>7, <1>8, <1>9, <1>10, <1>12, <1>13, <1>14 DEF TrainLoop
-----------------------------------------------------------------------------
\* The invariant holds in every reachable state.
THEOREM Inductive == Spec => []IInv
<1>1. IInv /\ [Next]_vars => IInv'
  <2> SUFFICES ASSUME IInv, [Next]_vars PROVE IInv'
    OBVIOUS
  <2>1. CASE Next
    BY <2>1, ControlIInv, SyncIInv, TrainIInv DEF Next
  <2>2. CASE UNCHANGED vars
    BY <2>2 DEF vars, updateVars, bleVars, trainVars, orphanVars, IInv, RTypeOK, UpdateType, BleType,
                TrainType, TrainWhileListening, IntactSomewhere
  <2> QED
    BY <2>1, <2>2
<1> QED
  BY InitIInv, <1>1, PTL DEF Spec

\* The variables keep their types.
THEOREM TypeCorrect == Spec => []RTypeOK
  BY Inductive, PTL DEF IInv

\* At every update and at every start after an exception, control.py lets no
\* second program drive the motor; beside its own run only those that kills of it
\* have left, at most one for each.
THEOREM OneTrainRuns == Spec => []OneTrain
<1>1. IInv => OneTrain
  BY DEF IInv, TrainWhileListening, OneTrain
<1> QED
  BY Inductive, <1>1, PTL

\* Some program that runs stays on disk unless an update replaces one that
\* was not intact.
THEOREM ProgramIsKept == Spec => []ProgramKept
<1>1. IInv => ProgramKept
  BY DEF IInv, IntactSomewhere, ProgramKept, Runs
<1> QED
  BY Inductive, <1>1, PTL
=============================================================================
