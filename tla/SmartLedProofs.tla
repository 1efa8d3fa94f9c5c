--------------------------- MODULE SmartLedProofs ---------------------------
(***************************************************************************)
(* The smart light, for any number of presses: no toggle without a press,    *)
(* LEDs that agree unless two jobs have mixed, and an undisturbed AE.        *)
(***************************************************************************)
EXTENDS SmartLed, TLAPS

\* Pressed and not yet seen by the poll: one press is left for it.
PressFresh ==
    setup = "done" /\ button = "down" /\ button_state = "up" =>
        toggled + sem_toggle < pressed

\* A task has a job exactly while it is at one of the job's steps.
AtWork == {"internal", "build", "post", "external"}
JobsAtWork == \A t \in Task : (job[t] # "none") <=> (step[t] \in AtWork)

\* What has started by when: the server with the network, the task that
\* toggles at the end of setup, and reports after the registration.
SetupOrder ==
    /\ posting => setup \in Resource
    /\ setup = "wifi" => step["server"] = "off"
    /\ setup # "done" => step["toggle"] = "off"
    /\ registered => setup \notin {"wifi", "ae"}
    /\ \A t \in Task : step[t] \in {"build", "post"} => registered

\* What a job that runs alone has done to the LEDs so far.
Alone(t) ==
    /\ step[t] = "internal" /\ job[t] = "toggle" => internal = external
    /\ step[t] \in {"build", "post", "external"} =>
        internal = Lit(job[t], external)

\* Unless two jobs have mixed, one runs at a time and brings the LEDs together.
LedsPaired ==
    ~overlapped =>
        /\ \E t \in Task : job[t] = "none"
        /\ (\A t \in Task : job[t] = "none") => internal = external
        /\ \A t \in Task : job[t] # "none" => Alone(t)

IInv ==
    /\ LTypeOK /\ ToggleNeedsPress /\ PressFresh
    /\ JobsAtWork /\ SetupOrder /\ AEUndisturbed /\ LedsPaired
-----------------------------------------------------------------------------
\* The state of a light that is first switched on.
LEMMA InitIInv == Init => IInv
<1> SUFFICES ASSUME Init PROVE IInv
  OBVIOUS
<1> USE DEF Init, Booted, Task
<1>1. LTypeOK
  <2>1. /\ step \in [Task -> {"off", "idle", "internal", "build", "post", "external"}]
        /\ job \in [Task -> {"none", "enable", "disable", "toggle"}]
    OBVIOUS
  <2>2. toggled \in 0..MaxPresses /\ pressed \in 0..MaxPresses
    BY LightAssumption DEF LightAssumption
  <2>3. /\ internal \in Level /\ external \in Level
        /\ posting \in BOOLEAN /\ registered \in BOOLEAN /\ overlapped \in BOOLEAN
    BY DEF Level
  <2>4. cse \subseteq Resource /\ status = "none" /\ document = "none" /\ setup = "wifi"
    OBVIOUS
  <2> QED
    BY <2>1, <2>2, <2>3, <2>4 DEF LTypeOK
<1>2. ToggleNeedsPress /\ PressFresh
  BY DEF ToggleNeedsPress, PressFresh
<1>3. JobsAtWork /\ SetupOrder /\ AEUndisturbed
  BY DEF JobsAtWork, AtWork, SetupOrder, AEUndisturbed, Posting
<1>4. LedsPaired
  BY DEF LedsPaired
<1> QED
  BY <1>1, <1>2, <1>3, <1>4 DEF IInv

\* The level a job drives an LED to.
LEMMA LitType ==
  ASSUME NEW j \in {"enable", "disable", "toggle"}, NEW level \in Level
  PROVE  Lit(j, level) \in Level /\ Not(level) \in Level
  BY DEF Lit, Not, Level

\* A task at one of the steps of a job has a job.
LEMMA HasJob ==
  ASSUME IInv, NEW t \in Task, step[t] \in AtWork
  PROVE  job[t] \in {"enable", "disable", "toggle"}
  BY DEF IInv, JobsAtWork, LTypeOK

\* What concerns the button, and what concerns the LEDs, is undisturbed by the
\* actions of the other.
LEMMA PressesFrame ==
  ASSUME IInv, UNCHANGED <<setup, sem_toggle, toggled, button, button_state, pressed>>
  PROVE  ToggleNeedsPress' /\ PressFresh'
  BY DEF IInv, ToggleNeedsPress, PressFresh

\* What a step of another task leaves alone.
LEMMA LightFrame ==
  ASSUME IInv, UNCHANGED <<step, job, internal, external, overlapped>>
  PROVE  JobsAtWork' /\ LedsPaired'
  BY DEF IInv, JobsAtWork, LedsPaired, Alone
-----------------------------------------------------------------------------
\* setup: nothing of it moves an LED, and it starts each task idle or with the
\* job that turns the LEDs off.
LEMMA SetupIInv ==
  ASSUME IInv, WifiConnected \/ BuildResource \/ Register \/ createContainer \/ subscribeToContainer
  PROVE  IInv'
<1> USE DEF buttonVars, cseVars, lightVars
<1>1. CASE WifiConnected
  <2>1. LTypeOK'
    BY <1>1 DEF WifiConnected, IInv, LTypeOK, Task, Resource
  <2>2. ToggleNeedsPress' /\ PressFresh'
    BY <1>1 DEF WifiConnected, IInv, ToggleNeedsPress, PressFresh
  <2>3. JobsAtWork' /\ SetupOrder' /\ AEUndisturbed'
    BY <1>1 DEF WifiConnected, IInv, LTypeOK, JobsAtWork, AtWork, SetupOrder, AEUndisturbed,
                Posting, Task, Resource
  <2>4. LedsPaired'
    BY <1>1 DEF WifiConnected, IInv, LTypeOK, JobsAtWork, AtWork, SetupOrder, LedsPaired,
                Alone, Task
  <2> QED
    BY <2>1, <2>2, <2>3, <2>4 DEF IInv
<1>2. CASE BuildResource
  <2>1. LTypeOK'
    BY <1>2 DEF BuildResource, IInv, LTypeOK, Body
  <2>2. ToggleNeedsPress' /\ PressFresh'
    BY <1>2, PressesFrame DEF BuildResource
  <2>3. JobsAtWork' /\ LedsPaired'
    BY <1>2, LightFrame DEF BuildResource
  <2>4. SetupOrder' /\ AEUndisturbed'
    BY <1>2 DEF BuildResource, IInv, SetupOrder, AEUndisturbed, Posting
  <2> QED
    BY <2>1, <2>2, <2>3, <2>4 DEF IInv
<1>3. ASSUME TasksStart, setup \in Resource, posting' = FALSE, registered' \in BOOLEAN,
             registered => registered', cse' \subseteq Resource, status' = status,
             UNCHANGED <<document, internal, external, sem_toggle, toggled, button, pressed>>
      PROVE  IInv'
  <2>1. LTypeOK'
    BY <1>3 DEF TasksStart, IInv, LTypeOK, Task
  <2>2. ToggleNeedsPress' /\ PressFresh'
    BY <1>3 DEF TasksStart, IInv, ToggleNeedsPress, PressFresh
  <2>3. JobsAtWork' /\ SetupOrder' /\ AEUndisturbed'
    BY <1>3 DEF TasksStart, IInv, LTypeOK, JobsAtWork, AtWork, SetupOrder, AEUndisturbed,
                Posting, Task, Resource
  <2>4. LedsPaired'
    <3>1. CASE overlapped'
      BY <3>1 DEF LedsPaired
    <3>2. CASE ~overlapped'
      <4>1. job'["server"] = "none" /\ step'["server"] \notin AtWork
        BY <1>3, <3>2 DEF TasksStart, IInv, LTypeOK, JobsAtWork, Task
      <4>2. job'["toggle"] = "disable" /\ step'["toggle"] = "internal"
        BY <1>3 DEF TasksStart, IInv, LTypeOK, Task
      <4> QED
        BY <4>1, <4>2 DEF LedsPaired, Alone, Task
    <3> QED
      BY <3>1, <3>2
  <2> QED
    BY <2>1, <2>2, <2>3, <2>4 DEF IInv
<1>4. ASSUME setup \in Resource, setup' \in Resource \ {"ae"}, posting' = FALSE,
             registered' \in BOOLEAN, registered => registered',
             cse' \subseteq Resource, status' = status,
             UNCHANGED <<document, step, job, internal, external, overlapped, sem_toggle,
                         toggled, button, button_state, pressed>>
      PROVE  IInv'
  <2>1. LTypeOK'
    BY <1>4 DEF IInv, LTypeOK
  <2>2. ToggleNeedsPress' /\ PressFresh'
    BY <1>4 DEF IInv, ToggleNeedsPress, PressFresh, Resource
  <2>3. JobsAtWork' /\ LedsPaired'
    BY <1>4, LightFrame
  <2>4. SetupOrder' /\ AEUndisturbed'
    BY <1>4 DEF IInv, SetupOrder, AEUndisturbed, Posting, Resource
  <2> QED
    BY <2>1, <2>2, <2>3, <2>4 DEF IInv
<1>5. CASE Register
  <2>1. /\ setup \in Resource /\ posting' = FALSE /\ status' = status
        /\ UNCHANGED <<document, internal, external, sem_toggle, toggled, button, pressed>>
    BY <1>5 DEF Register, Posting, Resource
  <2>2. /\ registered' \in BOOLEAN /\ (registered => registered')
        /\ cse' \subseteq Resource
    <3>1. registered' = TRUE \/ registered' = registered
      BY <1>5 DEF Register
    <3>2. cse' = cse \cup {"ae"} \/ cse' = cse
      BY <1>5 DEF Register
    <3> QED
      BY <3>1, <3>2 DEF IInv, LTypeOK, Resource
  <2>3. CASE TasksStart
    BY <1>3, <2>1, <2>2, <2>3
  <2>4. CASE setup' = "status" /\ UNCHANGED <<step, job, overlapped, button_state>>
    BY <1>4, <2>1, <2>2, <2>4 DEF Resource
  <2> QED
    BY <1>5, <2>3, <2>4 DEF Register
<1>6. ASSUME NEW r \in {"status", "command", "sub"}, PostResource(r, TRUE)
      PROVE  /\ setup \in Resource /\ posting' = FALSE /\ registered' = registered
             /\ cse' \subseteq Resource /\ status' = status
             /\ UNCHANGED <<document, internal, external, sem_toggle, toggled, button, pressed>>
  BY <1>6 DEF PostResource, Posting, Resource, IInv, LTypeOK
<1>7. CASE createContainer
  <2>1. /\ setup' \in Resource \ {"ae"}
        /\ UNCHANGED <<step, job, overlapped, button_state>>
        /\ \E r \in {"status", "command"} : PostResource(r, TRUE)
    BY <1>7 DEF createContainer, PostResource, SetupGoesOn, Resource
  <2> QED
    BY <1>4, <1>6, <2>1 DEF IInv, LTypeOK
<1>8. CASE subscribeToContainer
  <2>1. TasksStart /\ PostResource("sub", TRUE)
    BY <1>8 DEF subscribeToContainer, PostResource
  <2> QED
    BY <1>3, <1>6, <2>1 DEF IInv, LTypeOK
<1> QED
  BY <1>1, <1>2, <1>5, <1>7, <1>8
-----------------------------------------------------------------------------
\* The steps of a job: the first and the last change an LED, and a job that
\* runs alone has both the same when it is done.
LEMMA JobIInv ==
  ASSUME IInv, NEW t \in Task, Job(t)
  PROVE  IInv'
<1> USE DEF buttonVars, cseVars
<1>1. CASE InternalLed(t)
  <2>1. internal' \in Level
    BY <1>1, HasJob, LitType DEF InternalLed, AtWork, IInv, LTypeOK
  <2>2. LTypeOK'
    BY <1>1, <2>1 DEF InternalLed, IInv, LTypeOK
  <2>3. ToggleNeedsPress' /\ PressFresh'
    BY <1>1, PressesFrame DEF InternalLed
  <2>4. JobsAtWork' /\ SetupOrder' /\ AEUndisturbed'
    BY <1>1 DEF InternalLed, IInv, LTypeOK, JobsAtWork, AtWork, SetupOrder, AEUndisturbed,
                Posting
  <2>5. LedsPaired'
    <3>1. SUFFICES ASSUME ~overlapped PROVE LedsPaired'
      BY <1>1 DEF InternalLed, LedsPaired
    <3>2. job[t] # "none" /\ Alone(t) /\ \A u \in Task \ {t} : job[u] = "none"
      BY <1>1, <3>1, HasJob DEF InternalLed, AtWork, IInv, LedsPaired, Task
    <3>3. /\ step'[t] \in {"build", "external"} /\ job' = job /\ external' = external
          /\ internal' = Lit(job[t], internal)
      BY <1>1 DEF InternalLed, IInv, LTypeOK
    <3>4. internal' = Lit(job'[t], external')
      BY <1>1, <3>2, <3>3, HasJob DEF InternalLed, AtWork, Alone, Lit
    <3>5. Alone(t)'
      BY <3>3, <3>4 DEF Alone
    <3> QED
      BY <3>2, <3>3, <3>5 DEF LedsPaired, Task
  <2> QED
    BY <2>2, <2>3, <2>4, <2>5 DEF IInv
<1>2. CASE createCin(t)
  <2>1. document' \in Level
    BY <1>2, HasJob, LitType DEF createCin, AtWork, IInv, LTypeOK
  <2>2. LTypeOK'
    BY <1>2, <2>1 DEF createCin, IInv, LTypeOK, Body
  <2>3. ToggleNeedsPress' /\ PressFresh'
    BY <1>2, PressesFrame DEF createCin
  <2>4. JobsAtWork' /\ SetupOrder'
    BY <1>2 DEF createCin, IInv, LTypeOK, JobsAtWork, AtWork, SetupOrder
  <2>5. AEUndisturbed'
    BY <1>2 DEF createCin, IInv, SetupOrder, AEUndisturbed, Posting
  <2>6. LedsPaired'
    BY <1>2 DEF createCin, IInv, LTypeOK, JobsAtWork, AtWork, LedsPaired, Alone
  <2> QED
    BY <2>2, <2>3, <2>4, <2>5, <2>6 DEF IInv
<1>3. CASE createContentInstance(t)
  <2>1. LTypeOK'
    BY <1>3 DEF createContentInstance, PostStatus, IInv, LTypeOK
  <2>2. ToggleNeedsPress' /\ PressFresh'
    BY <1>3, PressesFrame DEF createContentInstance
  <2>3. JobsAtWork' /\ SetupOrder' /\ AEUndisturbed'
    BY <1>3 DEF createContentInstance, IInv, LTypeOK, JobsAtWork, AtWork, SetupOrder,
                AEUndisturbed, Posting
  <2>4. LedsPaired'
    BY <1>3 DEF createContentInstance, IInv, LTypeOK, JobsAtWork, AtWork, LedsPaired, Alone
  <2> QED
    BY <2>1, <2>2, <2>3, <2>4 DEF IInv
<1>4. CASE ExternalLed(t)
  <2>1. external' \in Level
    BY <1>4, HasJob, LitType DEF ExternalLed, AtWork, IInv, LTypeOK
  <2>2. LTypeOK'
    BY <1>4, <2>1 DEF ExternalLed, IInv, LTypeOK
  <2>3. ToggleNeedsPress' /\ PressFresh'
    BY <1>4, PressesFrame DEF ExternalLed
  <2>4. JobsAtWork' /\ SetupOrder' /\ AEUndisturbed'
    BY <1>4 DEF ExternalLed, IInv, LTypeOK, JobsAtWork, AtWork, SetupOrder, AEUndisturbed,
                Posting
  <2>5. LedsPaired'
    <3>1. SUFFICES ASSUME ~overlapped PROVE LedsPaired'
      BY <1>4 DEF ExternalLed, LedsPaired
    <3>2. /\ internal = Lit(job[t], external)
          /\ \A u \in Task \ {t} : job[u] = "none"
      BY <1>4, <3>1, HasJob DEF ExternalLed, AtWork, IInv, LedsPaired, Alone, Task
    <3>3. internal' = external' /\ \A u \in Task : job'[u] = "none"
      BY <1>4, <3>2 DEF ExternalLed, IInv, LTypeOK
    <3> QED
      BY <3>3 DEF LedsPaired, Task
  <2> QED
    BY <2>2, <2>3, <2>4, <2>5 DEF IInv
<1> QED
  BY <1>1, <1>2, <1>3, <1>4 DEF Job
-----------------------------------------------------------------------------
\* The beginning of a job, of either task.
LEMMA StartIInv ==
  ASSUME IInv, TakeToggle \/ \E j \in {"enable", "disable"} : Notified(j)
  PROVE  IInv'
<1> USE DEF buttonVars, cseVars
<1>1. CASE TakeToggle
  <2>1. toggled' \in 0..MaxPresses
    BY <1>1, LightAssumption DEF LightAssumption, TakeToggle, IInv, LTypeOK, ToggleNeedsPress
  <2>2. LTypeOK'
    BY <1>1, <2>1 DEF TakeToggle, IInv, LTypeOK, Task
  <2>3. ToggleNeedsPress' /\ PressFresh'
    BY <1>1 DEF TakeToggle, IInv, LTypeOK, ToggleNeedsPress, PressFresh
  <2>4. JobsAtWork' /\ SetupOrder' /\ AEUndisturbed'
    BY <1>1 DEF TakeToggle, IInv, LTypeOK, JobsAtWork, AtWork, SetupOrder, AEUndisturbed,
                Posting, Task
  <2>5. LedsPaired'
    BY <1>1 DEF TakeToggle, IInv, LTypeOK, JobsAtWork, AtWork, LedsPaired, Alone, Task
  <2> QED
    BY <2>2, <2>3, <2>4, <2>5 DEF IInv
<1>2. ASSUME NEW j \in {"enable", "disable"}, Notified(j)
      PROVE  IInv'
  <2>1. LTypeOK'
    BY <1>2 DEF Notified, IInv, LTypeOK, Task
  <2>2. ToggleNeedsPress' /\ PressFresh'
    BY <1>2, PressesFrame DEF Notified
  <2>3. JobsAtWork' /\ SetupOrder' /\ AEUndisturbed'
    BY <1>2 DEF Notified, IInv, LTypeOK, JobsAtWork, AtWork, SetupOrder, AEUndisturbed,
                Posting, Task
  <2>4. LedsPaired'
    BY <1>2 DEF Notified, IInv, LTypeOK, JobsAtWork, AtWork, LedsPaired, Alone, Task
  <2> QED
    BY <2>1, <2>2, <2>3, <2>4 DEF IInv
<1> QED
  BY <1>1, <1>2

\* The button, the poll of it, and a restart.
LEMMA ButtonIInv ==
  ASSUME IInv, PollButton \/ Finger \/ Restart
  PROVE  IInv'
<1> USE DEF buttonVars, cseVars, lightVars
<1>1. CASE PollButton
  <2>1. LTypeOK'
    BY <1>1 DEF PollButton, IInv, LTypeOK
  <2>2. ToggleNeedsPress' /\ PressFresh'
    BY <1>1 DEF PollButton, IInv, LTypeOK, ToggleNeedsPress, PressFresh
  <2>3. SetupOrder' /\ AEUndisturbed'
    BY <1>1 DEF PollButton, IInv, SetupOrder, AEUndisturbed, Posting
  <2> QED
    BY <1>1, <2>1, <2>2, <2>3, LightFrame DEF PollButton, IInv
<1>2. CASE Finger
  <2>1. LTypeOK'
    BY <1>2, LightAssumption DEF LightAssumption, Finger, IInv, LTypeOK
  <2>2. ToggleNeedsPress' /\ PressFresh'
    BY <1>2 DEF Finger, IInv, LTypeOK, ToggleNeedsPress, PressFresh
  <2>3. SetupOrder' /\ AEUndisturbed'
    BY <1>2 DEF Finger, IInv, SetupOrder, AEUndisturbed, Posting
  <2> QED
    BY <1>2, <2>1, <2>2, <2>3, LightFrame DEF Finger, IInv
<1>3. CASE Restart
  <2>1. /\ step' \in [Task -> {"off", "idle", "internal", "build", "post", "external"}]
        /\ job' \in [Task -> {"none", "enable", "disable", "toggle"}]
    BY <1>3 DEF Restart
  <2>2. toggled' \in 0..MaxPresses /\ pressed' \in 0..MaxPresses
    BY <1>3, LightAssumption DEF LightAssumption, Restart
  <2>3. /\ setup' = "wifi" /\ document' = "none"
        /\ internal' \in Level /\ external' \in Level
        /\ posting' \in BOOLEAN /\ registered' \in BOOLEAN /\ overlapped' \in BOOLEAN
    BY <1>3 DEF Restart, Level
  <2>7. LTypeOK'
    BY <1>3, <2>1, <2>2, <2>3 DEF Restart, IInv, LTypeOK
  <2>4. ToggleNeedsPress' /\ PressFresh'
    BY <1>3 DEF Restart, ToggleNeedsPress, PressFresh
  <2>5. JobsAtWork' /\ SetupOrder' /\ AEUndisturbed'
    BY <1>3 DEF Restart, JobsAtWork, AtWork, SetupOrder, AEUndisturbed, Posting, Task
  <2>6. LedsPaired'
    BY <1>3 DEF Restart, LedsPaired, Task
  <2> QED
    BY <2>7, <2>4, <2>5, <2>6 DEF IInv
<1> QED
  BY <1>1, <1>2, <1>3
-----------------------------------------------------------------------------
\* The invariant holds in every reachable state.
THEOREM Inductive == Spec => []IInv
<1>1. IInv /\ [Next]_vars => IInv'
  <2> SUFFICES ASSUME IInv, [Next]_vars PROVE IInv'
    OBVIOUS
  <2>1. CASE Next
    BY <2>1, SetupIInv, JobIInv, StartIInv, ButtonIInv DEF Next
  <2>2. CASE UNCHANGED vars
    BY <2>2 DEF vars, lightVars, buttonVars, cseVars, IInv, LTypeOK, ToggleNeedsPress,
                PressFresh, JobsAtWork, SetupOrder, AEUndisturbed, Posting, LedsPaired, Alone
  <2> QED
    BY <2>1, <2>2
<1> QED
  BY InitIInv, <1>1, PTL DEF Spec

\* The variables keep their types: in particular the toggles since a restart
\* stay within the presses, so that the bound of the model bounds nothing else.
THEOREM TypeCorrect == Spec => []LTypeOK
  BY Inductive, PTL DEF IInv

\* Polling with a remembered level, a semaphore that holds one and a slow task
\* that takes it never make two toggles of one press.
THEOREM NoToggleUnasked == Spec => []ToggleNeedsPress
  BY Inductive, PTL DEF IInv

\* The LEDs agree when no task has a job, unless two jobs have mixed.
THEOREM LedsAgreeAlways == Spec => []LedsAgree
<1>1. IInv => LedsAgree
  BY DEF IInv, LedsPaired, LedsAgree
<1> QED
  BY Inductive, <1>1, PTL

\* No notification disturbs the registration of the AE.
THEOREM AEIsPosted == Spec => []AEUndisturbed
  BY Inductive, PTL DEF IInv
=============================================================================
