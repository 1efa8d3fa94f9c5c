------------------------------ MODULE SmartLed ------------------------------
(***************************************************************************)
(* The smart light of onem2msmartled: setup, which registers with the CSE    *)
(* over HTTP while the notification server already runs; the task that polls *)
(* the button; the task that toggles the LEDs; and the handler of            *)
(* notifications, which runs in a task of its own.                           *)
(*                                                                         *)
(* A request is built in the document all tasks share (oneM2Mresource) and   *)
(* then serialised and posted; another task may build its own in between.    *)
(* A post returns, with an error if there is no network.  The CSE, which     *)
(* keeps its resources through restarts of the light, is external.           *)
(***************************************************************************)
EXTENDS Integers

CONSTANT MaxPresses  \* bound on the presses of the button between restarts

ASSUME LightAssumption == MaxPresses \in Nat

Task == {"toggle", "server"}          \* the tasks that change the LEDs
Level == {"0", "1"}                   \* LOW and HIGH, and the text of them
Resource == {"ae", "status", "command", "sub"}
Body == Resource \cup Level           \* a content instance is its content

VARIABLES
    setup,        \* where setup is: the resource it is at, or
    posting,      \* ... has built and is about to post
    registered,
    document,     \* what oneM2Mresource holds
    step, job,    \* where each task is, and what it does with the LEDs
    internal, external,
    sem_toggle,   \* the binary semaphore, 0 or 1
    button, button_state,
    cse, status,  \* resources of the CSE, and the last content of status
    pressed, toggled, \* (history) presses of the button, toggles since
    overlapped    \* (history) two jobs have mixed since the LEDs were last set

lightVars == <<document, step, job, internal, external, overlapped>>
buttonVars == <<button, button_state, pressed>>
cseVars == <<cse, status>>
vars == <<setup, posting, registered, lightVars, sem_toggle, toggled, buttonVars, cseVars>>

Booted ==
    /\ setup = "wifi" /\ posting = FALSE /\ registered = FALSE /\ document = "none"
    /\ step = [t \in Task |-> "off"] /\ job = [t \in Task |-> "none"]
    /\ internal = "0" /\ external = "0" /\ overlapped = FALSE
    /\ sem_toggle = 0 /\ toggled = 0
    /\ button_state = "up" /\ pressed = 0

Init == Booted /\ button = "up" /\ cse = {} /\ status = "none"
-----------------------------------------------------------------------------
Not(l) == IF l = "0" THEN "1" ELSE "0"

\* The CSE takes a resource whose parent it has, and answers 201 or 403.
Parent == [ae |-> {}, status |-> {"ae"}, command |-> {"ae"}, sub |-> {"ae", "command"}]

\* sendHttpRequest with the target and type of resource r: the document may be
\* another task's by now, and is then refused.
Accepted(r) == document = r /\ Parent[r] \subseteq cse

\* A content instance goes into the container status, whoever built it.
PostStatus ==
    \/ UNCHANGED status
    \/ document \in Level /\ "status" \in cse /\ status' = document
-----------------------------------------------------------------------------
\* Variants with a mistake in them; no action of the system uses them.
PollLevel ==
    /\ setup = "done"
    /\ button_state' = button
    /\ sem_toggle' = IF button = "down" THEN 1 ELSE sem_toggle
    /\ UNCHANGED <<setup, posting, registered, lightVars, toggled, button, pressed, cseVars>>

ExternalForgotten(t) ==
    /\ step[t] = "external"
    /\ step' = [step EXCEPT ![t] = "idle"]
    /\ job' = [job EXCEPT ![t] = "none"]
    /\ external' = IF job[t] = "toggle" THEN external ELSE IF job[t] = "enable" THEN "1" ELSE "0"
    /\ UNCHANGED <<setup, posting, registered, document, internal, overlapped, sem_toggle, toggled, buttonVars, cseVars>>

LedUnregistered(t) ==
    /\ step[t] = "internal"
    /\ internal' = IF job[t] = "enable" THEN "1" ELSE "0"
    /\ step' = [step EXCEPT ![t] = "build"]
    /\ UNCHANGED <<setup, posting, registered, document, job, external, overlapped,
                   sem_toggle, toggled, buttonVars, cseVars>>

TakeOnce ==
    /\ step["toggle"] = "idle" /\ sem_toggle = 1
    /\ toggled = 0
    /\ sem_toggle' = 0
    /\ toggled' = toggled + 1
    /\ step' = [step EXCEPT !["toggle"] = "internal"]
    /\ job' = [job EXCEPT !["toggle"] = "toggle"]
    /\ overlapped' = (overlapped \/ job["server"] # "none")
    /\ UNCHANGED <<setup, posting, registered, document, internal, external, buttonVars, cseVars>>

TakeWithoutTaking ==
    /\ step["toggle"] = "idle" /\ sem_toggle = 1
    /\ UNCHANGED sem_toggle
    /\ toggled' = toggled + 1
    /\ step' = [step EXCEPT !["toggle"] = "internal"]
    /\ job' = [job EXCEPT !["toggle"] = "toggle"]
    /\ overlapped' = (overlapped \/ job["server"] # "none")
    /\ UNCHANGED <<setup, posting, registered, document, internal, external, buttonVars, cseVars>>
-----------------------------------------------------------------------------
\* setup, after the handlers are in place.

\* autoConnect; a failure restarts the light, which is where it is already.
WifiConnected ==
    /\ setup = "wifi"
    /\ setup' = "ae"
    /\ step' = [step EXCEPT !["server"] = "idle"]
    /\ UNCHANGED <<posting, registered, document, job, internal, external, overlapped,
                   sem_toggle, toggled, buttonVars, cseVars>>

\* createAE, createCnt and createSub, up to sendHttpRequest.
BuildResource ==
    /\ setup \in Resource /\ ~posting
    /\ document' = setup
    /\ posting' = TRUE
    /\ UNCHANGED <<setup, registered, step, job, internal, external, overlapped,
                   sem_toggle, toggled, buttonVars, cseVars>>

Posting(r) == setup = r /\ posting

\* The tasks start at the end of setup, the button's with the level it finds.
TasksStart ==
    /\ setup' = "done"
    /\ step' = [step EXCEPT !["toggle"] = "internal"]
    /\ job' = [job EXCEPT !["toggle"] = "disable"]
    /\ overlapped' = (overlapped \/ job["server"] # "none")
    /\ button_state' = button

\* Register: anything but 201 and 403 is a failure, and nobody tries again.
Register ==
    /\ Posting("ae")
    /\ \/ /\ Accepted("ae") /\ cse' = cse \cup {"ae"}
          /\ registered' = TRUE /\ setup' = "status"
          /\ UNCHANGED <<step, job, overlapped, button_state>>
       \/ TasksStart /\ UNCHANGED <<registered, cse>>
    /\ posting' = FALSE
    /\ UNCHANGED <<document, internal, external, sem_toggle, toggled, button, pressed, status>>

\* The results of the other requests are ignored.
PostResource(r, TheNext) ==
    /\ Posting(r)
    /\ \/ UNCHANGED cse
       \/ Accepted(r) /\ cse' = cse \cup {r}
    /\ TheNext
    /\ posting' = FALSE
    /\ UNCHANGED <<registered, document, internal, external, sem_toggle, toggled,
                   button, pressed, status>>

SetupGoesOn(s) == setup' = s /\ UNCHANGED <<step, job, overlapped, button_state>>

createContainer ==
    \/ PostResource("status", SetupGoesOn("command"))
    \/ PostResource("command", SetupGoesOn("sub"))

subscribeToContainer == PostResource("sub", TasksStart)
-----------------------------------------------------------------------------
\* enable_leds, disable_leds and toggle_leds: the internal LED, its status in
\* two steps, and the external LED.

\* The read and the write of a pin in a toggle are taken as one step: the
\* levels that come of the interleavings are the same.
Lit(j, level) == CASE j = "enable" -> "1" [] j = "disable" -> "0" [] j = "toggle" -> Not(level)

InternalLed(t) ==
    /\ step[t] = "internal"
    /\ internal' = Lit(job[t], internal)
    /\ step' = [step EXCEPT ![t] = IF registered THEN "build" ELSE "external"]
    /\ UNCHANGED <<setup, posting, registered, document, job, external, overlapped,
                   sem_toggle, toggled, buttonVars, cseVars>>

\* A toggle reports the negation of the level it reads back.
createCin(t) ==
    /\ step[t] = "build"
    /\ document' = IF job[t] = "toggle" THEN Not(internal) ELSE Lit(job[t], internal)
    /\ step' = [step EXCEPT ![t] = "post"]
    /\ UNCHANGED <<setup, posting, registered, job, internal, external, overlapped,
                   sem_toggle, toggled, buttonVars, cseVars>>

createContentInstance(t) ==
    /\ step[t] = "post"
    /\ PostStatus
    /\ step' = [step EXCEPT ![t] = "external"]
    /\ UNCHANGED <<setup, posting, registered, document, job, internal, external, overlapped,
                   sem_toggle, toggled, buttonVars, cse>>

ExternalLed(t) ==
    /\ step[t] = "external"
    /\ external' = Lit(job[t], external)
    /\ step' = [step EXCEPT ![t] = "idle"]
    /\ job' = [job EXCEPT ![t] = "none"]
    /\ UNCHANGED <<setup, posting, registered, document, internal, overlapped, sem_toggle, toggled,
                   buttonVars, cseVars>>
-----------------------------------------------------------------------------
\* task_toggle; it has turned both LEDs off before it waits.
TakeToggle ==
    /\ step["toggle"] = "idle" /\ sem_toggle = 1
    /\ sem_toggle' = 0
    /\ toggled' = toggled + 1
    /\ step' = [step EXCEPT !["toggle"] = "internal"]
    /\ job' = [job EXCEPT !["toggle"] = "toggle"]
    /\ overlapped' = (overlapped \/ job["server"] # "none")
    /\ UNCHANGED <<setup, posting, registered, document, internal, external, buttonVars, cseVars>>

\* parseNotification: "1" or "0" in a new instance of command, once the CSE has
\* the subscription, perhaps of an earlier life; other contents do nothing.
\* Unless it mixes with another job it brings the LEDs together again.
Notified(j) ==
    /\ step["server"] = "idle" /\ "sub" \in cse
    /\ step' = [step EXCEPT !["server"] = "internal"]
    /\ job' = [job EXCEPT !["server"] = j]
    /\ overlapped' = (job["toggle"] # "none")
    /\ UNCHANGED <<setup, posting, registered, document, internal, external,
                   sem_toggle, toggled, buttonVars, cseVars>>

\* task_checkbuttonstate; giving a semaphore that is there already is refused.
PollButton ==
    /\ setup = "done"
    /\ button_state' = button
    /\ sem_toggle' = IF button = "down" /\ button_state = "up" THEN 1 ELSE sem_toggle
    /\ UNCHANGED <<setup, posting, registered, lightVars, toggled, button, pressed, cseVars>>

Finger ==
    /\ \/ button = "up" /\ button' = "down"
          /\ pressed < MaxPresses /\ pressed' = pressed + 1
       \/ button = "down" /\ button' = "up" /\ UNCHANGED pressed
    /\ UNCHANGED <<setup, posting, registered, lightVars, sem_toggle, toggled, button_state, cseVars>>

\* Power, a failed autoConnect, or a request without the header X-M2M-RI, whose
\* handler follows an uninitialised pointer.
Restart ==
    /\ setup' = "wifi" /\ posting' = FALSE /\ registered' = FALSE /\ document' = "none"
    /\ step' = [t \in Task |-> "off"] /\ job' = [t \in Task |-> "none"]
    /\ internal' = "0" /\ external' = "0" /\ overlapped' = FALSE
    /\ sem_toggle' = 0 /\ toggled' = 0
    /\ button_state' = "up" /\ pressed' = 0
    /\ UNCHANGED <<button, cseVars>>

Job(t) == InternalLed(t) \/ createCin(t) \/ createContentInstance(t) \/ ExternalLed(t)

Next ==
    \/ WifiConnected \/ BuildResource \/ Register
    \/ createContainer \/ subscribeToContainer
    \/ \E t \in Task : Job(t)
    \/ TakeToggle
    \/ \E j \in {"enable", "disable"} : Notified(j)
    \/ PollButton \/ Finger \/ Restart

Spec == Init /\ [][Next]_vars

\* The task that toggles is scheduled, and its posts return.
FairSpec == Spec /\ WF_vars(Job("toggle")) /\ WF_vars(TakeToggle)
-----------------------------------------------------------------------------
LTypeOK ==
    /\ setup \in {"wifi", "done"} \cup Resource
    /\ document \in Body \cup {"none"}
    /\ step \in [Task -> {"off", "idle", "internal", "build", "post", "external"}]
    /\ job \in [Task -> {"none", "enable", "disable", "toggle"}]
    /\ internal \in Level /\ external \in Level
    /\ sem_toggle \in 0..1 /\ toggled \in 0..MaxPresses /\ pressed \in 0..MaxPresses
    /\ button \in {"up", "down"} /\ button_state \in {"up", "down"}
    /\ cse \subseteq Resource /\ status \in Level \cup {"none"}
    /\ posting \in BOOLEAN /\ registered \in BOOLEAN /\ overlapped \in BOOLEAN

\* Every toggle, done or still in the semaphore, answers a press of its own:
\* a button held through polls, or since before the start, toggles nothing more.
ToggleNeedsPress == toggled + sem_toggle <= pressed

\* The two LEDs differ only while a job is under way, or after the jobs of two
\* tasks have mixed, one changing the internal LED while the other was posting
\* its status; the next command that is carried out alone ends that.
LedsAgree ==
    (\A t \in Task : job[t] = "none") /\ ~overlapped => internal = external

\* A press that has given the semaphore is answered, however long the post of
\* the toggle before it takes, unless the light restarts.
PressServed == sem_toggle = 1 ~> sem_toggle = 0

\* What the light posts to register is its own AE though notifications, meant
\* for an earlier life, may already arrive: it has not yet registered, so their
\* jobs leave the document alone.
AEUndisturbed == Posting("ae") => document = "ae"
=============================================================================
