---------------------------- MODULE TrialUpdate ----------------------------
(***************************************************************************)
(* What the gateway promises about the firmware it runs: a new image is      *)
(* started only when every chunk announced for it has been taken, and on     *)
(* trial; from then on it either confirms itself, or the next restart puts   *)
(* the image before it back.  On trial it takes part in no update.  A        *)
(* restart forgets the update it interrupts.                                 *)
(***************************************************************************)
EXTENDS Naturals

CONSTANTS Image, FactoryImage

VARIABLES
    announced,  \* an update has been announced
    size,       \* its number of chunks
    taken,      \* the chunks of it taken
    running, previous,
    confirmed   \* the running image is not on trial

updateVars == <<announced, size, taken>>
imageVars == <<running, previous, confirmed>>
trialVars == <<announced, size, taken, running, previous, confirmed>>

NoUpdate == announced = FALSE /\ size = 0 /\ taken = 0

Init ==
    /\ NoUpdate
    /\ running = FactoryImage /\ previous = FactoryImage /\ confirmed = TRUE

Announce ==
    /\ confirmed /\ ~announced
    /\ announced' = TRUE /\ size' \in Nat
    /\ UNCHANGED <<taken, imageVars>>

Take ==
    /\ confirmed /\ announced /\ taken < size
    /\ taken' = taken + 1
    /\ UNCHANGED <<announced, size, imageVars>>

StartTrial ==
    /\ confirmed /\ announced /\ taken = size
    /\ running' \in Image /\ previous' = running /\ confirmed' = FALSE
    /\ NoUpdate'

Confirm ==
    /\ confirmed' = TRUE
    /\ UNCHANGED <<updateVars, running, previous>>

PutBack ==
    /\ ~confirmed
    /\ running' = previous /\ confirmed' = TRUE
    /\ UNCHANGED previous
    /\ NoUpdate'

Restart ==
    /\ confirmed
    /\ NoUpdate'
    /\ UNCHANGED imageVars

Next == Announce \/ Take \/ StartTrial \/ Confirm \/ PutBack \/ Restart

Spec == Init /\ [][Next]_trialVars
=============================================================================
