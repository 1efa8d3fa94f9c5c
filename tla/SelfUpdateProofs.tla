-------------------------- MODULE SelfUpdateProofs --------------------------
(***************************************************************************)
(* The self-update of the gateway is safe for every size of image, chunk,   *)
(* buffer and slot, every set of devices and images, and any number of      *)
(* restarts: the count of chunks follows the flash, MCUboot is asked only   *)
(* for whole updates, and the image to revert to is kept until the new one  *)
(* is confirmed.                                                            *)
(***************************************************************************)
EXTENDS SelfUpdate, TLAPS

\* Every chunk counted, and the one in hand, carried a chunk number.
CountedAreIds ==
    \A k \in Nat :
        k < current[Gateway] \/ (k = current[Gateway] /\ handler # "idle") => k \in ChunkId

\* The handler does not return between the upgrade request and the reboot.
RequestIsLast == upgrade = "test" => handler = "rebooting"

\* An unconfirmed image has not got past OTAInit, so no message is taken.
TrialIsStarting == ~confirmed => phase = "starting"

\* The inductive invariant: UpgradeIsComplete needs the first two additions,
\* FallbackIntact the third.
IInv ==
    /\ STypeOK /\ CountedIsStored /\ UpgradeIsComplete /\ FallbackIntact
    /\ CountedAreIds /\ RequestIsLast /\ TrialIsStarting

\* What the assumptions say, with the definitions of the numbers they bound.
LEMMA Constants ==
    /\ Gateway \in Device /\ FactoryImage \in Image
    /\ ChunkId \subseteq Nat /\ ChunkTotal \subseteq Nat /\ ImageChunks \in Nat
  BY UpdateAssumption, SelfUpdateAssumption DEF UpdateAssumption, SelfUpdateAssumption

\* A slot that MCUboot has filled has the shape of a slot.
LEMMA FilledType == ASSUME NEW v \in Image PROVE Filled(v) \in [ChunkId -> SUBSET Image]
  BY DEF Filled

\* The board starts confirmed, with an empty slot and nothing counted.
LEMMA InitIInv == SInit => IInv
<1> SUFFICES ASSUME SInit PROVE IInv
  OBVIOUS
<1> USE Constants DEF SInit, ControlInit
<1>1. STypeOK
  BY DEF STypeOK, ControlTypeOK, NoNack
<1>2. CountedIsStored /\ CountedAreIds
  BY DEF CountedIsStored, CountedAreIds
<1>3. UpgradeIsComplete /\ FallbackIntact /\ RequestIsLast /\ TrialIsStarting
  BY DEF UpgradeIsComplete, FallbackIntact, RequestIsLast, TrialIsStarting
<1> QED
  BY <1>1, <1>2, <1>3 DEF IInv

\* A restart starts counting from zero whatever MCUboot does.
LEMMA RebootIInv == ASSUME IInv, Reboot PROVE IInv'
<1> USE Constants DEF Reset, ControlReset
<1>1. /\ flag' = [d \in Device |-> FALSE] /\ total' = [d \in Device |-> 0]
      /\ current' = [d \in Device |-> 0] /\ nack' = nack
      /\ phase' = "starting" /\ handler' = "idle" /\ upgrade' = "none"
  BY DEF Reboot, BootSwaps, BootReverts, BootStays
<1>2. /\ slot' \in [ChunkId -> SUBSET Image] /\ running' \in Image
      /\ previous' \in Image /\ confirmed' \in BOOLEAN
      /\ FallbackIntact'
  <2>1. CASE \E v \in Image : BootSwaps(v)
    BY <2>1, FilledType DEF BootSwaps, IInv, STypeOK, FallbackIntact, Filled
  <2>2. CASE BootReverts
    BY <2>2, FilledType DEF BootReverts, IInv, STypeOK, FallbackIntact
  <2>3. CASE BootStays
    BY <2>3 DEF BootStays, IInv, STypeOK, FallbackIntact, Filled
  <2> QED
    BY <2>1, <2>2, <2>3 DEF Reboot
<1>3. STypeOK'
  BY <1>1, <1>2 DEF IInv, STypeOK, ControlTypeOK
<1>4. CountedIsStored' /\ CountedAreIds'
  BY <1>1 DEF CountedIsStored, CountedAreIds
<1>5. UpgradeIsComplete' /\ RequestIsLast' /\ TrialIsStarting'
  BY <1>1 DEF UpgradeIsComplete, RequestIsLast, TrialIsStarting
<1> QED
  BY <1>2, <1>3, <1>4, <1>5 DEF IInv

\* Messages that store nothing change the control state of one device only.
LEMMA MessageIInv ==
    ASSUME IInv,
           \/ \E n \in ChunkTotal : NotifyPackage(n)
           \/ \E c \in ChunkMessage : DropChunk(c) \/ ChunkTooLong(c)
    PROVE  IInv'
<1> USE Constants
<1>1. CASE \E n \in ChunkTotal : NotifyPackage(n)
  <2> PICK n \in ChunkTotal : NotifyPackage(n)
    BY <1>1
  <2> USE DEF NotifyPackage, extractPackage, Listening, flashVars
  <2>1. STypeOK'
    BY DEF IInv, STypeOK, ControlTypeOK
  <2>2. CountedIsStored' /\ CountedAreIds' /\ UpgradeIsComplete' /\ RequestIsLast'
    BY DEF IInv, CountedIsStored, CountedAreIds, UpgradeIsComplete, RequestIsLast
  <2>3. FallbackIntact' /\ TrialIsStarting'
    BY DEF IInv, FallbackIntact, TrialIsStarting, Filled
  <2> QED
    BY <2>1, <2>2, <2>3 DEF IInv
<1>2. CASE \E c \in ChunkMessage : DropChunk(c)
  <2> PICK c \in ChunkMessage : DropChunk(c)
    BY <1>2
  <2>1. /\ UNCHANGED <<flag, total, current, phase, handler, flashVars>>
        /\ nack' = nack \/ nack' = [nack EXCEPT ![Gateway] = NackValue(Gateway)]
    BY DEF DropChunk, ChunkUndecodable, ChunkRejected, controlVars
  <2>2. NackValue(Gateway) \in Nat \cup {NotReady, NoNack}
    BY DEF IInv, STypeOK, ControlTypeOK, NackValue
  <2>3. nack' \in [Device -> Nat \cup {NotReady, NoNack}]
    BY <2>1, <2>2 DEF IInv, STypeOK, ControlTypeOK
  <2>4. STypeOK'
    BY <2>1, <2>3 DEF IInv, STypeOK, ControlTypeOK, flashVars
  <2> QED
    BY <2>1, <2>4 DEF IInv, CountedIsStored, CountedAreIds, UpgradeIsComplete,
        RequestIsLast, FallbackIntact, TrialIsStarting, Filled, flashVars
<1>3. CASE \E c \in ChunkMessage : ChunkTooLong(c)
  BY <1>3 DEF ChunkTooLong, vars, IInv, STypeOK, ControlTypeOK, CountedIsStored,
      CountedAreIds, UpgradeIsComplete, RequestIsLast, FallbackIntact,
      TrialIsStarting, Filled
<1> QED
  BY <1>1, <1>2, <1>3

\* A chunk written to the slot, wholly or not, only adds to what is there, and
\* only while the running image is confirmed.
LEMMA StoreIInv ==
    ASSUME IInv, NEW c \in ChunkMessage, NEW v \in Image,
           StoreChunk(c, v) \/ StoreFails(c, v)
    PROVE  IInv'
<1> USE Constants DEF Listening
<1>1. /\ Acceptable(Gateway, c) /\ phase = "up" /\ handler = "idle"
      /\ UNCHANGED <<controlVars, phase, upgrade, running, previous, confirmed>>
      /\ slot' = slot \/ slot' = [slot EXCEPT ![c.id] = @ \cup {v}]
  BY DEF StoreChunk, StoreFails
<1>2. c.id \in ChunkId /\ c.id = current[Gateway]
  BY <1>1 DEF ChunkMessage, Acceptable
<1>3. slot \in [ChunkId -> SUBSET Image] /\ slot' \in [ChunkId -> SUBSET Image]
  BY <1>1, <1>2 DEF IInv, STypeOK
<1>4. \A k \in ChunkId : slot[k] \subseteq slot'[k]
  BY <1>1, <1>2, <1>3
<1>5. handler' = "idle" \/ (handler' = "stored" /\ slot'[c.id] # {})
  <2>1. CASE StoreChunk(c, v)
    <3>1. slot' = [slot EXCEPT ![c.id] = @ \cup {v}] /\ handler' = "stored"
      BY <2>1 DEF StoreChunk
    <3>2. slot'[c.id] = slot[c.id] \cup {v}
      BY <3>1, <1>2, <1>3
    <3> QED
      BY <3>1, <3>2
  <2>2. CASE StoreFails(c, v)
    <3>1. handler' = handler
      BY <2>2 DEF StoreFails
    <3> QED
      BY <3>1, <1>1
  <2> QED
    BY <2>1, <2>2
<1>6. confirmed /\ upgrade # "test"
  BY <1>1 DEF IInv, TrialIsStarting, RequestIsLast, STypeOK
<1>7. STypeOK'
  BY <1>1, <1>3, <1>5 DEF IInv, STypeOK, ControlTypeOK, controlVars
<1>8. CountedIsStored'
  BY <1>1, <1>2, <1>3, <1>4, <1>5 DEF IInv, CountedIsStored, controlVars
<1>9. CountedAreIds'
  BY <1>1, <1>2, <1>5 DEF IInv, CountedAreIds, controlVars
<1>10. UpgradeIsComplete' /\ FallbackIntact' /\ RequestIsLast' /\ TrialIsStarting'
  BY <1>1, <1>6 DEF UpgradeIsComplete, FallbackIntact, RequestIsLast, TrialIsStarting
<1> QED
  BY <1>7, <1>8, <1>9, <1>10 DEF IInv

\* Counting a stored chunk, or asking for the upgrade after the last one.
LEMMA FinishIInv ==
    ASSUME IInv, CountChunk \/ RequestUpgrade \/ RequestFails \/ OTAInit
    PROVE  IInv'
<1> USE Constants
<1>1. CASE CountChunk
  <2> USE <1>1 DEF CountChunk, incrementChunk, flashVars
  <2>1. current' = [current EXCEPT ![Gateway] = @ + 1] /\ current[Gateway] \in Nat
        /\ current'[Gateway] = current[Gateway] + 1
    BY DEF IInv, STypeOK, ControlTypeOK
  <2>2. STypeOK'
    BY <2>1 DEF IInv, STypeOK, ControlTypeOK
  <2>3. handler = "stored" /\ slot' = slot
    OBVIOUS
  <2>4. CountedIsStored'
    <3>1. SUFFICES ASSUME NEW k \in ChunkId, k < current'[Gateway]
                   PROVE  slot[k] # {}
      BY <2>3 DEF CountedIsStored
    <3>2. k < current[Gateway] \/ k = current[Gateway]
      BY <2>1, <3>1
    <3> QED
      BY <2>3, <3>2 DEF IInv, CountedIsStored
  <2>5. CountedAreIds'
    <3>1. SUFFICES ASSUME NEW k \in Nat, k < current'[Gateway]
                   PROVE  k \in ChunkId
      BY DEF CountedAreIds
    <3>2. k < current[Gateway] \/ k = current[Gateway]
      BY <2>1, <3>1
    <3> QED
      BY <2>3, <3>2 DEF IInv, CountedAreIds
  <2>6. UpgradeIsComplete' /\ RequestIsLast' /\ FallbackIntact' /\ TrialIsStarting'
    BY DEF IInv, UpgradeIsComplete, RequestIsLast, FallbackIntact, TrialIsStarting, Filled
  <2> QED
    BY <2>2, <2>4, <2>5, <2>6 DEF IInv
<1>2. CASE RequestUpgrade
  <2> USE <1>2 DEF RequestUpgrade, controlVars
  <2>1. STypeOK'
    BY DEF IInv, STypeOK, ControlTypeOK
  <2>2. CountedIsStored' /\ CountedAreIds'
    BY DEF IInv, CountedIsStored, CountedAreIds
  <2>3. current[Gateway] \in Nat /\ total[Gateway] = current[Gateway]
    BY DEF IInv, STypeOK, ControlTypeOK, LastChunk
  <2>4. UpgradeIsComplete'
    BY <2>3 DEF IInv, UpgradeIsComplete, CountedIsStored, CountedAreIds
  <2>5. RequestIsLast' /\ FallbackIntact' /\ TrialIsStarting'
    BY DEF IInv, RequestIsLast, FallbackIntact, TrialIsStarting, Filled
  <2> QED
    BY <2>1, <2>2, <2>4, <2>5 DEF IInv
<1>3. CASE RequestFails
  BY <1>3 DEF RequestFails, controlVars, flashVars, IInv, STypeOK, ControlTypeOK,
      CountedIsStored, CountedAreIds, UpgradeIsComplete, RequestIsLast,
      FallbackIntact, TrialIsStarting, Filled
<1>4. CASE OTAInit
  BY <1>4 DEF OTAInit, controlVars, IInv, STypeOK, ControlTypeOK,
      CountedIsStored, CountedAreIds, UpgradeIsComplete, RequestIsLast,
      FallbackIntact, TrialIsStarting, Filled
<1> QED
  BY <1>1, <1>2, <1>3, <1>4

\* The inductive invariant holds in every state of the self-update.
THEOREM Inductive == SSpec => []IInv
<1>1. IInv /\ [SNext]_vars => IInv'
  <2> SUFFICES ASSUME IInv, [SNext]_vars PROVE IInv'
    OBVIOUS
  <2>1. CASE UNCHANGED vars
    BY <2>1 DEF vars, IInv, STypeOK, ControlTypeOK, CountedIsStored,
        CountedAreIds, UpgradeIsComplete, RequestIsLast, FallbackIntact,
        TrialIsStarting, Filled
  <2>2. CASE SNext
    BY <2>2, RebootIInv, MessageIInv, StoreIInv, FinishIInv DEF SNext
  <2> QED
    BY <2>1, <2>2
<1> QED
  BY InitIInv, <1>1, PTL DEF SSpec

\* The state has its types: the announced totals, counts, NACKs and the flash
\* contents stay in their ranges whatever the broker sends.
THEOREM TypeCorrect == SSpec => []STypeOK
<1>1. IInv => STypeOK
  BY DEF IInv
<1> QED
  BY Inductive, <1>1, PTL

\* The count of chunks never runs ahead of the flash.
THEOREM CountFollowsFlash == SSpec => []CountedIsStored
<1>1. IInv => CountedIsStored
  BY DEF IInv
<1> QED
  BY Inductive, <1>1, PTL

\* MCUboot is never asked to boot part of an announced update.
THEOREM UpgradesAreComplete == SSpec => []UpgradeIsComplete
<1>1. IInv => UpgradeIsComplete
  BY DEF IInv
<1> QED
  BY Inductive, <1>1, PTL

\* Until the running image is confirmed the one before it is there to go back to.
THEOREM FallbackKept == SSpec => []FallbackIntact
<1>1. IInv => FallbackIntact
  BY DEF IInv
<1> QED
  BY Inductive, <1>1, PTL
-----------------------------------------------------------------------------
\* What the abstract update needs besides: a chunk in hand belongs to an announced
\* update, and is in hand only once the image is confirmed; an upgrade is asked for
\* when the count has reached the total, which it never passes.
TrialInv ==
    /\ handler # "idle" => phase = "up" /\ flag[Gateway]
    /\ upgrade = "test" => current[Gateway] = total[Gateway]
    /\ current[Gateway] <= total[Gateway]
    /\ ~flag[Gateway] => total[Gateway] = 0

\* The numbers of the gateway's own update.
LEMMA OwnNumbers ==
    IInv => /\ flag \in [Device -> BOOLEAN] /\ current \in [Device -> Nat]
            /\ total \in [Device -> ChunkTotal \cup {0}]
            /\ current[Gateway] \in Nat /\ total[Gateway] \in Nat
<1> SUFFICES ASSUME IInv
             PROVE  /\ flag \in [Device -> BOOLEAN] /\ current \in [Device -> Nat]
                    /\ total \in [Device -> ChunkTotal \cup {0}]
                    /\ current[Gateway] \in Nat /\ total[Gateway] \in Nat
  OBVIOUS
<1>1. /\ flag \in [Device -> BOOLEAN] /\ current \in [Device -> Nat]
      /\ total \in [Device -> ChunkTotal \cup {0}]
  BY DEF IInv, STypeOK, ControlTypeOK
<1>2. current[Gateway] \in Nat /\ total[Gateway] \in ChunkTotal \cup {0}
  BY ONLY <1>1, Constants
<1>3. \A n \in ChunkTotal \cup {0} : n \in Nat
  BY Constants
<1> QED
  BY ONLY <1>1, <1>2, <1>3

\* A restart forgets the update.
LEMMA ResetNumbers ==
    ASSUME Reset
    PROVE  /\ flag'[Gateway] = FALSE /\ total'[Gateway] = 0 /\ current'[Gateway] = 0
           /\ handler' = "idle"
  BY Constants DEF Reset, ControlReset

\* Every step keeps TrialInv.
LEMMA NextTrialInv == IInv /\ TrialInv /\ [SNext]_vars => TrialInv'
<1> SUFFICES ASSUME IInv, TrialInv, [SNext]_vars PROVE TrialInv'
  OBVIOUS
<1> USE Constants, OwnNumbers
<1>1. ASSUME NEW n \in ChunkTotal, NotifyPackage(n) PROVE TrialInv'
  <2>1. /\ ~flag[Gateway] /\ flag' = [flag EXCEPT ![Gateway] = TRUE]
        /\ total' = [total EXCEPT ![Gateway] = n]
        /\ handler = "idle" /\ UNCHANGED <<current, handler, phase, upgrade>>
    BY <1>1 DEF NotifyPackage, Listening, extractPackage, flashVars
  <2>2. upgrade # "test"
    BY <2>1 DEF IInv, RequestIsLast
  <2>3. current[Gateway] = 0 /\ n \in Nat
    BY <2>1 DEF TrialInv
  <2> QED
    BY <2>1, <2>2, <2>3 DEF TrialInv
<1>2. ASSUME NEW c \in ChunkMessage,
             DropChunk(c) \/ ChunkTooLong(c) \/ \E v \in Image : StoreFails(c, v)
      PROVE  TrialInv'
  <2>1. UNCHANGED <<flag, total, current, handler, phase, upgrade>>
    BY <1>2 DEF DropChunk, ChunkUndecodable, ChunkRejected, ChunkTooLong, StoreFails,
                controlVars, flashVars, vars
  <2> QED
    BY <2>1 DEF TrialInv
<1>3. ASSUME NEW c \in ChunkMessage, NEW v \in Image, StoreChunk(c, v) PROVE TrialInv'
  BY <1>3 DEF StoreChunk, Listening, Acceptable, controlVars, TrialInv
<1>4. CASE CountChunk
  <2>1. /\ handler = "stored" /\ current[Gateway] # total[Gateway] /\ handler' = "idle"
        /\ current' = [current EXCEPT ![Gateway] = @ + 1]
        /\ UNCHANGED <<flag, total, upgrade>>
    BY <1>4 DEF CountChunk, LastChunk, incrementChunk, flashVars
  <2>2. upgrade # "test" /\ flag[Gateway]
    BY <2>1 DEF IInv, RequestIsLast, TrialInv
  <2> QED
    BY <2>1, <2>2 DEF TrialInv
<1>5. CASE RequestUpgrade \/ RequestFails
  BY <1>5 DEF RequestUpgrade, RequestFails, LastChunk, controlVars, flashVars, TrialInv
<1>6. CASE Reboot
  <2>1. Reset /\ upgrade' = "none"
    BY <1>6 DEF Reboot, BootSwaps, BootReverts, BootStays
  <2> QED
    BY <2>1, ResetNumbers DEF TrialInv
<1>7. CASE OTAInit
  BY <1>7 DEF OTAInit, controlVars, TrialInv
<1>8. CASE UNCHANGED vars
  BY <1>8 DEF vars, TrialInv
<1> QED
  BY <1>1, <1>2, <1>3, <1>4, <1>5, <1>6, <1>7, <1>8 DEF SNext

\* and it holds from the start-up on.
LEMMA TrialInductive == SSpec => [](IInv /\ TrialInv)
<1>1. SInit => TrialInv
  BY Constants DEF SInit, ControlInit, TrialInv
<1> QED
  BY <1>1, NextTrialInv, Inductive, PTL DEF SSpec

\* A reboot starts a trial, puts back the image before an unconfirmed one, or
\* restarts a confirmed one.
LEMMA RebootIsTrial == ASSUME IInv, TrialInv, Reboot PROVE Trial!Next
<1>1. Reset => Trial!NoUpdate'
  BY ResetNumbers DEF Trial!NoUpdate
<1>2. ASSUME upgrade = "test"
      PROVE  /\ confirmed = TRUE /\ flag[Gateway] /\ current[Gateway] = total[Gateway]
  BY <1>2 DEF IInv, STypeOK, RequestIsLast, TrialIsStarting, TrialInv
<1>3. ASSUME NEW v \in Image, BootSwaps(v) PROVE Trial!StartTrial
  BY <1>1, <1>2, <1>3 DEF BootSwaps, Trial!StartTrial
<1>4. ASSUME BootReverts PROVE Trial!PutBack
  BY <1>1, <1>4 DEF BootReverts, Trial!PutBack
<1>5. ASSUME BootStays PROVE Trial!Restart
  BY <1>1, <1>2, <1>5 DEF BootStays, Trial!Restart, Trial!imageVars
<1> QED
  BY <1>3, <1>4, <1>5 DEF Reboot, Trial!Next

\* A step of the running image announces an update, takes a chunk, confirms the
\* image, or is not seen.
LEMMA StepIsTrial ==
    ASSUME IInv, TrialInv, SNext, ~Reboot
    PROVE  [Trial!Next]_(Trial!trialVars)
<1> USE Constants, OwnNumbers DEF Trial!updateVars, Trial!imageVars, Trial!trialVars
<1>1. phase = "up" => confirmed = TRUE
  BY DEF IInv, STypeOK, TrialIsStarting
<1>2. ASSUME NEW n \in ChunkTotal, NotifyPackage(n) PROVE Trial!Announce
  <2>1. /\ phase = "up" /\ ~flag[Gateway] /\ flag' = [flag EXCEPT ![Gateway] = TRUE]
        /\ total' = [total EXCEPT ![Gateway] = n]
        /\ UNCHANGED <<current, running, previous, confirmed>>
    BY <1>2 DEF NotifyPackage, Listening, extractPackage, flashVars
  <2>2. flag'[Gateway] = TRUE /\ total'[Gateway] \in Nat
    BY <2>1
  <2> QED
    BY <1>1, <2>1, <2>2 DEF Trial!Announce
<1>3. ASSUME CountChunk PROVE Trial!Take
  <2>1. /\ handler = "stored" /\ current[Gateway] # total[Gateway]
        /\ current' = [current EXCEPT ![Gateway] = @ + 1]
        /\ UNCHANGED <<flag, total, running, previous, confirmed>>
    BY <1>3 DEF CountChunk, LastChunk, incrementChunk, flashVars
  <2>2. confirmed /\ flag[Gateway] /\ current[Gateway] < total[Gateway]
    BY <1>1, <2>1 DEF TrialInv
  <2> QED
    BY <2>1, <2>2 DEF Trial!Take
<1>4. ASSUME OTAInit PROVE Trial!Confirm
  BY <1>4 DEF OTAInit, controlVars, Trial!Confirm
<1>5. ASSUME NEW c \in ChunkMessage,
             \/ DropChunk(c) \/ ChunkTooLong(c)
             \/ \E v \in Image : StoreChunk(c, v) \/ StoreFails(c, v)
      PROVE  UNCHANGED Trial!trialVars
  BY <1>5 DEF DropChunk, ChunkUndecodable, ChunkRejected, ChunkTooLong, StoreChunk, StoreFails,
              controlVars, flashVars, vars
<1>6. ASSUME RequestUpgrade \/ RequestFails PROVE UNCHANGED Trial!trialVars
  BY <1>6 DEF RequestUpgrade, RequestFails, controlVars, flashVars
<1> QED
  BY <1>2, <1>3, <1>4, <1>5, <1>6 DEF SNext, Trial!Next

\* For every image size, slot and chunk, and failures at any step: a trial begins
\* only with all chunks taken, and ends in a confirmation or with the old image.
THEOREM SelfUpdateImplementsTrial == SSpec => SelfUpdateIsTrial
<1>1. SInit => Trial!Init
  BY Constants DEF SInit, ControlInit, Trial!Init, Trial!NoUpdate
<1>2. IInv /\ TrialInv /\ [SNext]_vars => [Trial!Next]_(Trial!trialVars)
  <2> SUFFICES ASSUME IInv, TrialInv, [SNext]_vars
               PROVE  [Trial!Next]_(Trial!trialVars)
    OBVIOUS
  <2>1. CASE UNCHANGED vars
    BY <2>1 DEF vars, Trial!trialVars
  <2> QED
    BY <2>1, RebootIsTrial, StepIsTrial
<1> QED
  BY <1>1, <1>2, TrialInductive, PTL DEF SSpec, SelfUpdateIsTrial, Trial!Spec
=============================================================================
