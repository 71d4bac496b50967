---------------------------- MODULE KioskDeliveryProofs ----------------------------
(***************************************************************************)
(* No frame is forgotten by both the kiosk's page and the backend, for any *)
(* number of frames, flushes, losses and reloads.                          *)
(*                                                                         *)
(* The page behaves as KioskClient says, so that KioskClientProofs holds   *)
(* of it: a queued frame is in IndexedDB until the backend has answered    *)
(* it.  What the backend has answered is logged as nobody's, or covered by *)
(* the frame that held the cooldown key, which is registered or has its    *)
(* transaction open, but for the frames whose transactions failed (Owing): *)
(* a failure adds one.                                                     *)
(***************************************************************************)
EXTENDS KioskDelivery, FiniteSetTheorems, TLAPS

Queue == INSTANCE KioskClientProofs

\* ---- The page is a KioskClient ------------------------------------------------------
LEMMA SameConstants == Kiosk!KioskConstantsOK => Queue!KioskConstantsOK
  BY DEF Kiosk!KioskConstantsOK, Queue!KioskConstantsOK, Kiosk!IsFiniteSet, Queue!IsFiniteSet

\* What happens to a frame is a step of the kiosk.
LEMMA FrameSteps ==
  ASSUME NEW f \in Frames
  PROVE  /\ Kiosk!Capture(f) => Queue!Capture(f)
         /\ Kiosk!ShowResult(f) => Queue!ShowResult(f)
         /\ Kiosk!QueuePut(f) => Queue!QueuePut(f)
         /\ Kiosk!Drop(f) => Queue!Drop(f)
         /\ Kiosk!ArriveLate(f) => Queue!ArriveLate(f)
  <1> USE DEF Kiosk!Goto, Queue!Goto, Kiosk!net, Queue!net, Kiosk!bounds, Queue!bounds
  <1>1. Kiosk!Capture(f) => Queue!Capture(f)
    BY DEF Kiosk!Capture, Kiosk!CaptureAuto, Kiosk!CaptureManual, Kiosk!GrabNothing, Kiosk!Submit,
           Kiosk!Throttled, Kiosk!Grabbing,
           Queue!Capture, Queue!CaptureAuto, Queue!CaptureManual, Queue!GrabNothing, Queue!Submit,
           Queue!Throttled, Queue!Grabbing
  <1>2. Kiosk!ShowResult(f) => Queue!ShowResult(f)
    BY DEF Kiosk!ShowResult, Queue!ShowResult, Kiosk!Accepted, Queue!Accepted
  <1>3. (Kiosk!QueuePut(f) => Queue!QueuePut(f)) /\ (Kiosk!Drop(f) => Queue!Drop(f))
    BY DEF Kiosk!QueuePut, Queue!QueuePut, Kiosk!Drop, Queue!Drop,
           Kiosk!Refused, Queue!Refused, Kiosk!Lost, Queue!Lost
  <1>4. Kiosk!ArriveLate(f) => Queue!ArriveLate(f)
    BY DEF Kiosk!ArriveLate, Queue!ArriveLate
  <1> QED BY <1>1, <1>2, <1>3, <1>4

\* So is what a flush does.
LEMMA FlushSteps ==
  ASSUME NEW k \in Flushes
  PROVE  /\ Kiosk!StartFlush(k) => Queue!StartFlush(k)
         /\ Kiosk!FlushOne(k) => Queue!FlushOne(k)
         /\ Kiosk!FlushFails(k) => Queue!FlushFails(k)
  <1> USE DEF Kiosk!net, Queue!net, Kiosk!bounds, Queue!bounds
  <1>1. Kiosk!StartFlush(k) => Queue!StartFlush(k)
    BY DEF Kiosk!StartFlush, Queue!StartFlush
  <1>2. Kiosk!FlushOne(k) => Queue!FlushOne(k)
    BY DEF Kiosk!FlushOne, Queue!FlushOne, Kiosk!Accepted, Queue!Accepted,
           Kiosk!QueueDel, Queue!QueueDel, Kiosk!InQueue, Queue!InQueue
  <1>3. Kiosk!FlushFails(k) => Queue!FlushFails(k)
    BY DEF Kiosk!FlushFails, Queue!FlushFails, Kiosk!Refused, Queue!Refused, Kiosk!Lost, Queue!Lost
  <1> QED BY <1>1, <1>2, <1>3

\* So is what the page does alone.
LEMMA PageSteps ==
  /\ Kiosk!ResetIdle => Queue!ResetIdle
  /\ Kiosk!Reload => Queue!Reload
  /\ Kiosk!Tick => Queue!Tick
  <1> USE DEF Kiosk!net, Queue!net, Kiosk!bounds, Queue!bounds
  <1>1. \A f : Kiosk!Posts(f) = Queue!Posts(f)
    BY DEF Kiosk!Posts, Queue!Posts, Kiosk!Cardinality, Queue!Cardinality
  <1>2. (Kiosk!ResetIdle => Queue!ResetIdle) /\ (Kiosk!Tick => Queue!Tick)
    BY DEF Kiosk!ResetIdle, Queue!ResetIdle, Kiosk!Tick, Queue!Tick
  <1>3. Kiosk!Reload => Queue!Reload
    BY <1>1 DEF Kiosk!Reload, Queue!Reload, Kiosk!Grabbing, Queue!Grabbing
  <1> QED BY <1>2, <1>3

\* Every step with the backend is a step of the kiosk or leaves the page alone.
LEMMA NextIsKiosk == [Next]_<<page, backend>> => [Queue!Next]_Queue!vars
  <1> SUFFICES ASSUME [Next]_<<page, backend>>  PROVE [Queue!Next]_Queue!vars
    OBVIOUS
  <1>1. CASE PageOnly
    BY <1>1, FrameSteps, FlushSteps, PageSteps
       DEF PageOnly, Queue!Next, Queue!Answer, Queue!Flush
  <1>2. CASE Tick
    BY <1>2, PageSteps DEF Tick, Queue!Next
  <1>3. CASE \E f \in Frames : Kiosk!ShowResult(f) \/ Kiosk!ArriveLate(f)
    BY <1>3, FrameSteps DEF Queue!Next, Queue!Answer
  <1>4. CASE \E k \in Flushes : Kiosk!FlushOne(k)
    BY <1>4, FlushSteps DEF Queue!Next, Queue!Flush
  <1>5. CASE CommitLate \/ AbortLate \/ UNCHANGED <<page, backend>>
    BY <1>5 DEF CommitLate, AbortLate, page, Queue!vars, Queue!net, Queue!bounds
  <1> QED BY <1>1, <1>2, <1>3, <1>4, <1>5 DEF Next

\* Before this backend the page behaves as KioskClient says of it before any: the answers
\* it may get are restricted, what it does with them is not.
THEOREM PageIsAKiosk == Spec => Queue!Spec
  <1>1. Init => Queue!Init
    BY DEF Init, Kiosk!Init, Queue!Init
  <1> QED BY <1>1, NextIsKiosk, PTL DEF Spec, Queue!Spec

\* So frames leave its queue in the order they entered it, here too.
THEOREM FramesLeaveInOrder == ASSUME Kiosk!KioskConstantsOK  PROVE  Spec => Queue!QueueIsFifo
  <1>1. Queue!Spec => Queue!QueueIsFifo
    BY SameConstants, Queue!FramesLeaveInOrder
  <1> QED BY <1>1, PageIsAKiosk

\* What is proved of the kiosk holds of the page before this backend.
LEMMA PageKeepsItsWord ==
  ASSUME Kiosk!KioskConstantsOK
  PROVE  Spec => [](Kiosk!TypeOK /\ Kiosk!QueuedUntilServed)
  <1>2. (Queue!Spec => []Queue!TypeOK) /\ (Queue!Spec => []Queue!QueuedUntilServed)
    BY SameConstants, Queue!TypeCorrect, Queue!QueueLosesNothing
  <1>3. Queue!TypeOK /\ Queue!QueuedUntilServed => Kiosk!TypeOK /\ Kiosk!QueuedUntilServed
    BY DEF Queue!TypeOK, Kiosk!TypeOK, Queue!QueuedUntilServed, Kiosk!QueuedUntilServed,
           Queue!InQueue, Kiosk!InQueue
  <1> QED BY <1>2, <1>3, PageIsAKiosk, PTL

\* ---- The backend ------------------------------------------------------------------------
\* The frames that answered for one and are not registered, nor about to be.
Owing == {cover[f] : f \in Frames} \ ({None, tx} \cup registered)

OwingBounded == IsFiniteSet(Owing) /\ Cardinality(Owing) <= faults

IInv ==
  /\ keyUntil \in Nat
  /\ holder \in Frames \cup {None} /\ tx \in Frames \cup {None}
  /\ registered \subseteq Frames /\ rejected \subseteq Frames /\ faults \in Nat
  /\ cover \in [Frames -> Frames \cup {None}]
  /\ KeyLives => holder # None /\ cover[holder] = holder
  /\ tx # None => KeyLives /\ holder = tx
  /\ \A f \in Frames : cpc[f] = "answered" => f \in served
  /\ \A f \in Frames : f \in served => f \in rejected \/ cover[f] # None
  /\ OwingBounded

\* The invariant holds at the start.
LEMMA InitEstablishes ==
  ASSUME Kiosk!KioskConstantsOK, DeliveryConstantsOK  PROVE  Init => IInv
  <1> SUFFICES ASSUME Init  PROVE IInv
    OBVIOUS
  <1>1. Kiosk!Init /\ ~ KeyLives
    <2>1. Kiosk!Init /\ keyUntil = 0 /\ (now = LocalCooldown)
      BY DEF Init, Kiosk!Init
    <2> QED BY <2>1 DEF KeyLives, Kiosk!KioskConstantsOK
  <1>2. \A f \in Frames : cpc[f] # "answered" /\ f \notin served
    BY <1>1 DEF Kiosk!Init
  <1>3. OwingBounded
    <2>1. Owing = {}
      BY DEF Init, Owing
    <2> QED BY <2>1, FS_EmptySet DEF Init, OwingBounded
  <1> QED BY <1>1, <1>2, <1>3 DEF Init, IInv, DeliveryConstantsOK

\* One more element makes a finite set at most one larger.
LEMMA OneMore ==
  ASSUME NEW S, NEW x, IsFiniteSet(S)
  PROVE  IsFiniteSet(S \cup {x}) /\ Cardinality(S \cup {x}) <= Cardinality(S) + 1
  <1>1. Cardinality(S) \in Nat
    BY FS_CardinalityType
  <1>2. IsFiniteSet(S \cup {x})
    BY FS_AddElement
  <1>3. Cardinality(S \cup {x}) = IF x \in S THEN Cardinality(S) ELSE Cardinality(S) + 1
    BY FS_AddElement
  <1> QED BY <1>1, <1>2, <1>3

\* Steps that add no frame that owes.
LEMMA OwingShrinks ==
  ASSUME IInv, faults' = faults, Owing' \subseteq Owing  PROVE OwingBounded'
  <1>1. PICK is, was : is = Owing' /\ was = Owing
    OBVIOUS
  <1>2. IsFiniteSet(was) /\ Cardinality(was) <= faults /\ is \in SUBSET was /\ faults \in Nat
    BY <1>1 DEF IInv, OwingBounded
  <1>3. IsFiniteSet(is) /\ Cardinality(is) <= Cardinality(was)
    BY <1>2, FS_Subset
  <1>4. Cardinality(is) \in Nat /\ Cardinality(was) \in Nat
    BY <1>2, <1>3, FS_CardinalityType
  <1>5. IsFiniteSet(is) /\ Cardinality(is) <= faults
    BY <1>2, <1>3, <1>4
  <1> QED BY <1>1, <1>5 DEF OwingBounded

\* The backend answers a submission with 200, or its page has given it up.
LEMMA HandlingKeeps ==
  ASSUME DeliveryConstantsOK, IInv, now \in Nat, now' = now, NEW f \in Frames,
         Swallow(f) \/ Register(f) \/ BeginLate(f) \/ Reject(f),
         served' = served \cup {f},
         \A g \in Frames : cpc'[g] = "answered" => cpc[g] = "answered" \/ g = f
  PROVE  IInv'
  <1> USE DEF DeliveryConstantsOK
  <1>1. CASE Swallow(f)
    <2>1. /\ KeyLives /\ KeyLives' /\ cover' = [cover EXCEPT ![f] = holder]
          /\ UNCHANGED <<keyUntil, holder, tx, registered, rejected, faults>>
      BY <1>1 DEF Swallow, KeyLives
    <2>2. /\ cover' \in [Frames -> Frames \cup {None}] /\ cover'[f] = holder /\ holder # None
          /\ \A g \in Frames : g # f => cover'[g] = cover[g]
          /\ holder \in Frames /\ cover[holder] = holder
      BY <2>1 DEF IInv
    <2>3. Owing' \subseteq Owing
      BY <2>1, <2>2 DEF Owing
    <2>4. OwingBounded'
      BY <2>1, <2>3, OwingShrinks
    <2> QED BY <2>1, <2>2, <2>4 DEF IInv
  <1>2. CASE Register(f) \/ BeginLate(f)
    <2>1. /\ ~ KeyLives /\ keyUntil' = now + Cooldown /\ holder' = f /\ faults' = faults
          /\ rejected' = rejected /\ cover' = [cover EXCEPT ![f] = f]
      BY <1>2 DEF Register, BeginLate, TakeKey
    <2>2. KeyLives' /\ keyUntil' \in Nat
      BY <2>1 DEF KeyLives
    <2>3. tx = None /\ f # None
      BY <2>1 DEF IInv
    <2>4. /\ cover' \in [Frames -> Frames \cup {None}] /\ cover'[f] = f
          /\ \A g \in Frames : g # f => cover'[g] = cover[g]
      BY <2>1 DEF IInv
    <2>5. /\ registered \subseteq registered' /\ registered' \subseteq Frames
          /\ tx' = None \/ tx' = f
          /\ f \in registered' \cup {tx'}
      BY <1>2, <2>3 DEF Register, BeginLate, IInv
    <2>6. Owing' \subseteq Owing
      BY <2>3, <2>4, <2>5 DEF Owing
    <2>7. OwingBounded'
      BY <2>1, <2>6, OwingShrinks
    <2> QED BY <2>1, <2>2, <2>3, <2>4, <2>5, <2>7 DEF IInv
  <1>3. CASE Reject(f)
    <2>1. /\ rejected' = rejected \cup {f} /\ KeyLives' = KeyLives
          /\ UNCHANGED <<keyUntil, holder, tx, registered, cover, faults>>
      BY <1>3 DEF Reject, KeyLives
    <2>2. OwingBounded'
      BY <2>1, OwingShrinks DEF Owing
    <2> QED BY <2>1, <2>2 DEF IInv
  <1> QED BY <1>1, <1>2, <1>3

\* Steps that answer nothing.
LEMMA OthersKeep ==
  ASSUME IInv, Kiosk!TypeOK, now' \in Nat, now' >= now, UNCHANGED backend, served' = served,
         tx # None => now' < keyUntil,
         \A g \in Frames : cpc'[g] = "answered" => cpc[g] = "answered"
  PROVE  IInv'
  <1>1. KeyLives' => KeyLives
    BY DEF KeyLives, backend, IInv, Kiosk!TypeOK
  <1>2. tx' # None => KeyLives'
    BY DEF KeyLives, backend
  <1>3. OwingBounded'
    BY OwingShrinks DEF Owing, backend
  <1> QED BY <1>1, <1>2, <1>3 DEF IInv, backend

\* Every action keeps it.
LEMMA StepsKeepInvariant ==
  ASSUME DeliveryConstantsOK, IInv, Kiosk!TypeOK, [Next]_<<page, backend>>
  PROVE  IInv'
  <1>0. now \in Nat /\ \A g \in Frames : g \in DOMAIN cpc
    BY DEF Kiosk!TypeOK
  <1>k. tx # None => now < keyUntil
    BY DEF IInv, KeyLives
  <1>1. CASE PageOnly /\ UNCHANGED backend
    <2>1. now' = now /\ served' = served
      BY <1>1 DEF PageOnly, Kiosk!Capture, Kiosk!CaptureAuto, Kiosk!CaptureManual, Kiosk!GrabNothing,
                  Kiosk!Submit, Kiosk!QueuePut, Kiosk!Drop, Kiosk!StartFlush, Kiosk!FlushFails,
                  Kiosk!ResetIdle, Kiosk!Reload, Kiosk!Refused, Kiosk!Lost, Kiosk!net
    <2>2. \A g \in Frames : cpc'[g] = "answered" => cpc[g] = "answered"
      BY <1>0, <1>1 DEF PageOnly, Kiosk!Capture, Kiosk!CaptureAuto, Kiosk!CaptureManual, Kiosk!GrabNothing,
                  Kiosk!Submit, Kiosk!QueuePut, Kiosk!Drop, Kiosk!StartFlush, Kiosk!FlushFails,
                  Kiosk!ResetIdle, Kiosk!Reload, Kiosk!Goto
    <2> QED BY <1>0, <1>1, <1>k, <2>1, <2>2, OthersKeep
  <1>2. CASE Tick /\ UNCHANGED backend
    <2>1. now' = now + 1 /\ served' = served /\ cpc' = cpc /\ (tx # None => now' < keyUntil)
      BY <1>2 DEF Tick, Kiosk!Tick, Kiosk!net, backend
    <2> QED BY <1>0, <1>2, <2>1, OthersKeep
  <1>3. ASSUME NEW f \in Frames, Kiosk!ShowResult(f), Handle(f)  PROVE IInv'
    <2>1. now' = now /\ served' = served \cup {f} /\ cpc' = [cpc EXCEPT ![f] = "answered"]
      BY <1>3 DEF Kiosk!ShowResult, Kiosk!Accepted, Kiosk!Goto
    <2> QED BY <1>0, <1>3, <2>1, HandlingKeeps DEF Handle
  <1>4. ASSUME NEW k \in Flushes, Kiosk!FlushOne(k), Handle(Head(items[k]))  PROVE IInv'
    <2>1. Head(items[k]) \in Frames
      BY <1>4 DEF Kiosk!FlushOne, Kiosk!TypeOK
    <2> PICK f \in Frames : f = Head(items[k])
      BY <2>1
    <2>2. now' = now /\ served' = served \cup {f} /\ cpc' = cpc
      BY <1>4 DEF Kiosk!FlushOne, Kiosk!Accepted
    <2>3. Swallow(f) \/ Register(f) \/ Reject(f)
      BY <1>4 DEF Handle, Swallow, Register, TakeKey, Reject
    <2> QED BY <1>0, <2>2, <2>3, HandlingKeeps
  <1>5. ASSUME NEW f \in Frames, Kiosk!ArriveLate(f), Swallow(f) \/ BeginLate(f) \/ Reject(f)  PROVE IInv'
    <2>1. now' = now /\ served' = served \cup {f} /\ cpc' = cpc
      BY <1>5 DEF Kiosk!ArriveLate
    <2> QED BY <1>0, <1>5, <2>1, HandlingKeeps
  <1>6. CASE CommitLate
    <2>1. /\ tx \in Frames /\ tx' = None /\ registered' = registered \cup {tx}
          /\ UNCHANGED <<now, cpc, served, keyUntil, holder, rejected, cover, faults>>
      BY <1>6 DEF IInv, CommitLate, page
    <2>2. Owing' \subseteq Owing
      BY <2>1 DEF Owing
    <2>3. OwingBounded'
      BY <2>1, <2>2, OwingShrinks
    <2> QED BY <2>1, <2>3 DEF IInv, KeyLives
  <1>7. CASE AbortLate
    <2>1. /\ tx' = None /\ faults' = faults + 1
          /\ UNCHANGED <<now, cpc, served, keyUntil, holder, cover, registered, rejected>>
      BY <1>7 DEF AbortLate, page
    <2>2. PICK is, was, lost : is = Owing' /\ was = Owing /\ lost = tx
      OBVIOUS
    <2>3. is \in SUBSET (was \cup {lost})
      BY <2>1, <2>2 DEF Owing
    <2>4. IsFiniteSet(was) /\ Cardinality(was) <= faults /\ faults \in Nat
      BY <2>2 DEF IInv, OwingBounded
    <2>5. IsFiniteSet(was \cup {lost}) /\ Cardinality(was \cup {lost}) <= Cardinality(was) + 1
      BY <2>4, OneMore
    <2>6. IsFiniteSet(is) /\ Cardinality(is) <= Cardinality(was \cup {lost})
      BY <2>3, <2>5, FS_Subset
    <2>7. Cardinality(is) \in Nat /\ Cardinality(was) \in Nat /\ Cardinality(was \cup {lost}) \in Nat
      BY <2>4, <2>5, <2>6, FS_CardinalityType
    <2>8. IsFiniteSet(is) /\ Cardinality(is) <= faults + 1
      BY <2>4, <2>5, <2>6, <2>7
    <2>9. OwingBounded'
      BY <2>1, <2>2, <2>8 DEF OwingBounded
    <2> QED BY <2>1, <2>9 DEF IInv, KeyLives
  <1>8. CASE UNCHANGED <<page, backend>>
    <2>1. now' = now /\ served' = served /\ cpc' = cpc /\ UNCHANGED backend
      BY <1>8 DEF page
    <2> QED BY <1>0, <1>k, <2>1, OthersKeep
  <1> QED BY <1>1, <1>2, <1>3, <1>4, <1>5, <1>6, <1>7, <1>8 DEF Next

\* Every variable of the page and of the backend stays in its type.
THEOREM TypeCorrect ==
  ASSUME Kiosk!KioskConstantsOK, DeliveryConstantsOK
  PROVE  Spec => []TypeOK
  <1>1. Init => IInv
    BY InitEstablishes
  <1>2. IInv /\ Kiosk!TypeOK /\ [Next]_<<page, backend>> => IInv'
    BY StepsKeepInvariant
  <1>3. IInv /\ Kiosk!TypeOK => TypeOK
    BY DEF IInv, TypeOK
  <1>4. Spec => [](Kiosk!TypeOK /\ Kiosk!QueuedUntilServed)
    BY PageKeepsItsWord
  <1> QED BY <1>1, <1>2, <1>3, <1>4, PTL DEF Spec

\* No frame is forgotten by both sides, but for what failed transactions cost: a frame that
\* the page has shown the answer of, or deleted from its queue, is logged as nobody's, or
\* covered by a frame that is registered or about to be, or by one of those whose
\* transactions failed, of which there are no more than failures.
THEOREM DeliveryLosesNothing ==
  ASSUME Kiosk!KioskConstantsOK, DeliveryConstantsOK
  PROVE  Spec => []NothingIsLost
  <1>1. Init => IInv
    BY InitEstablishes
  <1>2. IInv /\ Kiosk!TypeOK /\ [Next]_<<page, backend>> => IInv'
    BY StepsKeepInvariant
  <1>3. IInv /\ Kiosk!QueuedUntilServed => NothingIsLost
    <2> SUFFICES ASSUME IInv, Kiosk!QueuedUntilServed  PROVE NothingIsLost
      OBVIOUS
    <2>1. \A f \in Frames : Acknowledged(f) => f \in rejected \/ cover[f] # None
      BY DEF IInv, Kiosk!QueuedUntilServed, Acknowledged
    <2>3. Answering \ (registered \cup {tx}) \subseteq Owing
      BY DEF Answering, Owing
    <2>4. PICK some, all : some = Answering \ (registered \cup {tx}) /\ all = Owing
      OBVIOUS
    <2>5. IsFiniteSet(all) /\ Cardinality(all) <= faults /\ faults \in Nat
      BY <2>4 DEF IInv, OwingBounded
    <2>6. IsFiniteSet(some) /\ Cardinality(some) <= Cardinality(all)
      BY <2>3, <2>4, <2>5, FS_Subset
    <2>7. Cardinality(some) \in Nat /\ Cardinality(all) \in Nat
      BY <2>5, <2>6, FS_CardinalityType
    <2>8. Cardinality(some) <= faults
      BY <2>5, <2>6, <2>7
    <2> QED BY <2>1, <2>4, <2>8 DEF NothingIsLost
  <1>4. Spec => [](Kiosk!TypeOK /\ Kiosk!QueuedUntilServed)
    BY PageKeepsItsWord
  <1> QED BY <1>1, <1>2, <1>3, <1>4, PTL DEF Spec
================================================================================
