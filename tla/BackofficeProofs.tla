----------------------------- MODULE BackofficeProofs -----------------------------
(***************************************************************************)
(* What the components around the pipeline promise holds of every          *)
(* behaviour of Backoffice, for any values of its constants.               *)
(*                                                                         *)
(* Of the verdict the proof is here.  The sum of what the models said of   *)
(* "real" exceeds what one of them said by no more than the others could   *)
(* say at most (SumIsBounded), and a score that is not 0 is the mean of    *)
(* all of them (ScoreIsMean).  A score above the threshold then leaves     *)
(* every single model above one half.                                      *)
(*                                                                         *)
(* So is the proof of the device keys.  The key a row holds belongs to an  *)
(* operation that was committed on it (KeysHaveOwners), so once nothing is *)
(* under way it was shown; and last_seen_at is behind the requests         *)
(* recorded in it by no more than a request may take (LastSeenKeepsUp),    *)
(* because none still under way is older (RequestsArePrompt).              *)
(*                                                                         *)
(* The other components have modules of their own, and a step of           *)
(* Backoffice is a step of a component or leaves it alone.                 *)
(***************************************************************************)
EXTENDS Backoffice, TLAPS

allVars == <<part, limitVars, deviceVars, reportVars, verdictVars, deliveryVars>>

\* ---- The verdict ----------------------------------------------------------------
VerdictInv ==
  Verdict!TypeOK /\ Verdict!SumIsBounded /\ Verdict!ScoreIsMean /\ Verdict!Unanimous

\* A model that gives more than half to "real" calls the face real.
LEMMA HalfDecides ==
  ASSUME Unit \in Nat, NEW o \in Verdict!Outputs, 2 * o[1] > Unit
  PROVE  Verdict!Argmax(o) = 1
  BY DEF Verdict!Outputs, Verdict!Labels, Verdict!Argmax

\* What is assumed of the threshold, without the products by an unknown number of models.
LEMMA ThresholdIsHigh ==
  ASSUME Verdict!VerdictConstantsOK, NEW s \in Nat, NEW sum \in Nat, NEW p \in Nat,
         s >= Threshold, 2 * (Models * s - sum) <= Models,
         sum <= p + (Models - 1) * Unit
  PROVE  2 * p > Unit
  <1>1. Models \in Nat /\ Unit \in Nat /\ Threshold \in Nat
    BY DEF Verdict!VerdictConstantsOK
  <1>2. Models * Threshold <= Models * s
    BY <1>1
  <1>3. 2 * Models * Threshold = 2 * (Models * Threshold)
    BY <1>1
  <1>4. (2 * Models - 1) * Unit = 2 * (Models * Unit) - Unit
    BY <1>1
  <1>5. (Models - 1) * Unit = Models * Unit - Unit
    BY <1>1
  <1>6. 2 * (Models * Unit) - Unit < 2 * (Models * Threshold) - Models
    BY <1>3, <1>4 DEF Verdict!VerdictConstantsOK
  <1>7. Models * Unit \in Int /\ Models * Threshold \in Int /\ Models * s \in Int
    BY <1>1
  <1> HIDE DEF Verdict!VerdictConstantsOK
  <1> QED BY <1>1, <1>2, <1>5, <1>6, <1>7

\* 0 does not reach the threshold.
LEMMA ThresholdIsPositive ==
  ASSUME Verdict!VerdictConstantsOK  PROVE  Threshold > 0
  <1>1. Models \in Nat \ {0} /\ Unit \in Nat /\ Threshold \in Nat
    BY DEF Verdict!VerdictConstantsOK
  <1>2. (2 * Models - 1) * Unit >= 0
    BY <1>1
  <1>3. ASSUME Threshold = 0  PROVE 2 * Models * Threshold - Models < 0
    BY <1>1, <1>3
  <1> QED BY <1>1, <1>2, <1>3 DEF Verdict!VerdictConstantsOK

\* The invariant holds at the start.
LEMMA VerdictStarts ==
  ASSUME Verdict!VerdictConstantsOK  PROVE  Verdict!Init => VerdictInv
  <1> SUFFICES ASSUME Verdict!Init  PROVE VerdictInv
    OBVIOUS
  <1>1. Models \in Nat /\ Unit \in Nat
    BY DEF Verdict!VerdictConstantsOK
  <1>2. Len(outputs) = 0 /\ outputs \in Seq(Verdict!Outputs)
    BY DEF Verdict!Init
  <1>3. prediction \in [Verdict!Labels -> Nat] /\ prediction[1] = 0
    BY DEF Verdict!Init, Verdict!NoPrediction, Verdict!Labels
  <1>8. verdictPc = "idle" /\ isLive \in BOOLEAN /\ passed = FALSE /\ score = 0
    BY DEF Verdict!Init
  <1>4. Verdict!TypeOK
    <2>1. Len(outputs) <= Models
      BY <1>1, <1>2
    <2> QED BY <1>2, <1>3, <1>8, <2>1 DEF Verdict!TypeOK
  <1>5. 0 * Unit = 0
    BY <1>1
  <1>6. Verdict!SumIsBounded
    BY <1>2, <1>3, <1>5 DEF Verdict!SumIsBounded
  <1>7. Verdict!ScoreIsMean /\ Verdict!Unanimous
    BY DEF Verdict!Init, Verdict!ScoreIsMean, Verdict!Unanimous
  <1> QED BY <1>4, <1>6, <1>7 DEF VerdictInv

\* One more vote: the sum grows by it, and by at most Unit for all the others.
LEMMA RunModelKeeps ==
  ASSUME Verdict!VerdictConstantsOK, VerdictInv, NEW o \in Verdict!Outputs,
         Verdict!RunModel(o)
  PROVE  VerdictInv'
  <1> USE DEF Verdict!VerdictConstantsOK
  <1> DEFINE n == Len(outputs)
  <1>1. outputs \in Seq(Verdict!Outputs) /\ n \in Nat /\ n < Models
    BY DEF Verdict!RunModel, VerdictInv, Verdict!TypeOK
  <1>2. /\ Len(outputs') = n + 1 /\ outputs' \in Seq(Verdict!Outputs)
        /\ outputs'[n + 1] = o
        /\ \A i \in 1..n : outputs'[i] = outputs[i] /\ outputs[i] \in Verdict!Outputs
    BY <1>1 DEF Verdict!RunModel
  <1>3. prediction \in [Verdict!Labels -> Nat] /\ prediction'[1] = prediction[1] + o[1]
    BY DEF Verdict!RunModel, VerdictInv, Verdict!TypeOK, Verdict!Labels
  <1>4. o \in [Verdict!Labels -> Nat] /\ o[1] \in 0..Unit
    BY DEF Verdict!Outputs, Verdict!Labels
  <1>5. /\ verdictPc = "predicting" /\ verdictPc' = verdictPc
        /\ score' = score /\ passed' = passed /\ isLive' = isLive
    BY DEF Verdict!RunModel
  <1>6. score = 0 /\ passed = FALSE
    BY <1>5 DEF VerdictInv, Verdict!ScoreIsMean
  <1>7. Verdict!TypeOK'
    <2>1. prediction' \in [Verdict!Labels -> Nat]
      BY <1>3, <1>4 DEF Verdict!RunModel
    <2>2. Len(outputs') <= Models
      BY <1>1, <1>2
    <2> QED BY <1>2, <1>5, <2>1, <2>2 DEF VerdictInv, Verdict!TypeOK
  <1>8. Verdict!SumIsBounded'
    <2>1. (n + 1) * Unit = n * Unit + Unit /\ (n - 1) * Unit = n * Unit - Unit
          /\ (n + 1 - 1) * Unit = n * Unit /\ n * Unit \in Int
      BY <1>1
    <2>2. prediction[1] <= n * Unit
      BY DEF VerdictInv, Verdict!SumIsBounded
    <2>3. prediction'[1] <= Len(outputs') * Unit
      BY <1>2, <1>3, <1>4, <2>1, <2>2, 1 \in Verdict!Labels DEF Verdict!Labels
    <2>4. ASSUME NEW i \in 1..Len(outputs')
          PROVE  prediction'[1] <= outputs'[i][1] + (Len(outputs') - 1) * Unit
      <3>0. prediction[1] \in Nat
        BY <1>3 DEF Verdict!Labels
      <3>1. CASE i = n + 1
        BY <1>2, <1>3, <1>4, <2>1, <2>2, <3>0, <3>1
      <3>2. CASE i \in 1..n
        <4>1. prediction[1] <= outputs[i][1] + (n - 1) * Unit
          BY <3>2 DEF VerdictInv, Verdict!SumIsBounded
        <4>2. outputs[i][1] \in Int
          <5>1. outputs[i] \in Verdict!Outputs
            BY <1>2, <3>2
          <5> HIDE DEF Verdict!VerdictConstantsOK, n
          <5> QED BY <5>1 DEF Verdict!Outputs, Verdict!Labels
        <4> QED BY <1>2, <1>3, <1>4, <2>1, <3>0, <3>2, <4>1, <4>2
      <3> QED BY <1>1, <1>2, <3>1, <3>2
    <2> QED BY <2>3, <2>4 DEF Verdict!SumIsBounded
  <1>9. Verdict!ScoreIsMean' /\ Verdict!Unanimous'
    BY <1>5, <1>6 DEF Verdict!ScoreIsMean, Verdict!Unanimous
  <1> QED BY <1>7, <1>8, <1>9 DEF VerdictInv

\* The mean of the sums, whichever way a tie is rounded.
LEMMA JudgeKeeps ==
  ASSUME Verdict!VerdictConstantsOK, VerdictInv, Verdict!Judge  PROVE  VerdictInv'
  <1> USE DEF Verdict!VerdictConstantsOK
  <1>1. score' \in Nat /\ 2 * (Models * score' - prediction[1]) <= Models
    BY DEF Verdict!Judge, Verdict!RoundedMean
  <1>2. Verdict!TypeOK'
    BY <1>1 DEF Verdict!Judge, Verdict!Goto, VerdictInv, Verdict!TypeOK
  <1>3. Verdict!SumIsBounded'
    BY DEF Verdict!Judge, VerdictInv, Verdict!SumIsBounded
  <1>4. passed = FALSE
    BY DEF Verdict!Judge, Verdict!Goto, VerdictInv, Verdict!ScoreIsMean
  <1>5. Verdict!ScoreIsMean' /\ Verdict!Unanimous'
    BY <1>1, <1>4 DEF Verdict!Judge, Verdict!Goto, Verdict!ScoreIsMean, Verdict!Unanimous
  <1> QED BY <1>2, <1>3, <1>5 DEF VerdictInv

\* A frame passes only if every model is above one half.
LEMMA DecideKeeps ==
  ASSUME Verdict!VerdictConstantsOK, VerdictInv, Verdict!Decide  PROVE  VerdictInv'
  <1>1. Verdict!TypeOK' /\ Verdict!SumIsBounded'
    BY DEF Verdict!Decide, Verdict!Goto, VerdictInv, Verdict!TypeOK, Verdict!SumIsBounded
  <1>2. Verdict!ScoreIsMean'
    BY DEF Verdict!Decide, Verdict!Goto, VerdictInv, Verdict!ScoreIsMean
  <1>3. ASSUME passed'
        PROVE  /\ Len(outputs) = Models
               /\ \A i \in 1..Len(outputs) : Verdict!Argmax(outputs[i]) = 1
    <2>1. score \in Nat /\ score >= Threshold
      BY <1>3 DEF Verdict!Decide, VerdictInv, Verdict!TypeOK
    <2>2. score # 0
      BY <2>1, ThresholdIsPositive DEF Verdict!VerdictConstantsOK
    <2>3. Len(outputs) = Models /\ 2 * (Models * score - prediction[1]) <= Models
      BY <2>2 DEF VerdictInv, Verdict!ScoreIsMean
    <2>4. ASSUME NEW i \in 1..Len(outputs)  PROVE  Verdict!Argmax(outputs[i]) = 1
      <3>1. outputs[i] \in Verdict!Outputs /\ Unit \in Nat
        BY DEF VerdictInv, Verdict!TypeOK, Verdict!VerdictConstantsOK
      <3>2. outputs[i][1] \in Nat /\ prediction[1] \in Nat
        BY <3>1 DEF Verdict!Outputs, Verdict!Labels, VerdictInv, Verdict!TypeOK
      <3>3. prediction[1] <= outputs[i][1] + (Models - 1) * Unit
        BY <2>3 DEF VerdictInv, Verdict!SumIsBounded
      <3>4. 2 * outputs[i][1] > Unit
        BY <2>1, <2>3, <3>2, <3>3, ThresholdIsHigh
      <3> QED BY <3>1, <3>4, HalfDecides
    <2> QED BY <2>3, <2>4
  <1>4. Verdict!Unanimous'
    BY <1>3 DEF Verdict!Unanimous, Verdict!Decide
  <1> QED BY <1>1, <1>2, <1>4 DEF VerdictInv

\* Every action keeps it.
LEMMA VerdictSteps ==
  ASSUME Verdict!VerdictConstantsOK, VerdictInv, [Verdict!Next]_Verdict!vars
  PROVE  VerdictInv'
  <1>1. CASE Verdict!Receive
    <2>1. Models \in Nat /\ Unit \in Nat /\ 0 * Unit = 0
      BY DEF Verdict!VerdictConstantsOK
    <2>2. Len(outputs') = 0 /\ outputs' \in Seq(Verdict!Outputs)
      BY <1>1 DEF Verdict!Receive
    <2>3. prediction' \in [Verdict!Labels -> Nat] /\ prediction'[1] = 0
      BY <1>1 DEF Verdict!Receive, Verdict!NoPrediction, Verdict!Labels
    <2>4. verdictPc' = "received" /\ isLive' \in BOOLEAN /\ passed' = FALSE /\ score' = 0
      BY <1>1 DEF Verdict!Receive
    <2>5. Verdict!TypeOK'
      <3>1. Len(outputs') <= Models
        BY <2>1, <2>2
      <3> QED BY <2>2, <2>3, <2>4, <3>1 DEF Verdict!TypeOK
    <2>6. Verdict!SumIsBounded'
      BY <2>1, <2>2, <2>3 DEF Verdict!SumIsBounded
    <2>7. Verdict!ScoreIsMean' /\ Verdict!Unanimous'
      BY <2>4 DEF Verdict!ScoreIsMean, Verdict!Unanimous
    <2> QED BY <2>5, <2>6, <2>7 DEF VerdictInv
  <1>2. CASE Verdict!Refuse
    BY <1>2 DEF Verdict!Refuse, Verdict!Goto, VerdictInv, Verdict!TypeOK, Verdict!SumIsBounded,
           Verdict!ScoreIsMean, Verdict!Unanimous
  <1>3. CASE Verdict!FindNoFace
    BY <1>3 DEF Verdict!FindNoFace, Verdict!Goto, VerdictInv, Verdict!TypeOK, Verdict!SumIsBounded,
           Verdict!ScoreIsMean, Verdict!Unanimous
  <1>4. CASE Verdict!FindFace
    BY <1>4 DEF Verdict!FindFace, Verdict!Goto, VerdictInv, Verdict!TypeOK, Verdict!SumIsBounded,
           Verdict!ScoreIsMean, Verdict!Unanimous
  <1>5. CASE \E o \in Verdict!Outputs : Verdict!RunModel(o)
    BY <1>5, RunModelKeeps
  <1>6. CASE Verdict!Judge
    BY <1>6, JudgeKeeps
  <1>7. CASE Verdict!Decide
    BY <1>7, DecideKeeps
  <1>8. CASE UNCHANGED Verdict!vars
    BY <1>8 DEF Verdict!vars, VerdictInv, Verdict!TypeOK, Verdict!SumIsBounded,
           Verdict!ScoreIsMean, Verdict!Unanimous
  <1> QED BY <1>1, <1>2, <1>3, <1>4, <1>5, <1>6, <1>7, <1>8 DEF Verdict!Next

\* The invariant holds in every behaviour.
LEMMA VerdictInductive == Spec => []VerdictInv
  <1>1. Init => VerdictInv
    BY VerdictsOK, VerdictStarts DEF Init
  <1>2. [Next]_allVars => [Verdict!Next]_Verdict!vars
    BY DEF Next, allVars, verdictVars, Verdict!vars
  <1>3. VerdictInv /\ [Verdict!Next]_Verdict!vars => VerdictInv'
    BY VerdictsOK, VerdictSteps
  <1> QED BY <1>1, <1>2, <1>3, PTL DEF Spec, allVars

\* No frame passes that one of the models, asked alone, would call a spoof, whatever the
\* number of models and however the threshold is set above VerdictConstantsOK's bound.
THEOREM FramesPassUnanimously == Spec => []Unanimous
  <1>1. VerdictInv => Unanimous
    BY DEF VerdictInv, Unanimous
  <1> QED BY <1>1, VerdictInductive, PTL

\* ---- The device keys ------------------------------------------------------------------
KeysInv ==
  Device!TypeOK /\ Device!KeysHaveOwners /\ Device!RequestsArePrompt /\ Device!LastSeenKeepsUp

\* It holds at the start.
LEMMA KeysStart == ASSUME Device!DeviceConstantsOK  PROVE  Device!Init => KeysInv
  BY DEF Device!DeviceConstantsOK, Device!Init, KeysInv, Device!TypeOK, Device!KeysHaveOwners,
         Device!RequestsArePrompt, Device!LastSeenKeepsUp, Device!Ops, Device!Running

\* Operations on a row keep the invariant.
LEMMA OperationsKeepKeys ==
  ASSUME Device!DeviceConstantsOK, KeysInv, NEW o \in Device!Ops,
         Device!Register(o) \/ Device!Rotate(o)
  PROVE  KeysInv'
  <1> USE DEF Device!DeviceConstantsOK, KeysInv, Device!TypeOK, Device!Goto, Device!Choose,
              Device!row, Device!locals, Device!Ops, Device!Running
  <1>1. CASE \E d \in Devices : Device!RefuseRegistration(o, d) \/ Device!MissRotation(o, d)
    BY <1>1 DEF Device!RefuseRegistration, Device!MissRotation, Device!KeysHaveOwners,
                Device!RequestsArePrompt, Device!LastSeenKeepsUp
  <1>2. CASE \E d \in Devices : Device!BeginRegistration(o, d) \/ Device!BeginRotation(o, d)
    BY <1>2 DEF Device!BeginRegistration, Device!BeginRotation, Device!KeysHaveOwners,
                Device!RequestsArePrompt, Device!LastSeenKeepsUp
  <1>3. CASE Device!CommitRegistration(o) \/ Device!CommitRotation(o)
    BY <1>3 DEF Device!CommitRegistration, Device!CommitRotation, Device!KeysHaveOwners,
                Device!RequestsArePrompt, Device!LastSeenKeepsUp
  <1>4. CASE Device!LoseRegistration(o)
    BY <1>4 DEF Device!LoseRegistration, Device!KeysHaveOwners, Device!RequestsArePrompt,
                Device!LastSeenKeepsUp
  <1>5. CASE Device!ShowKey(o)
    BY <1>5 DEF Device!ShowKey, Device!KeysHaveOwners, Device!RequestsArePrompt,
                Device!LastSeenKeepsUp
  <1> QED BY <1>1, <1>2, <1>3, <1>4, <1>5 DEF Device!Register, Device!Rotate

\* Requests of a kiosk keep it.
LEMMA RequestsKeepKeys ==
  ASSUME Device!DeviceConstantsOK, KeysInv, NEW r \in Requests, Device!Request(r)
  PROVE  KeysInv'
  <1> USE DEF Device!DeviceConstantsOK, KeysInv, Device!TypeOK, Device!Goto, Device!Choose,
              Device!row, Device!locals, Device!Ops, Device!Running
  <1>1. CASE \E d \in Devices, k \in Device!Ops : Device!Authenticate(r, d, k)
    <2>1. Device!TypeOK'
      BY <1>1 DEF Device!Authenticate
    <2>2. Device!KeysHaveOwners'
      BY <1>1 DEF Device!Authenticate, Device!KeysHaveOwners
    <2>3. Device!RequestsArePrompt'
      BY <1>1 DEF Device!Authenticate, Device!RequestsArePrompt
    <2>4. Device!LastSeenKeepsUp'
      BY <1>1 DEF Device!Authenticate, Device!LastSeenKeepsUp
    <2> QED BY <2>1, <2>2, <2>3, <2>4
  <1>2. CASE \E d \in Devices, k \in Device!Ops : Device!Reject(r, d, k)
    BY <1>2 DEF Device!Reject, Device!KeysHaveOwners, Device!RequestsArePrompt,
                Device!LastSeenKeepsUp
  <1>3. CASE Device!See(r)
    BY <1>3 DEF Device!See, Device!KeysHaveOwners, Device!RequestsArePrompt,
                Device!LastSeenKeepsUp
  <1>4. CASE Device!Leave(r)
    BY <1>4 DEF Device!Leave, Device!KeysHaveOwners, Device!RequestsArePrompt,
                Device!LastSeenKeepsUp
  <1> QED BY <1>1, <1>2, <1>3, <1>4 DEF Device!Request

\* So do faults and time.
LEMMA FaultsKeepKeys ==
  ASSUME Device!DeviceConstantsOK, KeysInv,
         (\E o \in Device!Ops \cup Requests : Device!Fail(o)) \/ Device!Crash \/ Device!Tick
  PROVE  KeysInv'
  <1> USE DEF Device!DeviceConstantsOK, KeysInv, Device!TypeOK, Device!Fault, Device!row,
              Device!locals, Device!Ops, Device!Running
  <1>1. CASE \E o \in Device!Ops \cup Requests : Device!Fail(o)
    BY <1>1 DEF Device!Fail, Device!KeysHaveOwners, Device!RequestsArePrompt,
                Device!LastSeenKeepsUp
  <1>2. CASE Device!Crash
    BY <1>2 DEF Device!Crash, Device!KeysHaveOwners, Device!RequestsArePrompt,
                Device!LastSeenKeepsUp
  <1>3. CASE Device!Tick
    BY <1>3 DEF Device!Tick, Device!KeysHaveOwners, Device!RequestsArePrompt,
                Device!LastSeenKeepsUp
  <1> QED BY <1>1, <1>2, <1>3

\* Every step keeps it.
LEMMA KeysKept ==
  ASSUME Device!DeviceConstantsOK, KeysInv, [Device!Next]_Device!vars  PROVE  KeysInv'
  <1>1. CASE UNCHANGED Device!vars
    BY <1>1 DEF Device!vars, Device!row, Device!locals, KeysInv, Device!TypeOK,
                Device!KeysHaveOwners, Device!RequestsArePrompt, Device!LastSeenKeepsUp
  <1> QED BY <1>1, OperationsKeepKeys, RequestsKeepKeys, FaultsKeepKeys DEF Device!Next,
         Device!Ops

\* So it always holds.
LEMMA KeysInductive == ASSUME Device!DeviceConstantsOK  PROVE  Device!Spec => []KeysInv
  <1>1. Device!Init => KeysInv
    BY KeysStart
  <1>2. KeysInv /\ [Device!Next]_Device!vars => KeysInv'
    BY KeysKept
  <1> QED BY <1>1, <1>2, PTL DEF Device!Spec

\* ---- A behaviour is one of each component ---------------------------------------------
\* Of the rate limiter.
LEMMA LimiterBehaviour == Spec => Limit!Spec
  <1>1. Init => Limit!Init
    BY DEF Init
  <1>2. [Next]_allVars => [Limit!Next]_Limit!vars
    BY DEF Next, allVars, limitVars, Limit!vars, Limit!locals
  <1> QED BY <1>1, <1>2, PTL DEF Spec, allVars, Limit!Spec

\* Of the devices table.
LEMMA DeviceBehaviour == Spec => Device!Spec
  <1>1. Init => Device!Init
    BY DEF Init
  <1>2. [Next]_allVars => [Device!Next]_Device!vars
    BY DEF Next, allVars, deviceVars, Device!vars, Device!row, Device!locals
  <1> QED BY <1>1, <1>2, PTL DEF Spec, allVars, Device!Spec

\* Of the reports.
LEMMA ReportBehaviour == Spec => Report!Spec
  <1>1. Init => Report!Init
    BY DEF Init
  <1>2. [Next]_allVars => [Report!Next]_Report!vars
    BY DEF Next, allVars, reportVars, Report!vars, Report!locals
  <1> QED BY <1>1, <1>2, PTL DEF Spec, allVars, Report!Spec

\* Of the kiosk with its backend.
LEMMA DeliveryBehaviour == Spec => Delivery!Spec
  <1>1. Init => Delivery!Init
    BY DEF Init
  <1>2. [Next]_allVars => [Delivery!Next]_<<Delivery!page, Delivery!backend>>
    BY DEF Next, allVars, deliveryVars, Delivery!page, Delivery!backend
  <1> QED BY <1>1, <1>2, PTL DEF Spec, allVars, Delivery!Spec

\* ---- What holds of each ---------------------------------------------------------------
\* Every variable of every component stays in its type.
THEOREM TypeCorrect == Spec => []TypeOK
  <1>0. Limit!Spec => []Limit!TypeOK
    BY LimiterOK, Limit!TypeCorrect
  <1>1. KeysInv => Device!TypeOK
    BY DEF KeysInv
  <1>2. Report!Spec => []Report!TypeOK
    BY ReportsOK, Report!TypeCorrect
  <1>3. Delivery!Spec => []Delivery!TypeOK
    BY DeliveryOK, Delivery!TypeCorrect
  <1>4. VerdictInv => Verdict!TypeOK
    BY DEF VerdictInv
  <1> QED BY <1>0, <1>1, <1>2, <1>3, <1>4, LimiterBehaviour, DeviceBehaviour, ReportBehaviour,
             DeliveryBehaviour, DevicesOK, KeysInductive, VerdictInductive, PTL DEF TypeOK

\* Of what a device begins in one window, no more than the limit is let past while the
\* window lasts, and no more than twice the limit by the end of the next, however late
\* Redis counts.
THEOREM LimitIsKept == Spec => []WithinRateLimit
  <1>1. Limit!Spec => []Limit!WithinRateLimit
    BY LimiterOK, Limit!LimitIsKept
  <1> QED BY <1>1, LimiterBehaviour, PTL DEF WithinRateLimit

\* However registrations and rotations race, the key that works was shown to somebody.
THEOREM WorkingKeysAreKnown == Spec => []WorkingKeyIsKnown
  <1>1. KeysInv => Device!WorkingKeyIsKnown
    BY DevicesOK DEF Device!DeviceConstantsOK, KeysInv, Device!TypeOK, Device!KeysHaveOwners,
                     Device!WorkingKeyIsKnown, Device!Running
  <1> QED BY <1>1, DevicesOK, KeysInductive, DeviceBehaviour, PTL DEF WorkingKeyIsKnown

\* last_seen_at never falls behind a request recorded in it by more than the longest
\* request takes, whatever that is.
THEOREM LastSeenIsRecent == Spec => []LastSeenKeepsUp
  <1>1. KeysInv => Device!LastSeenKeepsUp
    BY DEF KeysInv
  <1> QED BY <1>1, DevicesOK, KeysInductive, DeviceBehaviour, PTL DEF LastSeenKeepsUp

\* A key that was replaced never works again: the only steps that write a key write that
\* of an operation not yet committed.
THEOREM ReplacedKeysAreDead == Spec => ReplacedKeyIsDead
  <1> DEFINE Dead == \A k \in Device!Ops : keyPc[k] \in {"refresh", "shown"} =>
                       \A d \in Devices : key[d] # k => key'[d] # k
  <1>1. ASSUME KeysInv, [Device!Next]_Device!vars  PROVE  Dead
    <2>1. CASE key' = key
      BY <2>1
    <2>2. CASE \E o \in Device!Ops : Device!CommitRegistration(o) \/ Device!CommitRotation(o)
      BY <1>1, <2>2 DEF Device!CommitRegistration, Device!CommitRotation, Device!Goto, KeysInv,
                        Device!TypeOK
    <2>3. \/ key' = key
          \/ \E o \in Device!Ops : Device!CommitRegistration(o) \/ Device!CommitRotation(o)
      BY <1>1 DEF Device!Next, Device!vars, Device!row, Device!Ops, Device!Register,
                  Device!Rotate, Device!Request, Device!RefuseRegistration,
                  Device!BeginRegistration, Device!LoseRegistration, Device!ShowKey,
                  Device!MissRotation, Device!BeginRotation, Device!Authenticate, Device!Reject,
                  Device!See, Device!Leave, Device!Fail, Device!Crash, Device!Tick
    <2> QED BY <2>1, <2>2, <2>3
  <1>2. Device!Spec => Device!ReplacedKeyIsDead
    BY <1>1, DevicesOK, KeysInductive, PTL DEF Device!Spec, Device!ReplacedKeyIsDead
  <1> QED BY <1>2, DeviceBehaviour, PTL DEF ReplacedKeyIsDead

\* No session ends before it began by more than a submission takes, on whatever day.
THEOREM DurationsAreBounded == Spec => []DurationsBounded
  <1>1. Report!Spec => []Report!DurationsBounded
    BY ReportsOK, Report!DurationsAreBounded
  <1> QED BY <1>1, ReportBehaviour, PTL DEF DurationsBounded

\* The history of a day that is over only changes by check-outs that close its rows.
THEOREM SettledDaysAreFixed == Spec => SettledDaysKeepRows
  <1>1. Report!Spec => Report!SettledDaysKeepRows
    BY ReportsOK, Report!SettledDaysAreFixed
  <1> QED BY <1>1, ReportBehaviour, PTL DEF SettledDaysKeepRows

\* A frame that can be opened stays so over restarts that keep the key or turn
\* encryption on.
THEOREM FramesStayOpen == Spec => FramesStayReadable
  <1>1. Report!Spec => Report!FramesStayReadable
    BY ReportsOK, Report!FramesStayOpen
  <1> QED BY <1>1, ReportBehaviour, PTL DEF FramesStayReadable

\* A frame the page no longer keeps is logged as nobody's, registered, or covered by one
\* that is or is about to be, but for those that failed transactions cost.
THEOREM DeliveryLosesNothing == Spec => []NothingIsLost
  <1>1. Delivery!Spec => []Delivery!NothingIsLost
    BY DeliveryOK, Delivery!DeliveryLosesNothing
  <1> QED BY <1>1, DeliveryBehaviour, PTL DEF NothingIsLost

================================================================================
