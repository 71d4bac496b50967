------------------------------- MODULE FrameVerdict -------------------------------
(***************************************************************************)
(* Whether a frame shows a live face: the liveness service runs a face     *)
(* detector and then every anti-spoofing model on the best face, averages  *)
(* what they say, and the backend holds the average against a threshold.   *)
(*                                                                         *)
(* Scores are integers in units of 1/Unit, the precision of the rounded    *)
(* score.  What a network says is a free choice.                           *)
(***************************************************************************)
EXTENDS Integers, Sequences

CONSTANTS
  Models,    \* how many models the service has loaded (2)
  Unit,      \* a score of 1.0 (10000: four digits)
  Threshold  \* settings.liveness_threshold (0.85)

\* What is assumed of them.  The last conjunct holds of two models and a threshold
\* above 0.75, up to rounding: 4 * 8500 - 2 > 3 * 10000.
VerdictConstantsOK ==
  /\ Models \in Nat \ {0} /\ Unit \in Nat \ {0} /\ Threshold \in Nat
  /\ (2 * Models - 1) * Unit < 2 * Models * Threshold - Models

Labels == 0..2  \* 1 is a real face, 0 and 2 are kinds of spoof

\* The softmax output of a model.
Outputs == {o \in [Labels -> 0..Unit] : o[0] + o[1] + o[2] = Unit}

VARIABLES
  pc,
  outputs,     \* what the models said so far
  prediction,  \* their sum, label by label
  isLive, score, passed

vars == <<pc, outputs, prediction, isLive, score, passed>>

NoPrediction == [l \in Labels |-> 0]

Init ==
  /\ pc = "idle"
  /\ outputs = <<>> /\ prediction = NoPrediction
  /\ isLive = FALSE /\ score = 0 /\ passed = FALSE

Goto(from, to) == pc = from /\ pc' = to

\* np.argmax: the first of the largest.
Argmax(o) ==
  IF o[0] >= o[1] /\ o[0] >= o[2] THEN 0 ELSE IF o[1] >= o[2] THEN 1 ELSE 2

\* ---- The service -------------------------------------------------------------------
Receive ==
  /\ pc \in {"idle", "decided", "error"} /\ pc' = "received"
  /\ outputs' = <<>> /\ prediction' = NoPrediction
  /\ isLive' = FALSE /\ score' = 0 /\ passed' = FALSE

\* An empty file or no image: 400.  One detection at most: squeeze drops the axis that
\* the next line indexes, and it raises: 500.
Refuse ==
  /\ Goto("received", "error")
  /\ UNCHANGED <<outputs, prediction, isLive, score, passed>>

\* The best detection is below detector_confidence.
FindNoFace ==
  /\ Goto("received", "answered")
  /\ isLive' = FALSE /\ score' = 0
  /\ UNCHANGED <<outputs, prediction, passed>>

FindFace ==
  /\ Goto("received", "predicting")
  /\ UNCHANGED <<outputs, prediction, isLive, score, passed>>

RunModel(o) ==
  /\ pc = "predicting" /\ Len(outputs) < Models
  /\ outputs' = Append(outputs, o)
  /\ prediction' = [l \in Labels |-> prediction[l] + o[l]]
  /\ UNCHANGED <<pc, isLive, score, passed>>

\* The nearest multiple of 1/Unit to the mean; a tie may be rounded either way.
RoundedMean(sum) == {s \in 0..Unit : 2 * (Models * s - sum) <= Models
                                     /\ 2 * (sum - Models * s) <= Models}

\* A slip: the sum as upstream leaves it, not divided by the number of models.
JudgeSum ==
  /\ Goto("predicting", "answered")
  /\ Len(outputs) = Models
  /\ isLive' = (Argmax(prediction) = 1)
  /\ score' = prediction[1]
  /\ UNCHANGED <<outputs, prediction, passed>>

Judge ==
  /\ Goto("predicting", "answered")
  /\ Len(outputs) = Models
  /\ isLive' = (Argmax(prediction) = 1)
  /\ score' \in RoundedMean(prediction[1])
  /\ UNCHANGED <<outputs, prediction, passed>>

\* ---- The backend's client -------------------------------------------------------------
Decide ==
  /\ Goto("answered", "decided")
  /\ passed' = (isLive /\ score >= Threshold)
  /\ UNCHANGED <<outputs, prediction, isLive, score>>

\* ---- Specification ---------------------------------------------------------------------
Next ==
  \/ Receive \/ Refuse \/ FindNoFace \/ FindFace
  \/ \E o \in Outputs : RunModel(o)
  \/ Judge \/ Decide

Spec == Init /\ [][Next]_vars

\* ---- Properties --------------------------------------------------------------------------
TypeOK ==
  /\ pc \in {"idle", "received", "error", "predicting", "answered", "decided"}
  /\ outputs \in Seq(Outputs) /\ Len(outputs) <= Models
  /\ prediction \in [Labels -> Nat]
  /\ isLive \in BOOLEAN /\ passed \in BOOLEAN
  /\ score \in Nat

\* No frame passes that one of the models, asked alone, would call a spoof: with the
\* threshold this high the mean leaves no model room to outvote another.  (A frame that
\* passed was seen by every model.)
Unanimous ==
  passed => /\ Len(outputs) = Models
            /\ \A i \in 1..Len(outputs) : Argmax(outputs[i]) = 1

\* ---- The inductive invariant behind it -------------------------------------------------
\* The sum can exceed what one model said only by what the others could say at most.
SumIsBounded ==
  /\ prediction[1] <= Len(outputs) * Unit
  /\ \A i \in 1..Len(outputs) :
       prediction[1] <= outputs[i][1] + (Len(outputs) - 1) * Unit

\* A score is nonzero only after the last model, and is their mean then.
ScoreIsMean ==
  /\ pc \in {"idle", "received", "predicting", "error"} => score = 0 /\ passed = FALSE
  /\ score # 0 => Len(outputs) = Models /\ 2 * (Models * score - prediction[1]) <= Models
  /\ passed => pc = "decided" /\ score >= Threshold
================================================================================
