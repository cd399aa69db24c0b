----------------------------- MODULE Autonomy -----------------------------
(***************************************************************************)
(* How far a hypothesis of the AI analyst is trusted: the confidence gate  *)
(* (internal/aiplane/gate.go) with the two track records it consults, the  *)
(* autonomy a category has earned (graduation.go) and how its confident    *)
(* claims held up (calibration.go).  An accuracy is a fraction of counts,  *)
(* a floor a percentage of them.                                           *)
(***************************************************************************)
EXTENDS Lattice

CONSTANTS MinToAutonomous, AccuracyFloor, ShadowFloor,
          CalMinObservations, CalHighFloor, CalMedFloor

ASSUME AutonomyConstants ==
  /\ MinToAutonomous \in Nat \ {0} /\ CalMinObservations \in Nat \ {0}
  /\ 0 < ShadowFloor /\ ShadowFloor <= AccuracyFloor /\ AccuracyFloor <= 100
  /\ 0 < CalMedFloor /\ CalMedFloor <= CalHighFloor /\ CalHighFloor <= 100
  /\ {ShadowFloor, AccuracyFloor, CalMedFloor, CalHighFloor} \subseteq Nat

(* The kinds of hypothesis the roster assembles, and those a gate may ever *)
(* accept without a human.                                                 *)
Kinds    == {"family", "technique"}
Eligible == {"technique"}

Claimed == {"LOW", "MEDIUM", "HIGH"}
NoOverride == ""

(* What the gate is told of a hypothesis: its kind and claimed confidence, *)
(* whether a citation resolves to a curated fact, and what the spine       *)
(* measured: refuted by the verifier, novel, or not reproduced.            *)
Hypothesis == [kind : Kinds, conf : Claimed, grounded : BOOLEAN,
               refuted : BOOLEAN, novel : BOOLEAN, shaky : BOOLEAN]

Tally == [right : Nat, total : Nat]
NoTally == [right |-> 0, total |-> 0]

Tallied(t, ok) == [right |-> IF ok THEN t.right + 1 ELSE t.right,
                   total |-> t.total + 1]
Below(t, floor) == 100 * t.right < floor * t.total

Mode(t) == IF t.total < MinToAutonomous  THEN "supervised"
           ELSE IF ~Below(t, AccuracyFloor) THEN "autonomous"
           ELSE IF Below(t, ShadowFloor)    THEN "shadow"
           ELSE "supervised"

(* The confidence a record of claims as confident as this one supports, or *)
(* NoOverride; never a higher one, and never a word on an honest LOW.      *)
Calibrated(t, conf) ==
  IF conf = "LOW" \/ t.total < CalMinObservations THEN NoOverride
  ELSE IF Below(t, CalMedFloor) THEN "LOW"
  ELSE IF conf = "HIGH" /\ Below(t, CalHighFloor) THEN "MEDIUM"
  ELSE NoOverride

Stopped(h, over)   == h.refuted \/ h.novel \/ h.shaky \/ over = "LOW"
Confident(h, over) == (IF over = NoOverride THEN h.conf ELSE over) # "LOW"

Accepts(h, over, mode) ==
  /\ mode = "autonomous" /\ h.kind \in Eligible
  /\ h.grounded /\ ~Stopped(h, over)

(* Not acceptable, but for a human to see; the rest is dropped.            *)
Escalates(h, over, mode) ==
  /\ mode # "shadow" /\ ~Accepts(h, over, mode)
  /\ h.grounded \/ (~h.refuted /\ (Confident(h, over) \/ h.novel))
=============================================================================
