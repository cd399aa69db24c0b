------------------------------ MODULE Lattice ------------------------------
(***************************************************************************)
(* The shared contract of the control plane (internal/pipeline/types.go):  *)
(* the fail-closed verdict lattice, the confidence axis and the policy     *)
(* that assigns a confidence to a finding.  Verdicts are ordered integers, *)
(* so "most suspicious wins" is the maximum.                               *)
(***************************************************************************)
EXTENDS Integers

Benign     == 0
Unknown    == 1
Suspicious == 2
Malicious  == 3
Verdicts   == 0..3

ConfLow     == 0
ConfMedium  == 1
ConfHigh    == 2
Confidences == 0..2

(* pipeline.Max folded over a set: the most suspicious verdict of S.       *)
Join(S) == CHOOSE v \in S : \A w \in S : w <= v

(* The fail-closed answer for a worst signal s: never below UNKNOWN, and   *)
(* not below SUSPICIOUS when something was not analysed.                   *)
Floor(s, gap) == Join({Unknown, s} \cup (IF gap THEN {Suspicious} ELSE {}))

(* pipeline.ParseVerdict: the wire forms, and what everything else becomes. *)
WireVerdicts == {"BENIGN", "UNKNOWN", "SUSPICIOUS", "MALICIOUS"}
ParseVerdict(s) ==
  IF s \in WireVerdicts
  THEN [v  |-> CASE s = "BENIGN"     -> Benign
                 [] s = "UNKNOWN"    -> Unknown
                 [] s = "SUSPICIOUS" -> Suspicious
                 [] OTHER            -> Malicious,
        ok |-> TRUE]
  ELSE [v |-> Suspicious, ok |-> FALSE]
============================================================================
