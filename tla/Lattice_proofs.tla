--------------------------- MODULE Lattice_proofs ---------------------------
(* Facts about the verdict lattice that the other proofs cite.             *)
EXTENDS Lattice, TLAPS

(* pipeline.Max picks one of its arguments, and the most suspicious one.   *)
LEMMA JoinIsMax ==
  ASSUME NEW S \in SUBSET Verdicts, S # {}
  PROVE  /\ Join(S) \in S
         /\ \A w \in S : w <= Join(S)
         /\ Join(S) \in Verdicts
<1>1. \E v \in S : \A w \in S : w <= v
  <2>1. CASE 3 \in S
    BY <2>1 DEF Verdicts
  <2>2. CASE 3 \notin S /\ 2 \in S
    BY <2>2 DEF Verdicts
  <2>3. CASE 3 \notin S /\ 2 \notin S /\ 1 \in S
    BY <2>3 DEF Verdicts
  <2>4. CASE 3 \notin S /\ 2 \notin S /\ 1 \notin S
    <3>1. \A w \in S : w = 0
      BY <2>4 DEF Verdicts
    <3>2. PICK v \in S : TRUE
      OBVIOUS
    <3> QED
      BY <3>1, <3>2
  <2> QED
    BY <2>1, <2>2, <2>3, <2>4
<1> QED
  BY <1>1 DEF Join

(* An upper bound of S that belongs to S is its join.                      *)
LEMMA JoinUnique ==
  ASSUME NEW S \in SUBSET Verdicts, NEW m \in S, \A w \in S : w <= m
  PROVE  Join(S) = m
<1>1. Join(S) \in S /\ m <= Join(S)
  BY JoinIsMax
<1>2. Join(S) <= m
  BY <1>1
<1>3. Join(S) \in Int /\ m \in Int
  <2>1. Join(S) \in Verdicts /\ m \in Verdicts
    BY <1>1
  <2> QED
    BY <2>1 DEF Verdicts
<1> QED
  BY <1>1, <1>2, <1>3

(* Joining in two steps is joining at once.                                *)
LEMMA JoinUnion ==
  ASSUME NEW A \in SUBSET Verdicts, A # {}, NEW v \in Verdicts,
         v = Join(A), NEW B \in SUBSET Verdicts
  PROVE  Join({v} \cup B) = Join(A \cup B)
<1>1. v \in A /\ \A w \in A : w <= v
  BY JoinIsMax
<1>2. /\ Join({v} \cup B) \in {v} \cup B
      /\ \A w \in {v} \cup B : w <= Join({v} \cup B)
      /\ Join({v} \cup B) \in Verdicts
  <2>1. {v} \cup B \in SUBSET Verdicts /\ {v} \cup B # {}
    OBVIOUS
  <2> QED
    BY <2>1, JoinIsMax
<1>3. \A w \in A \cup B : w <= Join({v} \cup B)
  BY <1>1, <1>2 DEF Verdicts
<1>4. Join({v} \cup B) \in A \cup B
  BY <1>1, <1>2
<1> QED
  BY <1>3, <1>4, JoinUnique

(* The fail-closed floor is a verdict, and it is never BENIGN.             *)
LEMMA FloorType ==
  ASSUME NEW s \in Verdicts, NEW gap \in BOOLEAN
  PROVE  /\ Floor(s, gap) \in Verdicts
         /\ Floor(s, gap) >= Unknown
         /\ Floor(s, gap) >= s
         /\ gap => Floor(s, gap) >= Suspicious
<1> DEFINE S == {Unknown, s} \cup (IF gap THEN {Suspicious} ELSE {})
<1>1. S \in SUBSET Verdicts /\ S # {}
  BY DEF Verdicts, Unknown, Suspicious
<1>2. Join(S) \in Verdicts /\ \A w \in S : w <= Join(S)
  BY <1>1, JoinIsMax
<1> QED
  BY <1>2 DEF Floor, Verdicts, Unknown, Suspicious

(* Raising a floored answer by new evidence B gives the floor of the       *)
(* raised signal.                                                          *)
LEMMA FloorJoin ==
  ASSUME NEW s \in Verdicts, NEW gap \in BOOLEAN, NEW B \in SUBSET Verdicts
  PROVE  Join({Floor(s, gap)} \cup B) = Floor(Join({s} \cup B), gap)
<1> DEFINE G == IF gap THEN {Suspicious} ELSE {}
           t == Join({s} \cup B)
<1>0. G \in SUBSET Verdicts /\ Unknown \in Verdicts
  BY DEF Verdicts, Suspicious, Unknown
<1>1. Floor(s, gap) \in Verdicts /\ {Unknown, s} \cup G \in SUBSET Verdicts
  BY <1>0, FloorType
<1>2. Join({Floor(s, gap)} \cup B) = Join(({Unknown, s} \cup G) \cup B)
  <2>1. Floor(s, gap) = Join({Unknown, s} \cup G)
    BY DEF Floor
  <2> HIDE DEF G
  <2> QED
    BY <1>1, <2>1, JoinUnion
<1>3. {s} \cup B \in SUBSET Verdicts /\ {s} \cup B # {}
  OBVIOUS
<1>4. t \in Verdicts
  BY <1>3, JoinIsMax
<1>5. Join({t} \cup ({Unknown} \cup G)) = Join(({s} \cup B) \cup ({Unknown} \cup G))
  <2> DEFINE A == {s} \cup B
             C == {Unknown} \cup G
  <2>1. A \in SUBSET Verdicts /\ A # {} /\ C \in SUBSET Verdicts
    BY <1>0, <1>3
  <2>2. t = Join(A)
    OBVIOUS
  <2> HIDE DEF A, C, t
  <2>3. Join({t} \cup C) = Join(A \cup C)
    BY <1>4, <2>1, <2>2, JoinUnion
  <2> QED
    BY <2>3 DEF A, C
<1>6. ({Unknown, s} \cup G) \cup B = ({s} \cup B) \cup ({Unknown} \cup G)
  OBVIOUS
<1>7. {t} \cup ({Unknown} \cup G) = {Unknown, t} \cup G
  OBVIOUS
<1> QED
  BY <1>2, <1>5, <1>6, <1>7 DEF Floor

(* Flooring an answer to SUSPICIOUS is the floor of the same signal with a *)
(* gap.                                                                    *)
LEMMA FloorGap ==
  ASSUME NEW s \in Verdicts, NEW gap \in BOOLEAN
  PROVE  Join({Floor(s, gap), Suspicious}) = Floor(s, TRUE)
<1> DEFINE A == {Unknown, s} \cup (IF gap THEN {Suspicious} ELSE {})
<1>1. A \in SUBSET Verdicts /\ {Suspicious} \in SUBSET Verdicts
  BY DEF Verdicts, Suspicious, Unknown
<1>2. Floor(s, gap) = Join(A) /\ Floor(s, gap) \in Verdicts
  BY FloorType DEF Floor
<1>3. Join({Floor(s, gap)} \cup {Suspicious}) = Join(A \cup {Suspicious})
  <2> DEFINE v == Floor(s, gap)
             B == {Suspicious}
  <2>1. A # {} /\ A \in SUBSET Verdicts /\ B \in SUBSET Verdicts
    BY <1>1
  <2>2. v \in Verdicts /\ v = Join(A)
    BY <1>2
  <2> HIDE DEF A, B, v
  <2>3. Join({v} \cup B) = Join(A \cup B)
    BY <2>1, <2>2, JoinUnion
  <2> QED
    BY <2>3 DEF v, B
<1>4. A \cup {Suspicious} = {Unknown, s} \cup {Suspicious}
  OBVIOUS
<1>5. {Floor(s, gap)} \cup {Suspicious} = {Floor(s, gap), Suspicious}
  OBVIOUS
<1> QED
  BY <1>3, <1>4, <1>5 DEF Floor
============================================================================
