-------------------------- MODULE Submission_proofs --------------------------
(***************************************************************************)
(* Proofs about SubmissionWorkflow for every value of its caps, every set  *)
(* of engine reports and every tree of artifacts.                          *)
(***************************************************************************)
EXTENDS Submission, Lattice_proofs, SequenceTheorems, WellFoundedInduction

(* A body carries verdicts, at least one of them.                          *)
LEMMA SignalsType ==
  ASSUME NEW b \in Body
  PROVE  Signals(b) \in SUBSET Verdicts /\ Signals(b) # {}
<1>1. b.verdict \in Verdicts /\ b.findings \in Seq(Finding)
  BY DEF Body
<1>2. \A i \in DOMAIN b.findings : b.findings[i] \in Finding
  BY <1>1
<1>3. \A i \in DOMAIN b.findings : b.findings[i].verdict \in Verdicts
  BY <1>2 DEF Finding
<1> QED
  BY <1>1, <1>3 DEF Signals

(* What a future holds, by its status.                                     *)
LEMMA FutureFacts ==
  ASSUME TypeOK, NEW e \in Engines, fut[e].st = "ok"
  PROVE  /\ fut[e].rep \in Reports(e)
         /\ fut[e].rep.body \in Body
         /\ fut[e].rep.labels \in SUBSET Labels
         /\ fut[e].rep.children \in 0..MaxChildren
         /\ fut[e].rep.ingested \in 0..MaxExtraction
         /\ fut[e].rep.children = 0 => fut[e].rep.ingested = 0
<1>1. fut[e].rep \in Reports(e)
  BY DEF TypeOK, IsFuture, Idle, Running
<1>2. NoOpBody \in Body
  BY DEF NoOpBody, Body, Verdicts, Unknown
<1>3. fut[e].rep \in Report
  BY <1>1 DEF Reports
<1>4. fut[e].rep.body \in Bodies \cup {NoOpBody}
  BY <1>3 DEF Report
<1> QED
  BY <1>1, <1>2, <1>3, <1>4, SubmissionConstants DEF Reports, Report

(* Flooring a result raises it and says so.                                *)
LEMMA FlooredFacts ==
  ASSUME NEW r \in Result
  PROVE  /\ Floored(r) \in Result
         /\ Floored(r).verdict = Join({r.verdict, Suspicious})
         /\ Floored(r).verdict >= r.verdict
         /\ Floored(r).incomplete = TRUE
         /\ r.findings \subseteq Floored(r).findings
<1>1. {r.verdict, Suspicious} \in SUBSET Verdicts /\ {r.verdict, Suspicious} # {}
  BY DEF Result, Verdicts, Suspicious
<1>2. /\ Join({r.verdict, Suspicious}) \in Verdicts
      /\ Join({r.verdict, Suspicious}) >= r.verdict
  BY <1>1, JoinIsMax DEF Verdicts
<1>3. Marker \in Recorded
  BY DEF Marker, Recorded, Verdicts, Suspicious, Confidences, ConfLow
<1> QED
  BY <1>2, <1>3 DEF Floored, Result

(* Flooring keeps the verdict exact.                                       *)
LEMMA FlooredExact ==
  ASSUME NEW r \in Result, NEW s \in Verdicts,
         r.verdict = Floor(s, r.incomplete)
  PROVE  Floored(r).verdict = Floor(s, TRUE)
  BY FlooredFacts, FloorGap DEF Result

(* Joining a report's signals.                                             *)
LEMMA JoinedFacts ==
  ASSUME NEW r \in Result, NEW b \in Body, NEW kept \in SUBSET DOMAIN b.findings
  PROVE  /\ Joined(r, b, kept) \in Result
         /\ Joined(r, b, kept).verdict = Join({r.verdict} \cup Signals(b))
         /\ Joined(r, b, kept).verdict >= r.verdict
         /\ Joined(r, b, kept).incomplete = r.incomplete
         /\ r.findings \subseteq Joined(r, b, kept).findings
<1> DEFINE ks == {[verdict |-> b.findings[i].verdict,
                   conf |-> b.findings[i].conf] : i \in kept}
           S == {r.verdict} \cup Signals(b)
<1>1. \A i \in DOMAIN b.findings : b.findings[i] \in Finding
  BY DEF Body
<1>2. ks \in SUBSET Recorded
  BY <1>1 DEF Finding, Recorded
<1>3. S \in SUBSET Verdicts /\ S # {} /\ r.verdict \in S
  BY SignalsType DEF Result
<1>4. Join(S) \in Verdicts /\ Join(S) >= r.verdict
  BY <1>3, JoinIsMax DEF Verdicts
<1>5. Joined(r, b, kept) = [r EXCEPT !.verdict = Join(S), !.findings = @ \cup ks]
  BY DEF Joined
<1> HIDE DEF S, ks
<1>6. r.findings \cup ks \in SUBSET Recorded
  BY <1>2 DEF Result
<1>7. /\ Joined(r, b, kept) \in Result
      /\ Joined(r, b, kept).verdict = Join(S)
      /\ Joined(r, b, kept).incomplete = r.incomplete
      /\ r.findings \subseteq Joined(r, b, kept).findings
  BY <1>4, <1>5, <1>6 DEF Result
<1> QED
  BY <1>4, <1>7 DEF S

(* fold keeps the result well-formed and raises it; it is exact for the    *)
(* joined signal, and incomplete for exactly the stated reasons.           *)
LEMMA FoldedFacts ==
  ASSUME NEW r \in Result, NEW b \in Body, NEW kept \in SUBSET DOMAIN b.findings,
         findingsCapped \in BOOLEAN
  PROVE  /\ Folded(r, b, kept) \in Result
         /\ Folded(r, b, kept).verdict >= r.verdict
         /\ Folded(r, b, kept).incomplete =
              (\/ r.incomplete
               \/ b.incomplete
               \/ kept # DOMAIN b.findings /\ ~findingsCapped)
         /\ r.findings \subseteq Folded(r, b, kept).findings
         /\ \A s \in Verdicts : r.verdict = Floor(s, r.incomplete) =>
              Folded(r, b, kept).verdict =
                Floor(Join({s} \cup Signals(b)), Folded(r, b, kept).incomplete)
<1> DEFINE j == Joined(r, b, kept)
           c == IF kept # DOMAIN b.findings /\ ~findingsCapped THEN Floored(j) ELSE j
           d == IF b.incomplete THEN [c EXCEPT !.verdict = Join({@, Suspicious}),
                                               !.incomplete = TRUE]
                                ELSE c
<1>0. Folded(r, b, kept) = d
  BY DEF Folded
<1>b. b.incomplete \in BOOLEAN /\ r.incomplete \in BOOLEAN /\ r.verdict \in Verdicts
  BY DEF Body, Result
<1>1. /\ j \in Result
      /\ j.verdict = Join({r.verdict} \cup Signals(b))
      /\ j.verdict >= r.verdict
      /\ j.incomplete = r.incomplete
      /\ r.findings \subseteq j.findings
  BY JoinedFacts
<1>2. ASSUME NEW s \in Verdicts, r.verdict = Floor(s, r.incomplete)
      PROVE  j.verdict = Floor(Join({s} \cup Signals(b)), j.incomplete)
  <2>1. Signals(b) \in SUBSET Verdicts
    BY SignalsType
  <2>2. Join({Floor(s, r.incomplete)} \cup Signals(b))
          = Floor(Join({s} \cup Signals(b)), r.incomplete)
    BY <1>b, <2>1, FloorJoin
  <2> QED
    BY <1>1, <1>2, <2>2
<1>t. ASSUME NEW s \in Verdicts
      PROVE  Join({s} \cup Signals(b)) \in Verdicts
  <2>1. {s} \cup Signals(b) \in SUBSET Verdicts /\ {s} \cup Signals(b) # {}
    BY SignalsType
  <2> QED
    BY <2>1, JoinIsMax
<1> HIDE DEF j
<1>3. /\ c \in Result
      /\ c.verdict >= r.verdict
      /\ c.incomplete = (r.incomplete \/ (kept # DOMAIN b.findings /\ ~findingsCapped))
      /\ r.findings \subseteq c.findings
      /\ \A s \in Verdicts : r.verdict = Floor(s, r.incomplete) =>
              c.verdict = Floor(Join({s} \cup Signals(b)), c.incomplete)
  <2>1. CASE kept # DOMAIN b.findings /\ ~findingsCapped
    <3>1. c = Floored(j)
      BY <2>1
    <3>2. /\ c \in Result /\ c.verdict >= j.verdict /\ c.incomplete = TRUE
          /\ j.findings \subseteq c.findings
      BY <1>1, <3>1, FlooredFacts
    <3>3. c.verdict >= r.verdict
      BY <1>b, <1>1, <3>2 DEF Result, Verdicts
    <3>4. ASSUME NEW s \in Verdicts, r.verdict = Floor(s, r.incomplete)
          PROVE  c.verdict = Floor(Join({s} \cup Signals(b)), TRUE)
      BY <1>1, <1>2, <1>t, <3>1, <3>4, FlooredExact
    <3> QED
      BY <1>1, <2>1, <3>2, <3>3, <3>4
  <2>2. CASE ~(kept # DOMAIN b.findings /\ ~findingsCapped)
    <3>1. c = j
      BY <2>2
    <3> QED
      BY <1>b, <1>1, <1>2, <2>2, <3>1
  <2> QED
    BY <2>1, <2>2
<1> HIDE DEF c
<1>4. CASE b.incomplete
  <2>1. d = [c EXCEPT !.verdict = Join({@, Suspicious}), !.incomplete = TRUE]
    BY <1>4
  <2>2. {c.verdict, Suspicious} \in SUBSET Verdicts /\ {c.verdict, Suspicious} # {}
    BY <1>3 DEF Result, Verdicts, Suspicious
  <2>3. Join({c.verdict, Suspicious}) \in Verdicts /\ Join({c.verdict, Suspicious}) >= c.verdict
    BY <1>3, <2>2, JoinIsMax DEF Result, Verdicts
  <2>4. /\ d \in Result /\ d.verdict = Join({c.verdict, Suspicious})
        /\ d.incomplete = TRUE /\ d.findings = c.findings
    BY <1>3, <2>1, <2>3 DEF Result
  <2>5. ASSUME NEW s \in Verdicts, r.verdict = Floor(s, r.incomplete)
        PROVE  d.verdict = Floor(Join({s} \cup Signals(b)), TRUE)
    <3>1. c.verdict = Floor(Join({s} \cup Signals(b)), c.incomplete)
      BY <1>3, <2>5
    <3>2. c.incomplete \in BOOLEAN
      BY <1>3 DEF Result
    <3> QED
      BY <1>t, <2>4, <3>1, <3>2, FloorGap
  <2>6. d.verdict >= r.verdict
    BY <1>b, <1>3, <2>3, <2>4 DEF Result, Verdicts
  <2> QED
    BY <1>0, <1>3, <1>4, <2>4, <2>5, <2>6
<1>5. CASE ~b.incomplete
  <2>1. d = c
    BY <1>5
  <2> QED
    BY <1>0, <1>3, <1>5, <2>1
<1> QED
  BY <1>b, <1>4, <1>5
----------------------------------------------------------------------------
(* The engines that report are named, the pseudo-engines are apart.         *)
LEMMA EngineNames ==
  Engines = {"ident", "yara", "capa", "die", "floss", "detonate", "extract"}
  BY DEF Engines, Rank

(* Where the walk goes after engine e: to an engine of the plan, or round  *)
(* the loop, and round the loop only after the extraction or once the      *)
(* ingest cap has tripped.                                                 *)
LEMMA AdvanceFacts ==
  ASSUME TypeOK, NEW e \in Engines, Advance(e)
  PROVE  /\ pc' \in Engines \cup {"loop"}
         /\ DOMAIN fut' = Engines
         /\ \A x \in Engines : IsFuture(x, fut'[x])
         /\ pc' = "loop" => e = "extract" \/ ingestCapped
         /\ pc' = "extract" => ~ingestCapped
         /\ pc' # "loop" => e # "extract"
<1>1. Wanted \in SUBSET Engines
  BY EngineNames DEF Wanted
<1>2. After(e) \in SUBSET Engines
  BY <1>1 DEF After
<1>3. "extract" \in After(e) \/ e = "extract" \/ ingestCapped
  BY EngineNames DEF After, Wanted, Rank
<1>4. ASSUME NEW n \in After(e)
      PROVE  e # "extract" /\ (n = "extract" => ~ingestCapped)
  <2>1. Rank["extract"] = 7 /\ \A x \in Engines : Rank[x] \in 1..7
    BY EngineNames DEF Rank
  <2>2. n \in Engines /\ Rank[n] > Rank[e] /\ n \in Wanted
    BY <1>2, <1>4 DEF After
  <2>3. n = "extract" => ~ingestCapped
    BY <2>2 DEF Wanted
  <2> QED
    BY <2>1, <2>2, <2>3
<1>5. CASE After(e) = {} /\ pc' = "loop" /\ fut' = [fut EXCEPT ![e] = Idle]
  <2>1. \A x \in Engines : IsFuture(x, fut'[x])
    BY <1>5 DEF TypeOK, IsFuture
  <2> QED
    BY <1>3, <1>5, <2>1 DEF TypeOK
<1>6. CASE \E n \in After(e) :
             /\ \A w \in After(e) : Rank[n] <= Rank[w]
             /\ pc' = n
             /\ fut' = [fut EXCEPT ![e] = Idle,
                                   ![n] = IF @.st = "idle" THEN Running ELSE @]
  <2>1. PICK n \in After(e) :
             /\ pc' = n
             /\ fut' = [fut EXCEPT ![e] = Idle,
                                   ![n] = IF @.st = "idle" THEN Running ELSE @]
    BY <1>6
  <2>2. n \in Engines /\ n # "loop"
    BY <1>2, EngineNames
  <2>3. DOMAIN fut' = Engines
    BY <2>1 DEF TypeOK
  <2>4. ASSUME NEW x \in Engines
        PROVE  IsFuture(x, fut'[x])
    <3>1. fut'[x] \in {fut[x], Idle, Running}
      BY <2>1, <2>2 DEF TypeOK
    <3> QED
      BY <3>1 DEF TypeOK, IsFuture
  <2> QED
    BY <1>4, <2>1, <2>2, <2>3, <2>4
<1> QED
  BY <1>5, <1>6 DEF Advance

(* What folding a body does to the counters it owns.                       *)
LEMMA FoldBodyFacts ==
  ASSUME TypeOK, NEW b \in Body,
         NEW spent \in [0..Len(b.findings) -> 0..MaxFindingsBytes],
         FoldBody(b, spent)
  PROVE  /\ Kept(spent, b) \in SUBSET DOMAIN b.findings
         /\ findingsBytes' \in 0..MaxFindingsBytes
         /\ findingsCapped' \in BOOLEAN
         /\ signal' \in Verdicts
         /\ failures' \in BOOLEAN
         /\ omitted' \in BOOLEAN
         /\ MarkerOnce(b, spent) \in {0, 1}
<1>1. Len(b.findings) \in Nat /\ Len(b.findings) \in 0..Len(b.findings)
  <2>1. b.findings \in Seq(Finding)
    BY DEF Body
  <2>2. Len(b.findings) \in Nat
    BY <2>1
  <2> QED
    BY <2>2
<1>2. signal' \in Verdicts
  <2>1. {signal} \cup Signals(b) \in SUBSET Verdicts /\ {signal} \cup Signals(b) # {}
    BY SignalsType DEF TypeOK
  <2> QED
    BY <2>1, JoinIsMax DEF FoldBody
<1>3. failures' \in BOOLEAN /\ omitted' \in BOOLEAN /\ findingsCapped' \in BOOLEAN
  BY DEF FoldBody, TypeOK, Body
<1>4. findingsBytes' \in 0..MaxFindingsBytes
  BY <1>1 DEF FoldBody
<1> QED
  BY <1>2, <1>3, <1>4 DEF Kept, MarkerOnce

(* The children join the queue one level down.                             *)
LEMMA QueueFacts ==
  ASSUME NEW q \in Seq(0..MaxDepth), NEW c \in Nat, NEW d \in 0..MaxDepth
  PROVE  q \o [i \in 1..c |-> d] \in Seq(0..MaxDepth)
         /\ Len(q \o [i \in 1..c |-> d]) = Len(q) + c
<1> DEFINE k == [i \in 1..c |-> d]
<1>1. k \in Seq(0..MaxDepth) /\ Len(k) = c
  <2>1. k \in [1..c -> 0..MaxDepth]
    OBVIOUS
  <2> QED
    BY <2>1
<1> HIDE DEF k
<1>2. q \o k \in Seq(0..MaxDepth) /\ Len(q \o k) = Len(q) + Len(k)
  BY <1>1, ConcatProperties
<1> QED
  BY <1>1, <1>2 DEF k
----------------------------------------------------------------------------
(* The counters are numbers.                                               *)
LEMMA Numbers ==
  ASSUME TypeOK
  PROVE  /\ processed \in 0..MaxArtifacts /\ depth \in 0..MaxDepth
         /\ queue \in Seq(0..MaxDepth) /\ Len(queue) \in Nat
         /\ submissionIngested \in Nat /\ offBudget \in Nat
         /\ discovered \in Nat /\ unpacked \in Nat /\ vault \in Nat
  BY DEF TypeOK

(* The initial state is well-typed.                                        *)
LEMMA TypeInit == Init => TypeOK
<1> SUFFICES ASSUME Init PROVE TypeOK
  OBVIOUS
<1>1. <<0>> \in Seq(0..MaxDepth) /\ 0 \in 0..MaxDepth
  BY SubmissionConstants
<1>2. pc \in Stages /\ labels \in SUBSET Labels
  BY DEF Init, Stages
<1>3. DOMAIN fut = Engines /\ \A e \in Engines : IsFuture(e, fut[e])
  BY DEF Init, IsFuture
<1>4. res \in Result
  BY DEF Init, Result, Verdicts, Unknown, Confidences, ConfLow
<1>5. /\ queue \in Seq(0..MaxDepth) /\ depth \in 0..MaxDepth
      /\ processed \in 0..MaxArtifacts /\ findingsBytes \in 0..MaxFindingsBytes
  <2>1. /\ queue = <<0>> /\ depth = 0 /\ processed = 0 /\ findingsBytes = 0
    BY DEF Init
  <2>2. 0 \in 0..MaxDepth /\ 0 \in 0..MaxArtifacts /\ 0 \in 0..MaxFindingsBytes
    BY SubmissionConstants
  <2> QED
    BY <1>1, <2>1, <2>2
<1>6. /\ signal \in Verdicts /\ submissionIngested \in Nat
      /\ discovered \in Nat /\ unpacked \in Nat
      /\ offBudget \in Nat /\ vault \in Nat
  BY DEF Init, Verdicts, Unknown
<1>7. /\ findingsCapped \in BOOLEAN /\ depthCapped \in BOOLEAN
      /\ ingestCapped \in BOOLEAN /\ failures \in BOOLEAN /\ omitted \in BOOLEAN
      /\ detonate \in BOOLEAN /\ child \in {"none", "started"}
  BY Zenon DEF Init
<1> QED
  BY <1>2, <1>3, <1>4, <1>5, <1>6, <1>7, Zenon DEF TypeOK

(* Every step keeps every variable's type.                                 *)
LEMMA TypeStep == TypeOK /\ [Next]_vars => TypeOK'
<1> SUFFICES ASSUME TypeOK, [Next]_vars PROVE TypeOK'
  OBVIOUS
<1> USE SubmissionConstants
<1>1. CASE Pop
  <2>1. /\ Head(queue) \in 0..MaxDepth /\ Tail(queue) \in Seq(0..MaxDepth)
    BY <1>1, HeadTailProperties DEF Pop, TypeOK
  <2>2. DOMAIN fut' = Engines /\ \A e \in Engines : IsFuture(e, fut'[e])
    BY <1>1 DEF Pop, TypeOK, IsFuture
  <2>3. res' \in Result
    <3>1. [verdict |-> Unknown, conf |-> ConfLow] \in Recorded
      BY DEF Recorded, Verdicts, Unknown, Confidences, ConfLow
    <3>2. CASE res' = res
      BY <3>2 DEF TypeOK
    <3>3. CASE res' = [res EXCEPT !.findings =
                         @ \cup {[verdict |-> Unknown, conf |-> ConfLow]}]
      BY <3>1, <3>3 DEF TypeOK, Result
    <3> QED
      BY <1>1, <3>2, <3>3 DEF Pop
  <2>4. pc' \in Stages
    BY <1>1, EngineNames DEF Pop, Stages
  <2>5. processed' \in 0..MaxArtifacts /\ offBudget' \in Nat
    <3>1. processed < MaxArtifacts /\ processed' = processed + 1
      BY <1>1 DEF Pop
    <3>2. offBudget' = offBudget + 1 \/ offBudget' = offBudget
      BY <1>1 DEF Pop
    <3>3. MaxArtifacts \in Nat
      OBVIOUS
    <3> QED
      BY ONLY Numbers, TypeOK, <3>1, <3>2, <3>3
  <2> QED
    BY <1>1, <2>1, <2>2, <2>3, <2>4, <2>5 DEF Pop, TypeOK, budgets
<1>2. CASE ArtifactCap
  <2>1. res' \in Result
    BY <1>2, FlooredFacts DEF ArtifactCap, TypeOK
  <2> QED
    BY <1>2, <2>1 DEF ArtifactCap, TypeOK, budgets, Stages
<1>3. CASE Drained
  BY <1>3 DEF Drained, TypeOK, budgets, history, Stages
<1>4. CASE Score
  <2>1. res' \in Result
    <3> DEFINE S == {ConfLow} \cup {f.conf : f \in {g \in res.findings : g.verdict >= Suspicious}}
    <3>1. S \in SUBSET Confidences /\ ConfLow \in S
      BY DEF TypeOK, Result, Recorded, Confidences, ConfLow
    <3>2. S \in SUBSET Verdicts /\ S # {}
      BY <3>1 DEF Confidences, Verdicts
    <3>3. Join(S) \in S
      BY <3>2, JoinIsMax
    <3>4. Confidence(res.findings) \in Confidences
      BY <3>1, <3>3 DEF Confidence
    <3> QED
      BY <1>4, <3>4 DEF Score, TypeOK, Result
  <2> QED
    BY <1>4, <2>1 DEF Score, TypeOK, budgets, history, Stages
<1>5. CASE HandOff
  BY <1>5 DEF HandOff, TypeOK, budgets, history, Stages
<1>6. ASSUME NEW e \in Engines, Complete(e)
      PROVE  TypeOK'
  <2>1. PICK o \in Outcomes(e) :
          /\ fut' = [fut EXCEPT ![e] = o]
          /\ vault' = vault + (IF o.st = "failed" THEN o.wrote ELSE o.rep.ingested)
    BY <1>6 DEF Complete
  <2>2. \/ o.st = "failed" /\ o.wrote \in 0..MaxExtraction
        \/ o.st = "ok" /\ o.rep \in Reports(e)
    BY DEF Outcomes, Failures
  <2>3. DOMAIN fut' = Engines /\ \A x \in Engines : IsFuture(x, fut'[x])
    BY <2>1, <2>2 DEF TypeOK, IsFuture
  <2>4. vault' \in Nat
    <3>1. CASE o.st = "failed" /\ o.wrote \in 0..MaxExtraction
      BY <2>1, <3>1 DEF TypeOK
    <3>2. CASE o.st = "ok" /\ o.rep \in Reports(e)
      <4>1. o.rep.ingested \in 0..MaxExtraction
        BY <3>2 DEF Reports, Report
      <4> QED
        BY <2>1, <3>2, <4>1 DEF TypeOK
    <3> QED
      BY <2>2, <3>1, <3>2
  <2> QED
    BY <1>6, <2>3, <2>4 DEF Complete, TypeOK, budgets
<1>7. ASSUME NEW e \in Engines, FoldFailed(e)
      PROVE  TypeOK'
  <2>1. res' \in Result
    BY <1>7, FlooredFacts DEF FoldFailed, TypeOK
  <2>2. /\ pc' \in Stages
        /\ DOMAIN fut' = Engines
        /\ \A x \in Engines : IsFuture(x, fut'[x])
    BY <1>7, AdvanceFacts DEF FoldFailed, Stages
  <2> QED
    BY <1>7, <2>1, <2>2 DEF FoldFailed, TypeOK, budgets
<1>8. ASSUME NEW e \in Engines, FoldReport(e)
      PROVE  TypeOK'
  <2> DEFINE b == fut[e].rep.body
  <2>1. /\ b \in Body
        /\ fut[e].rep.labels \in SUBSET Labels
    BY <1>8, FutureFacts DEF FoldReport
  <2>2. PICK spent \in [0..Len(b.findings) -> 0..MaxFindingsBytes] :
          /\ FoldBody(b, spent)
          /\ res' = Folded(res, b, Kept(spent, b))
          /\ offBudget' = offBudget + MarkerOnce(b, spent)
    BY <1>8 DEF FoldReport
  <2> HIDE DEF b
  <2>3. /\ Kept(spent, b) \in SUBSET DOMAIN b.findings
        /\ findingsBytes' \in 0..MaxFindingsBytes
        /\ findingsCapped' \in BOOLEAN
        /\ signal' \in Verdicts
        /\ failures' \in BOOLEAN
        /\ omitted' \in BOOLEAN
        /\ MarkerOnce(b, spent) \in {0, 1}
    BY <2>1, <2>2, FoldBodyFacts
  <2>4. res' \in Result
    BY <2>1, <2>2, <2>3, FoldedFacts DEF TypeOK
  <2>5. /\ pc' \in Stages
        /\ DOMAIN fut' = Engines
        /\ \A x \in Engines : IsFuture(x, fut'[x])
    BY <1>8, AdvanceFacts DEF FoldReport, Stages
  <2>6. offBudget' \in Nat /\ labels' \in SUBSET Labels
    BY <1>8, <2>1, <2>2, <2>3 DEF FoldReport, TypeOK
  <2> QED
    BY <1>8, <2>3, <2>4, <2>5, <2>6 DEF FoldReport, TypeOK
<1>9. CASE FoldExtract
  <2> DEFINE rep == fut["extract"].rep
             b == rep.body
             total == submissionIngested + rep.ingested
             over == total > MaxSubmissionIngest
             tooDeep == ~over /\ rep.children > 0 /\ depth + 1 > MaxDepth
             mark == over \/ (tooDeep /\ ~depthCapped)
  <2>0. "extract" \in Engines
    BY EngineNames
  <2>1. /\ b \in Body
        /\ rep.children \in 0..MaxChildren
        /\ rep.ingested \in 0..MaxExtraction
    BY <1>9, <2>0, FutureFacts DEF FoldExtract
  <2>2. PICK spent \in [0..Len(b.findings) -> 0..MaxFindingsBytes] :
          /\ FoldBody(b, spent)
          /\ res' = IF mark THEN Floored(Folded(res, b, Kept(spent, b)))
                            ELSE Folded(res, b, Kept(spent, b))
          /\ offBudget' = offBudget + MarkerOnce(b, spent)
                            + (IF mark THEN 1 ELSE 0)
          /\ submissionIngested' = total
          /\ ingestCapped' = over
          /\ depthCapped' = (depthCapped \/ tooDeep)
          /\ queue' = IF over \/ tooDeep THEN queue
                      ELSE queue \o [i \in 1..rep.children |-> depth + 1]
          /\ discovered' = discovered + rep.children
          /\ unpacked' = unpacked + 1
    BY <1>9 DEF FoldExtract
  <2>3. /\ Kept(spent, b) \in SUBSET DOMAIN b.findings
        /\ findingsBytes' \in 0..MaxFindingsBytes
        /\ findingsCapped' \in BOOLEAN
        /\ signal' \in Verdicts
        /\ failures' \in BOOLEAN
        /\ omitted' \in BOOLEAN
        /\ MarkerOnce(b, spent) \in {0, 1}
    <3> HIDE DEF b
    <3> QED
      BY <2>1, <2>2, FoldBodyFacts
  <2>4. res' \in Result
    <3>1. Folded(res, b, Kept(spent, b)) \in Result
      <4> HIDE DEF b
      <4> QED
        BY <2>1, <2>3, FoldedFacts DEF TypeOK
    <3>2. Floored(Folded(res, b, Kept(spent, b))) \in Result
      BY <3>1, FlooredFacts
    <3> QED
      BY <2>2, <3>1, <3>2
  <2>5. /\ pc' \in Stages
        /\ DOMAIN fut' = Engines
        /\ \A x \in Engines : IsFuture(x, fut'[x])
    BY <1>9, <2>0, AdvanceFacts DEF FoldExtract, Stages
  <2>6. /\ submissionIngested' \in Nat /\ ingestCapped' \in BOOLEAN
        /\ depthCapped' \in BOOLEAN /\ discovered' \in Nat /\ unpacked' \in Nat
    <3> HIDE DEF rep
    <3>1. rep.children \in Nat /\ rep.ingested \in Nat
      BY <2>1
    <3>2. submissionIngested' = total /\ discovered' = discovered + rep.children
          /\ unpacked' = unpacked + 1
      BY <2>2
    <3>3. submissionIngested' \in Nat /\ discovered' \in Nat /\ unpacked' \in Nat
      <4>1. /\ submissionIngested \in Nat /\ discovered \in Nat
            /\ unpacked \in Nat
        BY Numbers
      <4>2. submissionIngested' = submissionIngested + rep.ingested
        BY <3>2
      <4> QED
        BY ONLY <3>1, <3>2, <4>1, <4>2
    <3>4. over \in BOOLEAN /\ tooDeep \in BOOLEAN
      OBVIOUS
    <3>5. ingestCapped' = over /\ depthCapped' = (depthCapped \/ tooDeep)
      BY <2>2
    <3> HIDE DEF over, tooDeep
    <3>6. ingestCapped' \in BOOLEAN /\ depthCapped' \in BOOLEAN
      BY <3>4, <3>5, Zenon DEF TypeOK
    <3> QED
      BY <3>3, <3>6
  <2>7. offBudget' \in Nat
    <3> DEFINE m == IF mark THEN 1 ELSE 0
               o == MarkerOnce(b, spent)
    <3>1. m \in Nat /\ o \in Nat
      BY <2>3
    <3>2. offBudget' = offBudget + o + m
      BY <2>2
    <3> HIDE DEF m, o
    <3> QED
      BY <3>1, <3>2, Numbers
  <2>8. queue' \in Seq(0..MaxDepth)
    <3>1. CASE over \/ tooDeep
      BY <2>2, <3>1 DEF TypeOK
    <3>2. CASE ~(over \/ tooDeep) /\ rep.children > 0
      <4>1. depth + 1 \in 0..MaxDepth /\ rep.children \in Nat
        BY <2>1, <3>2 DEF TypeOK
      <4> QED
        BY <2>2, <3>2, <4>1, QueueFacts DEF TypeOK
    <3>3. CASE ~(over \/ tooDeep) /\ ~(rep.children > 0)
      <4>1. rep.children = 0
        BY <2>1, <3>3
      <4>2. [i \in 1..rep.children |-> depth + 1] = << >>
        BY <4>1
      <4> QED
        BY <2>2, <3>3, <4>2, ConcatEmptySeq DEF TypeOK
    <3> QED
      BY <3>1, <3>2, <3>3
  <2> QED
    BY <1>9, <2>3, <2>4, <2>5, <2>6, <2>7, <2>8 DEF FoldExtract, TypeOK
<1>10. CASE UNCHANGED vars
  BY <1>10 DEF vars, control, budgets, history, TypeOK
<1> QED
  BY <1>1, <1>2, <1>3, <1>4, <1>5, <1>6, <1>7, <1>8, <1>9, <1>10 DEF Next

(* Every variable of SubmissionWorkflow keeps its type: in particular the  *)
(* artifact count and the charged findings bytes never exceed their caps,  *)
(* and nothing deeper than MaxDepth is ever queued.                        *)
THEOREM TypeCorrect == Spec => []TypeOK
<1>1. Init => TypeOK
  BY TypeInit
<1>2. TypeOK /\ [Next]_vars => TypeOK'
  BY TypeStep
<1> QED
  BY <1>1, <1>2, PTL DEF Spec
----------------------------------------------------------------------------
(* What one fold does to the result and to the history, whatever the       *)
(* report: inc says the report was partial, lo that a finding was left out.*)
FoldEffect(inc, lo, mark) ==
  /\ failures' = (failures \/ inc)
  /\ omitted' = (omitted \/ lo)
  /\ findingsCapped' = (findingsCapped \/ lo)
  /\ res'.incomplete = (res.incomplete \/ inc \/ (lo /\ ~findingsCapped) \/ mark)
  /\ res'.verdict >= res.verdict
  /\ res.findings \subseteq res'.findings
  /\ VerdictExact => res'.verdict = Floor(signal', res'.incomplete)
  /\ \E s \in Verdicts : signal' = Join({signal, s})

(* The part of a fold that FoldReport and FoldExtract share.               *)
LEMMA BodyEffect ==
  ASSUME TypeOK, NEW b \in Body,
         NEW spent \in [0..Len(b.findings) -> 0..MaxFindingsBytes],
         FoldBody(b, spent),
         NEW r, r = Folded(res, b, Kept(spent, b))
  PROVE  \E inc \in BOOLEAN, lo \in BOOLEAN :
           /\ failures' = (failures \/ inc)
           /\ omitted' = (omitted \/ lo)
           /\ findingsCapped' = (findingsCapped \/ lo)
           /\ r \in Result
           /\ r.incomplete = (res.incomplete \/ inc \/ (lo /\ ~findingsCapped))
           /\ r.verdict >= res.verdict
           /\ res.findings \subseteq r.findings
           /\ VerdictExact => r.verdict = Floor(signal', r.incomplete)
           /\ signal' \in Verdicts
           /\ \E s \in Verdicts : signal' = Join({signal, s})
<1> DEFINE inc == b.incomplete
           kept == Kept(spent, b)
           lo == kept # DOMAIN b.findings
<1>1. kept \in SUBSET DOMAIN b.findings /\ signal' \in Verdicts
  BY FoldBodyFacts
<1>2. inc \in BOOLEAN /\ lo \in BOOLEAN /\ res \in Result /\ signal \in Verdicts
      /\ findingsCapped \in BOOLEAN
  BY DEF Body, TypeOK
<1>3. /\ failures' = (failures \/ inc)
      /\ omitted' = (omitted \/ lo)
      /\ findingsCapped' = (findingsCapped \/ lo)
      /\ signal' = Join({signal} \cup Signals(b))
  BY DEF FoldBody
<1>4. /\ r \in Result
      /\ r.verdict >= res.verdict
      /\ r.incomplete = (res.incomplete \/ inc \/ (lo /\ ~findingsCapped))
      /\ res.findings \subseteq r.findings
      /\ \A s \in Verdicts : res.verdict = Floor(s, res.incomplete) =>
           r.verdict = Floor(Join({s} \cup Signals(b)), r.incomplete)
  <2> HIDE DEF kept
  <2> QED
    BY <1>1, <1>2, FoldedFacts DEF kept
<1>5. VerdictExact => r.verdict = Floor(signal', r.incomplete)
  BY <1>2, <1>3, <1>4 DEF VerdictExact
<1>6. \E s \in Verdicts : signal' = Join({signal, s})
  <2> DEFINE A == Signals(b)
             s == Join(A)
  <2>1. A \in SUBSET Verdicts /\ A # {}
    BY SignalsType
  <2>2. s \in Verdicts
    BY <2>1, JoinIsMax
  <2>3. Join({s} \cup {signal}) = Join(A \cup {signal})
    <3> DEFINE B == {signal}
    <3>1. B \in SUBSET Verdicts /\ s = Join(A)
      BY <1>2
    <3> HIDE DEF A, B, s
    <3>2. Join({s} \cup B) = Join(A \cup B)
      BY <2>1, <2>2, <3>1, JoinUnion
    <3> QED
      BY <3>2 DEF B
  <2>4. {s} \cup {signal} = {signal, s} /\ A \cup {signal} = {signal} \cup A
    OBVIOUS
  <2> HIDE DEF s
  <2> QED
    BY <1>3, <2>2, <2>3, <2>4
<1> HIDE DEF inc, lo
<1> QED
  BY <1>1, <1>2, <1>3, <1>4, <1>5, <1>6

(* What folding one report does to the result and the books.               *)
LEMMA ReportEffect ==
  ASSUME TypeOK, NEW e \in Engines, FoldReport(e)
  PROVE  \E inc \in BOOLEAN, lo \in BOOLEAN : FoldEffect(inc, lo, FALSE)
<1> DEFINE b == fut[e].rep.body
<1>1. b \in Body
  BY FutureFacts DEF FoldReport
<1>2. PICK spent \in [0..Len(b.findings) -> 0..MaxFindingsBytes] :
        FoldBody(b, spent) /\ res' = Folded(res, b, Kept(spent, b))
  BY DEF FoldReport
<1> HIDE DEF b
<1>3. PICK inc \in BOOLEAN, lo \in BOOLEAN :
           /\ failures' = (failures \/ inc)
           /\ omitted' = (omitted \/ lo)
           /\ findingsCapped' = (findingsCapped \/ lo)
           /\ res' \in Result
           /\ res'.incomplete = (res.incomplete \/ inc \/ (lo /\ ~findingsCapped))
           /\ res'.verdict >= res.verdict
           /\ res.findings \subseteq res'.findings
           /\ VerdictExact => res'.verdict = Floor(signal', res'.incomplete)
           /\ \E s \in Verdicts : signal' = Join({signal, s})
  BY <1>1, <1>2, BodyEffect
<1>4. FoldEffect(inc, lo, FALSE)
  BY <1>3 DEF FoldEffect
<1> QED
  BY <1>4

(* The extraction's fold, with what it does to the walk.                   *)
LEMMA ExtractEffect ==
  ASSUME TypeOK, FoldExtract
  PROVE  \E inc \in BOOLEAN, lo \in BOOLEAN, over \in BOOLEAN, deep \in BOOLEAN,
            c \in 0..MaxChildren, n \in 0..MaxExtraction :
           /\ FoldEffect(inc, lo, over \/ (deep /\ ~depthCapped))
           /\ c = 0 => n = 0
           /\ deep => c > 0 /\ ~over
           /\ over = (submissionIngested + n > MaxSubmissionIngest)
           /\ submissionIngested' = submissionIngested + n
           /\ ingestCapped' = over
           /\ depthCapped' = (depthCapped \/ deep)
           /\ Len(queue') = Len(queue) + (IF over \/ deep THEN 0 ELSE c)
           /\ discovered' = discovered + c
           /\ unpacked' = unpacked + 1
           /\ processed' = processed
<1> DEFINE rep == fut["extract"].rep
           b == rep.body
           total == submissionIngested + rep.ingested
           over == total > MaxSubmissionIngest
           deep == ~over /\ rep.children > 0 /\ depth + 1 > MaxDepth
           mark == over \/ (deep /\ ~depthCapped)
<1>0. "extract" \in Engines
  BY EngineNames
<1>1. /\ b \in Body
      /\ rep.children \in 0..MaxChildren
      /\ rep.ingested \in 0..MaxExtraction
      /\ rep.children = 0 => rep.ingested = 0
  BY <1>0, FutureFacts DEF FoldExtract
<1>2. PICK spent \in [0..Len(b.findings) -> 0..MaxFindingsBytes] :
        /\ FoldBody(b, spent)
        /\ res' = IF mark THEN Floored(Folded(res, b, Kept(spent, b)))
                          ELSE Folded(res, b, Kept(spent, b))
        /\ submissionIngested' = total
        /\ ingestCapped' = over
        /\ depthCapped' = (depthCapped \/ deep)
        /\ queue' = IF over \/ deep THEN queue
                    ELSE queue \o [i \in 1..rep.children |-> depth + 1]
        /\ discovered' = discovered + rep.children
        /\ unpacked' = unpacked + 1
  BY DEF FoldExtract
<1>3. processed' = processed
  BY DEF FoldExtract
<1>4. Len(queue') = Len(queue) + (IF over \/ deep THEN 0 ELSE rep.children)
  <2>1. CASE over \/ deep
    BY <1>2, <2>1, Numbers
  <2>2. CASE ~(over \/ deep) /\ rep.children > 0
    <3>1. depth + 1 \in 0..MaxDepth /\ rep.children \in Nat
      <4>1. ~(depth + 1 > MaxDepth)
        BY <2>2
      <4>2. depth \in 0..MaxDepth /\ MaxDepth \in Nat
        BY Numbers, SubmissionConstants
      <4>3. rep.children \in Nat
        BY <1>1
      <4> QED
        BY ONLY <4>1, <4>2, <4>3
    <3> QED
      BY <1>2, <2>2, <3>1, Numbers, QueueFacts
  <2>3. CASE ~(over \/ deep) /\ ~(rep.children > 0)
    <3>1. rep.children = 0
      BY <1>1, <2>3
    <3>2. [i \in 1..rep.children |-> depth + 1] = << >>
      BY <3>1
    <3>3. queue' = queue
      BY <1>2, <2>3, <3>2, Numbers, ConcatEmptySeq
    <3> QED
      BY <2>3, <3>1, <3>3, Numbers
  <2> QED
    BY <2>1, <2>2, <2>3
<1>5. \E inc \in BOOLEAN, lo \in BOOLEAN : FoldEffect(inc, lo, mark)
  <2> DEFINE r == Folded(res, b, Kept(spent, b))
  <2>0. mark \in BOOLEAN /\ res' = IF mark THEN Floored(r) ELSE r
    BY <1>2
  <2>b. FoldBody(b, spent) /\ b \in Body
    BY <1>1, <1>2
  <2> HIDE DEF b, r, mark
  <2>1. PICK inc \in BOOLEAN, lo \in BOOLEAN :
           /\ failures' = (failures \/ inc)
           /\ omitted' = (omitted \/ lo)
           /\ findingsCapped' = (findingsCapped \/ lo)
           /\ r \in Result
           /\ r.incomplete = (res.incomplete \/ inc \/ (lo /\ ~findingsCapped))
           /\ r.verdict >= res.verdict
           /\ res.findings \subseteq r.findings
           /\ VerdictExact => r.verdict = Floor(signal', r.incomplete)
           /\ signal' \in Verdicts
           /\ \E s \in Verdicts : signal' = Join({signal, s})
    BY <2>b, BodyEffect DEF r
  <2>2. CASE ~mark
    <3>1. FoldEffect(inc, lo, mark)
      BY <2>0, <2>1, <2>2 DEF FoldEffect
    <3> QED
      BY <3>1
  <2>3. CASE mark
    <3>1. res' = Floored(r)
      BY <2>0, <2>3
    <3>2. /\ Floored(r).incomplete = TRUE
          /\ Floored(r).verdict >= r.verdict
          /\ r.findings \subseteq Floored(r).findings
          /\ Floored(r).verdict \in Verdicts
      BY <2>1, FlooredFacts DEF Result
    <3>3. VerdictExact => Floored(r).verdict = Floor(signal', TRUE)
      BY <2>1, FlooredExact
    <3>4. Floored(r).verdict >= res.verdict
      <4>1. res.verdict \in Int /\ r.verdict \in Int /\ Floored(r).verdict \in Int
        BY <2>1, <3>2 DEF TypeOK, Result, Verdicts
      <4> QED
        BY <2>1, <3>2, <4>1
    <3>5. FoldEffect(inc, lo, mark)
      BY <2>1, <2>3, <3>1, <3>2, <3>3, <3>4 DEF FoldEffect
    <3> QED
      BY <3>5
  <2> QED
    BY <2>0, <2>2, <2>3
<1>6. PICK inc \in BOOLEAN, lo \in BOOLEAN : FoldEffect(inc, lo, mark)
  BY <1>5
<1>7. over \in BOOLEAN /\ deep \in BOOLEAN
  OBVIOUS
<1> DEFINE c == rep.children
           n == rep.ingested
<1>8. /\ c \in 0..MaxChildren /\ n \in 0..MaxExtraction
      /\ inc \in BOOLEAN /\ lo \in BOOLEAN /\ over \in BOOLEAN /\ deep \in BOOLEAN
  BY <1>1, <1>7
<1>9. /\ FoldEffect(inc, lo, over \/ (deep /\ ~depthCapped))
      /\ c = 0 => n = 0
      /\ deep => c > 0 /\ ~over
      /\ over = (submissionIngested + n > MaxSubmissionIngest)
      /\ submissionIngested' = submissionIngested + n
      /\ ingestCapped' = over
      /\ depthCapped' = (depthCapped \/ deep)
      /\ Len(queue') = Len(queue) + (IF over \/ deep THEN 0 ELSE c)
      /\ discovered' = discovered + c
      /\ unpacked' = unpacked + 1
      /\ processed' = processed
  BY <1>1, <1>2, <1>3, <1>4, <1>6
<1> HIDE DEF c, n, over, deep
<1> QED
  BY <1>8, <1>9
----------------------------------------------------------------------------
(* Exactness of the verdict.                                               *)
LEMMA ExactStep == TypeOK /\ VerdictExact /\ [Next]_vars => VerdictExact'
<1> SUFFICES ASSUME TypeOK, VerdictExact, [Next]_vars PROVE VerdictExact'
  OBVIOUS
<1>0. res \in Result /\ signal \in Verdicts
  BY DEF TypeOK
<1>1. CASE Pop \/ Drained \/ Score \/ HandOff \/ UNCHANGED vars
           \/ \E e \in Engines : Complete(e)
  <2>1. /\ res'.verdict = res.verdict
        /\ res'.incomplete = res.incomplete
        /\ signal' = signal
    BY <1>0, <1>1 DEF Pop, Drained, Score, HandOff, Complete, vars, history, Result
  <2> QED
    BY <2>1 DEF VerdictExact
<1>2. CASE ArtifactCap \/ \E e \in Engines : FoldFailed(e)
  <2>1. res' = Floored(res) /\ signal' = signal
    BY <1>2 DEF ArtifactCap, FoldFailed
  <2>2. Floored(res).verdict = Floor(signal, TRUE) /\ Floored(res).incomplete = TRUE
    BY <1>0, FlooredExact, FlooredFacts DEF VerdictExact
  <2> QED
    BY <2>1, <2>2 DEF VerdictExact
<1>3. ASSUME NEW e \in Engines, FoldReport(e)
      PROVE  VerdictExact'
  BY <1>3, ReportEffect DEF FoldEffect, VerdictExact
<1>4. CASE FoldExtract
  BY <1>4, ExtractEffect DEF FoldEffect, VerdictExact
<1> QED
  BY <1>1, <1>2, <1>3, <1>4 DEF Next

(* At the start the verdict is exact: nothing was folded.                  *)
LEMMA ExactInit == Init => VerdictExact
<1> SUFFICES ASSUME Init PROVE VerdictExact
  OBVIOUS
<1>1. Unknown \in {Unknown} /\ {Unknown} \in SUBSET Verdicts
      /\ \A w \in {Unknown} : w <= Unknown
  BY DEF Verdicts, Unknown
<1>2. Join({Unknown}) = Unknown
  BY <1>1, JoinUnique
<1>3. {Unknown, Unknown} \cup {} = {Unknown}
  OBVIOUS
<1>4. Floor(Unknown, FALSE) = Unknown
  BY <1>2, <1>3 DEF Floor
<1> QED
  BY <1>4 DEF Init, VerdictExact

(* The verdict of a submission is at every point exactly the worst verdict *)
(* of any report folded so far, including the findings the size cap left   *)
(* out of the result, floored to SUSPICIOUS when the result is incomplete, *)
(* and never BENIGN.                                                       *)
THEOREM VerdictIsExact == Spec => []VerdictExact
<1>1. Init => TypeOK /\ VerdictExact
  BY TypeInit, ExactInit
<1>2. TypeOK /\ VerdictExact /\ [Next]_vars => (TypeOK /\ VerdictExact)'
  BY TypeStep, ExactStep
<1> QED
  BY <1>1, <1>2, PTL DEF Spec

(* No step lowers the verdict, completes an incomplete result or loses a   *)
(* recorded finding, and the result is frozen before the enrichment child  *)
(* can see it.                                                             *)
LEMMA OnlyUpStep ==
  TypeOK /\ [Next]_vars =>
    [/\ res'.verdict >= res.verdict
     /\ res.incomplete => res'.incomplete
     /\ res.findings \subseteq res'.findings
     /\ pc \in {"handoff", "done"} => UNCHANGED res]_vars
<1> SUFFICES ASSUME TypeOK, Next
             PROVE  /\ res'.verdict >= res.verdict
                    /\ res.incomplete => res'.incomplete
                    /\ res.findings \subseteq res'.findings
                    /\ pc \in {"handoff", "done"} => UNCHANGED res
  OBVIOUS
<1>0. res \in Result /\ res.verdict \in Int
  BY DEF TypeOK, Result, Verdicts
<1>1. CASE Pop \/ Drained \/ Score \/ HandOff \/ \E e \in Engines : Complete(e)
  BY <1>0, <1>1 DEF Pop, Drained, Score, HandOff, Complete, Result
<1>2. CASE ArtifactCap \/ \E e \in Engines : FoldFailed(e)
  <2>1. res' = Floored(res) /\ pc \notin {"handoff", "done"}
    BY <1>2, EngineNames DEF ArtifactCap, FoldFailed
  <2> QED
    BY <1>0, <2>1, FlooredFacts
<1>3. ASSUME NEW e \in Engines, FoldReport(e)
      PROVE  /\ res'.verdict >= res.verdict
             /\ res.incomplete => res'.incomplete
             /\ res.findings \subseteq res'.findings
             /\ pc \notin {"handoff", "done"}
  <2>1. pc \notin {"handoff", "done"}
    BY <1>3, EngineNames DEF FoldReport
  <2> QED
    BY <1>3, <2>1, ReportEffect DEF FoldEffect
<1>4. CASE FoldExtract
  <2>1. pc \notin {"handoff", "done"}
    BY <1>4 DEF FoldExtract
  <2>2. PICK inc \in BOOLEAN, lo \in BOOLEAN, over \in BOOLEAN, deep \in BOOLEAN :
          FoldEffect(inc, lo, over \/ (deep /\ ~depthCapped))
    BY <1>4, ExtractEffect
  <2>3. /\ res'.verdict >= res.verdict
        /\ res.incomplete => res'.incomplete
        /\ res.findings \subseteq res'.findings
    BY <2>2 DEF FoldEffect
  <2> QED
    BY <2>1, <2>3
<1> QED
  BY <1>1, <1>2, <1>3, <1>4 DEF Next

(* The result of a submission only ever gets worse, and it is final once   *)
(* the enrichment plane may be told of it.                                 *)
THEOREM ResultOnlyGoesUp == Spec => OnlyUp
<1>1. Init => TypeOK
  BY TypeInit
<1>2. TypeOK /\ [Next]_vars => TypeOK'
  BY TypeStep
<1>3. TypeOK /\ [Next]_vars =>
        [/\ res'.verdict >= res.verdict
         /\ res.incomplete => res'.incomplete
         /\ res.findings \subseteq res'.findings
         /\ pc \in {"handoff", "done"} => UNCHANGED res]_vars
  BY OnlyUpStep
<1> QED
  BY <1>1, <1>2, <1>3, PTL DEF Spec, OnlyUp
----------------------------------------------------------------------------
(* The bookkeeping of the walk.                                            *)
Books == Disclosed /\ Counted /\ Ingested

(* At the start the books balance.                                         *)
LEMMA BooksInit == Init => Books
<1> SUFFICES ASSUME Init PROVE Books
  OBVIOUS
<1>1. Len(queue) = 1 /\ InHand = 0 /\ Walking
  BY EngineNames DEF Init, InHand, Walking
<1>2. Disclosed
  BY <1>1 DEF Init, Disclosed
<1>3. Counted
  BY <1>1 DEF Init, Counted
<1>4. Ingested
  BY SubmissionConstants DEF Init, Ingested
<1> QED
  BY <1>2, <1>3, <1>4 DEF Books

(* Every step keeps the books balanced.                                    *)
LEMMA BooksStep == TypeOK /\ Books /\ [Next]_vars => Books'
<1> SUFFICES ASSUME TypeOK, Books, [Next]_vars PROVE Books'
  OBVIOUS
<1> USE DEF Books
<1>n. /\ processed \in Nat /\ submissionIngested \in Nat /\ discovered \in Nat
      /\ unpacked \in Nat /\ Len(queue) \in Nat /\ InHand \in {0, 1}
      /\ MaxSubmissionIngest \in Nat /\ MaxExtraction \in Nat
  BY Numbers, SubmissionConstants DEF InHand
<1>1. CASE Pop
  <2>1. /\ Len(queue') = Len(queue) - 1
        /\ processed' = processed + 1 /\ discovered' = discovered
        /\ unpacked' = unpacked /\ submissionIngested' = submissionIngested
        /\ InHand = 0 /\ InHand' = 1 /\ Walking /\ Walking'
        /\ pc' # "extract" /\ res'.incomplete = res.incomplete
    <3>1. Len(Tail(queue)) = Len(queue) - 1
      BY <1>1, Numbers, HeadTailProperties DEF Pop
    <3>2. res'.incomplete = res.incomplete
      BY <1>1 DEF Pop, TypeOK, Result
    <3>3. pc = "loop" /\ pc' = "ident"
      BY <1>1 DEF Pop
    <3> QED
      BY <1>1, <3>1, <3>2, <3>3, EngineNames DEF Pop, budgets, InHand, Walking
  <2>2. Disclosed'
    BY <1>1, <2>1 DEF Pop, budgets, Disclosed
  <2>3. Counted'
    <3>1. failures' = failures /\ omitted' = omitted
      BY <1>1 DEF Pop
    <3>2. discovered >= processed + Len(queue) /\ unpacked + 0 <= processed
      BY <2>1 DEF Counted
    <3>3. /\ discovered' >= processed' + Len(queue')
          /\ unpacked' + InHand' <= processed'
          /\ processed' + Len(queue') = processed + Len(queue)
          /\ unpacked' + InHand' = unpacked + InHand + 1
      BY <1>n, <2>1, <3>2
    <3>4. ~res'.incomplete => /\ discovered' = processed' + Len(queue')
                              /\ unpacked' + InHand' = processed'
      BY <1>n, <2>1, <3>3 DEF Counted
    <3>5. res'.incomplete => \/ failures' \/ omitted'
                             \/ discovered' > processed' + Len(queue')
      BY <2>1, <3>1, <3>3 DEF Counted
    <3> QED
      BY <3>3, <3>4, <3>5 DEF Counted
  <2>4. Ingested'
    BY <1>1, <2>1 DEF Pop, budgets, Ingested
  <2> QED
    BY <2>2, <2>3, <2>4
<1>2. CASE ArtifactCap
  <2>1. /\ InHand = 0 /\ InHand' = 0 /\ ~Walking' /\ pc' # "extract"
        /\ queue # <<>> /\ res'.incomplete = TRUE
    <3>1. res'.incomplete = TRUE
      BY <1>2, FlooredFacts DEF ArtifactCap, TypeOK
    <3>2. pc = "loop" /\ pc' = "score" /\ queue # <<>>
      BY <1>2 DEF ArtifactCap
    <3> QED
      BY <3>1, <3>2, EngineNames DEF InHand, Walking
  <2>2. Disclosed' /\ Ingested'
    BY <1>2, <2>1 DEF ArtifactCap, budgets, Disclosed, Ingested
  <2>3. Counted'
    BY <1>2, <1>n, <2>1 DEF ArtifactCap, Counted
  <2> QED
    BY <2>2, <2>3
<1>3. CASE Drained
  <2>1. InHand = 0 /\ InHand' = 0 /\ Walking /\ pc' # "extract" /\ queue' = <<>>
    BY <1>3, EngineNames DEF Drained, InHand, Walking
  <2>2. Disclosed' /\ Ingested'
    BY <1>3, <2>1 DEF Drained, budgets, history, Disclosed, Ingested
  <2>3. Counted'
    BY <1>3, <1>n, <2>1 DEF Drained, history, Counted
  <2> QED
    BY <2>2, <2>3
<1>4. CASE Score \/ HandOff
  <2>1. /\ InHand = 0 /\ InHand' = 0 /\ ~Walking /\ ~Walking' /\ pc' # "extract"
        /\ res'.incomplete = res.incomplete
    BY <1>4, EngineNames DEF Score, HandOff, InHand, Walking, TypeOK, Result
  <2>2. Disclosed' /\ Ingested'
    BY <1>4, <2>1 DEF Score, HandOff, budgets, history, Disclosed, Ingested
  <2>3. Counted'
    BY <1>4, <1>n, <2>1 DEF Score, HandOff, history, Counted
  <2> QED
    BY <2>2, <2>3
<1>5. CASE UNCHANGED vars \/ \E e \in Engines : Complete(e)
  <2>1. /\ UNCHANGED <<pc, queue, processed, res, budgets, discovered, unpacked,
                       failures, omitted>>
    BY <1>5 DEF Complete, vars, control, history
  <2>2. InHand' = InHand /\ Walking' = Walking
    BY <2>1 DEF InHand, Walking
  <2>3. Disclosed' /\ Ingested'
    BY <2>1, <2>2 DEF budgets, Disclosed, Ingested
  <2>4. Counted'
    BY <2>1, <2>2 DEF Counted
  <2> QED
    BY <2>3, <2>4
<1>6. ASSUME NEW e \in Engines, FoldFailed(e)
      PROVE  Books'
  <2>1. /\ res'.incomplete = TRUE /\ failures' = TRUE /\ InHand = 1 /\ Walking'
        /\ InHand' \in {0, 1}
        /\ pc' = "extract" => ~ingestCapped
    <3>1. res'.incomplete = TRUE
      BY <1>6, FlooredFacts DEF FoldFailed, TypeOK
    <3>2. pc = e /\ Advance(e) /\ failures' = TRUE
      BY <1>6 DEF FoldFailed
    <3> QED
      BY <3>1, <3>2, AdvanceFacts DEF InHand, Walking
  <2>2. /\ UNCHANGED <<queue, processed, findingsCapped, depthCapped, ingestCapped,
                       submissionIngested, discovered, unpacked, omitted>>
    BY <1>6 DEF FoldFailed, budgets
  <2>3. Disclosed'
    BY <2>1, <2>2 DEF Disclosed
  <2>4. Ingested'
    BY <2>1, <2>2 DEF Ingested
  <2>5. Counted'
    <3>1. discovered >= processed + Len(queue) /\ unpacked + 1 <= processed
      BY <2>1 DEF Counted
    <3>2. InHand' = 0 \/ InHand' = 1
      BY <2>1
    <3>3. /\ discovered' >= processed' + Len(queue')
          /\ unpacked' + InHand' <= processed'
      BY <1>n, <2>2, <3>1, <3>2
    <3> QED
      BY <2>1, <3>3 DEF Counted
  <2> QED
    BY <2>3, <2>4, <2>5
<1>7. ASSUME NEW e \in Engines, FoldReport(e)
      PROVE  Books'
  <2>1. PICK inc \in BOOLEAN, lo \in BOOLEAN : FoldEffect(inc, lo, FALSE)
    BY <1>7, ReportEffect
  <2>2. /\ failures' = (failures \/ inc)
        /\ omitted' = (omitted \/ lo)
        /\ findingsCapped' = (findingsCapped \/ lo)
        /\ res'.incomplete = (res.incomplete \/ inc \/ (lo /\ ~findingsCapped))
    BY <2>1 DEF FoldEffect
  <2>3. /\ InHand = 1 /\ Walking' /\ InHand' \in {0, 1} /\ Walking
        /\ pc' = "extract" => ~ingestCapped
        /\ InHand' = 1 \/ ingestCapped
    <3>1. pc = e /\ Advance(e) /\ e # "extract"
      BY <1>7 DEF FoldReport
    <3> QED
      BY <3>1, AdvanceFacts, EngineNames DEF InHand, Walking
  <2>4. Disclosed'
    BY <1>7, <2>2, <2>3 DEF FoldReport, Disclosed
  <2>5. Ingested'
    BY <1>7, <2>3 DEF FoldReport, Ingested
  <2>6. /\ UNCHANGED <<queue, processed, discovered, unpacked, ingestCapped>>
    BY <1>7 DEF FoldReport
  <2>7. res.incomplete => res'.incomplete
    BY <2>2
  <2>8. ~res'.incomplete => InHand' = InHand
    BY <2>2, <2>3, <2>7 DEF Disclosed
  <2>9. Counted'
    <3>1. discovered' >= processed' + Len(queue') /\ unpacked' + InHand' <= processed'
      <4>1. discovered >= processed + Len(queue) /\ unpacked + 1 <= processed
        BY <2>3 DEF Counted
      <4>2. /\ discovered' = discovered /\ processed' = processed
            /\ unpacked' = unpacked /\ queue' = queue
        BY <2>6
      <4>3. InHand' = 0 \/ InHand' = 1
        BY <2>3
      <4> QED
        BY <1>n, <4>1, <4>2, <4>3
    <3>2. ~res'.incomplete => /\ discovered' = processed' + Len(queue')
                              /\ unpacked' + InHand' = processed'
      BY <2>6, <2>7, <2>8 DEF Counted
    <3>3. res'.incomplete => \/ failures'
                             \/ omitted'
                             \/ discovered' > processed' + Len(queue')
      BY <2>2, <2>3, <2>6 DEF Counted
    <3> QED
      BY <3>1, <3>2, <3>3 DEF Counted
  <2> QED
    BY <2>4, <2>5, <2>9
<1>8. CASE FoldExtract
  <2>1. PICK inc \in BOOLEAN, lo \in BOOLEAN, over \in BOOLEAN, deep \in BOOLEAN,
             c \in 0..MaxChildren, n \in 0..MaxExtraction :
           /\ FoldEffect(inc, lo, over \/ (deep /\ ~depthCapped))
           /\ c = 0 => n = 0
           /\ deep => c > 0 /\ ~over
           /\ over = (submissionIngested + n > MaxSubmissionIngest)
           /\ submissionIngested' = submissionIngested + n
           /\ ingestCapped' = over
           /\ depthCapped' = (depthCapped \/ deep)
           /\ Len(queue') = Len(queue) + (IF over \/ deep THEN 0 ELSE c)
           /\ discovered' = discovered + c
           /\ unpacked' = unpacked + 1
           /\ processed' = processed
    BY <1>8, ExtractEffect
  <2>2. /\ failures' = (failures \/ inc)
        /\ omitted' = (omitted \/ lo)
        /\ findingsCapped' = (findingsCapped \/ lo)
        /\ res'.incomplete = (\/ res.incomplete \/ inc \/ (lo /\ ~findingsCapped)
                              \/ over \/ (deep /\ ~depthCapped))
    BY <2>1 DEF FoldEffect
  <2>3. InHand = 1 /\ InHand' = 0 /\ Walking /\ Walking' /\ pc' # "extract"
    <3>1. pc = "extract" /\ Advance("extract") /\ "extract" \in Engines
      BY <1>8, EngineNames DEF FoldExtract
    <3>2. pc' = "loop"
      BY <3>1, AdvanceFacts
    <3> QED
      BY <3>1, <3>2, EngineNames DEF InHand, Walking
  <2>4. ~ingestCapped /\ submissionIngested <= MaxSubmissionIngest
    BY <1>8 DEF FoldExtract, Ingested
  <2>5. Disclosed'
    BY <2>1, <2>2, <2>3 DEF Disclosed
  <2>6. Ingested'
    <3>1. over = (submissionIngested + n > MaxSubmissionIngest)
          /\ submissionIngested' = submissionIngested + n /\ ingestCapped' = over
      BY <2>1
    <3>2. submissionIngested' <= MaxSubmissionIngest + MaxExtraction
      BY <1>n, <2>4, <3>1
    <3>3. ~over => submissionIngested' <= MaxSubmissionIngest
      <4>1. SUFFICES ASSUME ~over PROVE submissionIngested' <= MaxSubmissionIngest
        OBVIOUS
      <4>2. ~(submissionIngested + n > MaxSubmissionIngest)
        BY <3>1, <4>1
      <4>3. n \in Nat
        BY <1>n
      <4> QED
        BY <1>n, <3>1, <4>2, <4>3
    <3> QED
      BY <2>3, <3>1, <3>2, <3>3 DEF Ingested
  <2>7. over => c > 0
    BY <1>n, <2>1, <2>4
  <2> DEFINE k == IF over \/ deep THEN 0 ELSE c
  <2>8. /\ k \in Nat /\ k <= c /\ c \in Nat
        /\ Len(queue') = Len(queue) + k
        /\ over \/ deep => k < c
        /\ ~(over \/ deep) => k = c
    BY <2>1, <2>7
  <2> HIDE DEF k
  <2>9. Counted'
    <3>1. /\ discovered' >= processed' + Len(queue')
          /\ over \/ deep => discovered' > processed' + Len(queue')
          /\ unpacked' + InHand' = unpacked + InHand
          /\ discovered > processed + Len(queue) => discovered' > processed' + Len(queue')
      <4>1. discovered' = discovered + c /\ unpacked' = unpacked + 1
            /\ processed' = processed
        BY <2>1
      <4>2. discovered >= processed + Len(queue)
        BY DEF Counted
      <4> QED
        BY <1>n, <2>3, <2>8, <4>1, <4>2
    <3>2. unpacked' + InHand' <= processed'
      BY <2>1, <3>1 DEF Counted
    <3>3. ~res'.incomplete => /\ discovered' = processed' + Len(queue')
                              /\ unpacked' + InHand' = processed'
      <4>1. SUFFICES ASSUME ~res'.incomplete
                     PROVE  /\ discovered' = processed' + Len(queue')
                            /\ unpacked' + InHand' = processed'
        OBVIOUS
      <4>2. ~res.incomplete /\ ~over /\ ~deep
        BY <2>2, <4>1 DEF Disclosed
      <4>3. k = c
        BY <2>8, <4>2
      <4>4. discovered' = discovered + c /\ processed' = processed
        BY <2>1
      <4>5. discovered = processed + Len(queue) /\ unpacked + InHand = processed
        BY <4>2 DEF Counted
      <4> QED
        BY <1>n, <2>8, <3>1, <4>3, <4>4, <4>5
    <3>4. res'.incomplete => \/ failures'
                             \/ omitted'
                             \/ discovered' > processed' + Len(queue')
      BY <2>2, <2>3, <3>1 DEF Counted
    <3> QED
      BY <3>1, <3>2, <3>3, <3>4 DEF Counted
  <2> QED
    BY <2>5, <2>6, <2>9
<1> QED
  BY <1>1, <1>2, <1>3, <1>4, <1>5, <1>6, <1>7, <1>8 DEF Next

(* The strengthened invariant holds for ever.                              *)
LEMMA BooksAlways == Spec => [](TypeOK /\ Books)
<1>1. Init => TypeOK /\ Books
  BY TypeInit, BooksInit
<1>2. TypeOK /\ Books /\ [Next]_vars => (TypeOK /\ Books)'
  BY TypeStep, BooksStep
<1> QED
  BY <1>1, <1>2, PTL DEF Spec

(* A delivered result is marked incomplete exactly when something was not  *)
(* analysed: an artifact never reached, an extraction never folded, an     *)
(* engine that failed or was partial, or a finding left out.               *)
THEOREM GapsAreDisclosed == Spec => []GapsDisclosed
<1>1. TypeOK /\ Books => GapsDisclosed
  <2> SUFFICES ASSUME TypeOK, Books, pc = "done"
               PROVE  res.incomplete <=> \/ processed < discovered
                                         \/ unpacked < processed
                                         \/ failures
                                         \/ omitted
    BY DEF GapsDisclosed
  <2>1. InHand = 0 /\ ~Walking
    BY EngineNames DEF InHand, Walking
  <2>2. /\ processed \in Nat /\ discovered \in Nat /\ unpacked \in Nat
        /\ Len(queue) \in Nat
    BY Numbers
  <2>3. CASE res.incomplete
    <3>1. CASE failures \/ omitted
      BY <2>3, <3>1
    <3>2. CASE discovered > processed + Len(queue)
      BY <2>2, <2>3, <3>2
    <3>3. CASE queue # <<>>
      <4>1. Len(queue) > 0
        BY <3>3, Numbers, EmptySeq
      <4>2. discovered >= processed + Len(queue)
        BY DEF Books, Counted
      <4> QED
        BY <2>2, <2>3, <4>1, <4>2
    <3> QED
      BY <2>1, <2>3, <3>1, <3>2, <3>3 DEF Books, Counted
  <2>4. CASE ~res.incomplete
    <3>1. discovered = processed + Len(queue) /\ unpacked + 0 = processed
      BY <2>1, <2>4 DEF Books, Counted
    <3>2. queue = <<>> /\ ~failures /\ ~omitted
      BY <2>1, <2>4 DEF Books, Disclosed
    <3>3. Len(queue) = 0
      BY <3>2
    <3> QED
      BY <2>2, <2>4, <3>1, <3>2, <3>3
  <2> QED
    BY <2>3, <2>4
<1> QED
  BY <1>1, BooksAlways, PTL

(* No child of any archive is dropped in silence.                          *)
THEOREM NothingDroppedSilently == Spec => []NoSilentDrop
<1>1. TypeOK /\ Books => NoSilentDrop
  BY DEF Books, Counted, NoSilentDrop
<1> QED
  BY <1>1, BooksAlways, PTL

(* The counted ingest exceeds the budget by at most one extraction.        *)
THEOREM IngestIsBounded == Spec => []CountedIngestBounded
<1>1. TypeOK /\ Books => CountedIngestBounded
  BY DEF Books, Ingested, CountedIngestBounded
<1> QED
  BY <1>1, BooksAlways, PTL
----------------------------------------------------------------------------
(* The promise speaks of the same verdict lattice as the workflow.         *)
LEMMA PromiseOperators ==
  /\ Promise!Verdicts = Verdicts /\ Promise!Unknown = Unknown
  /\ \A S : Promise!Join(S) = Join(S)
  /\ \A s, gap : Promise!Floor(s, gap) = Floor(s, gap)
<1>1. Promise!Verdicts = Verdicts
  BY DEF Promise!Verdicts, Verdicts
<1>2. Promise!Unknown = Unknown /\ Promise!Suspicious = Suspicious
  BY DEF Promise!Unknown, Unknown, Promise!Suspicious, Suspicious
<1>3. \A S : Promise!Join(S) = Join(S)
  BY DEF Promise!Join, Join
<1>4. \A s, gap : Promise!Floor(s, gap) = Floor(s, gap)
  BY <1>2, <1>3 DEF Promise!Floor, Floor
<1> QED
  BY <1>1, <1>2, <1>3, <1>4

(* SubmissionWorkflow implements the abstract promise: every step observes *)
(* a signal or a gap, delivers, or stutters.                               *)
LEMMA RefinementStep ==
  TypeOK /\ VerdictExact /\ [Next]_vars => [Promise!Next]_(Promise!vars)
<1> SUFFICES ASSUME TypeOK, VerdictExact, [Next]_vars
             PROVE  Promise!Next \/ UNCHANGED Promise!vars
  OBVIOUS
<1>0. res \in Result /\ signal \in Verdicts /\ res.incomplete \in BOOLEAN
  BY DEF TypeOK, Result
<1>v. VerdictExact'
  BY ExactStep
<1>s. \A s \in Verdicts, gap \in BOOLEAN :
        /\ pc # "done" /\ pc' # "done"
        /\ signal' = Join({signal, s})
        /\ res'.incomplete = (res.incomplete \/ gap)
        => Promise!Next
  BY <1>v, PromiseOperators DEF VerdictExact, Promise!Next, Promise!Observe
<1>1. CASE Pop \/ Drained \/ Score \/ UNCHANGED vars \/ \E e \in Engines : Complete(e)
  <2>1. /\ signal' = signal /\ res'.incomplete = res.incomplete
        /\ res'.verdict = res.verdict /\ (pc' = "done") = (pc = "done")
    BY <1>0, <1>1 DEF Pop, Drained, Score, Complete, vars, control, history, Result
  <2> QED
    BY <2>1 DEF Promise!vars
<1>2. CASE HandOff
  BY <1>2 DEF HandOff, history, Promise!Next, Promise!Deliver
<1>3. CASE ArtifactCap \/ \E e \in Engines : FoldFailed(e)
  <2>1. /\ pc # "done" /\ pc' # "done" /\ signal' = signal
        /\ res'.incomplete = TRUE
    <3>1. res' = Floored(res)
      BY <1>3 DEF ArtifactCap, FoldFailed
    <3>2. pc # "done" /\ pc' # "done" /\ signal' = signal
      BY <1>3, AdvanceFacts, EngineNames DEF ArtifactCap, FoldFailed
    <3> QED
      BY <1>0, <3>1, <3>2, FlooredFacts
  <2>2. Join({signal, signal}) = signal
    <3>1. {signal, signal} \in SUBSET Verdicts /\ signal \in {signal, signal}
          /\ \A w \in {signal, signal} : w <= signal
      BY <1>0 DEF Verdicts
    <3> QED
      BY <3>1, JoinUnique
  <2> QED
    BY <1>0, <1>s, <2>1, <2>2
<1>4. ASSUME NEW e \in Engines, FoldReport(e)
      PROVE  Promise!Next
  <2>1. PICK inc \in BOOLEAN, lo \in BOOLEAN : FoldEffect(inc, lo, FALSE)
    BY <1>4, ReportEffect
  <2>2. PICK s \in Verdicts : signal' = Join({signal, s})
    BY <2>1 DEF FoldEffect
  <2> DEFINE gap == inc \/ (lo /\ ~findingsCapped)
  <2>3. gap \in BOOLEAN /\ res'.incomplete = (res.incomplete \/ gap)
    BY <2>1 DEF FoldEffect
  <2>4. pc # "done" /\ pc' # "done"
    BY <1>4, AdvanceFacts, EngineNames DEF FoldReport
  <2> HIDE DEF gap
  <2> QED
    BY <1>s, <2>2, <2>3, <2>4
<1>5. CASE FoldExtract
  <2>1. PICK inc \in BOOLEAN, lo \in BOOLEAN, over \in BOOLEAN, deep \in BOOLEAN :
          FoldEffect(inc, lo, over \/ (deep /\ ~depthCapped))
    BY <1>5, ExtractEffect
  <2>2. PICK s \in Verdicts : signal' = Join({signal, s})
    BY <2>1 DEF FoldEffect
  <2> DEFINE gap == inc \/ (lo /\ ~findingsCapped) \/ over \/ (deep /\ ~depthCapped)
  <2>3. gap \in BOOLEAN /\ res'.incomplete = (res.incomplete \/ gap)
    BY <2>1 DEF FoldEffect
  <2>4. pc # "done" /\ pc' # "done"
    <3>1. "extract" \in Engines /\ Advance("extract") /\ pc = "extract"
      BY <1>5, EngineNames DEF FoldExtract
    <3> QED
      BY <3>1, AdvanceFacts, EngineNames
  <2> HIDE DEF gap
  <2> QED
    BY <1>s, <2>2, <2>3, <2>4
<1> QED
  BY <1>1, <1>2, <1>3, <1>4, <1>5 DEF Next

(* Whatever the tree, the engines and the caps, SubmissionWorkflow is an   *)
(* implementation of Rollup: exactly the worst signal observed, floored by *)
(* the gaps, and fixed once delivered.                                     *)
THEOREM Refinement == Spec => ImplementsRollup
<1>1. Init => TypeOK /\ VerdictExact /\ Promise!Init
  <2>1. Init => Promise!Init
    BY PromiseOperators DEF Init, Promise!Init
  <2>2. Init => VerdictExact
    BY ExactInit
  <2> QED
    BY <2>1, <2>2, TypeInit
<1>2. TypeOK /\ VerdictExact /\ [Next]_vars => (TypeOK /\ VerdictExact)'
  BY TypeStep, ExactStep
<1>3. TypeOK /\ VerdictExact /\ [Next]_vars => [Promise!Next]_(Promise!vars)
  BY RefinementStep
<1> QED
  BY <1>1, <1>2, <1>3, PTL DEF Spec, ImplementsRollup, Promise!Spec
----------------------------------------------------------------------------
(* What is appended outside the size budget: per artifact, up to the fold  *)
(* of engine e at depth d, a hash and an error of each engine before e,    *)
(* and one marker for each cap that has been met.                          *)
Flag(b)     == IF b THEN 1 ELSE 0
Markers     == Flag(findingsCapped) + Flag(depthCapped) + Flag(ingestCapped)
Spent(e, d) == IF d = 0 THEN Rank[e] - 1 ELSE IF e = "extract" THEN 6 ELSE Rank[e]

Extras ==
  /\ pc = "detonate" => depth = 0
  /\ pc = "extract" => ~ingestCapped
  /\ pc \in Engines => /\ processed >= 1
                       /\ offBudget <= 7 * (processed - 1) + Spent(pc, depth) + Markers
  /\ pc \notin Engines => offBudget <= 7 * processed + Markers + Flag(pc # "loop")

LEMMA Flags == \A b \in BOOLEAN : Flag(b) \in {0, 1}
  BY DEF Flag

(* There are three markers, before a step and after it.                    *)
LEMMA MarkerCount ==
  ASSUME TypeOK, TypeOK'
  PROVE  /\ Markers \in 0..3 /\ Markers' \in 0..3
         /\ Flag(findingsCapped) \in {0, 1} /\ Flag(findingsCapped') \in {0, 1}
         /\ Flag(depthCapped) \in {0, 1} /\ Flag(depthCapped') \in {0, 1}
         /\ Flag(ingestCapped) \in {0, 1} /\ Flag(ingestCapped') \in {0, 1}
<1>1. /\ findingsCapped \in BOOLEAN /\ depthCapped \in BOOLEAN /\ ingestCapped \in BOOLEAN
      /\ findingsCapped' \in BOOLEAN /\ depthCapped' \in BOOLEAN /\ ingestCapped' \in BOOLEAN
  BY DEF TypeOK
<1>2. /\ Flag(findingsCapped) \in {0, 1} /\ Flag(depthCapped) \in {0, 1}
      /\ Flag(ingestCapped) \in {0, 1}
  BY <1>1, Flags
<1>3. /\ Flag(findingsCapped') \in {0, 1} /\ Flag(depthCapped') \in {0, 1}
      /\ Flag(ingestCapped') \in {0, 1}
  BY <1>1, Flags
<1>4. Markers \in 0..3
  BY <1>2 DEF Markers
<1>5. Markers' \in 0..3
  BY <1>3 DEF Markers
<1> QED
  BY <1>2, <1>3, <1>4, <1>5

(* The engine that is folded next has room for one error more.             *)
LEMMA Forward ==
  ASSUME TypeOK, NEW e \in Engines, Advance(e), e = "detonate" => depth = 0
  PROVE  \/ pc' = "loop" /\ Spent(e, depth) + 1 \in 1..7
         \/ /\ pc' \in Engines /\ (pc' = "detonate" => depth = 0)
            /\ Spent(e, depth) + 1 <= Spent(pc', depth)
<1>1. Spent(e, depth) + 1 \in 1..7
  BY EngineNames DEF Spent, Rank
<1>2. CASE pc' = "loop"
  BY <1>1, <1>2
<1>3. CASE pc' # "loop"
  <2>1. PICK n \in After(e) : pc' = n
    BY <1>3 DEF Advance
  <2>2. n \in Engines /\ Rank[n] > Rank[e] /\ (n = "detonate" => depth = 0)
    BY <2>1, EngineNames DEF After, Wanted
  <2>3. Spent(e, depth) + 1 <= Spent(n, depth)
    <3>1. CASE depth = 0
      BY <2>2, <3>1, EngineNames DEF Spent, Rank
    <3>2. CASE depth # 0
      BY <2>2, <3>2, EngineNames DEF Spent, Rank
    <3> QED
      BY <3>1, <3>2
  <2> QED
    BY <2>1, <2>2, <2>3
<1> QED
  BY <1>2, <1>3

(* One more finding, and room for it.                                      *)
LEMMA Room ==
  ASSUME NEW o \in Int, NEW o2 \in Int, NEW k \in Int, NEW k2 \in Int,
         NEW p \in Int, NEW s \in Int, NEW s2 \in Int,
         o2 + k <= o + 1 + k2, o <= 7 * (p - 1) + s + k, s + 1 <= s2
  PROVE  /\ o2 <= 7 * (p - 1) + s2 + k2
         /\ s2 = 7 => o2 <= 7 * p + k2
  OBVIOUS

(* A fold appends at most one error beside the markers of the caps it met. *)
LEMMA FoldExtras ==
  ASSUME TypeOK, TypeOK', Extras, NEW e \in Engines, pc = e, Advance(e),
         depth' = depth, processed' = processed,
         pc' = "extract" => ~ingestCapped',
         offBudget' + Markers <= offBudget + 1 + Markers'
  PROVE  Extras'
<1> DEFINE k  == Markers
           k2 == Markers'
           s  == Spent(e, depth)
           s2 == Spent(pc', depth)
<1>1. /\ processed \in Int /\ offBudget \in Int /\ offBudget' \in Int
      /\ k \in Int /\ k2 \in Int /\ s \in Int /\ 7 \in Int
  <2>1. processed \in Int /\ offBudget \in Int
    BY Numbers
  <2>2. offBudget' \in Int
    BY DEF TypeOK
  <2>3. k \in Int /\ k2 \in Int
    BY MarkerCount
  <2>4. s \in Int
    BY EngineNames DEF Spent, Rank
  <2> QED
    BY <2>1, <2>2, <2>3, <2>4
<1>2. processed >= 1 /\ offBudget <= 7 * (processed - 1) + s + k
  BY DEF Extras
<1>3. e = "detonate" => depth = 0
  BY DEF Extras
<1>4. offBudget' + k <= offBudget + 1 + k2
  OBVIOUS
<1>5. CASE pc' = "loop" /\ s + 1 \in 1..7
  <2>1. s + 1 <= 7
    BY <1>1, <1>5
  <2>2. offBudget' <= 7 * processed + k2
    <3> HIDE DEF k, k2, s
    <3> QED
      BY <1>1, <1>2, <1>4, <2>1, Room
  <2>3. pc' \notin Engines /\ Flag(pc' # "loop") = 0
    BY <1>5, EngineNames DEF Flag
  <2>4. offBudget' <= 7 * processed + k2 + 0
    <3> HIDE DEF k2
    <3> QED
      BY <1>1, <2>2
  <2> QED
    BY <1>5, <2>3, <2>4 DEF Extras
<1>6. CASE /\ pc' \in Engines /\ (pc' = "detonate" => depth = 0)
           /\ s + 1 <= s2
  <2>1. s2 \in Int
    BY <1>6, EngineNames DEF Spent, Rank
  <2>2. offBudget' <= 7 * (processed - 1) + s2 + k2
    <3> HIDE DEF k, k2, s, s2
    <3> QED
      BY <1>1, <1>2, <1>4, <1>6, <2>1, Room
  <2> QED
    BY <1>2, <1>6, <2>2 DEF Extras, Spent
<1> QED
  BY <1>3, <1>5, <1>6, Forward

(* A body that is folded brings at most the marker of the size cap.        *)
LEMMA MarkerFacts ==
  ASSUME TypeOK, NEW b \in Body,
         NEW spent \in [0..Len(b.findings) -> 0..MaxFindingsBytes],
         FoldBody(b, spent)
  PROVE  Flag(findingsCapped') = Flag(findingsCapped) + MarkerOnce(b, spent)
<1> DEFINE leftOut == Kept(spent, b) # DOMAIN b.findings
<1>1. findingsCapped' = (findingsCapped \/ leftOut)
  BY DEF FoldBody
<1>2. MarkerOnce(b, spent) = IF leftOut /\ ~findingsCapped THEN 1 ELSE 0
  BY DEF MarkerOnce
<1>3. findingsCapped \in BOOLEAN /\ leftOut \in BOOLEAN
  BY DEF TypeOK
<1> HIDE DEF leftOut
<1> QED
  BY <1>1, <1>2, <1>3 DEF Flag

(* A step that appends one finding for each marker it sets, and one more.  *)
LEMMA MarkersPay ==
  ASSUME TypeOK, TypeOK', NEW m \in {0, 1}, NEW x \in {0, 1},
         Flag(findingsCapped') = Flag(findingsCapped) + m,
         Flag(depthCapped') + Flag(ingestCapped')
           = Flag(depthCapped) + Flag(ingestCapped) + x,
         offBudget' = offBudget + m + x
  PROVE  offBudget' + Markers <= offBudget + 1 + Markers'
<1>1. offBudget \in Nat
  BY Numbers
<1>2. /\ Flag(findingsCapped) \in Int /\ Flag(depthCapped) \in Int /\ Flag(ingestCapped) \in Int
      /\ Flag(findingsCapped') \in Int /\ Flag(depthCapped') \in Int
      /\ Flag(ingestCapped') \in Int
  <2>1. \A n \in {0, 1} : n \in Int
    OBVIOUS
  <2> QED
    BY <2>1, MarkerCount
<1> QED
  BY <1>1, <1>2 DEF Markers

LEMMA ExtrasStep == TypeOK /\ TypeOK' /\ Extras /\ [Next]_vars => Extras'
<1> SUFFICES ASSUME TypeOK, TypeOK', Extras, [Next]_vars PROVE Extras'
  OBVIOUS
<1>n. /\ processed \in Nat /\ offBudget \in Nat /\ depth \in Nat
      /\ Markers \in 0..3 /\ Markers' \in 0..3
  BY Numbers, MarkerCount
<1>1. CASE Pop
  <2>1. /\ pc = "loop" /\ pc' = "ident" /\ processed' = processed + 1
        /\ UNCHANGED budgets /\ depth' \in Nat
        /\ offBudget' = IF depth' > 0 THEN offBudget + 1 ELSE offBudget
    BY <1>1 DEF Pop, TypeOK
  <2>2. offBudget <= 7 * processed + Markers /\ Markers' = Markers
    <3>1. Markers' = Markers
      BY <2>1 DEF Markers, budgets
    <3>2. pc \notin Engines /\ Flag(pc # "loop") = 0
      BY <2>1, EngineNames DEF Flag
    <3>3. offBudget <= 7 * processed + Markers + 0
      BY <3>2 DEF Extras
    <3> HIDE DEF Markers
    <3> QED
      BY <1>n, <3>1, <3>3
  <2>3. Spent("ident", depth') = IF depth' > 0 THEN 1 ELSE 0
    BY <2>1 DEF Spent, Rank
  <2>4. offBudget' <= 7 * (processed' - 1) + Spent("ident", depth') + Markers'
    BY <1>n, <2>1, <2>2, <2>3
  <2> QED
    BY <1>n, <2>1, <2>4, EngineNames DEF Extras, Spent
<1>2. CASE ArtifactCap \/ Drained \/ Score \/ HandOff
  <2>1. /\ pc \in {"loop", "score", "handoff"} /\ pc' \in {"score", "handoff", "done"}
        /\ UNCHANGED budgets /\ processed' = processed
        /\ \/ offBudget' = offBudget
           \/ pc = "loop" /\ offBudget' = offBudget + 1
    BY <1>2 DEF ArtifactCap, Drained, Score, HandOff, history
  <2>2. Markers' = Markers /\ pc \notin Engines /\ pc' \notin Engines
    BY <2>1, EngineNames DEF Markers, budgets
  <2>3. offBudget' <= 7 * processed' + Markers' + 1
    BY <1>n, <2>1, <2>2 DEF Extras, Flag
  <2> QED
    BY <2>1, <2>2, <2>3 DEF Extras, Flag
<1>3. ASSUME NEW e \in Engines, Complete(e) PROVE Extras'
  BY <1>3 DEF Complete, budgets, Extras, Markers
<1>4. ASSUME NEW e \in Engines, FoldFailed(e) PROVE Extras'
  <2>1. /\ pc = e /\ Advance(e) /\ UNCHANGED budgets /\ depth' = depth
        /\ processed' = processed /\ offBudget' = offBudget + 1
    BY <1>4 DEF FoldFailed
  <2>2. Markers' = Markers /\ (pc' = "extract" => ~ingestCapped')
    BY <2>1, AdvanceFacts DEF budgets, Markers
  <2> QED
    BY <1>n, <2>1, <2>2, FoldExtras
<1>5. ASSUME NEW e \in Engines, FoldReport(e) PROVE Extras'
  <2> DEFINE b == fut[e].rep.body
  <2>1. b \in Body
    BY <1>5, FutureFacts DEF FoldReport
  <2>2. PICK spent \in [0..Len(b.findings) -> 0..MaxFindingsBytes] :
          FoldBody(b, spent) /\ offBudget' = offBudget + MarkerOnce(b, spent)
    BY <1>5 DEF FoldReport
  <2>3. /\ pc = e /\ Advance(e) /\ depth' = depth /\ processed' = processed
        /\ depthCapped' = depthCapped /\ ingestCapped' = ingestCapped
    BY <1>5 DEF FoldReport
  <2> HIDE DEF b
  <2>4. /\ Flag(findingsCapped') = Flag(findingsCapped) + MarkerOnce(b, spent)
        /\ MarkerOnce(b, spent) \in {0, 1}
    BY <2>1, <2>2, MarkerFacts DEF MarkerOnce
  <2>5. offBudget' + Markers <= offBudget + 1 + Markers'
    <3>1. /\ Flag(depthCapped') = Flag(depthCapped) /\ Flag(ingestCapped') = Flag(ingestCapped)
          /\ Flag(depthCapped) \in {0, 1} /\ Flag(ingestCapped) \in {0, 1}
      BY <2>3, MarkerCount
    <3>2. Flag(depthCapped') + Flag(ingestCapped') = Flag(depthCapped) + Flag(ingestCapped) + 0
      BY <3>1
    <3>3. offBudget' = offBudget + MarkerOnce(b, spent) + 0
      BY <1>n, <2>2, <2>4
    <3> QED
      BY <2>4, <3>2, <3>3, MarkersPay
  <2>6. pc' = "extract" => ~ingestCapped'
    BY <2>3, AdvanceFacts
  <2> QED
    BY <2>3, <2>5, <2>6, FoldExtras
<1>6. CASE FoldExtract
  <2> DEFINE rep == fut["extract"].rep
             b == rep.body
             over == submissionIngested + rep.ingested > MaxSubmissionIngest
             deep == ~over /\ rep.children > 0 /\ depth + 1 > MaxDepth
  <2>0. "extract" \in Engines
    BY EngineNames
  <2>1. b \in Body
    BY <1>6, <2>0, FutureFacts DEF FoldExtract
  <2>2. PICK spent \in [0..Len(b.findings) -> 0..MaxFindingsBytes] :
          /\ FoldBody(b, spent)
          /\ offBudget' = offBudget + MarkerOnce(b, spent)
                          + (IF over \/ (deep /\ ~depthCapped) THEN 1 ELSE 0)
          /\ ingestCapped' = over
          /\ depthCapped' = (depthCapped \/ deep)
    BY <1>6 DEF FoldExtract
  <2>3. pc = "extract" /\ Advance("extract") /\ depth' = depth /\ processed' = processed
    BY <1>6 DEF FoldExtract
  <2>4. ~ingestCapped /\ over \in BOOLEAN /\ deep \in BOOLEAN /\ (deep => ~over)
    BY <2>3 DEF Extras
  <2> HIDE DEF over, deep, b
  <2>5. /\ Flag(findingsCapped') = Flag(findingsCapped) + MarkerOnce(b, spent)
        /\ MarkerOnce(b, spent) \in {0, 1}
    BY <2>1, <2>2, MarkerFacts DEF MarkerOnce
  <2>6. Flag(depthCapped') + Flag(ingestCapped')
          = Flag(depthCapped) + Flag(ingestCapped)
            + (IF over \/ (deep /\ ~depthCapped) THEN 1 ELSE 0)
    BY <2>2, <2>4 DEF Flag, TypeOK
  <2>7. offBudget' + Markers <= offBudget + 1 + Markers'
    BY <2>2, <2>5, <2>6, MarkersPay
  <2>8. pc' # "extract"
    BY <2>0, <2>3, AdvanceFacts
  <2> QED
    BY <2>0, <2>3, <2>7, <2>8, FoldExtras
<1>7. CASE UNCHANGED vars
  BY <1>7 DEF vars, control, budgets, history, Extras, Markers
<1> QED
  BY <1>1, <1>2, <1>3, <1>4, <1>5, <1>6, <1>7 DEF Next

(* However many findings engines report, what is appended outside the size *)
(* budget is bounded by the number of artifacts.                           *)
THEOREM ExtrasAreBounded == Spec => []OffBudgetBounded
<1>1. Init => Extras
  <2> SUFFICES ASSUME Init PROVE Extras
    OBVIOUS
  <2>1. pc = "loop" /\ pc \notin Engines /\ processed = 0 /\ offBudget = 0
    BY EngineNames DEF Init
  <2>2. Markers = 0 /\ Flag(pc # "loop") = 0
    BY <2>1 DEF Init, Markers, Flag
  <2> QED
    BY <2>1, <2>2 DEF Extras
<1>2. TypeOK /\ Extras => OffBudgetBounded
  <2> SUFFICES ASSUME TypeOK, Extras PROVE offBudget <= 7 * processed + 4
    BY DEF OffBudgetBounded
  <2>1. processed \in Nat /\ offBudget \in Nat /\ Markers \in 0..3
    <3>1. /\ Flag(findingsCapped) \in {0, 1} /\ Flag(depthCapped) \in {0, 1}
          /\ Flag(ingestCapped) \in {0, 1}
      <4>1. findingsCapped \in BOOLEAN /\ depthCapped \in BOOLEAN /\ ingestCapped \in BOOLEAN
        BY DEF TypeOK
      <4> QED
        BY <4>1, Flags
    <3>2. Markers \in 0..3
      BY <3>1 DEF Markers
    <3> QED
      BY <3>2, Numbers
  <2>2. CASE pc \in Engines
    <3>1. Spent(pc, depth) \in 0..6 /\ processed >= 1
      BY <2>2, EngineNames, Numbers DEF Extras, Spent, Rank
    <3> QED
      BY <2>1, <2>2, <3>1 DEF Extras
  <2>3. CASE pc \notin Engines
    BY <2>1, <2>3 DEF Extras, Flag
  <2> QED
    BY <2>2, <2>3
<1>3. TypeOK /\ Extras /\ [Next]_vars => (TypeOK /\ Extras)'
  BY TypeStep, ExtrasStep
<1> QED
  BY <1>1, <1>2, <1>3, TypeInit, PTL DEF Spec
----------------------------------------------------------------------------
(* The futures the workflow holds: the one it awaits and, beside the       *)
(* identification, the one of the scan.  There is no other: nothing that   *)
(* was dispatched is left behind, and no two artifacts are in work.        *)
Held(e)  == e = pc \/ (pc = "ident" /\ e = "yara")
Awaited  == \A e \in Engines : fut[e].st = "idle" <=> ~Held(e)
Resolved(e) == fut[e].st \in {"ok", "failed"}

(* What is left to do: of the artifact in work, engines and futures still  *)
(* out; after the walk, the steps to its end; and artifacts not begun.     *)
Out(e)  == IF fut[e].st = "running" THEN 1 ELSE 0
InWork  == IF pc \in Engines
           THEN 3 * (8 - Rank[pc]) + Out(pc) + (IF pc = "ident" THEN Out("yara") ELSE 0)
           ELSE 0
Tailing == IF pc = "done" THEN 0 ELSE IF pc = "handoff" THEN 1
           ELSE IF pc = "score" THEN 2 ELSE 3
Steps   == 24 * (MaxArtifacts - processed) + InWork + Tailing

(* What the workflow sees of activity e, and that it is a future (Future)  *)
(* from its dispatch until it is folded, in its turn.                      *)
Answer(e) == IF ~Resolved(e) THEN "pending"
             ELSE IF fut[e].st = "failed" THEN "failed" ELSE fut[e].rep.body.verdict
Seen(e) == INSTANCE Future WITH Pending <- "pending", Failed <- "failed", answer <- Answer(e)

Cycle(e) ==
  \/ fut'[e] = fut[e]
  \/ fut[e] = Idle /\ fut'[e] = Running
  \/ fut[e] = Running /\ Seen(e)!Resolve /\ UNCHANGED <<pc, res>>
  \/ Resolved(e) /\ fut'[e] = Idle /\ pc = e

(* A future is idle, running or resolved.                                  *)
LEMMA FutureStates ==
  ASSUME TypeOK, NEW e \in Engines
  PROVE  /\ fut[e].st \in {"idle", "running", "ok", "failed"}
         /\ fut[e].st = "idle" <=> fut[e] = Idle
         /\ fut[e].st = "running" <=> fut[e] = Running
<1>1. IsFuture(e, fut[e])
  BY DEF TypeOK
<1>2. Idle.st = "idle" /\ Running.st = "running"
  BY DEF Idle, Running
<1> QED
  BY <1>1, <1>2 DEF IsFuture

LEMMA Outs ==
  ASSUME NEW e
  PROVE  Out(e) \in 0..1
  BY DEF Out

LEMMA Ranks == \A e \in Engines : Rank[e] \in 1..7
  BY EngineNames DEF Rank

(* A fold puts the future it folded aside and awaits the next, which runs. *)
LEMMA AdvanceFutures ==
  ASSUME TypeOK, Awaited, NEW e \in Engines, pc = e, Advance(e)
  PROVE  /\ Awaited'
         /\ fut'[e] = Idle
         /\ \A x \in Engines \ {e} : \/ fut'[x] = fut[x]
                                     \/ fut[x] = Idle /\ fut'[x] = Running
         /\ pc' = "loop" \/ (pc' \in Engines /\ Rank[pc'] > Rank[e])
<1>1. Wanted \in SUBSET Engines /\ "yara" \in Wanted
  BY EngineNames DEF Wanted
<1>2. After(e) \in SUBSET Engines /\ \A x \in After(e) : Rank[x] > Rank[e]
  BY <1>1 DEF After
<1>i. Idle.st = "idle" /\ Running.st = "running"
  BY DEF Idle, Running
<1>e. "loop" \notin Engines /\ "yara" \in Engines /\ DOMAIN fut = Engines
  BY EngineNames DEF TypeOK
<1>3. CASE After(e) = {} /\ pc' = "loop" /\ fut' = [fut EXCEPT ![e] = Idle]
  <2>1. e # "ident"
    <3>1. e = "ident" => "yara" \in After(e)
      BY <1>1 DEF After, Rank
    <3> QED
      BY <1>3, <3>1
  <2>2. \A x \in Engines : fut'[x] = IF x = e THEN Idle ELSE fut[x]
    BY <1>3, <1>e
  <2>3. \A x \in Engines : fut'[x].st = "idle"
    BY <2>1, <2>2, <1>i DEF Awaited, Held
  <2>4. Awaited'
    BY <1>3, <1>e, <2>3 DEF Awaited, Held
  <2> QED
    BY <1>3, <2>2, <2>4
<1>4. ASSUME NEW n \in After(e), \A w \in After(e) : Rank[n] <= Rank[w], pc' = n,
             fut' = [fut EXCEPT ![e] = Idle, ![n] = IF @.st = "idle" THEN Running ELSE @]
      PROVE  /\ Awaited'
             /\ \A x \in Engines \ {e} : \/ fut'[x] = fut[x]
                                         \/ fut[x] = Idle /\ fut'[x] = Running
             /\ fut'[e] = Idle
  <2>1. n \in Engines /\ n # e /\ Rank[n] > Rank[e] /\ Rank[n] \in 1..7 /\ Rank[e] \in 1..7
    BY <1>2, Ranks
  <2>2. n # "ident" /\ (e = "ident" => n = "yara")
    <3>1. Rank["ident"] = 1 /\ Rank["yara"] = 2
      BY DEF Rank
    <3>2. e = "ident" => "yara" \in After(e)
      BY <1>1, <3>1 DEF After
    <3>3. \A x \in Engines : Rank[x] <= 2 => x \in {"ident", "yara"}
      BY EngineNames DEF Rank
    <3> QED
      BY <1>4, <2>1, <3>1, <3>2, <3>3
  <2>3. \A x \in Engines : fut'[x] = IF x = e THEN Idle
                                     ELSE IF x = n /\ fut[n].st = "idle" THEN Running
                                     ELSE fut[x]
    BY <1>4, <1>e, <2>1
  <2>4. fut'[n].st # "idle"
    BY <1>i, <2>1, <2>3
  <2>5. \A x \in Engines \ {n} : fut'[x].st = "idle"
    BY <1>i, <2>2, <2>3 DEF Awaited, Held
  <2>6. Awaited'
    BY <1>4, <2>2, <2>4, <2>5 DEF Awaited, Held
  <2>7. fut[n].st = "idle" => fut[n] = Idle
    BY <2>1, FutureStates
  <2> QED
    BY <2>3, <2>6, <2>7
<1> QED
  BY <1>2, <1>3, <1>4 DEF Advance

(* What the steps that fold have in common.                                *)
LEMMA Folds ==
  ASSUME TypeOK, NEW e \in Engines, FoldFailed(e) \/ FoldReport(e) \/ (e = "extract" /\ FoldExtract)
  PROVE  pc = e /\ Advance(e) /\ Resolved(e) /\ processed' = processed
  BY DEF FoldFailed, FoldReport, FoldExtract, Resolved

(* What an activity that finishes does to its future.                      *)
LEMMA Completes ==
  ASSUME TypeOK, NEW e \in Engines, Complete(e)
  PROVE  /\ fut[e] = Running /\ fut'[e].st \in {"ok", "failed"}
         /\ \A x \in Engines \ {e} : fut'[x] = fut[x]
         /\ UNCHANGED <<pc, processed, res>>
<1>1. PICK o \in Outcomes(e) : fut' = [fut EXCEPT ![e] = o]
  BY DEF Complete
<1>2. o.st \in {"ok", "failed"}
  BY DEF Outcomes, Failures
<1>3. fut'[e] = o /\ \A x \in Engines \ {e} : fut'[x] = fut[x]
  BY <1>1 DEF TypeOK
<1> QED
  BY <1>2, <1>3, FutureStates DEF Complete

LEMMA AwaitedStep == TypeOK /\ Awaited /\ [Next]_vars => Awaited'
<1> SUFFICES ASSUME TypeOK, Awaited, [Next]_vars PROVE Awaited'
  OBVIOUS
<1>e. {"ident", "yara", "extract"} \subseteq Engines
      /\ Engines \cap {"loop", "score", "handoff", "done"} = {}
  BY EngineNames
<1>1. CASE Pop
  <2>1. pc = "loop" /\ pc' = "ident"
        /\ fut' = [fut EXCEPT !["ident"] = Running, !["yara"] = Running]
    BY <1>1 DEF Pop
  <2>2. \A x \in Engines : fut'[x] = IF x \in {"ident", "yara"} THEN Running ELSE fut[x]
    BY <2>1 DEF TypeOK
  <2>3. Running.st # "idle" /\ \A x \in Engines : fut[x].st = "idle"
    BY <1>e, <2>1 DEF Running, Awaited, Held
  <2> QED
    BY <2>1, <2>2, <2>3 DEF Awaited, Held
<1>2. CASE ArtifactCap \/ Drained \/ Score \/ HandOff
  <2>1. pc \notin Engines /\ pc' \notin Engines /\ fut' = fut
    BY <1>2, <1>e DEF ArtifactCap, Drained, Score, HandOff
  <2>2. pc # "ident" /\ pc' # "ident"
    BY <1>e, <2>1
  <2> QED
    BY <2>1, <2>2 DEF Awaited, Held
<1>3. ASSUME NEW e \in Engines, Complete(e) PROVE Awaited'
  <2>1. /\ fut[e].st # "idle" /\ fut'[e].st # "idle" /\ pc' = pc
        /\ \A x \in Engines \ {e} : fut'[x] = fut[x]
    BY <1>3, Completes DEF Running
  <2> QED
    BY <2>1 DEF Awaited, Held
<1>4. ASSUME NEW e \in Engines, FoldFailed(e) \/ FoldReport(e) PROVE Awaited'
  BY <1>4, Folds, AdvanceFutures
<1>5. CASE FoldExtract
  BY <1>5, <1>e, Folds, AdvanceFutures
<1>6. CASE UNCHANGED vars
  BY <1>6 DEF vars, control, Awaited, Held
<1> QED
  BY <1>1, <1>2, <1>3, <1>4, <1>5, <1>6 DEF Next

(* The activities are neither forgotten nor awaited without having been    *)
(* started: exactly the futures the walk still has to fold are out, at     *)
(* every step, and none when it leaves an artifact or ends.                *)
THEOREM FuturesAwaited == Spec => []Awaited
<1>1. Init => Awaited
  BY EngineNames DEF Init, Awaited, Held, Idle
<1> QED
  BY <1>1, TypeCorrect, AwaitedStep, PTL DEF Spec

(* The walk uses each activity as the future Temporal promises (Future):   *)
(* dispatched once per artifact, resolved once, while nothing else of the  *)
(* submission moves, and folded once, when its turn has come.              *)
THEOREM FuturesFollowed == Spec => [][\A e \in Engines : Cycle(e)]_vars
<1>1. TypeOK /\ Awaited /\ [Next]_vars => \A e \in Engines : Cycle(e)
  <2> SUFFICES ASSUME TypeOK, Awaited, [Next]_vars, NEW x \in Engines PROVE Cycle(x)
    OBVIOUS
  <2>1. CASE Pop
    <3>1. pc = "loop" /\ fut' = [fut EXCEPT !["ident"] = Running, !["yara"] = Running]
      BY <2>1 DEF Pop
    <3>2. fut'[x] \in {fut[x], Running}
      BY <3>1 DEF TypeOK
    <3>3. fut[x] = Idle
      BY <3>1, EngineNames, FutureStates DEF Awaited, Held
    <3> QED
      BY <3>2, <3>3 DEF Cycle
  <2>2. CASE ArtifactCap \/ Drained \/ Score \/ HandOff \/ UNCHANGED vars
    BY <2>2 DEF ArtifactCap, Drained, Score, HandOff, vars, control, Cycle
  <2>3. ASSUME NEW e \in Engines, Complete(e) PROVE Cycle(x)
    <3>1. CASE x # e
      BY <2>3, <3>1, Completes DEF Cycle
    <3>2. CASE x = e
      <4>1. fut[x] = Running /\ fut'[x].st \in {"ok", "failed"} /\ UNCHANGED <<pc, res>>
        BY <2>3, <3>2, Completes
      <4>2. Answer(x) = "pending"
        BY <4>1 DEF Answer, Resolved, Running
      <4>3. Answer(x)' \in Verdicts \cup {"failed"}
        <5>1. fut'[x].st = "ok" => fut'[x].rep.body.verdict \in Verdicts
          <6>1. TypeOK'
            BY TypeStep
          <6>2. IsFuture(x, fut'[x])
            BY <6>1 DEF TypeOK
          <6>3. fut'[x].st = "ok" => fut'[x].rep \in Reports(x)
            BY <6>2 DEF IsFuture, Idle, Running
          <6>4. \A r \in Reports(x) : r.body \in Body
            <7>1. \A r \in Reports(x) : r.body \in Bodies \cup {NoOpBody}
              BY DEF Reports, Report
            <7>2. NoOpBody \in Body
              BY DEF NoOpBody, Body, Verdicts, Unknown
            <7> QED
              BY <7>1, <7>2, SubmissionConstants
          <6> QED
            BY <6>3, <6>4 DEF Body
        <5> QED
          BY <4>1, <5>1 DEF Answer, Resolved
      <4>4. Seen(x)!Resolve
        BY <4>2, <4>3 DEF Seen!Resolve, Seen!Verdicts, Verdicts
      <4> QED
        BY <4>1, <4>4 DEF Cycle
    <3> QED
      BY <3>1, <3>2
  <2>4. ASSUME NEW e \in Engines, FoldFailed(e) \/ FoldReport(e) \/ (e = "extract" /\ FoldExtract)
        PROVE  Cycle(x)
    BY <2>4, Folds, AdvanceFutures DEF Cycle
  <2> QED
    BY <2>1, <2>2, <2>3, <2>4, EngineNames DEF Next
<1> QED
  BY <1>1, TypeCorrect, FuturesAwaited, PTL DEF Spec

(* However the engines answer, what is left to do only shrinks.            *)
LEMMA InWorkType ==
  ASSUME TypeOK
  PROVE  /\ InWork \in 0..23 /\ (pc \in Engines => InWork >= 3)
         /\ Tailing \in 0..3 /\ MaxArtifacts - processed \in 0..MaxArtifacts
<1>1. MaxArtifacts - processed \in 0..MaxArtifacts
  BY SubmissionConstants DEF TypeOK
<1>2. CASE pc \in Engines
  <2>1. Rank[pc] \in 1..7 /\ Out(pc) \in 0..1 /\ Out("yara") \in 0..1
    BY <1>2, Ranks, Outs
  <2>2. Rank[pc] = 1 \/ pc # "ident" 
    BY DEF Rank
  <2>3. pc # "ident" => Rank[pc] >= 2
    BY <1>2, EngineNames DEF Rank
  <2> QED
    BY <1>1, <1>2, <2>1, <2>2, <2>3 DEF InWork, Tailing
<1>3. CASE pc \notin Engines
  BY <1>1, <1>3 DEF InWork, Tailing
<1> QED
  BY <1>2, <1>3

LEMMA StepsDown == TypeOK /\ TypeOK' /\ Awaited /\ Next => Steps' < Steps
<1> SUFFICES ASSUME TypeOK, TypeOK', Awaited, Next PROVE Steps' < Steps
  OBVIOUS
<1>e. {"ident", "yara", "extract"} \subseteq Engines
      /\ Engines \cap {"loop", "score", "handoff", "done"} = {}
  BY EngineNames
<1> DEFINE p == MaxArtifacts - processed
           q == MaxArtifacts - processed'
<1>t. /\ InWork \in 0..23 /\ (pc \in Engines => InWork >= 3) /\ Tailing \in 0..3 /\ p \in Nat
  BY InWorkType
<1>u. /\ InWork' \in 0..23 /\ (pc' \in Engines => InWork' >= 3) /\ Tailing' \in 0..3 /\ q \in Nat
  <2>1. TypeOK => /\ InWork \in 0..23 /\ (pc \in Engines => InWork >= 3)
                  /\ Tailing \in 0..3 /\ MaxArtifacts - processed \in 0..MaxArtifacts
    BY InWorkType
  <2>2. (TypeOK => /\ InWork \in 0..23 /\ (pc \in Engines => InWork >= 3)
                   /\ Tailing \in 0..3 /\ MaxArtifacts - processed \in 0..MaxArtifacts)'
    BY InWorkType, PTL
  <2> QED
    BY <2>2
<1> DEFINE w == InWork
           v == InWork'
           t == Tailing
           u == Tailing'
<1>l. /\ q + 1 = p /\ u = t => Steps' < Steps
      /\ q = p /\ v < w /\ u = t => Steps' < Steps
      /\ q = p /\ v = w /\ u < t => Steps' < Steps
  <2>1. /\ p \in Nat /\ q \in Nat /\ w \in 0..23 /\ v \in 0..23 /\ t \in 0..3 /\ u \in 0..3
    BY <1>t, <1>u
  <2>2. Steps = 24 * p + w + t /\ Steps' = 24 * q + v + u
    BY DEF Steps
  <2> HIDE DEF p, q, w, v, t, u
  <2>3. /\ q + 1 = p /\ u = t => 24 * q + v + u < 24 * p + w + t
        /\ q = p /\ v < w /\ u = t => 24 * q + v + u < 24 * p + w + t
        /\ q = p /\ v = w /\ u < t => 24 * q + v + u < 24 * p + w + t
    BY <2>1
  <2> QED
    BY <2>2, <2>3
<1>1. CASE Pop
  <2>1. q + 1 = p /\ pc = "loop" /\ pc' = "ident"
    <3>1. processed' = processed + 1 /\ processed \in Nat /\ MaxArtifacts \in Nat
      BY <1>1, SubmissionConstants DEF Pop, TypeOK
    <3>2. q + 1 = p
      BY <3>1
    <3> QED
      BY <1>1, <3>2 DEF Pop
  <2>2. Tailing = 3 /\ Tailing' = 3 /\ InWork = 0
    BY <1>e, <2>1 DEF Tailing, InWork
  <2> QED
    BY <1>t, <1>u, <1>l, <2>1, <2>2
<1>2. CASE ArtifactCap \/ Drained \/ Score \/ HandOff
  <2>1. /\ q = p
        /\ \/ pc = "loop" /\ pc' = "score"
           \/ pc = "score" /\ pc' = "handoff"
           \/ pc = "handoff" /\ pc' = "done"
    BY <1>2 DEF ArtifactCap, Drained, Score, HandOff
  <2>2. Tailing' < Tailing /\ InWork = 0 /\ InWork' = 0
    BY <1>e, <2>1 DEF Tailing, InWork
  <2> QED
    BY <1>t, <1>u, <1>l, <2>1, <2>2
<1>3. ASSUME NEW e \in Engines, Complete(e) PROVE Steps' < Steps
  <2>1. /\ fut[e] = Running /\ fut'[e].st \in {"ok", "failed"}
        /\ \A x \in Engines \ {e} : fut'[x] = fut[x]
        /\ UNCHANGED <<pc, processed>>
    BY <1>3, Completes
  <2>2. Out(e) = 1 /\ Out(e)' = 0 /\ \A x \in Engines \ {e} : Out(x)' = Out(x)
    BY <2>1 DEF Out, Running
  <2>3. Held(e) /\ pc \in Engines
    <3>1. fut[e].st # "idle"
      BY <2>1 DEF Running
    <3> QED
      BY <1>e, <3>1 DEF Awaited, Held
  <2>4. InWork' < InWork
    <3>1. Rank[pc] \in 1..7 /\ Out(pc) \in 0..1 /\ Out("yara") \in 0..1
      BY <2>3, Ranks, Outs
    <3>2. CASE e = pc
      <4>1. pc = "ident" => Out("yara")' = Out("yara")
        BY <1>e, <2>2, <3>2
      <4> QED
        BY <2>1, <2>2, <2>3, <3>1, <3>2, <4>1 DEF InWork
    <3>3. CASE pc = "ident" /\ e = "yara"
      <4>1. Out(pc)' = Out(pc)
        BY <2>1, <2>2, <2>3, <3>3
      <4> QED
        BY <2>1, <2>2, <2>3, <3>1, <3>3, <4>1 DEF InWork
    <3> QED
      BY <2>3, <3>2, <3>3 DEF Held
  <2>5. Tailing' = Tailing /\ q = p
    BY <2>1 DEF Tailing
  <2>9. q = p /\ v < w /\ u = t
    BY <2>4, <2>5
  <2> HIDE DEF p, q, w, v, t, u
  <2> QED
    BY <1>l, <2>9
<1>4. ASSUME NEW e \in Engines, FoldFailed(e) \/ FoldReport(e) \/ (e = "extract" /\ FoldExtract)
      PROVE  Steps' < Steps
  <2>1. pc = e /\ Advance(e) /\ Resolved(e) /\ processed' = processed
    BY <1>4, Folds
  <2>2. /\ fut'[e] = Idle /\ Awaited'
        /\ \A x \in Engines \ {e} : fut'[x] = fut[x] \/ (fut[x] = Idle /\ fut'[x] = Running)
        /\ pc' = "loop" \/ (pc' \in Engines /\ Rank[pc'] > Rank[e])
    BY <2>1, AdvanceFutures
  <2>3. Tailing = 3 /\ Tailing' = 3 /\ q = p
    BY <1>e, <2>1, <2>2 DEF Tailing
  <2>4. InWork' < InWork
    <3>1. CASE pc' = "loop"
      <4>1. InWork' = 0
        BY <1>e, <3>1 DEF InWork
      <4>2. InWork \in 0..23 /\ InWork >= 3
        BY <1>t, <2>1
      <4> QED
        BY <4>1, <4>2
    <3>2. CASE pc' \in Engines /\ Rank[pc'] > Rank[e]
      <4>1. /\ Rank[e] \in 1..7 /\ Rank[pc'] \in 1..7 /\ pc' # "ident"
        <5>1. Rank["ident"] = 1
          BY DEF Rank
        <5> QED
          BY <3>2, <5>1, Ranks
      <4>2. InWork' = 3 * (8 - Rank[pc']) + Out(pc)'
        <5>1. InWork' = 3 * (8 - Rank[pc']) + Out(pc)' + 0
          BY <3>2, <4>1 DEF InWork
        <5>2. Out(pc)' \in 0..1
          BY DEF Out
        <5> QED
          BY <4>1, <5>1, <5>2
      <4>3. InWork >= 3 * (8 - Rank[e])
        BY <2>1, <4>1, Outs DEF InWork
      <4>4. Out(pc)' \in 0..1
        BY DEF Out
      <4>5. InWork \in Int
        BY <1>t
      <4> QED
        BY <3>2, <4>1, <4>2, <4>3, <4>4, <4>5
    <3> QED
      BY <2>2, <3>1, <3>2
  <2>9. q = p /\ v < w /\ u = t
    BY <2>3, <2>4
  <2> HIDE DEF p, q, w, v, t, u
  <2> QED
    BY <1>l, <2>9
<1> QED
  BY <1>1, <1>2, <1>3, <1>4, <1>e DEF Next

(* The walk only shrinks: every step of it, of an engine or of the         *)
(* workflow, leaves less to do, whatever the reports say, and a submission *)
(* is over after at most 24 steps per artifact and three.  What is missing *)
(* to Terminates is that a step is taken.                                  *)
THEOREM WalkShrinks ==
  Spec => [](Steps \in 0..(24 * MaxArtifacts + 3)) /\ [][Steps' < Steps]_vars
<1> DEFINE I == Steps <= 24 * MaxArtifacts + 3
<1>1. TypeOK => Steps \in Nat
  <2> SUFFICES ASSUME TypeOK PROVE Steps \in Nat
    OBVIOUS
  <2> DEFINE p == MaxArtifacts - processed
  <2>1. p \in Nat /\ InWork \in Nat /\ Tailing \in Nat
    BY InWorkType
  <2>2. Steps = 24 * p + InWork + Tailing
    BY DEF Steps
  <2> HIDE DEF p
  <2> QED
    BY <2>1, <2>2
<1>2. Init => I
  <2> SUFFICES ASSUME Init PROVE I
    OBVIOUS
  <2>1. processed = 0 /\ pc = "loop" /\ pc \notin Engines
    BY EngineNames DEF Init
  <2>2. InWork = 0 /\ Tailing = 3
    BY <2>1 DEF InWork, Tailing
  <2> QED
    BY <2>1, <2>2, SubmissionConstants DEF Steps
<1>3. TypeOK /\ TypeOK' /\ Awaited /\ I /\ [Next]_vars => I'
  <2> SUFFICES ASSUME TypeOK, TypeOK', Awaited, I, [Next]_vars PROVE I'
    OBVIOUS
  <2>1. CASE Next
    <3>1. Steps' < Steps
      BY <2>1, StepsDown
    <3>2. Steps \in Nat /\ Steps' \in Nat /\ MaxArtifacts \in Nat
      <4>1. (TypeOK => Steps \in Nat)'
        BY <1>1, PTL
      <4> QED
        BY <1>1, <4>1, SubmissionConstants
    <3> QED
      BY <3>1, <3>2
  <2>2. CASE UNCHANGED vars
    <3>1. Steps' = Steps
      BY <2>2 DEF vars, control, Steps, InWork, Tailing, Out
    <3> QED
      BY <3>1
  <2> QED
    BY <2>1, <2>2
<1>4. TypeOK /\ I => Steps \in 0..(24 * MaxArtifacts + 3)
  BY <1>1, SubmissionConstants
<1>5. TypeOK /\ TypeOK' /\ Awaited /\ [Next]_vars => [Steps' < Steps]_vars
  BY StepsDown
<1> HIDE DEF I
<1> QED
  BY <1>2, <1>3, <1>4, <1>5, TypeCorrect, FuturesAwaited, PTL DEF Spec
----------------------------------------------------------------------------
(* A report can always be folded: the loop over its findings charges each  *)
(* in turn and stays within the budget.                                    *)
LEMMA LeastOf ==
  ASSUME NEW T \in SUBSET Nat, T # {}
  PROVE  \E x \in T : \A y \in T : x <= y
<1> DEFINE R == {p \in Nat \X Nat : p[1] < p[2]}
<1>1. IsWellFoundedOn(R, Nat)
  BY NatLessThanWellFounded DEF OpToRel
<1>2. \E x \in T : \A y \in T : <<y, x>> \notin R
  BY <1>1, WFMin
<1>3. \A x, y \in T : <<y, x>> \notin R => x <= y
  OBVIOUS
<1> QED
  BY <1>2, <1>3

ChargedTo(f, b, n) ==
  /\ f \in [0..n -> 0..MaxFindingsBytes]
  /\ f[0] = findingsBytes
  /\ \A i \in 1..n :
       f[i] = f[i - 1] + (IF Fits(f, b, i) THEN b.findings[i].size ELSE 0)

LEMMA ChargeNext ==
  ASSUME TypeOK, NEW b \in Body, NEW n \in Nat, n < Len(b.findings),
         NEW f, ChargedTo(f, b, n)
  PROVE  \E g : ChargedTo(g, b, n + 1)
<1> DEFINE s == b.findings[n + 1].size
           top == IF f[n] + s <= MaxFindingsBytes THEN f[n] + s ELSE f[n]
           g == [i \in 0..(n + 1) |-> IF i = n + 1 THEN top ELSE f[i]]
<1>1. s \in Nat
  <2>1. b.findings \in Seq(Finding) /\ n + 1 \in 1..Len(b.findings)
    BY DEF Body
  <2>2. b.findings[n + 1] \in Finding
    BY <2>1
  <2> QED
    BY <2>2 DEF Finding
<1>2. \A i \in 0..n : f[i] \in 0..MaxFindingsBytes
  BY DEF ChargedTo
<1>3. top \in 0..MaxFindingsBytes
  BY <1>1, <1>2, SubmissionConstants
<1>4. g \in [0..(n + 1) -> 0..MaxFindingsBytes]
  BY <1>2, <1>3
<1>5. /\ \A i \in 0..n : g[i] = f[i]
      /\ g[n + 1] = top
  OBVIOUS
<1> HIDE DEF g
<1>6. ASSUME NEW i \in 1..(n + 1)
      PROVE  g[i] = g[i - 1] + (IF Fits(g, b, i) THEN b.findings[i].size ELSE 0)
  <2>1. CASE i \in 1..n
    <3>1. g[i] = f[i] /\ g[i - 1] = f[i - 1]
      BY <1>5, <2>1
    <3>2. f[i] = f[i - 1] + (IF Fits(f, b, i) THEN b.findings[i].size ELSE 0)
      BY <2>1 DEF ChargedTo
    <3> QED
      BY <3>1, <3>2 DEF Fits
  <2>2. CASE i = n + 1
    <3>1. g[i] = top /\ g[i - 1] = f[n] /\ f[n] \in Nat /\ b.findings[i].size = s
      BY <1>2, <1>5, <2>2
    <3> QED
      BY <1>1, <3>1 DEF Fits
  <2> QED
    BY <2>1, <2>2
<1>7. g[0] = findingsBytes
  BY <1>5 DEF ChargedTo
<1> QED
  BY <1>4, <1>6, <1>7 DEF ChargedTo

LEMMA ChargeExists ==
  ASSUME TypeOK, NEW b \in Body
  PROVE  \E spent \in [0..Len(b.findings) -> 0..MaxFindingsBytes] : Charged(spent, b)
<1> DEFINE m == Len(b.findings)
           U == {k \in 0..m : ~\E f : ChargedTo(f, b, k)}
<1>0. m \in Nat /\ DOMAIN b.findings = 1..m
  BY DEF Body
<1>1. 0 \notin U
  <2> DEFINE f == [k \in 0..0 |-> findingsBytes]
  <2>1. f \in [0..0 -> 0..MaxFindingsBytes] /\ f[0] = findingsBytes
    BY DEF TypeOK
  <2> HIDE DEF f
  <2>2. ChargedTo(f, b, 0)
    BY <2>1 DEF ChargedTo
  <2> QED
    BY <2>2
<1>2. \A k \in 0..m : k \notin U /\ k < m => k + 1 \notin U
  <2> SUFFICES ASSUME NEW k \in 0..m, k \notin U, k < m PROVE k + 1 \notin U
    OBVIOUS
  <2>1. PICK f : ChargedTo(f, b, k)
    OBVIOUS
  <2> QED
    BY <1>0, <2>1, ChargeNext
<1>3. U \in SUBSET (0..m)
  OBVIOUS
<1>4. m \notin U => \E f : ChargedTo(f, b, m)
  BY <1>0
<1> HIDE DEF U
<1>5. U = {}
  <2> SUFFICES ASSUME U # {} PROVE FALSE
    OBVIOUS
  <2>1. U \in SUBSET Nat
    BY <1>0, <1>3
  <2>2. PICK k \in U : \A j \in U : k <= j
    BY <2>1, LeastOf
  <2>3. k \in 0..m /\ k # 0
    BY <1>1, <1>3, <2>2
  <2>4. k - 1 \in 0..m /\ k - 1 \notin U /\ (k - 1) + 1 = k /\ k - 1 < m
    BY <1>0, <2>1, <2>2, <2>3
  <2> QED
    BY <1>2, <2>2, <2>4
<1>6. PICK f : ChargedTo(f, b, m)
  BY <1>4, <1>5
<1>7. Charged(f, b) /\ f \in [0..m -> 0..MaxFindingsBytes]
  BY <1>0, <1>6 DEF Charged, ChargedTo
<1> QED
  BY <1>7

(* The future that is awaited runs, or can be folded.                      *)
Foldable ==
  pc \in Engines =>
    \/ fut[pc].st \in {"running", "failed"}
    \/ /\ fut[pc].st = "ok"
       /\ LET b == fut[pc].rep.body
          IN  \E spent \in [0..Len(b.findings) -> 0..MaxFindingsBytes] : Charged(spent, b)

(* The walk is never stuck on a report: whichever body, whatever is left   *)
(* of the budget, the loop over its findings has a result.                 *)
THEOREM ReportsFold == Spec => []Foldable
<1>1. TypeOK /\ Awaited => Foldable
  <2> SUFFICES ASSUME TypeOK, Awaited, pc \in Engines PROVE Foldable
    BY DEF Foldable
  <2>1. fut[pc].st \in {"running", "ok", "failed"}
    BY FutureStates DEF Awaited, Held
  <2>2. CASE fut[pc].st = "ok"
    <3>1. fut[pc].rep.body \in Body
      BY <2>2, FutureFacts
    <3> QED
      BY <2>2, <3>1, ChargeExists DEF Foldable
  <2> QED
    BY <2>1, <2>2 DEF Foldable
<1> QED
  BY <1>1, TypeCorrect, FuturesAwaited, PTL
=============================================================================
