--------------------------- MODULE Review_proofs ---------------------------
(* What holds of the enrichment loop for any number of submissions, for    *)
(* every proposal, whatever the analysts decide and however often the      *)
(* orchestrator dies.                                                      *)
EXTENDS Review, Lattice_proofs, FiniteSetTheorems

(* The signals the spine measures only ever stop the gate: a hypothesis    *)
(* accepted with some is accepted without any (gate.go:50-51, 180-183).    *)
THEOREM SignalsOnlyStop ==
  ASSUME NEW h \in Hypothesis, NEW o \in Claimed \cup {NoOverride}, NEW m,
         Accepts(h, o, m)
  PROVE  /\ Accepts([h EXCEPT !.refuted = FALSE, !.novel = FALSE, !.shaky = FALSE],
                    NoOverride, m)
         /\ ~Escalates(h, o, m)
  BY DEF Accepts, Escalates, Stopped, Hypothesis, NoOverride

(* A confidence is only ever calibrated down, and an honest LOW not at all *)
(* (calibration.go:8-14, 49-56).                                           *)
THEOREM CalibratedDown ==
  ASSUME NEW t \in Tally, NEW c \in Claimed
  PROVE  /\ Calibrated(t, c) \in {NoOverride, "LOW", "MEDIUM"}
         /\ Calibrated(t, c) # NoOverride => c # "LOW"
         /\ Calibrated(t, c) = "MEDIUM" => c = "HIGH"
  BY DEF Calibrated, Claimed, NoOverride

(* Without a record a category is supervised, and an autonomous one has    *)
(* cleared the bar on enough outcomes (graduation.go:121-135).             *)
LEMMA ModeEarned ==
  ASSUME NEW t \in Tally
  PROVE  /\ Mode(NoTally) = "supervised"
         /\ Mode(t) = "autonomous" =>
              t.total >= MinToAutonomous /\ 100 * t.right >= AccuracyFloor * t.total
<1>1. NoTally \in Tally /\ NoTally.total = 0
  BY DEF NoTally, Tally
<1>2. Mode(NoTally) = "supervised"
  BY <1>1, AutonomyConstants DEF Mode
<1>3. ASSUME Mode(t) = "autonomous"
      PROVE  t.total >= MinToAutonomous /\ 100 * t.right >= AccuracyFloor * t.total
  <2>1. ~(t.total < MinToAutonomous) /\ ~Below(t, AccuracyFloor)
    BY <1>3 DEF Mode
  <2>2. t.total \in Nat /\ t.right \in Nat /\ MinToAutonomous \in Nat /\ AccuracyFloor \in Nat
    BY AutonomyConstants DEF Tally
  <2>3. AccuracyFloor * t.total \in Nat /\ 100 * t.right \in Nat
    BY <2>2
  <2> QED
    BY <2>1, <2>2, <2>3 DEF Below
<1> QED
  BY <1>2, <1>3

(* An outcome counts once, and as right only if it was.                    *)
LEMMA TalliedFacts ==
  ASSUME NEW t \in Tally, NEW ok \in BOOLEAN
  PROVE  /\ Tallied(t, ok) \in Tally
         /\ t.right <= t.total => Tallied(t, ok).right <= Tallied(t, ok).total
         /\ Tallied(t, ok).total = t.total + 1
         /\ Tallied(t, ok).right = IF ok THEN t.right + 1 ELSE t.right
  BY DEF Tallied, Tally
----------------------------------------------------------------------------
(* The initial state is well-typed.                                        *)
LEMMA TypeInit == Init => TypeOK
<1>1. NoTally \in Tally /\ NoTally.right <= NoTally.total
  BY DEF NoTally, Tally
<1>2. <<>> \in Seq(Hypothesis) /\ <<>> \in Seq(Claimed \cup {NoOverride})
      /\ <<>> \in Seq(Item) /\ <<>> \in Seq(Signal)
  OBVIOUS
<1> QED
  BY <1>1, <1>2, ReviewConstants DEF Init, TypeOK, Stages, Activities, Tiers

(* Where a workflow goes, it goes to a stage, from which it starts anew.   *)
LEMMA EnterType ==
  ASSUME TypeOK, NEW s \in Subs, NEW stage \in Stages, Enter(s, stage)
  PROVE  /\ pc' \in [Subs -> Stages] /\ at' \in [Subs -> Nat]
         /\ act' \in [Subs -> {"scheduled", "running", "lost"}]
<1>1. pc' \in [Subs -> Stages]
  BY DEF TypeOK, Enter
<1>2. at' \in [Subs -> Nat]
  BY DEF TypeOK, Enter
<1>3. act' \in [Subs -> {"scheduled", "running", "lost"}]
  BY DEF TypeOK, Enter
<1> QED
  BY <1>1, <1>2, <1>3

(* A workflow goes on to a later stage, and to "confirm" only by approval. *)
LEMMA OnwardFacts ==
  ASSUME TypeOK, NEW s \in Subs, Onward(s)
  PROVE  \E stage \in {"confirm", "observe", "done"} :
           /\ Enter(s, stage)
           /\ stage = "confirm" => pc[s] = "record" /\ decision[s] = TRUE
           /\ pc[s] \in {"roster", "gate", "observe"} => stage = "done"
           /\ pc[s] \notin {"roster", "gate", "observe"} => stage # "done"
<1>1. CASE pc[s] \in {"roster", "gate", "observe"}
  <2>1. Enter(s, "done")
    BY <1>1 DEF Onward
  <2> QED
    BY <1>1, <2>1
<1>2. CASE pc[s] = "record" /\ decision[s] = TRUE
  <2>1. Enter(s, "confirm")
    BY <1>2 DEF Onward
  <2> QED
    BY <1>2, <2>1
<1>3. CASE pc[s] \notin {"roster", "gate", "observe"} /\ ~(pc[s] = "record" /\ decision[s] = TRUE)
  <2>1. Enter(s, "observe")
    BY <1>3 DEF Onward
  <2> QED
    BY <1>3, <2>1
<1> QED
  BY <1>1, <1>2, <1>3

(* A step of one workflow: what it may do to where the workflows are.      *)
LEMMA FlowType ==
  ASSUME TypeOK, NEW s \in Subs, Workflow(s)
  PROVE  /\ pc' \in [Subs -> Stages] /\ at' \in [Subs -> Nat]
         /\ act' \in [Subs -> {"scheduled", "running", "lost"}]
         /\ \A z \in Subs \ {s} : pc'[z] = pc[z] /\ at'[z] = at[z]
<1>1. CASE Start(s)
  BY <1>1 DEF Start, TypeOK
<1>2. CASE Measure(s) \/ Gate(s) \/ Record(s) \/ Ingest(s)
  <2>1. at' = [at EXCEPT ![s] = @ + 1] /\ UNCHANGED <<pc, act>>
    BY <1>2 DEF Measure, Gate, Record, Ingest, Handled
  <2> QED
    BY <2>1 DEF TypeOK
<1>3. ASSUME NEW stage \in Stages, Enter(s, stage)
      PROVE  /\ pc' \in [Subs -> Stages] /\ at' \in [Subs -> Nat]
             /\ act' \in [Subs -> {"scheduled", "running", "lost"}]
             /\ \A z \in Subs \ {s} : pc'[z] = pc[z] /\ at'[z] = at[z]
  <2>1. \A z \in Subs \ {s} : pc'[z] = pc[z] /\ at'[z] = at[z]
    BY <1>3 DEF Enter, TypeOK
  <2> QED
    BY <1>3, <2>1, EnterType
<1>4. CASE Fails(s) \/ Recorded(s) \/ Ingested(s)
  <2>1. Onward(s)
    BY <1>4 DEF Fails, Recorded, Ingested
  <2>2. PICK stage \in {"confirm", "observe", "done"} : Enter(s, stage)
    BY <2>1, OnwardFacts
  <2> QED
    BY <1>3, <2>2 DEF Stages, Activities
<1>5. CASE Proposed(s) \/ Gated(s) \/ Decide(s) \/ Expire(s)
  <2>1. \E stage \in {"gate", "await", "observe", "record"} : Enter(s, stage)
    BY <1>5 DEF Proposed, Gated, Decide, Expire
  <2> QED
    BY <1>3, <2>1 DEF Stages, Activities
<1> QED
  BY <1>1, <1>2, <1>4, <1>5 DEF Workflow

(* What the gate and the roster say of a submission keeps its type.        *)
LEMMA OutcomeType ==
  ASSUME TypeOK, NEW s \in Subs, Workflow(s)
  PROVE  /\ claims' \in [Subs -> Seq(Hypothesis)]
         /\ over' \in [Subs -> Seq(Claimed \cup {NoOverride})]
         /\ esc' \in [Subs -> Seq(Item)] /\ found' \in [Subs -> BOOLEAN]
<1>1. CASE Start(s)
  <2>1. claims' \in [Subs -> Seq(Hypothesis)]
    BY <1>1, ReviewConstants DEF Start, TypeOK
  <2> QED
    BY <1>1, <2>1 DEF Start, TypeOK
<1>2. CASE Measure(s)
  <2> DEFINE h == claims[s][at[s] + 1]
             i == [kind |-> h.kind, conf |-> h.conf]
  <2>1. h \in Hypothesis
    BY <1>2 DEF Measure, TypeOK
  <2>2. i \in Item /\ h.conf \in Claimed
    BY <2>1 DEF Hypothesis, Item
  <2>3. Calibrated(cal[i], h.conf) \in Claimed \cup {NoOverride}
    <3>1. cal[i] \in Tally
      BY <2>2 DEF TypeOK
    <3> HIDE DEF i, h
    <3> QED
      BY <2>2, <3>1, CalibratedDown DEF Claimed
  <2>4. over' = [over EXCEPT ![s] = Append(@, Calibrated(cal[i], h.conf))]
    BY <1>2 DEF Measure
  <2> HIDE DEF i, h
  <2>5. over' \in [Subs -> Seq(Claimed \cup {NoOverride})]
    BY <2>3, <2>4 DEF TypeOK
  <2> QED
    BY <1>2, <2>5 DEF Measure, TypeOK
<1>3. ASSUME NEW f \in BOOLEAN, NEW e \in Seq(Item), Disposed(s, f, e),
             UNCHANGED <<claims, over>>
      PROVE  /\ claims' \in [Subs -> Seq(Hypothesis)]
             /\ over' \in [Subs -> Seq(Claimed \cup {NoOverride})]
             /\ esc' \in [Subs -> Seq(Item)] /\ found' \in [Subs -> BOOLEAN]
  BY <1>3 DEF Disposed, TypeOK
<1>4. CASE Gate(s)
  <2> DEFINE h == claims[s][at[s] + 1]
             o == over[s][at[s] + 1]
             m == Mode(grad[h.kind])
             i == [kind |-> h.kind, conf |-> h.conf]
  <2>1. h \in Hypothesis
    BY <1>4 DEF Gate, TypeOK
  <2>2. i \in Item
    BY <2>1 DEF Hypothesis, Item
  <2>3. Disposed(s, found[s] \/ Accepts(h, o, m),
                 IF Escalates(h, o, m) THEN Append(esc[s], i) ELSE esc[s])
    BY <1>4 DEF Gate
  <2>4. UNCHANGED <<claims, over>>
    BY <1>4 DEF Gate
  <2>5. (found[s] \/ Accepts(h, o, m)) \in BOOLEAN
    BY DEF TypeOK, Accepts
  <2> HIDE DEF i, h, o, m
  <2>6. (IF Escalates(h, o, m) THEN Append(esc[s], i) ELSE esc[s]) \in Seq(Item)
    BY <2>2 DEF TypeOK
  <2> QED
    BY <1>3, <2>3, <2>4, <2>5, <2>6
<1>5. CASE Fails(s)
  <2>1. CASE pc[s] = "gate"
    <3>1. Disposed(s, FALSE, <<>>)
      BY <1>5, <2>1 DEF Fails
    <3>2. UNCHANGED <<claims, over>>
      BY <1>5 DEF Fails
    <3>3. <<>> \in Seq(Item) /\ FALSE \in BOOLEAN
      OBVIOUS
    <3> QED
      BY <1>3, <3>1, <3>2, <3>3
  <2>2. CASE pc[s] # "gate"
    BY <1>5, <2>2 DEF Fails, TypeOK
  <2> QED
    BY <2>1, <2>2
<1>6. CASE \/ Proposed(s) \/ Gated(s) \/ Decide(s) \/ Expire(s) \/ Record(s)
           \/ Recorded(s) \/ Ingest(s) \/ Ingested(s)
  BY <1>6 DEF Proposed, Gated, Decide, Expire, Record, Recorded, Ingest,
              Ingested, outcome, TypeOK
<1> QED
  BY <1>1, <1>2, <1>4, <1>5, <1>6 DEF Workflow

(* A human has decided exactly when the workflow records or confirms, and  *)
(* nobody has before the review: what the invariants below rest on.        *)
Decided ==
  \A s \in Subs :
    /\ pc[s] = "record" => decision[s] \in BOOLEAN
    /\ pc[s] = "confirm" => decision[s] = TRUE
    /\ pc[s] \in {"roster", "gate", "await"} => decision[s] = NoDecision

(* The mailbox keeps its type, and a decision, once made, stands.          *)
LEMMA MailType ==
  ASSUME TypeOK, Decided, NEW s \in Subs, Workflow(s)
  PROVE  /\ inbox' \in [Subs -> Seq(Signal)]
         /\ decision' \in [Subs -> BOOLEAN \cup {NoDecision}]
         /\ \A z \in Subs : decision[z] # NoDecision => decision'[z] = decision[z]
         /\ \A z \in Subs \ {s} : decision'[z] = decision[z]
<1>1. CASE Decide(s)
  <2>1. inbox[s] \in Seq(Signal) /\ inbox[s] # <<>>
    BY <1>1 DEF Decide, TypeOK
  <2>2. Head(inbox[s]) \in Signal /\ Tail(inbox[s]) \in Seq(Signal)
    BY <2>1
  <2>3. Head(inbox[s]).approved \in BOOLEAN
    BY <2>2 DEF Signal
  <2>4. decision' = [decision EXCEPT ![s] = Head(inbox[s]).approved]
        /\ inbox' = [inbox EXCEPT ![s] = Tail(inbox[s])]
    BY <1>1 DEF Decide
  <2>5. decision[s] = NoDecision
    BY <1>1 DEF Decide, Decided
  <2>6. inbox' \in [Subs -> Seq(Signal)]
    BY <2>2, <2>4 DEF TypeOK
  <2>7. decision' \in [Subs -> BOOLEAN \cup {NoDecision}]
    BY <2>3, <2>4 DEF TypeOK
  <2>8. \A z \in Subs \ {s} : decision'[z] = decision[z]
    BY <2>4 DEF TypeOK
  <2> QED
    BY <2>5, <2>6, <2>7, <2>8
<1>2. CASE ~Decide(s)
  <2>1. UNCHANGED mail
    BY <1>2 DEF Workflow, Start, Fails, Measure, Proposed, Gate, Gated, Expire,
                Record, Recorded, Ingest, Ingested
  <2> QED
    BY <2>1 DEF mail, TypeOK
<1> QED
  BY <1>1, <1>2

(* The track records and the graph keep their types.                       *)
LEMMA MemoryType ==
  ASSUME TypeOK, Decided, NEW s \in Subs, Workflow(s)
  PROVE  /\ grad' \in [Kinds -> Tally] /\ cal' \in [Item -> Tally]
         /\ \A k \in Kinds : grad'[k].right <= grad'[k].total
         /\ owed' \in SUBSET Owed
         /\ tier' \in [Facts -> Tiers] /\ booked' \in SUBSET Outcome
<1>1. CASE Record(s)
  <2> DEFINE i == esc[s][at[s] + 1]
             b == [sub |-> s, item |-> at[s] + 1, kind |-> i.kind,
                   approved |-> decision[s]]
             o == [sub |-> s, of |-> i, approved |-> decision[s]]
  <2>1. i \in Item
    BY <1>1 DEF Record, TypeOK
  <2>2. i.kind \in Kinds
    BY <2>1 DEF Item
  <2>3. decision[s] \in BOOLEAN /\ at[s] \in Nat
    BY <1>1 DEF Record, Running, Decided, TypeOK
  <2>4. b \in Outcome /\ o \in Owed
    BY <2>1, <2>2, <2>3 DEF Outcome, Owed
  <2>5. /\ grad' = [grad EXCEPT ![i.kind] = Tallied(grad[i.kind], decision[s])]
        /\ owed' = owed \cup {o}
        /\ booked' = booked \cup {b} /\ UNCHANGED <<cal, tier>>
    BY <1>1 DEF Record
  <2> HIDE DEF b, i, o
  <2>6. owed' \in SUBSET Owed
    BY <2>4, <2>5 DEF TypeOK
  <2>7. /\ Tallied(grad[i.kind], decision[s]) \in Tally
        /\ Tallied(grad[i.kind], decision[s]).right
             <= Tallied(grad[i.kind], decision[s]).total
    BY <2>2, <2>3, TalliedFacts DEF TypeOK
  <2>8. grad' \in [Kinds -> Tally] /\ \A k \in Kinds : grad'[k].right <= grad'[k].total
    BY <2>2, <2>5, <2>7 DEF TypeOK
  <2> QED
    BY <2>4, <2>5, <2>6, <2>8 DEF TypeOK
<1>2. CASE Ingest(s)
  <2>1. tier' \in [Facts -> Tiers]
    BY <1>2 DEF Ingest, Merged, TypeOK, Tiers
  <2> QED
    BY <1>2, <2>1 DEF Ingest, TypeOK
<1>3. CASE ~Record(s) /\ ~Ingest(s)
  <2>1. UNCHANGED memory
    BY <1>3 DEF Workflow, Start, Fails, Measure, Proposed, Gate, Gated, Decide,
                Expire, Recorded, Ingested
  <2> QED
    BY <2>1 DEF memory, TypeOK
<1> QED
  BY <1>1, <1>2, <1>3

(* What happens to the rest of the world in a step of a workflow.          *)
LEMMA WorldType ==
  ASSUME TypeOK, NEW s \in Subs, Workflow(s)
  PROVE  up' = up /\ crashes' = crashes /\ wrong' \in Nat /\ UNCHANGED gateway
<1>1. CASE Gated(s)
  BY <1>1 DEF Gated, TypeOK
<1>2. CASE ~Gated(s)
  BY <1>2 DEF Workflow, Start, Fails, Measure, Proposed, Gate, Decide, Expire,
              Record, Recorded, Ingest, Ingested, world, TypeOK
<1> QED
  BY <1>1, <1>2

(* A step of a workflow keeps everything well-typed, ...                   *)
LEMMA WorkflowType ==
  ASSUME TypeOK, Decided, NEW s \in Subs, Workflow(s)
  PROVE  TypeOK'
<1>1. reader' = reader /\ shown' = shown /\ UNCHANGED <<up, crashes>> /\ wrong' \in Nat
  BY WorldType DEF gateway
<1> QED
  BY <1>1, FlowType, OutcomeType, MailType, MemoryType DEF TypeOK

(* The enriched verdict is the deterministic one, or SUSPICIOUS above it.  *)
LEMMA EnrichedBounds ==
  ASSUME NEW s \in Subs
  PROVE  /\ Enriched(s) \in Verdicts /\ Enriched(s) >= Base(s)
         /\ Enriched(s) > Base(s) => Enriched(s) <= Suspicious
<1>1. Base(s) \in Verdicts /\ {Base(s), Suspicious} \in SUBSET Verdicts
  BY ReviewConstants DEF Verdicts, Suspicious
<1>2. /\ Join({Base(s), Suspicious}) \in {Base(s), Suspicious}
      /\ \A w \in {Base(s), Suspicious} : w <= Join({Base(s), Suspicious})
  BY <1>1, JoinIsMax
<1> QED
  BY <1>1, <1>2 DEF Enriched, Verdicts, Suspicious

(* ... and so do the gateway, a crash and a restart.                       *)
LEMMA HandlerType ==
  ASSUME TypeOK, NEW r \in Readers, Handler(r)
  PROVE  /\ TypeOK' /\ UNCHANGED <<flow, outcome, mail, memory, world>>
<1>1. UNCHANGED <<flow, outcome, mail, memory, world>>
  BY DEF Handler, Get, Overlay, Fetch, Describe, Query, Answers, Step
<1>2. reader' \in [Readers -> [step : {"idle", "overlay", "fetch", "describe", "query"},
                               sub : Subs]]
  <2> DEFINE Steps == {"idle", "overlay", "fetch", "describe", "query"}
  <2>1. CASE Get(r)
    BY <2>1 DEF Get, TypeOK
  <2>2. ASSUME NEW step \in Steps, Step(r, step)
        PROVE  reader' \in [Readers -> [step : Steps, sub : Subs]]
    BY <2>2 DEF Step, TypeOK
  <2>3. CASE Overlay(r) \/ Fetch(r) \/ Describe(r) \/ Query(r)
    <3>1. \E step \in Steps : Step(r, step)
      BY <2>3 DEF Overlay, Fetch, Describe, Query, Answers
    <3> QED
      BY <2>2, <3>1
  <2> QED
    BY <2>1, <2>3 DEF Handler
<1>3. shown' \in SUBSET Answer
  <2>1. On(r) \in Subs
    BY DEF TypeOK, On
  <2>2. Base(On(r)) \in Verdicts /\ Enriched(On(r)) \in Verdicts
        /\ Raised(On(r)) \in BOOLEAN
    BY <2>1, ReviewConstants, EnrichedBounds DEF Raised
  <2>3. ASSUME NEW v \in Verdicts, NEW f \in BOOLEAN, NEW e \in BOOLEAN,
               Answers(r, v, f, e)
        PROVE  shown' \in SUBSET Answer
    BY <2>1, <2>3 DEF Answers, Answer, On
  <2>4. shown' = shown \/ \E v \in Verdicts, f \in BOOLEAN, e \in BOOLEAN : Answers(r, v, f, e)
    BY <2>2 DEF Handler, Get, Overlay, Fetch, Describe, Query
  <2> QED
    BY <2>3, <2>4 DEF TypeOK
<1> QED
  BY <1>1, <1>2, <1>3 DEF flow, outcome, mail, memory, world, TypeOK

(* A decision is posted to an open workflow and changes nothing else.      *)
LEMMA PostType ==
  ASSUME TypeOK, NEW s \in Subs, Post(s)
  PROVE  TypeOK'
<1>1. PICK ok \in BOOLEAN :
        inbox' = [inbox EXCEPT ![s] = Append(@, [approved |-> ok])]
  BY DEF Post
<1>2. [approved |-> ok] \in Signal
  BY DEF Signal
<1>3. inbox' \in [Subs -> Seq(Signal)]
  BY <1>1, <1>2 DEF TypeOK
<1> QED
  BY <1>3 DEF Post, flow, outcome, memory, world, gateway, TypeOK

(* Calibration gets the outcome it is owed, and nothing else changes.      *)
LEMMA CalibrateFacts ==
  ASSUME TypeOK, NEW s \in Subs, Calibrate(s)
  PROVE  /\ \E o \in owed : /\ o.of \in Item /\ o.approved \in BOOLEAN
                           /\ cal' = [cal EXCEPT ![o.of] = Tallied(@, o.approved)]
                           /\ owed' = owed \ {o}
         /\ UNCHANGED <<pc, act, at, outcome, inbox, decision, grad, tier, booked,
                        world, gateway>>
<1>1. PICK o \in owed : /\ cal' = [cal EXCEPT ![o.of] = Tallied(@, o.approved)]
                        /\ owed' = owed \ {o}
  BY DEF Calibrate
<1>2. o.of \in Item /\ o.approved \in BOOLEAN
  BY DEF TypeOK, Owed
<1>3. UNCHANGED <<pc, act, at, outcome, inbox, decision, grad, tier, booked,
                  world, gateway>>
  BY DEF Calibrate, flow, mail
<1> QED
  BY <1>1, <1>2, <1>3

(* So that everything keeps its type.                                      *)
LEMMA CalibrateType ==
  ASSUME TypeOK, NEW s \in Subs, Calibrate(s)
  PROVE  TypeOK'
<1>1. PICK o \in owed : /\ o.of \in Item /\ o.approved \in BOOLEAN
                        /\ cal' = [cal EXCEPT ![o.of] = Tallied(@, o.approved)]
                        /\ owed' = owed \ {o}
  BY CalibrateFacts
<1>2. cal[o.of] \in Tally
  BY <1>1 DEF TypeOK
<1>3. Tallied(cal[o.of], o.approved) \in Tally
  BY <1>1, <1>2, TalliedFacts
<1>4. cal' \in [Item -> Tally]
  BY <1>1, <1>3 DEF TypeOK
<1>5. owed' \in SUBSET Owed
  BY <1>1 DEF TypeOK
<1>6. UNCHANGED <<pc, act, at, outcome, inbox, decision, grad, tier, booked,
                  world, gateway>>
  BY CalibrateFacts
<1> QED
  BY <1>4, <1>5, <1>6 DEF outcome, world, gateway, TypeOK

(* A crash empties the memory and loses what was running.                  *)
LEMMA CrashType ==
  ASSUME TypeOK, Crash
  PROVE  TypeOK'
<1>1. NoTally \in Tally /\ NoTally.right <= NoTally.total
  BY DEF NoTally, Tally
<1>2. /\ grad' \in [Kinds -> Tally] /\ cal' \in [Item -> Tally]
      /\ \A k \in Kinds : grad'[k].right <= grad'[k].total
      /\ owed' \in SUBSET Owed
      /\ tier' \in [Facts -> Tiers] /\ booked' \in SUBSET Outcome
  BY <1>1 DEF Crash, Tiers
<1>3. act' \in [Subs -> {"scheduled", "running", "lost"}]
  BY DEF Crash, TypeOK
<1>4. up' \in BOOLEAN
  BY DEF Crash
<1>5. crashes' \in 0..MaxCrashes
  BY ReviewConstants DEF Crash, TypeOK
<1>6. UNCHANGED <<pc, at, claims, over, esc, found, inbox, decision, wrong, reader, shown>>
  BY DEF Crash, outcome, mail, gateway
<1> QED
  BY <1>2, <1>3, <1>4, <1>5, <1>6 DEF TypeOK

(* Every step keeps everything well-typed.                                 *)
LEMMA TypeStep ==
  ASSUME TypeOK, Decided, [Next]_vars
  PROVE  TypeOK'
<1>1. CASE Boot
  BY <1>1 DEF Boot, flow, outcome, mail, memory, gateway, TypeOK
<1>2. CASE UNCHANGED vars
  BY <1>2 DEF vars, flow, outcome, mail, memory, world, gateway, TypeOK
<1> QED
  BY <1>1, <1>2, WorkflowType, CalibrateType, HandlerType, PostType, CrashType DEF Next

(* Nothing but its own steps moves a workflow, ...                         *)
LEMMA OthersStay ==
  ASSUME [Next]_vars, ~\E s \in Subs : Workflow(s)
  PROVE  UNCHANGED <<pc, at, outcome, decision>>
<1>1. ASSUME NEW r \in Readers, Handler(r)
      PROVE  UNCHANGED <<pc, at, outcome, decision>>
  BY <1>1 DEF Handler, Get, Overlay, Fetch, Describe, Query, Answers, Step, flow, mail
<1>2. CASE Crash
  BY <1>2 DEF Crash, mail
<1>3. CASE Boot
  BY <1>3 DEF Boot, flow, mail
<1>4. CASE UNCHANGED vars
  BY <1>4 DEF vars, flow, mail
<1>5. ASSUME NEW s \in Subs, Post(s)
      PROVE  UNCHANGED <<pc, at, outcome, decision>>
  BY <1>5 DEF Post, flow
<1>6. ASSUME NEW s \in Subs, Calibrate(s)
      PROVE  UNCHANGED <<pc, at, outcome, decision>>
  BY <1>6 DEF Calibrate, flow, mail
<1> QED
  BY <1>1, <1>2, <1>3, <1>4, <1>5, <1>6 DEF Next

(* ... and a decision comes of Decide alone.                               *)
LEMMA DecidedStep ==
  ASSUME TypeOK, Decided, [Next]_vars
  PROVE  Decided'
<1>1. ASSUME NEW s \in Subs, Workflow(s)
      PROVE  Decided'
  <2>1. \A z \in Subs \ {s} : pc'[z] = pc[z] /\ decision'[z] = decision[z]
    BY <1>1, FlowType, MailType
  <2> DEFINE Good == /\ pc'[s] = "record" => decision'[s] \in BOOLEAN
                     /\ pc'[s] = "confirm" => decision'[s] = TRUE
                     /\ pc'[s] \in {"roster", "gate", "await"} => decision'[s] = NoDecision
  <2> SUFFICES Good
    BY <2>1 DEF Decided
  <2>2. CASE Start(s) \/ Measure(s) \/ Gate(s) \/ Record(s) \/ Ingest(s)
    <3>1. pc' = pc /\ decision' = decision
      BY <2>2 DEF Start, Measure, Gate, Record, Ingest, Handled, mail
    <3> QED
      BY <3>1 DEF Decided
  <2>3. CASE Fails(s) \/ Recorded(s) \/ Ingested(s)
    <3>1. Onward(s) /\ decision' = decision
      BY <2>3 DEF Fails, Recorded, Ingested, mail
    <3>2. PICK stage \in {"confirm", "observe", "done"} :
            Enter(s, stage) /\ (stage = "confirm" => decision[s] = TRUE)
      BY <3>1, OnwardFacts
    <3>3. pc'[s] = stage
      BY <3>2 DEF Enter, TypeOK
    <3> QED
      BY <3>1, <3>2, <3>3
  <2>4. CASE Proposed(s) \/ Gated(s)
    <3>1. /\ decision' = decision
          /\ pc[s] \in {"roster", "gate"}
          /\ \E stage \in {"gate", "await", "observe"} : Enter(s, stage)
      BY <2>4 DEF Proposed, Gated, Running, mail
    <3>2. pc'[s] \in {"gate", "await", "observe"}
      BY <3>1 DEF Enter, TypeOK
    <3> QED
      BY <3>1, <3>2 DEF Decided
  <2>5. CASE Decide(s)
    <3>1. pc'[s] = "record"
      BY <2>5 DEF Decide, Enter, TypeOK
    <3>2. inbox[s] \in Seq(Signal) /\ inbox[s] # <<>>
      BY <2>5 DEF Decide, TypeOK
    <3>3. Head(inbox[s]) \in Signal
      BY <3>2
    <3>4. decision'[s] \in BOOLEAN
      BY <2>5, <3>3 DEF Decide, Signal, TypeOK
    <3> QED
      BY <3>1, <3>4
  <2>6. CASE Expire(s)
    <3>1. pc'[s] = "observe"
      BY <2>6 DEF Expire, Enter, TypeOK
    <3> QED
      BY <3>1
  <2> QED
    BY <1>1, <2>2, <2>3, <2>4, <2>5, <2>6 DEF Workflow
<1>2. CASE ~\E s \in Subs : Workflow(s)
  BY <1>2, OthersStay DEF Decided
<1> QED
  BY <1>1, <1>2

(* The state stays well-typed.                                             *)
THEOREM TypeCorrect == Spec => []TypeOK
<1>1. Init => TypeOK /\ Decided
  BY TypeInit DEF Init, Decided
<1>2. TypeOK /\ Decided /\ [Next]_vars => (TypeOK /\ Decided)'
  BY TypeStep, DecidedStep
<1> QED
  BY <1>1, <1>2, PTL DEF Spec
----------------------------------------------------------------------------
(* The fact that is written, and the tier it gets.                         *)
LEMMA IngestFacts ==
  ASSUME TypeOK, NEW s \in Subs, Ingest(s)
  PROVE  \E i \in DOMAIN Learns(s) : \E t \in {"curated", "ingest"} :
           /\ t = "curated" => pc[s] = "confirm"
           /\ tier' \in {tier, Merged(Learns(s)[i], t)}
<1>1. at[s] \in Nat /\ at[s] < Len(Learns(s)) /\ Learns(s) \in Seq(Facts)
  BY ReviewConstants DEF Ingest, TypeOK
<1>2. at[s] + 1 \in DOMAIN Learns(s)
  BY <1>1
<1>3. tier' \in {tier, Merged(Learns(s)[at[s] + 1],
                              IF pc[s] = "confirm" THEN "curated" ELSE "ingest")}
  BY DEF Ingest
<1> QED
  BY <1>2, <1>3

(* A merge changes one fact, and no curated one.                           *)
LEMMA MergedFacts ==
  ASSUME TypeOK, NEW f \in Facts, NEW t
  PROVE  /\ \A g \in Facts : tier[g] = "curated" => Merged(f, t)[g] = "curated"
         /\ \A g \in Facts \ {f} : Merged(f, t)[g] = tier[g]
         /\ Merged(f, t)[f] \in {tier[f], t}
  BY DEF Merged, TypeOK

(* Outside Ingest and Crash the graph does not change.                     *)
LEMMA TierChanges ==
  ASSUME [Next]_vars
  PROVE  tier' = tier \/ Crash \/ \E s \in Subs : Ingest(s)
<1>1. ASSUME NEW r \in Readers, Handler(r)
      PROVE  tier' = tier
  BY <1>1 DEF Handler, Get, Overlay, Fetch, Describe, Query, Answers, Step, memory
<1>2. ASSUME NEW s \in Subs, Workflow(s)
      PROVE  tier' = tier \/ Ingest(s)
  BY <1>2 DEF Workflow, Start, Fails, Measure, Proposed, Gate, Gated, Decide, Expire,
              Record, Recorded, Ingested, memory
<1>3. ASSUME NEW s \in Subs, Post(s) \/ Calibrate(s)
      PROVE  tier' = tier
  BY <1>3 DEF Post, Calibrate, memory
<1>4. CASE Boot \/ UNCHANGED vars
  BY <1>4 DEF Boot, vars, memory
<1> QED
  BY <1>1, <1>2, <1>3, <1>4 DEF Next

(* What a human confirmed no later analysis takes back while the process   *)
(* lives (graph.go:170-178).                                               *)
LEMMA CuratedStaysStep ==
  ASSUME TypeOK, [Next]_vars, NEW f \in Facts, tier[f] = "curated", up'
  PROVE  tier'[f] = "curated"
<1>1. CASE Crash
  BY <1>1 DEF Crash
<1>2. ASSUME NEW s \in Subs, Ingest(s)
      PROVE  tier'[f] = "curated"
  <2>1. PICK i \in DOMAIN Learns(s), t \in {"curated", "ingest"} :
          tier' \in {tier, Merged(Learns(s)[i], t)}
    BY <1>2, IngestFacts
  <2>2. Learns(s)[i] \in Facts
    BY ReviewConstants
  <2> QED
    BY <2>1, <2>2, MergedFacts
<1> QED
  BY <1>1, <1>2, TierChanges

(* Curated means that a human approved an analysis that exhibits the fact. *)
LEMMA CuratedStep ==
  ASSUME TypeOK, Decided, CuratedByHuman, [Next]_vars
  PROVE  CuratedByHuman'
<1>1. \A s \in Subs : decision[s] # NoDecision => decision'[s] = decision[s]
  <2>1. CASE ~\E s \in Subs : Workflow(s)
    BY <2>1, OthersStay
  <2> QED
    BY <2>1, MailType
<1>2. NoDecision # TRUE
  BY ReviewConstants
<1> SUFFICES ASSUME NEW f \in Facts, tier'[f] = "curated"
             PROVE  \E s \in Subs : decision'[s] = TRUE
                                    /\ \E i \in DOMAIN Learns(s) : Learns(s)[i] = f
  BY DEF CuratedByHuman
<1>3. CASE tier[f] = "curated"
  BY <1>1, <1>2, <1>3 DEF CuratedByHuman
<1>4. CASE tier[f] # "curated"
  <2>1. ~Crash
    BY DEF Crash
  <2>2. PICK s \in Subs : Ingest(s)
    BY <1>4, <2>1, TierChanges
  <2>3. PICK i \in DOMAIN Learns(s), t \in {"curated", "ingest"} :
          /\ t = "curated" => pc[s] = "confirm"
          /\ tier' \in {tier, Merged(Learns(s)[i], t)}
    BY <2>2, IngestFacts
  <2>4. Learns(s)[i] \in Facts
    BY ReviewConstants
  <2>5. Learns(s)[i] = f /\ t = "curated"
    BY <1>4, <2>3, <2>4, MergedFacts
  <2>6. decision[s] = TRUE
    BY <2>3, <2>5 DEF Decided
  <2> QED
    BY <1>1, <1>2, <2>5, <2>6
<1> QED
  BY <1>3, <1>4

(* The poisoning guard: a fact is curated only when a human approved an    *)
(* analysis that exhibits it (learn.go:8-13).                              *)
THEOREM CuratedCorrect == Spec => []CuratedByHuman
<1>1. Init => TypeOK /\ Decided /\ CuratedByHuman
  BY TypeInit DEF Init, Decided, CuratedByHuman
<1>2. TypeOK /\ Decided /\ CuratedByHuman /\ [Next]_vars
      => (TypeOK /\ Decided /\ CuratedByHuman)'
  BY TypeStep, DecidedStep, CuratedStep
<1> QED
  BY <1>1, <1>2, PTL DEF Spec

(* No step of a living process takes a curated fact back.                  *)
THEOREM CuratedKept == Spec => CuratedStays
<1>1. TypeOK /\ [Next]_vars
      => [\A f \in Facts : tier[f] = "curated" /\ up' => tier'[f] = "curated"]_vars
  BY CuratedStaysStep
<1> QED
  BY <1>1, TypeCorrect, PTL DEF Spec, CuratedStays
----------------------------------------------------------------------------
Early == {"roster", "gate"}
Late  == {"record", "confirm", "observe", "done"}

(* A workflow never goes back, and records its items in their order.       *)
LEMMA FlowOrder ==
  ASSUME TypeOK, [Next]_vars, NEW s \in Subs
  PROVE  /\ pc[s] \notin Early => pc'[s] \notin Early
         /\ pc[s] = "done" => pc'[s] = "done"
         /\ pc[s] \in Late => pc'[s] \in Late
         /\ pc[s] \in Late /\ pc'[s] = "record" => pc[s] = "record" /\ at'[s] >= at[s]
<1>1. CASE ~Workflow(s)
  <2>1. pc'[s] = pc[s] /\ at'[s] = at[s]
    <3>1. CASE ~\E z \in Subs : Workflow(z)
      BY <3>1, OthersStay
    <3>2. ASSUME NEW z \in Subs, Workflow(z)
          PROVE  pc'[s] = pc[s] /\ at'[s] = at[s]
      BY <1>1, <3>2, FlowType
    <3> QED
      BY <3>1, <3>2
  <2> QED
    BY <2>1 DEF TypeOK
<1>2. CASE Start(s)
  BY <1>2 DEF Start, TypeOK
<1>3. CASE Measure(s) \/ Gate(s) \/ Record(s) \/ Ingest(s)
  <2>1. pc' = pc /\ at' = [at EXCEPT ![s] = @ + 1]
    BY <1>3 DEF Measure, Gate, Record, Ingest, Handled
  <2> QED
    BY <2>1 DEF TypeOK
<1>4. CASE Fails(s) \/ Recorded(s) \/ Ingested(s)
  <2>1. Onward(s) /\ pc[s] \in Activities
    BY <1>4 DEF Fails, Recorded, Ingested, Running, Activities
  <2>2. PICK stage \in {"confirm", "observe", "done"} : Enter(s, stage)
    BY <2>1, OnwardFacts
  <2>3. pc'[s] = stage
    BY <2>2 DEF Enter, TypeOK
  <2> QED
    BY <2>1, <2>3 DEF Early, Late, Activities
<1>5. CASE Proposed(s)
  <2>1. pc[s] = "roster" /\ pc'[s] = "gate"
    BY <1>5 DEF Proposed, Running, Enter, TypeOK
  <2> QED
    BY <2>1 DEF Early, Late
<1>6. CASE Gated(s)
  <2>1. pc[s] = "gate" /\ pc'[s] \in {"await", "observe"}
    BY <1>6 DEF Gated, Running, Enter, TypeOK
  <2> QED
    BY <2>1 DEF Early, Late
<1>7. CASE Decide(s) \/ Expire(s)
  <2>1. pc[s] = "await" /\ pc'[s] \in {"record", "observe"}
    BY <1>7 DEF Decide, Expire, Enter, TypeOK
  <2> QED
    BY <2>1 DEF Early, Late
<1> QED
  BY <1>1, <1>2, <1>3, <1>4, <1>5, <1>6, <1>7 DEF Workflow

(* The outcomes are finitely many, of items the workflow is done with.     *)
Fresh ==
  /\ IsFiniteSet(booked)
  /\ \A b \in booked : /\ pc[b.sub] \in Late
                       /\ pc[b.sub] = "record" => b.item <= at[b.sub]

(* Outside Record and Crash no outcome is counted.                         *)
LEMMA RecordChanges ==
  ASSUME [Next]_vars
  PROVE  UNCHANGED <<grad, booked>> \/ Crash \/ \E s \in Subs : Record(s)
<1>1. ASSUME NEW r \in Readers, Handler(r)
      PROVE  UNCHANGED <<grad, booked>>
  BY <1>1 DEF Handler, Get, Overlay, Fetch, Describe, Query, Answers, Step, memory
<1>2. ASSUME NEW s \in Subs, Workflow(s)
      PROVE  UNCHANGED <<grad, booked>> \/ Record(s)
  BY <1>2 DEF Workflow, Start, Fails, Measure, Proposed, Gate, Gated, Decide, Expire,
              Recorded, Ingest, Ingested, memory
<1>3. ASSUME NEW s \in Subs, Post(s) \/ Calibrate(s)
      PROVE  UNCHANGED <<grad, booked>>
  BY <1>3 DEF Post, Calibrate, memory
<1>4. CASE Boot \/ UNCHANGED vars
  BY <1>4 DEF Boot, vars, memory
<1> QED
  BY <1>1, <1>2, <1>3, <1>4 DEF Next

(* The item recorded is one nobody has recorded yet.                       *)
LEMMA RecordFacts ==
  ASSUME TypeOK, Decided, Fresh, NEW s \in Subs, Record(s)
  PROVE  \E b \in Outcome :
           /\ b \notin booked /\ booked' = booked \cup {b}
           /\ b.sub = s /\ b.item = at[s] + 1
           /\ grad' = [grad EXCEPT ![b.kind] = Tallied(@, b.approved)]
           /\ pc' = pc /\ at' = [at EXCEPT ![s] = @ + 1] /\ pc[s] = "record"
<1> DEFINE i == esc[s][at[s] + 1]
           b == [sub |-> s, item |-> at[s] + 1, kind |-> i.kind,
                 approved |-> decision[s]]
<1>1. i \in Item
  BY DEF Record, TypeOK
<1>2. i.kind \in Kinds
  BY <1>1 DEF Item
<1>3. pc[s] = "record" /\ decision[s] \in BOOLEAN /\ at[s] \in Nat
  BY DEF Record, Running, Decided, TypeOK
<1>4. b \in Outcome
  BY <1>2, <1>3 DEF Outcome
<1>5. b \notin booked
  BY <1>3 DEF Fresh
<1>6. /\ grad' = [grad EXCEPT ![i.kind] = Tallied(@, decision[s])]
      /\ booked' = booked \cup {b}
      /\ pc' = pc /\ at' = [at EXCEPT ![s] = @ + 1]
  BY DEF Record, Handled
<1>7. /\ b.sub = s /\ b.item = at[s] + 1 /\ b.kind = i.kind
      /\ b.approved = decision[s]
  OBVIOUS
<1> HIDE DEF b, i
<1> QED
  BY <1>3, <1>4, <1>5, <1>6, <1>7

(* Fresh is kept: a workflow that recorded does not return to its items.   *)
LEMMA FreshStep ==
  ASSUME TypeOK, Decided, Fresh, [Next]_vars
  PROVE  Fresh'
<1>1. ASSUME NEW c \in booked
      PROVE  pc'[c.sub] \in Late /\ (pc'[c.sub] = "record" => c.item <= at'[c.sub])
  <2>1. c.sub \in Subs /\ c.item \in Nat
    BY DEF TypeOK, Outcome
  <2>2. pc'[c.sub] \in Late
    BY <2>1, FlowOrder DEF Fresh
  <2>3. ASSUME pc'[c.sub] = "record"
        PROVE  c.item <= at'[c.sub]
    <3>1. pc[c.sub] = "record" /\ at'[c.sub] >= at[c.sub] /\ c.item <= at[c.sub]
      BY <2>1, <2>3, FlowOrder DEF Fresh
    <3>2. at[c.sub] \in Nat /\ at'[c.sub] \in Nat
      BY <2>1, TypeStep DEF TypeOK
    <3> QED
      BY <2>1, <3>1, <3>2
  <2> QED
    BY <2>2, <2>3
<1>2. CASE UNCHANGED <<grad, booked>>
  BY <1>1, <1>2 DEF Fresh
<1>3. CASE Crash
  <2>1. booked' = {}
    BY <1>3 DEF Crash
  <2> QED
    BY <2>1, FS_EmptySet DEF Fresh
<1>4. ASSUME NEW s \in Subs, Record(s)
      PROVE  Fresh'
  <2>1. PICK b \in Outcome :
          /\ booked' = booked \cup {b} /\ b.sub = s /\ b.item = at[s] + 1
          /\ pc' = pc /\ at' = [at EXCEPT ![s] = @ + 1] /\ pc[s] = "record"
    BY <1>4, RecordFacts
  <2>2. IsFiniteSet(booked')
    BY <2>1, FS_AddElement DEF Fresh
  <2>3. pc'[b.sub] \in Late /\ b.item <= at'[b.sub]
    BY <2>1 DEF Late, TypeOK
  <2> QED
    BY <1>1, <2>1, <2>2, <2>3 DEF Fresh
<1> QED
  BY <1>2, <1>3, <1>4, RecordChanges

(* The counts follow the outcomes.                                         *)
LEMMA RecordTrueStep ==
  ASSUME TypeOK, Decided, Fresh, RecordTrue, [Next]_vars
  PROVE  RecordTrue'
<1>1. CASE UNCHANGED <<grad, booked>>
  BY <1>1 DEF RecordTrue, Outcomes, Approvals
<1>2. CASE Crash
  <2>1. booked' = {} /\ grad' = [k \in Kinds |-> NoTally]
    BY <1>2 DEF Crash
  <2>2. ASSUME NEW k \in Kinds
        PROVE  Outcomes(k)' = {} /\ Approvals(k)' = {}
    BY <2>1 DEF Outcomes, Approvals
  <2>3. Cardinality({}) = 0
    BY FS_EmptySet
  <2> QED
    BY <2>1, <2>2, <2>3 DEF RecordTrue, NoTally
<1>3. ASSUME NEW s \in Subs, Record(s)
      PROVE  RecordTrue'
  <2>1. PICK b \in Outcome :
          /\ b \notin booked /\ booked' = booked \cup {b}
          /\ grad' = [grad EXCEPT ![b.kind] = Tallied(@, b.approved)]
    BY <1>3, RecordFacts
  <2>2. b.kind \in Kinds /\ b.approved \in BOOLEAN
    BY DEF Outcome
  <2> SUFFICES ASSUME NEW k \in Kinds
               PROVE  /\ grad'[k].total = Cardinality(Outcomes(k)')
                      /\ grad'[k].right = Cardinality(Approvals(k)')
    BY DEF RecordTrue
  <2>3. /\ IsFiniteSet(Outcomes(k)) /\ IsFiniteSet(Approvals(k))
        /\ grad[k].total = Cardinality(Outcomes(k))
        /\ grad[k].right = Cardinality(Approvals(k)) /\ grad[k] \in Tally
    <3>1. Outcomes(k) \in SUBSET booked /\ Approvals(k) \in SUBSET booked
      BY DEF Outcomes, Approvals
    <3> QED
      BY <3>1, FS_Subset DEF Fresh, RecordTrue, TypeOK
  <2>4. b \notin Outcomes(k) /\ b \notin Approvals(k)
    BY <2>1 DEF Outcomes, Approvals
  <2>5. /\ Cardinality(Outcomes(k) \cup {b}) = Cardinality(Outcomes(k)) + 1
        /\ Cardinality(Approvals(k) \cup {b}) = Cardinality(Approvals(k)) + 1
    BY <2>3, <2>4, FS_AddElement
  <2>6. CASE b.kind # k
    <3>1. Outcomes(k)' = Outcomes(k) /\ Approvals(k)' = Approvals(k)
      BY <2>1, <2>6 DEF Outcomes, Approvals
    <3>2. grad'[k] = grad[k]
      BY <2>1, <2>6 DEF TypeOK
    <3> QED
      BY <2>3, <3>1, <3>2
  <2>7. CASE b.kind = k
    <3>1. /\ Outcomes(k)' = Outcomes(k) \cup {b}
          /\ Approvals(k)' = IF b.approved THEN Approvals(k) \cup {b} ELSE Approvals(k)
      BY <2>1, <2>7 DEF Outcomes, Approvals
    <3>2. grad'[k] = Tallied(grad[k], b.approved)
      BY <2>1, <2>7 DEF TypeOK
    <3> QED
      BY <2>2, <2>3, <2>5, <3>1, <3>2, TalliedFacts
  <2> QED
    BY <2>6, <2>7
<1> QED
  BY <1>1, <1>2, <1>3, RecordChanges

RecordInv == TypeOK /\ Decided /\ Fresh /\ RecordTrue

(* RecordInv is inductive.                                                 *)
LEMMA RecordInvariant == Spec => []RecordInv
<1>1. Init => Fresh /\ RecordTrue
  <2> SUFFICES ASSUME Init
               PROVE  Fresh /\ RecordTrue
    OBVIOUS
  <2>1. booked = {} /\ grad = [k \in Kinds |-> NoTally]
    BY DEF Init
  <2>2. ASSUME NEW k \in Kinds
        PROVE  Outcomes(k) = {} /\ Approvals(k) = {}
    BY <2>1 DEF Outcomes, Approvals
  <2>3. Cardinality({}) = 0 /\ IsFiniteSet({})
    BY FS_EmptySet
  <2> QED
    BY <2>1, <2>2, <2>3 DEF Fresh, RecordTrue, NoTally
<1>2. Init => RecordInv
  BY <1>1, TypeInit DEF Init, Decided, RecordInv
<1>3. RecordInv /\ [Next]_vars => RecordInv'
  BY TypeStep, DecidedStep, FreshStep, RecordTrueStep DEF RecordInv
<1> QED
  BY <1>2, <1>3, PTL DEF Spec

(* The track records hold every outcome once (agentgraph.go:491-505).      *)
THEOREM RecordCorrect == Spec => []RecordTrue
BY RecordInvariant, PTL DEF RecordInv
----------------------------------------------------------------------------
(* What the gate said changes with Gate alone, or is withdrawn with it.    *)
LEMMA GateStands ==
  ASSUME TypeOK, [Next]_vars, NEW s \in Subs
  PROVE  /\ found'[s] = found[s] \/ Gate(s) \/ found'[s] = FALSE
         /\ pc[s] # "gate" => found'[s] = found[s] /\ esc'[s] = esc[s]
<1>1. CASE ~\E z \in Subs : Workflow(z)
  BY <1>1, OthersStay DEF outcome
<1>2. ASSUME NEW z \in Subs, Gate(z)
      PROVE  /\ found'[s] = found[s] \/ Gate(s) \/ found'[s] = FALSE
             /\ pc[s] # "gate" => found'[s] = found[s] /\ esc'[s] = esc[s]
  BY <1>2 DEF Gate, Disposed, Running, TypeOK
<1>3. ASSUME NEW z \in Subs, Fails(z)
      PROVE  /\ found'[s] = found[s] \/ Gate(s) \/ found'[s] = FALSE
             /\ pc[s] # "gate" => found'[s] = found[s] /\ esc'[s] = esc[s]
  <2>1. IF pc[z] = "gate" THEN Disposed(z, FALSE, <<>>) ELSE UNCHANGED <<found, esc>>
    BY <1>3 DEF Fails
  <2> QED
    BY <2>1 DEF Disposed, TypeOK
<1>4. ASSUME NEW z \in Subs, Workflow(z), ~Gate(z), ~Fails(z)
      PROVE  UNCHANGED <<found, esc>>
  BY <1>4 DEF Workflow, Start, Measure, Proposed, Gated, Decide, Expire, Record,
              Recorded, Ingest, Ingested, outcome
<1> QED
  BY <1>1, <1>2, <1>3, <1>4

(* A hypothesis is accepted only on an earned record (gate.go:195-251).    *)
LEMMA EarnedStep ==
  ASSUME RecordInv, [Next]_vars, NEW s \in Subs, found'[s], ~found[s]
  PROVE  \E k \in Eligible :
           /\ Cardinality(Outcomes(k)) >= MinToAutonomous
           /\ 100 * Cardinality(Approvals(k)) >= AccuracyFloor * Cardinality(Outcomes(k))
<1> USE DEF RecordInv
<1> DEFINE h == claims[s][at[s] + 1]
           o == over[s][at[s] + 1]
<1>1. Gate(s)
  BY GateStands DEF TypeOK
<1>2. h \in Hypothesis
  BY <1>1 DEF Gate, TypeOK
<1>3. found'[s] = (found[s] \/ Accepts(h, o, Mode(grad[h.kind])))
  BY <1>1 DEF Gate, Disposed, TypeOK
<1>4. Accepts(h, o, Mode(grad[h.kind]))
  BY <1>3
<1> HIDE DEF h, o
<1>5. Mode(grad[h.kind]) = "autonomous" /\ h.kind \in Eligible
  BY <1>4 DEF Accepts
<1>6. h.kind \in Kinds /\ grad[h.kind] \in Tally
  BY <1>2 DEF Hypothesis, TypeOK
<1>7. /\ grad[h.kind].total >= MinToAutonomous
      /\ 100 * grad[h.kind].right >= AccuracyFloor * grad[h.kind].total
  BY <1>5, <1>6, ModeEarned
<1>8. /\ grad[h.kind].total = Cardinality(Outcomes(h.kind))
      /\ grad[h.kind].right = Cardinality(Approvals(h.kind))
  BY <1>6 DEF RecordTrue
<1> QED
  BY <1>5, <1>7, <1>8

(* Autonomy is earned from what humans decided, whatever runs at once.     *)
THEOREM AutonomyEarned == Spec => EarnedAutonomy
<1>1. RecordInv /\ [Next]_vars
      => [\A s \in Subs : found'[s] /\ ~found[s] =>
            \E k \in Eligible :
              /\ Cardinality(Outcomes(k)) >= MinToAutonomous
              /\ 100 * Cardinality(Approvals(k))
                   >= AccuracyFloor * Cardinality(Outcomes(k))]_vars
  BY EarnedStep
<1> QED
  BY <1>1, RecordInvariant, PTL DEF Spec, EarnedAutonomy
----------------------------------------------------------------------------
(* A result is fetched, and an answer made of it, only once the workflow   *)
(* has ended.                                                              *)
Reads ==
  /\ \A r \in Readers : At(r, "fetch") => pc[On(r)] = "done"
  /\ \A a \in shown : a.enriched => pc[a.sub] = "done"

(* What is past the gate reads the same ever after.                        *)
LEMMA ReadsStand ==
  ASSUME TypeOK, [Next]_vars, NEW s \in Subs
  PROVE  /\ Enriched(s) # Base(s) => Enriched(s)' = Enriched(s)
         /\ Raised(s) => Raised(s)'
         /\ pc[s] = "done" => pc'[s] = "done" /\ Enriched(s)' = Enriched(s)
                              /\ Raised(s)' = Raised(s)
<1>1. CASE pc[s] \in Early
  BY <1>1 DEF Enriched, Raised, Early
<1>2. CASE pc[s] \notin Early
  <2>1. found'[s] = found[s] /\ esc'[s] = esc[s] /\ pc'[s] \notin Early
    BY <1>2, GateStands, FlowOrder DEF Early
  <2>2. Enriched(s)' = Enriched(s) /\ Raised(s)' = Raised(s)
    BY <1>2, <2>1 DEF Enriched, Raised, Early
  <2> QED
    BY <2>2, FlowOrder
<1> QED
  BY <1>1, <1>2

(* What one client is shown.                                               *)
Sound(a) ==
  /\ a.verdict \in {Base(a.sub), Enriched(a.sub)}
  /\ a.verdict >= Base(a.sub) /\ (a.verdict > Base(a.sub) => a.verdict <= Suspicious)
  /\ a.flag => Raised(a.sub)
  /\ a.enriched => (a.flag <=> Raised(a.sub))

(* An answer that was sound stays sound while the workflows go on.         *)
LEMMA SoundStands ==
  ASSUME TypeOK, Reads, [Next]_vars, NEW a \in shown, Sound(a)
  PROVE  Sound(a)' /\ (a.enriched => pc'[a.sub] = "done")
<1>1. a.sub \in Subs /\ a.verdict \in Verdicts
  BY DEF TypeOK, Answer
<1>2. a.enriched => pc[a.sub] = "done"
  BY DEF Reads
<1> QED
  BY <1>1, <1>2, ReadsStand DEF Sound

(* A handler answers soundly of what it reads.                             *)
LEMMA AnswerSound ==
  ASSUME TypeOK, Reads, NEW r \in Readers, Handler(r)
  PROVE  shown' = shown \/ \E a \in Answer :
           /\ shown' = {a} /\ Sound(a)
           /\ a.enriched => pc[a.sub] = "done"
<1> DEFINE z == On(r)
<1>1. z \in Subs
  BY DEF On, TypeOK
<1>2. Base(z) \in Verdicts /\ Raised(z) \in BOOLEAN
  BY <1>1, ReviewConstants DEF Raised
<1>3. /\ Enriched(z) \in Verdicts /\ Enriched(z) >= Base(z)
      /\ Enriched(z) > Base(z) => Enriched(z) <= Suspicious
  BY <1>1, EnrichedBounds
<1>4. ASSUME NEW v \in {Base(z), Enriched(z)}, NEW f \in BOOLEAN, NEW e \in BOOLEAN,
             Answers(r, v, f, e), f => Raised(z),
             e => (f <=> Raised(z)) /\ pc[z] = "done"
      PROVE  \E a \in Answer : /\ shown' = {a} /\ Sound(a)
                               /\ a.enriched => pc[a.sub] = "done"
  <2> DEFINE a == [sub |-> z, verdict |-> v, flag |-> f, enriched |-> e]
  <2>1. shown' = {a}
    BY <1>4 DEF Answers, On
  <2>2. a \in Answer
    BY <1>1, <1>2, <1>3 DEF Answer
  <2>3. v >= Base(z) /\ (v > Base(z) => v <= Suspicious)
    BY <1>2, <1>3 DEF Verdicts
  <2>4. Sound(a) /\ (a.enriched => pc[a.sub] = "done")
    BY <1>4, <2>3 DEF Sound
  <2> QED
    BY <2>1, <2>2, <2>4
<1>5. CASE Get(r) \/ Overlay(r)
  BY <1>5 DEF Get, Overlay
<1>6. CASE Fetch(r)
  <2>1. pc[z] = "done"
    BY <1>6 DEF Fetch, Reads
  <2>2. Answers(r, Enriched(z), Raised(z), TRUE) \/ shown' = shown
    BY <1>6 DEF Fetch
  <2> QED
    BY <1>2, <1>4, <2>1, <2>2
<1>7. CASE Describe(r)
  <2>1. Answers(r, Base(z), FALSE, FALSE) \/ shown' = shown
    BY <1>7 DEF Describe
  <2> QED
    BY <1>4, <2>1
<1>8. CASE Query(r)
  <2>1. Answers(r, Base(z), Raised(z), FALSE) \/ Answers(r, Base(z), FALSE, FALSE)
    BY <1>8 DEF Query
  <2> QED
    BY <1>2, <1>4, <2>1
<1> QED
  BY <1>5, <1>6, <1>7, <1>8 DEF Handler

(* Only a handler changes what is shown or being read.                     *)
LEMMA GatewayChanges ==
  ASSUME TypeOK, [Next]_vars
  PROVE  UNCHANGED gateway \/ \E r \in Readers : Handler(r)
<1>1. ASSUME NEW s \in Subs, Workflow(s)
      PROVE  UNCHANGED gateway
  BY <1>1, WorldType
<1>2. ASSUME NEW s \in Subs, Post(s) \/ Calibrate(s)
      PROVE  UNCHANGED gateway
  BY <1>2 DEF Post, Calibrate
<1>3. CASE Crash \/ Boot \/ UNCHANGED vars
  BY <1>3 DEF Crash, Boot, vars
<1> QED
  BY <1>1, <1>2, <1>3 DEF Next

(* Readers and answers stay with workflows that have ended.                *)
LEMMA ShownStep ==
  ASSUME TypeOK, Reads, ShownSound, [Next]_vars
  PROVE  Reads' /\ ShownSound'
<1>1. \A a \in shown : Sound(a)' /\ (a.enriched => pc'[a.sub] = "done")
  BY SoundStands DEF ShownSound, Sound
<1>2. \A s \in Subs : pc[s] = "done" => pc'[s] = "done"
  BY FlowOrder
<1>3. CASE UNCHANGED gateway
  <2>1. reader' = reader /\ shown' = shown
    BY <1>3 DEF gateway
  <2>2. \A r \in Readers : reader[r].sub \in Subs
    BY DEF TypeOK
  <2>3. Reads'
    BY <1>1, <1>2, <2>1, <2>2 DEF Reads, At, On
  <2> QED
    BY <1>1, <2>1, <2>3 DEF ShownSound, Sound
<1>4. ASSUME NEW r \in Readers, Handler(r)
      PROVE  Reads' /\ ShownSound'
  <2>1. UNCHANGED <<flow, outcome, mail, memory, world>>
    BY <1>4, HandlerType
  <2>2. pc' = pc /\ \A s \in Subs : Enriched(s)' = Enriched(s) /\ Raised(s)' = Raised(s)
    BY <2>1 DEF flow, outcome, Enriched, Raised
  <2>3. \A a \in shown' : Sound(a)' /\ (a.enriched => pc'[a.sub] = "done")
    <3>1. CASE shown' = shown
      BY <1>1, <3>1
    <3>2. ASSUME NEW a \in Answer, shown' = {a}, Sound(a),
                 a.enriched => pc[a.sub] = "done"
          PROVE  \A c \in shown' : Sound(c)' /\ (c.enriched => pc'[c.sub] = "done")
      <4>1. a.sub \in Subs
        BY DEF Answer
      <4> QED
        BY <2>2, <3>2, <4>1 DEF Sound
    <3> QED
      BY <1>4, <3>1, <3>2, AnswerSound
  <2>4. \A q \in Readers : At(q, "fetch")' => pc'[On(q)'] = "done"
    <3>1. CASE Get(r)
      BY <2>2, <3>1 DEF Get, At, On, Reads, TypeOK
    <3>2. CASE Overlay(r)
      <4>1. PICK step \in {"describe", "fetch"} :
              /\ reader' = [reader EXCEPT ![r].step = step]
              /\ step = "fetch" => pc[reader[r].sub] = "done"
        BY <3>2 DEF Overlay, Step, On
      <4>2. \A q \in Readers \ {r} : reader'[q] = reader[q]
        BY <4>1 DEF TypeOK
      <4>3. reader'[r].step = step /\ reader'[r].sub = reader[r].sub
        BY <4>1 DEF TypeOK
      <4> QED
        BY <2>2, <4>1, <4>2, <4>3 DEF At, On, Reads
    <3>3. CASE Fetch(r) \/ Describe(r) \/ Query(r)
      <4>1. \E step \in {"idle", "describe", "query"} : Step(r, step)
        BY <3>3 DEF Fetch, Describe, Query, Answers
      <4> QED
        BY <2>2, <4>1 DEF Step, At, On, Reads, TypeOK
    <3> QED
      BY <1>4, <3>1, <3>2, <3>3 DEF Handler
  <2> QED
    BY <2>3, <2>4 DEF Reads, ShownSound, Sound
<1> QED
  BY <1>3, <1>4, GatewayChanges

(* Agents propose, the spine disposes: what a client is shown of a         *)
(* submission (mal-gateway/main.go:128-212).                               *)
THEOREM ShownCorrect == Spec => []ShownSound
<1>1. Init => Reads /\ ShownSound
  BY DEF Init, Reads, ShownSound, At
<1>2. TypeOK /\ Decided /\ Reads /\ ShownSound /\ [Next]_vars
      => (TypeOK /\ Decided /\ Reads /\ ShownSound)'
  BY TypeStep, DecidedStep, ShownStep
<1>3. Init => TypeOK /\ Decided
  BY TypeInit DEF Init, Decided
<1> QED
  BY <1>1, <1>2, <1>3, PTL DEF Spec
----------------------------------------------------------------------------
(* A decision, once made, stands: the workflow receives once.              *)
LEMMA DecisionStands ==
  ASSUME TypeOK, Decided, [Next]_vars
  PROVE  \A s \in Subs : decision[s] # NoDecision => decision'[s] = decision[s]
<1>1. CASE ~\E s \in Subs : Workflow(s)
  BY <1>1, OthersStay
<1> QED
  BY <1>1, MailType

(* However many decisions are posted, and whenever, the first one received *)
(* is the outcome of the review: no later one takes its place              *)
(* (agentgraph.go:428-441; handleReviewPost, mal-gateway/main.go).         *)
THEOREM DecidedOnce ==
  Spec => [][\A s \in Subs : decision[s] # NoDecision => decision'[s] = decision[s]]_vars
<1>1. TypeOK /\ Decided /\ [Next]_vars
      => [\A s \in Subs : decision[s] # NoDecision => decision'[s] = decision[s]]_vars
  BY DecisionStands
<1> QED
  BY <1>1, RecordInvariant, PTL DEF Spec, RecordInv
----------------------------------------------------------------------------
(* The two track records are of the same outcomes: a kind's record is the  *)
(* sum of the records of its claims, whatever confidence they had, and of  *)
(* the outcomes that are between the two locks.                            *)
Of(k, c) == cal[[kind |-> k, conf |-> c]]
OwedIn(S, k)     == {o \in S : o.of.kind = k}
ApprovedIn(S, k) == {o \in S : o.of.kind = k /\ o.approved}
Totals(k) == Of(k, "LOW").total + Of(k, "MEDIUM").total + Of(k, "HIGH").total
Rights(k) == Of(k, "LOW").right + Of(k, "MEDIUM").right + Of(k, "HIGH").right
Agree ==
  \A k \in Kinds :
    /\ grad[k].total = Totals(k) + Cardinality(OwedIn(owed, k))
    /\ grad[k].right = Rights(k) + Cardinality(ApprovedIn(owed, k))

(* Only Record, Calibrate and Crash touch the records.                     *)
LEMMA CalChanges ==
  ASSUME [Next]_vars
  PROVE  UNCHANGED <<grad, cal, owed>> \/ Crash
         \/ \E s \in Subs : Record(s) \/ Calibrate(s)
<1>1. ASSUME NEW r \in Readers, Handler(r)
      PROVE  UNCHANGED <<grad, cal, owed>>
  BY <1>1 DEF Handler, Get, Overlay, Fetch, Describe, Query, Answers, Step, memory
<1>2. ASSUME NEW s \in Subs, Workflow(s)
      PROVE  UNCHANGED <<grad, cal, owed>> \/ Record(s)
  BY <1>2 DEF Workflow, Start, Fails, Measure, Proposed, Gate, Gated, Decide, Expire,
              Recorded, Ingest, Ingested, memory
<1>3. ASSUME NEW s \in Subs, Post(s)
      PROVE  UNCHANGED <<grad, cal, owed>>
  BY <1>3 DEF Post, memory
<1>4. CASE Boot \/ UNCHANGED vars
  BY <1>4 DEF Boot, vars, memory
<1> QED
  BY <1>1, <1>2, <1>3, <1>4 DEF Next

(* One outcome more is owed to the records of its own kind.                *)
LEMMA OneMore ==
  ASSUME NEW S, IsFiniteSet(S), NEW o, o \notin S, o.approved \in BOOLEAN, NEW k
  PROVE  /\ Cardinality(OwedIn(S \cup {o}, k))
              = Cardinality(OwedIn(S, k)) + (IF o.of.kind = k THEN 1 ELSE 0)
         /\ Cardinality(ApprovedIn(S \cup {o}, k))
              = Cardinality(ApprovedIn(S, k)) + (IF o.of.kind = k /\ o.approved THEN 1 ELSE 0)
         /\ Cardinality(OwedIn(S, k)) \in Nat /\ Cardinality(ApprovedIn(S, k)) \in Nat
<1>1. /\ IsFiniteSet(OwedIn(S, k)) /\ o \notin OwedIn(S, k)
      /\ IsFiniteSet(ApprovedIn(S, k)) /\ o \notin ApprovedIn(S, k)
  BY FS_Subset DEF OwedIn, ApprovedIn
<1>2. Cardinality(OwedIn(S, k)) \in Nat /\ Cardinality(ApprovedIn(S, k)) \in Nat
  BY <1>1, FS_CardinalityType
<1>3. OwedIn(S \cup {o}, k) = IF o.of.kind = k THEN OwedIn(S, k) \cup {o} ELSE OwedIn(S, k)
  BY DEF OwedIn
<1>4. ApprovedIn(S \cup {o}, k) = IF o.of.kind = k /\ o.approved
                                THEN ApprovedIn(S, k) \cup {o} ELSE ApprovedIn(S, k)
  BY DEF ApprovedIn
<1>5. /\ Cardinality(OwedIn(S, k) \cup {o}) = Cardinality(OwedIn(S, k)) + 1
      /\ Cardinality(ApprovedIn(S, k) \cup {o}) = Cardinality(ApprovedIn(S, k)) + 1
  BY <1>1, FS_AddElement
<1> QED
  BY <1>2, <1>3, <1>4, <1>5

(* The sums are numbers.                                                   *)
LEMMA SumsType ==
  ASSUME TypeOK, NEW k \in Kinds
  PROVE  Totals(k) \in Nat /\ Rights(k) \in Nat
<1>1. \A c \in Claimed : [kind |-> k, conf |-> c] \in Item
  BY DEF Item
<1>2. \A c \in Claimed : Of(k, c) \in Tally
  BY <1>1 DEF Of, TypeOK
<1>3. \A c \in Claimed : Of(k, c).total \in Nat /\ Of(k, c).right \in Nat
  BY <1>2 DEF Tally
<1> QED
  BY <1>3 DEF Totals, Rights, Claimed

(* An outcome that calibration gets counts once among those of its kind.   *)
LEMMA CalTallied ==
  ASSUME TypeOK, NEW i \in Item, NEW ok \in BOOLEAN, NEW k \in Kinds,
         cal' = [cal EXCEPT ![i] = Tallied(@, ok)]
  PROVE  /\ Totals(k)' = Totals(k) + (IF i.kind = k THEN 1 ELSE 0)
         /\ Rights(k)' = Rights(k) + (IF i.kind = k /\ ok THEN 1 ELSE 0)
         /\ Totals(k) \in Nat /\ Rights(k) \in Nat
<1>1. PICK d \in Claimed : d = i.conf /\ i = [kind |-> i.kind, conf |-> d]
  BY DEF Item
<1>2. ASSUME NEW c \in Claimed
      PROVE  /\ Of(k, c) \in Tally
             /\ Of(k, c)' = IF k = i.kind /\ c = d THEN Tallied(Of(k, c), ok) ELSE Of(k, c)
  <2> DEFINE j == [kind |-> k, conf |-> c]
  <2>1. j \in Item /\ (j = i <=> k = i.kind /\ c = d)
    BY <1>1 DEF Item
  <2>2. Of(k, c) = cal[j] /\ Of(k, c)' = cal'[j]
    BY DEF Of
  <2> HIDE DEF j
  <2>3. cal[j] \in Tally
    BY <2>1 DEF TypeOK
  <2>4. cal'[j] = IF j = i THEN Tallied(cal[i], ok) ELSE cal[j]
    BY <2>1 DEF TypeOK
  <2> QED
    BY <2>1, <2>2, <2>3, <2>4
<1> DEFINE n == IF ok THEN 1 ELSE 0
<1>3. \A t \in Tally : /\ t.total \in Nat /\ t.right \in Nat
                       /\ Tallied(t, ok).total = t.total + 1
                       /\ Tallied(t, ok).right = t.right + n
  BY DEF Tally, Tallied
<1>4. n \in Nat /\ n = IF ok THEN 1 ELSE 0
  OBVIOUS
<1> HIDE DEF n
<1>5. \A c \in Claimed :
        /\ Of(k, c).total \in Nat /\ Of(k, c).right \in Nat
        /\ Of(k, c)'.total = Of(k, c).total + (IF k = i.kind /\ c = d THEN 1 ELSE 0)
        /\ Of(k, c)'.right = Of(k, c).right + (IF k = i.kind /\ c = d THEN n ELSE 0)
  BY <1>2, <1>3
<1>6. "LOW" \in Claimed /\ "MEDIUM" \in Claimed /\ "HIGH" \in Claimed
      /\ (d = "LOW" \/ d = "MEDIUM" \/ d = "HIGH")
  BY DEF Claimed
<1>7. CASE k # i.kind
  BY <1>5, <1>6, <1>7 DEF Totals, Rights
<1>8. CASE k = i.kind
  BY <1>4, <1>5, <1>6, <1>8 DEF Totals, Rights
<1> QED
  BY <1>7, <1>8

(* Finitely many outcomes are owed.                                        *)
LEMMA OwedStep ==
  ASSUME TypeOK, Decided, IsFiniteSet(owed), [Next]_vars
  PROVE  IsFiniteSet(owed')
<1>1. ASSUME NEW s \in Subs, Record(s)
      PROVE  IsFiniteSet(owed')
  BY <1>1, FS_AddElement DEF Record
<1>2. ASSUME NEW s \in Subs, Calibrate(s)
      PROVE  IsFiniteSet(owed')
  BY <1>2, FS_Subset DEF Calibrate
<1>3. CASE Crash
  BY <1>3, FS_EmptySet DEF Crash
<1> QED
  BY <1>1, <1>2, <1>3, CalChanges

(* Nothing is recorded, so the two agree.                                  *)
LEMMA NothingAgrees ==
  ASSUME grad = [k \in Kinds |-> NoTally], cal = [i \in Item |-> NoTally], owed = {}
  PROVE  Agree
<1>1. NoTally.right = 0 /\ NoTally.total = 0
  BY DEF NoTally
<1>2. \A k \in Kinds : \A c \in Claimed : Of(k, c) = NoTally
  BY DEF Of, Item
<1>3. "LOW" \in Claimed /\ "MEDIUM" \in Claimed /\ "HIGH" \in Claimed
  BY DEF Claimed
<1>4. \A k \in Kinds : Totals(k) = 0 /\ Rights(k) = 0
  BY <1>1, <1>2, <1>3 DEF Totals, Rights
<1>5. \A k \in Kinds : OwedIn(owed, k) = {} /\ ApprovedIn(owed, k) = {}
  BY DEF OwedIn, ApprovedIn
<1>6. Cardinality({}) = 0
  BY FS_EmptySet
<1> QED
  BY <1>1, <1>4, <1>5, <1>6 DEF Agree

(* An outcome counts in the one, is owed to the other, and is owed no more *)
(* when it counts there; a crash empties all.                              *)
LEMMA AgreeStep ==
  ASSUME TypeOK, Decided, IsFiniteSet(owed), Agree, [Next]_vars
  PROVE  Agree'
<1>1. CASE UNCHANGED <<grad, cal, owed>>
  BY <1>1 DEF Agree, Of, Totals, Rights
<1>2. CASE Crash
  <2>1. grad' = [k \in Kinds |-> NoTally] /\ cal' = [i \in Item |-> NoTally] /\ owed' = {}
    BY <1>2 DEF Crash
  <2>2. NoTally.right = 0 /\ NoTally.total = 0 /\ Cardinality({}) = 0
    BY FS_EmptySet DEF NoTally
  <2>3. \A k \in Kinds : \A c \in Claimed : Of(k, c)' = NoTally
    BY <2>1 DEF Of, Item
  <2>4. "LOW" \in Claimed /\ "MEDIUM" \in Claimed /\ "HIGH" \in Claimed
    BY DEF Claimed
  <2>5. \A k \in Kinds : Totals(k)' = 0 /\ Rights(k)' = 0
    BY <2>2, <2>3, <2>4 DEF Totals, Rights
  <2>6. \A k \in Kinds : OwedIn(owed', k) = {} /\ ApprovedIn(owed', k) = {}
    BY <2>1 DEF OwedIn, ApprovedIn
  <2>7. \A k \in Kinds : grad'[k] = NoTally
    BY <2>1
  <2>8. ASSUME NEW k \in Kinds
        PROVE  /\ grad'[k].total = Totals(k)' + Cardinality(OwedIn(owed', k))
               /\ grad'[k].right = Rights(k)' + Cardinality(ApprovedIn(owed', k))
    BY <2>2, <2>5, <2>6, <2>7
  <2> QED
    BY <2>8 DEF Agree
<1>3. ASSUME NEW s \in Subs, Record(s)
      PROVE  Agree'
  <2> DEFINE i == esc[s][at[s] + 1]
             o == [sub |-> s, of |-> i, approved |-> decision[s]]
  <2>1. i \in Item /\ decision[s] \in BOOLEAN
    BY <1>3 DEF Record, Running, Decided, TypeOK
  <2>2. /\ grad' = [grad EXCEPT ![i.kind] = Tallied(grad[i.kind], decision[s])]
        /\ owed' = owed \cup {o} /\ cal' = cal
    BY <1>3 DEF Record
  <2>3. o.of = i /\ o.approved = decision[s] /\ o.sub = s
    OBVIOUS
  <2>4. o \notin owed
    BY <1>3, <2>3 DEF Record, Owes
  <2> HIDE DEF i, o
  <2> SUFFICES ASSUME NEW k \in Kinds
               PROVE  /\ grad'[k].total = Totals(k)' + Cardinality(OwedIn(owed', k))
                      /\ grad'[k].right = Rights(k)' + Cardinality(ApprovedIn(owed', k))
    BY DEF Agree
  <2>5. /\ grad[k].total = Totals(k) + Cardinality(OwedIn(owed, k))
        /\ grad[k].right = Rights(k) + Cardinality(ApprovedIn(owed, k))
    BY DEF Agree
  <2>6. /\ Cardinality(OwedIn(owed', k))
             = Cardinality(OwedIn(owed, k)) + (IF i.kind = k THEN 1 ELSE 0)
        /\ Cardinality(ApprovedIn(owed', k))
             = Cardinality(ApprovedIn(owed, k)) + (IF i.kind = k /\ decision[s] THEN 1 ELSE 0)
        /\ Cardinality(OwedIn(owed, k)) \in Nat /\ Cardinality(ApprovedIn(owed, k)) \in Nat
    BY <2>1, <2>2, <2>3, <2>4, OneMore
  <2>7. Totals(k)' = Totals(k) /\ Rights(k)' = Rights(k)
    BY <2>2 DEF Totals, Rights, Of
  <2>8. Totals(k) \in Nat /\ Rights(k) \in Nat
    BY SumsType
  <2>9. /\ grad[k] \in Tally
        /\ grad'[k] = IF k = i.kind THEN Tallied(grad[k], decision[s]) ELSE grad[k]
    BY <2>1, <2>2 DEF TypeOK
  <2>10. k = i.kind =>
           /\ grad'[k].total = grad[k].total + 1
           /\ grad'[k].right = IF decision[s] THEN grad[k].right + 1 ELSE grad[k].right
    BY <2>1, <2>9, TalliedFacts
  <2>11. k # i.kind => grad'[k] = grad[k]
    BY <2>9
  <2>12. CASE k = i.kind /\ decision[s]
    BY <2>5, <2>6, <2>7, <2>8, <2>10, <2>12
  <2>13. CASE k = i.kind /\ ~decision[s]
    BY <2>5, <2>6, <2>7, <2>8, <2>10, <2>13
  <2>14. CASE k # i.kind
    BY <2>5, <2>6, <2>7, <2>8, <2>11, <2>14
  <2> QED
    BY <2>12, <2>13, <2>14
<1>4. ASSUME NEW s \in Subs, Calibrate(s)
      PROVE  Agree'
  <2>1. PICK o \in owed : /\ o.of \in Item /\ o.approved \in BOOLEAN
                          /\ cal' = [cal EXCEPT ![o.of] = Tallied(@, o.approved)]
                          /\ owed' = owed \ {o}
    BY <1>4, CalibrateFacts
  <2>2. grad' = grad
    BY <1>4, CalibrateFacts
  <2>3. IsFiniteSet(owed') /\ o \notin owed' /\ owed = owed' \cup {o}
    BY <2>1, FS_Subset
  <2> SUFFICES ASSUME NEW k \in Kinds
               PROVE  /\ grad[k].total = Totals(k)' + Cardinality(OwedIn(owed', k))
                      /\ grad[k].right = Rights(k)' + Cardinality(ApprovedIn(owed', k))
    BY <2>2 DEF Agree
  <2>4. /\ grad[k].total = Totals(k) + Cardinality(OwedIn(owed, k))
        /\ grad[k].right = Rights(k) + Cardinality(ApprovedIn(owed, k))
    BY DEF Agree
  <2>5. /\ Cardinality(OwedIn(owed, k))
             = Cardinality(OwedIn(owed', k)) + (IF o.of.kind = k THEN 1 ELSE 0)
        /\ Cardinality(ApprovedIn(owed, k))
             = Cardinality(ApprovedIn(owed', k)) + (IF o.of.kind = k /\ o.approved THEN 1 ELSE 0)
        /\ Cardinality(OwedIn(owed', k)) \in Nat /\ Cardinality(ApprovedIn(owed', k)) \in Nat
    BY <2>1, <2>3, OneMore
  <2>6. /\ Totals(k)' = Totals(k) + (IF o.of.kind = k THEN 1 ELSE 0)
        /\ Rights(k)' = Rights(k) + (IF o.of.kind = k /\ o.approved THEN 1 ELSE 0)
        /\ Totals(k) \in Nat /\ Rights(k) \in Nat
    BY <2>1, CalTallied
  <2> QED
    BY <2>4, <2>5, <2>6
<1> QED
  BY <1>1, <1>2, <1>3, <1>4, CalChanges

(* What graduates a category and what calibrates its claims are the same   *)
(* outcomes but for those between the two locks, whichever workflows record*)
(* at once, whichever activity is given up half way and whichever crash    *)
(* empties both: no claim is calibrated on evidence its category does not  *)
(* have, and an outcome is missing only while it is on its way             *)
(* (RecordOutcomeActivity, agentgraph.go:491-505; graduation.go,           *)
(* calibration.go).                                                        *)
THEOREM RecordsAgree == Spec => []Agree
<1>1. Init => Agree /\ IsFiniteSet(owed)
  BY NothingAgrees, FS_EmptySet DEF Init
<1>2. RecordInv /\ Agree /\ IsFiniteSet(owed) /\ [Next]_vars
      => Agree' /\ IsFiniteSet(owed)'
  BY AgreeStep, OwedStep DEF RecordInv
<1> QED
  BY <1>1, <1>2, RecordInvariant, PTL DEF Spec
----------------------------------------------------------------------------
(* What the graph remembers, as Tiers promises it of a store that is not   *)
(* durable.                                                                *)
Knowledge == INSTANCE Tiers WITH Keys <- Facts, durable <- FALSE, tier <- tier

(* One fact is written, to a higher tier or as it was.                     *)
LEMMA IngestRises ==
  ASSUME TypeOK, NEW s \in Subs, Ingest(s)
  PROVE  tier' = tier \/ \E f \in Facts : Knowledge!Rise(f)
<1>1. PICK i \in DOMAIN Learns(s), t \in {"curated", "ingest"} :
        tier' \in {tier, Merged(Learns(s)[i], t)}
  BY IngestFacts
<1> DEFINE f == Learns(s)[i]
<1>2. f \in Facts
  BY ReviewConstants
<1> HIDE DEF f
<1>3. CASE tier' # tier
  <2>1. tier' = [tier EXCEPT ![f] = IF @ = "curated" THEN @ ELSE t]
    BY <1>1, <1>3 DEF Merged, f
  <2>2. tier[f] \in Tiers /\ tier \in [Facts -> Tiers]
    BY <1>2 DEF TypeOK
  <2>3. tier'[f] = IF tier[f] = "curated" THEN tier[f] ELSE t
    BY <1>2, <2>1, <2>2
  <2>4. tier'[f] # tier[f]
    <3>1. SUFFICES ASSUME tier'[f] = tier[f] PROVE FALSE
      OBVIOUS
    <3>2. tier' = tier
      BY <2>1, <2>2, <2>3, <3>1
    <3> QED
      BY <1>3, <3>2
  <2>5. \/ tier[f] = "absent" /\ tier'[f] \in {"ingest", "curated"}
        \/ tier[f] = "ingest" /\ tier'[f] = "curated"
    BY <2>2, <2>3, <2>4 DEF Tiers
  <2>6. Knowledge!Rank[tier'[f]] > Knowledge!Rank[tier[f]] /\ tier'[f] \in Knowledge!Tier
    BY <2>5 DEF Knowledge!Rank, Knowledge!Tier
  <2>7. tier' = [tier EXCEPT ![f] = tier'[f]]
    BY <1>2, <2>1, <2>2, <2>3
  <2> QED
    BY <1>2, <2>6, <2>7 DEF Knowledge!Rise
<1> QED
  BY <1>3

(* Every step of the loop is one the abstract store may take.              *)
LEMMA KnowledgeStep ==
  ASSUME TypeOK, [Next]_vars
  PROVE  [Knowledge!Next]_(Knowledge!vars)
<1>1. CASE Crash
  BY <1>1 DEF Crash, Knowledge!Next, Knowledge!Forget
<1>2. ASSUME NEW s \in Subs, Ingest(s)
      PROVE  [Knowledge!Next]_(Knowledge!vars)
  BY <1>2, IngestRises DEF Knowledge!Next, Knowledge!vars
<1>3. CASE tier' = tier
  BY <1>3 DEF Knowledge!vars
<1> QED
  BY <1>1, <1>2, <1>3, TierChanges

(* The loop uses the graph as Tiers promises it, whichever workflows write *)
(* at once: a fact only rises from unknown to observed to confirmed, one   *)
(* at a time, until a crash forgets them all (learn.go, graph.go).         *)
THEOREM LoopKeepsTiers == Spec => Knowledge!Spec
<1>1. Init => Knowledge!Init
  BY DEF Init, Knowledge!Init
<1>2. TypeOK /\ [Next]_vars => [Knowledge!Next]_(Knowledge!vars)
  BY KnowledgeStep
<1> QED
  BY <1>1, <1>2, TypeCorrect, PTL DEF Spec, Knowledge!Spec
----------------------------------------------------------------------------
(* How much a category is trusted.                                         *)
Trust(t) == IF Mode(t) = "shadow" THEN 0 ELSE IF Mode(t) = "supervised" THEN 1 ELSE 2

(* Below a floor, a right outcome more is needed, and a wrong one keeps.   *)
LEMMA BelowMoves ==
  ASSUME NEW t \in Tally, NEW floor \in 0..100
  PROVE  /\ Below(Tallied(t, TRUE), floor) => Below(t, floor)
         /\ Below(t, floor) => Below(Tallied(t, FALSE), floor)
<1> DEFINE p == floor * t.total
<1>1. t.right \in Nat /\ t.total \in Nat
  BY DEF Tally
<1>2. p \in Int /\ floor * (t.total + 1) = p + floor
  BY <1>1
<1>3. /\ Below(t, floor) <=> 100 * t.right < p
      /\ Below(Tallied(t, TRUE), floor) <=> 100 * (t.right + 1) < p + floor
      /\ Below(Tallied(t, FALSE), floor) <=> 100 * t.right < p + floor
  BY <1>2 DEF Below, Tallied
<1> HIDE DEF p
<1>4. ASSUME Below(Tallied(t, TRUE), floor) PROVE Below(t, floor)
  <2>1. 100 * (t.right + 1) < p + floor
    BY <1>3, <1>4
  <2> QED
    BY <1>1, <1>2, <1>3, <2>1
<1>5. ASSUME Below(t, floor) PROVE Below(Tallied(t, FALSE), floor)
  <2>1. 100 * t.right < p
    BY <1>3, <1>5
  <2>2. 100 * t.right < p + floor
    BY <1>1, <1>2, <2>1
  <2> QED
    BY <1>3, <2>2
<1> QED
  BY <1>4, <1>5

(* Once enough outcomes are in, an approval never costs a category its     *)
(* autonomy and a rejection never earns any: what an analyst says moves it *)
(* the way they mean it.  Before that the last rejection needed may still  *)
(* complete the count (graduation.go:113-135).                             *)
THEOREM OutcomesMoveTrust ==
  ASSUME NEW t \in Tally, t.total >= MinToAutonomous
  PROVE  /\ Trust(Tallied(t, TRUE)) >= Trust(t)
         /\ Trust(Tallied(t, FALSE)) <= Trust(t)
<1> DEFINE y == Tallied(t, TRUE)
           n == Tallied(t, FALSE)
<1>1. AccuracyFloor \in 0..100 /\ ShadowFloor \in 0..100
  BY AutonomyConstants
<1>2. /\ Below(y, AccuracyFloor) => Below(t, AccuracyFloor)
      /\ Below(y, ShadowFloor) => Below(t, ShadowFloor)
      /\ Below(t, AccuracyFloor) => Below(n, AccuracyFloor)
      /\ Below(t, ShadowFloor) => Below(n, ShadowFloor)
  BY <1>1, BelowMoves
<1>3. ~(t.total < MinToAutonomous) /\ ~(y.total < MinToAutonomous) /\ ~(n.total < MinToAutonomous)
  BY AutonomyConstants DEF Tally, Tallied
<1> HIDE DEF y, n
<1>4. \A u : ~(u.total < MinToAutonomous) =>
        Trust(u) = IF ~Below(u, AccuracyFloor) THEN 2
                   ELSE IF Below(u, ShadowFloor) THEN 0 ELSE 1
  BY DEF Trust, Mode
<1>5. /\ Trust(t) = IF ~Below(t, AccuracyFloor) THEN 2
                    ELSE IF Below(t, ShadowFloor) THEN 0 ELSE 1
      /\ Trust(y) = IF ~Below(y, AccuracyFloor) THEN 2
                    ELSE IF Below(y, ShadowFloor) THEN 0 ELSE 1
      /\ Trust(n) = IF ~Below(n, AccuracyFloor) THEN 2
                    ELSE IF Below(n, ShadowFloor) THEN 0 ELSE 1
  BY <1>3, <1>4
<1>6. Trust(y) >= Trust(t)
  BY <1>2, <1>5
<1>7. Trust(n) <= Trust(t)
  BY <1>2, <1>5
<1> QED
  BY <1>6, <1>7 DEF y, n

(* What the gate takes a claim for, given the record of such claims.       *)
Weight(c) == IF c = "LOW" THEN 0 ELSE IF c = "MEDIUM" THEN 1 ELSE 2
Taken(t, c) == Weight(IF Calibrated(t, c) = NoOverride THEN c ELSE Calibrated(t, c))

(* The same of a claim: once its record is long enough to be believed, an  *)
(* approval never makes such claims weigh less, nor a rejection more, and  *)
(* no record makes one weigh more than it claims (calibration.go:49-80).   *)
THEOREM OutcomesMoveWeight ==
  ASSUME NEW t \in Tally, NEW c \in Claimed, t.total >= CalMinObservations
  PROVE  /\ Taken(Tallied(t, TRUE), c) >= Taken(t, c)
         /\ Taken(Tallied(t, FALSE), c) <= Taken(t, c)
         /\ Taken(t, c) <= Weight(c)
<1> DEFINE y == Tallied(t, TRUE)
           n == Tallied(t, FALSE)
<1>1. CalHighFloor \in 0..100 /\ CalMedFloor \in 0..100
  BY AutonomyConstants
<1>2. /\ Below(y, CalHighFloor) => Below(t, CalHighFloor)
      /\ Below(y, CalMedFloor) => Below(t, CalMedFloor)
      /\ Below(t, CalHighFloor) => Below(n, CalHighFloor)
      /\ Below(t, CalMedFloor) => Below(n, CalMedFloor)
  BY <1>1, BelowMoves
<1>3. /\ ~(t.total < CalMinObservations) /\ ~(y.total < CalMinObservations)
      /\ ~(n.total < CalMinObservations)
  BY AutonomyConstants DEF Tally, Tallied
<1> HIDE DEF y, n
<1>4. ASSUME NEW u, ~(u.total < CalMinObservations)
      PROVE  Taken(u, c) = IF c = "LOW" \/ Below(u, CalMedFloor) THEN 0
                           ELSE IF c = "MEDIUM" \/ Below(u, CalHighFloor) THEN 1 ELSE 2
  BY <1>4 DEF Taken, Calibrated, Weight, Claimed, NoOverride
<1>5. /\ Taken(t, c) = IF c = "LOW" \/ Below(t, CalMedFloor) THEN 0
                       ELSE IF c = "MEDIUM" \/ Below(t, CalHighFloor) THEN 1 ELSE 2
      /\ Taken(y, c) = IF c = "LOW" \/ Below(y, CalMedFloor) THEN 0
                       ELSE IF c = "MEDIUM" \/ Below(y, CalHighFloor) THEN 1 ELSE 2
      /\ Taken(n, c) = IF c = "LOW" \/ Below(n, CalMedFloor) THEN 0
                       ELSE IF c = "MEDIUM" \/ Below(n, CalHighFloor) THEN 1 ELSE 2
  BY <1>3, <1>4
<1>6. Taken(y, c) >= Taken(t, c)
  BY <1>2, <1>5
<1>7. Taken(n, c) <= Taken(t, c)
  BY <1>2, <1>5
<1>8. Taken(t, c) <= Weight(c)
  BY <1>5 DEF Weight, Claimed
<1> QED
  BY <1>6, <1>7, <1>8 DEF y, n
----------------------------------------------------------------------------
(* The confidences a claim may be calibrated down to.                      *)
Lower(c) == IF c = "HIGH" THEN {"MEDIUM", "LOW"} ELSE IF c = "MEDIUM" THEN {"LOW"} ELSE {}

(* The gate may accept such a hypothesis: it is cited and nothing the      *)
(* spine measured speaks against it.                                       *)
Clears(h, o) == h.kind \in Eligible /\ h.grounded /\ ~Stopped(h, o)

(* What the activity at hand goes through.                                 *)
Items(s) == IF pc[s] \in {"roster", "gate"} THEN Len(claims[s])
            ELSE IF pc[s] = "record" THEN Len(esc[s])
            ELSE IF pc[s] \in {"confirm", "observe"} THEN Len(Learns(s)) ELSE 0

(* The gate is fed one measurement of each hypothesis, ...                 *)
Feeding(s) ==
  /\ at[s] <= Items(s)
  /\ pc[s] = "roster" => /\ esc[s] = <<>> /\ ~found[s] /\ Len(over[s]) = at[s]
                         /\ act[s] = "scheduled" => at[s] = 0
  /\ pc[s] = "gate" => Len(over[s]) = Len(claims[s]) /\ Len(esc[s]) <= at[s]

(* ... never a raised one; what it accepted has cleared it, and what it    *)
(* escalated was proposed.                                                 *)
Sourced(s) ==
  /\ Len(over[s]) <= Len(claims[s]) /\ Len(esc[s]) <= Len(claims[s])
  /\ \A i \in DOMAIN over[s] : over[s][i] \in {NoOverride} \cup Lower(claims[s][i].conf)
  /\ found[s] => \E i \in DOMAIN over[s] : Clears(claims[s][i], over[s][i])
  /\ \A j \in DOMAIN esc[s] : \E i \in DOMAIN claims[s] :
       /\ esc[s][j] = [kind |-> claims[s][i].kind, conf |-> claims[s][i].conf]
       /\ claims[s][i].grounded \/ ~claims[s][i].refuted

Fed == \A s \in Subs : Feeding(s) /\ Sourced(s)

(* The lengths the counts are compared with are counts themselves.         *)
LEMMA Lengths ==
  ASSUME TypeOK, NEW s \in Subs
  PROVE  /\ Len(claims[s]) \in Nat /\ Len(over[s]) \in Nat /\ Len(esc[s]) \in Nat
         /\ Len(Learns(s)) \in Nat /\ at[s] \in Nat /\ Items(s) \in Nat
<1>1. /\ claims[s] \in Seq(Hypothesis) /\ over[s] \in Seq(Claimed \cup {NoOverride})
      /\ esc[s] \in Seq(Item) /\ Learns(s) \in Seq(Facts) /\ at[s] \in Nat
  BY ReviewConstants DEF TypeOK
<1>2. /\ Len(claims[s]) \in Nat /\ Len(over[s]) \in Nat /\ Len(esc[s]) \in Nat
      /\ Len(Learns(s)) \in Nat
  BY <1>1
<1> QED
  BY <1>1, <1>2 DEF Items

(* What an activity is handed and what it finds is its own workflow's.     *)
LEMMA Untouched ==
  ASSUME TypeOK, [Next]_vars, NEW s \in Subs, ~Workflow(s)
  PROVE  /\ pc'[s] = pc[s] /\ at'[s] = at[s]
         /\ act'[s] = "scheduled" <=> act[s] = "scheduled"
         /\ claims'[s] = claims[s] /\ over'[s] = over[s]
         /\ esc'[s] = esc[s] /\ found'[s] = found[s]
<1>1. CASE ~\E z \in Subs : Workflow(z)
  <2>1. UNCHANGED <<pc, at, outcome>>
    BY <1>1, OthersStay
  <2>2. act'[s] = "scheduled" <=> act[s] = "scheduled"
    <3>1. ASSUME NEW r \in Readers, Handler(r) PROVE act' = act
      BY <3>1 DEF Handler, Get, Overlay, Fetch, Describe, Query, Answers, Step, flow
    <3>2. ASSUME NEW z \in Subs, Post(z) \/ Calibrate(z) PROVE act' = act
      BY <3>2 DEF Post, Calibrate, flow
    <3>3. ASSUME Crash PROVE act'[s] = "scheduled" <=> act[s] = "scheduled"
      BY <3>3 DEF Crash
    <3>4. ASSUME Boot \/ UNCHANGED vars PROVE act' = act
      BY <3>4 DEF Boot, vars, flow
    <3> QED
      BY <1>1, <3>1, <3>2, <3>3, <3>4 DEF Next
  <2> QED
    BY <2>1, <2>2 DEF outcome
<1>2. ASSUME NEW z \in Subs, Workflow(z)
      PROVE  /\ pc'[s] = pc[s] /\ at'[s] = at[s] /\ act'[s] = act[s]
             /\ claims'[s] = claims[s] /\ over'[s] = over[s]
             /\ esc'[s] = esc[s] /\ found'[s] = found[s]
  <2>1. z # s /\ pc'[s] = pc[s] /\ at'[s] = at[s]
    BY <1>2, FlowType
  <2>2. ASSUME NEW stage, Enter(z, stage) PROVE act'[s] = act[s]
    BY <2>1, <2>2 DEF Enter, TypeOK
  <2>3. ASSUME NEW f, NEW e, Disposed(z, f, e) PROVE found'[s] = found[s] /\ esc'[s] = esc[s]
    BY <2>1, <2>3 DEF Disposed, TypeOK
  <2>4. CASE Start(z)
    BY <2>1, <2>4 DEF Start, TypeOK
  <2>5. CASE Measure(z)
    BY <2>1, <2>5 DEF Measure, Handled, TypeOK
  <2>6. CASE Gate(z)
    BY <2>1, <2>3, <2>6 DEF Gate, Handled
  <2>7. CASE Fails(z)
    <3>1. act'[s] = act[s]
      BY <2>2, <2>7, OnwardFacts DEF Fails
    <3>2. found'[s] = found[s] /\ esc'[s] = esc[s]
      BY <2>3, <2>7 DEF Fails
    <3> QED
      BY <2>1, <2>7, <3>1, <3>2 DEF Fails
  <2>8. CASE Recorded(z) \/ Ingested(z)
    <3>1. Onward(z) /\ UNCHANGED outcome
      BY <2>8 DEF Recorded, Ingested
    <3> QED
      BY <2>1, <2>2, <3>1, OnwardFacts DEF outcome
  <2>9. CASE Record(z) \/ Ingest(z)
    BY <2>1, <2>9 DEF Record, Ingest, Handled, outcome
  <2>10. CASE Proposed(z) \/ Gated(z) \/ Decide(z) \/ Expire(z)
    <3>1. UNCHANGED outcome /\ \E stage \in Stages : Enter(z, stage)
      BY <2>10 DEF Proposed, Gated, Decide, Expire, Stages, Activities
    <3> QED
      BY <2>1, <2>2, <3>1 DEF outcome
  <2> QED
    BY <1>2, <2>4, <2>5, <2>6, <2>7, <2>8, <2>9, <2>10 DEF Workflow
<1> QED
  BY <1>1, <1>2

(* A workflow past the gate begins its next stage with nothing handled.    *)
LEMMA FedEnter ==
  ASSUME TypeOK, TypeOK', NEW s \in Subs, Fed,
         NEW stage \in {"await", "record", "confirm", "observe", "done"}, Enter(s, stage),
         UNCHANGED <<claims, over>>, UNCHANGED <<found, esc>> \/ Disposed(s, FALSE, <<>>)
  PROVE  Feeding(s)' /\ Sourced(s)'
<1>1. pc'[s] = stage /\ at'[s] = 0 /\ Items(s)' \in Nat
  <2>1. pc'[s] = stage /\ at'[s] = 0
    BY DEF Enter, TypeOK
  <2>2. esc'[s] \in Seq(Item) /\ Learns(s) \in Seq(Facts)
    BY ReviewConstants DEF TypeOK
  <2>3. Len(esc'[s]) \in Nat /\ Len(Learns(s)) \in Nat
    BY <2>2
  <2> QED
    BY <2>1, <2>3 DEF Items
<1>2. Feeding(s)'
  BY <1>1 DEF Feeding
<1>3. \/ found'[s] = found[s] /\ esc'[s] = esc[s]
      \/ found'[s] = FALSE /\ esc'[s] = <<>>
  BY DEF Disposed, TypeOK
<1>4. Len(claims[s]) \in Nat
  BY Lengths
<1>5. Sourced(s)'
  BY <1>3, <1>4 DEF Fed, Sourced
<1> QED
  BY <1>2, <1>5

(* Each step of an activity keeps what it was fed.                         *)
LEMMA FedOwn ==
  ASSUME TypeOK, TypeOK', Fed, NEW s \in Subs, Workflow(s)
  PROVE  Feeding(s)' /\ Sourced(s)'
<1>l. /\ Len(claims[s]) \in Nat /\ Len(over[s]) \in Nat /\ Len(esc[s]) \in Nat
      /\ Len(Learns(s)) \in Nat /\ at[s] \in Nat /\ Items(s) \in Nat
      /\ claims[s] \in Seq(Hypothesis) /\ over[s] \in Seq(Claimed \cup {NoOverride})
      /\ esc[s] \in Seq(Item)
  BY Lengths DEF TypeOK
<1>f. Feeding(s) /\ Sourced(s)
  BY DEF Fed
<1>1. CASE Start(s)
  <2>1. /\ pc' = pc /\ at' = at /\ UNCHANGED <<over, esc, found>>
        /\ act'[s] = "running" /\ act[s] = "scheduled"
    BY <1>1 DEF Start, TypeOK
  <2>2. CASE pc[s] = "roster"
    <3>1. claims'[s] \in Seq(Hypothesis) /\ Len(claims'[s]) \in Nat
      BY DEF TypeOK
    <3>2. at[s] = 0 /\ Len(over[s]) = 0 /\ esc[s] = <<>> /\ ~found[s]
      BY <1>f, <2>1, <2>2 DEF Feeding
    <3>3. DOMAIN over[s] = {} /\ DOMAIN esc[s] = {} /\ Len(esc[s]) = 0
      BY <1>l, <3>2
    <3>4. Feeding(s)'
      BY <2>1, <2>2, <3>1, <3>2 DEF Feeding, Items
    <3>5. Sourced(s)'
      BY <2>1, <3>1, <3>2, <3>3 DEF Sourced
    <3> QED
      BY <3>4, <3>5
  <2>3. CASE pc[s] # "roster"
    <3>1. claims' = claims
      BY <1>1, <2>3 DEF Start
    <3> QED
      BY <1>f, <2>1, <2>3, <3>1 DEF Feeding, Sourced, Items
  <2> QED
    BY <2>2, <2>3
<1>2. CASE Measure(s)
  <2> DEFINE h == claims[s][at[s] + 1]
             c == Calibrated(cal[[kind |-> h.kind, conf |-> h.conf]], h.conf)
  <2>1. /\ pc[s] = "roster" /\ at[s] < Len(claims[s]) /\ pc' = pc /\ act' = act
        /\ act[s] = "running" /\ at'[s] = at[s] + 1 /\ over'[s] = Append(over[s], c)
        /\ UNCHANGED <<claims, esc, found>>
    BY <1>2 DEF Measure, Running, Handled, TypeOK
  <2>2. h \in Hypothesis
    BY <1>l, <2>1
  <2>3. c \in {NoOverride} \cup Lower(h.conf)
    <3>1. h.conf \in Claimed /\ cal[[kind |-> h.kind, conf |-> h.conf]] \in Tally
      BY <2>2 DEF Hypothesis, Item, TypeOK
    <3>2. \A t \in Tally, d \in Claimed : Calibrated(t, d) \in {NoOverride} \cup Lower(d)
      BY CalibratedDown DEF Lower, Claimed
    <3> QED
      BY <3>1, <3>2
  <2>4. c \in Claimed \cup {NoOverride}
    <3>1. \A d : Lower(d) \in SUBSET Claimed
      BY DEF Lower, Claimed
    <3> QED
      BY <2>3, <3>1
  <2>5. h = claims[s][at[s] + 1]
    OBVIOUS
  <2> HIDE DEF c, h
  <2>6. /\ Len(over[s]) = at[s] /\ esc[s] = <<>> /\ ~found[s]
        /\ Len(over'[s]) = Len(over[s]) + 1
        /\ DOMAIN over'[s] = DOMAIN over[s] \cup {at[s] + 1}
        /\ over'[s][at[s] + 1] = c /\ \A i \in DOMAIN over[s] : over'[s][i] = over[s][i]
    BY <1>l, <1>f, <2>1, <2>4 DEF Feeding
  <2>7. Feeding(s)'
    BY <1>l, <2>1, <2>6 DEF Feeding, Items
  <2>8. \A i \in DOMAIN over'[s] : over'[s][i] \in {NoOverride} \cup Lower(claims[s][i].conf)
    BY <1>f, <2>3, <2>5, <2>6 DEF Sourced
  <2>9. Len(over'[s]) <= Len(claims[s])
    BY <1>l, <2>1, <2>6
  <2>10. Sourced(s)'
    BY <1>f, <2>1, <2>6, <2>8, <2>9 DEF Sourced
  <2> QED
    BY <2>7, <2>10
<1>3. CASE Proposed(s)
  <2>1. /\ pc[s] = "roster" /\ at[s] = Len(claims[s]) /\ UNCHANGED <<claims, over, esc, found>>
        /\ pc'[s] = "gate" /\ at'[s] = 0
    BY <1>3 DEF Proposed, Running, Enter, outcome, TypeOK
  <2>2. Len(over[s]) = Len(claims[s]) /\ Len(esc[s]) = 0
    BY <1>f, <2>1 DEF Feeding
  <2>3. Feeding(s)'
    BY <1>l, <2>1, <2>2 DEF Feeding, Items
  <2> QED
    BY <1>f, <2>1, <2>3 DEF Sourced
<1>4. CASE Gate(s)
  <2> DEFINE n == at[s] + 1
             h == claims[s][n]
             o == over[s][n]
             m == Mode(grad[h.kind])
             i == [kind |-> h.kind, conf |-> h.conf]
  <2>1. /\ pc[s] = "gate" /\ at[s] < Len(claims[s]) /\ UNCHANGED <<pc, act, claims, over>>
        /\ at'[s] = n
    BY <1>4 DEF Gate, Running, Handled, TypeOK
  <2>2. /\ found'[s] = (found[s] \/ Accepts(h, o, m))
        /\ esc'[s] = IF Escalates(h, o, m) THEN Append(esc[s], i) ELSE esc[s]
    BY <1>4 DEF Gate, Disposed, TypeOK
  <2>3. n \in DOMAIN claims[s] /\ n \in DOMAIN over[s] /\ h \in Hypothesis
        /\ Len(esc[s]) <= at[s]
    BY <1>l, <1>f, <2>1 DEF Feeding
  <2>4. i \in Item
    BY <2>3 DEF Hypothesis, Item
  <2>5. Accepts(h, o, m) => Clears(h, o)
    BY DEF Accepts, Clears
  <2>6. Escalates(h, o, m) => h.grounded \/ ~h.refuted
    BY DEF Escalates
  <2>7. /\ Len(esc'[s]) <= n
        /\ \A j \in DOMAIN esc'[s] : \E k \in DOMAIN claims[s] :
             /\ esc'[s][j] = [kind |-> claims[s][k].kind, conf |-> claims[s][k].conf]
             /\ claims[s][k].grounded \/ ~claims[s][k].refuted
    <3>1. CASE Escalates(h, o, m)
      <4>1. /\ Len(esc'[s]) = Len(esc[s]) + 1
            /\ DOMAIN esc'[s] = DOMAIN esc[s] \cup {Len(esc[s]) + 1}
            /\ esc'[s][Len(esc[s]) + 1] = i
            /\ \A j \in DOMAIN esc[s] : esc'[s][j] = esc[s][j]
        <5> HIDE DEF i
        <5> QED
          BY <1>l, <2>2, <2>4, <3>1
      <4>2. Len(esc'[s]) <= n
        BY <1>l, <2>3, <4>1
      <4> QED
        BY <1>f, <2>3, <2>6, <3>1, <4>1, <4>2 DEF Sourced
    <3>2. CASE ~Escalates(h, o, m)
      <4>1. esc'[s] = esc[s] /\ Len(esc[s]) <= n
        BY <1>l, <2>2, <2>3, <3>2
      <4> QED
        BY <1>f, <4>1 DEF Sourced
    <3> QED
      BY <3>1, <3>2
  <2>8. found'[s] => \E k \in DOMAIN over[s] : Clears(claims[s][k], over[s][k])
    BY <1>f, <2>2, <2>3, <2>5 DEF Sourced
  <2>9. n \in Nat /\ n <= Len(claims[s]) /\ esc'[s] \in Seq(Item)
    BY <1>l, <2>1 DEF TypeOK
  <2> HIDE DEF n, h, o, m, i
  <2>10. Feeding(s)'
    BY <1>f, <2>1, <2>7, <2>9 DEF Feeding, Items
  <2>11. Len(esc'[s]) <= Len(claims[s])
    BY <1>l, <2>7, <2>9
  <2>12. Sourced(s)'
    BY <1>f, <2>1, <2>7, <2>8, <2>11 DEF Sourced
  <2> QED
    BY <2>10, <2>12
<1>5. CASE Fails(s) \/ Recorded(s) \/ Ingested(s)
  <2>1. Onward(s) /\ UNCHANGED <<claims, over>>
    BY <1>5 DEF Fails, Recorded, Ingested, outcome
  <2>2. UNCHANGED <<found, esc>> \/ Disposed(s, FALSE, <<>>)
    BY <1>5 DEF Fails, Recorded, Ingested, outcome
  <2>3. \E stage \in {"await", "record", "confirm", "observe", "done"} : Enter(s, stage)
    BY <2>1, OnwardFacts
  <2> QED
    BY <2>1, <2>2, <2>3, FedEnter
<1>6. CASE Gated(s) \/ Decide(s) \/ Expire(s)
  <2>1. UNCHANGED <<claims, over, found, esc>>
    BY <1>6 DEF Gated, Decide, Expire, outcome
  <2>2. \E stage \in {"await", "record", "confirm", "observe", "done"} : Enter(s, stage)
    BY <1>6 DEF Gated, Decide, Expire
  <2> QED
    BY <2>1, <2>2, FedEnter
<1>7. CASE Record(s) \/ Ingest(s)
  <2>1. /\ pc' = pc /\ at'[s] = at[s] + 1 /\ UNCHANGED <<claims, over, esc, found>>
        /\ pc[s] \in {"record", "confirm", "observe"} /\ at[s] < Items(s)
    BY <1>7 DEF Record, Ingest, Running, Handled, outcome, Items, TypeOK
  <2>2. Items(s)' = Items(s)
    BY <2>1 DEF Items
  <2>3. Feeding(s)'
    BY <1>l, <2>1, <2>2 DEF Feeding
  <2> QED
    BY <1>f, <2>1, <2>3 DEF Sourced
<1> QED
  BY <1>1, <1>2, <1>3, <1>4, <1>5, <1>6, <1>7 DEF Workflow

(* ... and no step of another does.                                        *)
LEMMA FedStep ==
  ASSUME TypeOK, TypeOK', Fed, [Next]_vars
  PROVE  Fed'
<1> SUFFICES ASSUME NEW s \in Subs, ~Workflow(s)
             PROVE  Feeding(s)' /\ Sourced(s)'
  BY FedOwn DEF Fed
<1>1. Feeding(s) /\ Sourced(s)
  BY DEF Fed
<1>2. /\ pc'[s] = pc[s] /\ at'[s] = at[s]
      /\ act'[s] = "scheduled" <=> act[s] = "scheduled"
      /\ claims'[s] = claims[s] /\ over'[s] = over[s]
      /\ esc'[s] = esc[s] /\ found'[s] = found[s]
  BY Untouched
<1>3. Items(s)' = Items(s)
  BY <1>2 DEF Items
<1>4. Feeding(s)'
  BY <1>1, <1>2, <1>3 DEF Feeding
<1>5. Sourced(s)'
  BY <1>1, <1>2 DEF Sourced
<1> QED
  BY <1>4, <1>5

(* Fed is inductive.                                                       *)
LEMMA FedAlways == Spec => []Fed
<1>1. Init => Fed
  <2> SUFFICES ASSUME Init, NEW s \in Subs PROVE Feeding(s) /\ Sourced(s)
    BY DEF Fed
  <2>1. /\ pc[s] = "roster" /\ at[s] = 0 /\ claims[s] = <<>> /\ over[s] = <<>>
        /\ esc[s] = <<>> /\ ~found[s]
    BY DEF Init
  <2> QED
    BY <2>1 DEF Feeding, Sourced, Items
<1>2. TypeOK /\ Decided /\ Fed /\ [Next]_vars => Fed'
  BY TypeStep, FedStep
<1> QED
  BY <1>1, <1>2, RecordInvariant, PTL DEF Spec, RecordInv

(* The gate weighs every hypothesis with the one measurement that is its   *)
(* own, and none is weighed for more than it claims: the roster and the    *)
(* gate are two activities, and only the positions in two lists tell whose *)
(* measurement it is (RunRosterActivity and GateActivity, agentgraph.go;   *)
(* EvaluateWithSignals, gate.go).                                          *)
THEOREM MeasuredBeforeGated ==
  Spec => [](\A s \in Subs : pc[s] = "gate" =>
               /\ DOMAIN over[s] = DOMAIN claims[s]
               /\ \A i \in DOMAIN claims[s] :
                    over[s][i] \in {NoOverride} \cup Lower(claims[s][i].conf))
<1>1. TypeOK /\ Fed => \A s \in Subs : pc[s] = "gate" =>
                         /\ DOMAIN over[s] = DOMAIN claims[s]
                         /\ \A i \in DOMAIN claims[s] :
                              over[s][i] \in {NoOverride} \cup Lower(claims[s][i].conf)
  <2> SUFFICES ASSUME TypeOK, Fed, NEW s \in Subs, pc[s] = "gate"
               PROVE  /\ DOMAIN over[s] = DOMAIN claims[s]
                      /\ \A i \in DOMAIN claims[s] :
                           over[s][i] \in {NoOverride} \cup Lower(claims[s][i].conf)
    OBVIOUS
  <2>1. Len(over[s]) = Len(claims[s]) /\ Sourced(s)
    BY DEF Fed, Feeding
  <2>2. claims[s] \in Seq(Hypothesis) /\ over[s] \in Seq(Claimed \cup {NoOverride})
    BY DEF TypeOK
  <2>3. DOMAIN over[s] = DOMAIN claims[s]
    BY <2>1, <2>2
  <2> QED
    BY <2>1, <2>3 DEF Sourced
<1> QED
  BY <1>1, TypeCorrect, FedAlways, PTL

(* Agents propose, the spine disposes: a client is shown more than the     *)
(* deterministic verdict only if the roster proposed a technique that is   *)
(* cited from what a human vouched for, that no verifier refuted, that is  *)
(* no novelty, that was reproduced and that its record supports; no crash, *)
(* failure or other submission makes up for one (gate.go:180-272;          *)
(* mal-gateway/main.go:128-212).                                           *)
THEOREM RaisedOnEvidence ==
  Spec => [](\A a \in shown : a.verdict # Base(a.sub) =>
               \E i \in DOMAIN claims[a.sub] :
                 Clears(claims[a.sub][i], over[a.sub][i]))
<1>1. TypeOK /\ Fed /\ ShownSound
      => \A a \in shown : a.verdict # Base(a.sub) =>
           \E i \in DOMAIN claims[a.sub] : Clears(claims[a.sub][i], over[a.sub][i])
  <2> SUFFICES ASSUME TypeOK, Fed, ShownSound, NEW a \in shown, a.verdict # Base(a.sub)
               PROVE  \E i \in DOMAIN claims[a.sub] : Clears(claims[a.sub][i], over[a.sub][i])
    OBVIOUS
  <2>1. a.sub \in Subs
    BY DEF TypeOK, Answer
  <2>2. found[a.sub]
    BY DEF ShownSound, Enriched
  <2>3. PICK i \in DOMAIN over[a.sub] : Clears(claims[a.sub][i], over[a.sub][i])
    BY <2>1, <2>2 DEF Fed, Sourced
  <2>4. /\ claims[a.sub] \in Seq(Hypothesis) /\ over[a.sub] \in Seq(Claimed \cup {NoOverride})
        /\ Len(over[a.sub]) <= Len(claims[a.sub])
    BY <2>1 DEF TypeOK, Fed, Sourced
  <2>5. i \in DOMAIN claims[a.sub]
    BY <2>4
  <2> QED
    BY <2>3, <2>5
<1> QED
  BY <1>1, TypeCorrect, FedAlways, ShownCorrect, PTL
----------------------------------------------------------------------------
(* How far a workflow is: its stage, and whether its activity was taken up;*)
(* within that, the items left.                                            *)
Rank == [p \in Stages |-> IF p = "roster" THEN 0 ELSE IF p = "gate" THEN 2
                          ELSE IF p = "await" THEN 4 ELSE IF p = "record" THEN 5
                          ELSE IF p = "confirm" THEN 7 ELSE IF p = "observe" THEN 9 ELSE 11]
Phase(s) == Rank[pc[s]] + (IF pc[s] \in Activities /\ act[s] # "scheduled" THEN 1 ELSE 0)
Left(s)  == Items(s) - at[s]

Nearer(s) == Phase(s)' > Phase(s) \/ (Phase(s)' = Phase(s) /\ Left(s)' < Left(s))
Rests(s)  == Phase(s)' = Phase(s) /\ Left(s)' = Left(s)
Due(s)    == Start(s) \/ Fails(s) \/ Decide(s) \/ Expire(s)

(* The next stage is a later phase.                                        *)
LEMMA PhaseEnter ==
  ASSUME TypeOK, NEW s \in Subs, NEW stage \in Stages, Enter(s, stage),
         Rank[stage] > Rank[pc[s]] + 1 \/ (pc[s] \notin Activities /\ Rank[stage] > Rank[pc[s]])
  PROVE  Phase(s)' > Phase(s)
<1>1. pc'[s] = stage /\ act'[s] = "scheduled" /\ pc[s] \in Stages
  BY DEF Enter, TypeOK
<1>2. Phase(s)' = Rank[stage]
  BY <1>1 DEF Phase, Rank, Stages
<1>3. Rank[pc[s]] \in Nat /\ Rank[stage] \in Nat
  BY <1>1 DEF Rank
<1>4. Phase(s) \in {Rank[pc[s]], Rank[pc[s]] + 1} /\ (pc[s] \notin Activities => Phase(s) = Rank[pc[s]])
  BY <1>3 DEF Phase
<1> QED
  BY <1>2, <1>3, <1>4

(* Every step of a workflow brings it nearer to its end, those that are    *)
(* due to a later phase.                                                   *)
LEMMA OwnNearer ==
  ASSUME TypeOK, TypeOK', Fed, NEW s \in Subs, Workflow(s)
  PROVE  Nearer(s) /\ (Due(s) => Phase(s)' > Phase(s))
<1>l. Items(s) \in Nat /\ at[s] \in Nat /\ pc[s] \in Stages
  BY Lengths DEF TypeOK
<1>r. /\ Rank["roster"] = 0 /\ Rank["gate"] = 2 /\ Rank["await"] = 4 /\ Rank["record"] = 5
      /\ Rank["confirm"] = 7 /\ Rank["observe"] = 9 /\ Rank["done"] = 11
  BY DEF Rank, Stages, Activities
<1>1. ASSUME Start(s) PROVE Phase(s)' > Phase(s)
  <2>1. pc' = pc /\ pc[s] \in Activities /\ act[s] = "scheduled" /\ act'[s] = "running"
    BY <1>1 DEF Start, TypeOK
  <2>2. Rank[pc[s]] \in Nat
    BY <1>l DEF Rank
  <2> QED
    BY <2>1, <2>2 DEF Phase
<1>2. ASSUME Measure(s) \/ Gate(s) \/ Record(s) \/ Ingest(s)
      PROVE  Phase(s)' = Phase(s) /\ Left(s)' < Left(s)
  <2>1. /\ UNCHANGED <<pc, act, claims>> /\ at'[s] = at[s] + 1
        /\ pc[s] = "record" => esc' = esc
    BY <1>2 DEF Measure, Gate, Record, Ingest, Running, Handled, outcome, TypeOK
  <2>2. Items(s)' = Items(s)
    BY <2>1 DEF Items
  <2>3. Phase(s)' = Phase(s)
    BY <2>1 DEF Phase
  <2> QED
    BY <1>l, <2>1, <2>2, <2>3 DEF Left
<1>3. ASSUME Fails(s) \/ Recorded(s) \/ Ingested(s) PROVE Phase(s)' > Phase(s)
  <2>1. Onward(s) /\ pc[s] \in Activities
    BY <1>3 DEF Fails, Recorded, Ingested, Running, Activities
  <2>2. PICK stage \in {"confirm", "observe", "done"} :
          /\ Enter(s, stage)
          /\ stage = "confirm" => pc[s] = "record"
          /\ pc[s] \in {"roster", "gate", "observe"} => stage = "done"
    BY <2>1, OnwardFacts
  <2>3. stage \in Stages /\ Rank[stage] > Rank[pc[s]] + 1
    BY <1>r, <2>1, <2>2 DEF Activities, Stages
  <2> QED
    BY <2>2, <2>3, PhaseEnter
<1>4. ASSUME Proposed(s) PROVE Phase(s)' > Phase(s)
  <2>1. pc[s] = "roster" /\ Enter(s, "gate")
    BY <1>4 DEF Proposed, Running
  <2> QED
    BY <1>r, <2>1, PhaseEnter DEF Stages, Activities
<1>5. ASSUME Gated(s) PROVE Phase(s)' > Phase(s)
  <2>1. pc[s] = "gate" /\ \E stage \in {"await", "observe"} : Enter(s, stage)
    BY <1>5 DEF Gated, Running
  <2> QED
    BY <1>r, <2>1, PhaseEnter DEF Stages, Activities
<1>6. ASSUME Decide(s) \/ Expire(s) PROVE Phase(s)' > Phase(s)
  <2>1. pc[s] = "await" /\ \E stage \in {"record", "observe"} : Enter(s, stage)
    BY <1>6 DEF Decide, Expire
  <2> QED
    BY <1>r, <2>1, PhaseEnter DEF Stages, Activities
<1> QED
  BY <1>1, <1>2, <1>3, <1>4, <1>5, <1>6 DEF Workflow, Nearer, Due

(* Every enrichment can only end: a workflow has finitely many phases,     *)
(* every step of its own takes it to a later one or through one of the     *)
(* items left, and nobody else's - a post, a client, a crash, another      *)
(* workflow - takes it back.  What the code's scheduling owes it, and what *)
(* FairSpec is fair to, leads to a later phase.  This is what Finishes     *)
(* rests on (AgentGraphWorkflow, agentgraph.go).                           *)
THEOREM WorkflowsRunOut ==
  Spec => /\ [](\A s \in Subs : /\ Phase(s) \in 0..11 /\ Left(s) \in Nat
                                /\ Phase(s) = 11 <=> pc[s] = "done")
          /\ [][\A s \in Subs : /\ Nearer(s) \/ Rests(s)
                                /\ Workflow(s) => Nearer(s)
                                /\ Due(s) => Phase(s)' > Phase(s)]_vars
<1>1. TypeOK /\ Fed => \A s \in Subs : /\ Phase(s) \in 0..11 /\ Left(s) \in Nat
                                       /\ Phase(s) = 11 <=> pc[s] = "done"
  <2> SUFFICES ASSUME TypeOK, Fed, NEW s \in Subs
               PROVE  /\ Phase(s) \in 0..11 /\ Left(s) \in Nat
                      /\ Phase(s) = 11 <=> pc[s] = "done"
    OBVIOUS
  <2>1. Left(s) \in Nat
    BY Lengths DEF Fed, Feeding, Left
  <2>2. pc[s] \in Stages
    BY DEF TypeOK
  <2>3. Phase(s) \in 0..11 /\ (Phase(s) = 11 <=> pc[s] = "done")
    BY <2>2 DEF Phase, Rank, Stages, Activities
  <2> QED
    BY <2>1, <2>3
<1>2. TypeOK /\ Decided /\ Fed /\ [Next]_vars
      => [\A s \in Subs : /\ Nearer(s) \/ Rests(s)
                          /\ Workflow(s) => Nearer(s)
                          /\ Due(s) => Phase(s)' > Phase(s)]_vars
  <2> SUFFICES ASSUME TypeOK, Decided, Fed, [Next]_vars, NEW s \in Subs
               PROVE  /\ Nearer(s) \/ Rests(s)
                      /\ Workflow(s) => Nearer(s)
                      /\ Due(s) => Phase(s)' > Phase(s)
    OBVIOUS
  <2>1. CASE Workflow(s)
    BY <2>1, OwnNearer, TypeStep
  <2>2. CASE ~Workflow(s)
    <3>1. Rests(s)
      BY <2>2, Untouched DEF Rests, Phase, Left, Items
    <3> QED
      BY <2>2, <3>1 DEF Due, Workflow
  <2> QED
    BY <2>1, <2>2
<1> QED
  BY <1>1, <1>2, TypeCorrect, RecordInvariant, FedAlways, PTL DEF Spec, RecordInv
----------------------------------------------------------------------------
(* An escalated item of this kind may still be decided and counted.        *)
Pending(s, k) ==
  /\ pc[s] \in {"gate", "await", "record"}
  /\ \E j \in DOMAIN esc[s] : /\ pc[s] = "record" => at[s] < j
                              /\ esc[s][j].kind = k
Stranded(k) == Mode(grad[k]) = "shadow" /\ \A s \in Subs : ~Pending(s, k)

(* Nothing of a category in shadow is escalated.                           *)
LEMMA ShadowEscalatesNothing ==
  ASSUME TypeOK, Fed, NEW k \in Kinds, Mode(grad[k]) = "shadow",
         NEW s \in Subs, Gate(s), NEW j \in DOMAIN esc'[s], esc'[s][j].kind = k
  PROVE  j \in DOMAIN esc[s] /\ esc[s][j].kind = k
<1> DEFINE h == claims[s][at[s] + 1]
           o == over[s][at[s] + 1]
           m == Mode(grad[h.kind])
           i == [kind |-> h.kind, conf |-> h.conf]
<1>1. esc'[s] = IF Escalates(h, o, m) THEN Append(esc[s], i) ELSE esc[s]
  BY DEF Gate, Disposed, TypeOK
<1>2. h \in Hypothesis /\ esc[s] \in Seq(Item)
  BY DEF Gate, TypeOK
<1>3. i \in Item
  BY <1>2 DEF Hypothesis, Item
<1>4. Escalates(h, o, m) => i.kind # k
  BY DEF Escalates
<1> HIDE DEF h, o, m, i
<1>5. CASE Escalates(h, o, m)
  <2>1. /\ DOMAIN esc'[s] = DOMAIN esc[s] \cup {Len(esc[s]) + 1}
        /\ esc'[s][Len(esc[s]) + 1] = i
        /\ \A n \in DOMAIN esc[s] : esc'[s][n] = esc[s][n]
    BY <1>1, <1>2, <1>3, <1>5
  <2> QED
    BY <1>4, <1>5, <2>1
<1>6. CASE ~Escalates(h, o, m)
  BY <1>1, <1>6
<1> QED
  BY <1>5, <1>6

(* What is pending was pending, if it is of a category in shadow.          *)
LEMMA PendingStep ==
  ASSUME TypeOK, Fed, [Next]_vars, NEW k \in Kinds, Mode(grad[k]) = "shadow",
         NEW s \in Subs, Pending(s, k)'
  PROVE  Pending(s, k)
<1>p. pc'[s] \in {"gate", "await", "record"}
  BY DEF Pending
<1>1. CASE ~Workflow(s)
  BY <1>1, Untouched DEF Pending
<1>2. CASE Start(s)
  BY <1>2 DEF Start, Pending
<1>3. CASE Measure(s) \/ Ingest(s)
  BY <1>3, <1>p DEF Measure, Ingest, Running, Handled
<1>4. CASE Fails(s) \/ Recorded(s) \/ Ingested(s)
  <2>1. Onward(s)
    BY <1>4 DEF Fails, Recorded, Ingested
  <2>2. PICK stage \in {"confirm", "observe", "done"} : Enter(s, stage)
    BY <2>1, OnwardFacts
  <2> QED
    BY <1>p, <2>2 DEF Enter, TypeOK
<1>5. CASE Proposed(s)
  <2>1. pc[s] = "roster" /\ esc' = esc /\ esc[s] = <<>>
    BY <1>5 DEF Proposed, Running, outcome, Fed, Feeding
  <2> QED
    BY <2>1 DEF Pending
<1>6. CASE Gate(s)
  <2>1. pc[s] = "gate" /\ pc' = pc
    BY <1>6 DEF Gate, Running, Handled
  <2>2. PICK j \in DOMAIN esc'[s] : esc'[s][j].kind = k
    BY DEF Pending
  <2>3. j \in DOMAIN esc[s] /\ esc[s][j].kind = k
    BY <1>6, <2>2, ShadowEscalatesNothing
  <2> QED
    BY <2>1, <2>3 DEF Pending
<1>7. CASE Gated(s)
  BY <1>7 DEF Gated, Running, outcome, Pending
<1>8. CASE Decide(s)
  BY <1>8 DEF Decide, outcome, Pending
<1>9. CASE Expire(s)
  BY <1>9, <1>p DEF Expire, Enter, TypeOK
<1>10. CASE Record(s)
  <2>1. /\ pc[s] = "record" /\ pc' = pc /\ esc' = esc
        /\ at'[s] = at[s] + 1 /\ at[s] \in Nat
    BY <1>10 DEF Record, Running, Handled, outcome, TypeOK
  <2>2. PICK j \in DOMAIN esc[s] : at[s] + 1 < j /\ esc[s][j].kind = k
    BY <2>1 DEF Pending
  <2>3. esc[s] \in Seq(Item)
    BY DEF TypeOK
  <2>4. j \in Nat
    BY <2>3
  <2>5. at[s] < j
    BY <2>1, <2>2, <2>4
  <2> QED
    BY <2>1, <2>2, <2>5 DEF Pending
<1> QED
  BY <1>1, <1>2, <1>3, <1>4, <1>5, <1>6, <1>7, <1>8, <1>9, <1>10 DEF Workflow

(* A category that fell into shadow, with nothing of it left to decide,    *)
(* stays there while the process lives, whatever is proposed and whatever  *)
(* the analysts say: what it needs to recover is what shadow withholds.    *)
(* graduation.go:18-22 says of a category that starts in shadow that it    *)
(* would be stranded with no feedback; so is one that is demoted to it     *)
(* (gate.go:199-207, graduation.go:113-135).                               *)
THEOREM ShadowStrands ==
  Spec => [][\A k \in Kinds : Stranded(k) /\ up' => Stranded(k)']_vars
<1>1. TypeOK /\ Fed /\ [Next]_vars
      => [\A k \in Kinds : Stranded(k) /\ up' => Stranded(k)']_vars
  <2> SUFFICES ASSUME TypeOK, Fed, [Next]_vars, NEW k \in Kinds, Stranded(k), up'
               PROVE  Stranded(k)'
    OBVIOUS
  <2>1. Mode(grad[k]) = "shadow" /\ \A s \in Subs : ~Pending(s, k)
    BY DEF Stranded
  <2>2. \A s \in Subs : ~Pending(s, k)'
    BY <2>1, PendingStep
  <2>3. grad'[k] = grad[k]
    <3>1. ~Crash
      BY DEF Crash
    <3>2. ASSUME NEW s \in Subs, Record(s) PROVE grad'[k] = grad[k]
      <4> DEFINE i == esc[s][at[s] + 1]
      <4>1. /\ pc[s] = "record" /\ at[s] < Len(esc[s]) /\ at[s] \in Nat
            /\ esc[s] \in Seq(Item)
            /\ grad' = [grad EXCEPT ![i.kind] = Tallied(@, decision[s])]
        BY <3>2 DEF Record, Running, TypeOK
      <4>2. at[s] + 1 \in DOMAIN esc[s] /\ at[s] < at[s] + 1
        BY <4>1
      <4>3. i.kind # k
        BY <2>1, <4>1, <4>2 DEF Pending
      <4> HIDE DEF i
      <4> QED
        BY <4>1, <4>3 DEF TypeOK
    <3> QED
      BY <3>1, <3>2, RecordChanges
  <2> QED
    BY <2>1, <2>2, <2>3 DEF Stranded
<1> QED
  BY <1>1, TypeCorrect, FedAlways, PTL DEF Spec
=============================================================================
