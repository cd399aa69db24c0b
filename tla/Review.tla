------------------------------ MODULE Review ------------------------------
(***************************************************************************)
(* The enrichment of finished submissions and the human in its loop:       *)
(* AgentGraphWorkflow and its activities (services/mal-orchestrator/       *)
(* agentgraph.go, hitl.go, learn.go) and the handlers of the gateway that  *)
(* read it and relay the analyst's decision (services/mal-gateway/main.go).*)
(*                                                                         *)
(* Workflows are durable and run concurrently; the track records and the   *)
(* knowledge graph are memory of the orchestrator, shared by all of them   *)
(* and lost when it dies.  An activity handles one item per step: a        *)
(* hypothesis, an escalated item, a fact.  A step is one critical section  *)
(* of the code, so that the two track records get an outcome in two steps. *)
(***************************************************************************)
EXTENDS Autonomy, Sequences, FiniteSets

CONSTANTS Subs,       \* submissions
          Base(_),    \* the deterministic verdict of each
          Facts,
          Learns(_),  \* the facts of each, in the order they are written
          Proposals,  \* bound: what the roster may propose
          Readers,    \* clients of the gateway
          MaxPosts,   \* bound: decisions posted per submission
          MaxCrashes, \* bound: times the orchestrator is killed
          NoDecision

ASSUME ReviewConstants ==
  /\ \A s \in Subs : Base(s) \in Verdicts /\ Learns(s) \in Seq(Facts)
  /\ Proposals \subseteq Seq(Hypothesis)
  /\ MaxPosts \in Nat /\ MaxCrashes \in Nat
  /\ NoDecision \notin BOOLEAN

VARIABLES
  pc,        \* where each workflow is
  act,       \* its activity: scheduled, running, or lost
  at,        \* items the activity has handled
  claims,    \* the hypotheses of the proposal
  over,      \* the calibrated confidence of each, as far as it was asked
  esc,       \* what the gate escalated
  found,     \* did the gate accept a hypothesis?
  inbox,     \* decisions signalled and not yet received
  decision,
  grad, cal, \* the track records
  owed,      \* outcomes that graduation has and calibration is about to get
  tier,      \* the knowledge graph
  up, crashes,
  reader, shown, \* the gateway: handlers in progress, and the last answer
  booked,    \* history: the outcomes the track records hold
  wrong      \* history: submissions with an accepted claim that was not true

flow    == <<pc, act, at>>
outcome == <<claims, over, esc, found>>
mail    == <<inbox, decision>>
memory  == <<grad, cal, owed, tier, booked>>
world   == <<up, crashes, wrong>>
gateway == <<reader, shown>>
vars == <<flow, outcome, mail, memory, world, gateway>>

Activities == {"roster", "gate", "record", "confirm", "observe"}
Stages == Activities \cup {"await", "done"}
Item   == [kind : Kinds, conf : Claimed]
Signal == [approved : BOOLEAN]
Tiers  == {"absent", "ingest", "curated"}
Outcome == [sub : Subs, item : Nat, kind : Kinds, approved : BOOLEAN]
Owed   == [sub : Subs, of : Item, approved : BOOLEAN]
Answer == [sub : Subs, verdict : Verdicts, flag : BOOLEAN, enriched : BOOLEAN]

TypeOK ==
  /\ pc \in [Subs -> Stages] /\ act \in [Subs -> {"scheduled", "running", "lost"}]
  /\ at \in [Subs -> Nat]
  /\ claims \in [Subs -> Seq(Hypothesis)]
  /\ over \in [Subs -> Seq(Claimed \cup {NoOverride})]
  /\ esc \in [Subs -> Seq(Item)] /\ found \in [Subs -> BOOLEAN]
  /\ inbox \in [Subs -> Seq(Signal)]
  /\ decision \in [Subs -> BOOLEAN \cup {NoDecision}]
  /\ grad \in [Kinds -> Tally] /\ cal \in [Item -> Tally] /\ owed \in SUBSET Owed
  /\ \A k \in Kinds : grad[k].right <= grad[k].total
  /\ tier \in [Facts -> Tiers]
  /\ up \in BOOLEAN /\ crashes \in 0..MaxCrashes
  /\ reader \in [Readers -> [step : {"idle", "overlay", "fetch", "describe", "query"},
                             sub : Subs]]
  /\ shown \in SUBSET Answer
  /\ booked \in SUBSET Outcome /\ wrong \in Nat

Init ==
  /\ pc = [s \in Subs |-> "roster"] /\ act = [s \in Subs |-> "scheduled"]
  /\ at = [s \in Subs |-> 0]
  /\ claims = [s \in Subs |-> <<>>] /\ over = [s \in Subs |-> <<>>]
  /\ esc = [s \in Subs |-> <<>>] /\ found = [s \in Subs |-> FALSE]
  /\ inbox = [s \in Subs |-> <<>>] /\ decision = [s \in Subs |-> NoDecision]
  /\ grad = [k \in Kinds |-> NoTally] /\ cal = [i \in Item |-> NoTally]
  /\ tier = [f \in Facts |-> "absent"]
  /\ up = TRUE /\ crashes = 0
  /\ reader \in [Readers -> {[step |-> "idle", sub |-> s] : s \in Subs}]
  /\ shown = {}
  /\ owed = {} /\ booked = {} /\ wrong = 0
----------------------------------------------------------------------------
(* The workflow and its activities, each of one attempt.                   *)

(* The workflow goes on with its next activity, if the stage has one.      *)
Enter(s, stage) ==
  /\ pc' = [pc EXCEPT ![s] = stage]
  /\ act' = [act EXCEPT ![s] = "scheduled"]
  /\ at' = [at EXCEPT ![s] = 0]

Running(s, stage) == pc[s] = stage /\ act[s] = "running" /\ up
Handled(s) == at' = [at EXCEPT ![s] = @ + 1] /\ UNCHANGED <<pc, act>>

(* The worker takes the activity up.  The roster, untrusted, proposes.     *)
Start(s) ==
  /\ up /\ pc[s] \in Activities /\ act[s] = "scheduled"
  /\ act' = [act EXCEPT ![s] = "running"]
  /\ IF pc[s] = "roster"
     THEN \E p \in Proposals : claims' = [claims EXCEPT ![s] = p]
     ELSE UNCHANGED claims
  /\ UNCHANGED <<pc, at, over, esc, found, mail, memory, world, gateway>>

Disposed(s, f, e) == /\ found' = [found EXCEPT ![s] = f]
                     /\ esc' = [esc EXCEPT ![s] = e]

(* Mutation: any decision confirms the analysis.                           *)
OnwardUnasked(s) ==
  CASE pc[s] \in {"roster", "gate", "observe"} -> Enter(s, "done")
    [] pc[s] = "record"                        -> Enter(s, "confirm")
    [] OTHER                                   -> Enter(s, "observe")

(* An activity that failed, was lost with its worker or timed out: without *)
(* a proposal or a gate the workflow ends, the other results are ignored.  *)
Onward(s) ==
  CASE pc[s] \in {"roster", "gate", "observe"} -> Enter(s, "done")
    [] pc[s] = "record" /\ decision[s] = TRUE  -> Enter(s, "confirm")
    [] OTHER                                   -> Enter(s, "observe")

(* Mutation: an outcome that could not be reported is recorded again.      *)
FailsRetrying(s) ==
  /\ up /\ pc[s] \in Activities /\ act[s] # "scheduled"
  /\ IF pc[s] = "record" THEN Enter(s, "record") ELSE Onward(s)
  /\ IF pc[s] = "gate" THEN Disposed(s, FALSE, <<>>) ELSE UNCHANGED <<found, esc>>
  /\ UNCHANGED <<claims, over, mail, memory, world, gateway>>

Fails(s) ==
  /\ up /\ pc[s] \in Activities /\ act[s] # "scheduled"
  /\ Onward(s)
  /\ IF pc[s] = "gate" THEN Disposed(s, FALSE, <<>>) ELSE UNCHANGED <<found, esc>>
  /\ UNCHANGED <<claims, over, mail, memory, world, gateway>>

(* RunRosterActivity measures the signals of one hypothesis.               *)
Measure(s) ==
  /\ Running(s, "roster") /\ at[s] < Len(claims[s])
  /\ LET h == claims[s][at[s] + 1]
     IN  over' = [over EXCEPT ![s] = Append(@,
           Calibrated(cal[[kind |-> h.kind, conf |-> h.conf]], h.conf))]
  /\ Handled(s)
  /\ UNCHANGED <<claims, esc, found, mail, memory, world, gateway>>

Proposed(s) ==
  /\ Running(s, "roster") /\ at[s] = Len(claims[s])
  /\ Enter(s, "gate")
  /\ UNCHANGED <<outcome, mail, memory, world, gateway>>

(* Mutation: a category still supervised is gated as if it were not.       *)
GateUnearned(s) ==
  /\ Running(s, "gate") /\ at[s] < Len(claims[s])
  /\ LET h == claims[s][at[s] + 1]
         o == over[s][at[s] + 1]
         m == IF Mode(grad[h.kind]) = "shadow" THEN "shadow" ELSE "autonomous"
     IN  Disposed(s, found[s] \/ Accepts(h, o, m),
           IF Escalates(h, o, m)
           THEN Append(esc[s], [kind |-> h.kind, conf |-> h.conf]) ELSE esc[s])
  /\ Handled(s)
  /\ UNCHANGED <<claims, over, mail, memory, world, gateway>>

(* GateActivity disposes of one hypothesis.                                *)
Gate(s) ==
  /\ Running(s, "gate") /\ at[s] < Len(claims[s])
  /\ LET h == claims[s][at[s] + 1]
         o == over[s][at[s] + 1]
         m == Mode(grad[h.kind])
     IN  Disposed(s, found[s] \/ Accepts(h, o, m),
           IF Escalates(h, o, m)
           THEN Append(esc[s], [kind |-> h.kind, conf |-> h.conf]) ELSE esc[s])
  /\ Handled(s)
  /\ UNCHANGED <<claims, over, mail, memory, world, gateway>>

(* All of them are disposed of, or the proposal was invalid as a whole.    *)
(* An escalation raises the review.                                        *)
Gated(s) ==
  /\ Running(s, "gate")
  /\ \/ /\ at[s] = Len(claims[s])
        /\ Enter(s, IF esc[s] # <<>> THEN "await" ELSE "observe")
        /\ wrong' \in IF found[s] THEN {wrong, wrong + 1} ELSE {wrong}
     \/ /\ at[s] = 0
        /\ Enter(s, "observe")
        /\ UNCHANGED wrong
  /\ UNCHANGED <<outcome, mail, memory, up, crashes, gateway>>

(* The first decision signalled, even before the review was raised.        *)
Decide(s) ==
  /\ up /\ pc[s] = "await" /\ inbox[s] # <<>>
  /\ decision' = [decision EXCEPT ![s] = Head(inbox[s]).approved]
  /\ inbox' = [inbox EXCEPT ![s] = Tail(@)]
  /\ Enter(s, "record")
  /\ UNCHANGED <<outcome, memory, world, gateway>>

(* Mutation: no timer; the workflow goes on only with a decision.          *)
ExpireNever(s) ==
  /\ up /\ pc[s] = "await" /\ inbox[s] # <<>>
  /\ Enter(s, "observe")
  /\ UNCHANGED <<outcome, mail, memory, world, gateway>>

(* reviewTimeout passes and nobody has answered.                           *)
Expire(s) ==
  /\ up /\ pc[s] = "await" /\ inbox[s] = <<>>
  /\ Enter(s, "observe")
  /\ UNCHANGED <<outcome, mail, memory, world, gateway>>

(* RecordOutcomeActivity: the one decision is the outcome of every item.   *)
(* Graduation gets it under its lock, and calibration then under its own.  *)
Owes(s) == \E o \in owed : o.sub = s

Record(s) ==
  /\ Running(s, "record") /\ at[s] < Len(esc[s]) /\ ~Owes(s)
  /\ LET i == esc[s][at[s] + 1]
     IN  /\ grad' = [grad EXCEPT ![i.kind] = Tallied(@, decision[s])]
         /\ owed' = owed \cup {[sub |-> s, of |-> i, approved |-> decision[s]]}
         /\ booked' = booked \cup {[sub |-> s, item |-> at[s] + 1,
                                    kind |-> i.kind, approved |-> decision[s]]}
  /\ Handled(s)
  /\ UNCHANGED <<outcome, mail, cal, tier, world, gateway>>

(* Nothing stops the code between the two but the death of the process: it *)
(* runs on when the server has given its activity up.                      *)
Calibrate(s) ==
  /\ up
  /\ \E o \in owed : /\ o.sub = s
                     /\ cal' = [cal EXCEPT ![o.of] = Tallied(@, o.approved)]
                     /\ owed' = owed \ {o}
  /\ UNCHANGED <<flow, outcome, mail, grad, tier, booked, world, gateway>>

Recorded(s) ==
  /\ Running(s, "record") /\ at[s] = Len(esc[s]) /\ ~Owes(s)
  /\ Onward(s)
  /\ UNCHANGED <<outcome, mail, memory, world, gateway>>

(* The merge of a fact into the graph: an observation never takes the      *)
(* place of what a human confirmed.                                        *)
Merged(f, t) == [tier EXCEPT ![f] = IF @ = "curated" THEN @ ELSE t]

(* IngestLearningActivity writes one fact, or skips one that does not      *)
(* store: malformed, at capacity, or the edge of a node that did not.      *)
Ingest(s) ==
  /\ Running(s, "confirm") \/ Running(s, "observe")
  /\ at[s] < Len(Learns(s))
  /\ LET f == Learns(s)[at[s] + 1]
     IN  tier' \in {tier, Merged(f, IF pc[s] = "confirm" THEN "curated" ELSE "ingest")}
  /\ Handled(s)
  /\ UNCHANGED <<outcome, mail, grad, cal, owed, booked, world, gateway>>

Ingested(s) ==
  /\ Running(s, "confirm") \/ Running(s, "observe")
  /\ at[s] = Len(Learns(s))
  /\ Onward(s)
  /\ UNCHANGED <<outcome, mail, memory, world, gateway>>
----------------------------------------------------------------------------
(* The gateway.                                                            *)

(* The verdict of the enriched result: an accepted hypothesis is a finding *)
(* of SUSPICIOUS and nothing else, joined when the gate has returned.      *)
Enriched(s) ==
  IF found[s] /\ pc[s] \notin {"roster", "gate"} THEN Join({Base(s), Suspicious})
  ELSE Base(s)

(* The workflow answers the query for its review.                          *)
Raised(s) == esc[s] # <<>> /\ pc[s] \notin {"roster", "gate"}

(* handleReviewPost: the signal is accepted while the workflow is open,    *)
(* whether or not a review is pending, or has been answered.               *)
Post(s) ==
  /\ pc[s] # "done" /\ Len(inbox[s]) < MaxPosts
  /\ \E ok \in BOOLEAN :
       inbox' = [inbox EXCEPT ![s] = Append(@, [approved |-> ok])]
  /\ UNCHANGED <<flow, outcome, decision, memory, world, gateway>>

Step(r, step) == /\ reader' = [reader EXCEPT ![r].step = step]
                 /\ UNCHANGED <<flow, outcome, mail, memory, world>>

Answers(r, v, flag, enriched) ==
  /\ Step(r, "idle")
  /\ shown' = {[sub |-> reader[r].sub, verdict |-> v, flag |-> flag,
                 enriched |-> enriched]}

At(r, step) == reader[r].step = step
On(r) == reader[r].sub

(* handleGet, one call to the workflow service after the other; each may   *)
(* fail, and a query needs the worker.                                     *)
Get(r) ==
  /\ At(r, "idle")
  /\ \E s \in Subs : reader' = [reader EXCEPT ![r] = [step |-> "overlay", sub |-> s]]
  /\ UNCHANGED <<flow, outcome, mail, memory, world, shown>>

Overlay(r) ==
  /\ At(r, "overlay")
  /\ Step(r, "describe") \/ (pc[On(r)] = "done" /\ Step(r, "fetch"))
  /\ UNCHANGED shown

Fetch(r) ==
  /\ At(r, "fetch")
  /\ \/ Answers(r, Enriched(On(r)), Raised(On(r)), TRUE)
     \/ Step(r, "describe") /\ UNCHANGED shown

(* Mutation: a review is pending whenever the workflow runs.               *)
DescribeOnly(r) ==
  /\ At(r, "describe")
  /\ \/ Answers(r, Base(On(r)), FALSE, FALSE)
     \/ pc[On(r)] # "done" /\ Answers(r, Base(On(r)), TRUE, FALSE)

Describe(r) ==
  /\ At(r, "describe")
  /\ \/ Answers(r, Base(On(r)), FALSE, FALSE)
     \/ pc[On(r)] # "done" /\ Step(r, "query") /\ UNCHANGED shown

Query(r) ==
  /\ At(r, "query")
  /\ \/ up /\ Answers(r, Base(On(r)), Raised(On(r)), FALSE)
     \/ Answers(r, Base(On(r)), FALSE, FALSE)
----------------------------------------------------------------------------
Crash ==
  /\ up /\ crashes < MaxCrashes
  /\ up' = FALSE /\ crashes' = crashes + 1
  /\ act' = [s \in Subs |-> IF act[s] = "running" THEN "lost" ELSE act[s]]
  /\ grad' = [k \in Kinds |-> NoTally] /\ cal' = [i \in Item |-> NoTally]
  /\ owed' = {} /\ tier' = [f \in Facts |-> "absent"] /\ booked' = {}
  /\ UNCHANGED <<pc, at, outcome, mail, wrong, gateway>>

Boot ==
  /\ ~up /\ up' = TRUE
  /\ UNCHANGED <<flow, outcome, mail, memory, crashes, wrong, gateway>>

Workflow(s) ==
  \/ Start(s) \/ Fails(s) \/ Measure(s) \/ Proposed(s) \/ Gate(s) \/ Gated(s)
  \/ Decide(s) \/ Expire(s) \/ Record(s) \/ Recorded(s) \/ Ingest(s) \/ Ingested(s)

Handler(r) == Get(r) \/ Overlay(r) \/ Fetch(r) \/ Describe(r) \/ Query(r)

Next == \/ \E s \in Subs : Workflow(s) \/ Calibrate(s) \/ Post(s)
        \/ \E r \in Readers : Handler(r)
        \/ Crash \/ Boot

Spec == Init /\ [][Next]_vars

(* A worker takes up what is scheduled, the server times an activity out,  *)
(* the review has its timer, and a dead orchestrator is restarted.  No     *)
(* analyst owes an answer, and no activity a result.                       *)
FairSpec ==
  /\ Spec /\ WF_vars(Boot)
  /\ \A s \in Subs : WF_vars(Start(s)) /\ WF_vars(Fails(s)) /\ WF_vars(Decide(s))
                     /\ WF_vars(Expire(s))
----------------------------------------------------------------------------
(* The poisoning guard: a fact is curated only when a human approved an    *)
(* analysis that exhibits it, whatever other analyses observe of it and in *)
(* whatever order their writes arrive.  About IngestLearningActivity,      *)
(* learn.go:8-13, and the merge of graph.go:170-178.                       *)
CuratedByHuman ==
  \A f \in Facts : tier[f] = "curated" =>
    \E s \in Subs : decision[s] = TRUE /\ \E i \in DOMAIN Learns(s) : Learns(s)[i] = f

(* What a human confirmed no later analysis takes back, while the process  *)
(* lives.                                                                  *)
CuratedStays ==
  [][\A f \in Facts : tier[f] = "curated" /\ up' => tier'[f] = "curated"]_vars

(* The track records are true: of each kind they hold the outcome of every *)
(* escalated item that was decided and recorded since the process started, *)
(* once each, whatever was retried, lost or decided twice.  About          *)
(* RecordOutcomeActivity, agentgraph.go:491-505.                           *)
Outcomes(k)  == {b \in booked : b.kind = k}
Approvals(k) == {b \in booked : b.kind = k /\ b.approved}
RecordTrue ==
  \A k \in Kinds : /\ grad[k].total = Cardinality(Outcomes(k))
                   /\ grad[k].right = Cardinality(Approvals(k))

(* Autonomy is earned: a step that accepts a hypothesis without a human    *)
(* finds enough decisions of humans on its kind, and enough approvals      *)
(* among them.  About EvaluateWithSignals, gate.go:184-272.                *)
EarnedAutonomy ==
  [][\A s \in Subs : found'[s] /\ ~found[s] =>
       \E k \in Eligible :
         /\ Cardinality(Outcomes(k)) >= MinToAutonomous
         /\ 100 * Cardinality(Approvals(k)) >= AccuracyFloor * Cardinality(Outcomes(k))]_vars

(* Agents propose, the spine disposes: what a client is shown is never     *)
(* below the deterministic verdict, above it only up to SUSPICIOUS, and    *)
(* flagged for review only if the gate did escalate, always if the result  *)
(* is enriched.  About handleGet, mal-gateway/main.go:128-212.             *)
ShownSound ==
  \A a \in shown :
    /\ a.verdict \in {Base(a.sub), Enriched(a.sub)}
    /\ a.verdict >= Base(a.sub) /\ (a.verdict > Base(a.sub) => a.verdict <= Suspicious)
    /\ a.flag => Raised(a.sub)
    /\ a.enriched => (a.flag <=> Raised(a.sub))

(* Every enrichment ends, whether or not a human ever answers.             *)
Finishes == <>(\A s \in Subs : pc[s] = "done")

(* graduation.go:24-26: "a category that starts getting things wrong       *)
(* DEMOTES automatically": with the accepted claims that proved wrong      *)
(* counted in, an autonomous category is still accurate enough.            *)
DemotesWhenWrong ==
  \A k \in Eligible :
    Mode(grad[k]) = "autonomous" =>
      ~Below([grad[k] EXCEPT !.total = @ + wrong], AccuracyFloor)
=============================================================================
