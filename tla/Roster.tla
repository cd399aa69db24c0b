------------------------------- MODULE Roster -------------------------------
(***************************************************************************)
(* A worker of the AI plane: RunRosterActivity, which asks agents it does  *)
(* not trust and measures what they say, and GateActivity, which validates *)
(* the proposal put together of it (contract.go), gates it (Autonomy) and  *)
(* records the interaction (Ledger).  This worker does one submission      *)
(* after the other, beside others, whose gates write to the same ledger.   *)
(*                                                                         *)
(* Every call of an agent may fail or be answered with anything of its     *)
(* type; text is "said", "long", "none", or "blank", which defangs to      *)
(* nothing.  A fact is named by the technique it is about.  Calls whose    *)
(* answers are dropped (correlator, novelty detector) are no steps.        *)
(***************************************************************************)
EXTENDS Autonomy, Ledger, FiniteSets

CONSTANTS Techniques,
          CuratedOf, IngestOf, \* those the registry holds a fact of, by its trust
          Near(_),        \* the curated ones that resemble one: parent, sketch
          NoTechnique, Junk,
          FamilyReplies, BehaviourReplies, IOCReplies, \* bound: what agents may say
          Evidences,      \* bound: techniques the findings of a submission name
          Samples,        \* configured samples of self-consistency, 1 is off
          MaxHyps, MaxIOCs, \* of a proposal
          MaxCites,       \* of each of its hypotheses
          MaxLong,        \* the long texts that fit into the bytes of a proposal
          NoveltyPct, AgreementPct,
          OtherRecords,   \* bound: what other gates write to the ledger,
          MaxOthers,      \* and how long it is when they no longer do
          MaxSubs, MaxTroubles  \* bounds: submissions; lost activities and kills

Texts == {"said", "long", "blank", "none"}
Cites == SUBSET (Techniques \cup {Junk})
Named == Techniques \cup {NoTechnique}
Behaviour == [ttp : Named, why : Texts, cites : Cites]
Family    == [name : Texts, conf : Claimed, cites : Cites]
IOC       == [at : Nat, type : Texts, seen : BOOLEAN] \* "at": its place in the reply
Handshake == [outcome : {"rejected", "gated"}, needsHuman : BOOLEAN, accepted : Nat,
              cited : SUBSET Techniques, tiers : SUBSET {"L0", "L0.5"}]

ASSUME RosterConstants ==
  /\ IsFiniteSet(Techniques)
  /\ CuratedOf \subseteq Techniques /\ IngestOf \subseteq Techniques
  /\ \A t \in Techniques : Near(t) \subseteq CuratedOf
  /\ NoTechnique \notin Techniques /\ Junk \notin Techniques
  /\ FamilyReplies \subseteq Family /\ BehaviourReplies \subseteq Seq(Behaviour)
  /\ IOCReplies \subseteq SUBSET IOC /\ Evidences \subseteq SUBSET Techniques
  /\ OtherRecords \subseteq Handshake
  /\ Samples \in 1..5
  /\ {MaxHyps, MaxIOCs, MaxCites, MaxLong, NoveltyPct, AgreementPct} \subseteq Nat
  /\ {MaxOthers, MaxSubs, MaxTroubles} \subseteq Nat

VARIABLES
  pc,        \* the next call of the roster's activity, or what follows it
  subs,      \* submissions begun
  evidence,  \* techniques the findings of the submission name
  want,      \* did the router ask for the optional agents?
  hyps,      \* hypotheses; "about" is history, what the reasoner meant
  hypTTP,    \* the technique of each, kept in a list beside them
  iocs, summary,
  samples,   \* the techniques each sample of the reasoner named
  asked,     \* samples asked for
  signals,   \* what was measured of each hypothesis
  real,      \* history: the hypotheses the verifier called real
  result,    \* what the gate made of it
  ledger,
  mine,      \* history: the places in it of what this worker wrote,
  place,     \* and of this result, 0 if that ledger is gone
  troubles

given    == <<subs, evidence, want>>
proposal == <<hyps, hypTTP, iocs, summary>>
measured == <<samples, asked, signals, real>>
book     == <<ledger, mine, place>>
vars == <<pc, given, proposal, measured, result, book, troubles>>

Calls == {"router", "family", "capability", "ioc", "report", "sample", "verify", "gate",
          "answer", "done"}
Hyp == [kind : Kinds, claim : Texts \ {"none"}, conf : Claimed, cites : Cites, about : Named]
Signals == [refuted : BOOLEAN, novel : BOOLEAN, calibrated : Claimed \cup {NoOverride},
            agreement : [hits : Nat, total : Nat]]
Result    == [outcome : {"none", "rejected", "gated"}, accepted : SUBSET Nat, escalated : SUBSET Nat]
Nothing == [outcome |-> "none", accepted |-> {}, escalated |-> {}]

TypeOK ==
  /\ pc \in Calls /\ subs \in 0..MaxSubs /\ troubles \in 0..MaxTroubles
  /\ evidence \in SUBSET Techniques /\ want \in BOOLEAN
  /\ hyps \in Seq(Hyp) /\ hypTTP \in Seq(Named)
  /\ iocs \in SUBSET IOC /\ summary \in {"said", "long", "none"}
  /\ samples \in Seq(SUBSET Techniques) /\ asked \in 0..(Samples - 1)
  /\ signals \in Seq(Signals) /\ real \in SUBSET Nat
  /\ result \in Result
  /\ \A i \in 1..Len(ledger.entries) : ledger.entries[i].body \in Handshake
  /\ mine \subseteq 1..Len(ledger.entries) /\ place \in mine \cup {0}

Emptied == /\ hyps' = <<>> /\ hypTTP' = <<>> /\ iocs' = {} /\ summary' = "none"
           /\ samples' = <<>> /\ asked' = 0 /\ signals' = <<>> /\ real' = {}

Init ==
  /\ pc = "done" /\ subs = 0 /\ evidence = {} /\ want = FALSE
  /\ hyps = <<>> /\ hypTTP = <<>> /\ iocs = {} /\ summary = "none"
  /\ samples = <<>> /\ asked = 0 /\ signals = <<>> /\ real = {}
  /\ result = Nothing /\ ledger = NewLedger /\ mine = {} /\ place = 0 /\ troubles = 0
----------------------------------------------------------------------------
(* The roster.                                                             *)

Submit(ev) ==
  /\ pc = "done" /\ subs < MaxSubs
  /\ pc' = "router" /\ subs' = subs + 1 /\ evidence' = ev /\ want' = FALSE
  /\ Emptied /\ result' = Nothing /\ place' = 0
  /\ UNCHANGED <<ledger, mine, troubles>>

(* The core agents run whatever the router says, or if it fails.           *)
Plan(optional) ==
  /\ pc = "router"
  /\ want' = optional
  /\ pc' = IF optional THEN "family" ELSE "capability"
  /\ UNCHANGED <<subs, evidence, proposal, measured, result, book, troubles>>

(* Mutation: citations are passed on as the agent wrote them.              *)
CleanNothing(cites) == cites

(* cleanCites: a citation that Validate would refuse is dropped.           *)
Clean(cites) == cites \ {Junk}

(* A call failed, or its answer did not parse: the next one is made.       *)
Skip(here, next) ==
  /\ pc = here /\ pc' = next
  /\ UNCHANGED <<given, proposal, measured, result, book, troubles>>

(* Mutation: the list of techniques is not kept beside the hypotheses.     *)
AskFamilyUnlisted(f) ==
  /\ pc = "family" /\ f.name # "none"
  /\ hyps' = Append(hyps, [kind |-> "family", claim |-> f.name, conf |-> f.conf,
                           cites |-> Clean(f.cites), about |-> NoTechnique])
  /\ pc' = "capability"
  /\ UNCHANGED <<given, hypTTP, iocs, summary, measured, result, book, troubles>>

AskFamily(f) ==
  /\ pc = "family" /\ f.name # "none"
  /\ hyps' = Append(hyps, [kind |-> "family", claim |-> f.name, conf |-> f.conf,
                           cites |-> Clean(f.cites), about |-> NoTechnique])
  /\ hypTTP' = Append(hypTTP, NoTechnique)
  /\ pc' = "capability"
  /\ UNCHANGED <<given, iocs, summary, measured, result, book, troubles>>

Told(reply) == {reply[i].ttp : i \in 1..Len(reply)} \ {NoTechnique}

(* The first sample of the reasoner: what it says why becomes a hypothesis,*)
(* in the order it is told ("at" has the places, and there is one such),   *)
(* what it only names still counts as named.                               *)
AskCapability(reply) ==
  /\ pc = "capability"
  /\ LET told == {i \in 1..Len(reply) : reply[i].why # "none"}
     IN \E at \in [1..Cardinality(told) -> told] :
          /\ \A i, j \in DOMAIN at : i < j => at[i] < at[j]
          /\ hyps' = hyps \o [i \in DOMAIN at |->
                LET b == reply[at[i]]
                IN  [kind |-> "technique", claim |-> b.why, conf |-> "LOW",
                     cites |-> Clean(b.cites), about |-> b.ttp]]
          /\ hypTTP' = hypTTP \o [i \in DOMAIN at |-> reply[at[i]].ttp]
  /\ samples' = <<Told(reply)>>
  /\ pc' = "ioc"
  /\ UNCHANGED <<given, iocs, summary, asked, signals, real, result, book, troubles>>

(* It fails: the first sample is then one that names nothing.              *)
NoCapability ==
  /\ pc = "capability" /\ pc' = "ioc"
  /\ samples' = <<{}>>
  /\ UNCHANGED <<given, proposal, asked, signals, real, result, book, troubles>>

(* groundIOCs: only what the evidence contains is kept.  No answer is one  *)
(* with none.                                                              *)
AskIOCs(reply) ==
  /\ pc = "ioc"
  /\ iocs' = {i \in reply : i.seen}
  /\ pc' = IF want THEN "report" ELSE "sample"
  /\ UNCHANGED <<given, hyps, hypTTP, summary, measured, result, book, troubles>>

AskReport(text) ==
  /\ pc = "report" /\ pc' = "sample"
  /\ summary' = text
  /\ UNCHANGED <<given, hyps, hypTTP, iocs, measured, result, book, troubles>>

(* Mutation: one sample more than configured is asked for.                 *)
ResampleOnceMore(reply) ==
  /\ pc = "sample" /\ asked < Samples
  /\ asked' = asked + 1
  /\ samples' = Append(samples, Told(reply))
  /\ UNCHANGED <<pc, given, proposal, signals, real, result, book, troubles>>

(* Self-consistency asks the reasoner again; a failed sample is no sample. *)
Resample(reply) ==
  /\ pc = "sample" /\ asked + 1 < Samples
  /\ asked' = asked + 1
  /\ samples' = Append(samples, Told(reply))
  /\ UNCHANGED <<pc, given, proposal, signals, real, result, book, troubles>>

LoseSample ==
  /\ pc = "sample" /\ asked + 1 < Samples
  /\ asked' = asked + 1
  /\ UNCHANGED <<pc, given, proposal, samples, signals, real, result, book, troubles>>

Sampled == asked + 1 = Samples /\ Skip("sample", "verify")

(* noveltyOf: the share of the evidence's techniques the registry has not  *)
(* heard of, curated or not.                                               *)
Known == CuratedOf \cup IngestOf
Novel == evidence # {} /\ 100 * Cardinality(evidence \ Known) >= NoveltyPct * Cardinality(evidence)

(* sampleAgreement, of the technique listed beside the hypothesis.         *)
Agreement(i) ==
  IF Len(samples) > 1 /\ i <= Len(hypTTP) /\ hypTTP[i] # NoTechnique
  THEN [hits |-> Cardinality({s \in 1..Len(samples) : hypTTP[i] \in samples[s]}),
        total |-> Len(samples)]
  ELSE [hits |-> 0, total |-> 0]

(* What calibration may say of a claim (Autonomy!Calibrated).              *)
MayCalibrate(conf) == {NoOverride} \cup
  IF conf = "HIGH" THEN {"MEDIUM", "LOW"} ELSE IF conf = "MEDIUM" THEN {"LOW"} ELSE {}

(* The verifier is asked about one hypothesis; no answer refutes it.       *)
AskVerifier(answer, cal) ==
  /\ pc = "verify" /\ Len(signals) < Len(hyps)
  /\ LET i == Len(signals) + 1
     IN /\ cal \in MayCalibrate(hyps[i].conf)
        /\ signals' = Append(signals, [refuted |-> answer # "real", novel |-> Novel,
                                       calibrated |-> cal, agreement |-> Agreement(i)])
        /\ real' = IF answer = "real" THEN real \cup {i} ELSE real
  /\ UNCHANGED <<pc, given, proposal, samples, asked, result, book, troubles>>

Proposed == Len(signals) = Len(hyps) /\ Skip("verify", "gate")
----------------------------------------------------------------------------
(* The gate's activity.                                                    *)

LongTexts == Cardinality({i \in 1..Len(hyps) : hyps[i].claim = "long"})
             + Cardinality({i \in iocs : i.type = "long"})
             + (IF summary = "long" THEN 1 ELSE 0)

(* A report that defangs to nothing is as good as none.  Validate refuses  *)
(* the whole proposal for its size, or for one part that is malformed, and *)
(* one that has nothing in it once it is cleaned.                          *)
Malformed == \/ LongTexts > MaxLong
             \/ Len(hyps) > MaxHyps \/ Cardinality(iocs) > MaxIOCs
             \/ \E i \in 1..Len(hyps) :
                  \/ hyps[i].claim = "blank"
                  \/ Junk \in hyps[i].cites \/ Cardinality(hyps[i].cites) > MaxCites
             \/ \E i \in iocs : i.type \in {"blank", "none"}
             \/ hyps = <<>> /\ iocs = {} /\ summary = "none"

(* What the gate is told of hypothesis i.                                  *)
Weighed(i) ==
  [kind |-> hyps[i].kind, conf |-> hyps[i].conf,
   grounded |-> hyps[i].cites \cap CuratedOf # {},
   refuted |-> signals[i].refuted, novel |-> signals[i].novel,
   shaky |-> LET a == signals[i].agreement
             IN a.hits > 0 /\ 100 * a.hits < AgreementPct * a.total]

(* retrievePriors: the tiers that had something to say on the evidence.    *)
Consulted == (IF evidence \cap Known # {} THEN {"L0"} ELSE {}) \cup
             (IF \E t \in evidence \ Known : Near(t) # {} THEN {"L0.5"} ELSE {})

(* EvaluateWithSignals on every hypothesis, under the mode of its category.*)
Answer(modes) ==
  LET mode(i) == modes[hyps[i].kind]
      I == 1..Len(hyps)
  IN  IF Malformed THEN [Nothing EXCEPT !.outcome = "rejected"]
      ELSE [outcome   |-> "gated",
            accepted  |-> {i \in I : Accepts(Weighed(i), signals[i].calibrated, mode(i))},
            escalated |-> {i \in I : Escalates(Weighed(i), signals[i].calibrated, mode(i))}]

(* Mutation: the tiers are those the retrieval names, whatever was cited.  *)
RecordAsThreaded(answer) ==
  LET cited == IF answer.outcome = "rejected" THEN {}
               ELSE UNION {hyps[i].cites \cap CuratedOf : i \in 1..Len(hyps)}
  IN [outcome |-> answer.outcome, needsHuman |-> answer.escalated # {},
      accepted |-> Cardinality(answer.accepted), cited |-> cited,
      tiers |-> IF answer.outcome = "rejected" THEN {} ELSE Consulted]

(* What is recorded: the facts that verified, whatever became of the claim.*)
Record(answer) ==
  LET cited == IF answer.outcome = "rejected" THEN {}
               ELSE UNION {hyps[i].cites \cap CuratedOf : i \in 1..Len(hyps)}
  IN [outcome |-> answer.outcome, needsHuman |-> answer.escalated # {},
      accepted |-> Cardinality(answer.accepted), cited |-> cited,
      tiers |-> IF answer.outcome = "rejected" THEN {}
                ELSE Consulted \cup (IF cited # {} THEN {"L0"} ELSE {})]

Gate(modes) ==
  /\ pc = "gate" /\ pc' = "answer"
  /\ result' = Answer(modes)
  /\ ledger' = Appended(ledger, Record(Answer(modes)))
  /\ place' = Len(ledger'.entries) /\ mine' = mine \cup {place'}
  /\ UNCHANGED <<given, proposal, measured, troubles>>

(* The workflow gets the answer.                                           *)
Receive == Skip("answer", "done")

(* The gate of another submission, at any time: no lock is held from here  *)
(* but that of Append.                                                     *)
Other(body) ==
  /\ Len(ledger.entries) < MaxOthers
  /\ ledger' = Appended(ledger, body)
  /\ UNCHANGED <<pc, given, proposal, measured, result, mine, place, troubles>>
----------------------------------------------------------------------------
(* An activity is lost, of one attempt: the workflow ends with nothing.    *)
(* The gate's may be lost when it has already written to the ledger.       *)
Lose ==
  /\ pc # "done" /\ pc' = "done"
  /\ troubles < MaxTroubles /\ troubles' = troubles + 1
  /\ result' = Nothing
  /\ UNCHANGED <<given, proposal, measured, book>>

(* The orchestrator is killed and boots: its ledger is memory, what a      *)
(* workflow has got is not.                                                *)
Die ==
  /\ troubles < MaxTroubles /\ troubles' = troubles + 1
  /\ pc' = "done" /\ ledger' = NewLedger /\ mine' = {} /\ place' = 0
  /\ result' = IF pc = "done" THEN result ELSE Nothing
  /\ UNCHANGED <<given, proposal, measured>>

Modes == [Kinds -> {"shadow", "supervised", "autonomous"}]

Next ==
  \/ \E ev \in Evidences : Submit(ev)
  \/ \E optional \in BOOLEAN : Plan(optional)
  \/ (\E f \in FamilyReplies : AskFamily(f)) \/ Skip("family", "capability")
  \/ (\E r \in BehaviourReplies : AskCapability(r)) \/ NoCapability
  \/ \E r \in IOCReplies \cup {{}} : AskIOCs(r)
  \/ (\E text \in {"said", "long", "none"} : AskReport(text))
  \/ (\E r \in BehaviourReplies : Resample(r)) \/ LoseSample \/ Sampled
  \/ \E answer \in {"real", "refuted", "none"}, cal \in Claimed \cup {NoOverride} :
        AskVerifier(answer, cal)
  \/ Proposed
  \/ (\E modes \in Modes : Gate(modes)) \/ Receive
  \/ \E body \in OtherRecords : Other(body)
  \/ Lose \/ Die

Spec == Init /\ [][Next]_vars
----------------------------------------------------------------------------
(* Nothing is accepted without a human unless, of this very hypothesis and *)
(* not of one beside it in the lists, the verifier said that it is real, a *)
(* curated fact grounds it, its artifact is no novelty, and, where samples *)
(* were taken, enough of them name the technique it is about.              *)
AcceptedMeasured ==
  \A i \in result.accepted :
    /\ i \in real
    /\ hyps[i].cites \cap CuratedOf # {}
    /\ evidence = {} \/ 100 * Cardinality(evidence \cap Known)
                           > (100 - NoveltyPct) * Cardinality(evidence)
    /\ Len(samples) > 1 /\ hyps[i].about # NoTechnique =>
         100 * Cardinality({s \in 1..Len(samples) : hyps[i].about \in samples[s]})
           >= AgreementPct * Len(samples)

(* What the agents say costs a proposal its hypotheses only for a claim    *)
(* that is blank, an indicator without a type, too many hypotheses,        *)
(* citations or indicators, or too long a proposal: a malformed citation,  *)
(* a failed call or an answer that does not parse never does.              *)
RejectedForCause ==
  result.outcome = "rejected" =>
    \/ hyps = <<>> /\ iocs = {}
    \/ \E i \in 1..Len(hyps) :
         hyps[i].claim = "blank" \/ Cardinality(hyps[i].cites \ {Junk}) > MaxCites
    \/ \E i \in iocs : i.type \in {"blank", "none"}
    \/ Len(hyps) > MaxHyps \/ Cardinality(iocs) > MaxIOCs
    \/ LongTexts > MaxLong

(* The ledger tells what happened: what the gate answered stands in it, in *)
(* the place where it was put, whatever other gates write before and after *)
(* and until the process is killed; and nothing this worker wrote names a  *)
(* fact as cited without its tier, or an acceptance without a fact.        *)
LedgerTells ==
  /\ result # Nothing =>
       \/ place = 0 /\ troubles > 0
       \/ /\ place \in mine
          /\ LET b == ledger.entries[place].body
             IN /\ b.outcome = result.outcome
                /\ b.accepted = Cardinality(result.accepted)
                /\ b.needsHuman <=> result.escalated # {}
  /\ \A i \in mine :
       LET b == ledger.entries[i].body
       IN (b.cited # {} => "L0" \in b.tiers) /\ (b.accepted > 0 => b.cited # {})

(* ledger.go:101: whatever the store of a ledger was made to hold, cut     *)
(* off, with an entry altered, or sealed anew behind an alteration, the    *)
(* check against a count and a head kept elsewhere finds it, and passes    *)
(* the ledger that it was.                                                 *)
Forged == [outcome |-> "gated", needsHuman |-> FALSE, accepted |-> 0, cited |-> {}, tiers |-> {}]

Resealed(bodies) ==
  LET built[n \in 0..Len(bodies)] ==
        IF n = 0 THEN NewLedger ELSE Appended(built[n - 1], bodies[n])
  IN  built[Len(bodies)]

Tampered ==
  LET es == ledger.entries
      n  == Len(es)
      bodies == [i \in 1..n |-> es[i].body]
      cut(k) == [ledger EXCEPT !.entries = SubSeq(es, 1, k)]
  IN  {cut(k) : k \in 0..n}
      \cup {[ledger EXCEPT !.entries[i].body = Forged] : i \in 1..n}
      \cup {Resealed([bodies EXCEPT ![i] = Forged]) : i \in 1..n}
      \cup {Resealed(SubSeq(bodies, 1, k)) : k \in 0..n}
      \cup {[Resealed([bodies EXCEPT ![i] = Forged]) EXCEPT !.last = ledger.last] : i \in 1..n}

TamperShows ==
  \A l \in Tampered : VerifyAgainst(l, Len(ledger.entries), ledger.last) <=> l = ledger
=============================================================================
