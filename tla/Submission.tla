----------------------------- MODULE Submission -----------------------------
(***************************************************************************)
(* SubmissionWorkflow (services/mal-orchestrator/workflow.go): the         *)
(* breadth-first walk of an artifact tree.  Every artifact is identified   *)
(* and scanned by jailed engines, unpacked one level, and its children     *)
(* queued, under caps on depth, artifact count, findings size and bytes    *)
(* ingested.  Every engine outcome is folded into one fail-closed result.  *)
(*                                                                         *)
(* The workflow is single-threaded: an action is the code between two      *)
(* waits.  Engine activities run concurrently with it (identification and  *)
(* the signature scan of one artifact run at the same time) and finish     *)
(* with any outcome an engine can produce.  An artifact is abstracted to   *)
(* its depth: its hash and breadcrumb decide nothing here.                 *)
(***************************************************************************)
EXTENDS Lattice, Sequences

CONSTANTS MaxDepth,             \* maxDepth: deepest level that is analysed
          MaxArtifacts,         \* maxArtifacts
          MaxFindingsBytes,     \* maxFindingsBytes, in units of finding size
          MaxSubmissionIngest,  \* maxSubmissionIngestBytes
          MaxExtraction,        \* the most one extraction can write
          MaxChildren,          \* the most children one extraction yields
          Bodies,               \* the bodies an engine report may have
          DieImage              \* is MAL_DIE_IMAGE set?

Finding == [verdict : Verdicts, conf : Confidences, size : Nat \ {0}]
Body    == [verdict : Verdicts, findings : Seq(Finding), incomplete : BOOLEAN]

ASSUME SubmissionConstants ==
  /\ MaxDepth \in Nat /\ MaxArtifacts \in Nat \ {0}
  /\ MaxFindingsBytes \in Nat /\ MaxSubmissionIngest \in Nat
  /\ MaxExtraction \in Nat /\ MaxChildren \in Nat
  /\ \A b \in Bodies : b \in Body
  /\ DieImage \in BOOLEAN

(* The engines in the order the workflow folds them.                       *)
Rank == [ident |-> 1, yara |-> 2, capa |-> 3, die |-> 4, floss |-> 5,
         detonate |-> 6, extract |-> 7]
Engines == DOMAIN Rank

(* What an identification may say of a file.  The labels are findings of an *)
(* untrusted worker, so several may be present at once.                    *)
Labels == {"executable", "pebin", "elf"}
isExecutable(k) == k # {}
isPE(k)  == "pebin" \in k
isELF(k) == "elf" \in k

(* DieActivity without an image: an empty, invisible report.               *)
NoOpBody == [verdict |-> Unknown, findings |-> <<>>, incomplete |-> FALSE]

(* The reports engine e can deliver: only identification labels a file and *)
(* only extraction yields children and writes to the vault.                *)
Report == [body : Bodies \cup {NoOpBody}, labels : SUBSET Labels,
           children : 0..MaxChildren, ingested : 0..MaxExtraction]
Reports(e) ==
  {r \in Report :
     /\ e # "ident" => r.labels = {}
     /\ e # "extract" => r.children = 0
     /\ r.children = 0 => r.ingested = 0
     /\ IF e = "die" /\ ~DieImage THEN r.body = NoOpBody ELSE r.body \in Bodies}

(* The future of an activity.  A failed extraction may have written bytes: *)
(* the attempt that timed out or died had begun to ingest.                 *)
Idle    == [st |-> "idle"]
Running == [st |-> "running"]
Failures(e) ==
  {[st |-> "failed", wrote |-> w] :
     w \in IF e = "extract" THEN 0..MaxExtraction ELSE {0}}
Outcomes(e) == Failures(e) \cup {[st |-> "ok", rep |-> r] : r \in Reports(e)}
IsFuture(e, f) == \/ f \in {Idle, Running}
                  \/ f.st = "failed" /\ f.wrote \in 0..MaxExtraction
                  \/ f.st = "ok" /\ f.rep \in Reports(e)

VARIABLES
  detonate,            \* in.Detonate: the submitter opted in
  pc,                  \* the engine whose future is awaited, or a loop stage
  queue, depth,        \* depths of the queued artifacts and of the current one
  labels,              \* what identification said of the current artifact
  processed,
  fut,                 \* fut[e]: the activity e of the current artifact
  res,                 \* the SubmissionResult
  findingsBytes, findingsCapped, depthCapped, ingestCapped,
  submissionIngested,
  child,               \* the AgentGraphWorkflow child
  \* History: what the environment really did, for the properties only.
  signal,              \* the worst verdict in any report that was folded
  discovered,          \* the root and every child an extraction reported
  unpacked,            \* artifacts whose extraction was folded successfully
  failures,            \* has a folded engine failed or been incomplete?
  omitted,             \* has a reported finding been left out of the result?
  offBudget,           \* findings appended without being charged
  vault                \* bytes extractions of this submission really wrote

control == <<detonate, pc, queue, depth, labels, processed, fut>>
budgets == <<findingsBytes, findingsCapped, depthCapped, ingestCapped,
             submissionIngested>>
history == <<signal, discovered, unpacked, failures, omitted, offBudget, vault>>
vars == <<control, budgets, history, res, child>>

Stages == Engines \cup {"loop", "score", "handoff", "done"}
Recorded == [verdict : Verdicts, conf : Confidences]
Result == [verdict : Verdicts, incomplete : BOOLEAN,
           findings : SUBSET Recorded, confidence : Confidences]

TypeOK ==
  /\ detonate \in BOOLEAN
  /\ pc \in Stages
  /\ queue \in Seq(0..MaxDepth)
  /\ depth \in 0..MaxDepth
  /\ labels \in SUBSET Labels
  /\ processed \in 0..MaxArtifacts
  /\ DOMAIN fut = Engines
  /\ \A e \in Engines : IsFuture(e, fut[e])
  /\ res \in Result
  /\ findingsBytes \in 0..MaxFindingsBytes
  /\ findingsCapped \in BOOLEAN /\ depthCapped \in BOOLEAN
  /\ ingestCapped \in BOOLEAN /\ submissionIngested \in Nat
  /\ child \in {"none", "started"}
  /\ signal \in Verdicts
  /\ failures \in BOOLEAN /\ omitted \in BOOLEAN
  /\ discovered \in Nat /\ unpacked \in Nat /\ offBudget \in Nat /\ vault \in Nat

Init ==
  /\ detonate \in BOOLEAN
  /\ pc = "loop" /\ queue = <<0>> /\ depth = 0 /\ labels = {} /\ processed = 0
  /\ fut = [e \in Engines |-> Idle]
  /\ res = [verdict |-> Unknown, incomplete |-> FALSE, findings |-> {},
            confidence |-> ConfLow]
  /\ findingsBytes = 0 /\ submissionIngested = 0
  /\ findingsCapped = FALSE /\ depthCapped = FALSE /\ ingestCapped = FALSE
  /\ child = "none"
  /\ signal = Unknown /\ discovered = 1 /\ unpacked = 0
  /\ failures = FALSE /\ omitted = FALSE /\ offBudget = 0 /\ vault = 0
----------------------------------------------------------------------------
(* Results.                                                                *)

Marker == [verdict |-> Suspicious, conf |-> ConfLow]

(* Mutation: the floor is assigned instead of joined.                      *)
FlooredByAssignment(r) == [r EXCEPT !.verdict    = Suspicious,
                                    !.incomplete = TRUE,
                                    !.findings   = @ \cup {Marker}]

(* Mutation: the floor forgets to say the result is incomplete.            *)
FlooredSilently(r) == [r EXCEPT !.verdict  = Join({@, Suspicious}),
                                !.findings = @ \cup {Marker}]

(* An error or cap finding: incomplete, SUSPICIOUS, and said so.           *)
Floored(r) == [r EXCEPT !.verdict    = Join({@, Suspicious}),
                        !.incomplete = TRUE,
                        !.findings   = @ \cup {Marker}]

(* Every verdict a report carries: its rollup and each of its findings.    *)
Signals(b) == {b.verdict} \cup {b.findings[i].verdict : i \in DOMAIN b.findings}

(* The byte budget over the loop on a report's findings: a finding that    *)
(* would exceed it is skipped, a later smaller one may still fit.          *)
Fits(spent, b, i) == spent[i - 1] + b.findings[i].size <= MaxFindingsBytes
Charged(spent, b) ==
  /\ spent[0] = findingsBytes
  /\ \A i \in DOMAIN b.findings :
       spent[i] = spent[i - 1] + (IF Fits(spent, b, i) THEN b.findings[i].size
                                                       ELSE 0)
Kept(spent, b) == {i \in DOMAIN b.findings : Fits(spent, b, i)}

(* Mutation: the severity of a finding is joined only if it is kept.       *)
JoinedIfKept(r, b, kept) ==
  LET ks == {[verdict |-> b.findings[i].verdict,
              conf |-> b.findings[i].conf] : i \in kept}
  IN  [r EXCEPT !.verdict  = Join({@, b.verdict} \cup {f.verdict : f \in ks}),
                !.findings = @ \cup ks]

(* The severity of every finding is joined, kept or not.                   *)
Joined(r, b, kept) ==
  [r EXCEPT !.verdict    = Join({@} \cup Signals(b)),
            !.findings   = @ \cup {[verdict |-> b.findings[i].verdict,
                                    conf |-> b.findings[i].conf] : i \in kept}]

(* fold on a report: the findings-cap marker is emitted once.              *)
Folded(r, b, kept) ==
  LET j == Joined(r, b, kept)
      c == IF kept # DOMAIN b.findings /\ ~findingsCapped THEN Floored(j) ELSE j
  IN  IF b.incomplete THEN [c EXCEPT !.verdict = Join({@, Suspicious}),
                                     !.incomplete = TRUE]
                      ELSE c

(* ScoreFindings, its confidence half: the best confidence among findings  *)
(* that matter.                                                            *)
Confidence(fs) ==
  Join({ConfLow} \cup {f.conf : f \in {g \in fs : g.verdict >= Suspicious}})
----------------------------------------------------------------------------
(* Mutation: extraction is still dispatched after the ingest cap tripped.  *)
WantedAfterCap == {"ident", "yara", "extract"}
     \cup (IF isExecutable(labels) THEN {"capa", "die"} ELSE {})
     \cup (IF isPE(labels) THEN {"floss"} ELSE {})
     \cup (IF detonate /\ depth = 0 /\ isELF(labels) THEN {"detonate"} ELSE {})

(* The engines run on the current artifact, and the next of them after e.  *)
Wanted == {"ident", "yara"}
     \cup (IF isExecutable(labels) THEN {"capa", "die"} ELSE {})
     \cup (IF isPE(labels) THEN {"floss"} ELSE {})
     \cup (IF detonate /\ depth = 0 /\ isELF(labels) THEN {"detonate"} ELSE {})
     \cup (IF ingestCapped THEN {} ELSE {"extract"})

After(e) == {w \in Wanted : Rank[w] > Rank[e]}

(* Mutation: the next future is awaited without having been started.       *)
AdvanceUndispatched(e) ==
  /\ fut' = [fut EXCEPT ![e] = Idle]
  /\ \/ /\ After(e) = {}
        /\ pc' = "loop"
     \/ \E n \in After(e) : /\ \A w \in After(e) : Rank[n] <= Rank[w]
                            /\ pc' = n

(* Start the next engine, unless it already runs; or go round the loop.    *)
Advance(e) ==
  \/ /\ After(e) = {}
     /\ pc' = "loop"
     /\ fut' = [fut EXCEPT ![e] = Idle]
  \/ \E n \in After(e) :
       /\ \A w \in After(e) : Rank[n] <= Rank[w]
       /\ pc' = n
       /\ fut' = [fut EXCEPT ![e] = Idle,
                             ![n] = IF @.st = "idle" THEN Running ELSE @]

(* for len(queue) > 0: take the head, record a child's hash, dispatch the  *)
(* identification and the scan together.                                   *)
Pop ==
  /\ pc = "loop" /\ queue # <<>> /\ processed < MaxArtifacts
  /\ depth' = Head(queue)
  /\ queue' = Tail(queue)
  /\ processed' = processed + 1
  /\ IF depth' > 0
     THEN /\ res' = [res EXCEPT !.findings =
                       @ \cup {[verdict |-> Unknown, conf |-> ConfLow]}]
          /\ offBudget' = offBudget + 1
     ELSE UNCHANGED <<res, offBudget>>
  /\ labels' = {}
  /\ pc' = "ident"
  /\ fut' = [fut EXCEPT !["ident"] = Running, !["yara"] = Running]
  /\ UNCHANGED <<detonate, budgets, child, signal, discovered, unpacked,
                 failures, omitted, vault>>

(* Mutation: the walk stops at the cap without reporting the truncation.   *)
ArtifactCapSilent ==
  /\ pc = "loop" /\ queue # <<>> /\ processed >= MaxArtifacts
  /\ pc' = "score"
  /\ UNCHANGED <<detonate, queue, depth, labels, processed, fut, budgets, child,
                 history, res>>

(* processed >= maxArtifacts with work left: report the truncation, stop.  *)
ArtifactCap ==
  /\ pc = "loop" /\ queue # <<>> /\ processed >= MaxArtifacts
  /\ res' = Floored(res)
  /\ offBudget' = offBudget + 1
  /\ pc' = "score"
  /\ UNCHANGED <<detonate, queue, depth, labels, processed, fut, budgets, child,
                 signal, discovered, unpacked, failures, omitted, vault>>

Drained ==
  /\ pc = "loop" /\ queue = <<>>
  /\ pc' = "score"
  /\ UNCHANGED <<detonate, queue, depth, labels, processed, fut, budgets, child,
                 history, res>>

(* An activity finishes: a validated report, or every attempt failed.      *)
Complete(e) ==
  /\ fut[e].st = "running"
  /\ \E o \in Outcomes(e) :
       /\ fut' = [fut EXCEPT ![e] = o]
       /\ vault' = vault + (IF o.st = "failed" THEN o.wrote
                                                ELSE o.rep.ingested)
  /\ UNCHANGED <<detonate, pc, queue, depth, labels, processed, budgets, child,
                 res, signal, discovered, unpacked, failures, omitted, offBudget>>

(* Mutation: one error finding for each of the three attempts.             *)
FoldFailedPerAttempt(e) ==
  /\ pc = e /\ fut[e].st = "failed"
  /\ res' = Floored(res)
  /\ failures' = TRUE
  /\ offBudget' = offBudget + 3
  /\ Advance(e)
  /\ UNCHANGED <<detonate, queue, depth, labels, processed, budgets, child,
                 signal, discovered, unpacked, omitted, vault>>

(* fold on an error: floored, recorded, and the walk goes on.              *)
FoldFailed(e) ==
  /\ pc = e /\ fut[e].st = "failed"
  /\ res' = Floored(res)
  /\ failures' = TRUE
  /\ offBudget' = offBudget + 1
  /\ Advance(e)
  /\ UNCHANGED <<detonate, queue, depth, labels, processed, budgets, child,
                 signal, discovered, unpacked, omitted, vault>>

(* What folding report body b does to everything but the result.           *)
FoldBody(b, spent) ==
  LET leftOut == Kept(spent, b) # DOMAIN b.findings
  IN  /\ findingsBytes' = spent[Len(b.findings)]
      /\ findingsCapped' = (findingsCapped \/ leftOut)
      /\ signal' = Join({signal} \cup Signals(b))
      /\ failures' = (failures \/ b.incomplete)
      /\ omitted' = (omitted \/ leftOut)

MarkerOnce(b, spent) ==
  IF Kept(spent, b) # DOMAIN b.findings /\ ~findingsCapped THEN 1 ELSE 0

FoldReport(e) ==
  /\ pc = e /\ e # "extract" /\ fut[e].st = "ok"
  /\ LET b == fut[e].rep.body
     IN  \E spent \in [0..Len(b.findings) -> 0..MaxFindingsBytes] :
           /\ Charged(spent, b)
           /\ FoldBody(b, spent)
           /\ res' = Folded(res, b, Kept(spent, b))
           /\ offBudget' = offBudget + MarkerOnce(b, spent)
  /\ labels' = IF e = "ident" THEN fut[e].rep.labels ELSE labels
  /\ Advance(e)
  /\ UNCHANGED <<detonate, queue, depth, processed, depthCapped, ingestCapped,
                 submissionIngested, child, discovered, unpacked, vault>>

(* The extraction's report: charge the bytes it ingested, then either halt *)
(* extraction for the whole submission, or queue the children, or report   *)
(* that they lie beyond the depth cap.                                     *)
FoldExtract ==
  /\ pc = "extract" /\ fut["extract"].st = "ok"
  /\ LET rep == fut["extract"].rep
         b == rep.body
         total == submissionIngested + rep.ingested
         over == total > MaxSubmissionIngest
         tooDeep == ~over /\ rep.children > 0 /\ depth + 1 > MaxDepth
     IN  \E spent \in [0..Len(b.findings) -> 0..MaxFindingsBytes] :
           LET folded == Folded(res, b, Kept(spent, b))
               mark == over \/ (tooDeep /\ ~depthCapped)
           IN  /\ Charged(spent, b)
               /\ FoldBody(b, spent)
               /\ res' = IF mark THEN Floored(folded) ELSE folded
               /\ offBudget' = offBudget + MarkerOnce(b, spent)
                                 + (IF mark THEN 1 ELSE 0)
               /\ submissionIngested' = total
               /\ ingestCapped' = over
               /\ depthCapped' = (depthCapped \/ tooDeep)
               /\ queue' = IF over \/ tooDeep THEN queue
                           ELSE queue \o [i \in 1..rep.children |-> depth + 1]
               /\ discovered' = discovered + rep.children
               /\ unpacked' = unpacked + 1
  /\ Advance("extract")
  /\ UNCHANGED <<detonate, depth, labels, processed, child, vault>>

(* Mutation: low confidence lowers the severity.                           *)
ScoreLowers ==
  /\ pc = "score"
  /\ res' = [res EXCEPT !.confidence = Confidence(res.findings),
                        !.verdict = IF Confidence(res.findings) = ConfLow
                                    THEN Unknown ELSE @]
  /\ pc' = "handoff"
  /\ UNCHANGED <<detonate, queue, depth, labels, processed, fut, budgets, child,
                 history>>

(* The triage axis; the severity verdict is untouched.                     *)
Score ==
  /\ pc = "score"
  /\ res' = [res EXCEPT !.confidence = Confidence(res.findings)]
  /\ pc' = "handoff"
  /\ UNCHANGED <<detonate, queue, depth, labels, processed, fut, budgets, child,
                 history>>

(* Start the abandoned enrichment child when the plane is wired.  A start  *)
(* that fails is ignored, so its result is the same as a plane not wired.  *)
HandOff ==
  /\ pc = "handoff"
  /\ child' \in {"none", "started"}
  /\ pc' = "done"
  /\ UNCHANGED <<detonate, queue, depth, labels, processed, fut, budgets,
                 history, res>>

Next == \/ Pop \/ ArtifactCap \/ Drained \/ FoldExtract \/ Score \/ HandOff
        \/ \E e \in Engines : Complete(e) \/ FoldFailed(e) \/ FoldReport(e)

Spec == Init /\ [][Next]_vars

(* Every activity has a start-to-close timeout and a bounded number of     *)
(* attempts, and the Temporal worker keeps running workflow tasks.         *)
FairSpec == Spec /\ WF_vars(Next)
----------------------------------------------------------------------------
(* Nothing is hidden and nothing is invented: at every point the verdict   *)
(* is exactly the worst verdict of any report folded so far (a finding     *)
(* dropped by the size cap counts too), floored to SUSPICIOUS when the     *)
(* result is incomplete, and never BENIGN.  About fold, workflow.go:91-148.*)
VerdictExact == res.verdict = Floor(signal, res.incomplete)

(* A delivered result is complete only if every artifact that any          *)
(* extraction revealed was analysed and unpacked, every engine run on it   *)
(* succeeded in full, and no finding was left out; and it is incomplete    *)
(* only for one of those reasons.  About the four caps and the error path  *)
(* of SubmissionWorkflow.                                                  *)
GapsDisclosed ==
  pc = "done" =>
    (res.incomplete <=> \/ processed < discovered
                        \/ unpacked < processed
                        \/ failures
                        \/ omitted)

(* The children of every archive are accounted for: queued, analysed, or   *)
(* given up with the result marked incomplete.  About the queue of         *)
(* SubmissionWorkflow.                                                     *)
NoSilentDrop ==
  \/ res.incomplete
  \/ discovered = processed + Len(queue)

(* However many findings the engines report, what is appended outside the  *)
(* size budget is bounded by the work done: per artifact a hash and at     *)
(* most six failed engines, and one marker per cap.  About the findings    *)
(* fold and SubmissionWorkflow append without charging.                    *)
OffBudgetBounded == offBudget <= 7 * processed + 4

(* The counted ingest of a submission exceeds the budget by at most the    *)
(* one extraction that tripped it: workflow.go:247-257.                    *)
CountedIngestBounded == submissionIngested <= MaxSubmissionIngest + MaxExtraction

(* A verdict never goes down, an incomplete result never becomes complete, *)
(* a recorded finding is never lost, and from the moment the enrichment    *)
(* child may see the result nothing changes.                               *)
OnlyUp == [][/\ res'.verdict >= res.verdict
             /\ res.incomplete => res'.incomplete
             /\ res.findings \subseteq res'.findings
             /\ pc \in {"handoff", "done"} => UNCHANGED res]_vars

(* Every submission gets an answer, even one whose every artifact contains *)
(* itself: the walk ends.                                                  *)
Terminates == <>(pc = "done")

(* "bounds total vault writes to about the budget plus the single          *)
(* in-flight extraction that tripped the cap" (workflow.go:252).           *)
VaultWritesBounded == vault <= MaxSubmissionIngest + MaxExtraction

(* The workflow implements the abstract promise.                           *)
Promise == INSTANCE Rollup WITH incomplete <- res.incomplete,
                                verdict <- res.verdict,
                                delivered <- (pc = "done")
ImplementsRollup == Promise!Spec
----------------------------------------------------------------------------
(* The inductive strengthening behind GapsDisclosed, NoSilentDrop and      *)
(* CountedIngestBounded: each cap that tripped has been disclosed, and     *)
(* what is missing from the counts says why the result is incomplete.      *)
Walking == pc \in Engines \cup {"loop"}
InHand  == IF pc \in Engines THEN 1 ELSE 0

Disclosed ==
  /\ omitted = findingsCapped
  /\ findingsCapped => res.incomplete
  /\ depthCapped => res.incomplete
  /\ ingestCapped => res.incomplete
  /\ failures => res.incomplete
  /\ ~Walking /\ queue # <<>> => res.incomplete

Counted ==
  /\ discovered >= processed + Len(queue)
  /\ unpacked + InHand <= processed
  /\ ~res.incomplete => /\ discovered = processed + Len(queue)
                        /\ unpacked + InHand = processed
  /\ res.incomplete => \/ failures
                       \/ omitted
                       \/ discovered > processed + Len(queue)
                       \/ ~Walking /\ queue # <<>>

Ingested ==
  /\ pc = "extract" => ~ingestCapped
  /\ ~ingestCapped => submissionIngested <= MaxSubmissionIngest
  /\ submissionIngested <= MaxSubmissionIngest + MaxExtraction

IInv == TypeOK /\ VerdictExact /\ Disclosed /\ Counted /\ Ingested
============================================================================
