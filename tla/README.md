# A TLA+ model of OpenMalLab

OpenMalLab analyses files that may be hostile. A gateway stores an upload under
its hash and starts a durable workflow; the workflow walks the file and
everything that can be unpacked from it, runs engines on each artifact in
single-use jails, and folds what they report into one verdict that must never be
too mild. Afterwards an untrusted roster of AI agents may propose hypotheses,
which a gate accepts, escalates to a human or drops.

This directory holds TLA+ modules translated from that code, TLC configurations
that check them on small instances, and TLAPS proofs of the main properties for
every value of the constants. Paths below are relative to the repository;
`orchestrator/` stands for `services/mal-orchestrator/`.

To check: `tlc -config <cfg> <module>`, `tlapm <module>_proofs.tla`.
`PROJECT.json` maps every definition to the lines it stands for.

## 1. The system

| Component | State | Operations | What makes it correct |
|---|---|---|---|
| Verdict lattice, `internal/pipeline/types.go` | none | `Max`, `ParseVerdict`, `ConfidenceFor`, `ScoreFindings` | ordered, fail-closed: an unknown word is SUSPICIOUS |
| Submission workflow, `orchestrator/workflow.go` | queue, result, four budgets; durable | pop, fold an engine's report, queue children, score, hand off | the verdict is the worst signal; every gap is disclosed; budgets hold; it ends |
| Engine activities, `orchestrator/activity.go` | staging directories, the vault | run worker and broker, ingest children, sweep at boot | a verdict only of what was captured and validated; the vault is keyed by content |
| Jail runner, `orchestrator/jail.go` | containers | create, attach, start, wait, kill, remove, reap | no jail outlives its attempt |
| Broker, `services/mal-broker` | none | validate one document | nothing invalid passes |
| Gateway, `services/mal-gateway` | temporary files in the vault | submit, get, queue, review (get, post) | what is started exists; what is shown is honest |
| Agent graph, `orchestrator/agentgraph.go`, `hitl.go`, `learn.go` | workflow of its own; durable | roster, gate, await a human, record, ingest | agents propose and never dispose; it ends |
| Gate and track records, `internal/aiplane/` | counts per category; memory | `EvaluateWithSignals`, `Record`, `Mode`, `Calibrated` | autonomy is earned; signals only stop |
| Knowledge, `internal/knowledge/` | registry (L0), graph (L1), indexes; memory or bolt | curate, ingest, link, look up, walk, verify a citation | observation never replaces what was curated |
| Ledger, `internal/aiplane/ledger.go` | a hash chain | append, verify | tampering shows |
| Engines, roster service, console, export | none that the control plane trusts | | |

How they meet: the gateway and the orchestrator share the vault directory and
the workflow service (start, result, describe, query, signal). The orchestrator
runs workflows (deterministic, single-threaded, replayed after a crash) and
activities (up to four at a time, ordinary processes' code that dies with the
orchestrator). A submission starts its enrichment as a child that outlives it.
All enrichments share the track records and the graph, in the memory of the one
orchestrator process (`deploy/compose.yaml` runs one, `restart: unless-stopped`).

What is hard in this code: caps that cut an analysis short at any point of the
walk; attempts that time out for the server and go on running; an orchestrator
that dies between two steps of an ingest or with jails running; a vault written
by several processes with no lock but `rename`; decisions of humans that arrive
early, late or never; shared counts read by one workflow while others write them;
answers the gateway puts together of several reads; stores of knowledge that writers
fill while others walk them, that are killed between two merges, and whose capacity
must bound what is observed without keeping out what is curated; answers of agents
that are measured in lists beside each other. `PROJECT.json` lists these
hazards with their lines and the properties for them.

## 2. The modules

| Module | Models | Proved in |
|---|---|---|
| `Lattice` | `types.go`: verdicts, `Max`, `ParseVerdict` | `Lattice_proofs` (lemmas) |
| `Rollup` | the abstract promise of a submission | |
| `Submission`, `MCSubmission` | `SubmissionWorkflow`, refines `Rollup` | `Submission_proofs` |
| `Vault`, `MCVault` | upload, ingest of children, sweeps | `Vault_proofs` |
| `Future` | an activity as Temporal promises it: resolved once | in `Submission_proofs` |
| `EngineRun` | the attempts of one engine activity | `EngineRun_proofs` |
| `Autonomy` | gate policy, graduation, calibration | |
| `Review`, `MCReview` | `AgentGraphWorkflow`, the human, the gateway's reads | `Review_proofs` |
| `Tiers` | the abstract promise of a store of knowledge: tiers only rise | |
| `KnowledgeGraph`, `MCKnowledgeGraph` | `graph.go`, `persist_graph.go`: writers, capacities, the walk; refines `Tiers` twice | `KnowledgeGraph_proofs` |
| `Registry`, `MCRegistry` | `registry.go`, `persist.go`, `seed.go`, the index of leads; refines `Tiers` | `Registry_proofs` |
| `Ledger` | `ledger.go`: the hash chain | in `Roster_proofs` |
| `Roster`, `MCRoster` | `RunRosterActivity`, `GateActivity`, `contract.go`; uses `Autonomy` and `Ledger` | `Roster_proofs` |

`Submission` takes an engine as a future that completes with any report or
fails, once, which is what Temporal promises of an activity; the `Answered` of
`EngineRun` is what the fairness of `Submission` rests on. `Submission` takes the
children of an extraction as a number and the bytes they took; what those bytes
are, and that a mount of a child resolves, is `Vault`. `Review` takes the result
of a submission as its constant `Base`: `Submission` proves that it no longer
changes after the hand-off. `Review` takes the proposals and their signals as any;
`Roster` shows how they come about, and takes the modes of the categories as any.
`Registry` and `KnowledgeGraph` promise the same (`Tiers`), which is what both
`Review` (a fact never falls) and `Roster` (a citation of a curated fact) rely on.

### Submission

An action is the code between two waits of the workflow. `Pop` takes the next
artifact from the queue, starts its engines and checks the artifact cap
(`ArtifactCap`, `Drained`); `Complete` is an engine finishing, with any report or
with an error after its last attempt; `FoldFailed`, `FoldReport` and
`FoldExtract` are `fold` followed by the engine's own code, in the order of the
source (`Rank`); `Score` is `ScoreFindings`; `HandOff` starts the child. An
artifact is abstracted to its depth. A finding is its verdict, its confidence and
its size, because nothing else is decided on; findings are counted in units of
size.

### Vault

Uploads and extraction attempts are processes; each step is one system call or
the code up to the next. A blob is its own name: hashing is the identity on
blobs, so an entry is named truthfully when it holds what it is named by. The
extractor's staging directory is not trusted: what a file holds is chosen when it
is read, and may differ from its claimed name. A crash loses the processes of one
program; the disk stays. `os.Remove` and `ContainerRemove` are assumed to succeed,
since their errors are ignored by the code.

### EngineRun

Each attempt runs `runJailed` for the worker, then for the broker. The server's
side (`Dispatch`, `Timeout`, `Respond`, `Retry`) is Temporal's, modelled from how
the code configures it and marked external. A timed-out attempt is not stopped
and may answer later. Of a worker's output only what is captured is modelled: one document,
no such thing, or the first MiB of more. Whether the worker had more to say when the
ten-second drain ran out is known to nobody, so no property claims a whole output (see
below). The broker is taken to be given all that was captured: the error of the write to
its standard input is dropped (`jail.go:241`). `Crash` kills every attempt in progress
and leaves its containers; `Boot` reaps them.

### Autonomy and Review

`Autonomy` holds the pure part: `Accepts` and `Escalates` are the two outcomes of
`EvaluateWithSignals` (all else is dropped), `Mode` and `Calibrated` decide over
exact counts. The code divides two integers as floats and compares with a
constant; a correctly rounded quotient of counts compares with a decimal constant
such as 0.90 as the exact fraction does, so percentages of integers are faithful.

In `Review` a workflow is at a stage (`roster`, `gate`, `await`, `record`,
`confirm`, `observe`, `done`), its activity is scheduled, running or lost, and `at`
counts the items it has handled: each hypothesis, escalated item or fact is one
step, so everything shared may change between two items. Every activity has one
attempt (`MaximumAttempts: 1`), so a lost or failed one ends in `Fails`; `Onward` is
what the workflow does next in either case. The roster is untrusted: `Start`
chooses any of `Proposals`, with any signals. `Decide` and `Expire` are the selector: a
signal that is already there wins over the timer. `Post` is the gateway's
`handleReviewPost`; `Get`, `Overlay`, `Fetch`, `Describe` and `Query` are the calls
`handleGet` makes one after the other, each of which may fail. A crash empties the
track records and the graph and loses running activities, while workflows, signals
and timers are durable.

`Record` and `Calibrate` are the two counts of one outcome, each under its own lock:
between them the outcome is `owed`, another workflow may count, measure or gate, and a
crash may lose it; an activity the server has given up still calibrates what it recorded.

Abstractions: a fact is a node or an edge whose ends are left to `KnowledgeGraph`; that
the loop over the facts or the outcomes, of microseconds, takes up further items after
its activity was given up is neglected; whether a citation resolves to a curated fact is
part of the proposal. `booked` and `wrong` are history variables.

### KnowledgeGraph

A step is one critical section of a store: `MergeNode`, `MergeEdge` or `OutEdges`. A
link is three merges of a writer (`PutFrom`, `PutTo`, `PutEdge`), a walk one `OutEdges`
after the other (`Expand`, `Horizon`), so that anything may come between. `durable`
chooses the store at the start: memory, which a kill empties, or the file, whose
rows `Reopen` counts, and whose transactions may fail (`CommitFails`) and whose rows may go bad (`Rot`): a bad row
is skipped by a reader, refused to a writer and counted by everyone. That an index entry
outlives its edge row is not modelled: the two are written in one transaction and never removed. The file is
ready and tested, and the orchestrator does not open it yet. `Related` walks
twice, over all edges and over curated ones, each pass with its own budget; the
order of a node's edges is that of hashes, and is left open. `before` remembers
the edges when the walk began. `Truncated` speaks of bounds only: what a bad row hides is
missing from an answer without a mark, as `TestBoltGraphCorruptRowsFailClosed` has it, and
`CutHonest` promises what the rows that decode lead to. Labels, attributes and sources are
left out; so is `Truncated` of the second pass, which the code drops.

### Registry and Ledger

A step of `Registry` is a merge, or the insertion into the index of leads, which
follows a merge of a curated fact outside its lock (`Curate`, then `Reference`).
A key stands for its kind and normal form and is its own id. A row is its tier,
the source that stands for its content, and its state on disk: a damaged row does
not decode, a mislabelled one decodes to the fact of another key. `Seed` curates
the bundled corpus fact by fact before anyone is served; `Reboot` keeps a file's
rows, loses the index and seeds anew. `vouched`, `granted` and `failed` are history.
A sketch may be shared by keys, and then the last one curated is what it leads to.
`Ledger` is a module of operators, with the hash as a parameter.

### Roster

`RunRosterActivity` is one call of an agent after the other (`pc`), each of which may
fail (`Skip`, `NoCapability`, `LoseSample`) or be answered with anything of its type.
Text is "said", "long", "none" or "blank", which defangs to nothing, and the size of a
proposal is the number of its long texts; a fact is named by the technique it is about. The hypotheses and their techniques are two lists, as in the
code, and `about` remembers which was meant. `Gate` is `GateActivity`: `Malformed` is
`Validate`, `Weighed` and `Answer` are what the gate is told and says, under any modes,
and `Record` is the entry of the ledger. The worker runs four activities at a time
(`main.go:174`) and their gates share the ledger, so `Other` appends anything at any
time, in particular between `Gate` and `Receive`, the workflow's receipt of the answer;
`place` and `mine` remember which entries are this worker's. What the registry holds
does not change while a submission is processed. Calls whose answers are dropped are left out.

## 3. Runs

| Run | Configuration | Shows |
|---|---|---|
| `signals` | 2 artifacts, bodies that differ in every way `fold` tells apart, size budget 3 | `VerdictExact`, `OnlyUp`, `ImplementsRollup` |
| `walk` | 3 artifacts, depth up to 2, every cap within reach | `GapsDisclosed`, `NoSilentDrop`, `OffBudgetBounded`, `CountedIngestBounded`, `Terminates` |
| `vault_races` | 2 uploads, 2 attempts, 2 blobs, 2 kills of either or both programs | `VaultKeyed`, `MountsResolve`, `TempsIntact`, `IngestBounded`, `DebrisSwept` |
| `engine_run` | 3 attempts, 1 kill, a known and an unknown word | `VerdictEarned`, `JailsOwned`, `Answered` |
| `review_loop` | 2 submissions that share a fact, 1 decision each, 1 kill | `CuratedByHuman`, `RecordTrue`, `EarnedAutonomy`, `Finishes` |
| `review_reads` | 2 submissions, 1 client, no kill | `ShownSound` |
| `knowledge_graph` | 4 nodes, a chain and a shortcut, 2 writers, 3 writes, 1 failed commit, kill or bad row | `EdgeEnds`, `IngestBounded`, `WalkSound`, `CutHonest`, `CuratedShown`, `OnlyRise`, `NeverStarved` |
| `registry` | a corpus of 2, 2 keys besides, 2 clients, 3 writes, 2 failures or boots | `CuratedVouched`, `CitationsSound`, `CountExact`, `LeadsCurated`, `SeedsGround`, `OnlyRise` |
| `roster` | 3 techniques of which one is known, 3 samples, 1 submission, 2 entries of other gates, 1 failure | `TypeOK`, `AcceptedMeasured`, `RejectedForCause`, `LedgerTells`, `TamperShows` |

What the knowledge and roster runs say in words. An edge never dangles, and a curated
link is never kept out by what was observed, however the three merges of it are
interleaved with others, the capacity, failed commits and kills. An answer of the
walk names no path that is not there; it either holds all that could be reached when
it began, as far as the rows decode, or says that it is cut, and then something is missing;
and a curated attribution is shown as one. A citation that grounded a verdict cited its own key,
which somebody vouched for, and every boot leaves the corpus able to ground claims.
An acceptance without a human rests on the verifier's answer, the grounding, the
novelty and the samples of that very hypothesis; a proposal is rejected for what
it holds and never for a call that failed; and the ledger tells what the gate
answered, in the place where it was put, and shows every cut, edit and resealing to whoever has kept the count and the head.

Three more runs look for a counterexample to something the repository says of
itself, and find it; each is a finding in `PROJECT.json`:

- `vault_writes`: total vault writes are about the budget and one extraction
  (`workflow.go:252`). An extraction that fails after writing is not charged: these writes
  `CountedIngestBounded` of `walk` does not see, which bounds the charged bytes only.
- `review_demotes`: a category that starts getting things wrong demotes
  (`graduation.go:24`). Accepted claims are never recorded.
- `graph_evicts`: an observed shortcut can never evict a curated attribution
  (`graph.go:266`). The nodes of an answer are those of the first walk, which
  observed edges can fill.

Other disagreements between code and comments, met while modelling, have no run:

- "A crash, timeout, cap, or malformed result floors the node" (`README.md:176`; "truncation =>
  suspicious", `docs/ARCHITECTURE.md:290`): an output that is cut is floored when the cap cut
  it. When the drain of ten seconds did (`jail.go:280`), nothing marks it, and a prefix that
  happens to be one document passes as the worker's report.
- "A verdict can always be traced back" (`types.go:343`): a verdict lifted from a
  rollup, or from a finding the size cap dropped, has no finding.
- Curated facts outlive a reboot (`orchestrator/main.go:145`): what a human confirms
  goes to the graph, which the orchestrator opens in memory (`main.go:162`), and never
  to the persistent registry.
- A decision without a pending review is refused (`mal-gateway/main.go:365`): it is
  accepted whenever the workflow is open, and an early one answers whatever is
  escalated later. A review is reported pending until the workflow has ended, not
  only until it is decided, as `mal-gateway/main.go:151` says.
- The findings outside the size budget (errors, hashes, cap markers;
  `workflow.go:96`) are bounded by `OffBudgetBounded` in number, but with breadcrumbs
  of up to 1024 bytes they can exceed the "under 2 MiB" of `workflow.go:34`.
- `Reached` says of `PathCurated` that every edge *on the shortest path* was curated
  (`graph.go:242`), `Related` that a curated path exists by an independent walk
  (`graph.go:266`). The code and its tests do the latter, and so do `WalkSound` and
  `CuratedShown`: a node with an observed shortcut and a longer curated path is shown as curated.
- "Truncated is true if a bound was hit before the reachable set was exhausted (fail-closed:
  report, never silently stop)" (`graph.go:251`): a row that does not decode stops the walk
  there in silence.
- "A hard ceiling on edges examined" (`graph.go:73`): edges that are filtered out or
  lead to a node already visited are examined and not counted; the ceiling is on
  those that lead somewhere new.
- Starting in shadow "would strand a category with no feedback", and reserving it for
  demotion "keeps graduation live" (`graduation.go:18`): a category demoted to
  shadow is stranded in the same way once nothing of it is pending (`ShadowStrands`),
  until the process restarts.
- `gate.go:163` and the README of the repository say a category starts in shadow,
  where `graduation.go:18` explains and `Mode` shows that it starts supervised;
  `activity.go:46` says there is no byte budget across artifacts, where
  `workflow.go:260` has one.

### Bounds, and why they are enough

- *Artifacts.* Two give a child folded after its parent and a cap that cuts; three
  of them on up to three levels (`walk`) give a queue that still holds work when the
  artifact cap cuts, and a child beyond the depth cap, so that the artifact, depth,
  findings and ingest caps are met alone and in every order. The budgets 0 to 3 are within reach of single steps.
- *Findings.* A size is a small number: 2 does not fit twice into a budget of 3.
- *Attempts.* Two overlap; the third answers while neither of them is expected. One
  kill suffices for a leaked jail.
- *Vault.* Two blobs distinguish a claim from the content, two uploads of one blob
  collide, `MaxTotal` is crossed by the second child. The two kills may hit one program
  twice or each of them once.
- *Reviews.* Thresholds of one outcome make every mode reachable: a category earns
  autonomy, and one rejection sends it to shadow. Two submissions that share a fact
  give an observation against a confirmation in both orders; in `review_demotes` the facts of the two differ. One decision per
  submission is enough for these properties, since the workflow reads one; the
  proofs have no such bound. `review_reads` leaves the crash out: a reader meets a
  dead orchestrator as a query that fails, which `Query` allows at any time.

- *Knowledge.* A chain of three hops is one longer than the depth; the shortcut makes
  two ways to one node, of which one may be curated; an out-degree of 1, a capacity of 3
  nodes and 2 nodes or edges of a walk are all crossed. The capacity of edges, also 3, is not
  crossed by three writes; its test is the same `Capped`, and the proof covers it. Three
  writes give two concurrent links and a third that meets them, and one trouble falls
  between any two merges or hops. A node on both ways and the first edge of one of them
  may go bad (`Fragile`); the proofs let any row.
  In the registry a key shares the sketch of a seed and one has none, the capacity
  is reached by two seeds and one observation, and two troubles give a damaged row
  and a reboot after it. Clients and writers are symmetric.
- *Roster.* Citations are good, malformed or of unknown facts; a technique is named by
  all samples, some or only one; hypotheses, citations, indicators, long texts and the
  novelty of the evidence fall on both sides of their thresholds. One submission suffices,
  since nothing but the ledger outlives it; other gates give that a past and a future, and
  the proofs bound neither.

`CHECK_DEADLOCK FALSE` is set everywhere because these systems end: a workflow is
done, an upload answered.

### Fairness

- `Submission`: `WF(Next)`. The workflow service always dispatches a workflow task,
  and every activity resolves since it has a timeout and a number of attempts
  (`workflow.go:60`), which is `Answered` of `EngineRun`.
- `EngineRun`: weak fairness of the server's `Timeout` and `Dispatch` and of `Boot`. No
  fairness of any attempt: it may hang for ever.
- `Vault`: weak fairness of `Boot`, nothing else: a dead orchestrator is restarted.
- `Review`: weak fairness of `Boot`; of `Start` and `Fails`, since a worker polls and an
  activity has a ten-minute timeout; of `Decide` and `Expire`, the selector and its timer.
  None of `Post`: no human has to answer.

`KnowledgeGraph`, `Registry` and `Roster` state no liveness: what they promise is safety,
and their callers are the activities whose end `Review` and `EngineRun` show.

## 4. Proofs

All for every value of the constants that satisfies the assumptions named in the
modules, any number of submissions, attempts, uploads, crashes. `PROJECT.json`
lists the results a reader should know of, but for the type correctness of
each module, which is proved too.

**Submission.** `IInv` is `TypeOK`, `VerdictExact` and three bookkeeping invariants:
`Disclosed` relates the gaps so far to the `incomplete` flag, `Counted` the children revealed
to those queued, analysed or cut, `Ingested` the bytes counted to the budget. The
properties speak of delivered results; these say what must hold on the way.
`OffBudgetBounded` counts artifacts that are done; its invariant `Extras` also counts
the engines already folded of the one in hand, and the caps not met yet.
Proved: `TypeCorrect`, `VerdictIsExact`, `ResultOnlyGoesUp`, `GapsAreDisclosed`,
`NothingDroppedSilently`, `IngestIsBounded`, `ExtrasAreBounded`, and `Refinement`: each step is a step of `Rollup` or
a stutter. They rest on lemmas about `Join` and `Floor` (`Lattice_proofs`) and on those
about `Folded` and `FoldBody`: what folding one report does to the result and to the
books, whichever of its findings the size budget keeps.
`FuturesAwaited` says which futures are out at every point of the walk; with it
`FuturesFollowed` shows that each engine, seen alone, takes the steps of `Future` and of
starting it anew. `WalkShrinks` gives the number of
steps a submission has left, at most 24 per artifact and 3 more, and shows that every
step lowers it; `ReportsFold` that folding a report is always possible: the walk
`spent` of the code's loop exists for every body. That is a recursion over the
findings, whose totality is proved by the least place where it would fail.

**Vault.** `VaultKeyed` and `MountsResolve` need `Backed` (what a process has published or
verified is in the vault) and `TempsIntact` (the file a process writes is there and
its own); the cap needs `Metered` (what was added is in `total`, or in hand).
Proved: `TypeCorrect`, `KeyedByContent`, `OnlyGrows` (no step removes or changes an
entry), `EveryMountResolves`, `TempsStayIntact`, `IngestIsMetered`, and
`NothingLeftBehind`: a temporary file or a staging directory belongs to an extraction in
progress, or to one that was killed when no boot has been since.

**EngineRun.** `JailsOwned` needs `Down` (no attempt runs in a dead process); a verdict
is the attempt's own because of `Earned` (what each stage of an attempt has established of its
output) and `Newest` (the answer is of the attempt the server waits for).
Proved: `TypeCorrect`, `VerdictsEarned`, `NoJailLeft`;
`AttemptsRunOut` (what the server has left to do is at most two steps per attempt, each of its
steps costs one, and it has an answer exactly when none is left) and
`AttemptsGoForward` (no stage of an attempt is entered twice).

**Review.** `TypeOK` is not inductive alone: the outcome recorded is a Boolean only
because a workflow at `record` has been decided. `Decided` adds that, and that
`confirm` means approved; with it `CuratedByHuman` is inductive. `RecordTrue` needs
`Fresh`: an outcome in the books is of an item behind the workflow's position, and a
workflow never goes back (`FlowOrder`), so the outcome recorded next is a new one.
`EarnedAutonomy` follows from `RecordTrue` and the arithmetic of `Mode` (`ModeEarned`).
`ShownSound` needs `Reads`: a handler that fetches has seen the workflow ended, and
what is past the gate reads the same ever after (`ReadsStand`).
Proved: `TypeCorrect`, `CuratedCorrect`, `CuratedKept`, `RecordCorrect`, `AutonomyEarned`,
`ShownCorrect`, `DecidedOnce`; and of the policy itself, `SignalsOnlyStop`,
`CalibratedDown`, `OutcomesMoveTrust` and `OutcomesMoveWeight`: past the thresholds an
approval never costs trust and a rejection never earns it. Below `MinToAutonomous` the second
is false, and rightly left out: a rejection may be the outcome that completes the count.
`Fed` relates the lists the activities hand each other: as many measurements as
hypotheses at the gate, none that raises a claim, an acceptance only of a hypothesis that clears
the signals, an escalation only of one that was proposed. `MeasuredBeforeGated` and
`RaisedOnEvidence` follow: what a client is shown above the deterministic verdict goes back
to such a hypothesis. `RecordsAgree` counts the outcomes that are owed with
those calibration has: it needs `Decided`, that finitely many are owed, and that `Record` waits for
its own to be settled. `WorkflowsRunOut`
orders the phases of a workflow and counts the items left within one. `LoopKeepsTiers` refines
`Tiers` by the graph as this module sees it. `ShadowStrands` says that a category in shadow
with nothing pending stays there until the process ends: what a category would need
to recover is what shadow withholds.

**KnowledgeGraph.** `EdgeEnds` is not inductive alone: `Placed` adds that a link past its
first merge has its first end, and past its second both. That no step takes a node
away while the process lives is `Monotone`, and `GraphSteps` says what any step does
to the graph: one merge, a bad row more, a recount, or the loss of all. `IngestBounded` needs the
counts to be exact, which `IngestIsBounded` proves with it.
Of the walk, `WalkInv` says that each node seen has a path of its depth in the pass that
saw it, and that until it is cut the first pass has followed, from every node it has
taken, all edges that were there when it began and still decode; when it is cut, something reachable is
missing, and stays so. `Layered` adds that the second pass goes by layers, and that with
room for all that is reachable no cap stops it before the horizon; a path of curated
edges is then seen whole, by its first node that would not be. The paths are stated
over a set of edges with no state in it, so that more edges leave a path one.
The assumptions are that nodes and links are finite sets.
Proved: `TypeCorrect`, `NoDanglingEdge`, `Refinement` of `Tiers` by nodes and by edges,
`CuratedAdmitted`, `IngestIsBounded`, `AnswersAreSound`, `CutsAreHonest`, `CuratedIsShown`.

**Registry.** `RowSteps` says what any step does to the facts: one merge, one row gone bad,
a reboot, or nothing. A lead is curated though the index is written after the lock is
released, because `TasksCurated` holds in between and `RowsStay` says that nothing
takes the tier away; the corpus grounds claims because of `SeedsPassed`, which holds
at every point of the boot. Proved: `TypeCorrect`, `CitationsVouched`, `LeadsAreCurated`,
`CuratedIsVouched`, `CorpusGrounds`, `CountIsExact`, `Refinement` of `Tiers`.

**Ledger and Roster.** For ledgers of any length and any hash that never collides, a count
and a head fix every entry (`HeadFixesHistory`, by descent from the last entry, with the
least element of a set of numbers in place of induction), and appending keeps a ledger
that verifies so (`AppendingVerifies`). The first is what `TamperingShows` rests on.
`Books` says that the ledger verifies and that each entry of this worker agrees with
itself, whatever others wrote. `RosterInv` has three parts: `Beside` (each hypothesis has the technique it is
about at its place in the other list, no malformed citation, and a first sample that names
it), `Weighing` (each signal was measured of the hypothesis at its place, on evidence,
samples and lists that no longer change, and all of them before the gate), and `Gated` (a
result is the answer to just these, and recorded at its place). That a technique is in the first sample is why
agreement is never counted as absent, with no hit. Proved: `TypeCorrect`,
`LedgerVerifies`, `AcceptancesMeasured`, `RejectionsForCause`, `LedgerCorrect`, under the
assumption that the techniques are finitely many; `TamperingShows` for any hash that never
collides, and `LedgerGrows`. Two theorems tie this module to its neighbours:
`CalibrationCovered`, that `Autonomy` calibrates only as `MayCalibrate` allows here, and
`GateGivenWhatReviewTakes`, that what stands before the gate is a proposal `Review`
admits.

**Only model-checked.** Liveness under fairness, and what is ENABLED, are out of the
prover's reach: `Terminates`, `Answered`, `DebrisSwept`, `Finishes`. The safety each rests
on is proved: a measure that bounds what is left and that the steps in question
lower (`WalkShrinks` with `ReportsFold`, `AttemptsRunOut`, `WorkflowsRunOut`), or that only
one step is missing (`NothingLeftBehind`). What is not proved is that the fair steps are
taken. Where a fact needs induction over numbers or a list, the proof argues from
a least counterexample, since the library's induction theorems take an operator. The
properties that are violated have no proof, of course.

## 5. Not modelled, and why

The engines and the roster service are untrusted: the models let them output
anything the next stage can tell apart, which is stronger than a model of them.
Text handling (defanging, STIX and MISP rendering), similarity of sketches, HTTP
clients, the console and container options have no control worth checking here.
`EnrichmentWorkflow` is registered and never started by code of the repository.
A power loss that undoes unsynced writes, and removals that fail (`jail.go:221`, the
gateway's temporary files after a kill, `mal-gateway/main.go:75`, which no sweep
matches), are outside the models. Of the walk, the truncation of its second pass is
not modelled because the code does not report it.
`ScoreFindings` is a table of weights and a sum; the broker's caps per field are
comparisons, and every report they refuse is the failure `EngineRun` has. The score,
the broker's caps and the extractor's own budgets are pure code over one input, where
bounded checking would say little more than the tests do; the orchestrator trusts
none of them, as `Vault` and `EngineRun` show.

## 6. Plan

Done, in this order: `Lattice`, `Submission`, `Rollup`; `Vault`; `EngineRun`, `Future`;
`Autonomy`, `Review`; `Tiers`, `KnowledgeGraph`, `Registry`; `Ledger`, `Roster`. What is left:

1. `Extractor`: the budgets of entries, bytes and children of one extraction, and that a
   manifest which is not marked incomplete lists every regular entry.
2. Composition: `Submission` with `Vault` for its children; `Review` with `Registry` for
   grounding, so that poisoning is followed from an observation to an acceptance. That `Roster`
   and `Review` meet in the proposal before the gate is proved.
