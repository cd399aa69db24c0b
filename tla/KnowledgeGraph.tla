--------------------------- MODULE KnowledgeGraph ---------------------------
(***************************************************************************)
(* The relational tier of knowledge (L1): internal/knowledge/graph.go over *)
(* either of its stores, the memory of graph.go or the file of             *)
(* persist_graph.go.                                                       *)
(*                                                                         *)
(* A step is one critical section of a store: the merge of a node or of an *)
(* edge, or the out-edges of a node.  A link is three merges of a writer,  *)
(* a walk one OutEdges after the other, and anything may come between.     *)
(* The index of out-edges is written with its edge, in one transaction.    *)
(* Rows of the file may go bad (Rot): such a row no longer decodes, and is  *)
(* skipped by whoever reads it and never written again.                    *)
(* Labels, attributes and sources are left out.                            *)
(***************************************************************************)
EXTENDS Naturals, FiniteSets

CONSTANTS Nodes, Rels,
          Filters,      \* the sets of relations a walk is asked to follow
          Links,        \* the edges a writer may ask for
          Start,        \* where the reader's walks start
          Writers,
          MaxFacts,     \* ingest nodes, and ingest edges
          MaxOutDegree,
          MaxDepth, MaxNodes, MaxEdges,  \* of a walk
          MaxCalls,     \* bound: writes asked for
          MaxTroubles,  \* bound: failed commits, kills and rows gone bad
          Fragile,      \* bound: the nodes and links whose rows may go bad
          NoLink

ASSUME GraphConstants ==
  /\ IsFiniteSet(Nodes) /\ IsFiniteSet(Links) /\ Start \in Nodes
  /\ Filters \subseteq SUBSET Rels
  /\ Links \subseteq [from : Nodes, rel : Rels, to : Nodes]
  /\ {MaxFacts, MaxOutDegree, MaxDepth, MaxNodes, MaxEdges, MaxCalls, MaxTroubles} \subseteq Nat
  /\ NoLink \notin [edge : Links, tier : {"ingest", "curated"}]

VARIABLES
  durable,              \* is the store a file?
  nodeTier, edgeTier,
  badNodes, badEdges,   \* the rows that do not decode
  nodeCount, edgeCount, \* the live counts the capacities are checked against
  stage, job,           \* where the link of each writer is, and what it asked for
  calls, troubles,
  pass,                 \* of the walk: first over all edges, then over curated ones
  allow, depth, waiting, spent, truncated,
  found, cut,           \* what the first pass answered
  before                \* history: the edges when the walk began

damage  == <<badNodes, badEdges>>
graph   == <<nodeTier, edgeTier, nodeCount, edgeCount, damage>>
writers == <<stage, job, calls>>
walk    == <<pass, allow, depth, waiting, spent, truncated, found, cut, before>>
vars == <<durable, graph, writers, troubles, walk>>

Tier    == {"absent", "ingest", "curated"}
Written == {"ingest", "curated"}
Unseen  == MaxDepth + 1

TypeOK ==
  /\ durable \in BOOLEAN
  /\ nodeTier \in [Nodes -> Tier] /\ edgeTier \in [Links -> Tier]
  /\ badNodes \in SUBSET Nodes /\ badEdges \in SUBSET Links
  /\ nodeCount \in Nat /\ edgeCount \in Nat
  /\ stage \in [Writers -> {"idle", "from", "to", "edge"}]
  /\ job \in [Writers -> [edge : Links, tier : Written] \cup {NoLink}]
  /\ \A w \in Writers : stage[w] = "idle" <=> job[w] = NoLink
  /\ calls \in 0..MaxCalls /\ troubles \in 0..MaxTroubles
  /\ pass \in {"none", "all", "curated", "answered"}
  /\ allow \in SUBSET Rels
  /\ depth \in [Nodes -> 0..Unseen] /\ found \in [Nodes -> 0..Unseen]
  /\ waiting \in SUBSET Nodes /\ spent \in Nat
  /\ truncated \in BOOLEAN /\ cut \in BOOLEAN
  /\ before \in [Links -> Tier]

(* OpenGraphFromEnv: a new store, in memory or in a file.                  *)
Init ==
  /\ durable \in BOOLEAN
  /\ nodeTier = [n \in Nodes |-> "absent"] /\ edgeTier = [e \in Links |-> "absent"]
  /\ badNodes = {} /\ badEdges = {}
  /\ nodeCount = 0 /\ edgeCount = 0
  /\ stage = [w \in Writers |-> "idle"]
  /\ job = [w \in Writers |-> NoLink]
  /\ calls = 0 /\ troubles = 0
  /\ pass = "none" /\ allow = {}
  /\ depth = [n \in Nodes |-> Unseen] /\ found = [n \in Nodes |-> Unseen]
  /\ waiting = {} /\ spent = 0 /\ truncated = FALSE /\ cut = FALSE
  /\ before = [e \in Links |-> "absent"]
----------------------------------------------------------------------------
(* Writers.                                                                *)

(* Mutation: what came last is what is kept.                               *)
ReplacesAlways(new, old) == TRUE

(* The decision of putNode, and of link: ingest never replaces curated.    *)
Replaces(new, old) == ~(old = "curated" /\ new = "ingest")

(* Mutation: what is curated is held to the capacity as well.              *)
CappedAll(t, old, count) == old = "absent" /\ count >= MaxFacts

Capped(t, old, count) == old = "absent" /\ t = "ingest" /\ count >= MaxFacts

(* putNode: an end of a link is only made if it is absent.                 *)
NodeWrites(n, t, onlyIfAbsent) ==
  nodeTier[n] = "absent" \/ (~onlyIfAbsent /\ Replaces(t, nodeTier[n]))

(* A row that does not decode is neither decided against nor overwritten.  *)
NodeRefused(n, t) == n \in badNodes \/ Capped(t, nodeTier[n], nodeCount)

MergeNode(n, t, onlyIfAbsent) ==
  /\ IF NodeWrites(n, t, onlyIfAbsent)
     THEN /\ nodeTier' = [nodeTier EXCEPT ![n] = t]
          /\ nodeCount' = IF nodeTier[n] = "absent" THEN nodeCount + 1 ELSE nodeCount
     ELSE UNCHANGED <<nodeTier, nodeCount>>
  /\ UNCHANGED <<edgeTier, edgeCount, damage>>

(* The index of out-edges, which the degree is counted in, and the edges   *)
(* it leads a reader to.                                                   *)
Indexed(n)  == {e \in Links : e.from = n /\ edgeTier[e] # "absent"}
OutEdges(n) == Indexed(n) \ badEdges

EdgeRefused(e, t) ==
  \/ e \in badEdges
  \/ Capped(t, edgeTier[e], edgeCount)
  \/ /\ edgeTier[e] = "absent" /\ t = "ingest"
     /\ Cardinality(Indexed(e.from)) >= MaxOutDegree

MergeEdge(e, t) ==
  /\ IF Replaces(t, edgeTier[e])
     THEN /\ edgeTier' = [edgeTier EXCEPT ![e] = t]
          /\ edgeCount' = IF edgeTier[e] = "absent" THEN edgeCount + 1 ELSE edgeCount
     ELSE UNCHANGED <<edgeTier, edgeCount>>
  /\ UNCHANGED <<nodeTier, nodeCount, damage>>

(* AddNode, ObserveNode: a single merge.                                   *)
PutNode(n, t) ==
  /\ calls < MaxCalls /\ calls' = calls + 1
  /\ ~NodeRefused(n, t)
  /\ MergeNode(n, t, FALSE)
  /\ UNCHANGED <<durable, stage, job, troubles, walk>>

(* Link, Observe.                                                          *)
Ask(w, e, t) ==
  /\ stage[w] = "idle" /\ calls < MaxCalls
  /\ calls' = calls + 1
  /\ stage' = [stage EXCEPT ![w] = "from"]
  /\ job' = [job EXCEPT ![w] = [edge |-> e, tier |-> t]]
  /\ UNCHANGED <<durable, graph, troubles, walk>>

Goto(w, s) == stage' = [stage EXCEPT ![w] = s] /\ UNCHANGED <<job, calls>>
Return(w)  == /\ stage' = [stage EXCEPT ![w] = "idle"]
              /\ job' = [job EXCEPT ![w] = NoLink]
              /\ UNCHANGED calls

PutFrom(w) ==
  /\ stage[w] = "from"
  /\ LET n == job[w].edge.from
         t == job[w].tier
     IN IF NodeRefused(n, t)
        THEN Return(w) /\ UNCHANGED graph
        ELSE Goto(w, "to") /\ MergeNode(n, t, TRUE)
  /\ UNCHANGED <<durable, troubles, walk>>

(* Mutation: the error of an end's merge is dropped.                       *)
PutToUnchecked(w) ==
  /\ stage[w] = "to"
  /\ Goto(w, "edge")
  /\ LET n == job[w].edge.to
         t == job[w].tier
     IN IF NodeRefused(n, t) THEN UNCHANGED graph ELSE MergeNode(n, t, TRUE)
  /\ UNCHANGED <<durable, troubles, walk>>

PutTo(w) ==
  /\ stage[w] = "to"
  /\ LET n == job[w].edge.to
         t == job[w].tier
     IN IF NodeRefused(n, t)
        THEN Return(w) /\ UNCHANGED graph
        ELSE Goto(w, "edge") /\ MergeNode(n, t, TRUE)
  /\ UNCHANGED <<durable, troubles, walk>>

PutEdge(w) ==
  /\ stage[w] = "edge"
  /\ Return(w)
  /\ LET e == job[w].edge
         t == job[w].tier
     IN IF EdgeRefused(e, t) THEN UNCHANGED graph ELSE MergeEdge(e, t)
  /\ UNCHANGED <<durable, troubles, walk>>

(* The transaction of the merge fails, and the link with it.               *)
CommitFails(w) ==
  /\ durable /\ stage[w] # "idle"
  /\ troubles < MaxTroubles /\ troubles' = troubles + 1
  /\ Return(w)
  /\ UNCHANGED <<durable, graph, walk>>

(* A row of the file goes bad.                                             *)
Rot ==
  /\ durable /\ troubles < MaxTroubles /\ troubles' = troubles + 1
  /\ \/ /\ \E n \in Nodes \cap Fragile : nodeTier[n] # "absent" /\ badNodes' = badNodes \cup {n}
        /\ UNCHANGED badEdges
     \/ /\ \E e \in Links \cap Fragile : edgeTier[e] # "absent" /\ badEdges' = badEdges \cup {e}
        /\ UNCHANGED badNodes
  /\ UNCHANGED <<durable, nodeTier, edgeTier, nodeCount, edgeCount, writers, walk>>
----------------------------------------------------------------------------
(* The reader: Related from Start.                                         *)

(* A walk begins: with no relations asked for it follows all of them, and  *)
(* those it does not know it drops.                                        *)
Begin(rels) ==
  /\ pass \in {"none", "answered"}
  /\ nodeTier[Start] # "absent" /\ Start \notin badNodes
  /\ pass' = "all" /\ allow' = rels
  /\ depth' = [n \in Nodes |-> IF n = Start THEN 0 ELSE Unseen]
  /\ waiting' = {Start} /\ spent' = 0 /\ truncated' = FALSE
  /\ before' = edgeTier
  /\ found' = [n \in Nodes |-> Unseen] /\ cut' = FALSE
  /\ UNCHANGED <<durable, graph, writers, troubles>>

(* Mutation: the second pass follows what the first one does.              *)
FollowsAny(e) == e.rel \in allow

Follows(e) == /\ e.rel \in allow
              /\ pass = "curated" => edgeTier[e] = "curated"
Fresh(n) == {e \in OutEdges(n) : Follows(e) /\ depth[e.to] = Unseen}
Reached == {n \in Nodes \ {Start} : depth[n] # Unseen}

(* Nodes are taken in the order of their depth; within one depth, and for  *)
(* the edges of one node, the order is that of hashes: any, in each pass.  *)
Taken(n) == /\ pass \in {"all", "curated"} /\ n \in waiting
            /\ \A m \in waiting : depth[n] <= depth[m]

(* The ends a node's fresh edges bring, as far as the caps leave room.     *)
Expand(n) ==
  /\ Taken(n) /\ depth[n] < MaxDepth
  /\ LET ends == {e.to : e \in Fresh(n)}
     IN \E new \in SUBSET ends :
          LET full == \/ Cardinality(Reached) + Cardinality(new) = MaxNodes
                      \/ spent + Cardinality(new) = MaxEdges
              over == new # ends
          IN /\ Cardinality(Reached) + Cardinality(new) <= MaxNodes
             /\ spent + Cardinality(new) <= MaxEdges
             /\ over => full
             /\ depth' = [m \in Nodes |-> IF m \in new THEN depth[n] + 1 ELSE depth[m]]
             /\ spent' = spent + Cardinality(new)
             /\ waiting' = IF over THEN {} ELSE (waiting \ {n}) \cup new
             /\ truncated' = (truncated \/ over)
  /\ UNCHANGED <<durable, graph, writers, troubles, pass, allow, found, cut, before>>

(* Mutation: what lies behind the horizon is not mentioned.                *)
HorizonSilent(n) ==
  /\ Taken(n) /\ depth[n] = MaxDepth
  /\ spent' = spent + Cardinality(Fresh(n))
  /\ waiting' = IF spent' > MaxEdges THEN {} ELSE waiting \ {n}
  /\ UNCHANGED <<durable, graph, writers, troubles, pass, allow, depth, truncated, found, cut, before>>

(* At the horizon fresh edges are counted and not followed.                *)
Horizon(n) ==
  /\ Taken(n) /\ depth[n] = MaxDepth
  /\ spent' = spent + Cardinality(Fresh(n))
  /\ truncated' = (truncated \/ Fresh(n) # {})
  /\ waiting' = IF spent' > MaxEdges THEN {} ELSE waiting \ {n}
  /\ UNCHANGED <<durable, graph, writers, troubles, pass, allow, depth, found, cut, before>>

(* Mutation: both passes share one budget of edges.                        *)
AgainSpent ==
  /\ pass = "all" /\ waiting = {}
  /\ pass' = "curated" /\ found' = depth /\ cut' = truncated
  /\ depth' = [n \in Nodes |-> IF n = Start THEN 0 ELSE Unseen]
  /\ waiting' = {Start} /\ truncated' = FALSE
  /\ UNCHANGED <<durable, graph, writers, troubles, allow, spent, before>>

(* The second pass.  Whether a bound cuts it is not asked.                 *)
Again ==
  /\ pass = "all" /\ waiting = {}
  /\ pass' = "curated" /\ found' = depth /\ cut' = truncated
  /\ depth' = [n \in Nodes |-> IF n = Start THEN 0 ELSE Unseen]
  /\ waiting' = {Start} /\ spent' = 0 /\ truncated' = FALSE
  /\ UNCHANGED <<durable, graph, writers, troubles, allow, before>>

Reply == /\ pass = "curated" /\ waiting = {}
         /\ pass' = "answered"
         /\ UNCHANGED <<durable, graph, writers, troubles, allow, depth, waiting, spent,
                        truncated, found, cut, before>>

(* What the caller sees: Related's result.                                 *)
Answer == {n \in Nodes \ ({Start} \cup badNodes) : found[n] # Unseen /\ nodeTier[n] # "absent"}
PathCurated(n) == depth[n] # Unseen
----------------------------------------------------------------------------
(* The process is killed and started again: memory is lost, a file is      *)
(* opened and its rows are counted.                                        *)
Present(tier) == {k \in DOMAIN tier : tier[k] # "absent"}

(* Mutation: the rows of a file are not counted when it is opened.         *)
ReopenUncounted ==
  /\ troubles < MaxTroubles /\ troubles' = troubles + 1
  /\ nodeCount' = 0 /\ edgeCount' = 0
  /\ IF durable
     THEN UNCHANGED <<nodeTier, edgeTier, damage>>
     ELSE /\ badNodes' = {} /\ badEdges' = {}
          /\ nodeTier' = [n \in Nodes |-> "absent"]
          /\ edgeTier' = [e \in Links |-> "absent"]
  /\ stage' = [w \in Writers |-> "idle"] /\ job' = [w \in Writers |-> NoLink]
  /\ pass' = "none" /\ allow' = {}
  /\ depth' = [n \in Nodes |-> Unseen] /\ found' = [n \in Nodes |-> Unseen]
  /\ waiting' = {} /\ spent' = 0 /\ truncated' = FALSE /\ cut' = FALSE
  /\ before' = [e \in Links |-> "absent"]
  /\ UNCHANGED <<durable, calls>>

Reopen ==
  /\ troubles < MaxTroubles /\ troubles' = troubles + 1
  /\ IF durable
     THEN /\ nodeCount' = Cardinality(Present(nodeTier))
          /\ edgeCount' = Cardinality(Present(edgeTier))
          /\ UNCHANGED <<nodeTier, edgeTier, damage>>
     ELSE /\ badNodes' = {} /\ badEdges' = {}
          /\ nodeTier' = [n \in Nodes |-> "absent"] /\ nodeCount' = 0
          /\ edgeTier' = [e \in Links |-> "absent"] /\ edgeCount' = 0
  /\ stage' = [w \in Writers |-> "idle"] /\ job' = [w \in Writers |-> NoLink]
  /\ pass' = "none" /\ allow' = {}
  /\ depth' = [n \in Nodes |-> Unseen] /\ found' = [n \in Nodes |-> Unseen]
  /\ waiting' = {} /\ spent' = 0 /\ truncated' = FALSE /\ cut' = FALSE
  /\ before' = [e \in Links |-> "absent"]
  /\ UNCHANGED <<durable, calls>>

Writer(w) == PutFrom(w) \/ PutTo(w) \/ PutEdge(w)
Walker == Again \/ Reply \/ (\E n \in Nodes : Expand(n) \/ Horizon(n))

Next ==
  \/ \E n \in Nodes, t \in Written : PutNode(n, t)
  \/ \E w \in Writers : \/ \E e \in Links, t \in Written : Ask(w, e, t)
                        \/ Writer(w) \/ CommitFails(w)
  \/ \E rels \in Filters : Begin(rels)
  \/ Walker
  \/ Reopen \/ Rot

Spec == Init /\ [][Next]_vars
----------------------------------------------------------------------------
(* Reference definitions: paths and reachability over a set of edges.      *)
Curated(tier) == {k \in DOMAIN tier : tier[k] = "curated"}

Step(E, a, b) == \E e \in E : e.from = a /\ e.to = b /\ e.rel \in allow

Path(E, d, n) == \E p \in [0..d -> Nodes] :
                   /\ p[0] = Start /\ p[d] = n
                   /\ \A i \in 0..d : i < d => Step(E, p[i], p[i + 1])

Closed(S, E) == Start \in S /\ \A a \in S, b \in Nodes : Step(E, a, b) => b \in S
Reachable(E) == {n \in Nodes : \A S \in SUBSET Nodes : Closed(S, E) => n \in S}

(* An edge never dangles: whatever writers, capacities, failed commits and *)
(* kills come between the three merges of a link, both ends of a stored    *)
(* edge are stored.                                                        *)
EdgeEnds == \A e \in Links : edgeTier[e] # "absent" =>
              nodeTier[e.from] # "absent" /\ nodeTier[e.to] # "absent"

(* The counts that stand for a scan of the file are the number of its rows *)
(* through every merge, failure and reopening.                             *)
CountExact == /\ nodeCount = Cardinality(Present(nodeTier))
              /\ edgeCount = Cardinality(Present(edgeTier))

(* What is only observed is bounded, in all and at each hub, readable or   *)
(* not.                                                                    *)
IngestBounded ==
  /\ Cardinality({n \in Nodes : nodeTier[n] = "ingest"}) <= MaxFacts
  /\ Cardinality({e \in Links : edgeTier[e] = "ingest"}) <= MaxFacts
  /\ \A n \in Nodes : Cardinality({e \in Indexed(n) : edgeTier[e] = "ingest"}) <= MaxOutDegree

(* Nothing an answer says is made up: a node is as far away as stated, and *)
(* PathCurated means a path of curated edges alone within the depth asked. *)
WalkSound ==
  pass = "answered" => \A n \in Answer :
    /\ Path(Present(edgeTier), found[n], n)
    /\ PathCurated(n) => \E d \in 1..MaxDepth : Path(Curated(edgeTier), d, n)

(* An answer that does not say it is truncated holds everything that could *)
(* be reached when the walk began, though writers went on meanwhile, as    *)
(* far as the rows decode: a bad row is left out, with what only it leads  *)
(* to, and nothing says so.  And Truncated is no false alarm: something    *)
(* reachable is missing.  About walk, graph.go:300-350, and OutEdges,      *)
(* persist_graph.go:269-296.                                               *)
CutHonest ==
  pass = "answered" =>
    IF cut THEN ~(Reachable(Present(edgeTier)) \ {Start} \subseteq Answer)
           ELSE Reachable(Present(before) \ badEdges) \ ({Start} \cup badNodes)
                  \subseteq Answer

(* A curated attribution is shown as one, however many observed edges lead *)
(* to the same node, where the caps have room for all that is reachable    *)
(* and the rows of its path decode.                                        *)
CuratedShown ==
  /\ pass = "answered"
  /\ Cardinality(Reachable(Present(edgeTier)) \ {Start}) <= MaxNodes
  /\ Cardinality(Reachable(Present(edgeTier)) \ {Start}) <= MaxEdges
  => \A n \in Answer, d \in 1..MaxDepth :
       Path(Curated(before) \ badEdges, d, n) => PathCurated(n)

(* graph.go:267 of Related: "an ingest shortcut can never evict or mask a  *)
(* genuinely curated attribution".  With nobody writing meanwhile, and     *)
(* caps that have room for all that is curated, what the curated walk      *)
(* reached is in the answer.  (Violated: the first walk has stopped at     *)
(* maxNodes, on observed edges.)                                           *)
NeverEvicted ==
  /\ pass = "answered" /\ edgeTier = before
  /\ Cardinality(Reachable(Curated(edgeTier)) \ {Start}) <= MaxNodes
  => {n \in Nodes \ {Start} : PathCurated(n)} \subseteq Answer

(* The merges implement the abstract promise, for nodes and for edges.     *)
NodeTiers == INSTANCE Tiers WITH Keys <- Nodes, tier <- nodeTier
EdgeTiers == INSTANCE Tiers WITH Keys <- Links, tier <- edgeTier
OnlyRise == NodeTiers!Spec /\ EdgeTiers!Spec

(* Observations cannot keep out what is curated: a curated link ends with  *)
(* its edge curated, however full the graph is and whoever wrote between   *)
(* its merges, unless a commit failed, the process was killed or one of    *)
(* the three rows is bad.                                                  *)
NeverStarved ==
  [][\A w \in Writers :
       stage[w] # "idle" /\ stage'[w] = "idle" /\ job[w].tier = "curated"
       => \/ edgeTier'[job[w].edge] = "curated" \/ troubles' # troubles
          \/ job[w].edge \in badEdges
          \/ {job[w].edge.from, job[w].edge.to} \cap badNodes # {}]_vars
=============================================================================
