----------------------- MODULE KnowledgeGraph_proofs -----------------------
(* What holds of the graph for any nodes, links, writers and bounds.       *)
EXTENDS KnowledgeGraph, FiniteSetTheorems, NaturalsInduction, WellFoundedInduction, TLAPS

(* What the assumptions say, one by one.                                   *)
LEMMA Given ==
  /\ IsFiniteSet(Nodes) /\ IsFiniteSet(Links) /\ Start \in Nodes
  /\ \A e \in Links : e.from \in Nodes /\ e.rel \in Rels /\ e.to \in Nodes
  /\ MaxFacts \in Nat /\ MaxOutDegree \in Nat /\ MaxDepth \in Nat /\ MaxNodes \in Nat
  /\ MaxEdges \in Nat /\ MaxCalls \in Nat /\ MaxTroubles \in Nat
  /\ \A r \in Filters : r \in SUBSET Rels
  BY GraphConstants

LEMMA FreshFinite == \A n : IsFiniteSet(Fresh(n)) /\ Cardinality(Fresh(n)) \in Nat
<1> TAKE n
<1>1. Fresh(n) \in SUBSET Links
  BY DEF Fresh, OutEdges, Indexed
<1> QED
  BY <1>1, Given, FS_Subset, FS_CardinalityType

LEMMA PresentFinite ==
  TypeOK => /\ Cardinality(Present(nodeTier)) \in Nat
            /\ Cardinality(Present(edgeTier)) \in Nat
<1> SUFFICES ASSUME TypeOK
             PROVE  /\ Cardinality(Present(nodeTier)) \in Nat
                    /\ Cardinality(Present(edgeTier)) \in Nat
  OBVIOUS
<1>1. Present(nodeTier) \in SUBSET Nodes /\ Present(edgeTier) \in SUBSET Links
  BY DEF Present, TypeOK
<1> QED
  BY <1>1, Given, FS_Subset, FS_CardinalityType

(* A job is a link with a tier.                                            *)
LEMMA Jobs ==
  ASSUME TypeOK, NEW w \in Writers, stage[w] # "idle"
  PROVE  /\ job[w].edge \in Links /\ job[w].tier \in Written
         /\ job[w].edge.from \in Nodes /\ job[w].edge.to \in Nodes
<1>1. job[w] \in [edge : Links, tier : Written]
  BY DEF TypeOK
<1> QED
  BY <1>1, Given

(* What one expansion adds is new, one step further and within the caps.   *)
LEMMA Expansion ==
  ASSUME TypeOK, NEW n \in Nodes, Expand(n)
  PROVE  \E new \in SUBSET {e.to : e \in Fresh(n)} :
           /\ new \subseteq Nodes /\ \A m \in new : depth[m] = Unseen
           /\ depth' = [m \in Nodes |-> IF m \in new THEN depth[n] + 1 ELSE depth[m]]
           /\ depth[n] + 1 \in 1..MaxDepth
           /\ spent' \in 0..MaxEdges
           /\ \/ /\ new # {e.to : e \in Fresh(n)} /\ waiting' = {} /\ truncated'
              \/ /\ new = {e.to : e \in Fresh(n)} /\ truncated' = truncated
                 /\ waiting' = (waiting \ {n}) \cup new
<1> DEFINE ends == {e.to : e \in Fresh(n)}
<1>1. PICK new \in SUBSET ends :
        /\ spent + Cardinality(new) <= MaxEdges
        /\ depth' = [m \in Nodes |-> IF m \in new THEN depth[n] + 1 ELSE depth[m]]
        /\ spent' = spent + Cardinality(new)
        /\ waiting' = IF new # ends THEN {} ELSE (waiting \ {n}) \cup new
        /\ truncated' = (truncated \/ new # ends)
  BY DEF Expand
<1>2. ends \subseteq Nodes /\ \A m \in ends : depth[m] = Unseen
  BY Given DEF Fresh, OutEdges, Indexed
<1>3. depth[n] + 1 \in 1..MaxDepth
  BY Given DEF Expand, TypeOK, Unseen
<1>4. Cardinality(new) \in Nat
  BY <1>1, <1>2, Given, FS_Subset, FS_CardinalityType
<1>5. spent' \in 0..MaxEdges
  BY <1>1, <1>4, Given DEF TypeOK
<1>6. CASE new = ends
  BY <1>1, <1>2, <1>3, <1>5, <1>6 DEF TypeOK
<1>7. CASE new # ends
  BY <1>1, <1>2, <1>3, <1>5, <1>7
<1> QED
  BY <1>6, <1>7
----------------------------------------------------------------------------
(* The initial state is well-typed.                                        *)
LEMMA TypeInit == Init => TypeOK
<1> SUFFICES ASSUME Init PROVE TypeOK
  OBVIOUS
<1> USE Given DEF Init, Unseen
<1>1. /\ nodeTier \in [Nodes -> Tier] /\ edgeTier \in [Links -> Tier]
      /\ before \in [Links -> Tier]
  BY DEF Tier
<1>2. /\ depth \in [Nodes -> 0..Unseen] /\ found \in [Nodes -> 0..Unseen]
  OBVIOUS
<1>3. /\ stage \in [Writers -> {"idle", "from", "to", "edge"}]
      /\ job \in [Writers -> [edge : Links, tier : Written] \cup {NoLink}]
      /\ \A w \in Writers : stage[w] = "idle" <=> job[w] = NoLink
  OBVIOUS
<1>4. /\ nodeCount \in Nat /\ edgeCount \in Nat /\ spent \in Nat
      /\ calls \in 0..MaxCalls /\ troubles \in 0..MaxTroubles
  OBVIOUS
<1>5. /\ badNodes \in SUBSET Nodes /\ badEdges \in SUBSET Links
      /\ durable \in BOOLEAN /\ truncated \in BOOLEAN /\ cut \in BOOLEAN
      /\ pass \in {"none", "all", "curated", "answered"}
      /\ allow \in SUBSET Rels /\ waiting \in SUBSET Nodes
  OBVIOUS
<1> QED
  BY <1>1, <1>2, <1>3, <1>4, <1>5 DEF TypeOK

(* So is what a merge leaves.                                              *)
LEMMA MergeType ==
  ASSUME TypeOK,
         \/ UNCHANGED graph
         \/ \E n \in Nodes, t \in Written, b \in BOOLEAN : MergeNode(n, t, b)
         \/ \E e \in Links, t \in Written : MergeEdge(e, t)
  PROVE  /\ nodeTier' \in [Nodes -> Tier] /\ edgeTier' \in [Links -> Tier]
         /\ nodeCount' \in Nat /\ edgeCount' \in Nat
         /\ badNodes' \in SUBSET Nodes /\ badEdges' \in SUBSET Links
  BY DEF TypeOK, MergeNode, MergeEdge, Tier, Written, graph, damage

LEMMA TypeStep == TypeOK /\ [Next]_vars => TypeOK'
<1> SUFFICES ASSUME TypeOK, [Next]_vars PROVE TypeOK'
  OBVIOUS
<1> USE Given
<1>1. ASSUME NEW n \in Nodes, NEW t \in Written, PutNode(n, t) PROVE TypeOK'
  <2>1. MergeNode(n, t, FALSE) /\ UNCHANGED <<durable, stage, job, troubles, walk>>
    BY <1>1 DEF PutNode
  <2>2. calls' \in 0..MaxCalls
    BY <1>1 DEF PutNode, TypeOK
  <2>3. /\ nodeTier' \in [Nodes -> Tier] /\ edgeTier' \in [Links -> Tier]
        /\ nodeCount' \in Nat /\ edgeCount' \in Nat
        /\ badNodes' \in SUBSET Nodes /\ badEdges' \in SUBSET Links
    BY <2>1, MergeType
  <2> QED
    BY <2>1, <2>2, <2>3 DEF TypeOK, walk
<1>2. ASSUME NEW w \in Writers, NEW e \in Links, NEW t \in Written, Ask(w, e, t) PROVE TypeOK'
  <2>1. [edge |-> e, tier |-> t] \in [edge : Links, tier : Written]
    OBVIOUS
  <2>2. [edge |-> e, tier |-> t] # NoLink
    BY <2>1, GraphConstants DEF Written
  <2>3. calls' \in 0..MaxCalls
    BY <1>2 DEF Ask, TypeOK
  <2> QED
    BY <1>2, <2>1, <2>2, <2>3 DEF Ask, TypeOK, graph, damage, walk
<1>3. ASSUME NEW w \in Writers, Writer(w) PROVE TypeOK'
  <2>0. stage[w] # "idle"
    BY <1>3 DEF Writer, PutFrom, PutTo, PutEdge
  <2> USE <2>0, Jobs
  <2>1. /\ nodeTier' \in [Nodes -> Tier] /\ edgeTier' \in [Links -> Tier]
        /\ nodeCount' \in Nat /\ edgeCount' \in Nat
        /\ badNodes' \in SUBSET Nodes /\ badEdges' \in SUBSET Links
    BY <1>3, MergeType DEF Writer, PutFrom, PutTo, PutEdge
  <2>2. /\ stage' \in [Writers -> {"idle", "from", "to", "edge"}]
        /\ job' \in [Writers -> [edge : Links, tier : Written] \cup {NoLink}]
        /\ \A v \in Writers : stage'[v] = "idle" <=> job'[v] = NoLink
        /\ calls' = calls
    <3>1. CASE Return(w)
      BY <3>1 DEF Return, TypeOK
    <3>2. CASE \E s \in {"to", "edge"} : Goto(w, s)
      BY <3>2 DEF Goto, TypeOK
    <3> QED
      BY <1>3, <3>1, <3>2 DEF Writer, PutFrom, PutTo, PutEdge
  <2>3. UNCHANGED <<durable, troubles, walk>>
    BY <1>3 DEF Writer, PutFrom, PutTo, PutEdge
  <2> QED
    BY <2>1, <2>2, <2>3 DEF TypeOK, walk
<1>4. ASSUME NEW w \in Writers, CommitFails(w) PROVE TypeOK'
  <2>1. UNCHANGED <<durable, graph, calls, walk>> /\ troubles' \in 0..MaxTroubles
    BY <1>4 DEF CommitFails, Return, TypeOK
  <2>2. /\ stage' \in [Writers -> {"idle", "from", "to", "edge"}]
        /\ job' \in [Writers -> [edge : Links, tier : Written] \cup {NoLink}]
        /\ \A v \in Writers : stage'[v] = "idle" <=> job'[v] = NoLink
    BY <1>4 DEF CommitFails, Return, TypeOK
  <2> QED
    BY <2>1, <2>2 DEF TypeOK, graph, damage, walk
<1>5. ASSUME NEW rels \in Filters, Begin(rels) PROVE TypeOK'
  <2>1. /\ UNCHANGED <<durable, graph, writers, troubles>>
        /\ pass' = "all" /\ allow' \in SUBSET Rels /\ waiting' = {Start} /\ spent' = 0
        /\ truncated' = FALSE /\ cut' = FALSE /\ before' = edgeTier
    BY <1>5 DEF Begin
  <2>2. depth' \in [Nodes -> 0..Unseen] /\ found' \in [Nodes -> 0..Unseen]
    BY <1>5 DEF Begin, Unseen
  <2> QED
    BY <2>1, <2>2 DEF TypeOK, graph, damage, writers
<1>6. ASSUME Again \/ Reply PROVE TypeOK'
  <2>1. UNCHANGED <<durable, graph, writers, troubles, allow, before>>
    BY <1>6 DEF Again, Reply
  <2>2. /\ pass' \in {"curated", "answered"} /\ waiting' \in SUBSET Nodes /\ spent' \in Nat
        /\ truncated' \in BOOLEAN /\ cut' \in BOOLEAN
    <3>1. CASE Again
      BY <3>1 DEF Again, TypeOK
    <3>2. CASE Reply
      BY <3>2 DEF Reply, TypeOK
    <3> QED
      BY <1>6, <3>1, <3>2
  <2>3. depth' \in [Nodes -> 0..Unseen] /\ found' \in [Nodes -> 0..Unseen]
    BY <1>6 DEF Again, Reply, TypeOK, Unseen
  <2> QED
    BY <2>1, <2>2, <2>3 DEF TypeOK, graph, damage, writers
<1>7. ASSUME NEW n \in Nodes, Expand(n) PROVE TypeOK'
  <2>1. UNCHANGED <<durable, graph, writers, troubles, pass, allow, found, cut, before>>
    BY <1>7 DEF Expand
  <2>2. PICK new \in SUBSET {e.to : e \in Fresh(n)} :
           /\ new \subseteq Nodes
           /\ depth' = [m \in Nodes |-> IF m \in new THEN depth[n] + 1 ELSE depth[m]]
           /\ depth[n] + 1 \in 1..MaxDepth
           /\ spent' \in 0..MaxEdges
           /\ \/ waiting' = {} /\ truncated'
              \/ truncated' = truncated /\ waiting' = (waiting \ {n}) \cup new
    BY <1>7, Expansion
  <2>3. depth' \in [Nodes -> 0..Unseen]
    BY <2>2 DEF TypeOK, Unseen
  <2>4. waiting' \in SUBSET Nodes /\ spent' \in Nat
    BY <2>2 DEF TypeOK
  <2>5. truncated' \in BOOLEAN
    BY <1>7 DEF Expand
  <2> QED
    BY <2>1, <2>3, <2>4, <2>5 DEF TypeOK, graph, damage, writers
<1>8. ASSUME NEW n \in Nodes, Horizon(n) PROVE TypeOK'
  <2>1. UNCHANGED <<durable, graph, writers, troubles, pass, allow, depth, found, cut, before>>
    BY <1>8 DEF Horizon
  <2>2. spent' \in Nat /\ waiting' \in SUBSET Nodes /\ truncated' \in BOOLEAN
    BY <1>8, FreshFinite DEF Horizon, TypeOK
  <2> QED
    BY <2>1, <2>2 DEF TypeOK, graph, damage, writers
<1>9. ASSUME Reopen PROVE TypeOK'
  <2>1. /\ UNCHANGED <<durable, calls>> /\ troubles' \in 0..MaxTroubles
        /\ pass' = "none" /\ allow' = {} /\ waiting' = {} /\ spent' = 0
        /\ truncated' = FALSE /\ cut' = FALSE
        /\ badNodes' \in SUBSET Nodes /\ badEdges' \in SUBSET Links
    BY <1>9 DEF Reopen, TypeOK, damage
  <2>2. /\ nodeTier' \in [Nodes -> Tier] /\ edgeTier' \in [Links -> Tier]
        /\ before' \in [Links -> Tier]
    BY <1>9 DEF Reopen, TypeOK, Tier
  <2>3. nodeCount' \in Nat /\ edgeCount' \in Nat
    BY <1>9, PresentFinite DEF Reopen
  <2>4. depth' \in [Nodes -> 0..Unseen] /\ found' \in [Nodes -> 0..Unseen]
    BY <1>9 DEF Reopen, Unseen
  <2>5. /\ stage' \in [Writers -> {"idle", "from", "to", "edge"}]
        /\ job' \in [Writers -> [edge : Links, tier : Written] \cup {NoLink}]
        /\ \A v \in Writers : stage'[v] = "idle" <=> job'[v] = NoLink
    BY <1>9 DEF Reopen
  <2> QED
    BY <2>1, <2>2, <2>3, <2>4, <2>5 DEF TypeOK
<1>11. ASSUME Rot PROVE TypeOK'
  <2>1. /\ UNCHANGED <<durable, nodeTier, edgeTier, nodeCount, edgeCount, writers, walk>>
        /\ troubles' \in 0..MaxTroubles
    BY <1>11 DEF Rot, TypeOK
  <2>2. badNodes' \in SUBSET Nodes /\ badEdges' \in SUBSET Links
    BY <1>11 DEF Rot, TypeOK
  <2> QED
    BY <2>1, <2>2 DEF TypeOK, writers, walk
<1>10. CASE UNCHANGED vars
  BY <1>10 DEF TypeOK, vars, graph, damage, writers, walk
<1> QED
  BY <1>1, <1>2, <1>3, <1>4, <1>5, <1>6, <1>7, <1>8, <1>9, <1>10, <1>11 DEF Next, Walker

(* Type correctness.                                                       *)
THEOREM TypeCorrect == Spec => []TypeOK
<1> QED
  BY TypeInit, TypeStep, PTL DEF Spec
----------------------------------------------------------------------------
(* What a step may do to the graph: nothing, one merge of a node or of an  *)
(* edge, a row gone bad, or the loss of a memory.                          *)
NodeMerged == /\ UNCHANGED <<edgeTier, edgeCount, damage, durable>>
              /\ \E n \in Nodes, t \in Written :
                   /\ Replaces(t, nodeTier[n]) /\ ~NodeRefused(n, t)
                   /\ nodeTier' = [nodeTier EXCEPT ![n] = t]
                   /\ nodeCount' = IF nodeTier[n] = "absent" THEN nodeCount + 1 ELSE nodeCount

EdgeMerged == /\ UNCHANGED <<nodeTier, nodeCount, damage, durable>>
              /\ \E w \in Writers : LET e == job[w].edge
                                      t == job[w].tier
                                  IN /\ stage[w] = "edge"
                                     /\ Replaces(t, edgeTier[e]) /\ ~EdgeRefused(e, t)
                                     /\ edgeTier' = [edgeTier EXCEPT ![e] = t]
                                     /\ edgeCount' = IF edgeTier[e] = "absent"
                                                     THEN edgeCount + 1 ELSE edgeCount

Lost == /\ nodeTier' = [n \in Nodes |-> "absent"] /\ edgeTier' = [e \in Links |-> "absent"]
        /\ nodeCount' = 0 /\ edgeCount' = 0
        /\ stage' = [w \in Writers |-> "idle"]
        /\ ~durable /\ UNCHANGED durable

Rotted == /\ UNCHANGED <<nodeTier, edgeTier, nodeCount, edgeCount, durable>>
          /\ badNodes \subseteq badNodes' /\ badEdges \subseteq badEdges'

Recounted == /\ UNCHANGED <<nodeTier, edgeTier, damage, durable>>
             /\ nodeCount' = Cardinality(Present(nodeTier))
             /\ edgeCount' = Cardinality(Present(edgeTier))

LEMMA OneMerge ==
  ASSUME TypeOK, NEW n \in Nodes, NEW t \in Written, NEW b \in BOOLEAN,
         MergeNode(n, t, b), ~NodeRefused(n, t), UNCHANGED durable
  PROVE  UNCHANGED <<graph, durable>> \/ NodeMerged
<1>1. CASE NodeWrites(n, t, b)
  <2>1. Replaces(t, nodeTier[n])
    BY <1>1 DEF NodeWrites, Replaces
  <2> QED
    BY <1>1, <2>1 DEF MergeNode, NodeMerged
<1>2. CASE ~NodeWrites(n, t, b)
  BY <1>2 DEF MergeNode, graph
<1> QED
  BY <1>1, <1>2

LEMMA MergeSteps ==
  TypeOK /\ [Next]_vars
    => UNCHANGED <<graph, durable>> \/ NodeMerged \/ EdgeMerged \/ Rotted \/ Reopen
<1> SUFFICES ASSUME TypeOK, [Next]_vars
             PROVE  UNCHANGED <<graph, durable>> \/ NodeMerged \/ EdgeMerged \/ Rotted \/ Reopen
  OBVIOUS
<1>1. ASSUME NEW n \in Nodes, NEW t \in Written, PutNode(n, t)
      PROVE  UNCHANGED <<graph, durable>> \/ NodeMerged
  BY <1>1, OneMerge DEF PutNode
<1>2. ASSUME NEW w \in Writers, PutFrom(w) \/ PutTo(w)
      PROVE  UNCHANGED <<graph, durable>> \/ NodeMerged
  <2>1. stage[w] # "idle"
    BY <1>2 DEF PutFrom, PutTo
  <2>2. CASE UNCHANGED graph
    BY <1>2, <2>2 DEF PutFrom, PutTo
  <2>3. CASE \E n \in Nodes, t \in Written : MergeNode(n, t, TRUE) /\ ~NodeRefused(n, t)
    BY <1>2, <2>3, OneMerge DEF PutFrom, PutTo
  <2> QED
    BY <1>2, <2>1, <2>2, <2>3, Jobs DEF PutFrom, PutTo
<1>3. ASSUME NEW w \in Writers, PutEdge(w)
      PROVE  UNCHANGED <<graph, durable>> \/ EdgeMerged
  BY <1>3 DEF PutEdge, MergeEdge, EdgeMerged, graph
<1>4. CASE \E w \in Writers : CommitFails(w) \/ \E e \in Links, t \in Written : Ask(w, e, t)
  BY <1>4 DEF CommitFails, Ask
<1>5. CASE (\E rels \in Filters : Begin(rels)) \/ Walker
  BY <1>5 DEF Begin, Walker, Again, Reply, Expand, Horizon
<1>6. CASE UNCHANGED vars
  BY <1>6 DEF vars
<1>7. CASE Rot
  BY <1>7 DEF Rot, Rotted
<1> QED
  BY <1>1, <1>2, <1>3, <1>4, <1>5, <1>6, <1>7 DEF Next, Writer

LEMMA GraphSteps ==
  TypeOK /\ [Next]_vars
    => UNCHANGED <<graph, durable>> \/ NodeMerged \/ EdgeMerged \/ Rotted \/ Lost
         \/ Recounted
<1>1. TypeOK /\ Reopen => Lost \/ Recounted
  BY DEF Reopen, Lost, Recounted, TypeOK
<1> QED
  BY <1>1, MergeSteps

(* No step but the loss of a memory takes a node or an edge away, or makes *)
(* less of its tier.                                                       *)
LEMMA MergesKeep ==
  ASSUME TypeOK,
         UNCHANGED <<graph, durable>> \/ NodeMerged \/ EdgeMerged \/ Rotted \/ Recounted
  PROVE  /\ \A n \in Nodes : nodeTier[n] # "absent" => nodeTier'[n] # "absent"
         /\ \A e \in Links : edgeTier[e] # "absent" => edgeTier'[e] # "absent"
         /\ \A e \in Links : edgeTier[e] = "curated" => edgeTier'[e] = "curated"
<1>1. CASE UNCHANGED <<graph, durable>> \/ Rotted \/ Recounted
  BY <1>1 DEF graph, Rotted, Recounted
<1>2. CASE NodeMerged
  BY <1>2 DEF NodeMerged, Written, TypeOK
<1>3. CASE EdgeMerged
  BY <1>3, Jobs DEF EdgeMerged, Written, TypeOK, Replaces
<1> QED
  BY <1>1, <1>2, <1>3

LEMMA Monotone ==
  ASSUME TypeOK, [Next]_vars, ~Lost
  PROVE  /\ \A n \in Nodes : nodeTier[n] # "absent" => nodeTier'[n] # "absent"
         /\ \A e \in Links : edgeTier[e] # "absent" => edgeTier'[e] # "absent"
         /\ \A e \in Links : edgeTier[e] = "curated" => edgeTier'[e] = "curated"
  BY GraphSteps, MergesKeep
----------------------------------------------------------------------------
(* An edge has its ends: a writer past the merge of an end knows that it   *)
(* is there, since nothing but the loss of everything takes nodes away.    *)
Placed == \A w \in Writers :
            /\ stage[w] \in {"to", "edge"} => nodeTier[job[w].edge.from] # "absent"
            /\ stage[w] = "edge" => nodeTier[job[w].edge.to] # "absent"

LEMMA PlacedStep == TypeOK /\ Placed /\ [Next]_vars => Placed'
<1> SUFFICES ASSUME TypeOK, Placed, [Next]_vars, NEW w \in Writers
             PROVE  /\ stage'[w] \in {"to", "edge"} => nodeTier'[job'[w].edge.from] # "absent"
                    /\ stage'[w] = "edge" => nodeTier'[job'[w].edge.to] # "absent"
  BY DEF Placed
<1>1. CASE Lost \/ stage'[w] \in {"idle", "from"}
  BY <1>1 DEF Lost
<1>2. CASE ~Lost /\ stage'[w] = stage[w] /\ job'[w] = job[w]
  <2>1. CASE stage[w] = "idle"
    BY <1>2, <2>1
  <2>2. CASE stage[w] # "idle"
    BY <1>2, <2>2, Jobs, Monotone DEF Placed
  <2> QED
    BY <2>1, <2>2
<1>3. CASE PutFrom(w) /\ stage'[w] = "to"
  BY <1>3, Jobs DEF PutFrom, Return, Goto, MergeNode, NodeWrites, Written, TypeOK
<1>4. CASE PutTo(w) /\ stage'[w] = "edge"
  BY <1>4, Jobs DEF PutTo, Return, Goto, MergeNode, NodeWrites, Written, TypeOK, Placed
<1>5. \/ stage'[w] \in {"idle", "from"}
      \/ stage'[w] = stage[w] /\ job'[w] = job[w]
      \/ PutFrom(w) /\ stage'[w] = "to"
      \/ PutTo(w) /\ stage'[w] = "edge"
  <2>1. CASE \E v \in Writers : PutFrom(v) \/ PutTo(v)
    BY <2>1 DEF PutFrom, PutTo, Return, Goto, TypeOK
  <2>2. CASE \E v \in Writers : PutEdge(v) \/ CommitFails(v)
    BY <2>2 DEF PutEdge, CommitFails, Return, TypeOK
  <2>3. CASE \E v \in Writers, e \in Links, t \in Written : Ask(v, e, t)
    BY <2>3 DEF Ask, TypeOK
  <2>4. CASE Reopen
    BY <2>4 DEF Reopen
  <2>5. CASE UNCHANGED <<stage, job>>
    BY <2>5
  <2> QED
    BY <2>1, <2>2, <2>3, <2>4, <2>5
    DEF Next, Writer, PutNode, Begin, Walker, Again, Reply, Expand, Horizon, Rot, writers, vars
<1> QED
  BY <1>1, <1>2, <1>3, <1>4, <1>5

(* A link whose last merge has an edge has both ends.                      *)
LEMMA EndsStep == TypeOK /\ Placed /\ EdgeEnds /\ [Next]_vars => EdgeEnds'
<1> SUFFICES ASSUME TypeOK, Placed, EdgeEnds, [Next]_vars, NEW e \in Links,
                    edgeTier'[e] # "absent"
             PROVE  nodeTier'[e.from] # "absent" /\ nodeTier'[e.to] # "absent"
  BY DEF EdgeEnds
<1>1. CASE Lost
  BY <1>1 DEF Lost
<1>2. CASE ~Lost /\ edgeTier[e] # "absent"
  BY <1>2, Monotone, Given DEF EdgeEnds
<1>3. CASE ~Lost /\ edgeTier[e] = "absent"
  <2>1. EdgeMerged
    BY <1>3, GraphSteps DEF graph, NodeMerged, Rotted, Recounted
  <2>2. PICK w \in Writers : stage[w] = "edge" /\ edgeTier' = [edgeTier EXCEPT ![job[w].edge] = job[w].tier]
    BY <2>1 DEF EdgeMerged
  <2>3. job[w].edge = e
    BY <1>3, <2>2, Jobs DEF TypeOK
  <2> QED
    BY <2>1, <2>2, <2>3 DEF EdgeMerged, Placed
<1> QED
  BY <1>1, <1>2, <1>3

LEMMA EndsInit == Init => Placed /\ EdgeEnds
  BY DEF Init, Placed, EdgeEnds

LEMMA EndsAlways == Spec => [](TypeOK /\ Placed /\ EdgeEnds)
<1>1. TypeOK /\ Placed /\ EdgeEnds /\ [Next]_vars => (TypeOK /\ Placed /\ EdgeEnds)'
  BY TypeStep, PlacedStep, EndsStep
<1> QED
  BY TypeInit, EndsInit, <1>1, PTL DEF Spec

(* No edge ever dangles, whatever comes between the merges of a link.      *)
THEOREM NoDanglingEdge == Spec => []EdgeEnds
<1> QED
  BY EndsAlways, PTL
----------------------------------------------------------------------------
(* The merges implement the abstract tiers, for nodes and for edges.       *)
THEOREM Refinement == Spec => OnlyRise
<1>1. Init => NodeTiers!Init /\ EdgeTiers!Init
  BY DEF Init, NodeTiers!Init, EdgeTiers!Init
<1>2. TypeOK /\ [Next]_vars => [NodeTiers!Next]_NodeTiers!vars /\ [EdgeTiers!Next]_EdgeTiers!vars
  <2> SUFFICES ASSUME TypeOK, [Next]_vars
               PROVE  [NodeTiers!Next]_NodeTiers!vars /\ [EdgeTiers!Next]_EdgeTiers!vars
    OBVIOUS
  <2> USE DEF NodeTiers!vars, EdgeTiers!vars, NodeTiers!Next, EdgeTiers!Next
  <2>1. CASE UNCHANGED <<graph, durable>> \/ Rotted \/ Recounted
    BY <2>1 DEF graph, Rotted, Recounted
  <2>2. CASE NodeMerged
    <3>1. PICK n \in Nodes, t \in Written :
            Replaces(t, nodeTier[n]) /\ nodeTier' = [nodeTier EXCEPT ![n] = t]
      BY <2>2 DEF NodeMerged
    <3>2. UNCHANGED <<edgeTier, durable>>
      BY <2>2 DEF NodeMerged
    <3>3. CASE t = nodeTier[n]
      BY <3>1, <3>2, <3>3 DEF TypeOK
    <3>4. CASE t # nodeTier[n]
      <4>1. nodeTier'[n] = t
        BY <3>1 DEF TypeOK
      <4>2. NodeTiers!Rank[t] > NodeTiers!Rank[nodeTier[n]]
        BY <3>1, <3>4 DEF NodeTiers!Rank, NodeTiers!Tier, TypeOK, Tier, Written, Replaces
      <4>3. NodeTiers!Rise(n)
        BY <3>1, <3>2, <4>1, <4>2 DEF NodeTiers!Rise, NodeTiers!Tier, Written
      <4> QED
        BY <3>2, <4>3
    <3> QED
      BY <3>3, <3>4
  <2>3. CASE EdgeMerged
    <3>1. PICK w \in Writers :
            /\ stage[w] = "edge" /\ Replaces(job[w].tier, edgeTier[job[w].edge])
            /\ edgeTier' = [edgeTier EXCEPT ![job[w].edge] = job[w].tier]
      BY <2>3 DEF EdgeMerged
    <3>2. UNCHANGED <<nodeTier, durable>>
      BY <2>3 DEF EdgeMerged
    <3> DEFINE e == job[w].edge
               t == job[w].tier
    <3>3. e \in Links /\ t \in Written
      BY <3>1, Jobs
    <3>4. CASE t = edgeTier[e]
      BY <3>1, <3>2, <3>3, <3>4 DEF TypeOK
    <3>5. CASE t # edgeTier[e]
      <4>1. edgeTier'[e] = t
        BY <3>1, <3>3 DEF TypeOK
      <4>2. EdgeTiers!Rank[t] > EdgeTiers!Rank[edgeTier[e]]
        BY <3>1, <3>3, <3>5 DEF EdgeTiers!Rank, EdgeTiers!Tier, TypeOK, Tier, Written, Replaces
      <4>3. EdgeTiers!Rise(e)
        BY <3>1, <3>2, <3>3, <4>1, <4>2 DEF EdgeTiers!Rise, EdgeTiers!Tier, Written
      <4> QED
        BY <3>2, <3>3, <4>3
    <3> QED
      BY <3>4, <3>5
  <2>4. CASE Lost
    BY <2>4 DEF Lost, NodeTiers!Forget, EdgeTiers!Forget
  <2> QED
    BY <2>1, <2>2, <2>3, <2>4, GraphSteps
<1> QED
  BY <1>1, <1>2, TypeCorrect, PTL DEF Spec, OnlyRise, NodeTiers!Spec, EdgeTiers!Spec

(* Nothing observed keeps out what is curated: only a failed commit, a kill *)
(* or a bad row does.                                                      *)
THEOREM CuratedAdmitted == Spec => NeverStarved
<1> DEFINE Ends == \A w \in Writers :
                     stage[w] # "idle" /\ stage'[w] = "idle" /\ job[w].tier = "curated"
                     => \/ edgeTier'[job[w].edge] = "curated" \/ troubles' # troubles
                        \/ job[w].edge \in badEdges
                        \/ {job[w].edge.from, job[w].edge.to} \cap badNodes # {}
<1>1. TypeOK /\ [Next]_vars => [Ends]_vars
  <2> SUFFICES ASSUME TypeOK, Next, NEW w \in Writers,
                      stage[w] # "idle", stage'[w] = "idle", job[w].tier = "curated",
                      job[w].edge \notin badEdges,
                      job[w].edge.from \notin badNodes, job[w].edge.to \notin badNodes
               PROVE  edgeTier'[job[w].edge] = "curated" \/ troubles' # troubles
    OBVIOUS
  <2>1. CASE (\E v \in Writers : CommitFails(v)) \/ Reopen \/ Rot
    BY <2>1 DEF CommitFails, Reopen, Rot, TypeOK
  <2>2. CASE \E v \in Writers : PutFrom(v) \/ PutTo(v)
    <3>1. PICK v \in Writers : PutFrom(v) \/ PutTo(v)
      BY <2>2
    <3>2. v = w
      BY <3>1 DEF PutFrom, PutTo, Return, Goto, TypeOK
    <3> QED
      BY <3>1, <3>2 DEF PutFrom, PutTo, NodeRefused, Capped, Goto, TypeOK
  <2>3. CASE \E v \in Writers : PutEdge(v)
    <3>1. PICK v \in Writers : PutEdge(v)
      BY <2>3
    <3>2. v = w
      BY <3>1 DEF PutEdge, Return, TypeOK
    <3>3. ~EdgeRefused(job[w].edge, job[w].tier)
      BY DEF EdgeRefused, Capped
    <3>4. edgeTier' = [edgeTier EXCEPT ![job[w].edge] = "curated"]
      BY <3>1, <3>2, <3>3 DEF PutEdge, MergeEdge, Replaces
    <3> QED
      BY <3>4, Jobs DEF TypeOK
  <2>4. CASE \E v \in Writers, e \in Links, t \in Written : Ask(v, e, t)
    BY <2>4 DEF Ask, TypeOK
  <2>5. CASE UNCHANGED stage
    BY <2>5
  <2> QED
    BY <2>1, <2>2, <2>3, <2>4, <2>5
    DEF Next, Writer, PutNode, Begin, Walker, Again, Reply, Expand, Horizon, writers
<1> QED
  BY <1>1, TypeCorrect, PTL DEF Spec, NeverStarved
----------------------------------------------------------------------------
(* The capacities hold because the live counts are exact.                  *)
LEMMA OneMore ==
  ASSUME NEW S, IsFiniteSet(S), NEW x, NEW T, T \subseteq S \cup {x}
  PROVE  /\ IsFiniteSet(T) /\ Cardinality(T) \in Nat /\ Cardinality(S) \in Nat
         /\ Cardinality(T) <= Cardinality(S) + 1
<1>0. Cardinality(S) \in Nat
  BY FS_CardinalityType
<1>1. IsFiniteSet(S \cup {x}) /\ Cardinality(S \cup {x}) <= Cardinality(S) + 1
  BY <1>0, FS_AddElement
<1>2. IsFiniteSet(T) /\ Cardinality(T) <= Cardinality(S \cup {x})
  BY <1>1, FS_Subset
<1>3. Cardinality(S \cup {x}) \in Nat /\ Cardinality(T) \in Nat
  BY <1>1, <1>2, FS_CardinalityType
<1> QED
  BY <1>0, <1>1, <1>2, <1>3

LEMMA Fewer ==
  ASSUME NEW S, IsFiniteSet(S), NEW T, T \subseteq S
  PROVE  /\ IsFiniteSet(T) /\ Cardinality(T) \in Nat /\ Cardinality(S) \in Nat
         /\ Cardinality(T) <= Cardinality(S)
  BY FS_Subset, FS_CardinalityType

Observed(tier) == {k \in DOMAIN tier : tier[k] = "ingest"}

Counted == /\ CountExact
           /\ Cardinality(Observed(nodeTier)) <= MaxFacts
           /\ Cardinality(Observed(edgeTier)) <= MaxFacts
Hub(n) == {e \in Indexed(n) : edgeTier[e] = "ingest"}
Thin   == \A n \in Nodes : Cardinality(Hub(n)) <= MaxOutDegree

LEMMA CountedStep == TypeOK /\ Counted /\ [Next]_vars => Counted'
<1> SUFFICES ASSUME TypeOK, Counted, [Next]_vars PROVE Counted'
  OBVIOUS
<1> USE DEF Counted, CountExact
<1>0. /\ IsFiniteSet(Nodes) /\ IsFiniteSet(Links)
      /\ nodeTier \in [Nodes -> Tier] /\ edgeTier \in [Links -> Tier]
  BY Given DEF TypeOK
<1>1. CASE UNCHANGED <<graph, durable>> \/ Rotted \/ Recounted
  BY <1>1 DEF graph, Rotted, Recounted, Present, Observed
<1>2. CASE NodeMerged
  <2>1. PICK n \in Nodes, t \in Written :
          /\ Replaces(t, nodeTier[n]) /\ ~Capped(t, nodeTier[n], nodeCount)
          /\ nodeTier' = [nodeTier EXCEPT ![n] = t]
          /\ nodeCount' = IF nodeTier[n] = "absent" THEN nodeCount + 1 ELSE nodeCount
    BY <1>2 DEF NodeMerged, NodeRefused
  <2>2. UNCHANGED <<edgeTier, edgeCount>>
    BY <1>2 DEF NodeMerged
  <2>3. /\ nodeTier' \in [Nodes -> Tier] /\ nodeTier'[n] = t
        /\ \A j \in Nodes \ {n} : nodeTier'[j] = nodeTier[j]
    BY <2>1, <1>0 DEF Written, Tier
  <2>4. /\ Present(nodeTier') = Present(nodeTier) \cup {n}
        /\ n \in Present(nodeTier) <=> nodeTier[n] # "absent"
    BY <2>1, <2>3, <1>0 DEF Present, Written
  <2>5. /\ Present(nodeTier) \subseteq Nodes /\ Observed(nodeTier) \subseteq Present(nodeTier)
    BY <1>0 DEF Present, Observed
  <2>6. \/ Observed(nodeTier') \subseteq Observed(nodeTier)
        \/ /\ Observed(nodeTier') \subseteq Observed(nodeTier) \cup {n}
           /\ Cardinality(Present(nodeTier)) < MaxFacts
    <3>1. CASE t = "ingest" /\ nodeTier[n] = "absent"
      <4>1. Observed(nodeTier') \subseteq Observed(nodeTier) \cup {n}
        BY <2>3, <1>0 DEF Observed
      <4>2. Cardinality(Present(nodeTier)) < MaxFacts
        BY <2>1, <3>1, <2>5, <1>0, Fewer, Given DEF Capped
      <4> QED
        BY <4>1, <4>2
    <3>2. CASE ~(t = "ingest" /\ nodeTier[n] = "absent")
      BY <2>1, <3>2, <2>3, <1>0 DEF Observed, Replaces, Written, Tier
    <3> QED
      BY <3>1, <3>2
  <2>7. IsFiniteSet(Present(nodeTier))
    BY <2>5, <1>0, Fewer
  <2>8. /\ nodeCount' = Cardinality(Present(nodeTier'))
        /\ Cardinality(Observed(nodeTier')) <= MaxFacts
    <3>1. Cardinality(Observed(nodeTier)) <= MaxFacts /\ nodeCount = Cardinality(Present(nodeTier))
      OBVIOUS
    <3>2. Cardinality(Observed(nodeTier')) <= MaxFacts
      <4>1. /\ IsFiniteSet(Observed(nodeTier)) /\ Cardinality(Observed(nodeTier)) \in Nat
            /\ Cardinality(Observed(nodeTier)) <= Cardinality(Present(nodeTier))
            /\ Cardinality(Present(nodeTier)) \in Nat
        BY <2>5, <2>7, Fewer
      <4>2. CASE Observed(nodeTier') \subseteq Observed(nodeTier)
        BY <3>1, <4>1, <4>2, Fewer, Given
      <4>3. CASE /\ Observed(nodeTier') \subseteq Observed(nodeTier) \cup {n}
                 /\ Cardinality(Present(nodeTier)) < MaxFacts
        <5>1. Cardinality(Observed(nodeTier')) \in Nat
              /\ Cardinality(Observed(nodeTier')) <= Cardinality(Observed(nodeTier)) + 1
          BY <4>1, <4>3, OneMore
        <5> QED
          BY <4>1, <4>3, <5>1, Given
      <4> QED
        BY <2>6, <4>2, <4>3
    <3>3. Cardinality(Present(nodeTier) \cup {n})
            = IF n \in Present(nodeTier) THEN Cardinality(Present(nodeTier)) ELSE Cardinality(Present(nodeTier)) + 1
      BY <2>7, FS_AddElement
    <3> QED
      BY <2>1, <2>4, <3>1, <3>2, <3>3
  <2> QED
    BY <2>2, <2>8
<1>3. CASE EdgeMerged
  <2>1. PICK w \in Writers :
          /\ stage[w] = "edge" /\ Replaces(job[w].tier, edgeTier[job[w].edge])
          /\ ~Capped(job[w].tier, edgeTier[job[w].edge], edgeCount)
          /\ edgeTier' = [edgeTier EXCEPT ![job[w].edge] = job[w].tier]
          /\ edgeCount' = IF edgeTier[job[w].edge] = "absent" THEN edgeCount + 1 ELSE edgeCount
    BY <1>3 DEF EdgeMerged, EdgeRefused
  <2>2. UNCHANGED <<nodeTier, nodeCount>>
    BY <1>3 DEF EdgeMerged
  <2> DEFINE e == job[w].edge
             t == job[w].tier
  <2>0. e \in Links /\ t \in Written
    BY <2>1, Jobs
  <2>3. /\ edgeTier' \in [Links -> Tier] /\ edgeTier'[e] = t
        /\ \A j \in Links \ {e} : edgeTier'[j] = edgeTier[j]
    BY <2>0, <2>1, <1>0 DEF Written, Tier
  <2>4. /\ Present(edgeTier') = Present(edgeTier) \cup {e}
        /\ e \in Present(edgeTier) <=> edgeTier[e] # "absent"
    BY <2>0, <2>1, <2>3, <1>0 DEF Present, Written
  <2>5. /\ Present(edgeTier) \subseteq Links /\ Observed(edgeTier) \subseteq Present(edgeTier)
    BY <1>0 DEF Present, Observed
  <2>6. \/ Observed(edgeTier') \subseteq Observed(edgeTier)
        \/ /\ Observed(edgeTier') \subseteq Observed(edgeTier) \cup {e}
           /\ Cardinality(Present(edgeTier)) < MaxFacts
    <3>1. CASE t = "ingest" /\ edgeTier[e] = "absent"
      <4>1. Observed(edgeTier') \subseteq Observed(edgeTier) \cup {e}
        BY <2>3, <1>0 DEF Observed
      <4>2. Cardinality(Present(edgeTier)) < MaxFacts
        BY <2>0, <2>1, <3>1, <2>5, <1>0, Fewer, Given DEF Capped
      <4> QED
        BY <4>1, <4>2
    <3>2. CASE ~(t = "ingest" /\ edgeTier[e] = "absent")
      BY <2>0, <2>1, <3>2, <2>3, <1>0 DEF Observed, Replaces, Written, Tier
    <3> QED
      BY <3>1, <3>2
  <2>7. IsFiniteSet(Present(edgeTier))
    BY <2>5, <1>0, Fewer
  <2>8. /\ edgeCount' = Cardinality(Present(edgeTier'))
        /\ Cardinality(Observed(edgeTier')) <= MaxFacts
    <3>1. Cardinality(Observed(edgeTier)) <= MaxFacts /\ edgeCount = Cardinality(Present(edgeTier))
      OBVIOUS
    <3>2. Cardinality(Observed(edgeTier')) <= MaxFacts
      <4>1. /\ IsFiniteSet(Observed(edgeTier)) /\ Cardinality(Observed(edgeTier)) \in Nat
            /\ Cardinality(Observed(edgeTier)) <= Cardinality(Present(edgeTier))
            /\ Cardinality(Present(edgeTier)) \in Nat
        BY <2>5, <2>7, Fewer
      <4>2. CASE Observed(edgeTier') \subseteq Observed(edgeTier)
        BY <3>1, <4>1, <4>2, Fewer, Given
      <4>3. CASE /\ Observed(edgeTier') \subseteq Observed(edgeTier) \cup {e}
                 /\ Cardinality(Present(edgeTier)) < MaxFacts
        <5>1. Cardinality(Observed(edgeTier')) \in Nat
              /\ Cardinality(Observed(edgeTier')) <= Cardinality(Observed(edgeTier)) + 1
          BY <4>1, <4>3, OneMore
        <5> QED
          BY <4>1, <4>3, <5>1, Given
      <4> QED
        BY <2>6, <4>2, <4>3
    <3>3. Cardinality(Present(edgeTier) \cup {e})
            = IF e \in Present(edgeTier) THEN Cardinality(Present(edgeTier)) ELSE Cardinality(Present(edgeTier)) + 1
      BY <2>7, FS_AddElement
    <3> QED
      BY <2>0, <2>1, <2>4, <3>1, <3>2, <3>3
  <2> QED
    BY <2>2, <2>8
<1>4. CASE Lost
  <2>1. /\ Present(nodeTier') = {} /\ Present(edgeTier') = {}
        /\ Observed(nodeTier') = {} /\ Observed(edgeTier') = {}
    BY <1>4 DEF Lost, Present, Observed
  <2>2. Cardinality({}) = 0
    BY FS_EmptySet
  <2>3. nodeCount' = 0 /\ edgeCount' = 0
    BY <1>4 DEF Lost
  <2> QED
    BY <2>1, <2>2, <2>3, Given
<1> QED
  BY <1>1, <1>2, <1>3, <1>4, GraphSteps

LEMMA ThinStep == TypeOK /\ Thin /\ [Next]_vars => Thin'
<1> SUFFICES ASSUME TypeOK, Thin, [Next]_vars, NEW n \in Nodes
             PROVE  Cardinality(Hub(n)') <= MaxOutDegree
  BY DEF Thin
<1> USE DEF Hub, Indexed
<1>0. /\ IsFiniteSet(Indexed(n)) /\ IsFiniteSet(Hub(n))
      /\ Cardinality(Indexed(n)) \in Nat /\ Cardinality(Hub(n)) \in Nat
      /\ Cardinality(Hub(n)) <= Cardinality(Indexed(n))
  <2>1. Indexed(n) \subseteq Links /\ Hub(n) \subseteq Indexed(n)
    OBVIOUS
  <2> QED
    BY <2>1, Given, Fewer
<1>1. CASE Hub(n)' \subseteq Hub(n)
  <2>1. Cardinality(Hub(n)') \in Nat /\ Cardinality(Hub(n)') <= Cardinality(Hub(n))
    BY <1>0, <1>1, Fewer
  <2> QED
    BY <1>0, <2>1, Given DEF Thin
<1>2. CASE UNCHANGED edgeTier
  BY <1>1, <1>2
<1>3. CASE Lost
  BY <1>1, <1>3 DEF Lost
<1>4. CASE EdgeMerged
  <2>1. PICK w \in Writers :
          /\ stage[w] = "edge" /\ Replaces(job[w].tier, edgeTier[job[w].edge])
          /\ ~EdgeRefused(job[w].edge, job[w].tier)
          /\ edgeTier' = [edgeTier EXCEPT ![job[w].edge] = job[w].tier]
    BY <1>4 DEF EdgeMerged
  <2> DEFINE e == job[w].edge
  <2>2. e \in Links /\ job[w].tier \in Written
    BY <2>1, Jobs
  <2>3. CASE job[w].tier = "ingest" /\ edgeTier[e] = "absent" /\ e.from = n
    <3>1. Cardinality(Indexed(n)) < MaxOutDegree
      BY <2>1, <2>3, <1>0, Given DEF EdgeRefused
    <3>2. Hub(n)' \subseteq Hub(n) \cup {e}
      BY <2>1, <2>2 DEF TypeOK
    <3>3. Cardinality(Hub(n)') \in Nat /\ Cardinality(Hub(n)') <= Cardinality(Hub(n)) + 1
      BY <1>0, <3>2, OneMore
    <3> QED
      BY <1>0, <3>1, <3>3, Given
  <2>4. CASE ~(job[w].tier = "ingest" /\ edgeTier[e] = "absent" /\ e.from = n)
    <3>1. Hub(n)' \subseteq Hub(n)
      BY <2>1, <2>2, <2>4 DEF TypeOK, Tier, Written, Replaces
    <3> QED
      BY <1>1, <3>1
  <2> QED
    BY <2>3, <2>4
<1> QED
  BY <1>2, <1>3, <1>4, GraphSteps DEF graph, NodeMerged, Rotted, Recounted

LEMMA CountedInit == Init => Counted /\ Thin
<1> SUFFICES ASSUME Init PROVE Counted /\ Thin
  OBVIOUS
<1>1. /\ Present(nodeTier) = {} /\ Present(edgeTier) = {}
      /\ Observed(nodeTier) = {} /\ Observed(edgeTier) = {}
      /\ \A n \in Nodes : Hub(n) = {}
  BY DEF Init, Present, Observed, Hub, OutEdges, Indexed
<1>2. Cardinality({}) = 0
  BY FS_EmptySet
<1>3. nodeCount = 0 /\ edgeCount = 0
  BY DEF Init
<1>4. \A n \in Nodes : Cardinality(Hub(n)) = 0
  BY <1>1, <1>2
<1>5. 0 <= MaxFacts /\ 0 <= MaxOutDegree
  BY Given
<1>6. Thin
  BY <1>4, <1>5 DEF Thin
<1>7. Counted
  BY <1>1, <1>2, <1>3, <1>5 DEF Counted, CountExact
<1> QED
  BY <1>6, <1>7

(* What is only observed is bounded, and the counts that bound it are the  *)
(* numbers of rows.                                                        *)
THEOREM IngestIsBounded == Spec => [](IngestBounded /\ CountExact)
<1>1. TypeOK /\ Counted /\ Thin /\ [Next]_vars => (Counted /\ Thin)'
  BY CountedStep, ThinStep
<1>2. TypeOK /\ Counted /\ Thin => IngestBounded /\ CountExact
  <2> SUFFICES ASSUME TypeOK, Counted, Thin PROVE IngestBounded
    BY DEF Counted
  <2>1. /\ {n \in Nodes : nodeTier[n] = "ingest"} = Observed(nodeTier)
        /\ {e \in Links : edgeTier[e] = "ingest"} = Observed(edgeTier)
    BY DEF Observed, TypeOK
  <2> QED
    BY <2>1 DEF IngestBounded, Counted, Thin, Hub
<1> QED
  BY CountedInit, <1>1, <1>2, TypeCorrect, PTL DEF Spec
----------------------------------------------------------------------------
(* The walk.  Paths and reachability over edges E along relations R, with  *)
(* no state in them: Path and Reachable read allow.                        *)
Hop(E, R, a, b) == \E e \in E : e.from = a /\ e.to = b /\ e.rel \in R

Walks(E, R, d, n) == \E p \in [0..d -> Nodes] :
                       /\ p[0] = Start /\ p[d] = n
                       /\ \A i \in 0..d : i < d => Hop(E, R, p[i], p[i + 1])

Sealed(S, E, R) == Start \in S /\ \A a \in S, b \in Nodes : Hop(E, R, a, b) => b \in S
Within(E, R, n) == \A S \in SUBSET Nodes : Sealed(S, E, R) => n \in S

LEMMA PathWalks == \A E, d, n : Path(E, d, n) <=> Walks(E, allow, d, n)
  BY DEF Path, Step, Walks, Hop

LEMMA ReachableWithin == \A E : Reachable(E) = {n \in Nodes : Within(E, allow, n)}
  BY DEF Reachable, Closed, Step, Within, Sealed, Hop

(* More edges leave what was a path one, and what was reachable so.        *)
LEMMA MoreEdges ==
  ASSUME NEW E, NEW F, E \subseteq F, NEW R, NEW n
  PROVE  /\ \A d : Walks(E, R, d, n) => Walks(F, R, d, n)
         /\ Within(E, R, n) => Within(F, R, n)
<1>1. \A a, b : Hop(E, R, a, b) => Hop(F, R, a, b)
  BY DEF Hop
<1> QED
  BY <1>1 DEF Walks, Within, Sealed

LEMMA AtStart ==
  ASSUME NEW E, NEW R
  PROVE  /\ Walks(E, R, 0, Start) /\ Within(E, R, Start)
         /\ \A n : Walks(E, R, 0, n) => n = Start
<1> DEFINE p == [i \in 0..0 |-> Start]
<1>1. p \in [0..0 -> Nodes] /\ p[0] = Start
  BY Given
<1>2. Walks(E, R, 0, Start)
  <2>1. \A i \in 0..0 : i < 0 => Hop(E, R, p[i], p[i + 1])
    OBVIOUS
  <2> HIDE DEF p
  <2> QED
    BY <1>1, <2>1 DEF Walks
<1> QED
  BY <1>2 DEF Walks, Within, Sealed

(* One hop further.                                                        *)
LEMMA OneHop ==
  ASSUME NEW E, NEW R, NEW a \in Nodes, NEW b \in Nodes, Hop(E, R, a, b)
  PROVE  /\ Within(E, R, a) => Within(E, R, b)
         /\ \A d \in Nat : Walks(E, R, d, a) => Walks(E, R, d + 1, b)
<1>1. Within(E, R, a) => Within(E, R, b)
  BY DEF Within, Sealed
<1>2. ASSUME NEW d \in Nat, Walks(E, R, d, a) PROVE Walks(E, R, d + 1, b)
  <2>1. PICK p \in [0..d -> Nodes] :
          /\ p[0] = Start /\ p[d] = a
          /\ \A i \in 0..d : i < d => Hop(E, R, p[i], p[i + 1])
    BY <1>2 DEF Walks
  <2> DEFINE q == [i \in 0..(d + 1) |-> IF i <= d THEN p[i] ELSE b]
  <2>2. q \in [0..(d + 1) -> Nodes] /\ q[0] = Start /\ q[d + 1] = b
    BY <2>1
  <2>3. ASSUME NEW i \in 0..(d + 1), i < d + 1 PROVE Hop(E, R, q[i], q[i + 1])
    <3>1. CASE i < d
      <4>1. i \in 0..d /\ q[i] = p[i] /\ q[i + 1] = p[i + 1]
        BY <2>3, <3>1
      <4> QED
        BY <2>1, <3>1, <4>1
    <3>2. CASE i = d
      <4>1. q[i] = a /\ q[i + 1] = b
        BY <2>1, <3>2
      <4> QED
        BY <4>1
    <3> QED
      BY <2>3, <3>1, <3>2
  <2> QED
    BY <2>2, <2>3 DEF Walks
<1> QED
  BY <1>1, <1>2

(* What a walk knows of the nodes it has seen, and of those it has not.    *)
Seen(at) == {n \in Nodes : at[n] # Unseen}
Stored   == Present(edgeTier)
Legible  == Present(before) \ badEdges
Vouched  == Curated(before) \ badEdges

Basis ==
  /\ waiting \subseteq Seen(depth)
  /\ waiting # {} => spent <= MaxEdges
  /\ pass # "none" =>
       /\ depth[Start] = 0
       /\ Present(before) \subseteq Stored
       /\ \A n \in Seen(depth) \cup Seen(found) : nodeTier[n] # "absent"
  /\ pass \in {"curated", "answered"} => found[Start] = 0

Sound ==
  /\ pass = "all" =>
       \A n \in Seen(depth) : Walks(Stored, allow, depth[n], n) /\ Within(Stored, allow, n)
  /\ pass \in {"curated", "answered"} =>
       /\ \A n \in Seen(found) : Walks(Stored, allow, found[n], n)
       /\ \A n \in Seen(depth) : Walks(Curated(edgeTier), allow, depth[n], n)

(* Until it is cut, the first pass has followed every edge that was there  *)
(* when it began, and is legible still, from each node it has taken.       *)
Followed(S, at) == \A a \in S, b \in Nodes : Hop(Legible, allow, a, b) => at[b] # Unseen
Missing(at)  == \E n \in Nodes : at[n] = Unseen /\ Within(Stored, allow, n)

Covered ==
  /\ pass = "all" => IF truncated
                     THEN Missing(depth) /\ \A n \in waiting : depth[n] = MaxDepth
                     ELSE Followed(Seen(depth) \ waiting, depth)
  /\ pass \in {"curated", "answered"} => IF cut THEN Missing(found)
                                         ELSE Followed(Seen(found), found)

WalkInv == Basis /\ Sound /\ Covered

(* A step that leaves the walk alone leaves what it knows true.            *)
LEMMA Undisturbed ==
  ASSUME TypeOK, EdgeEnds, WalkInv, UNCHANGED walk,
         UNCHANGED <<graph, durable>> \/ NodeMerged \/ EdgeMerged \/ Rotted
  PROVE  WalkInv'
<1>0. /\ UNCHANGED <<pass, allow, depth, waiting, spent, truncated, found, cut, before>>
      /\ edgeTier \in [Links -> Tier] /\ nodeTier \in [Nodes -> Tier]
  BY DEF walk, TypeOK
<1>1. /\ DOMAIN edgeTier' = Links
      /\ \A n \in Nodes : nodeTier[n] # "absent" => nodeTier'[n] # "absent"
      /\ \A e \in Links : edgeTier[e] # "absent" => edgeTier'[e] # "absent"
      /\ \A e \in Links : edgeTier[e] = "curated" => edgeTier'[e] = "curated"
      /\ badEdges \subseteq badEdges'
  BY <1>0, MergesKeep DEF NodeMerged, EdgeMerged, Rotted, graph, damage
<1>2. Stored \subseteq Stored' /\ Curated(edgeTier) \subseteq Curated(edgeTier')
  BY <1>0, <1>1 DEF Stored, Present, Curated
<1>3. \A n : Within(Stored, allow, n) => Within(Stored', allow, n)
  BY <1>2, MoreEdges
<1>4. \A n, d : Walks(Stored, allow, d, n) => Walks(Stored', allow, d, n)
  BY <1>2, MoreEdges
<1>5. \A n, d : Walks(Curated(edgeTier), allow, d, n) => Walks(Curated(edgeTier'), allow, d, n)
  BY <1>2, MoreEdges
<1>6. Basis'
  BY <1>0, <1>1, <1>2 DEF WalkInv, Basis, Seen, Unseen
<1>7. Sound'
  BY <1>0, <1>3, <1>4, <1>5 DEF WalkInv, Sound, Seen, Unseen
<1>8. Covered'
  <2>1. \A a, b : Hop(Legible', allow, a, b) => Hop(Legible, allow, a, b)
    BY <1>0, <1>1 DEF Hop, Legible
  <2> QED
    BY <1>0, <1>3, <2>1 DEF WalkInv, Covered, Followed, Missing, Seen, Unseen
<1> QED
  BY <1>6, <1>7, <1>8 DEF WalkInv

(* A fresh edge is a hop of the pass, to a node that is there.             *)
LEMMA FreshHops ==
  ASSUME TypeOK, EdgeEnds, NEW n \in Nodes, NEW e \in Fresh(n)
  PROVE  /\ e \in Links /\ e.to \in Nodes /\ depth[e.to] = Unseen
         /\ nodeTier[e.to] # "absent"
         /\ Hop(Stored, allow, n, e.to)
         /\ pass = "curated" => Hop(Curated(edgeTier), allow, n, e.to)
<1>1. /\ e \in Links /\ e.from = n /\ edgeTier[e] # "absent" /\ e.rel \in allow
      /\ pass = "curated" => edgeTier[e] = "curated"
      /\ depth[e.to] = Unseen /\ DOMAIN edgeTier = Links
  BY DEF Fresh, OutEdges, Indexed, Follows, TypeOK
<1> QED
  BY <1>1, Given DEF EdgeEnds, Hop, Stored, Present, Curated

(* Every legible edge there was when the walk began leads, from a node taken *)
(* in the first pass, to a node seen before or by a fresh edge.            *)
LEMMA FollowsAll ==
  ASSUME TypeOK, Basis, pass = "all", NEW n \in Nodes, NEW b \in Nodes,
         Hop(Legible, allow, n, b)
  PROVE  depth[b] # Unseen \/ \E e \in Fresh(n) : e.to = b
<1>1. PICK e \in Legible : e.from = n /\ e.to = b /\ e.rel \in allow
  BY DEF Hop
<1>2. e \in Links \ badEdges /\ edgeTier[e] # "absent"
  BY <1>1 DEF Legible, Basis, Stored, Present, TypeOK
<1> QED
  BY <1>1, <1>2 DEF Fresh, OutEdges, Indexed, Follows

LEMMA BeginWalks ==
  ASSUME TypeOK, NEW rels \in Filters, Begin(rels)
  PROVE  WalkInv'
<1>1. /\ pass' = "all" /\ truncated' = FALSE /\ waiting' = {Start} /\ spent' = 0
      /\ depth' = [n \in Nodes |-> IF n = Start THEN 0 ELSE Unseen]
      /\ found' = [n \in Nodes |-> Unseen]
      /\ before' = edgeTier /\ UNCHANGED <<nodeTier, edgeTier>>
      /\ nodeTier[Start] # "absent"
  BY DEF Begin, graph
<1>2. Seen(depth') = {Start} /\ Seen(found') = {} /\ depth'[Start] = 0
  BY <1>1, Given DEF Seen, Unseen
<1>3. Basis'
  BY <1>1, <1>2, Given DEF Basis, Seen, Stored, Unseen
<1>4. Sound'
  BY <1>1, <1>2, AtStart DEF Sound, Seen, Stored, Unseen
<1>5. Seen(depth') \ waiting' = {}
  BY <1>1, <1>2
<1>6. Covered'
  BY <1>1, <1>5 DEF Covered, Followed, Seen, Unseen
<1> QED
  BY <1>3, <1>4, <1>6 DEF WalkInv

LEMMA ExpandWalks ==
  ASSUME TypeOK, TypeOK', EdgeEnds, WalkInv, NEW n \in Nodes, Expand(n)
  PROVE  WalkInv'
<1> DEFINE ends == {e.to : e \in Fresh(n)}
<1>1. PICK new \in SUBSET ends :
        /\ new \subseteq Nodes /\ \A m \in new : depth[m] = Unseen
        /\ depth' = [m \in Nodes |-> IF m \in new THEN depth[n] + 1 ELSE depth[m]]
        /\ depth[n] + 1 \in 1..MaxDepth
        /\ spent' \in 0..MaxEdges
        /\ \/ new # ends /\ waiting' = {} /\ truncated'
           \/ new = ends /\ truncated' = truncated /\ waiting' = (waiting \ {n}) \cup new
  BY Expansion
<1>2. /\ pass \in {"all", "curated"} /\ n \in waiting /\ depth[n] < MaxDepth
      /\ UNCHANGED <<nodeTier, edgeTier, badEdges, pass, allow, found, cut, before>>
  BY DEF Expand, Taken, graph, damage
<1>3. /\ MaxDepth \in Nat /\ depth \in [Nodes -> 0..Unseen] /\ depth[n] \in Nat
      /\ MaxEdges \in Nat /\ waiting \subseteq Nodes
  BY Given DEF TypeOK
<1>4. /\ n \in Seen(depth) /\ Start \in Nodes /\ depth[Start] = 0 /\ Start \notin new
      /\ waiting \subseteq Seen(depth)
  BY <1>1, <1>2, <1>3, Given DEF WalkInv, Basis, Unseen
<1>5. /\ Seen(depth') = Seen(depth) \cup new
      /\ \A m \in new : depth'[m] = depth[n] + 1
      /\ \A m \in Seen(depth) : m \notin new /\ depth'[m] = depth[m]
  BY <1>1, <1>3 DEF Seen, Unseen
<1>6. \A m \in ends : /\ m \in Nodes /\ nodeTier[m] # "absent" /\ depth[m] = Unseen
                      /\ Hop(Stored, allow, n, m)
                      /\ pass = "curated" => Hop(Curated(edgeTier), allow, n, m)
  BY FreshHops
<1> HIDE DEF ends
<1>7. Basis'
  <2>1. waiting' \subseteq Seen(depth')
    BY <1>1, <1>4, <1>5
  <2>2. \A m \in Seen(depth') \cup Seen(found') : nodeTier'[m] # "absent"
    BY <1>1, <1>2, <1>5, <1>6 DEF WalkInv, Basis, Seen
  <2>3. depth'[Start] = 0
    BY <1>1, <1>3, <1>4
  <2> QED
    BY <1>1, <1>2, <1>3, <2>1, <2>2, <2>3 DEF WalkInv, Basis, Seen, Stored, Unseen
<1>8. Sound'
  <2>1. CASE pass = "all"
    <3>1. \A m \in Seen(depth) : Walks(Stored, allow, depth[m], m) /\ Within(Stored, allow, m)
      BY <2>1 DEF WalkInv, Sound
    <3>2. \A m \in new : Walks(Stored, allow, depth[n] + 1, m) /\ Within(Stored, allow, m)
      BY <1>1, <1>3, <1>4, <1>6, <3>1, OneHop
    <3>3. \A m \in Seen(depth') : Walks(Stored, allow, depth'[m], m) /\ Within(Stored, allow, m)
      BY <1>5, <3>1, <3>2
    <3> QED
      BY <1>2, <2>1, <3>3 DEF Sound, Seen, Stored, Unseen
  <2>2. CASE pass = "curated"
    <3>1. \A m \in Seen(depth) : Walks(Curated(edgeTier), allow, depth[m], m)
      BY <2>2 DEF WalkInv, Sound
    <3>2. \A m \in new : Walks(Curated(edgeTier), allow, depth[n] + 1, m)
      BY <1>1, <1>3, <1>4, <1>6, <2>2, <3>1, OneHop
    <3>3. \A m \in Seen(depth') : Walks(Curated(edgeTier), allow, depth'[m], m)
      BY <1>5, <3>1, <3>2
    <3>4. \A m \in Seen(found) : Walks(Stored, allow, found[m], m)
      BY <2>2 DEF WalkInv, Sound
    <3> QED
      BY <1>2, <2>2, <3>3, <3>4 DEF Sound, Seen, Stored, Unseen
  <2> QED
    BY <1>2, <2>1, <2>2
<1>9. Covered'
  <2>1. CASE pass = "all"
    <3>1. ~truncated
      BY <1>2, <1>3, <2>1 DEF WalkInv, Covered
    <3>2. Followed(Seen(depth) \ waiting, depth)
      BY <2>1, <3>1 DEF WalkInv, Covered
    <3>3. CASE new # ends /\ waiting' = {} /\ truncated'
      <4>1. PICK m \in ends : m \notin new
        BY <3>3
      <4>2. m \in Nodes /\ depth'[m] = Unseen
        BY <1>1, <1>3, <1>6, <4>1
      <4>3. Within(Stored, allow, m)
        BY <1>4, <1>6, <2>1, <4>1, OneHop DEF WalkInv, Sound, Seen
      <4>4. Missing(depth')
        BY <4>2, <4>3 DEF Missing
      <4> QED
        BY <1>2, <2>1, <3>3, <4>4 DEF Covered, Missing, Stored, Unseen
    <3>4. CASE new = ends /\ truncated' = truncated /\ waiting' = (waiting \ {n}) \cup new
      <4>1. ASSUME NEW a \in Seen(depth') \ waiting', NEW b \in Nodes,
                   Hop(Legible, allow, a, b)
            PROVE  b \in Seen(depth')
        <5>1. a \in Nodes /\ a \in Seen(depth) /\ (a = n \/ a \notin waiting)
          BY <1>5, <3>4, <4>1 DEF Seen
        <5>2. CASE a = n
          <6>1. depth[b] # Unseen \/ b \in ends
            BY <2>1, <4>1, <5>2, FollowsAll DEF WalkInv, ends
          <6> QED
            BY <1>5, <3>4, <6>1 DEF Seen
        <5>3. CASE a # n
          BY <1>5, <3>2, <4>1, <5>1, <5>3 DEF Followed, Seen
        <5> QED
          BY <5>2, <5>3
      <4>2. Followed(Seen(depth') \ waiting', depth')
        BY <4>1 DEF Followed, Seen
      <4> QED
        BY <1>2, <2>1, <3>1, <3>4, <4>2 DEF Covered, Followed, Legible, Seen, Unseen
    <3> QED
      BY <1>1, <3>3, <3>4
  <2>2. CASE pass = "curated"
    BY <1>2, <2>2 DEF WalkInv, Covered, Missing, Followed, Legible, Seen, Stored, Unseen
  <2> QED
    BY <1>2, <2>1, <2>2
<1> QED
  BY <1>7, <1>8, <1>9 DEF WalkInv

LEMMA HorizonWalks ==
  ASSUME TypeOK, EdgeEnds, WalkInv, NEW n \in Nodes, Horizon(n)
  PROVE  WalkInv'
<1>1. /\ pass \in {"all", "curated"} /\ n \in waiting /\ depth[n] = MaxDepth
      /\ \A m \in waiting : depth[n] <= depth[m]
      /\ spent' = spent + Cardinality(Fresh(n))
      /\ truncated' = (truncated \/ Fresh(n) # {})
      /\ waiting' = IF spent' > MaxEdges THEN {} ELSE waiting \ {n}
      /\ UNCHANGED <<nodeTier, edgeTier, badEdges, pass, allow, depth, found, cut, before>>
  BY DEF Horizon, Taken, graph, damage
<1>2. /\ MaxDepth \in Nat /\ depth \in [Nodes -> 0..Unseen] /\ spent \in Nat
      /\ MaxEdges \in Nat /\ waiting \subseteq Nodes /\ spent <= MaxEdges
      /\ Cardinality(Fresh(n)) \in Nat
  BY <1>1, Given, FreshFinite DEF TypeOK, WalkInv, Basis
<1>3. waiting' \subseteq waiting /\ spent' \in Nat /\ (waiting' # {} => spent' <= MaxEdges)
  BY <1>1, <1>2
<1>4. Basis'
  BY <1>1, <1>3 DEF WalkInv, Basis, Seen, Stored, Unseen
<1>5. Sound'
  BY <1>1 DEF WalkInv, Sound, Seen, Stored, Unseen
<1>6. Covered'
  <2>1. CASE pass = "curated"
    BY <1>1, <2>1 DEF WalkInv, Covered, Missing, Followed, Legible, Seen, Stored, Unseen
  <2>2. CASE pass = "all" /\ truncated
    <3>1. Missing(depth) /\ \A m \in waiting' : depth[m] = MaxDepth
      BY <1>3, <2>2 DEF WalkInv, Covered
    <3> QED
      BY <1>1, <2>2, <3>1 DEF Covered, Missing, Stored, Unseen
  <2>3. CASE pass = "all" /\ ~truncated /\ Fresh(n) # {}
    <3>1. \A m \in waiting : depth[m] = MaxDepth
      BY <1>1, <1>2 DEF WalkInv, Basis, Seen, Unseen
    <3>2. PICK e \in Fresh(n) : TRUE
      BY <2>3
    <3>3. /\ e.to \in Nodes /\ depth[e.to] = Unseen
          /\ Hop(Stored, allow, n, e.to)
      BY FreshHops
    <3>4. Within(Stored, allow, n)
      BY <1>1, <2>3 DEF WalkInv, Basis, Sound
    <3>5. Missing(depth)
      BY <3>3, <3>4, OneHop DEF Missing
    <3> QED
      BY <1>1, <1>3, <2>3, <3>1, <3>5 DEF Covered, Missing, Stored, Unseen
  <2>4. CASE pass = "all" /\ ~truncated /\ Fresh(n) = {}
    <3>1. waiting' = waiting \ {n}
      <4>1. Cardinality(Fresh(n)) = 0
        BY <2>4, FS_EmptySet
      <4>2. spent' = spent /\ ~(spent' > MaxEdges)
        BY <1>1, <1>2, <4>1
      <4> QED
        BY <1>1, <4>2
    <3>2. Followed(Seen(depth) \ waiting, depth)
      BY <2>4 DEF WalkInv, Covered
    <3>3. ASSUME NEW a \in Seen(depth) \ waiting', NEW b \in Nodes,
                 Hop(Legible, allow, a, b)
          PROVE  depth[b] # Unseen
      <4>1. CASE a = n
        BY <2>4, <3>3, <4>1, FollowsAll DEF WalkInv
      <4>2. CASE a # n
        BY <3>1, <3>2, <3>3, <4>2 DEF Followed
      <4> QED
        BY <4>1, <4>2
    <3>4. Followed(Seen(depth) \ waiting', depth)
      BY <3>3 DEF Followed
    <3> QED
      BY <1>1, <2>4, <3>4 DEF Covered, Followed, Legible, Seen, Unseen
  <2> QED
    BY <1>1, <2>1, <2>2, <2>3, <2>4
<1> QED
  BY <1>4, <1>5, <1>6 DEF WalkInv

LEMMA AgainWalks ==
  ASSUME TypeOK, WalkInv, Again
  PROVE  WalkInv'
<1>1. /\ pass = "all" /\ waiting = {} /\ pass' = "curated" /\ found' = depth
      /\ cut' = truncated /\ waiting' = {Start} /\ spent' = 0 /\ truncated' = FALSE
      /\ depth' = [n \in Nodes |-> IF n = Start THEN 0 ELSE Unseen]
      /\ UNCHANGED <<nodeTier, edgeTier, badEdges, allow, before>>
  BY DEF Again, graph, damage
<1>2. Seen(depth') = {Start} /\ depth'[Start] = 0 /\ Start \in Seen(depth)
  BY <1>1, Given DEF Seen, Unseen, WalkInv, Basis
<1>3. Basis'
  BY <1>1, <1>2, Given DEF WalkInv, Basis, Seen, Stored, Unseen
<1>4. Sound'
  BY <1>1, <1>2, AtStart DEF WalkInv, Sound, Seen, Stored, Unseen
<1>5. Seen(depth) \ waiting = Seen(depth)
  BY <1>1
<1>6. Covered'
  BY <1>1, <1>5 DEF WalkInv, Covered, Missing, Followed, Legible, Seen, Stored, Unseen
<1> QED
  BY <1>3, <1>4, <1>6 DEF WalkInv

LEMMA ReopenWalks == ASSUME Reopen PROVE WalkInv'
<1>1. pass' = "none" /\ waiting' = {}
  BY DEF Reopen
<1> QED
  BY <1>1 DEF WalkInv, Basis, Sound, Covered

(* What a step may do to the walk.                                         *)
LEMMA WalkSteps ==
  [Next]_vars => \/ UNCHANGED walk
                 \/ Reopen \/ Again \/ Reply
                 \/ \E rels \in Filters : Begin(rels)
                 \/ \E n \in Nodes : Expand(n) \/ Horizon(n)
<1>1. ASSUME NEW w \in Writers,
             PutFrom(w) \/ PutTo(w) \/ PutEdge(w) \/ CommitFails(w)
               \/ \E e \in Links, t \in Written : Ask(w, e, t)
      PROVE  UNCHANGED walk
  BY <1>1 DEF PutFrom, PutTo, PutEdge, CommitFails, Ask
<1>2. ASSUME NEW n \in Nodes, NEW t \in Written, PutNode(n, t) PROVE UNCHANGED walk
  BY <1>2 DEF PutNode
<1>3. UNCHANGED vars => UNCHANGED walk
  BY DEF vars
<1> QED
  BY <1>1, <1>2, <1>3 DEF Next, Writer, Walker, Rot

LEMMA WalkStep ==
  TypeOK /\ TypeOK' /\ EdgeEnds /\ WalkInv /\ [Next]_vars => WalkInv'
<1> SUFFICES ASSUME TypeOK, TypeOK', EdgeEnds, WalkInv, [Next]_vars PROVE WalkInv'
  OBVIOUS
<1>1. CASE UNCHANGED walk /\ ~Reopen
  BY <1>1, MergeSteps, Undisturbed
<1>2. CASE Reopen
  BY <1>2, ReopenWalks
<1>3. ASSUME NEW rels \in Filters, Begin(rels) PROVE WalkInv'
  BY <1>3, BeginWalks
<1>4. ASSUME NEW n \in Nodes, Expand(n) \/ Horizon(n) PROVE WalkInv'
  BY <1>4, ExpandWalks, HorizonWalks
<1>5. CASE Again
  BY <1>5, AgainWalks
<1>6. CASE Reply
  <2>1. /\ pass = "curated" /\ pass' = "answered"
        /\ UNCHANGED <<nodeTier, edgeTier, badEdges, allow, depth, waiting, spent, truncated,
                       found, cut, before>>
    BY <1>6 DEF Reply, graph, damage
  <2> QED
    BY <2>1 DEF WalkInv, Basis, Sound, Covered, Missing, Followed, Legible, Seen, Stored, Unseen
<1> QED
  BY <1>1, <1>2, <1>3, <1>4, <1>5, <1>6, WalkSteps

LEMMA WalkAlways == Spec => [](TypeOK /\ EdgeEnds /\ WalkInv)
<1>1. Init => WalkInv
  BY DEF Init, WalkInv, Basis, Sound, Covered
<1>2. /\ TypeOK /\ Placed /\ EdgeEnds /\ WalkInv /\ [Next]_vars
      => (TypeOK /\ Placed /\ EdgeEnds /\ WalkInv)'
  BY TypeStep, PlacedStep, EndsStep, WalkStep
<1> QED
  BY TypeInit, EndsInit, <1>1, <1>2, PTL DEF Spec

(* Nothing an answer of Related says is made up: a node is as far away as  *)
(* it says, and PathCurated means a path of curated edges alone.           *)
THEOREM AnswersAreSound == Spec => []WalkSound
<1>1. TypeOK /\ WalkInv => WalkSound
  <2> SUFFICES ASSUME TypeOK, WalkInv, pass = "answered", NEW n \in Answer
               PROVE  /\ Path(Present(edgeTier), found[n], n)
                      /\ PathCurated(n) =>
                           \E d \in 1..MaxDepth : Path(Curated(edgeTier), d, n)
    BY DEF WalkSound
  <2>1. n \in Nodes /\ n # Start /\ n \in Seen(found)
    BY DEF Answer, Seen
  <2>2. Path(Present(edgeTier), found[n], n)
    BY <2>1, PathWalks DEF WalkInv, Sound, Stored
  <2>3. ASSUME PathCurated(n) PROVE \E d \in 1..MaxDepth : Path(Curated(edgeTier), d, n)
    <3>1. Walks(Curated(edgeTier), allow, depth[n], n)
      BY <2>1, <2>3 DEF PathCurated, WalkInv, Sound, Seen
    <3>2. depth[n] # 0
      BY <2>1, <3>1, AtStart
    <3>3. depth[n] \in 1..MaxDepth
      BY <2>1, <2>3, <3>2, Given DEF PathCurated, TypeOK, Unseen
    <3> QED
      BY <3>1, <3>3, PathWalks
  <2> QED
    BY <2>2, <2>3
<1> QED
  BY <1>1, WalkAlways, PTL

(* An answer is complete, as far as the rows decode, unless it says that   *)
(* it is truncated, and then it is not.  Rows that go bad while it walks   *)
(* only take away from what it owes.                                       *)
THEOREM CutsAreHonest == Spec => []CutHonest
<1>1. TypeOK /\ WalkInv => CutHonest
  <2> SUFFICES ASSUME TypeOK, WalkInv, pass = "answered"
               PROVE  IF cut
                      THEN ~(Reachable(Present(edgeTier)) \ {Start} \subseteq Answer)
                      ELSE Reachable(Legible) \ ({Start} \cup badNodes) \subseteq Answer
    BY DEF CutHonest, Legible
  <2>0. found[Start] = 0 /\ Start \in Nodes /\ Unseen # 0
    BY Given DEF WalkInv, Basis, Unseen
  <2>1. CASE cut
    <3>1. PICK n \in Nodes : found[n] = Unseen /\ Within(Stored, allow, n)
      BY <2>1 DEF WalkInv, Covered, Missing
    <3>2. n # Start /\ n \notin Answer
      BY <2>0, <3>1 DEF Answer
    <3> QED
      BY <2>1, <3>1, <3>2, ReachableWithin DEF Stored
  <2>2. CASE ~cut
    <3>1. Sealed(Seen(found), Legible, allow)
      BY <2>0, <2>2 DEF WalkInv, Covered, Followed, Legible, Sealed, Seen
    <3>2. Seen(found) \in SUBSET Nodes
      BY DEF Seen
    <3>3. \A n \in Reachable(Legible) : n \in Seen(found)
      BY <3>1, <3>2, ReachableWithin DEF Within
    <3>4. \A n \in Seen(found) : nodeTier[n] # "absent"
      BY DEF WalkInv, Basis
    <3> QED
      BY <2>2, <3>2, <3>3, <3>4 DEF Answer, Seen
  <2> QED
    BY <2>1, <2>2
<1> QED
  BY <1>1, WalkAlways, PTL
----------------------------------------------------------------------------
(* The second pass goes by layers: where the caps have room for all that   *)
(* is reachable, every curated edge there was leads from a node it has     *)
(* taken to one that is at most a step further.                            *)
Around == {n \in Nodes \ {Start} : Within(Stored, allow, n)}
Roomy  == Cardinality(Around) <= MaxNodes /\ Cardinality(Around) <= MaxEdges

Nearer(a, b) == depth[a] < MaxDepth /\ Hop(Vouched, allow, a, b)
                => depth[b] <= depth[a] + 1

Layered ==
  /\ pass # "none" => Curated(before) \subseteq Curated(edgeTier)
  /\ pass = "answered" => waiting = {}
  /\ pass \in {"curated", "answered"} =>
       /\ \A n \in Seen(depth) : Within(Stored, allow, n)
       /\ \A m \in waiting, n \in Seen(depth) : depth[n] <= depth[m] + 1
       /\ (\E m \in waiting : depth[m] < MaxDepth) => spent = Cardinality(Reached)
       /\ Roomy => \A a \in Seen(depth) \ waiting, b \in Nodes : Nearer(a, b)

LEMMA AroundFinite == IsFiniteSet(Around) /\ Cardinality(Around) \in Nat
<1>1. Around \in SUBSET Nodes
  BY DEF Around
<1> QED
  BY <1>1, Given, FS_Subset, FS_CardinalityType

LEMMA LayersUndisturbed ==
  ASSUME TypeOK, Layered, UNCHANGED walk,
         UNCHANGED <<graph, durable>> \/ NodeMerged \/ EdgeMerged \/ Rotted
  PROVE  Layered'
<1>0. /\ UNCHANGED <<pass, allow, depth, waiting, spent, truncated, found, cut, before>>
      /\ edgeTier \in [Links -> Tier]
  BY DEF walk, TypeOK
<1>1. /\ DOMAIN edgeTier' = Links
      /\ \A e \in Links : edgeTier[e] # "absent" => edgeTier'[e] # "absent"
      /\ \A e \in Links : edgeTier[e] = "curated" => edgeTier'[e] = "curated"
      /\ badEdges \subseteq badEdges'
  BY <1>0, MergesKeep DEF NodeMerged, EdgeMerged, Rotted, graph, damage, damage
<1>2. Stored \subseteq Stored' /\ Curated(edgeTier) \subseteq Curated(edgeTier')
  BY <1>0, <1>1 DEF Stored, Present, Curated
<1>3. \A n : Within(Stored, allow, n) => Within(Stored', allow, n)
  BY <1>2, MoreEdges
<1>4. Around \subseteq Around' /\ Around' \in SUBSET Nodes
  BY <1>0, <1>3 DEF Around
<1>5. Cardinality(Around) <= Cardinality(Around')
  BY <1>4, Given, FS_Subset
<1>6. Cardinality(Around) \in Nat /\ Cardinality(Around') \in Nat
  BY <1>4, Given, AroundFinite, FS_Subset, FS_CardinalityType
<1>7. Roomy' => Roomy
  BY <1>5, <1>6, Given DEF Roomy
<1>8. Cardinality(Reached)' = Cardinality(Reached)
  BY <1>0 DEF Reached, Unseen
<1>9. \A a, b : Hop(Vouched', allow, a, b) => Hop(Vouched, allow, a, b)
  BY <1>0, <1>1 DEF Hop, Vouched
<1> QED
  BY <1>0, <1>2, <1>3, <1>7, <1>8, <1>9 DEF Layered, Nearer, Seen, Unseen

LEMMA ExpandLayers ==
  ASSUME TypeOK, EdgeEnds, WalkInv, Layered, NEW n \in Nodes, Expand(n)
  PROVE  Layered'
<1> DEFINE ends == {e.to : e \in Fresh(n)}
<1>1. PICK new \in SUBSET ends :
        /\ depth' = [m \in Nodes |-> IF m \in new THEN depth[n] + 1 ELSE depth[m]]
        /\ spent' = spent + Cardinality(new)
        /\ waiting' = IF new # ends THEN {} ELSE (waiting \ {n}) \cup new
        /\ new # ends => \/ Cardinality(Reached) + Cardinality(new) = MaxNodes
                         \/ spent + Cardinality(new) = MaxEdges
  BY DEF Expand
<1>2. /\ pass \in {"all", "curated"} /\ n \in waiting /\ depth[n] < MaxDepth
      /\ \A m \in waiting : depth[n] <= depth[m]
      /\ UNCHANGED <<edgeTier, badEdges, pass, allow, before>>
  BY DEF Expand, Taken, graph, damage
<1>3. CASE pass = "all"
  BY <1>2, <1>3 DEF Layered
<1>4. CASE pass = "curated"
  <2>1. /\ MaxDepth \in Nat /\ depth \in [Nodes -> 0..Unseen] /\ depth[n] \in Nat
        /\ waiting \subseteq Seen(depth) /\ depth[Start] = 0 /\ Start \in Nodes
        /\ Seen(depth) \subseteq Nodes /\ n \in Seen(depth)
    BY <1>2, Given DEF TypeOK, WalkInv, Basis, Seen
  <2>2. /\ \A m \in Seen(depth) : Within(Stored, allow, m)
        /\ \A m \in waiting, x \in Seen(depth) : depth[x] <= depth[m] + 1
        /\ spent = Cardinality(Reached)
        /\ Roomy => \A a \in Seen(depth) \ waiting, b \in Nodes : Nearer(a, b)
        /\ Curated(before) \subseteq Curated(edgeTier)
    BY <1>2, <1>4 DEF Layered
  <2>3. \A m \in ends : m \in Nodes /\ depth[m] = Unseen /\ Within(Stored, allow, m)
    BY <2>1, <2>2, FreshHops, OneHop
  <2>4. ends \subseteq Nodes /\ Start \notin ends /\ new \subseteq ends
    BY <1>1, <2>1, <2>3 DEF Unseen
  <2>5. /\ Seen(depth') = Seen(depth) \cup new
        /\ \A m \in new : depth'[m] = depth[n] + 1
        /\ \A m \in Seen(depth) : m \notin new /\ depth'[m] = depth[m]
        /\ \A m \in Nodes : m \notin new => depth'[m] = depth[m]
    BY <1>1, <1>2, <2>1, <2>3 DEF Seen, Unseen
  <2>6. \A m \in Seen(depth') : Within(Stored, allow, m)
    BY <2>2, <2>3, <2>5
  <2>7. \A m \in waiting', x \in Seen(depth') : depth'[x] <= depth'[m] + 1
    <3> SUFFICES ASSUME NEW m \in waiting', NEW x \in Seen(depth')
                 PROVE  depth'[x] <= depth'[m] + 1
      OBVIOUS
    <3>1. m \in new \/ m \in waiting
      BY <1>1
    <3>2. depth'[m] \in Nat /\ depth[n] <= depth'[m]
      BY <1>2, <2>1, <2>5, <3>1
    <3>3. depth'[x] \in Nat /\ depth'[x] <= depth[n] + 1
      BY <1>2, <2>1, <2>2, <2>5
    <3> QED
      BY <2>1, <3>2, <3>3
  <2>8. /\ IsFiniteSet(Reached) /\ IsFiniteSet(new) /\ Reached \cap new = {}
        /\ Reached = Seen(depth) \ {Start}
    <3>1. Reached \in SUBSET Nodes /\ Reached = Seen(depth) \ {Start}
      BY DEF Reached, Seen
    <3> QED
      BY <2>3, <2>4, <3>1, Given, FS_Subset DEF Seen
  <2>9. /\ IsFiniteSet(Reached \cup new)
        /\ Cardinality(Reached \cup new) = Cardinality(Reached) + Cardinality(new)
    <3>1. Cardinality(Reached \cap new) = 0
      BY <2>8, FS_EmptySet
    <3>2. /\ IsFiniteSet(Reached \cup new)
          /\ Cardinality(Reached \cup new)
               = Cardinality(Reached) + Cardinality(new) - Cardinality(Reached \cap new)
      BY <2>8, FS_Union
    <3>3. Cardinality(Reached) \in Nat /\ Cardinality(new) \in Nat
      BY <2>8, FS_CardinalityType
    <3> QED
      BY <3>1, <3>2, <3>3
  <2>10. spent' = Cardinality(Reached')
    <3>1. Reached' = Seen(depth') \ {Start}
      BY DEF Reached, Seen, Unseen
    <3>2. Reached' = Reached \cup new
      BY <2>4, <2>5, <2>8, <3>1
    <3> QED
      BY <1>1, <2>2, <2>9, <3>2
  <2>11. ASSUME Roomy PROVE new = ends
    <3> SUFFICES ASSUME new # ends PROVE FALSE
      OBVIOUS
    <3>1. PICK m \in ends : m \notin new
      BY <2>4
    <3>2. Reached \cup new \subseteq Around \ {m} /\ m \in Around
      BY <2>2, <2>3, <2>4, <2>8, <3>1 DEF Around, Seen
    <3>3. /\ IsFiniteSet(Around \ {m})
          /\ Cardinality(Around \ {m}) = Cardinality(Around) - 1
      BY <3>2, AroundFinite, FS_RemoveElement
    <3>4. Cardinality(Reached \cup new) <= Cardinality(Around \ {m})
      BY <3>2, <3>3, FS_Subset
    <3>5. /\ Cardinality(Around) \in Nat /\ Cardinality(Reached) \in Nat
          /\ Cardinality(new) \in Nat
      BY <2>8, AroundFinite, FS_CardinalityType
    <3>6. /\ Cardinality(Reached) + Cardinality(new) < MaxNodes
          /\ Cardinality(Reached) + Cardinality(new) < MaxEdges
      BY <2>9, <2>11, <3>3, <3>4, <3>5, Given DEF Roomy
    <3> QED
      BY <1>1, <2>2, <3>5, <3>6, Given
  <2>12. ASSUME Roomy, NEW a \in Seen(depth') \ waiting', NEW b \in Nodes,
                depth'[a] < MaxDepth, Hop(Vouched, allow, a, b)
         PROVE  depth'[b] <= depth'[a] + 1
    <3>1. new = ends /\ waiting' = (waiting \ {n}) \cup new
      BY <1>1, <2>11, <2>12
    <3>2. a \in Seen(depth) /\ depth'[a] = depth[a] /\ (a = n \/ a \notin waiting)
      BY <2>5, <2>12, <3>1
    <3>3. CASE a = n
      <4>1. PICK e \in Vouched : e.from = a /\ e.to = b /\ e.rel \in allow
        BY <2>12 DEF Hop
      <4>2. e \in Links \ badEdges /\ edgeTier[e] = "curated"
        BY <2>2, <4>1 DEF Vouched, Curated, TypeOK
      <4>3. depth[b] # Unseen \/ b \in ends
        BY <1>4, <3>3, <4>1, <4>2 DEF Fresh, OutEdges, Indexed, Follows
      <4>4. CASE b \in ends
        BY <2>1, <2>5, <3>1, <3>2, <3>3, <4>4
      <4>5. CASE depth[b] # Unseen
        BY <1>2, <2>2, <2>5, <3>2, <3>3, <4>5 DEF Seen
      <4> QED
        BY <4>3, <4>4, <4>5
    <3>4. CASE a # n
      <4>1. Nearer(a, b)
        BY <2>2, <2>12, <3>2, <3>4
      <4>2. depth[b] <= depth[a] + 1
        BY <2>12, <3>2, <4>1 DEF Nearer, Vouched
      <4>3. depth[b] # Unseen
        BY <2>1, <2>12, <3>2, <4>2 DEF Unseen
      <4> QED
        BY <2>5, <3>2, <4>2, <4>3 DEF Seen
    <3> QED
      BY <3>3, <3>4
  <2>13. Roomy' <=> Roomy
    BY <1>2 DEF Roomy, Around, Stored
  <2> QED
    BY <1>2, <1>4, <2>2, <2>6, <2>7, <2>10, <2>12, <2>13
    DEF Layered, Nearer, Vouched, Seen, Stored, Unseen
<1> QED
  BY <1>2, <1>3, <1>4

LEMMA HorizonLayers ==
  ASSUME TypeOK, WalkInv, Layered, NEW n \in Nodes, Horizon(n)
  PROVE  Layered'
<1>1. /\ pass \in {"all", "curated"} /\ n \in waiting /\ depth[n] = MaxDepth
      /\ \A m \in waiting : depth[n] <= depth[m]
      /\ waiting' \subseteq waiting
      /\ UNCHANGED <<edgeTier, badEdges, pass, allow, depth, before>>
  BY DEF Horizon, Taken, graph, damage
<1>2. /\ waiting \subseteq Seen(depth) /\ MaxDepth \in Nat
      /\ \A m \in Seen(depth) : depth[m] \in Nat
  BY Given DEF WalkInv, Basis, TypeOK, Seen
<1>3. \A m \in waiting : ~(depth[m] < MaxDepth)
  BY <1>1, <1>2
<1>4. Roomy' <=> Roomy
  BY <1>1 DEF Roomy, Around, Stored
<1>5. \A a \in Seen(depth) \ waiting' : a \notin waiting \/ ~(depth[a] < MaxDepth)
  BY <1>3
<1> QED
  BY <1>1, <1>3, <1>4, <1>5 DEF Layered, Nearer, Vouched, Seen, Stored, Unseen

LEMMA AgainLayers ==
  ASSUME TypeOK, WalkInv, Layered, Again
  PROVE  Layered'
<1>1. /\ pass = "all" /\ pass' = "curated" /\ waiting' = {Start} /\ spent' = 0
      /\ depth' = [n \in Nodes |-> IF n = Start THEN 0 ELSE Unseen]
      /\ UNCHANGED <<edgeTier, badEdges, allow, before>>
  BY DEF Again, graph, damage
<1>2. Seen(depth') = {Start} /\ depth'[Start] = 0 /\ Reached' = {}
  BY <1>1, Given DEF Seen, Unseen, Reached
<1>3. Cardinality(Reached') = 0
  BY <1>2, FS_EmptySet
<1>4. Within(Stored, allow, Start) /\ Seen(depth') \ waiting' = {}
  BY <1>1, <1>2, AtStart
<1> QED
  BY <1>1, <1>2, <1>3, <1>4 DEF Layered, Seen, Stored, Unseen

LEMMA LayeredStep ==
  TypeOK /\ EdgeEnds /\ WalkInv /\ Layered /\ [Next]_vars => Layered'
<1> SUFFICES ASSUME TypeOK, EdgeEnds, WalkInv, Layered, [Next]_vars PROVE Layered'
  OBVIOUS
<1>1. CASE UNCHANGED walk /\ ~Reopen
  BY <1>1, MergeSteps, LayersUndisturbed
<1>2. CASE Reopen
  BY <1>2 DEF Reopen, Layered
<1>3. ASSUME NEW rels \in Filters, Begin(rels) PROVE Layered'
  BY <1>3 DEF Begin, Layered, graph, damage
<1>4. ASSUME NEW n \in Nodes, Expand(n) \/ Horizon(n) PROVE Layered'
  BY <1>4, ExpandLayers, HorizonLayers
<1>5. CASE Again
  BY <1>5, AgainLayers
<1>6. CASE Reply
  <2>1. /\ pass = "curated" /\ pass' = "answered" /\ waiting = {}
        /\ UNCHANGED <<edgeTier, badEdges, allow, depth, waiting, spent, before>>
    BY <1>6 DEF Reply, graph, damage
  <2> QED
    BY <2>1 DEF Layered, Nearer, Vouched, Roomy, Around, Reached, Seen, Stored, Unseen
<1> QED
  BY <1>1, <1>2, <1>3, <1>4, <1>5, <1>6, WalkSteps

(* A set of numbers that is not empty has a least one.                     *)
LEMMA LeastOf ==
  ASSUME NEW T \in SUBSET Nat, T # {}
  PROVE  \E x \in T : \A y \in T : x <= y
<1> DEFINE R == {p \in Nat \X Nat : p[1] < p[2]}
<1>1. IsWellFoundedOn(R, Nat)
  BY NatLessThanWellFounded DEF OpToRel
<1>2. \E x \in T : \A y \in T : <<y, x>> \notin R
  BY <1>1, WFMin
<1>3. \A x, y \in T : <<y, x>> \notin R => x <= y
  OBVIOUS
<1> QED
  BY <1>2, <1>3

(* A curated attribution is shown as one, where the caps leave room for    *)
(* all that is reachable: along a path of curated edges the second pass    *)
(* sees each node at its distance or nearer, or else the first node of the *)
(* path that it does not would be one hop from a node that it has taken.   *)
THEOREM CuratedIsShown == Spec => []CuratedShown
<1>1. TypeOK /\ WalkInv /\ Layered => CuratedShown
  <2> SUFFICES ASSUME TypeOK, WalkInv, Layered, pass = "answered", Roomy,
                      NEW n \in Answer, NEW d \in 1..MaxDepth,
                      Walks(Vouched, allow, d, n)
               PROVE  depth[n] # Unseen
    <3>1. Reachable(Present(edgeTier)) \ {Start} = Around
      BY ReachableWithin DEF Around, Stored
    <3> QED
      BY <3>1, PathWalks DEF CuratedShown, PathCurated, Roomy, Vouched
  <2>1. PICK p \in [0..d -> Nodes] :
          /\ p[0] = Start /\ p[d] = n
          /\ \A i \in 0..d : i < d => Hop(Vouched, allow, p[i], p[i + 1])
    BY DEF Walks
  <2>2. /\ \A a \in Seen(depth), b \in Nodes : Nearer(a, b)
        /\ depth[Start] = 0 /\ MaxDepth \in Nat
        /\ \A x \in Nodes : depth[x] \in Nat
    <3>1. Seen(depth) \ waiting = Seen(depth)
      BY DEF Layered
    <3>2. \A a \in Seen(depth), b \in Nodes : Nearer(a, b)
      BY <3>1 DEF Layered
    <3>3. depth \in [Nodes -> 0..Unseen] /\ MaxDepth \in Nat /\ Unseen \in Nat
      BY Given DEF TypeOK, Unseen
    <3>4. depth[Start] = 0
      BY DEF WalkInv, Basis
    <3> QED
      BY <3>2, <3>3, <3>4
  <2> DEFINE T == {i \in 0..d : ~(depth[p[i]] <= i)}
  <2>3. T = {}
    <3> SUFFICES ASSUME T # {} PROVE FALSE
      OBVIOUS
    <3>0. T \in SUBSET Nat
      OBVIOUS
    <3>1. PICK j \in T : \A i \in T : j <= i
      BY <3>0, LeastOf
    <3>2. j \in 1..d /\ j - 1 \in 0..d /\ j - 1 < d
      BY <2>1, <2>2, <3>1
    <3>3. depth[p[j - 1]] <= j - 1
      BY <3>1, <3>2
    <3>4. p[j - 1] \in Nodes /\ p[j] \in Nodes
      BY <2>1, <3>2
    <3>5. depth[p[j - 1]] < MaxDepth /\ p[j - 1] \in Seen(depth)
      BY <2>2, <3>2, <3>3, <3>4 DEF Seen, Unseen
    <3>6. Hop(Vouched, allow, p[j - 1], p[j])
      BY <2>1, <3>2
    <3>7. depth[p[j]] <= depth[p[j - 1]] + 1
      BY <2>2, <3>4, <3>5, <3>6 DEF Nearer, Vouched
    <3>8. depth[p[j]] <= j
      BY <2>2, <3>2, <3>3, <3>4, <3>7
    <3> QED
      BY <3>1, <3>8
  <2>4. depth[n] <= d
    BY <2>1, <2>3
  <2> QED
    BY <2>2, <2>4 DEF Unseen
<1>2. Init => Layered
  BY DEF Init, Layered
<1>3. /\ TypeOK /\ EdgeEnds /\ WalkInv /\ Layered /\ [Next]_vars /\ (TypeOK /\ EdgeEnds /\ WalkInv)'
      => Layered'
  BY LayeredStep
<1> QED
  BY <1>1, <1>2, <1>3, WalkAlways, PTL DEF Spec
=============================================================================
