------------------------------- MODULE Tiers -------------------------------
(***************************************************************************)
(* What a store of knowledge promises whoever cites it: a key is unknown,  *)
(* observed (ingest) or vouched for (curated), and only ever rises, one    *)
(* key at a time.  All of it may be forgotten at once, unless the store is *)
(* durable.  Writers, merges, capacities and crashes are hidden.  The      *)
(* Registry implements this, and so do the nodes and the edges of the      *)
(* KnowledgeGraph.                                                         *)
(***************************************************************************)
EXTENDS Naturals

CONSTANT Keys

VARIABLES durable, tier

vars == <<durable, tier>>

Tier == {"absent", "ingest", "curated"}
Rank == [t \in Tier |-> IF t = "absent" THEN 0 ELSE IF t = "ingest" THEN 1 ELSE 2]

Init == /\ durable \in BOOLEAN
        /\ tier = [k \in Keys |-> "absent"]

Rise(k) == /\ Rank[tier'[k]] > Rank[tier[k]]
           /\ tier' = [tier EXCEPT ![k] = tier'[k]]
           /\ tier'[k] \in Tier
           /\ UNCHANGED durable

Forget == /\ ~durable
          /\ tier' = [k \in Keys |-> "absent"]
          /\ UNCHANGED durable

Next == (\E k \in Keys : Rise(k)) \/ Forget

Spec == Init /\ [][Next]_vars
=============================================================================
