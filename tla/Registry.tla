------------------------------ MODULE Registry ------------------------------
(***************************************************************************)
(* The exact-key tier of knowledge (L0) and the index of fuzzy leads (L0.5)*)
(* it mirrors curated keys into: internal/knowledge/registry.go over the   *)
(* memory of registry.go or the file of persist.go, seeded by seed.go at   *)
(* boot, with similarity.go.                                               *)
(*                                                                         *)
(* A step is one critical section: the merge of a row, or the insertion    *)
(* into the index, which follows a merge outside its lock.  A key stands   *)
(* for (kind, normalized key) and is its own id, which hashes it; what is  *)
(* malformed is refused before any of this.  A row is its tier, the source *)
(* that stands for its content, and its state on disk: a damaged row does  *)
(* not decode, a mislabelled one decodes to another key's fact.            *)
(***************************************************************************)
EXTENDS Naturals, FiniteSets, Sequences

CONSTANTS Keys,
          Seeds,        \* the bundled corpus, in its order
          Sources,      \* contents a caller may write; the corpus writes "bundled"
          Sketch(_),    \* the signature of a key's n-grams: keys may share one
          NoSketch,     \* of a key too short to have n-grams
          Clients,
          MaxFacts,     \* capacity of what is observed
          MaxCalls,     \* bound: writes of clients
          MaxTroubles,  \* bound: failed commits, damaged rows and kills
          NoRow, NoTask

ASSUME RegistryConstants ==
  /\ IsFiniteSet(Keys) /\ Seeds \in Seq(Keys)
  /\ {MaxFacts, MaxCalls, MaxTroubles} \subseteq Nat
  /\ NoTask \notin Keys
  /\ NoRow \notin [trust : {"ingest", "curated"}, source : Sources \cup {"bundled"},
                   state : {"sound", "damaged", "mislabelled"}]

VARIABLES
  durable,         \* is the store a file?
  row, count,      \* the facts, and the live count capacity is checked against
  sim,             \* signature -> the key it leads to
  seeded, skipped, \* boot: how far the corpus is, and what of it failed
  task,            \* of a client: a key it has curated and has yet to mirror
  calls, troubles,
  vouched,         \* history: what was ever curated, with its content
  granted,         \* history: citations that were good for a verdict
  failed           \* history: seeds whose commit failed in this boot

store == <<row, count, sim>>
boot  == <<seeded, skipped, failed>>
vars == <<durable, store, boot, task, calls, troubles, vouched, granted>>

Trusts   == {"ingest", "curated"}
Contents == Sources \cup {"bundled"}
Row == [trust : Trusts, source : Contents, state : {"sound", "damaged", "mislabelled"}]
Sketches == {Sketch(k) : k \in Keys} \ {NoSketch}

TypeOK ==
  /\ durable \in BOOLEAN
  /\ row \in [Keys -> Row \cup {NoRow}] /\ count \in Nat
  /\ sim \in [Sketches -> Keys \cup {NoTask}]
  /\ seeded \in 0..Len(Seeds) /\ skipped \in 0..seeded
  /\ task \in [Clients -> Keys \cup {NoTask}]
  /\ calls \in 0..MaxCalls /\ troubles \in 0..MaxTroubles
  /\ vouched \in SUBSET (Keys \X Contents)
  /\ granted \in SUBSET (Keys \X Keys) /\ failed \in SUBSET Keys

(* OpenStoreFromEnv: a new store, in memory or in a file.                  *)
Init ==
  /\ durable \in BOOLEAN
  /\ row = [k \in Keys |-> NoRow] /\ count = 0
  /\ sim = [g \in Sketches |-> NoTask]
  /\ seeded = 0 /\ skipped = 0 /\ failed = {}
  /\ task = [c \in Clients |-> NoTask]
  /\ calls = 0 /\ troubles = 0
  /\ vouched = {} /\ granted = {}
----------------------------------------------------------------------------
Serving == seeded = Len(Seeds)

(* Get: a row that does not decode is a miss.                              *)
Found(k) == row[k] # NoRow /\ row[k].state # "damaged"

(* Mutation: the capacity holds what is curated as well.                   *)
RefusedAll(k, t) == \/ row[k] # NoRow /\ row[k].state = "damaged"
                    \/ row[k] = NoRow /\ count >= MaxFacts

(* What Merge refuses: a row that does not decode, never to be decided     *)
(* against, and what is new and only observed when the store is full.      *)
Refused(k, t) == \/ row[k] # NoRow /\ row[k].state = "damaged"
                 \/ row[k] = NoRow /\ t = "ingest" /\ count >= MaxFacts

(* Mutation: what came last is what is kept.                               *)
YieldsNever(k, t) == FALSE

(* The decision of put: observing never modifies what is curated.          *)
Yields(k, t) == row[k] # NoRow /\ row[k].trust = "curated" /\ t = "ingest"

(* Mutation: trust and content are merged each for itself.                 *)
MergeMixed(k, t, src) ==
  /\ ~Refused(k, t)
  /\ row' = [row EXCEPT ![k] = [trust |-> IF Yields(k, t) THEN "curated" ELSE t,
                                source |-> src, state |-> "sound"]]
  /\ count' = IF row[k] = NoRow THEN count + 1 ELSE count
  /\ vouched' = IF t = "curated" THEN vouched \cup {<<k, src>>} ELSE vouched

(* Mutation: every row written is counted as a new one.                    *)
MergeRecounts(k, t, src) ==
  /\ ~Refused(k, t)
  /\ IF Yields(k, t)
     THEN UNCHANGED <<row, count>>
     ELSE /\ row' = [row EXCEPT ![k] = [trust |-> t, source |-> src, state |-> "sound"]]
          /\ count' = count + 1
  /\ vouched' = IF t = "curated" THEN vouched \cup {<<k, src>>} ELSE vouched

Merge(k, t, src) ==
  /\ ~Refused(k, t)
  /\ IF Yields(k, t)
     THEN UNCHANGED <<row, count>>
     ELSE /\ row' = [row EXCEPT ![k] = [trust |-> t, source |-> src, state |-> "sound"]]
          /\ count' = IF row[k] = NoRow THEN count + 1 ELSE count
  /\ vouched' = IF t = "curated" THEN vouched \cup {<<k, src>>} ELSE vouched

(* AddReference: equal sketches collapse to one entry, the last one.       *)
Mirror(k) == sim' = IF Sketch(k) = NoSketch THEN sim ELSE [sim EXCEPT ![Sketch(k)] = k]

(* SeedJSON curates one fact of the corpus after the other before anyone   *)
(* is served; one that fails is counted and left.                          *)
Seed ==
  /\ ~Serving
  /\ LET k == Seeds[seeded + 1]
     IN \/ /\ Merge(k, "curated", "bundled") /\ Mirror(k)
           /\ UNCHANGED <<skipped, failed, troubles>>
        \/ /\ Refused(k, "curated")
           /\ skipped' = skipped + 1
           /\ UNCHANGED <<store, vouched, failed, troubles>>
        \/ /\ durable /\ troubles < MaxTroubles /\ troubles' = troubles + 1
           /\ skipped' = skipped + 1 /\ failed' = failed \cup {k}
           /\ UNCHANGED <<store, vouched>>
  /\ seeded' = seeded + 1
  /\ UNCHANGED <<durable, task, calls, granted>>

(* Curate: the merge, then the mirror.                                     *)
Curate(c, k, src) ==
  /\ Serving /\ task[c] = NoTask
  /\ calls < MaxCalls /\ calls' = calls + 1
  /\ Merge(k, "curated", src)
  /\ task' = [task EXCEPT ![c] = k]
  /\ UNCHANGED <<durable, sim, boot, troubles, granted>>

Reference(c) ==
  /\ task[c] # NoTask
  /\ Mirror(task[c])
  /\ task' = [task EXCEPT ![c] = NoTask]
  /\ UNCHANGED <<durable, row, count, boot, calls, troubles, vouched, granted>>

(* Mutation: what is observed is mirrored into the index too.              *)
IngestMirrored(c, k, src) ==
  /\ Serving /\ task[c] = NoTask
  /\ calls < MaxCalls /\ calls' = calls + 1
  /\ Merge(k, "ingest", src)
  /\ task' = [task EXCEPT ![c] = k]
  /\ UNCHANGED <<durable, sim, boot, troubles, granted>>

Ingest(c, k, src) ==
  /\ Serving /\ task[c] = NoTask
  /\ calls < MaxCalls /\ calls' = calls + 1
  /\ Merge(k, "ingest", src)
  /\ UNCHANGED <<durable, sim, boot, task, troubles, granted>>

(* Mutation: any fact that is stored grounds a claim.                      *)
GroundsAnyTrust(id, k) == id = k /\ Found(k) /\ row[k].state # "mislabelled"

(* VerifyCitation and OKForVerdict: the id must be that of the claimed key,*)
(* the fact must be stored, be labelled with that key, and be curated.     *)
Grounds(id, k) == /\ id = k
                  /\ Found(k) /\ row[k].state # "mislabelled"
                  /\ row[k].trust = "curated"

Cite(id, k) ==
  /\ Serving /\ Grounds(id, k)
  /\ granted' = granted \cup {<<id, k>>}
  /\ UNCHANGED <<durable, store, boot, task, calls, troubles, vouched>>
----------------------------------------------------------------------------
(* A row goes bad on disk.                                                 *)
Damage(k, s) ==
  /\ durable /\ row[k] # NoRow /\ row[k].state = "sound"
  /\ troubles < MaxTroubles /\ troubles' = troubles + 1
  /\ row' = [row EXCEPT ![k].state = s]
  /\ UNCHANGED <<durable, count, sim, boot, task, calls, vouched, granted>>

Stored == {k \in Keys : row[k] # NoRow}

(* The process is killed and boots again: the index starts empty, a file   *)
(* keeps its rows and they are counted, the corpus is curated anew.        *)
Reboot ==
  /\ troubles < MaxTroubles /\ troubles' = troubles + 1
  /\ IF durable THEN row' = row /\ count' = Cardinality(Stored)
                ELSE row' = [k \in Keys |-> NoRow] /\ count' = 0
  /\ sim' = [g \in Sketches |-> NoTask]
  /\ seeded' = 0 /\ skipped' = 0 /\ failed' = {}
  /\ task' = [c \in Clients |-> NoTask]
  /\ UNCHANGED <<durable, calls, vouched, granted>>

Next ==
  \/ Seed
  \/ \E c \in Clients : \/ Reference(c)
                        \/ \E k \in Keys, src \in Sources : Curate(c, k, src) \/ Ingest(c, k, src)
  \/ \E id, k \in Keys : Cite(id, k)
  \/ \E k \in Keys, s \in {"damaged", "mislabelled"} : Damage(k, s)
  \/ Reboot

Spec == Init /\ [][Next]_vars
----------------------------------------------------------------------------
(* What is curated was vouched for, content and all: no observation, full  *)
(* store, failed commit or reboot puts words into a curated fact.          *)
CuratedVouched ==
  \A k \in Keys : row[k] # NoRow /\ row[k].trust = "curated"
                  => <<k, row[k].source>> \in vouched

(* A citation that was good for a verdict cited the very key it was made   *)
(* for, and somebody vouched for that key.                                 *)
CitationsSound == \A g \in granted : /\ g[1] = g[2]
                                     /\ \E src \in Contents : <<g[2], src>> \in vouched

(* The live count is the number of rows through merges, damage and reboots,*)
(* and what is only observed stays within the capacity.                    *)
CountExact == /\ count = Cardinality(Stored)
              /\ Cardinality({k \in Stored : row[k].trust = "ingest"}) <= MaxFacts

(* A lead points to a curated key whose sketch it is, never to an          *)
(* observation, though the index is written after the lock is released.    *)
LeadsCurated ==
  \A g \in Sketches : sim[g] # NoTask =>
    /\ Sketch(sim[g]) = g
    /\ row[sim[g]] # NoRow /\ row[sim[g]].trust = "curated"

(* From the first request on every fact of the corpus can ground a claim,  *)
(* however many observations an earlier life has filled the store with,    *)
(* except one whose commit failed or whose row has gone bad.               *)
SeedsGround ==
  Serving => \A i \in 1..Len(Seeds) :
    LET k == Seeds[i]
    IN \/ k \in failed
       \/ row[k] # NoRow /\ row[k].trust = "curated" /\ row[k].state = "sound"
       \/ row[k] # NoRow /\ row[k].state # "sound"

(* The merges implement the abstract promise; damage hides a row's tier    *)
(* and does not change it, since a damaged row is never overwritten.       *)
RowTiers == INSTANCE Tiers WITH
  tier <- [k \in Keys |-> IF row[k] = NoRow THEN "absent" ELSE row[k].trust]
OnlyRise == RowTiers!Spec
=============================================================================
