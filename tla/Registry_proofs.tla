-------------------------- MODULE Registry_proofs --------------------------
(* What holds of the registry for any keys, corpus, clients and bounds.    *)
EXTENDS Registry, FiniteSetTheorems, TLAPS

(* What the assumptions say, one by one.                                   *)
LEMMA Given ==
  /\ IsFiniteSet(Keys) /\ Seeds \in Seq(Keys)
  /\ MaxFacts \in Nat /\ MaxCalls \in Nat /\ MaxTroubles \in Nat
  /\ NoTask \notin Keys /\ NoRow \notin Row
  BY RegistryConstants DEF Row, Trusts, Contents

LEMMA StoredFinite ==
  ASSUME NEW S \in SUBSET Keys
  PROVE  IsFiniteSet(S) /\ Cardinality(S) \in Nat
  BY Given, FS_Subset, FS_CardinalityType

(* What a step does to the facts.                                          *)
Merged  == \E k \in Keys, t \in Trusts, src \in Contents : Merge(k, t, src) /\ UNCHANGED durable
Damaged == \E k \in Keys, s \in {"damaged", "mislabelled"} : Damage(k, s)
Kept    == UNCHANGED <<durable, row, count, vouched>>

(* What boot seeds next is a key.                                          *)
LEMMA NextSeed == TypeOK /\ ~Serving => Seeds[seeded + 1] \in Keys /\ seeded + 1 \in 1..Len(Seeds)
<1> SUFFICES ASSUME TypeOK, ~Serving
             PROVE  Seeds[seeded + 1] \in Keys /\ seeded + 1 \in 1..Len(Seeds)
  OBVIOUS
<1>1. Len(Seeds) \in Nat /\ \A i \in 1..Len(Seeds) : Seeds[i] \in Keys
  BY Given
<1>2. seeded + 1 \in 1..Len(Seeds)
  BY <1>1 DEF TypeOK, Serving
<1> QED
  BY <1>1, <1>2

LEMMA RowSteps == TypeOK /\ [Next]_vars => Kept \/ Merged \/ Damaged \/ Reboot
<1> SUFFICES ASSUME TypeOK, [Next]_vars PROVE Kept \/ Merged \/ Damaged \/ Reboot
  OBVIOUS
<1> USE DEF Kept
<1>1. CASE Seed
  <2>1. CASE UNCHANGED <<store, vouched>>
    BY <1>1, <2>1 DEF Seed, store
  <2>2. CASE Merge(Seeds[seeded + 1], "curated", "bundled")
    <3>1. Seeds[seeded + 1] \in Keys /\ UNCHANGED durable
      BY <1>1, NextSeed DEF Seed
    <3> QED
      BY <2>2, <3>1 DEF Merged, Trusts, Contents
  <2> QED
    BY <1>1, <2>1, <2>2 DEF Seed
<1>2. CASE \E c \in Clients, k \in Keys, src \in Sources : Curate(c, k, src) \/ Ingest(c, k, src)
  BY <1>2 DEF Curate, Ingest, Merged, Trusts, Contents
<1>3. CASE \E c \in Clients : Reference(c)
  BY <1>3 DEF Reference
<1>4. CASE \E id, k \in Keys : Cite(id, k)
  BY <1>4 DEF Cite, store
<1>5. CASE UNCHANGED vars
  BY <1>5 DEF vars, store
<1> QED
  BY <1>1, <1>2, <1>3, <1>4, <1>5 DEF Next, Damaged

(* What a merge leaves at its key and elsewhere.                           *)
LEMMA Rows ==
  ASSUME TypeOK, NEW k \in Keys, NEW t \in Trusts, NEW src \in Contents, Merge(k, t, src)
  PROVE  /\ row' \in [Keys -> Row \cup {NoRow}]
         /\ \A j \in Keys \ {k} : row'[j] = row[j]
         /\ IF Yields(k, t) THEN row'[k] = row[k]
                            ELSE row'[k] = [trust |-> t, source |-> src, state |-> "sound"]
         /\ row'[k] # NoRow
         /\ vouched' = IF t = "curated" THEN vouched \cup {<<k, src>>} ELSE vouched
         /\ count' = IF row[k] = NoRow THEN count + 1 ELSE count
<1>1. [trust |-> t, source |-> src, state |-> "sound"] \in Row
  BY DEF Row
<1>2. [trust |-> t, source |-> src, state |-> "sound"] # NoRow
  BY <1>1, Given
<1> QED
  BY <1>1, <1>2 DEF Merge, TypeOK, Yields
----------------------------------------------------------------------------
(* Types.                                                                  *)
LEMMA TypeInit == Init => TypeOK
<1> SUFFICES ASSUME Init PROVE TypeOK
  OBVIOUS
<1>1. Len(Seeds) \in Nat
  BY Given
<1> QED
  BY <1>1, Given DEF Init, TypeOK

LEMMA MirrorType ==
  ASSUME TypeOK, NEW k \in Keys, Mirror(k)
  PROVE  sim' \in [Sketches -> Keys \cup {NoTask}]
  BY DEF TypeOK, Mirror, Sketches

LEMMA MergeType ==
  ASSUME TypeOK, NEW k \in Keys, NEW t \in Trusts, NEW src \in Contents, Merge(k, t, src)
  PROVE  /\ row' \in [Keys -> Row \cup {NoRow}] /\ count' \in Nat
         /\ vouched' \in SUBSET (Keys \X Contents)
<1>0. /\ row' \in [Keys -> Row \cup {NoRow}]
      /\ count' = IF row[k] = NoRow THEN count + 1 ELSE count
      /\ vouched' = IF t = "curated" THEN vouched \cup {<<k, src>>} ELSE vouched
  BY Rows
<1>1. count' \in Nat
  BY <1>0 DEF TypeOK
<1>2. vouched' \in SUBSET (Keys \X Contents)
  <2>1. <<k, src>> \in Keys \X Contents
    OBVIOUS
  <2>2. CASE t = "curated"
    BY <1>0, <2>1, <2>2 DEF TypeOK
  <2>3. CASE t # "curated"
    BY <1>0, <2>3 DEF TypeOK
  <2> QED
    BY <2>2, <2>3
<1> QED
  BY <1>0, <1>1, <1>2

LEMMA TypeStep == TypeOK /\ [Next]_vars => TypeOK'
<1> SUFFICES ASSUME TypeOK, [Next]_vars PROVE TypeOK'
  OBVIOUS
<1> USE Given
<1>1. CASE Seed
  <2> DEFINE k == Seeds[seeded + 1]
  <2>1. k \in Keys /\ seeded + 1 \in 1..Len(Seeds)
    BY <1>1, NextSeed DEF Seed
  <2>2. seeded' \in 0..Len(Seeds) /\ UNCHANGED <<durable, task, calls, granted>>
    BY <1>1, <2>1 DEF Seed
  <2>3. skipped' \in 0..seeded' /\ troubles' \in 0..MaxTroubles /\ failed' \in SUBSET Keys
    BY <1>1, <2>1 DEF Seed, TypeOK
  <2>4. CASE Merge(k, "curated", "bundled") /\ Mirror(k)
    <3>1. /\ row' \in [Keys -> Row \cup {NoRow}] /\ count' \in Nat
          /\ vouched' \in SUBSET (Keys \X Contents)
      BY <2>1, <2>4, MergeType DEF Trusts, Contents
    <3>2. sim' \in [Sketches -> Keys \cup {NoTask}]
      BY <2>1, <2>4, MirrorType
    <3> QED
      BY <2>2, <2>3, <3>1, <3>2 DEF TypeOK
  <2>5. CASE UNCHANGED <<store, vouched>>
    BY <2>2, <2>3, <2>5 DEF TypeOK, store
  <2> QED
    BY <1>1, <2>4, <2>5 DEF Seed
<1>2. ASSUME NEW c \in Clients, NEW k \in Keys, NEW src \in Sources,
             Curate(c, k, src) \/ Ingest(c, k, src)
      PROVE  TypeOK'
  <2>1. UNCHANGED <<durable, sim, boot, troubles, granted>>
    BY <1>2 DEF Curate, Ingest
  <2>2. PICK t \in Trusts : Merge(k, t, src)
    BY <1>2 DEF Curate, Ingest, Trusts
  <2>3. /\ row' \in [Keys -> Row \cup {NoRow}] /\ count' \in Nat
        /\ vouched' \in SUBSET (Keys \X Contents)
    BY <2>2, MergeType DEF Contents
  <2>4. calls' \in 0..MaxCalls /\ task' \in [Clients -> Keys \cup {NoTask}]
    BY <1>2 DEF Curate, Ingest, TypeOK
  <2> QED
    BY <2>1, <2>3, <2>4 DEF TypeOK, boot
<1>3. ASSUME NEW c \in Clients, Reference(c) PROVE TypeOK'
  <2>1. task[c] \in Keys
    BY <1>3 DEF Reference, TypeOK
  <2>2. sim' \in [Sketches -> Keys \cup {NoTask}]
    BY <1>3, <2>1, MirrorType DEF Reference
  <2> QED
    BY <1>3, <2>2 DEF Reference, TypeOK, boot
<1>4. ASSUME NEW id \in Keys, NEW k \in Keys, Cite(id, k) PROVE TypeOK'
  BY <1>4 DEF Cite, TypeOK, store, boot
<1>5. ASSUME NEW k \in Keys, NEW s \in {"damaged", "mislabelled"}, Damage(k, s) PROVE TypeOK'
  <2>1. row[k] \in Row
    BY <1>5 DEF Damage, TypeOK
  <2>2. row' \in [Keys -> Row \cup {NoRow}]
    BY <1>5, <2>1 DEF Damage, TypeOK, Row
  <2>3. troubles' \in 0..MaxTroubles
    BY <1>5 DEF Damage, TypeOK
  <2> QED
    BY <1>5, <2>2, <2>3 DEF Damage, TypeOK, boot
<1>6. CASE Reboot
  <2>1. Cardinality(Stored) \in Nat
    BY StoredFinite DEF Stored
  <2>2. row' \in [Keys -> Row \cup {NoRow}] /\ count' \in Nat
    BY <1>6, <2>1 DEF Reboot, TypeOK
  <2>3. troubles' \in 0..MaxTroubles /\ Len(Seeds) \in Nat
    BY <1>6 DEF Reboot, TypeOK
  <2> QED
    BY <1>6, <2>2, <2>3 DEF Reboot, TypeOK
<1>7. CASE UNCHANGED vars
  BY <1>7 DEF vars, store, boot, TypeOK
<1> QED
  BY <1>1, <1>2, <1>3, <1>4, <1>5, <1>6, <1>7 DEF Next

(* The registry is well-typed.                                             *)
THEOREM TypeCorrect == Spec => []TypeOK
<1> QED
  BY TypeInit, TypeStep, PTL DEF Spec
----------------------------------------------------------------------------
(* Whatever writers, damage and reboots do, what is curated was vouched    *)
(* for, and so was what a citation that was good for a verdict cited.      *)
LEMMA VouchedStep ==
  TypeOK /\ CuratedVouched /\ CitationsSound /\ [Next]_vars => (CuratedVouched /\ CitationsSound)'
<1> SUFFICES ASSUME TypeOK, CuratedVouched, CitationsSound, [Next]_vars
             PROVE  CuratedVouched' /\ CitationsSound'
  OBVIOUS
<1>1. vouched \subseteq vouched'
  BY RowSteps, Rows DEF Kept, Merged, Damaged, Damage, Reboot
<1>2. CuratedVouched'
  <2> SUFFICES ASSUME NEW k \in Keys, row'[k] # NoRow, row'[k].trust = "curated"
               PROVE  <<k, row'[k].source>> \in vouched'
    BY DEF CuratedVouched
  <2>1. CASE Kept
    BY <2>1 DEF Kept, CuratedVouched
  <2>2. ASSUME NEW j \in Keys, NEW t \in Trusts, NEW src \in Contents, Merge(j, t, src)
        PROVE  <<k, row'[k].source>> \in vouched'
    <3>1. CASE row'[k] = row[k]
      BY <1>1, <3>1 DEF CuratedVouched
    <3>2. CASE row'[k] # row[k]
      <4>1. j = k /\ ~Yields(k, t)
        BY <2>2, <3>2, Rows
      <4>2. row'[k] = [trust |-> t, source |-> src, state |-> "sound"]
        BY <2>2, <4>1, Rows
      <4>3. vouched' = vouched \cup {<<k, src>>}
        BY <2>2, <4>1, <4>2, Rows
      <4> QED
        BY <4>2, <4>3
    <3> QED
      BY <3>1, <3>2
  <2>3. CASE Damaged
    <3>1. PICK j \in Keys, s \in {"damaged", "mislabelled"} : Damage(j, s)
      BY <2>3 DEF Damaged
    <3>2. row[j] \in Row /\ row[k] \in Row \cup {NoRow}
      BY <3>1 DEF Damage, TypeOK
    <3>3. row[k] # NoRow /\ row[k].trust = "curated" /\ row'[k].source = row[k].source
      BY <3>1, <3>2 DEF Damage, TypeOK, Row
    <3> QED
      BY <1>1, <3>3 DEF CuratedVouched
  <2>4. CASE Reboot
    BY <2>4 DEF Reboot, CuratedVouched
  <2> QED
    BY <2>1, <2>2, <2>3, <2>4, RowSteps DEF Merged
<1>3. CitationsSound'
  <2> SUFFICES ASSUME NEW g \in granted'
               PROVE  g[1] = g[2] /\ \E src \in Contents : <<g[2], src>> \in vouched'
    BY DEF CitationsSound
  <2>1. CASE g \in granted
    BY <1>1, <2>1 DEF CitationsSound
  <2>2. CASE g \notin granted
    <3>1. PICK k \in Keys : Grounds(k, k) /\ g = <<k, k>>
      BY <2>2 DEF Next, Seed, Curate, Ingest, Reference, Cite, Grounds, Damage, Reboot, vars
    <3>2. row[k] \in Row /\ row[k].trust = "curated"
      BY <3>1 DEF Grounds, Found, TypeOK
    <3>3. row[k].source \in Contents /\ <<k, row[k].source>> \in vouched'
      BY <1>1, <3>1, <3>2, Given DEF CuratedVouched, Row
    <3> QED
      BY <3>1, <3>3
  <2> QED
    BY <2>1, <2>2
<1> QED
  BY <1>2, <1>3

(* Nobody but a curator puts words into a curated fact, and a citation     *)
(* that grounded a verdict cited its own key, vouched for by somebody.     *)
THEOREM CitationsVouched == Spec => [](CuratedVouched /\ CitationsSound)
<1>1. Init => CuratedVouched /\ CitationsSound
  BY DEF Init, CuratedVouched, CitationsSound
<1> QED
  BY <1>1, VouchedStep, TypeCorrect, PTL DEF Spec

(* What is curated was vouched for, content and all, through observations, *)
(* a full store, failed commits, damage and reboots.                       *)
THEOREM CuratedIsVouched == Spec => []CuratedVouched
BY CitationsVouched, PTL
----------------------------------------------------------------------------
(* Outside a reboot a curated row stays curated, and a damaged one damaged.*)
Sure   == {k \in Keys : row[k] # NoRow /\ row[k].trust = "curated"}
Broken == {k \in Keys : row[k] # NoRow /\ row[k].state = "damaged"}

LEMMA RowsStay ==
  ASSUME TypeOK, [Next]_vars, ~Reboot
  PROVE  Sure \subseteq Sure' /\ Broken \subseteq Broken'
<1> SUFFICES ASSUME NEW k \in Keys
             PROVE  /\ k \in Sure => k \in Sure'
                    /\ k \in Broken => k \in Broken'
  BY DEF Sure, Broken
<1> USE DEF Sure, Broken
<1>1. CASE Kept
  BY <1>1 DEF Kept
<1>2. ASSUME NEW j \in Keys, NEW t \in Trusts, NEW src \in Contents, Merge(j, t, src)
      PROVE  /\ k \in Sure => k \in Sure'
             /\ k \in Broken => k \in Broken'
  <2>1. CASE j # k
    <3>1. row'[k] = row[k]
      BY <1>2, <2>1, Rows
    <3> QED
      BY <3>1
  <2>2. CASE j = k
    <3>1. k \notin Broken
      BY <1>2, <2>2 DEF Merge, Refused
    <3>2. /\ row'[k] # NoRow
          /\ IF Yields(k, t) THEN row'[k] = row[k]
                             ELSE row'[k] = [trust |-> t, source |-> src, state |-> "sound"]
      BY <1>2, <2>2, Rows
    <3>3. k \in Sure => k \in Sure'
      BY <3>2 DEF Yields, Trusts
    <3> QED
      BY <3>1, <3>3
  <2> QED
    BY <2>1, <2>2
<1>3. CASE Damaged
  <2>1. PICK j \in Keys, s \in {"damaged", "mislabelled"} :
          row[j] \in Row /\ row[j].state = "sound" /\ row' = [row EXCEPT ![j].state = s]
    BY <1>3 DEF Damaged, Damage, TypeOK
  <2>2. row[k] \in Row \cup {NoRow} /\ (j # k => row'[k] = row[k])
    BY <2>1 DEF TypeOK
  <2>3. j = k => row'[k] \in Row /\ row'[k].trust = row[k].trust
    BY <2>1 DEF TypeOK, Row
  <2> QED
    BY <2>1, <2>2, <2>3, Given
<1> QED
  BY <1>1, <1>2, <1>3, RowSteps DEF Merged

(* What a merge of a curated fact leaves is curated.                       *)
LEMMA MergeCurates ==
  ASSUME TypeOK, NEW k \in Keys, NEW src \in Contents, Merge(k, "curated", src)
  PROVE  k \in Sure'
<1>1. ~Yields(k, "curated") /\ "curated" \in Trusts
  BY DEF Yields, Trusts
<1>2. row'[k] # NoRow /\ row'[k] = [trust |-> "curated", source |-> src, state |-> "sound"]
  BY <1>1, Rows
<1> QED
  BY <1>2 DEF Sure

(* What a client has yet to mirror is curated: the lock is released        *)
(* between the two steps, and nothing takes the tier away in between.      *)
TasksCurated == \A c \in Clients : task[c] # NoTask => task[c] \in Sure

LEMMA LeadsStep ==
  TypeOK /\ TasksCurated /\ LeadsCurated /\ [Next]_vars => (TasksCurated /\ LeadsCurated)'
<1> SUFFICES ASSUME TypeOK, TasksCurated, LeadsCurated, [Next]_vars
             PROVE  TasksCurated' /\ LeadsCurated'
  OBVIOUS
<1>1. CASE Reboot
  BY <1>1 DEF Reboot, TasksCurated, LeadsCurated
<1>2. CASE ~Reboot
  <2>1. \A c \in Clients : task'[c] # NoTask => task'[c] \in Sure'
    <3> SUFFICES ASSUME NEW c \in Clients, task'[c] # NoTask
                 PROVE  task'[c] \in Sure'
      OBVIOUS
    <3>1. CASE task'[c] = task[c]
      <4>1. task[c] \in Keys /\ task[c] \in Sure
        BY <3>1 DEF TypeOK, TasksCurated
      <4> QED
        BY <1>2, <3>1, <4>1, RowsStay
    <3>2. CASE task'[c] # task[c]
      <4>1. PICK k \in Keys, src \in Sources : Curate(c, k, src) /\ task'[c] = k
        BY <1>2, <3>2 DEF Next, vars, Seed, Curate, Ingest, Reference, Cite, Damage, TypeOK
      <4>2. k \in Sure'
        BY <4>1, MergeCurates DEF Curate, Contents
      <4> QED
        BY <4>1, <4>2
    <3> QED
      BY <3>1, <3>2
  <2>2. \A g \in Sketches : sim'[g] # NoTask => Sketch(sim'[g]) = g /\ sim'[g] \in Sure'
    <3> SUFFICES ASSUME NEW g \in Sketches, sim'[g] # NoTask
                 PROVE  Sketch(sim'[g]) = g /\ sim'[g] \in Sure'
      OBVIOUS
    <3>1. CASE sim'[g] = sim[g]
      <4>1. sim[g] \in Keys /\ Sketch(sim[g]) = g /\ sim[g] \in Sure
        BY <3>1 DEF TypeOK, LeadsCurated, Sure
      <4> QED
        BY <1>2, <3>1, <4>1, RowsStay
    <3>2. CASE sim'[g] # sim[g]
      <4>1. PICK k \in Keys : Mirror(k) /\ k \in Sure'
        <5>1. CASE Seed
          <6>1. Seeds[seeded + 1] \in Keys
            BY <5>1, NextSeed DEF Seed
          <6>2. Merge(Seeds[seeded + 1], "curated", "bundled") /\ Mirror(Seeds[seeded + 1])
            BY <3>2, <5>1 DEF Seed, store
          <6> QED
            BY <6>1, <6>2, MergeCurates DEF Contents
        <5>2. ASSUME NEW c \in Clients, Reference(c)
              PROVE  \E k \in Keys : Mirror(k) /\ k \in Sure'
          <6>1. task[c] \in Keys /\ Mirror(task[c]) /\ task[c] \in Sure
            BY <5>2 DEF Reference, TypeOK, TasksCurated
          <6> QED
            BY <1>2, <6>1, RowsStay
        <5> QED
          BY <1>2, <3>2, <5>1, <5>2 DEF Next, vars, store, Curate, Ingest, Cite, Damage
      <4>2. g = Sketch(k) /\ sim'[g] = k
        BY <3>2, <4>1 DEF Mirror, TypeOK
      <4> QED
        BY <4>1, <4>2
    <3> QED
      BY <3>1, <3>2
  <2> QED
    BY <2>1, <2>2 DEF TasksCurated, LeadsCurated, Sure
<1> QED
  BY <1>1, <1>2

(* A lead points to a curated key with the sketch it is indexed under.     *)
THEOREM LeadsAreCurated == Spec => []LeadsCurated
<1>1. Init => TasksCurated /\ LeadsCurated
  BY DEF Init, TasksCurated, LeadsCurated
<1> QED
  BY <1>1, LeadsStep, TypeCorrect, PTL DEF Spec
----------------------------------------------------------------------------
(* So much of the corpus is in the store, whatever was there before: what  *)
(* boot has passed is curated or damaged, unless its commit failed.        *)
Passed(k) == k \in failed \/ k \in Sure \/ k \in Broken
SeedsPassed == \A i \in 1..Len(Seeds) : i <= seeded => Passed(Seeds[i])

LEMMA SeedsStep == TypeOK /\ SeedsPassed /\ [Next]_vars => SeedsPassed'
<1> SUFFICES ASSUME TypeOK, SeedsPassed, [Next]_vars, NEW i \in 1..Len(Seeds), i <= seeded'
             PROVE  Passed(Seeds[i])'
  BY DEF SeedsPassed
<1>1. Len(Seeds) \in Nat /\ Seeds[i] \in Keys
  BY Given
<1>2. ~Reboot
  BY <1>1 DEF Reboot
<1>3. failed \subseteq failed'
  BY <1>2 DEF Next, vars, boot, Seed, Curate, Ingest, Reference, Cite, Damage
<1>4. CASE i <= seeded
  BY <1>1, <1>2, <1>3, <1>4, RowsStay DEF SeedsPassed, Passed
<1>5. CASE ~(i <= seeded)
  <2>1. Seed
    BY <1>2, <1>5 DEF Next, vars, boot, Curate, Ingest, Reference, Cite, Damage
  <2>2. i = seeded + 1
    BY <1>1, <1>5, <2>1 DEF Seed, TypeOK
  <2>3. CASE Merge(Seeds[i], "curated", "bundled")
    <3>1. Seeds[i] \in Sure'
      BY <1>1, <2>3, MergeCurates DEF Contents
    <3> QED
      BY <3>1 DEF Passed
  <2>4. CASE Refused(Seeds[i], "curated") /\ UNCHANGED store
    <3>1. Seeds[i] \in Broken'
      BY <1>1, <2>4 DEF Refused, store, Broken
    <3> QED
      BY <3>1 DEF Passed
  <2>5. CASE failed' = failed \cup {Seeds[i]}
    BY <2>5 DEF Passed
  <2> QED
    BY <2>1, <2>2, <2>3, <2>4, <2>5 DEF Seed
<1> QED
  BY <1>4, <1>5

(* When anyone is served the corpus grounds claims, however full the store.*)
THEOREM CorpusGrounds == Spec => []SeedsGround
<1>1. Init => SeedsPassed
  BY Given DEF Init, SeedsPassed
<1>2. TypeOK /\ SeedsPassed => SeedsGround
  <2> SUFFICES ASSUME TypeOK, SeedsPassed, Serving, NEW i \in 1..Len(Seeds)
               PROVE  Passed(Seeds[i])
    BY Given DEF SeedsGround, Passed, Sure, Broken, TypeOK, Row
  <2> QED
    BY Given DEF SeedsPassed, Serving
<1> QED
  BY <1>1, <1>2, SeedsStep, TypeCorrect, PTL DEF Spec
----------------------------------------------------------------------------
Observed == {k \in Stored : row[k].trust = "ingest"}

LEMMA CountStep == TypeOK /\ CountExact /\ [Next]_vars => CountExact'
<1> SUFFICES ASSUME TypeOK, CountExact, [Next]_vars
             PROVE  count' = Cardinality(Stored') /\ Cardinality(Observed') <= MaxFacts
  BY DEF CountExact, Observed
<1>0. /\ count = Cardinality(Stored) /\ Cardinality(Observed) <= MaxFacts
      /\ IsFiniteSet(Stored) /\ IsFiniteSet(Observed) /\ IsFiniteSet(Stored')
      /\ IsFiniteSet(Observed') /\ Cardinality(Observed) \in Nat /\ Cardinality(Stored) \in Nat
      /\ Cardinality(Observed') \in Nat
  BY StoredFinite DEF CountExact, Observed, Stored
<1>1. CASE Kept
  BY <1>0, <1>1 DEF Kept, Stored, Observed
<1>2. ASSUME NEW k \in Keys, NEW t \in Trusts, NEW src \in Contents, Merge(k, t, src)
      PROVE  count' = Cardinality(Stored') /\ Cardinality(Observed') <= MaxFacts
  <2>1. /\ \A j \in Keys \ {k} : row'[j] = row[j]
        /\ IF Yields(k, t) THEN row'[k] = row[k]
                           ELSE row'[k] = [trust |-> t, source |-> src, state |-> "sound"]
        /\ row'[k] # NoRow
        /\ count' = IF row[k] = NoRow THEN count + 1 ELSE count
    BY <1>2, Rows
  <2>2. Stored' = Stored \cup {k}
    BY <2>1 DEF Stored
  <2>3. CASE row[k] # NoRow
    <3>0. Stored' = Stored
      BY <2>2, <2>3 DEF Stored
    <3>1. Stored' = Stored /\ Observed' \subseteq Observed
      <4> SUFFICES ASSUME NEW j \in Stored, row'[j].trust = "ingest"
                   PROVE  row[j].trust = "ingest"
        BY <3>0 DEF Observed
      <4>1. CASE j # k
        BY <2>1, <4>1 DEF Stored
      <4>2. CASE j = k
        BY <2>1, <2>3, <4>2 DEF Yields, Trusts, TypeOK, Row
      <4> QED
        BY <4>1, <4>2
    <3>2. Cardinality(Observed') <= Cardinality(Observed)
      BY <1>0, <3>1, FS_Subset
    <3> QED
      BY <1>0, <2>1, <2>3, <3>1, <3>2, Given
  <2>4. CASE row[k] = NoRow
    <3>1. k \notin Stored /\ Cardinality(Stored') = Cardinality(Stored) + 1
      BY <1>0, <2>2, <2>4, FS_AddElement DEF Stored
    <3>2. Cardinality(Observed') <= MaxFacts
      <4>1. CASE t = "ingest"
        <5>1. count < MaxFacts
          BY <1>2, <2>4, <4>1, <1>0, Given DEF Merge, Refused
        <5>2. Observed' \subseteq Stored'
          BY DEF Observed
        <5>3. Cardinality(Observed') <= Cardinality(Stored')
          BY <1>0, <5>2, FS_Subset
        <5> QED
          BY <1>0, <3>1, <5>1, <5>3, Given
      <4>2. CASE t = "curated"
        <5>1. Observed' \subseteq Observed
          BY <2>1, <2>2, <2>4, <4>2 DEF Observed, Yields, Stored
        <5>2. Cardinality(Observed') <= Cardinality(Observed)
          BY <1>0, <5>1, FS_Subset
        <5> QED
          BY <1>0, <5>2, Given
      <4> QED
        BY <4>1, <4>2 DEF Trusts
    <3> QED
      BY <1>0, <2>1, <2>4, <3>1, <3>2
  <2> QED
    BY <2>3, <2>4
<1>3. CASE Damaged
  <2>1. PICK j \in Keys, s \in {"damaged", "mislabelled"} :
          /\ row[j] \in Row /\ row' = [row EXCEPT ![j].state = s] /\ count' = count
    BY <1>3 DEF Damaged, Damage, TypeOK
  <2>2. row'[j] \in Row /\ row'[j].trust = row[j].trust
    BY <2>1 DEF TypeOK, Row
  <2>3. \A k \in Keys \ {j} : row'[k] = row[k]
    BY <2>1 DEF TypeOK
  <2>4. Stored' = Stored
    BY <2>1, <2>2, <2>3, Given DEF Stored
  <2>5. Observed' = Observed
    BY <2>1, <2>2, <2>3, <2>4 DEF Stored, Observed
  <2> QED
    BY <1>0, <2>1, <2>4, <2>5
<1>4. CASE Reboot
  <2>1. CASE durable
    BY <1>0, <1>4, <2>1 DEF Reboot, Stored, Observed
  <2>2. CASE ~durable
    <3>1. Stored' = {} /\ Observed' = {} /\ count' = 0
      BY <1>4, <2>2 DEF Reboot, Stored, Observed
    <3> QED
      BY <3>1, FS_EmptySet, Given
  <2> QED
    BY <2>1, <2>2
<1> QED
  BY <1>1, <1>2, <1>3, <1>4, RowSteps DEF Merged

(* The live count is the number of rows, and what is observed is bounded.  *)
THEOREM CountIsExact == Spec => []CountExact
<1>1. Init => CountExact
  <2> SUFFICES ASSUME Init PROVE CountExact
    OBVIOUS
  <2>1. Stored = {} /\ {k \in Stored : row[k].trust = "ingest"} = {} /\ count = 0
    BY DEF Init, Stored
  <2> QED
    BY <2>1, FS_EmptySet, Given DEF CountExact
<1> QED
  BY <1>1, CountStep, TypeCorrect, PTL DEF Spec
----------------------------------------------------------------------------
(* The rows implement the abstract tiers.                                  *)
THEOREM Refinement == Spec => OnlyRise
<1> DEFINE Tier(k) == IF row[k] = NoRow THEN "absent" ELSE row[k].trust
           tiers == [k \in Keys |-> Tier(k)]
<1>1. Init => RowTiers!Init
  BY DEF Init, RowTiers!Init
<1>2. TypeOK /\ [Next]_vars => [RowTiers!Next]_RowTiers!vars
  <2> SUFFICES ASSUME TypeOK, [Next]_vars PROVE [RowTiers!Next]_RowTiers!vars
    OBVIOUS
  <2> USE DEF RowTiers!vars, RowTiers!Next
  <2>1. CASE Kept
    BY <2>1 DEF Kept
  <2>2. ASSUME NEW k \in Keys, NEW t \in Trusts, NEW src \in Contents,
               Merge(k, t, src), UNCHANGED durable
        PROVE  [RowTiers!Next]_RowTiers!vars
    <3>1. /\ \A j \in Keys \ {k} : row'[j] = row[j]
          /\ IF Yields(k, t) THEN row'[k] = row[k]
                             ELSE row'[k] = [trust |-> t, source |-> src, state |-> "sound"]
          /\ row'[k] # NoRow
      BY <2>2, Rows
    <3>2. Tier(k)' = IF Yields(k, t) THEN Tier(k) ELSE t
      BY <3>1
    <3>3. Tier(k) \in {"absent", "ingest", "curated"}
      BY DEF TypeOK, Row, Trusts
    <3>4. tiers' = [tiers EXCEPT ![k] = Tier(k)']
      BY <3>1
    <3>5. CASE Tier(k)' = Tier(k)
      BY <2>2, <3>4, <3>5
    <3>6. CASE Tier(k)' # Tier(k)
      <4>1. \/ t = "curated" /\ Tier(k) \in {"absent", "ingest"}
            \/ t = "ingest" /\ Tier(k) = "absent"
        <5>1. ~Yields(k, t) /\ t # Tier(k)
          BY <3>2, <3>6
        <5>2. Tier(k) = "curated" => row[k] # NoRow /\ row[k].trust = "curated"
          OBVIOUS
        <5> QED
          BY <5>1, <5>2, <3>3 DEF Yields, Trusts
      <4>2. RowTiers!Rank[Tier(k)'] > RowTiers!Rank[Tier(k)] /\ Tier(k)' \in RowTiers!Tier
        BY <3>2, <3>6, <4>1 DEF RowTiers!Rank, RowTiers!Tier
      <4>3. RowTiers!Rise(k)
        BY <2>2, <3>4, <4>2 DEF RowTiers!Rise
      <4> QED
        BY <4>3
    <3> QED
      BY <3>5, <3>6
  <2>3. CASE Damaged
    <3>1. PICK j \in Keys, s \in {"damaged", "mislabelled"} :
            row[j] \in Row /\ row' = [row EXCEPT ![j].state = s] /\ UNCHANGED durable
      BY <2>3 DEF Damaged, Damage, TypeOK
    <3>2. row'[j] \in Row /\ row'[j].trust = row[j].trust
      BY <3>1 DEF TypeOK, Row
    <3>3. \A k \in Keys \ {j} : row'[k] = row[k]
      BY <3>1 DEF TypeOK
    <3>4. tiers' = tiers
      BY <3>1, <3>2, <3>3, Given
    <3> QED
      BY <3>1, <3>4
  <2>4. CASE Reboot
    BY <2>4 DEF Reboot, RowTiers!Forget
  <2> QED
    BY <2>1, <2>2, <2>3, <2>4, RowSteps DEF Merged
<1> QED
  BY <1>1, <1>2, TypeCorrect, PTL DEF Spec, OnlyRise, RowTiers!Spec
=============================================================================
