---------------------------- MODULE Roster_proofs ----------------------------
(***************************************************************************)
(* Proofs about the roster and its gate, for any agents and any number of  *)
(* submissions, and about the ledger they write to: what a hash that never *)
(* collides makes of it, at any length.                                    *)
(***************************************************************************)
EXTENDS Roster, FiniteSetTheorems, SequenceTheorems, WellFoundedInduction, TLAPS

(* A set of numbers that is not empty has a least one.                     *)
LEMMA LeastOf ==
  ASSUME NEW T \in SUBSET Nat, T # {}
  PROVE  \E x \in T : \A y \in T : x <= y
<1> DEFINE R == {p \in Nat \X Nat : p[1] < p[2]}
<1>1. IsWellFoundedOn(R, Nat)
  BY NatLessThanWellFounded DEF OpToRel
<1>2. \E x \in T : \A y \in T : <<y, x>> \notin R
  BY <1>1, WFMin
<1>3. \A x, y \in T : <<y, x>> \notin R => x <= y
  OBVIOUS
<1> QED
  BY <1>2, <1>3

(* What an entry of a ledger that verifies is.                             *)
LEMMA Entry ==
  ASSUME NEW l, Verify(l), NEW i \in 1..Len(l.entries)
  PROVE  l.entries[i] = Seal(i - 1, l.entries[i].body, Before(l, i))
  BY DEF Verify

(* A hash fixes what it was taken of.                                      *)
LEMMA SealFixed ==
  ASSUME \A x, y : Hash(x) = Hash(y) => x = y,
         NEW n, NEW a, NEW p, NEW b, NEW q, Seal(n, a, p).hash = Seal(n, b, q).hash
  PROVE  a = b /\ p = q
<1>1. Hash(Blank(n, a, p)) = Hash(Blank(n, b, q))
  BY DEF Seal
<1>2. Blank(n, a, p) = Blank(n, b, q)
  BY <1>1
<1> QED
  BY <1>2 DEF Blank

(* One entry of two ledgers that agree from there on.                      *)
LEMMA StepBack ==
  ASSUME \A x, y : Hash(x) = Hash(y) => x = y,
         NEW l, NEW m, Verify(l), Verify(m), Len(l.entries) = Len(m.entries),
         Len(l.entries) \in Nat, NEW i \in 1..Len(l.entries),
         Before(l, i + 1) = Before(m, i + 1)
  PROVE  l.entries[i] = m.entries[i] /\ Before(l, i) = Before(m, i)
<1> DEFINE a == l.entries[i].body
           b == m.entries[i].body
<1>1. l.entries[i] = Seal(i - 1, a, Before(l, i)) /\ m.entries[i] = Seal(i - 1, b, Before(m, i))
  BY Entry
<1>2. l.entries[i].hash = m.entries[i].hash
  BY DEF Before
<1>3. Seal(i - 1, a, Before(l, i)).hash = Seal(i - 1, b, Before(m, i)).hash
  BY <1>1, <1>2
<1> HIDE DEF a, b
<1>4. a = b /\ Before(l, i) = Before(m, i)
  BY <1>3, SealFixed
<1> QED
  BY <1>1, <1>4

(* The head and the count fix every entry: two ledgers that verify, of one *)
(* length and with one head, are the same, so no rewriting of history that *)
(* keeps them goes unnoticed.                                              *)
THEOREM HeadFixesHistory ==
  ASSUME \A x, y : Hash(x) = Hash(y) => x = y,
         NEW l, NEW m, NEW S, l.entries \in Seq(S), m.entries \in Seq(S),
         NEW count, NEW head, VerifyAgainst(l, count, head), VerifyAgainst(m, count, head)
  PROVE  l.entries = m.entries
<1> DEFINE n == Len(l.entries)
           T == {k \in 0..n : Before(l, k + 1) = Before(m, k + 1)}
<1>1. /\ n \in Nat /\ Len(m.entries) = n /\ Verify(l) /\ Verify(m)
      /\ Before(l, n + 1) = Before(m, n + 1)
  BY DEF VerifyAgainst, Verify
<1>2. \A k \in 1..n : k \in T => l.entries[k] = m.entries[k] /\ k - 1 \in T
  <2> SUFFICES ASSUME NEW k \in 1..n, k \in T
               PROVE  l.entries[k] = m.entries[k] /\ k - 1 \in T
    OBVIOUS
  <2>1. l.entries[k] = m.entries[k] /\ Before(l, k) = Before(m, k)
    BY <1>1, StepBack
  <2>2. k - 1 \in 0..n /\ (k - 1) + 1 = k
    BY <1>1
  <2> QED
    BY <2>1, <2>2
<1>3. n \in T
  BY <1>1
<1> HIDE DEF T
<1> DEFINE U == {j \in 0..n : n - j \notin T}
<1>4. U = {}
  <2> SUFFICES ASSUME U # {} PROVE FALSE
    OBVIOUS
  <2>1. U \in SUBSET Nat
    BY <1>1
  <2>2. PICK j \in U : \A k \in U : j <= k
    BY <2>1, LeastOf
  <2>3. j \in 1..n
    BY <1>1, <1>3, <2>2
  <2>4. j - 1 \in 0..n /\ j - 1 \notin U
    BY <1>1, <2>2, <2>3
  <2>5. n - (j - 1) \in T /\ n - (j - 1) \in 1..n /\ n - (j - 1) - 1 = n - j
    BY <1>1, <2>3, <2>4
  <2>6. n - j \in T
    BY <1>2, <2>5
  <2> QED
    BY <2>2, <2>6
<1>5. \A k \in 1..n : k \in T
  <2> SUFFICES ASSUME NEW k \in 1..n PROVE k \in T
    OBVIOUS
  <2>1. n - k \in 0..n /\ n - (n - k) = k
    BY <1>1
  <2> QED
    BY <1>4, <2>1
<1>6. \A k \in 1..n : l.entries[k] = m.entries[k]
  BY <1>2, <1>5
<1> QED
  BY <1>1, <1>6
----------------------------------------------------------------------------
(* Appending keeps a ledger that verifies so, and only ever extends it.    *)
THEOREM AppendingVerifies ==
  ASSUME NEW l, NEW S, l.entries \in Seq(S), Verify(l), NEW body
  PROVE  /\ Verify(Appended(l, body))
         /\ \A i \in 1..Len(l.entries) : Appended(l, body).entries[i] = l.entries[i]
<1> DEFINE n == Len(l.entries)
           e == Seal(n, body, l.last)
           a == Appended(l, body)
<1>1. n \in Nat /\ a.entries = Append(l.entries, e) /\ a.last = e.hash
  BY DEF Appended
<1> HIDE DEF e, a
<1>2. /\ Len(a.entries) = n + 1 /\ a.entries[n + 1] = e
      /\ \A i \in 1..n : a.entries[i] = l.entries[i]
  BY <1>1
<1>3. \A i \in 1..(n + 1) : Before(a, i) = Before(l, i)
  BY <1>1, <1>2 DEF Before
<1>4. Before(a, n + 2) = a.last
  BY <1>1, <1>2 DEF Before
<1>5. ASSUME NEW i \in 1..(n + 1)
      PROVE  a.entries[i] = Seal(i - 1, a.entries[i].body, Before(a, i))
  <2>1. CASE i \in 1..n
    BY <1>2, <1>3, <2>1, Entry
  <2>2. CASE i = n + 1
    <3>1. Before(a, i) = l.last /\ i - 1 = n
      BY <1>1, <1>3, <2>2 DEF Verify
    <3>2. e.body = body
      BY DEF e, Seal
    <3> QED
      BY <1>2, <2>2, <3>1, <3>2 DEF e
  <2> QED
    BY <1>1, <2>1, <2>2
<1>6. Verify(a)
  BY <1>1, <1>2, <1>4, <1>5 DEF Verify
<1> QED
  BY <1>2, <1>6 DEF a
----------------------------------------------------------------------------
(* The roster: what the assumptions say, one by one.                       *)
LEMMA Given ==
  /\ IsFiniteSet(Techniques) /\ CuratedOf \subseteq Techniques /\ IngestOf \subseteq Techniques
  /\ NoTechnique \notin Techniques /\ Junk \notin Techniques
  /\ \A f \in FamilyReplies : f \in Family
  /\ \A r \in BehaviourReplies : r \in Seq(Behaviour)
  /\ \A r \in IOCReplies : r \subseteq IOC
  /\ \A ev \in Evidences : ev \subseteq Techniques
  /\ \A body \in OtherRecords : body \in Handshake
  /\ Samples \in 1..5 /\ MaxHyps \in Nat /\ MaxCites \in Nat /\ MaxIOCs \in Nat /\ MaxLong \in Nat
  /\ NoveltyPct \in Nat /\ AgreementPct \in Nat /\ MaxSubs \in Nat /\ MaxTroubles \in Nat
  BY RosterConstants

(* Numbers of a list count.                                                *)
LEMMA Counted ==
  ASSUME NEW n \in Nat, NEW T \in SUBSET (1..n)
  PROVE  IsFiniteSet(T) /\ Cardinality(T) \in Nat
<1>1. IsFiniteSet(1..n)
  BY FS_Interval
<1> QED
  BY <1>1, FS_Subset, FS_CardinalityType

LEMMA AgreementType ==
  ASSUME TypeOK, NEW i
  PROVE  Agreement(i) \in [hits : Nat, total : Nat]
<1>1. Len(samples) \in Nat
  BY DEF TypeOK
<1>2. Cardinality({s \in 1..Len(samples) : hypTTP[i] \in samples[s]}) \in Nat
  BY <1>1, Counted
<1> QED
  BY <1>1, <1>2 DEF Agreement

(* What the reasoner's answer becomes: one hypothesis for each behaviour   *)
(* that is explained, in their order, and its technique beside it.         *)
LEMMA Behaviours ==
  ASSUME NEW reply \in BehaviourReplies, AskCapability(reply), TypeOK
  PROVE  \E n \in Nat : \E at \in [1..n -> 1..Len(reply)] :
           /\ \A i \in 1..n : reply[at[i]] \in Behaviour /\ reply[at[i]].why # "none"
           /\ hyps' = hyps \o [i \in 1..n |->
                [kind |-> "technique", claim |-> reply[at[i]].why, conf |-> "LOW",
                 cites |-> Clean(reply[at[i]].cites), about |-> reply[at[i]].ttp]]
           /\ hypTTP' = hypTTP \o [i \in 1..n |-> reply[at[i]].ttp]
<1> DEFINE told == {i \in 1..Len(reply) : reply[i].why # "none"}
<1>1. reply \in Seq(Behaviour) /\ Len(reply) \in Nat
  <2>1. reply \in Seq(Behaviour)
    BY Given
  <2> QED
    BY ONLY <2>1
<1>2. Cardinality(told) \in Nat
  <2>1. told \in SUBSET (1..Len(reply))
    OBVIOUS
  <2> HIDE DEF told
  <2> QED
    BY <1>1, <2>1, Counted
<1>3. PICK at \in [1..Cardinality(told) -> told] :
        /\ hyps' = hyps \o [i \in 1..Cardinality(told) |->
             [kind |-> "technique", claim |-> reply[at[i]].why, conf |-> "LOW",
              cites |-> Clean(reply[at[i]].cites), about |-> reply[at[i]].ttp]]
        /\ hypTTP' = hypTTP \o [i \in 1..Cardinality(told) |-> reply[at[i]].ttp]
  BY DEF AskCapability
<1>4. \A i \in 1..Cardinality(told) : at[i] \in 1..Len(reply) /\ reply[at[i]].why # "none"
  BY <1>3
<1>5. \A i \in 1..Cardinality(told) : reply[at[i]] \in Behaviour
  BY <1>1, <1>4
<1>6. at \in [1..Cardinality(told) -> 1..Len(reply)]
  BY <1>3
<1> HIDE DEF told
<1> QED
  BY <1>2, <1>3, <1>4, <1>5, <1>6

LEMMA ToldType ==
  ASSUME NEW reply \in BehaviourReplies
  PROVE  Told(reply) \in SUBSET Techniques
<1>1. reply \in Seq(Behaviour)
  BY Given
<1>2. \A i \in 1..Len(reply) : reply[i].ttp \in Techniques \cup {NoTechnique}
  <2>1. \A b \in Behaviour : b.ttp \in Techniques \cup {NoTechnique}
    BY DEF Behaviour, Named
  <2>2. \A i \in 1..Len(reply) : reply[i] \in Behaviour
    BY <1>1
  <2> QED
    BY <2>1, <2>2
<1> QED
  BY <1>2 DEF Told
----------------------------------------------------------------------------
(* The answer of the gate and its record.                                  *)
LEMMA AnswerFacts ==
  ASSUME TypeOK, NEW modes \in Modes
  PROVE  LET a == Answer(modes)
         IN  /\ a \in Result /\ a.outcome \in {"rejected", "gated"}
             /\ IsFiniteSet(a.accepted) /\ Cardinality(a.accepted) \in Nat
             /\ \A i \in a.accepted : /\ a.outcome = "gated" /\ i \in 1..Len(hyps)
                                      /\ hyps[i].cites \cap CuratedOf # {}
                                      /\ ~signals[i].refuted /\ ~signals[i].novel
                                      /\ ~Weighed(i).shaky
<1> DEFINE a == Answer(modes)
<1>1. Len(hyps) \in Nat
  BY DEF TypeOK
<1>2. CASE Malformed
  <2>1. a = [outcome |-> "rejected", accepted |-> {}, escalated |-> {}]
    BY <1>2 DEF Answer, Nothing
  <2>2. IsFiniteSet({}) /\ Cardinality({}) = 0
    BY FS_EmptySet
  <2> QED
    BY <2>1, <2>2 DEF Result
<1>3. CASE ~Malformed
  <2>1. /\ a.outcome = "gated" /\ a \in Result
        /\ a.accepted \subseteq 1..Len(hyps)
    BY <1>1, <1>3 DEF Answer, Result
  <2>2. \A i \in a.accepted :
          Accepts(Weighed(i), signals[i].calibrated, modes[hyps[i].kind])
    BY <1>3 DEF Answer
  <2>3. \A i \in a.accepted : Weighed(i).grounded /\ ~Weighed(i).refuted
                              /\ ~Weighed(i).novel /\ ~Weighed(i).shaky
    BY <2>2 DEF Accepts, Stopped
  <2>4. \A i : /\ Weighed(i).grounded = (hyps[i].cites \cap CuratedOf # {})
               /\ Weighed(i).refuted = signals[i].refuted
               /\ Weighed(i).novel = signals[i].novel
    BY DEF Weighed
  <2> HIDE DEF a
  <2> QED
    BY <1>1, <2>1, <2>3, <2>4, Counted DEF a
<1> QED
  BY <1>2, <1>3

(* What an entry of the ledger says agrees with itself.                    *)
Coherent(b) == /\ b \in Handshake
               /\ b.cited # {} => "L0" \in b.tiers
               /\ b.accepted > 0 => b.cited # {}

LEMMA RecordFacts ==
  ASSUME TypeOK, NEW modes \in Modes
  PROVE  LET a == Answer(modes)
         IN  /\ Coherent(Record(a))
             /\ Record(a).outcome = a.outcome
             /\ Record(a).accepted = Cardinality(a.accepted)
             /\ Record(a).needsHuman <=> a.escalated # {}
<1> DEFINE a == Answer(modes)
           cited == IF a.outcome = "rejected" THEN {}
                    ELSE UNION {hyps[i].cites \cap CuratedOf : i \in 1..Len(hyps)}
           tiers == IF a.outcome = "rejected" THEN {}
                    ELSE Consulted \cup (IF cited # {} THEN {"L0"} ELSE {})
<1>1. /\ a \in Result /\ a.outcome \in {"rejected", "gated"}
      /\ IsFiniteSet(a.accepted) /\ Cardinality(a.accepted) \in Nat
      /\ \A i \in a.accepted : /\ a.outcome = "gated" /\ i \in 1..Len(hyps)
                               /\ hyps[i].cites \cap CuratedOf # {}
  BY AnswerFacts
<1>2. cited \in SUBSET Techniques
  BY Given
<1>3. tiers \in SUBSET {"L0", "L0.5"}
  BY DEF Consulted
<1>4. cited # {} => "L0" \in tiers
  OBVIOUS
<1>5. Cardinality(a.accepted) > 0 => cited # {}
  <2> SUFFICES ASSUME cited = {} PROVE Cardinality(a.accepted) = 0
    BY <1>1
  <2>1. a.accepted = {}
    BY <1>1
  <2> QED
    BY <2>1, FS_EmptySet
<1>6. Record(a) = [outcome |-> a.outcome, needsHuman |-> a.escalated # {},
                   accepted |-> Cardinality(a.accepted), cited |-> cited, tiers |-> tiers]
  BY DEF Record
<1> HIDE DEF a, cited, tiers
<1>7. Coherent(Record(a))
  BY <1>1, <1>2, <1>3, <1>4, <1>5, <1>6 DEF Coherent, Handshake
<1>8. /\ Record(a).outcome = a.outcome
      /\ Record(a).accepted = Cardinality(a.accepted)
      /\ Record(a).needsHuman <=> a.escalated # {}
  <2>1. Record(a).outcome = a.outcome /\ Record(a).accepted = Cardinality(a.accepted)
    BY <1>6
  <2>2. Record(a).needsHuman = (a.escalated # {})
    BY <1>6
  <2> QED
    BY <2>1, <2>2
<1> QED
  BY <1>7, <1>8 DEF a
----------------------------------------------------------------------------
(* The books: a ledger that verifies, in which the entries of this worker  *)
(* are coherent.                                                           *)
Books == /\ \E S : ledger.entries \in Seq(S)
         /\ Verify(ledger)
         /\ \A i \in 1..Len(ledger.entries) : ledger.entries[i].body \in Handshake
         /\ mine \subseteq 1..Len(ledger.entries) /\ place \in mine \cup {0}
         /\ \A i \in mine : Coherent(ledger.entries[i].body)

(* One step appends what this gate or another has to say, or nothing.      *)
Writes(modes) == /\ pc = "gate" /\ ledger' = Appended(ledger, Record(Answer(modes)))
                 /\ place' = Len(ledger'.entries) /\ mine' = mine \cup {place'}

LEMMA LedgerSteps ==
  [Next]_vars => \/ UNCHANGED <<ledger, mine>> /\ place' \in {0, place}
                 \/ ledger' = NewLedger /\ mine' = {} /\ place' = 0
                 \/ \E modes \in Modes : Writes(modes)
                 \/ \E body \in OtherRecords : Other(body)
  BY DEF Next, vars, book, Submit, Plan, AskFamily, Skip, AskCapability, NoCapability, AskIOCs, AskReport,
         Resample, LoseSample, Sampled, AskVerifier, Proposed, Gate, Receive, Lose, Die, Writes

(* What appending does to the entries.                                     *)
LEMMA Appends ==
  ASSUME Books, NEW b
  PROVE  LET l == Appended(ledger, b)
             n == Len(ledger.entries)
         IN  /\ n \in Nat /\ Len(l.entries) = n + 1 /\ l.entries[n + 1].body = b
             /\ \A i \in 1..n : l.entries[i] = ledger.entries[i]
             /\ \E S : l.entries \in Seq(S)
             /\ Verify(l)
<1> DEFINE e == Seal(Len(ledger.entries), b, ledger.last)
<1>1. PICK S : ledger.entries \in Seq(S)
  BY DEF Books
<1>2. Appended(ledger, b).entries = Append(ledger.entries, e) /\ e.body = b
  BY DEF Appended, Seal
<1>3. Verify(Appended(ledger, b))
  BY <1>1, AppendingVerifies DEF Books
<1> HIDE DEF e
<1>4. ledger.entries \in Seq(S \cup {e})
  BY <1>1
<1>5. /\ Append(ledger.entries, e) \in Seq(S \cup {e})
      /\ Len(Append(ledger.entries, e)) = Len(ledger.entries) + 1 /\ Len(ledger.entries) \in Nat
      /\ Append(ledger.entries, e)[Len(ledger.entries) + 1] = e
      /\ \A i \in 1..Len(ledger.entries) : Append(ledger.entries, e)[i] = ledger.entries[i]
  BY <1>4
<1> QED
  BY <1>2, <1>3, <1>5

LEMMA NewBooks == Verify(NewLedger) /\ NewLedger.entries = <<>>
  BY DEF Verify, NewLedger, Before

LEMMA BooksStep == TypeOK /\ Books /\ [Next]_vars => Books'
<1> SUFFICES ASSUME TypeOK, Books, [Next]_vars PROVE Books'
  OBVIOUS
<1>1. CASE UNCHANGED <<ledger, mine>> /\ place' \in {0, place}
  BY <1>1 DEF Books
<1>2. CASE ledger' = NewLedger /\ mine' = {} /\ place' = 0
  <2>1. ledger'.entries = <<>> /\ Verify(ledger') /\ ledger'.entries \in Seq({})
    BY <1>2, NewBooks
  <2> QED
    BY <1>2, <2>1 DEF Books
<1>3. ASSUME NEW b \in Handshake, ledger' = Appended(ledger, b)
      PROVE  /\ \E S : ledger'.entries \in Seq(S)
             /\ Verify(ledger')
             /\ Len(ledger.entries) \in Nat /\ Len(ledger'.entries) = Len(ledger.entries) + 1
             /\ ledger'.entries[Len(ledger'.entries)].body = b
             /\ \A i \in 1..Len(ledger.entries) : ledger'.entries[i] = ledger.entries[i]
             /\ \A i \in 1..Len(ledger'.entries) : ledger'.entries[i].body \in Handshake
  <2> DEFINE n == Len(ledger.entries)
  <2>1. /\ n \in Nat /\ Len(ledger'.entries) = n + 1 /\ ledger'.entries[n + 1].body = b
        /\ \A i \in 1..n : ledger'.entries[i] = ledger.entries[i]
        /\ \E S : ledger'.entries \in Seq(S)
        /\ Verify(ledger')
    BY <1>3, Appends
  <2> QED
    BY <1>3, <2>1 DEF Books
<1>4. ASSUME NEW modes \in Modes, Writes(modes) PROVE Books'
  <2> DEFINE b == Record(Answer(modes))
  <2>1. Coherent(b) /\ b \in Handshake
    BY RecordFacts DEF Coherent
  <2>2. /\ ledger' = Appended(ledger, b) /\ place' = Len(ledger'.entries)
        /\ mine' = mine \cup {place'}
    BY <1>4 DEF Writes
  <2> HIDE DEF b
  <2>3. \A i \in mine : ledger'.entries[i] = ledger.entries[i] /\ i \in 1..Len(ledger'.entries)
    BY <1>3, <2>1, <2>2 DEF Books
  <2>4. place' \in 1..Len(ledger'.entries)
    BY <1>3, <2>1, <2>2
  <2>5. \A i \in mine' : Coherent(ledger'.entries[i].body)
    BY <1>3, <2>1, <2>2, <2>3 DEF Books
  <2> QED
    BY <1>3, <2>1, <2>2, <2>3, <2>4, <2>5 DEF Books
<1>5. ASSUME NEW body \in OtherRecords, Other(body) PROVE Books'
  <2>1. ledger' = Appended(ledger, body) /\ UNCHANGED <<mine, place>> /\ body \in Handshake
    BY <1>5, Given DEF Other
  <2>2. \A i \in mine : ledger'.entries[i] = ledger.entries[i] /\ i \in 1..Len(ledger'.entries)
    BY <1>3, <2>1 DEF Books
  <2> QED
    BY <1>3, <2>1, <2>2 DEF Books
<1> QED
  BY <1>1, <1>2, <1>4, <1>5, LedgerSteps
----------------------------------------------------------------------------
(* Types.                                                                  *)
LEMMA TypeInit == Init => TypeOK
<1> SUFFICES ASSUME Init PROVE TypeOK
  OBVIOUS
<1>1. pc \in Calls /\ subs \in 0..MaxSubs /\ troubles \in 0..MaxTroubles /\ asked \in 0..(Samples - 1)
  BY Given DEF Init, Calls
<1>2. Nothing \in Result
  BY DEF Nothing, Result
<1>3. ledger.entries = <<>> /\ mine = {} /\ place = 0
  BY DEF Init, NewLedger
<1>4. /\ hyps \in Seq(Hyp) /\ hypTTP \in Seq(Named) /\ samples \in Seq(SUBSET Techniques)
      /\ signals \in Seq(Signals)
  BY DEF Init
<1>5. /\ evidence \in SUBSET Techniques /\ want \in BOOLEAN /\ iocs \in SUBSET IOC
      /\ summary \in {"said", "long", "none"} /\ real \in SUBSET Nat /\ result = Nothing
  BY DEF Init
<1> QED
  BY <1>1, <1>2, <1>3, <1>4, <1>5 DEF TypeOK

LEMMA BooksInit == Init => Books
<1> SUFFICES ASSUME Init PROVE Books
  OBVIOUS
<1>1. ledger = NewLedger /\ mine = {} /\ place = 0
  BY DEF Init
<1>2. ledger.entries \in Seq({}) /\ Len(ledger.entries) = 0
  BY <1>1, NewBooks
<1> QED
  BY <1>1, <1>2, NewBooks DEF Books

(* All but the ledger, which BooksStep is about.                           *)
Typed == /\ pc \in Calls /\ subs \in 0..MaxSubs /\ troubles \in 0..MaxTroubles
         /\ evidence \in SUBSET Techniques /\ want \in BOOLEAN
         /\ hyps \in Seq(Hyp) /\ hypTTP \in Seq(Named)
         /\ iocs \in SUBSET IOC /\ summary \in {"said", "long", "none"}
         /\ samples \in Seq(SUBSET Techniques) /\ asked \in 0..(Samples - 1)
         /\ signals \in Seq(Signals) /\ real \in SUBSET Nat
         /\ result \in Result

LEMMA TypedBooks == Typed /\ Books => TypeOK
  BY DEF Typed, Books, TypeOK, Coherent

LEMMA TypedStep == TypeOK /\ [Next]_vars => Typed'
<1> SUFFICES ASSUME TypeOK, [Next]_vars PROVE Typed'
  OBVIOUS
<1>0. Typed /\ Nothing \in Result
  BY DEF TypeOK, Typed, Nothing, Result
<1>u. ASSUME UNCHANGED <<given, proposal, measured, result>>, pc' \in Calls,
             troubles' \in 0..MaxTroubles
      PROVE  Typed'
  BY <1>0, <1>u DEF Typed, given, proposal, measured
<1>1. ASSUME NEW ev \in Evidences, Submit(ev) PROVE Typed'
  <2>1. /\ pc' = "router" /\ subs' \in 0..MaxSubs /\ troubles' \in 0..MaxTroubles
        /\ evidence' \in SUBSET Techniques /\ want' = FALSE
    BY <1>0, <1>1, Given DEF Typed, Submit
  <2>2. /\ hyps' = <<>> /\ hypTTP' = <<>> /\ iocs' = {} /\ summary' = "none"
        /\ samples' = <<>> /\ asked' = 0 /\ signals' = <<>> /\ real' = {} /\ result' = Nothing
    BY <1>1 DEF Submit, Emptied
  <2>3. asked' \in 0..(Samples - 1)
    BY <2>2, Given
  <2>4. /\ hyps' \in Seq(Hyp) /\ hypTTP' \in Seq(Named)
        /\ samples' \in Seq(SUBSET Techniques) /\ signals' \in Seq(Signals)
    BY <2>2
  <2>5. /\ pc' \in Calls /\ iocs' \in SUBSET IOC /\ summary' \in {"said", "long", "none"}
        /\ real' \in SUBSET Nat /\ want' \in BOOLEAN
    BY <2>1, <2>2 DEF Calls
  <2>6. result' \in Result
    BY <1>0, <2>2 DEF Nothing
  <2> QED
    BY <2>1, <2>3, <2>4, <2>5, <2>6 DEF Typed
<1>2. ASSUME NEW optional \in BOOLEAN, Plan(optional) PROVE Typed'
  BY <1>0, <1>2 DEF Typed, Plan, Calls, proposal, measured
<1>3. ASSUME NEW f \in FamilyReplies, AskFamily(f) PROVE Typed'
  <2> DEFINE h == [kind |-> "family", claim |-> f.name, conf |-> f.conf,
                   cites |-> Clean(f.cites), about |-> NoTechnique]
  <2>1. f \in Family /\ f.name # "none"
    BY <1>3, Given DEF AskFamily
  <2>2. h \in Hyp
    BY <2>1 DEF Family, Hyp, Kinds, Texts, Cites, Clean, Named
  <2>3. /\ hyps' = Append(hyps, h) /\ hypTTP' = Append(hypTTP, NoTechnique)
        /\ pc' = "capability"
        /\ UNCHANGED <<given, iocs, summary, measured, result, troubles>>
    BY <1>3 DEF AskFamily
  <2> HIDE DEF h
  <2>4. hyps' \in Seq(Hyp) /\ hypTTP' \in Seq(Named)
    BY <1>0, <2>2, <2>3 DEF Typed, Named
  <2> QED
    BY <1>0, <2>3, <2>4 DEF Typed, given, measured, Calls
<1>4. ASSUME NEW reply \in BehaviourReplies, AskCapability(reply) PROVE Typed'
  <2>0. PICK n \in Nat : \E at \in [1..n -> 1..Len(reply)] :
           /\ \A i \in 1..n : reply[at[i]] \in Behaviour /\ reply[at[i]].why # "none"
           /\ hyps' = hyps \o [i \in 1..n |->
                [kind |-> "technique", claim |-> reply[at[i]].why, conf |-> "LOW",
                 cites |-> Clean(reply[at[i]].cites), about |-> reply[at[i]].ttp]]
           /\ hypTTP' = hypTTP \o [i \in 1..n |-> reply[at[i]].ttp]
    BY <1>4, Behaviours
  <2>1. PICK at \in [1..n -> 1..Len(reply)] :
           /\ \A i \in 1..n : reply[at[i]] \in Behaviour /\ reply[at[i]].why # "none"
           /\ hyps' = hyps \o [i \in 1..n |->
                [kind |-> "technique", claim |-> reply[at[i]].why, conf |-> "LOW",
                 cites |-> Clean(reply[at[i]].cites), about |-> reply[at[i]].ttp]]
           /\ hypTTP' = hypTTP \o [i \in 1..n |-> reply[at[i]].ttp]
    BY <2>0
  <2> DEFINE made == [i \in 1..n |->
                [kind |-> "technique", claim |-> reply[at[i]].why, conf |-> "LOW",
                 cites |-> Clean(reply[at[i]].cites), about |-> reply[at[i]].ttp]]
             ttps == [i \in 1..n |-> reply[at[i]].ttp]
  <2>2. \A b \in Behaviour : b.why # "none" =>
           /\ [kind |-> "technique", claim |-> b.why, conf |-> "LOW",
               cites |-> Clean(b.cites), about |-> b.ttp] \in Hyp
           /\ b.ttp \in Named
    BY DEF Behaviour, Hyp, Kinds, Texts, Cites, Clean, Named, Claimed
  <2>3. made \in Seq(Hyp) /\ ttps \in Seq(Named)
    <3>1. made \in [1..n -> Hyp] /\ ttps \in [1..n -> Named]
      BY <2>1, <2>2
    <3> HIDE DEF made, ttps
    <3> QED
      BY <3>1, SeqDef
  <2>4. hyps' = hyps \o made /\ hypTTP' = hypTTP \o ttps
    BY <2>1
  <2> HIDE DEF made, ttps
  <2>5. hyps' \in Seq(Hyp) /\ hypTTP' \in Seq(Named)
    BY <1>0, <2>3, <2>4 DEF Typed
  <2>6. samples' \in Seq(SUBSET Techniques)
    <3>1. samples' = <<Told(reply)>>
      BY <1>4 DEF AskCapability
    <3>2. Told(reply) \in SUBSET Techniques
      BY ToldType
    <3> QED
      BY ONLY <3>1, <3>2
  <2>7. /\ pc' = "ioc"
        /\ UNCHANGED <<given, iocs, summary, asked, signals, real, result, troubles>>
    BY <1>4 DEF AskCapability
  <2> QED
    BY <1>0, <2>5, <2>6, <2>7 DEF Typed, given, Calls
<1>5. ASSUME NoCapability PROVE Typed'
  BY <1>0, <1>5 DEF Typed, NoCapability, Calls, given, proposal
<1>6. ASSUME NEW reply \in IOCReplies \cup {{}}, AskIOCs(reply) PROVE Typed'
  BY <1>0, <1>6, Given DEF Typed, AskIOCs, Calls, given, measured
<1>7. ASSUME NEW text \in {"said", "long", "none"}, AskReport(text) PROVE Typed'
  BY <1>0, <1>7 DEF Typed, AskReport, Calls, given, measured
<1>8. ASSUME NEW reply \in BehaviourReplies, Resample(reply) PROVE Typed'
  <2>1. samples' \in Seq(SUBSET Techniques)
    BY <1>0, <1>8, ToldType DEF Typed, Resample
  <2>2. asked' \in 0..(Samples - 1)
    BY <1>0, <1>8, Given DEF Typed, Resample
  <2> QED
    BY <1>0, <1>8, <2>1, <2>2 DEF Typed, Resample, given, proposal
<1>9. ASSUME LoseSample PROVE Typed'
  <2>1. asked' \in 0..(Samples - 1)
    BY <1>0, <1>9, Given DEF Typed, LoseSample
  <2> QED
    BY <1>0, <1>9, <2>1 DEF Typed, LoseSample, given, proposal
<1>10. ASSUME NEW answer, NEW cal \in Claimed \cup {NoOverride}, AskVerifier(answer, cal)
       PROVE  Typed'
  <2> DEFINE i == Len(signals) + 1
             s == [refuted |-> answer # "real", novel |-> Novel,
                   calibrated |-> cal, agreement |-> Agreement(i)]
  <2>1. i \in Nat
    BY <1>0 DEF Typed
  <2>2. s \in Signals
    <3>1. Agreement(i) \in [hits : Nat, total : Nat]
      BY AgreementType
    <3>2. Novel \in BOOLEAN
      BY DEF Novel
    <3> HIDE DEF i
    <3> QED
      BY <3>1, <3>2 DEF Signals
  <2>3. /\ signals' = Append(signals, s)
        /\ real' \in {real, real \cup {i}}
        /\ UNCHANGED <<pc, given, proposal, samples, asked, result, troubles>>
    BY <1>10 DEF AskVerifier
  <2> HIDE DEF s, i
  <2>4. signals' \in Seq(Signals) /\ real' \in SUBSET Nat
    BY <1>0, <2>1, <2>2, <2>3 DEF Typed
  <2> QED
    BY <1>0, <2>3, <2>4 DEF Typed, given, proposal
<1>11. ASSUME NEW modes \in Modes, Gate(modes) PROVE Typed'
  <2>1. /\ pc' = "answer" /\ result' = Answer(modes)
        /\ UNCHANGED <<given, proposal, measured, troubles>>
    BY <1>11 DEF Gate
  <2>2. Answer(modes) \in Result
    BY AnswerFacts
  <2> QED
    BY <1>0, <2>1, <2>2 DEF Typed, given, proposal, measured, Calls
<1>12. CASE Lose \/ Die
  <2>1. /\ UNCHANGED <<given, proposal, measured>> /\ pc' = "done"
        /\ result' \in {result, Nothing}
        /\ troubles < MaxTroubles /\ troubles' = troubles + 1
    BY <1>12 DEF Lose, Die
  <2>2. troubles' \in 0..MaxTroubles /\ pc' \in Calls
    BY <1>0, <2>1, Given DEF Typed, Calls
  <2>3. result' \in Result
    BY <1>0, <2>1 DEF Typed
  <2> QED
    BY <1>0, <2>1, <2>2, <2>3 DEF Typed, given, proposal, measured
<1>13. CASE \/ Skip("family", "capability") \/ Sampled \/ Proposed \/ Receive
            \/ \E body \in OtherRecords : Other(body)
  <2>1. /\ UNCHANGED <<given, proposal, measured, result, troubles>>
        /\ pc' \in {pc, "capability", "verify", "gate", "done"}
    BY <1>13 DEF Skip, Sampled, Proposed, Receive, Other
  <2> QED
    BY <1>0, <1>u, <2>1 DEF Typed, Calls
<1>14. CASE UNCHANGED vars
  BY <1>0, <1>u, <1>14 DEF vars, Typed
<1> QED
  BY <1>1, <1>2, <1>3, <1>4, <1>5, <1>6, <1>7, <1>8, <1>9, <1>10, <1>11, <1>12, <1>13, <1>14
  DEF Next

LEMMA Sound == Spec => [](TypeOK /\ Books)
<1>1. TypeOK /\ Books /\ [Next]_vars => (TypeOK /\ Books)'
  <2> SUFFICES ASSUME TypeOK, Books, [Next]_vars PROVE TypeOK' /\ Books'
    OBVIOUS
  <2>1. Typed' /\ Books'
    BY TypedStep, BooksStep
  <2>2. TypeOK'
    BY <2>1 DEF Typed, Books, TypeOK, Coherent
  <2> QED
    BY <2>1, <2>2
<1> QED
  BY TypeInit, BooksInit, <1>1, PTL DEF Spec

(* Every variable keeps its type.                                          *)
THEOREM TypeCorrect == Spec => []TypeOK
<1> QED
  BY Sound, PTL

(* The ledger verifies at every moment, through every record, every lost   *)
(* activity and every boot.                                                *)
THEOREM LedgerVerifies == Spec => []Verify(ledger)
<1>1. Books => Verify(ledger)
  BY DEF Books
<1> QED
  BY <1>1, Sound, PTL
----------------------------------------------------------------------------
(* What was measured was measured of the hypothesis it stands beside: the  *)
(* lists go together, a technique a hypothesis is about is one the first   *)
(* sample named, and nothing is asked of the reasoner or listed once the   *)
(* verifier is.                                                            *)
Asking == {"router", "family", "capability", "ioc", "report", "sample"}

Beside ==
  /\ Len(hypTTP) = Len(hyps)
  /\ \A i \in 1..Len(hyps) :
       /\ hypTTP[i] = hyps[i].about /\ Junk \notin hyps[i].cites
       /\ hyps[i].about # NoTechnique => Len(samples) >= 1 /\ hyps[i].about \in samples[1]
  /\ pc \in {"router", "family", "capability"} => samples = <<>>

MeasuredOf(i) == /\ ~signals[i].refuted => i \in real
                 /\ signals[i].novel = Novel
                 /\ signals[i].agreement = Agreement(i)

Weighing ==
  /\ pc \in Asking => Len(signals) = 0
  /\ Len(signals) <= Len(hyps)
  /\ \A i \in 1..Len(signals) : MeasuredOf(i)
  /\ pc = "gate" => Len(signals) = Len(hyps)

Gated ==
  /\ pc \notin {"answer", "done"} => result = Nothing
  /\ result # Nothing =>
       /\ Len(signals) = Len(hyps)
       /\ \E modes \in Modes : result = Answer(modes)
       /\ \/ place = 0 /\ troubles > 0
          \/ place \in mine /\ ledger.entries[place].body = Record(result)

RosterInv == Beside /\ Weighing /\ Gated

(* A step that touches no list leaves the lists beside each other.         *)
LEMMA Untouched ==
  ASSUME UNCHANGED <<hyps, hypTTP, samples, signals, real, evidence>>
  PROVE  /\ Novel' = Novel /\ \A i : Agreement(i)' = Agreement(i)
         /\ \A i : MeasuredOf(i) => MeasuredOf(i)'
  BY DEF Novel, Agreement, MeasuredOf

LEMMA Ask ==
  ASSUME TypeOK, TypeOK', RosterInv, pc \in Asking, pc' \in Asking \cup {"verify"},
         UNCHANGED <<signals, result>>, Beside', Len(hyps) <= Len(hyps')
  PROVE  RosterInv'
<1>0. pc \notin {"answer", "done"} /\ pc' \notin {"gate", "answer", "done"}
  BY DEF Asking
<1>n. Len(hyps') \in Nat
  BY DEF TypeOK
<1>1. /\ Len(signals) = 0 /\ Len(signals') = 0 /\ Len(hyps') \in Nat
      /\ pc \notin {"answer", "done"} /\ pc' \notin {"gate", "answer", "done"}
  BY <1>0, <1>n DEF RosterInv, Weighing
<1>2. Weighing'
  BY <1>1 DEF Weighing, Asking
<1>3. Gated'
  BY <1>1 DEF RosterInv, Gated
<1> QED
  BY <1>2, <1>3 DEF RosterInv

LEMMA SeqLen ==
  ASSUME NEW n \in Nat, NEW s, s = [i \in 1..n |-> s[i]]
  PROVE  Len(s) = n
  OBVIOUS

LEMMA CapabilityBeside ==
  ASSUME TypeOK, Beside, NEW reply \in BehaviourReplies, AskCapability(reply)
  PROVE  Beside' /\ Len(hyps) <= Len(hyps')
<1>0. PICK n \in Nat : \E at \in [1..n -> 1..Len(reply)] :
         /\ \A i \in 1..n : reply[at[i]] \in Behaviour /\ reply[at[i]].why # "none"
         /\ hyps' = hyps \o [i \in 1..n |->
              [kind |-> "technique", claim |-> reply[at[i]].why, conf |-> "LOW",
               cites |-> Clean(reply[at[i]].cites), about |-> reply[at[i]].ttp]]
         /\ hypTTP' = hypTTP \o [i \in 1..n |-> reply[at[i]].ttp]
  BY Behaviours
<1>1. PICK at \in [1..n -> 1..Len(reply)] :
         /\ hyps' = hyps \o [i \in 1..n |->
              [kind |-> "technique", claim |-> reply[at[i]].why, conf |-> "LOW",
               cites |-> Clean(reply[at[i]].cites), about |-> reply[at[i]].ttp]]
         /\ hypTTP' = hypTTP \o [i \in 1..n |-> reply[at[i]].ttp]
  BY <1>0
<1> DEFINE made == [i \in 1..n |->
              [kind |-> "technique", claim |-> reply[at[i]].why, conf |-> "LOW",
               cites |-> Clean(reply[at[i]].cites), about |-> reply[at[i]].ttp]]
           ttps == [i \in 1..n |-> reply[at[i]].ttp]
           k == Len(hyps)
<1>2. \A i \in 1..n : /\ ttps[i] = made[i].about /\ Junk \notin made[i].cites
                      /\ ttps[i] # NoTechnique => ttps[i] \in Told(reply)
  BY DEF Clean, Told
<1>3. /\ hyps' = hyps \o made /\ hypTTP' = hypTTP \o ttps
      /\ made = [i \in 1..n |-> made[i]] /\ ttps = [i \in 1..n |-> ttps[i]]
  BY <1>1
<1>4. /\ k \in Nat /\ Len(hypTTP) = k /\ samples = <<>> /\ samples' = <<Told(reply)>>
      /\ pc' = "ioc" /\ hyps \in Seq(Hyp) /\ hypTTP \in Seq(Named)
  <2>1. pc = "capability" /\ pc' = "ioc" /\ samples' = <<Told(reply)>>
    BY DEF AskCapability
  <2>2. hyps \in Seq(Hyp) /\ hypTTP \in Seq(Named) /\ k \in Nat
    BY DEF TypeOK
  <2>3. Len(hypTTP) = k /\ samples = <<>>
    BY <2>1 DEF Beside
  <2> QED
    BY <2>1, <2>2, <2>3
<1>5. \A i \in 1..k : /\ hypTTP[i] = hyps[i].about /\ Junk \notin hyps[i].cites
                      /\ hyps[i].about = NoTechnique
  BY <1>4 DEF Beside
<1> HIDE DEF made, ttps
<1>6. Len(made) = n /\ Len(ttps) = n
  BY <1>3, SeqLen
<1>7. /\ Len(hyps') = k + n /\ Len(hypTTP') = k + n
      /\ \A i \in 1..(k + n) : /\ hyps'[i] = IF i <= k THEN hyps[i] ELSE made[i - k]
                               /\ hypTTP'[i] = IF i <= k THEN hypTTP[i] ELSE ttps[i - k]
  BY <1>3, <1>4, <1>6
<1>8. ASSUME NEW i \in 1..Len(hyps')
      PROVE  /\ hypTTP'[i] = hyps'[i].about /\ Junk \notin hyps'[i].cites
             /\ hyps'[i].about # NoTechnique => hyps'[i].about \in Told(reply)
  <2>1. CASE i <= k
    <3>1. i \in 1..k /\ hyps'[i] = hyps[i] /\ hypTTP'[i] = hypTTP[i]
      BY <1>4, <1>7, <2>1
    <3> QED
      BY <1>5, <3>1
  <2>2. CASE ~(i <= k)
    <3>1. i - k \in 1..n /\ hyps'[i] = made[i - k] /\ hypTTP'[i] = ttps[i - k]
      BY <1>4, <1>7, <2>2
    <3> QED
      BY <1>2, <3>1
  <2> QED
    BY <2>1, <2>2
<1>9. Len(samples') >= 1 /\ samples'[1] = Told(reply)
  BY <1>4
<1> QED
  BY <1>4, <1>7, <1>8, <1>9 DEF Beside

LEMMA FamilyBeside ==
  ASSUME TypeOK, Beside, NEW f \in FamilyReplies, AskFamily(f)
  PROVE  Beside' /\ Len(hyps) <= Len(hyps')
<1> DEFINE h == [kind |-> "family", claim |-> f.name, conf |-> f.conf,
                 cites |-> Clean(f.cites), about |-> NoTechnique]
<1>1. /\ hyps' = Append(hyps, h) /\ hypTTP' = Append(hypTTP, NoTechnique)
      /\ pc = "family" /\ pc' = "capability" /\ samples' = samples
  BY DEF AskFamily, measured
<1>2. h.about = NoTechnique /\ Junk \notin h.cites
  BY DEF Clean
<1>3. /\ Len(hyps) \in Nat /\ Len(hypTTP) = Len(hyps) /\ hyps \in Seq(Hyp)
      /\ hypTTP \in Seq(Named) /\ samples = <<>>
  BY <1>1 DEF Beside, TypeOK
<1> HIDE DEF h
<1>4. /\ Len(hyps') = Len(hyps) + 1 /\ Len(hypTTP') = Len(hyps) + 1
      /\ \A i \in 1..Len(hyps) : hyps'[i] = hyps[i] /\ hypTTP'[i] = hypTTP[i]
      /\ hyps'[Len(hyps) + 1] = h /\ hypTTP'[Len(hyps) + 1] = NoTechnique
  BY <1>1, <1>3
<1>5. ASSUME NEW i \in 1..Len(hyps')
      PROVE  /\ hypTTP'[i] = hyps'[i].about /\ Junk \notin hyps'[i].cites
             /\ hyps'[i].about # NoTechnique => Len(samples) >= 1 /\ hyps'[i].about \in samples[1]
  <2>1. CASE i \in 1..Len(hyps)
    BY <1>4, <2>1 DEF Beside
  <2>2. CASE i = Len(hyps) + 1
    BY <1>2, <1>4, <2>2
  <2> QED
    BY <1>3, <1>4, <2>1, <2>2
<1> QED
  BY <1>1, <1>3, <1>4, <1>5 DEF Beside

LEMMA SampleBeside ==
  ASSUME TypeOK, Beside, NEW reply, Resample(reply)
  PROVE  Beside'
<1>1. /\ samples' = Append(samples, Told(reply)) /\ UNCHANGED <<pc, hyps, hypTTP>>
      /\ pc = "sample" /\ Len(samples) \in Nat /\ samples \in Seq(SUBSET Techniques)
  BY DEF Resample, proposal, TypeOK
<1>2. /\ Len(samples') = Len(samples) + 1
      /\ Len(samples) >= 1 => samples'[1] = samples[1]
  BY <1>1
<1> QED
  BY <1>1, <1>2 DEF Beside

(* What the gate answers and records depends on the proposal and what was  *)
(* measured of it alone.                                                   *)
LEMMA SameAnswer ==
  ASSUME UNCHANGED <<evidence, hyps, iocs, summary, signals>>
  PROVE  /\ \A modes : Answer(modes)' = Answer(modes)
         /\ \A a : Record(a)' = Record(a)
<1>1. Malformed' = Malformed
  BY DEF Malformed, LongTexts
<1>2. \A i : Weighed(i)' = Weighed(i)
  BY DEF Weighed
<1>3. \A modes : Answer(modes)' = Answer(modes)
  BY <1>1, <1>2 DEF Answer
<1>4. Consulted' = Consulted
  BY DEF Consulted
<1>5. \A a : Record(a)' = Record(a)
  BY <1>4 DEF Record
<1> QED
  BY <1>3, <1>5

LEMMA RosterStep ==
  TypeOK /\ TypeOK' /\ Books /\ RosterInv /\ [Next]_vars => RosterInv'
<1> SUFFICES ASSUME TypeOK, TypeOK', Books, RosterInv, [Next]_vars PROVE RosterInv'
  OBVIOUS
<1>n. /\ Len(hyps) \in Nat /\ Len(hyps') \in Nat /\ Len(signals) \in Nat /\ Len(samples) \in Nat
      /\ hyps \in Seq(Hyp)
  <2>1. /\ hyps \in Seq(Hyp) /\ hyps' \in Seq(Hyp) /\ signals \in Seq(Signals)
        /\ samples \in Seq(SUBSET Techniques)
    BY DEF TypeOK
  <2> QED
    BY ONLY <2>1
<1>b. ASSUME UNCHANGED <<hyps, hypTTP, samples>>,
             pc' \in {"router", "family", "capability"} => samples' = <<>>
      PROVE  Beside'
  BY <1>b DEF RosterInv, Beside
<1>1. ASSUME NEW ev \in Evidences, Submit(ev) PROVE RosterInv'
  <2>1. /\ pc' = "router" /\ hyps' = <<>> /\ hypTTP' = <<>> /\ samples' = <<>>
        /\ signals' = <<>> /\ result' = Nothing
    BY <1>1 DEF Submit, Emptied
  <2> QED
    BY <2>1 DEF RosterInv, Beside, Weighing, Gated
<1>2. ASSUME NEW optional \in BOOLEAN, Plan(optional) PROVE RosterInv'
  <2>1. /\ pc = "router" /\ pc' \in {"family", "capability"}
        /\ UNCHANGED <<hyps, hypTTP, samples, signals, result>>
    BY <1>2 DEF Plan, proposal, measured
  <2>2. Beside'
    BY <1>b, <2>1 DEF RosterInv, Beside
  <2> QED
    BY <1>n, <2>1, <2>2, Ask DEF Asking
<1>3. ASSUME NEW f \in FamilyReplies, AskFamily(f) PROVE RosterInv'
  <2>1. pc = "family" /\ pc' = "capability" /\ UNCHANGED <<signals, result>>
    BY <1>3 DEF AskFamily, measured
  <2> QED
    BY <1>3, <2>1, FamilyBeside, Ask DEF RosterInv, Asking
<1>4. ASSUME NEW reply \in BehaviourReplies, AskCapability(reply) PROVE RosterInv'
  <2>1. pc = "capability" /\ pc' = "ioc" /\ UNCHANGED <<signals, result>>
    BY <1>4 DEF AskCapability
  <2> QED
    BY <1>4, <2>1, CapabilityBeside, Ask DEF RosterInv, Asking
<1>5. ASSUME NoCapability PROVE RosterInv'
  <2>1. /\ pc = "capability" /\ pc' = "ioc" /\ UNCHANGED <<hyps, hypTTP, signals, result>>
        /\ samples = <<>> /\ Len(samples) = 0
    BY <1>5 DEF NoCapability, proposal, RosterInv, Beside
  <2>2. \A i \in 1..Len(hyps) : hyps[i].about = NoTechnique
    BY <2>1 DEF RosterInv, Beside
  <2>3. Beside'
    BY <2>1, <2>2 DEF RosterInv, Beside
  <2> QED
    BY <1>n, <2>1, <2>3, Ask DEF Asking
<1>6. CASE \/ \E reply \in IOCReplies \cup {{}} : AskIOCs(reply)
           \/ \E text \in {"said", "long", "none"} : AskReport(text)
           \/ LoseSample
  <2>1. /\ pc \in {"ioc", "report", "sample"} /\ pc' \in {"report", "sample"}
        /\ UNCHANGED <<hyps, hypTTP, samples, signals, result>>
    BY <1>6 DEF AskIOCs, AskReport, LoseSample, measured, proposal
  <2>2. Beside'
    BY <1>b, <2>1
  <2> QED
    BY <1>n, <2>1, <2>2, Ask DEF Asking
<1>7. ASSUME NEW reply \in BehaviourReplies, Resample(reply) PROVE RosterInv'
  <2>1. pc = "sample" /\ UNCHANGED <<pc, hyps, signals, result>>
    BY <1>7 DEF Resample, proposal
  <2> QED
    BY <1>n, <1>7, <2>1, SampleBeside, Ask DEF RosterInv, Asking
<1>8. CASE Skip("family", "capability") \/ Sampled
  <2>1. /\ \/ pc = "family" /\ pc' = "capability"
           \/ pc = "sample" /\ pc' = "verify"
        /\ UNCHANGED <<hyps, hypTTP, samples, signals, result>>
    BY <1>8 DEF Skip, Sampled, proposal, measured
  <2>2. Beside'
    BY <1>b, <2>1 DEF RosterInv, Beside
  <2> QED
    BY <1>n, <2>1, <2>2, Ask DEF Asking
<1>9. ASSUME NEW answer, NEW cal, AskVerifier(answer, cal) PROVE RosterInv'
  <2> DEFINE i == Len(signals) + 1
             s == [refuted |-> answer # "real", novel |-> Novel,
                   calibrated |-> cal, agreement |-> Agreement(i)]
  <2>1. /\ pc = "verify" /\ Len(signals) < Len(hyps)
        /\ signals' = Append(signals, s)
        /\ real' = IF answer = "real" THEN real \cup {i} ELSE real
        /\ UNCHANGED <<pc, evidence, hyps, hypTTP, samples, result, book, troubles>>
    BY <1>9 DEF AskVerifier, given, proposal
  <2>2. Novel' = Novel /\ \A j : Agreement(j)' = Agreement(j)
    BY <2>1 DEF Novel, Agreement
  <2>3. s.novel = Novel /\ s.agreement = Agreement(i) /\ (~s.refuted => i \in real')
    BY <2>1
  <2> HIDE DEF s
  <2>4. /\ Len(signals') = Len(signals) + 1 /\ signals'[i] = s
        /\ \A j \in 1..Len(signals) : signals'[j] = signals[j]
    BY <2>1 DEF TypeOK
  <2>5. \A j \in 1..Len(signals) : MeasuredOf(j)'
    BY <2>1, <2>2, <2>4 DEF RosterInv, Weighing, MeasuredOf
  <2>6. ASSUME NEW j \in Nat, j = i PROVE MeasuredOf(j)'
    BY <2>2, <2>3, <2>4, <2>6 DEF MeasuredOf
  <2>7. \A j \in 1..Len(signals') : MeasuredOf(j)'
    BY <1>n, <2>4, <2>5, <2>6
  <2>8. Weighing'
    BY <1>n, <2>1, <2>4, <2>7 DEF Weighing, Asking
  <2>9. Beside'
    BY <1>b, <2>1
  <2>10. Gated'
    BY <2>1 DEF RosterInv, Gated
  <2> QED
    BY <2>8, <2>9, <2>10 DEF RosterInv
<1>10. CASE Proposed
  <2>1. /\ pc = "verify" /\ pc' = "gate" /\ Len(signals) = Len(hyps)
        /\ UNCHANGED <<evidence, hyps, hypTTP, samples, signals, real, result, book, troubles>>
    BY <1>10 DEF Proposed, Skip, given, proposal, measured
  <2>2. Weighing'
    BY <2>1, Untouched DEF RosterInv, Weighing, Asking
  <2>3. Gated'
    BY <2>1 DEF RosterInv, Gated
  <2> QED
    BY <1>b, <2>1, <2>2, <2>3 DEF RosterInv
<1>11. ASSUME NEW modes \in Modes, Gate(modes) PROVE RosterInv'
  <2>1. /\ pc = "gate" /\ pc' = "answer" /\ result' = Answer(modes)
        /\ ledger' = Appended(ledger, Record(Answer(modes)))
        /\ place' = Len(ledger'.entries) /\ place' \in mine'
        /\ UNCHANGED <<evidence, hyps, hypTTP, iocs, summary, samples, signals, real>>
    BY <1>11 DEF Gate, given, proposal, measured
  <2>2. Answer(modes)' = Answer(modes) /\ Record(result)' = Record(Answer(modes))
    BY <2>1, SameAnswer
  <2>3. ledger'.entries[place'].body = Record(Answer(modes))
    <3> DEFINE b == Record(Answer(modes))
    <3>1. ledger' = Appended(ledger, b) /\ place' = Len(ledger'.entries)
      BY <2>1
    <3> HIDE DEF b
    <3>2. ledger'.entries[place'].body = b
      BY <3>1, Appends
    <3> QED
      BY <3>2 DEF b
  <2>4. Weighing'
    BY <2>1, Untouched DEF RosterInv, Weighing, Asking
  <2>5. Gated'
    BY <2>1, <2>2, <2>3 DEF RosterInv, Weighing, Gated
  <2> QED
    BY <1>b, <2>1, <2>4, <2>5 DEF RosterInv
<1>12. CASE Lose \/ Die
  <2>0. troubles \in Nat
    BY DEF TypeOK
  <2>1. /\ pc' = "done"
        /\ result' = Nothing \/ (result' = result /\ place' = 0 /\ troubles' > 0)
        /\ UNCHANGED <<evidence, hyps, hypTTP, iocs, summary, samples, signals, real>>
    BY <1>12, <2>0 DEF Lose, Die, given, proposal, measured
  <2>2. Weighing'
    BY <2>1, Untouched DEF RosterInv, Weighing, Asking
  <2>3. \A modes \in Modes : Answer(modes)' = Answer(modes)
    BY <2>1, SameAnswer
  <2>4. Gated'
    BY <2>1, <2>3 DEF RosterInv, Gated
  <2> QED
    BY <1>b, <2>1, <2>2, <2>4 DEF RosterInv
<1>13. CASE Receive \/ UNCHANGED vars \/ \E body \in OtherRecords : Other(body)
  <2>1. /\ pc' = pc \/ (pc = "answer" /\ pc' = "done")
        /\ UNCHANGED <<evidence, hyps, hypTTP, iocs, summary, samples, signals, real, result,
                       mine, place, troubles>>
    BY <1>13 DEF Receive, Skip, Other, vars, book, given, proposal, measured
  <2>2. /\ \A modes \in Modes : Answer(modes)' = Answer(modes)
        /\ Record(result)' = Record(result)
    BY <2>1, SameAnswer
  <2>3. \A i \in mine : ledger'.entries[i] = ledger.entries[i]
    <3>1. ASSUME NEW body \in OtherRecords, Other(body), NEW i \in mine
          PROVE  ledger'.entries[i] = ledger.entries[i]
      BY <3>1, Appends DEF Other, Books
    <3> QED
      BY <1>13, <3>1 DEF Receive, Skip, vars, book
  <2>4. Gated'
    <3>1. place \in mine => Record(result)' = Record(result) /\ ledger'.entries[place'].body = ledger.entries[place].body
      BY <2>1, <2>2, <2>3
    <3> QED
      BY <2>1, <2>2, <3>1 DEF RosterInv, Gated
  <2>5. Weighing'
    BY <2>1, Untouched DEF RosterInv, Weighing, Asking
  <2> QED
    BY <1>b, <2>1, <2>4, <2>5 DEF RosterInv, Beside
<1> QED
  BY <1>1, <1>2, <1>3, <1>4, <1>5, <1>6, <1>7, <1>8, <1>9, <1>10, <1>11, <1>12, <1>13 DEF Next

LEMMA RosterInit == Init => RosterInv
<1> SUFFICES ASSUME Init PROVE RosterInv
  OBVIOUS
<1>1. /\ pc = "done" /\ hyps = <<>> /\ hypTTP = <<>> /\ samples = <<>> /\ signals = <<>>
      /\ result = Nothing
  BY DEF Init
<1> QED
  BY <1>1 DEF RosterInv, Beside, Weighing, Gated, Asking

LEMMA Inductive == Spec => [](TypeOK /\ Books /\ RosterInv)
<1>1. TypeOK /\ Books /\ TypeOK' /\ Books' /\ RosterInv /\ [Next]_vars => RosterInv'
  BY RosterStep
<1> QED
  BY RosterInit, Sound, <1>1, PTL DEF Spec

(* A submission with a result has what the gate answered, on what was      *)
(* measured of each of its hypotheses.                                     *)
LEMMA Answered ==
  ASSUME RosterInv, result # Nothing
  PROVE  /\ \E modes \in Modes : result = Answer(modes)
         /\ \A i \in 1..Len(hyps) : MeasuredOf(i)
  BY DEF RosterInv, Gated, Weighing

(* Less than NoveltyPct of the evidence is news: more than the rest of it  *)
(* is known.                                                               *)
LEMMA Shares ==
  ASSUME NEW k \in Nat, NEW n \in Nat, NEW p \in Nat, 100 * n < p * (k + n)
  PROVE  100 * k > (100 - p) * (k + n)
<1>1. (100 - p) * (k + n) = 100 * (k + n) - p * (k + n)
  OBVIOUS
<1> DEFINE q == p * (k + n)
<1>2. q \in Int
  OBVIOUS
<1>3. 100 * n < q /\ (100 - p) * (k + n) = 100 * (k + n) - q
  BY <1>1
<1> HIDE DEF q
<1> QED
  BY <1>2, <1>3

LEMMA MostlyKnown ==
  ASSUME TypeOK, ~Novel
  PROVE  evidence = {} \/ 100 * Cardinality(evidence \cap Known)
                             > (100 - NoveltyPct) * Cardinality(evidence)
<1> SUFFICES ASSUME evidence # {}
             PROVE  100 * Cardinality(evidence \cap Known)
                      > (100 - NoveltyPct) * Cardinality(evidence)
  OBVIOUS
<1> DEFINE k == Cardinality(evidence \cap Known)
           n == Cardinality(evidence \ Known)
<1>1. IsFiniteSet(evidence)
  BY Given, FS_Subset DEF TypeOK
<1>2. /\ IsFiniteSet(evidence \cap Known) /\ IsFiniteSet(evidence \ Known)
  BY <1>1, FS_Subset
<1>3. k \in Nat /\ n \in Nat
  BY <1>2, FS_CardinalityType
<1>4. Cardinality(evidence) = k + n
  <2>1. evidence = (evidence \cap Known) \cup (evidence \ Known)
    OBVIOUS
  <2>2. (evidence \cap Known) \cap (evidence \ Known) = {}
    OBVIOUS
  <2>3. Cardinality((evidence \cap Known) \cup (evidence \ Known))
          = k + n - Cardinality((evidence \cap Known) \cap (evidence \ Known))
    BY <1>2, FS_Union
  <2>4. Cardinality((evidence \cap Known) \cap (evidence \ Known)) = 0
    BY <2>2, FS_EmptySet
  <2>5. Cardinality(evidence) = k + n - 0
    BY <2>1, <2>3, <2>4
  <2> HIDE DEF k, n
  <2> QED
    BY <1>3, <2>5
<1>5. 100 * n < NoveltyPct * (k + n)
  <2>1. ~(100 * n >= NoveltyPct * Cardinality(evidence))
    BY DEF Novel
  <2> DEFINE q == NoveltyPct * Cardinality(evidence)
  <2>2. q \in Nat /\ ~(100 * n >= q)
    BY <1>3, <1>4, <2>1, Given
  <2> HIDE DEF q, n, k
  <2>3. 100 * n < q
    BY <1>3, <2>2
  <2> QED
    BY <1>4, <2>3 DEF q
<1> HIDE DEF k, n
<1>6. 100 * k > (100 - NoveltyPct) * (k + n)
  BY <1>3, <1>5, Shares, Given
<1> QED
  BY <1>4, <1>6 DEF k

(* The first sample names what a hypothesis is about, so that it is never  *)
(* without a hit, and the agreement is of this very technique.             *)
LEMMA EnoughSamples ==
  ASSUME TypeOK, Beside, NEW i \in 1..Len(hyps), MeasuredOf(i), ~Weighed(i).shaky,
         Len(samples) > 1, hyps[i].about # NoTechnique
  PROVE  100 * Cardinality({s \in 1..Len(samples) : hyps[i].about \in samples[s]})
           >= AgreementPct * Len(samples)
<1> DEFINE S == {s \in 1..Len(samples) : hyps[i].about \in samples[s]}
<1>1. Len(samples) \in Nat /\ Len(hyps) \in Nat
  BY DEF TypeOK
<1>2. hypTTP[i] = hyps[i].about /\ i <= Len(hypTTP) /\ 1 \in S
  BY <1>1 DEF Beside
<1>3. IsFiniteSet(S) /\ Cardinality(S) \in Nat
  BY <1>1, Counted
<1>4. Cardinality(S) > 0
  <2>1. S # {}
    BY <1>2
  <2> HIDE DEF S
  <2> QED
    BY <1>3, <2>1, FS_EmptySet
<1>5. signals[i].agreement = [hits |-> Cardinality(S), total |-> Len(samples)]
  BY <1>2 DEF MeasuredOf, Agreement
<1> HIDE DEF S
<1>6. /\ Cardinality(S) > 0
      /\ 100 * Cardinality(S) < AgreementPct * Len(samples)
      => Weighed(i).shaky
  <2>1. LET a == signals[i].agreement
        IN  a.hits = Cardinality(S) /\ a.total = Len(samples)
    BY <1>5
  <2> QED
    BY <2>1 DEF Weighed
<1> DEFINE q == AgreementPct * Len(samples)
<1>7. q \in Nat
  BY <1>1, Given
<1>8. ~(100 * Cardinality(S) < q)
  BY <1>4, <1>6
<1> HIDE DEF q
<1>9. 100 * Cardinality(S) >= q
  BY <1>3, <1>7, <1>8
<1> QED
  BY <1>9 DEF q, S

(* What is accepted without a human was measured, of this very hypothesis: *)
(* verified as real, grounded in a curated fact, no novelty, and named by  *)
(* enough of the samples.                                                  *)
THEOREM AcceptancesMeasured == Spec => []AcceptedMeasured
<1>1. TypeOK /\ RosterInv => AcceptedMeasured
  <2> SUFFICES ASSUME TypeOK, RosterInv, NEW i \in result.accepted
               PROVE  /\ i \in real
                      /\ hyps[i].cites \cap CuratedOf # {}
                      /\ evidence = {} \/ 100 * Cardinality(evidence \cap Known)
                                             > (100 - NoveltyPct) * Cardinality(evidence)
                      /\ Len(samples) > 1 /\ hyps[i].about # NoTechnique =>
                           100 * Cardinality({s \in 1..Len(samples) : hyps[i].about \in samples[s]})
                             >= AgreementPct * Len(samples)
    BY DEF AcceptedMeasured
  <2>1. result # Nothing
    BY DEF Nothing
  <2>2. PICK modes \in Modes : result = Answer(modes)
    BY <2>1, Answered
  <2>3. /\ i \in 1..Len(hyps) /\ hyps[i].cites \cap CuratedOf # {}
        /\ ~signals[i].refuted /\ ~signals[i].novel /\ ~Weighed(i).shaky
    BY <2>2, AnswerFacts
  <2>4. MeasuredOf(i)
    BY <2>1, <2>3, Answered
  <2>5. i \in real /\ ~Novel
    BY <2>3, <2>4 DEF MeasuredOf
  <2>6. evidence = {} \/ 100 * Cardinality(evidence \cap Known)
                            > (100 - NoveltyPct) * Cardinality(evidence)
    BY <2>5, MostlyKnown
  <2>7. Len(samples) > 1 /\ hyps[i].about # NoTechnique =>
          100 * Cardinality({s \in 1..Len(samples) : hyps[i].about \in samples[s]})
            >= AgreementPct * Len(samples)
    BY <2>3, <2>4, EnoughSamples DEF RosterInv
  <2> QED
    BY <2>3, <2>5, <2>6, <2>7
<1> QED
  BY <1>1, Inductive, PTL

(* What the agents say costs a proposal its hypotheses only for a claim    *)
(* that is blank, an indicator without a type, too many of either or of    *)
(* the citations, or a proposal that is too long.                          *)
THEOREM RejectionsForCause == Spec => []RejectedForCause
<1>1. TypeOK /\ RosterInv => RejectedForCause
  <2> SUFFICES ASSUME RosterInv, result.outcome = "rejected"
               PROVE  \/ hyps = <<>> /\ iocs = {}
                      \/ \E i \in 1..Len(hyps) :
                           hyps[i].claim = "blank" \/ Cardinality(hyps[i].cites \ {Junk}) > MaxCites
                      \/ \E i \in iocs : i.type \in {"blank", "none"}
                      \/ Len(hyps) > MaxHyps \/ Cardinality(iocs) > MaxIOCs
                      \/ LongTexts > MaxLong
    BY DEF RejectedForCause
  <2>1. result # Nothing
    BY DEF Nothing
  <2>2. PICK modes \in Modes : result = Answer(modes)
    BY <2>1, Answered
  <2>3. Malformed
    BY <2>2 DEF Answer
  <2>4. \A i \in 1..Len(hyps) : /\ Junk \notin hyps[i].cites
                                /\ hyps[i].cites \ {Junk} = hyps[i].cites
    BY DEF RosterInv, Beside
  <2> QED
    BY <2>3, <2>4 DEF Malformed
<1> QED
  BY <1>1, Inductive, PTL

(* The ledger tells what happened: what the gate answered stands where it  *)
(* was put, whatever other gates append and until the process is killed,   *)
(* and every entry of this worker agrees with itself.                      *)
THEOREM LedgerCorrect == Spec => []LedgerTells
<1>1. TypeOK /\ Books /\ RosterInv => LedgerTells
  <2> SUFFICES ASSUME TypeOK, Books, RosterInv PROVE LedgerTells
    OBVIOUS
  <2>1. ASSUME result # Nothing, ~(place = 0 /\ troubles > 0)
        PROVE  /\ place \in mine
               /\ LET b == ledger.entries[place].body
                  IN /\ b.outcome = result.outcome
                     /\ b.accepted = Cardinality(result.accepted)
                     /\ b.needsHuman <=> result.escalated # {}
    <3>1. PICK modes \in Modes : result = Answer(modes)
      BY <2>1, Answered
    <3>2. place \in mine /\ ledger.entries[place].body = Record(result)
      BY <2>1 DEF RosterInv, Gated
    <3> QED
      BY <3>1, <3>2, RecordFacts
  <2>2. \A i \in mine :
          LET b == ledger.entries[i].body
          IN (b.cited # {} => "L0" \in b.tiers) /\ (b.accepted > 0 => b.cited # {})
    BY DEF Books, Coherent
  <2> QED
    BY <2>1, <2>2 DEF LedgerTells
<1> QED
  BY <1>1, Inductive, PTL
----------------------------------------------------------------------------
(* Tampering.  Whatever is put in the place of the ledger is two fields    *)
(* and a list, and a list that verifies against the count and the head is  *)
(* the one that was.                                                       *)
Shaped(l) == /\ l = [entries |-> l.entries, last |-> l.last]
             /\ \E S : l.entries \in Seq(S)

LEMMA ShapedNew == Shaped(NewLedger)
<1>1. NewLedger.entries \in Seq({})
  BY DEF NewLedger
<1> QED
  BY <1>1 DEF Shaped, NewLedger

LEMMA ShapedAppended ==
  ASSUME NEW l, Shaped(l), NEW body
  PROVE  Shaped(Appended(l, body))
<1> DEFINE e == Seal(Len(l.entries), body, l.last)
<1>1. PICK S : l.entries \in Seq(S)
  BY DEF Shaped
<1>2. Appended(l, body) = [entries |-> Append(l.entries, e), last |-> e.hash]
  BY DEF Appended
<1> HIDE DEF e
<1>3. Append(l.entries, e) \in Seq(S \cup {e})
  <2>1. l.entries \in Seq(S \cup {e})
    BY <1>1
  <2> QED
    BY <2>1
<1> QED
  BY <1>2, <1>3 DEF Shaped

(* The ledgers built up of the first bodies of a list: there is such a     *)
(* function, by the least number for which there were none.                *)
Builds(f, bodies, n) ==
  f = [k \in 0..n |-> IF k = 0 THEN NewLedger ELSE Appended(f[k - 1], bodies[k])]

LEMMA BuildsNext ==
  ASSUME NEW bodies, NEW n \in Nat, NEW f, Builds(f, bodies, n)
  PROVE  \E g : Builds(g, bodies, n + 1)
<1> DEFINE g == [k \in 0..(n + 1) |-> IF k = n + 1 THEN Appended(f[n], bodies[n + 1]) ELSE f[k]]
<1>1. \A k \in 0..n : f[k] = IF k = 0 THEN NewLedger ELSE Appended(f[k - 1], bodies[k])
  BY DEF Builds
<1>2. ASSUME NEW k \in 0..(n + 1)
      PROVE  g[k] = IF k = 0 THEN NewLedger ELSE Appended(g[k - 1], bodies[k])
  <2>1. CASE k = n + 1
    <3>1. g[k] = Appended(f[n], bodies[k]) /\ k # 0 /\ k - 1 = n /\ n \in 0..(n + 1) /\ n # n + 1
      BY <2>1
    <3>2. g[n] = f[n]
      BY <3>1
    <3> QED
      BY <3>1, <3>2
  <2>2. CASE k \in 0..n /\ k # 0
    <3>1. /\ g[k] = f[k] /\ k - 1 \in 0..(n + 1) /\ k - 1 # n + 1
          /\ f[k] = Appended(f[k - 1], bodies[k])
      BY <1>1, <2>2
    <3>2. g[k - 1] = f[k - 1]
      BY <3>1
    <3> QED
      BY <2>2, <3>1, <3>2
  <2>3. CASE k = 0
    <3>1. g[k] = f[k] /\ f[k] = NewLedger
      BY <1>1, <2>3
    <3> QED
      BY <2>3, <3>1
  <2> QED
    BY <2>1, <2>2, <2>3
<1>3. g = [k \in 0..(n + 1) |-> g[k]]
  OBVIOUS
<1> HIDE DEF g
<1>4. g = [k \in 0..(n + 1) |-> IF k = 0 THEN NewLedger ELSE Appended(g[k - 1], bodies[k])]
  BY <1>2, <1>3
<1> QED
  BY <1>4 DEF Builds

LEMMA BuildsExist ==
  ASSUME NEW bodies, NEW n \in Nat
  PROVE  \E f : Builds(f, bodies, n)
<1> DEFINE U == {k \in Nat : ~\E f : Builds(f, bodies, k)}
<1>1. 0 \notin U
  <2> DEFINE f == [k \in 0..0 |-> NewLedger]
  <2>1. f = [k \in 0..0 |-> IF k = 0 THEN NewLedger ELSE Appended(f[k - 1], bodies[k])]
    OBVIOUS
  <2> HIDE DEF f
  <2>2. Builds(f, bodies, 0)
    BY <2>1 DEF Builds
  <2> QED
    BY <2>2
<1>2. \A k \in Nat : k \notin U => k + 1 \notin U
  BY BuildsNext
<1> HIDE DEF U
<1>3. U = {}
  <2> SUFFICES ASSUME U # {} PROVE FALSE
    OBVIOUS
  <2>1. U \in SUBSET Nat
    BY DEF U
  <2>2. PICK k \in U : \A j \in U : k <= j
    BY <2>1, LeastOf
  <2>3. k \in Nat /\ k # 0
    BY <1>1, <2>1, <2>2
  <2>4. k - 1 \in Nat /\ k - 1 \notin U /\ (k - 1) + 1 = k
    BY <2>1, <2>2, <2>3
  <2> QED
    BY <1>2, <2>2, <2>4
<1> QED
  BY <1>3 DEF U

LEMMA ResealedShaped ==
  ASSUME NEW bodies, Len(bodies) \in Nat
  PROVE  Shaped(Resealed(bodies))
<1> DEFINE n == Len(bodies)
           built == CHOOSE f : Builds(f, bodies, n)
<1>1. Builds(built, bodies, n)
  BY BuildsExist
<1>2. Resealed(bodies) = built[n]
  BY DEF Resealed, Builds
<1> HIDE DEF built
<1>3. \A k \in 0..n : built[k] = IF k = 0 THEN NewLedger ELSE Appended(built[k - 1], bodies[k])
  BY <1>1 DEF Builds
<1> DEFINE U == {k \in 0..n : ~Shaped(built[k])}
<1>4. U = {}
  <2> SUFFICES ASSUME U # {} PROVE FALSE
    OBVIOUS
  <2>1. U \in SUBSET Nat
    OBVIOUS
  <2>2. PICK k \in U : \A j \in U : k <= j
    BY <2>1, LeastOf
  <2>3. k \in 0..n /\ ~Shaped(built[k])
    OBVIOUS
  <2>4. k # 0
    BY <1>3, <2>3, ShapedNew
  <2>5. k - 1 \in 0..n /\ k - 1 \notin U
    BY <2>2, <2>3, <2>4
  <2>6. Shaped(built[k - 1]) /\ built[k] = Appended(built[k - 1], bodies[k])
    BY <1>3, <2>3, <2>4, <2>5
  <2> QED
    BY <2>3, <2>6, ShapedAppended
<1>5. n \in 0..n
  OBVIOUS
<1> QED
  BY <1>2, <1>4, <1>5

(* Every ledger in the place of this one is shaped like it.                *)
LEMMA TamperedShaped ==
  ASSUME Books, Shaped(ledger), NEW l \in Tampered
  PROVE  Shaped(l)
<1> DEFINE es == ledger.entries
           n  == Len(es)
           bodies == [i \in 1..n |-> es[i].body]
           cut(k) == [ledger EXCEPT !.entries = SubSeq(es, 1, k)]
<1>1. PICK S : es \in Seq(S)
  BY DEF Books
<1>2. n \in Nat /\ ledger = [entries |-> es, last |-> ledger.last]
  BY <1>1 DEF Shaped
<1>3. /\ Len(bodies) \in Nat
      /\ \A i \in 1..n : Len([bodies EXCEPT ![i] = Forged]) \in Nat
      /\ \A k \in 0..n : Len(SubSeq(bodies, 1, k)) \in Nat
  <2>1. bodies \in Seq({es[i].body : i \in 1..n}) /\ Len(bodies) = n
    BY <1>2
  <2> HIDE DEF bodies
  <2>2. \A i \in 1..n : [bodies EXCEPT ![i] = Forged] \in Seq({es[j].body : j \in 1..n} \cup {Forged})
    <3>1. bodies \in [1..n -> {es[i].body : i \in 1..n}]
      BY DEF bodies
    <3>2. \A i \in 1..n : [bodies EXCEPT ![i] = Forged] \in [1..n -> {es[j].body : j \in 1..n} \cup {Forged}]
      BY <3>1
    <3> QED
      <4> SUFFICES ASSUME NEW i \in 1..n
                   PROVE  [bodies EXCEPT ![i] = Forged]
                            \in Seq({es[j].body : j \in 1..n} \cup {Forged})
        OBVIOUS
      <4> DEFINE g == [bodies EXCEPT ![i] = Forged]
                 T == {es[j].body : j \in 1..n} \cup {Forged}
      <4>1. g \in [1..n -> T]
        BY <3>2
      <4> HIDE DEF g, T
      <4>2. g \in Seq(T)
        BY <1>2, <4>1
      <4> QED
        BY <4>2 DEF g, T
  <2>3. \A k \in 0..n : SubSeq(bodies, 1, k) \in Seq({es[j].body : j \in 1..n})
    <3> DEFINE T == {es[j].body : j \in 1..n}
    <3>1. bodies \in Seq(T) /\ Len(bodies) = n
      BY <2>1
    <3> HIDE DEF T, n
    <3>2. \A k \in 0..n : SubSeq(bodies, 1, k) \in Seq(T)
      BY <1>2, <3>1
    <3> QED
      BY <3>2 DEF T, n
  <2> QED
    BY <2>1, <2>2, <2>3
<1>4. CASE \E k \in 0..n : l = cut(k)
  <2>1. PICK k \in 0..n : l = cut(k)
    BY <1>4
  <2>2. SubSeq(es, 1, k) \in Seq(S)
    BY <1>1
  <2>3. l = [entries |-> SubSeq(es, 1, k), last |-> ledger.last]
    BY <1>2, <2>1
  <2> QED
    BY <2>2, <2>3 DEF Shaped
<1>5. CASE \E i \in 1..n : l = [ledger EXCEPT !.entries[i].body = Forged]
  <2>1. PICK i \in 1..n : l = [ledger EXCEPT !.entries[i].body = Forged]
    BY <1>5
  <2> DEFINE e == [es[i] EXCEPT !.body = Forged]
             fs == [es EXCEPT ![i] = e]
  <2>2. l = [entries |-> fs, last |-> ledger.last]
    <3>1. l = [ledger EXCEPT !.entries = fs]
      BY <2>1
    <3> HIDE DEF fs
    <3> QED
      BY <1>2, <3>1
  <2> HIDE DEF e
  <2>3. fs \in Seq(S \cup {e})
    BY <1>1
  <2> QED
    BY <2>2, <2>3 DEF Shaped
<1>6. CASE \E i \in 1..n : l = Resealed([bodies EXCEPT ![i] = Forged])
  BY <1>3, <1>6, ResealedShaped
<1>7. CASE \E k \in 0..n : l = Resealed(SubSeq(bodies, 1, k))
  BY <1>3, <1>7, ResealedShaped
<1>8. CASE \E i \in 1..n : l = [Resealed([bodies EXCEPT ![i] = Forged]) EXCEPT !.last = ledger.last]
  <2>1. PICK i \in 1..n : l = [Resealed([bodies EXCEPT ![i] = Forged]) EXCEPT !.last = ledger.last]
    BY <1>8
  <2> DEFINE r == Resealed([bodies EXCEPT ![i] = Forged])
  <2>2. Shaped(r)
    BY <1>3, ResealedShaped
  <2> HIDE DEF r
  <2>3. l = [r EXCEPT !.last = ledger.last]
    BY <2>1 DEF r
  <2>4. l = [entries |-> r.entries, last |-> ledger.last]
    BY <2>2, <2>3 DEF Shaped
  <2> QED
    BY <2>2, <2>4 DEF Shaped
<1> QED
  BY <1>4, <1>5, <1>6, <1>7, <1>8 DEF Tampered

LEMMA TamperFound ==
  ASSUME \A x, y : Hash(x) = Hash(y) => x = y, Books, Shaped(ledger)
  PROVE  TamperShows
<1> SUFFICES ASSUME NEW l \in Tampered
             PROVE  VerifyAgainst(l, Len(ledger.entries), ledger.last) <=> l = ledger
  BY DEF TamperShows
<1>1. VerifyAgainst(ledger, Len(ledger.entries), ledger.last)
  BY DEF Books, VerifyAgainst
<1>2. ASSUME VerifyAgainst(l, Len(ledger.entries), ledger.last) PROVE l = ledger
  <2>1. PICK S : ledger.entries \in Seq(S)
    BY DEF Books
  <2>2. PICK T : l.entries \in Seq(T)
    BY TamperedShaped DEF Shaped
  <2>3. l.entries \in Seq(S \cup T) /\ ledger.entries \in Seq(S \cup T)
    BY <2>1, <2>2
  <2>4. l.entries = ledger.entries
    BY <1>1, <1>2, <2>3, HeadFixesHistory
  <2>5. l.last = ledger.last
    BY <1>2 DEF VerifyAgainst
  <2>6. /\ l = [entries |-> l.entries, last |-> l.last]
        /\ ledger = [entries |-> ledger.entries, last |-> ledger.last]
    BY TamperedShaped DEF Shaped
  <2> QED
    BY <2>4, <2>5, <2>6
<1> QED
  BY <1>1, <1>2

LEMMA ShapedStep == Shaped(ledger) /\ [Next]_vars => Shaped(ledger)'
<1> SUFFICES ASSUME Shaped(ledger), [Next]_vars PROVE Shaped(ledger)'
  OBVIOUS
<1>1. CASE UNCHANGED ledger
  BY <1>1 DEF Shaped
<1>2. CASE ledger' = NewLedger
  BY <1>2, ShapedNew DEF Shaped
<1>3. ASSUME NEW b, ledger' = Appended(ledger, b) PROVE Shaped(ledger)'
  <2>1. Shaped(Appended(ledger, b))
    BY ShapedAppended
  <2> QED
    BY <1>3, <2>1 DEF Shaped
<1> QED
  BY <1>1, <1>2, <1>3, LedgerSteps DEF Writes, Other

(* With a hash that never collides, whoever has kept the count and the     *)
(* head finds every ledger that was cut, edited or sealed anew, however    *)
(* long it is, and passes the one that was not.                            *)
THEOREM TamperingShows ==
  ASSUME \A x, y : Hash(x) = Hash(y) => x = y
  PROVE  Spec => []TamperShows
<1>1. Init => Shaped(ledger)
  BY ShapedNew DEF Init
<1>2. Books /\ Shaped(ledger) => TamperShows
  BY TamperFound
<1> QED
  BY <1>1, <1>2, ShapedStep, Sound, PTL DEF Spec
----------------------------------------------------------------------------
(* A boot empties the ledger; every other step leaves it or appends to it. *)
Grows(b) ==
  /\ Len(ledger'.entries) = Len(ledger.entries) + 1
  /\ \A i \in 1..Len(ledger.entries) : ledger'.entries[i] = ledger.entries[i]
  /\ ledger'.entries[Len(ledger.entries) + 1].body = b

OnlyAppended ==
  \/ ledger' = NewLedger
  \/ UNCHANGED ledger
  \/ pc = "gate" /\ \E modes \in Modes : Grows(Record(Answer(modes)))
  \/ UNCHANGED pc /\ \E body \in OtherRecords : Grows(body)

(* While the process lives, the ledger only grows: no submission, lost     *)
(* activity or late answer alters or removes an entry, and one step adds   *)
(* at most one, of what this gate answered on the proposal it was given or *)
(* of what another had to say.                                             *)
THEOREM LedgerGrows == Spec => [][OnlyAppended]_vars
<1>1. Books /\ [Next]_vars => OnlyAppended
  <2> SUFFICES ASSUME Books, [Next]_vars PROVE OnlyAppended
    OBVIOUS
  <2>1. ASSUME NEW b, ledger' = Appended(ledger, b) PROVE Grows(b)
    BY <2>1, Appends DEF Grows
  <2>2. ASSUME NEW modes \in Modes, Writes(modes) PROVE OnlyAppended
    BY <2>1, <2>2 DEF Writes, OnlyAppended
  <2>3. ASSUME NEW body \in OtherRecords, Other(body) PROVE OnlyAppended
    BY <2>1, <2>3 DEF Other, OnlyAppended
  <2> QED
    BY <2>2, <2>3, LedgerSteps DEF OnlyAppended
<1> QED
  BY <1>1, Sound, PTL DEF Spec
----------------------------------------------------------------------------
(* What the gate is given, that of the Review module takes for granted.    *)

(* The override the roster may be told of a claim covers everything that a *)
(* track record supports, and never says more than was claimed.            *)
THEOREM CalibrationCovered ==
  \A t \in Tally, conf \in Claimed : Calibrated(t, conf) \in MayCalibrate(conf)
BY DEF Calibrated, MayCalibrate, Claimed

(* A proposal, as the gate weighs it, with an override for each claim.     *)
WellWeighed ==
  pc = "gate" => /\ [i \in 1..Len(hyps) |-> Weighed(i)] \in Seq(Hypothesis)
                 /\ Len(signals) = Len(hyps)
                 /\ \A i \in 1..Len(hyps) :
                      signals[i].calibrated \in MayCalibrate(hyps[i].conf)

Tempered == \A i \in 1..Len(signals) : signals[i].calibrated \in MayCalibrate(hyps[i].conf)

LEMMA ListSteps ==
  ASSUME TypeOK, RosterInv, [Next]_vars
  PROVE  \/ UNCHANGED <<hyps, signals>>
         \/ signals' = <<>>
         \/ \E answer, cal : AskVerifier(answer, cal)
<1>1. pc \in Asking => signals = <<>>
  BY DEF RosterInv, Weighing, TypeOK
<1>2. CASE \E ev \in Evidences : Submit(ev)
  BY <1>2 DEF Submit, Emptied
<1>3. CASE \E f \in FamilyReplies : AskFamily(f)
  BY <1>1, <1>3 DEF AskFamily, Asking, measured
<1>4. CASE (\E r \in BehaviourReplies : AskCapability(r)) \/ NoCapability
  BY <1>1, <1>4 DEF AskCapability, NoCapability, Asking
<1>5. CASE \/ \E optional \in BOOLEAN : Plan(optional)
           \/ Skip("family", "capability") \/ Sampled \/ Proposed
           \/ \E r \in IOCReplies \cup {{}} : AskIOCs(r)
           \/ \E text \in {"said", "long", "none"} : AskReport(text)
           \/ \E r \in BehaviourReplies : Resample(r)
           \/ LoseSample \/ Receive \/ Lose \/ Die \/ UNCHANGED vars
  BY <1>5 DEF Plan, Skip, Sampled, Proposed, AskIOCs, AskReport, Resample, LoseSample,
              Receive, Lose, Die, vars, proposal, measured
<1>6. CASE (\E modes \in Modes : Gate(modes)) \/ \E body \in OtherRecords : Other(body)
  BY <1>6 DEF Gate, Other, proposal, measured
<1> QED
  BY <1>2, <1>3, <1>4, <1>5, <1>6 DEF Next

LEMMA TemperedStep == TypeOK /\ RosterInv /\ Tempered /\ [Next]_vars => Tempered'
<1> SUFFICES ASSUME TypeOK, RosterInv, Tempered, [Next]_vars PROVE Tempered'
  OBVIOUS
<1>1. CASE UNCHANGED <<hyps, signals>>
  BY <1>1 DEF Tempered, MayCalibrate
<1>2. CASE signals' = <<>>
  BY <1>2 DEF Tempered
<1>3. ASSUME NEW answer, NEW cal, AskVerifier(answer, cal) PROVE Tempered'
  <2> DEFINE k == Len(signals) + 1
             s == [refuted |-> answer # "real", novel |-> Novel,
                   calibrated |-> cal, agreement |-> Agreement(k)]
  <2>1. /\ cal \in MayCalibrate(hyps[k].conf) /\ signals' = Append(signals, s)
        /\ hyps' = hyps /\ s.calibrated = cal
    BY <1>3 DEF AskVerifier, proposal
  <2> HIDE DEF s
  <2>2. /\ Len(signals') = k /\ signals'[k] = s /\ Len(signals) \in Nat
        /\ \A j \in 1..Len(signals) : signals'[j] = signals[j]
    BY <2>1 DEF TypeOK
  <2>3. ASSUME NEW j \in 1..Len(signals')
        PROVE  signals'[j].calibrated \in MayCalibrate(hyps[j].conf)
    <3>1. CASE j \in 1..Len(signals)
      BY <2>2, <3>1 DEF Tempered
    <3>2. CASE j = k
      BY <2>1, <2>2, <3>2
    <3> QED
      BY <2>2, <3>1, <3>2
  <2> QED
    BY <2>1, <2>3 DEF Tempered, MayCalibrate
<1> QED
  BY <1>1, <1>2, <1>3, ListSteps

LEMMA ToldOf ==
  ASSUME NEW k \in Kinds, NEW c \in Claimed,
         NEW g \in BOOLEAN, NEW r \in BOOLEAN, NEW n \in BOOLEAN, NEW s \in BOOLEAN
  PROVE  [kind |-> k, conf |-> c, grounded |-> g, refuted |-> r, novel |-> n, shaky |-> s]
           \in Hypothesis
BY DEF Hypothesis

(* Whatever the agents said, failed or left out, what stands before the    *)
(* gate is a proposal of the kind that Review takes as given: measured in  *)
(* full, and each override one of that very claim that does not raise it.  *)
THEOREM GateGivenWhatReviewTakes == Spec => []WellWeighed
<1>1. Init => Tempered
  BY DEF Init, Tempered
<1>2. TypeOK /\ RosterInv /\ Tempered => WellWeighed
  <2> SUFFICES ASSUME TypeOK, RosterInv, Tempered, pc = "gate" PROVE WellWeighed
    BY DEF WellWeighed
  <2>1. Len(signals) = Len(hyps)
    BY DEF RosterInv, Weighing
  <2>2. ASSUME NEW i \in 1..Len(hyps) PROVE Weighed(i) \in Hypothesis
    <3>1. hyps[i] \in Hyp /\ signals[i] \in Signals
      BY <2>1 DEF TypeOK
    <3> DEFINE shaky == LET a == signals[i].agreement
                        IN a.hits > 0 /\ 100 * a.hits < AgreementPct * a.total
    <3>2. /\ hyps[i].kind \in Kinds /\ hyps[i].conf \in Claimed
          /\ signals[i].refuted \in BOOLEAN /\ signals[i].novel \in BOOLEAN
      BY <3>1 DEF Hyp, Signals
    <3>3. shaky \in BOOLEAN /\ (hyps[i].cites \cap CuratedOf # {}) \in BOOLEAN
      BY ZenonT(10)
    <3>4. Weighed(i) = [kind |-> hyps[i].kind, conf |-> hyps[i].conf,
                        grounded |-> hyps[i].cites \cap CuratedOf # {},
                        refuted |-> signals[i].refuted, novel |-> signals[i].novel,
                        shaky |-> shaky]
      BY DEF Weighed
    <3> HIDE DEF shaky
    <3> DEFINE g == hyps[i].cites \cap CuratedOf # {}
    <3>5. g \in BOOLEAN
      BY <3>3
    <3> HIDE DEF g
    <3>6. [kind |-> hyps[i].kind, conf |-> hyps[i].conf, grounded |-> g,
           refuted |-> signals[i].refuted, novel |-> signals[i].novel, shaky |-> shaky]
            \in Hypothesis
      BY <3>2, <3>3, <3>5, ToldOf
    <3> QED
      BY <3>4, <3>6 DEF g
  <2>3. [i \in 1..Len(hyps) |-> Weighed(i)] \in Seq(Hypothesis)
    <3>1. Len(hyps) \in Nat
      BY DEF TypeOK
    <3> QED
      BY <2>2, <3>1
  <2> QED
    BY <2>1, <2>3 DEF Tempered, WellWeighed
<1> QED
  BY <1>1, <1>2, TemperedStep, Inductive, PTL DEF Spec
=============================================================================
