---------------------------- MODULE Vault_proofs ----------------------------
(* What holds of the vault for any blobs, uploads, attempts and crashes.   *)
EXTENDS Vault, TLAPS

(* Uploads and attempts are different processes.                           *)
LEMMA Apart == /\ \A u \in Uploads : u \in Procs /\ u \notin Attempts
               /\ \A a \in Attempts : a \in Procs /\ a \notin Uploads
  BY VaultConstants DEF Procs

(* Absent and Partial are no bytes.                                        *)
LEMMA Markers == Absent \notin Blobs /\ Partial \notin Blobs /\ Absent # Partial
  BY VaultConstants

(* The initial state is well-typed.                                        *)
LEMMA TypeInit == Init => TypeOK
<1> SUFFICES ASSUME Init PROVE TypeOK
  OBVIOUS
<1> USE DEF Init
<1>1. /\ vault \in [Blobs -> Blobs \cup {Absent}]
      /\ temp \in [Procs -> Blobs \cup {Absent, Partial}]
      /\ blob \in [Procs -> Blobs]
  OBVIOUS
<1>2. pc \in [Procs -> UploadStages \cup AttemptStages]
  BY DEF UploadStages, AttemptStages
<1>3. claim \in [Attempts -> Blobs]
  BY Apart
<1>4. /\ listed \in [Attempts -> 0..MaxListed] /\ total \in [Attempts -> Nat]
      /\ published \in [Attempts -> Nat] /\ children \in [Attempts -> SUBSET Blobs]
      /\ crashes \in 0..MaxCrashes
  BY VaultConstants
<1> QED
  BY <1>1, <1>2, <1>3, <1>4 DEF TypeOK

(* A renamed file is whole because TempsIntact says so.                    *)
LEMMA TypeStep == TypeOK /\ TempsIntact /\ [Next]_vars => TypeOK'
<1> SUFFICES ASSUME TypeOK, TempsIntact, [Next]_vars PROVE TypeOK'
  OBVIOUS
<1> USE Apart, VaultConstants DEF TypeOK, Goto, UploadStages, AttemptStages
<1>1. ASSUME NEW u \in Uploads, Upload(u) PROVE TypeOK'
  <2>1. CASE UploadBegin(u)
    BY <2>1 DEF UploadBegin, books, world
  <2>2. CASE UploadCopy(u)
    BY <2>2 DEF UploadCopy, books, world
  <2>3. CASE UploadRename(u)
    <3>1. vault' \in [Blobs -> Blobs \cup {Absent}]
      BY <2>3 DEF UploadRename, TempsIntact
    <3> QED
      BY <2>3, <3>1 DEF UploadRename, books, world
  <2>4. CASE UploadStart(u)
    BY <2>4 DEF UploadStart, books, files
  <2> QED
    BY <1>1, <2>1, <2>2, <2>3, <2>4 DEF Upload
<1>2. ASSUME NEW a \in Attempts, Extract(a) PROVE TypeOK'
  <2>1. CASE Begin(a)
    BY <2>1 DEF Begin, books, world
  <2>2. CASE EngineFails(a)
    BY <2>2 DEF EngineFails, books, world
  <2>3. CASE EngineReports(a)
    BY <2>3 DEF EngineReports, books, world, files
  <2>4. CASE Refuse(a)
    BY <2>4 DEF Refuse, More, world, files
  <2>5. CASE OpenTemp(a)
    BY <2>5 DEF OpenTemp, More, world
  <2>6. CASE Copy(a)
    BY <2>6 DEF Copy, Drop, books, world
  <2>7. CASE Dedup(a)
    BY <2>7 DEF Dedup, Drop, Verified, world
  <2>8. CASE NotThere(a)
    BY <2>8 DEF NotThere, books, world, files
  <2>9. CASE Publish(a)
    <3>1. temp[a] = claim[a] /\ claim[a] \in Blobs /\ Size(claim[a]) \in Nat
      BY <2>9 DEF Publish, TempsIntact
    <3>2. /\ vault' \in [Blobs -> Blobs \cup {Absent}]
          /\ temp' \in [Procs -> Blobs \cup {Absent, Partial}]
          /\ pc' \in [Procs -> UploadStages \cup AttemptStages]
      BY <2>9, <3>1 DEF Publish, Drop
    <3>3. /\ total' \in [Attempts -> Nat] /\ published' \in [Attempts -> Nat]
          /\ children' \in [Attempts -> SUBSET Blobs]
      BY <2>9, <3>1 DEF Publish, Verified
    <3> QED
      BY <2>9, <3>2, <3>3 DEF Publish, world
  <2>10. CASE Return(a)
    BY <2>10 DEF Return, books
  <2> QED
    BY <1>2, <2>1, <2>2, <2>3, <2>4, <2>5, <2>6, <2>7, <2>8, <2>9, <2>10 DEF Extract
<1>3. CASE CrashOrchestrator
  <2>1. pc' \in [Procs -> UploadStages \cup AttemptStages]
    BY <1>3 DEF CrashOrchestrator, Killed
  <2>2. crashes' \in 0..MaxCrashes
    BY <1>3 DEF CrashOrchestrator
  <2> QED
    BY <1>3, <2>1, <2>2 DEF CrashOrchestrator, files, books
<1>4. CASE CrashGateway
  <2>1. pc' \in [Procs -> UploadStages \cup AttemptStages]
    BY <1>4 DEF CrashGateway, Killed
  <2>2. crashes' \in 0..MaxCrashes
    BY <1>4 DEF CrashGateway
  <2> QED
    BY <1>4, <2>1, <2>2 DEF CrashGateway, files, books
<1>5. CASE Boot
  BY <1>5 DEF Boot, books
<1>6. CASE UNCHANGED vars
  BY <1>6 DEF vars, files, books, world
<1> QED
  BY <1>1, <1>2, <1>3, <1>4, <1>5, <1>6 DEF Next
----------------------------------------------------------------------------
(* Every entry that is there stays as it is, and whatever is renamed into  *)
(* the vault is named by its bytes.                                        *)
LEMMA VaultStep ==
  ASSUME TypeOK, VaultKeyed, TempsIntact, [Next]_vars
  PROVE  /\ VaultKeyed'
         /\ \A n \in Blobs : vault[n] # Absent => vault'[n] = vault[n]
<1> USE Markers DEF TypeOK, VaultKeyed
<1>1. ASSUME NEW n \in Blobs, vault' = [vault EXCEPT ![n] = n]
      PROVE  /\ VaultKeyed'
             /\ \A m \in Blobs : vault[m] # Absent => vault'[m] = vault[m]
  BY <1>1
<1>2. ASSUME NEW u \in Uploads, Upload(u)
      PROVE  vault' = vault \/ vault' = [vault EXCEPT ![blob[u]] = blob[u]]
  BY <1>2 DEF Upload, UploadBegin, UploadCopy, UploadRename, UploadStart, files,
              TempsIntact
<1>3. ASSUME NEW a \in Attempts, Extract(a)
      PROVE  vault' = vault \/ vault' = [vault EXCEPT ![claim[a]] = claim[a]]
  <2>1. CASE Publish(a)
    BY <2>1 DEF Publish, TempsIntact
  <2>2. CASE ~Publish(a)
    BY <1>3, <2>2 DEF Extract, Begin, EngineFails, EngineReports, Refuse, OpenTemp,
                      Copy, Dedup, NotThere, Return, files
  <2> QED
    BY <2>1, <2>2
<1>4. CASE CrashOrchestrator \/ CrashGateway \/ Boot \/ UNCHANGED vars
  BY <1>4 DEF CrashOrchestrator, CrashGateway, Boot, vars, files
<1>5. CASE vault' = vault
  BY <1>5
<1>6. \A u \in Uploads : blob[u] \in Blobs
  BY Apart
<1> QED
  BY <1>1, <1>2, <1>3, <1>4, <1>5, <1>6 DEF Next

(* While the orchestrator is down none of its attempts runs.               *)
LEMMA QuietStep == TypeOK /\ Quiet /\ [Next]_vars => Quiet'
<1> SUFFICES ASSUME TypeOK, Quiet, [Next]_vars, ~up'
             PROVE  \A a \in Attempts : pc'[a] \in {"off", "done", "dead"}
  BY DEF Quiet
<1> USE Apart DEF TypeOK, Quiet, Goto
<1>1. ASSUME NEW u \in Uploads, Upload(u)
      PROVE  up' = up /\ \A a \in Attempts : pc'[a] = pc[a]
  BY <1>1 DEF Upload, UploadBegin, UploadCopy, UploadRename, UploadStart, world
<1>2. ASSUME NEW a \in Attempts, Extract(a)
      PROVE  up' = up /\ (~up => Begin(a))
  BY <1>2 DEF Extract, Begin, EngineFails, EngineReports, Refuse, OpenTemp, More,
              Copy, Dedup, NotThere, Publish, Return, world
<1>3. CASE CrashOrchestrator
  BY <1>3 DEF CrashOrchestrator, Killed, AttemptStages, UploadStages
<1>4. CASE CrashGateway
  BY <1>4 DEF CrashGateway, Killed
<1>5. CASE Boot
  BY <1>5 DEF Boot
<1>6. CASE UNCHANGED vars
  BY <1>6 DEF vars, world
<1> QED
  BY <1>1, <1>2, <1>3, <1>4, <1>5, <1>6 DEF Next, Begin

(* A file waiting to be renamed is left alone by everyone else.            *)
LEMMA TempsStep == TypeOK /\ Quiet /\ TempsIntact /\ [Next]_vars => TempsIntact'
<1> SUFFICES ASSUME TypeOK, Quiet, TempsIntact, [Next]_vars PROVE TempsIntact'
  OBVIOUS
<1> USE Apart DEF TypeOK, TempsIntact, Goto
<1>1. ASSUME NEW u \in Uploads, Upload(u) PROVE TempsIntact'
  <2>1. CASE UploadBegin(u)
    BY <2>1 DEF UploadBegin
  <2>2. CASE UploadCopy(u)
    BY <2>2 DEF UploadCopy
  <2>3. CASE UploadRename(u)
    BY <2>3 DEF UploadRename
  <2>4. CASE UploadStart(u)
    BY <2>4 DEF UploadStart, files
  <2> QED
    BY <1>1, <2>1, <2>2, <2>3, <2>4 DEF Upload
<1>2. ASSUME NEW a \in Attempts, Extract(a) PROVE TempsIntact'
  <2>1. CASE Begin(a)
    BY <2>1 DEF Begin
  <2>2. CASE EngineFails(a)
    BY <2>2 DEF EngineFails
  <2>3. CASE EngineReports(a)
    BY <2>3 DEF EngineReports, files
  <2>4. CASE Refuse(a)
    BY <2>4 DEF Refuse, files
  <2>5. CASE OpenTemp(a)
    BY <2>5 DEF OpenTemp
  <2>6. CASE Copy(a)
    BY <2>6 DEF Copy, Drop
  <2>7. CASE Dedup(a)
    BY <2>7 DEF Dedup, Drop
  <2>8. CASE NotThere(a)
    BY <2>8 DEF NotThere, files
  <2>9. CASE Publish(a)
    BY <2>9 DEF Publish, Drop
  <2>10. CASE Return(a)
    BY <2>10 DEF Return
  <2> QED
    BY <1>2, <2>1, <2>2, <2>3, <2>4, <2>5, <2>6, <2>7, <2>8, <2>9, <2>10 DEF Extract
<1>3. CASE CrashOrchestrator
  BY <1>3 DEF CrashOrchestrator, Killed, files
<1>4. CASE CrashGateway
  BY <1>4 DEF CrashGateway, Killed, files
<1>5. CASE Boot
  <2>1. \A a \in Attempts : pc[a] \notin {"stat", "rename"}
    BY <1>5 DEF Boot, Quiet
  <2> QED
    BY <1>5, <2>1 DEF Boot
<1>6. CASE UNCHANGED vars
  BY <1>6 DEF vars, files
<1> QED
  BY <1>1, <1>2, <1>3, <1>4, <1>5, <1>6 DEF Next

(* What is stored stays stored.                                            *)
LEMMA StoredStays ==
  ASSUME TypeOK, VaultKeyed, TempsIntact, [Next]_vars,
         NEW S \in SUBSET Blobs, Stored(S)
  PROVE  Stored(S)'
  BY VaultStep, Markers DEF Stored, TypeOK

(* Reports, submissions and children name what is stored.                  *)
LEMMA BackedStep ==
  TypeOK /\ VaultKeyed /\ TempsIntact /\ Backed /\ [Next]_vars => Backed'
<1> SUFFICES ASSUME TypeOK, VaultKeyed, TempsIntact, Backed, [Next]_vars
             PROVE  Backed'
  OBVIOUS
<1>k. VaultKeyed' /\ \A n \in Blobs : vault[n] = n => vault'[n] = n
  <2>1. VaultKeyed' /\ \A n \in Blobs : vault[n] # Absent => vault'[n] = vault[n]
    BY VaultStep
  <2> QED
    BY <2>1, Markers
<1> DEFINE Kept1 == /\ \A n \in started \cup reported : vault'[n] = n
                    /\ \A u \in Uploads : pc[u] = "start" => vault'[blob[u]] = blob[u]
                    /\ \A a \in Attempts :
                         /\ \A n \in children[a] : vault'[n] = n
                         /\ pc[a] = "engine" => vault'[blob[a]] = blob[a]
           Goal == /\ \A n \in started' \cup reported' : vault'[n] = n
                   /\ \A u \in Uploads : pc'[u] = "start" => vault'[blob'[u]] = blob'[u]
                   /\ \A a \in Attempts :
                        /\ \A n \in children'[a] : vault'[n] = n
                        /\ pc'[a] = "engine" => vault'[blob'[a]] = blob'[a]
<1>o. Kept1
  BY <1>k, Apart DEF TypeOK, Backed, Stored
<1>g. Goal => Backed'
  BY DEF Backed, Stored
<1> HIDE DEF Goal
<1>1. ASSUME NEW u \in Uploads, Upload(u) PROVE Goal
  <2> USE Apart DEF TypeOK, Goto, Goal
  <2>1. CASE UploadBegin(u)
    BY <1>o, <2>1 DEF UploadBegin, books, world
  <2>2. CASE UploadCopy(u)
    BY <1>o, <2>2 DEF UploadCopy, books, world
  <2>3. CASE UploadRename(u)
    BY <1>o, <2>3 DEF UploadRename, books, world, TempsIntact
  <2>4. CASE UploadStart(u)
    BY <1>o, <2>4 DEF UploadStart, books, files
  <2> QED
    BY <1>1, <2>1, <2>2, <2>3, <2>4 DEF Upload
<1>2. ASSUME NEW a \in Attempts, Extract(a) PROVE Goal
  <2> USE Apart DEF TypeOK, Goto, Goal
  <2>1. CASE Begin(a)
    BY <1>o, <2>1 DEF Begin, books, world
  <2>2. CASE EngineFails(a)
    BY <1>o, <2>2 DEF EngineFails, books, world
  <2>3. CASE EngineReports(a)
    BY <1>o, <2>3 DEF EngineReports, books, world
  <2>4. CASE Refuse(a)
    BY <1>o, <2>4 DEF Refuse, world
  <2>5. CASE OpenTemp(a)
    BY <1>o, <2>5 DEF OpenTemp, world
  <2>6. CASE Copy(a)
    BY <1>o, <2>6 DEF Copy, Drop, books, world
  <2>7. CASE Dedup(a)
    <3>1. vault'[claim[a]] = claim[a]
      BY <1>k, <2>7 DEF Dedup, VaultKeyed
    <3> QED
      BY <1>o, <2>7, <3>1 DEF Dedup, Drop, Verified, world
  <2>8. CASE NotThere(a)
    BY <1>o, <2>8 DEF NotThere, books, world
  <2>9. CASE Publish(a)
    BY <1>o, <2>9 DEF Publish, Drop, Verified, world, TempsIntact
  <2>10. CASE Return(a)
    BY <1>o, <2>10 DEF Return, books
  <2> QED
    BY <1>2, <2>1, <2>2, <2>3, <2>4, <2>5, <2>6, <2>7, <2>8, <2>9, <2>10 DEF Extract
<1>3. CASE CrashOrchestrator
  BY <1>3, <1>g, <1>o, Apart DEF CrashOrchestrator, Killed, books, Goal, TypeOK
<1>4. CASE CrashGateway
  BY <1>4, <1>g, <1>o, Apart DEF CrashGateway, Killed, books, Goal, TypeOK
<1>5. CASE Boot
  BY <1>5, <1>g, <1>o DEF Boot, books, Goal
<1>6. CASE UNCHANGED vars
  BY <1>6, <1>g, <1>o DEF vars, books, world, Goal
<1> QED
  BY <1>g, <1>1, <1>2, <1>3, <1>4, <1>5, <1>6 DEF Next

(* The totals of one attempt.                                              *)
LEMMA MeterStep ==
  TypeOK /\ Metered /\ IngestBounded /\ [Next]_vars => Metered' /\ IngestBounded'
<1> SUFFICES ASSUME TypeOK, Metered, IngestBounded, [Next]_vars
             PROVE  Metered' /\ IngestBounded'
  OBVIOUS
<1> DEFINE Fine(p, c, t, pub) ==
             /\ p \in {"copy", "stat", "rename"} => t < MaxTotal
             /\ p \in {"stat", "rename"} => Size(c) <= MaxIngest
             /\ t < MaxTotal + MaxIngest \/ t = 0
             /\ pub <= t
<1>f. \A a \in Attempts : Fine(pc[a], claim[a], total[a], published[a])
  BY DEF Metered, IngestBounded
<1>g. (\A a \in Attempts : Fine(pc'[a], claim'[a], total'[a], published'[a]))
        => Metered' /\ IngestBounded'
  BY DEF Metered, IngestBounded
<1>0. ASSUME claim' = claim, total' = total, published' = published,
             \A a \in Attempts : pc'[a] = pc[a] \/ pc'[a] \in {"engine", "ingest", "done", "dead"}
      PROVE  \A a \in Attempts : Fine(pc'[a], claim'[a], total'[a], published'[a])
  BY <1>0, <1>f
<1>1. ASSUME NEW u \in Uploads, Upload(u)
      PROVE  /\ claim' = claim /\ total' = total /\ published' = published
             /\ \A a \in Attempts : pc'[a] = pc[a]
  BY <1>1, Apart DEF Upload, UploadBegin, UploadCopy, UploadRename, UploadStart,
                     books, TypeOK, Goto
<1>2. CASE CrashOrchestrator \/ CrashGateway \/ Boot \/ UNCHANGED vars
  <2>1. /\ claim' = claim /\ total' = total /\ published' = published
        /\ \A a \in Attempts : pc'[a] \in {pc[a], "dead"}
    BY <1>2, Apart DEF CrashOrchestrator, CrashGateway, Boot, Killed, vars, books, TypeOK
  <2> QED
    BY <1>0, <1>g, <2>1
<1>3. ASSUME NEW a \in Attempts, Extract(a)
      PROVE  \A b \in Attempts : Fine(pc'[b], claim'[b], total'[b], published'[b])
  <2> DEFINE Others == \A b \in Attempts \ {a} :
                         /\ pc'[b] = pc[b] /\ claim'[b] = claim[b]
                         /\ total'[b] = total[b] /\ published'[b] = published[b]
  <2>o. Others
    BY <1>3, Apart DEF TypeOK, Goto, Extract, Begin, EngineFails, EngineReports,
         Refuse, OpenTemp, Copy, Drop, Verified, Dedup, NotThere, Publish, Return,
         books
  <2>t. /\ total[a] \in Nat /\ published[a] \in Nat /\ claim[a] \in Blobs
        /\ Size(claim[a]) \in Nat /\ MaxTotal \in Nat /\ MaxIngest \in Nat
    BY VaultConstants DEF TypeOK
  <2>f. Fine(pc[a], claim[a], total[a], published[a])
    BY <1>f
  <2>1. Fine(pc'[a], claim'[a], total'[a], published'[a])
    <3> USE Apart DEF TypeOK, Goto
    <3>1. CASE Begin(a) \/ EngineFails(a) \/ EngineReports(a) \/ Refuse(a) \/ Return(a)
      BY <2>f, <3>1 DEF Begin, EngineFails, EngineReports, Refuse, Return, books
    <3>2. CASE OpenTemp(a)
      BY <2>f, <2>t, <3>2 DEF OpenTemp, More
    <3>3. CASE Copy(a)
      BY <2>f, <3>3 DEF Copy, Drop, books
    <3>4. CASE NotThere(a)
      BY <2>f, <3>4 DEF NotThere, books
    <3>5. CASE Dedup(a) \/ Publish(a)
      <4>1. /\ pc'[a] = "ingest" /\ pc[a] \in {"stat", "rename"}
            /\ \/ total'[a] = total[a] + Size(claim[a])
                  /\ published'[a] \in {published[a], published[a] + Size(claim[a])}
               \/ total'[a] = total[a] /\ published'[a] = published[a]
        BY <3>5 DEF Dedup, Publish, Drop, Verified
      <4>2. total[a] < MaxTotal /\ Size(claim[a]) <= MaxIngest
            /\ published[a] <= total[a]
        BY <2>f, <4>1
      <4>3. /\ total'[a] < MaxTotal + MaxIngest \/ total'[a] = 0
            /\ published'[a] <= total'[a]
        <5> HIDE DEF TypeOK, Fine
        <5> QED
          BY <2>t, <4>1, <4>2
      <4> QED
        BY <4>1, <4>3
    <3> QED
      BY <1>3, <3>1, <3>2, <3>3, <3>4, <3>5 DEF Extract
  <2> HIDE DEF Fine
  <2>2. \A b \in Attempts \ {a} : Fine(pc'[b], claim'[b], total'[b], published'[b])
    BY <1>f, <2>o
  <2> QED
    BY <2>1, <2>2
<1>4. CASE \E u \in Uploads : Upload(u)
  BY <1>g, <1>0, <1>1, <1>4
<1>5. CASE \E a \in Attempts : Extract(a)
  BY <1>g, <1>3, <1>5
<1> QED
  BY <1>2, <1>4, <1>5 DEF Next

(* The strengthened invariant holds at first...                            *)
LEMMA InvInit == Init => IInv
<1> SUFFICES ASSUME Init PROVE IInv
  OBVIOUS
<1>1. TypeOK
  BY TypeInit
<1>2. VaultKeyed /\ TempsIntact /\ Quiet /\ Backed
  BY Apart DEF Init, VaultKeyed, TempsIntact, Quiet, Backed, Stored
<1>3. Metered /\ IngestBounded
  BY Apart DEF Init, Metered, IngestBounded
<1> QED
  BY <1>1, <1>2, <1>3 DEF IInv

(* ...and for ever.                                                        *)
LEMMA InvAlways == Spec => []IInv
<1>1. IInv /\ [Next]_vars => IInv'
  BY TypeStep, QuietStep, VaultStep, TempsStep, BackedStep, MeterStep DEF IInv
<1> QED
  BY InvInit, <1>1, PTL DEF Spec

(* No entry of the vault ever holds anything but the bytes it is named by. *)
THEOREM KeyedByContent == Spec => []VaultKeyed
<1>1. IInv => VaultKeyed
  BY DEF IInv
<1> QED
  BY <1>1, InvAlways, PTL

(* No step of anyone removes or changes an entry.                          *)
THEOREM OnlyGrows == Spec => VaultGrows
<1>1. IInv /\ [Next]_vars
        => [\A n \in Blobs : vault[n] # Absent => vault'[n] = vault[n]]_vars
  BY VaultStep DEF IInv
<1> QED
  BY <1>1, InvAlways, PTL DEF Spec, VaultGrows

(* Every artifact handed to an engine is in the vault.                     *)
THEOREM EveryMountResolves == Spec => []MountsResolve
<1>1. IInv => MountsResolve
  BY DEF IInv, Backed, Stored, MountsResolve
<1> QED
  BY <1>1, InvAlways, PTL

(* One attempt writes no more than it reports, and reports no more than    *)
(* the cap and one child.                                                  *)
THEOREM IngestIsMetered == Spec => []IngestBounded
<1>1. IInv => IngestBounded
  BY DEF IInv
<1> QED
  BY <1>1, InvAlways, PTL

(* Every variable keeps its type.                                          *)
THEOREM TypeCorrect == Spec => []TypeOK
<1>1. IInv => TypeOK
  BY DEF IInv
<1> QED
  BY <1>1, InvAlways, PTL

(* The temporary file of a process that is writing is there and its own,   *)
(* whatever sweeps run meanwhile.                                          *)
THEOREM TempsStayIntact == Spec => []TempsIntact
<1>1. IInv => TempsIntact
  BY DEF IInv
<1> QED
  BY <1>1, InvAlways, PTL
----------------------------------------------------------------------------
(* A temporary file belongs to an ingest in progress, a staging directory  *)
(* to an extraction in progress, or either to one that was killed when no  *)
(* boot has been since.                                                    *)
Killed1(a) == pc[a] = "dead" /\ ~up
Debris ==
  \A a \in Attempts :
    /\ temp[a] # Absent => pc[a] \in {"copy", "stat", "rename"} \/ Killed1(a)
    /\ a \in stage => pc[a] \in {"engine", "ingest", "copy", "stat", "rename"} \/ Killed1(a)

LEMMA DebrisStep == TypeOK /\ Quiet /\ Debris /\ [Next]_vars => Debris'
<1> SUFFICES ASSUME TypeOK, Quiet, Debris, [Next]_vars PROVE Debris'
  OBVIOUS
<1> USE Apart DEF TypeOK, Goto
<1>1. ASSUME NEW u \in Uploads, Upload(u) PROVE Debris'
  <2>1. /\ \A a \in Attempts : temp'[a] = temp[a] /\ pc'[a] = pc[a]
        /\ stage' = stage /\ up' = up
    BY <1>1 DEF Upload, UploadBegin, UploadCopy, UploadRename, UploadStart, files, world
  <2> QED
    BY <2>1 DEF Debris, Killed1
<1>2. ASSUME NEW a \in Attempts, Extract(a) PROVE Debris'
  <2>o. /\ up' = up
        /\ \A b \in Attempts \ {a} :
             temp'[b] = temp[b] /\ pc'[b] = pc[b] /\ (b \in stage' <=> b \in stage)
    BY <1>2 DEF Extract, Begin, EngineFails, EngineReports, Refuse, OpenTemp, Copy, Drop,
                Dedup, NotThere, Publish, Return, files, world
  <2> DEFINE Own == /\ temp'[a] # Absent => pc'[a] \in {"copy", "stat", "rename"}
                    /\ a \in stage' => pc'[a] \in {"engine", "ingest", "copy", "stat", "rename"}
  <2>p. pc[a] # "dead"
    BY <1>2 DEF Extract, Begin, EngineFails, EngineReports, Refuse, OpenTemp, More, Copy,
                Dedup, NotThere, Publish, Return
  <2>t. /\ temp[a] # Absent => pc[a] \in {"copy", "stat", "rename"}
        /\ a \in stage => pc[a] \in {"engine", "ingest", "copy", "stat", "rename"}
    BY <2>p DEF Debris, Killed1
  <2>1. ASSUME Begin(a) PROVE Own
    BY <2>t, <2>1 DEF Begin
  <2>2. ASSUME EngineFails(a) \/ Return(a) PROVE Own
    BY <2>t, <2>2 DEF EngineFails, Return
  <2>3. ASSUME EngineReports(a) PROVE Own
    BY <2>t, <2>3 DEF EngineReports, files
  <2>4. ASSUME NotThere(a) PROVE Own
    BY <2>t, <2>4 DEF NotThere, files
  <2>5. ASSUME Refuse(a) PROVE Own
    BY <2>t, <2>5 DEF Refuse, More, files
  <2>6. ASSUME OpenTemp(a) PROVE Own
    BY <2>t, <2>6 DEF OpenTemp, More
  <2>7. ASSUME Copy(a) PROVE Own
    BY <2>t, <2>7 DEF Copy, Drop
  <2>8. ASSUME Dedup(a) \/ Publish(a) PROVE Own
    BY <2>t, <2>8 DEF Dedup, Publish, Drop
  <2>9. Own
    BY <1>2, <2>1, <2>2, <2>3, <2>4, <2>5, <2>6, <2>7, <2>8 DEF Extract
  <2> QED
    BY <2>o, <2>9 DEF Debris, Killed1
<1>3. CASE CrashOrchestrator
  <2>1. /\ \A a \in Attempts : pc'[a] = IF pc[a] \in {"off", "done"} THEN pc[a] ELSE "dead"
        /\ up' = FALSE /\ temp' = temp /\ stage' = stage
    BY <1>3 DEF CrashOrchestrator, Killed, files
  <2> QED
    BY <2>1 DEF Debris, Killed1
<1>4. CASE CrashGateway
  <2>1. /\ \A a \in Attempts : pc'[a] = pc[a]
        /\ up' = up /\ temp' = temp /\ stage' = stage
    BY <1>4 DEF CrashGateway, Killed, files
  <2> QED
    BY <2>1 DEF Debris, Killed1
<1>5. CASE Boot
  BY <1>5 DEF Boot, Debris
<1>6. CASE UNCHANGED vars
  BY <1>6 DEF vars, files, world, Debris, Killed1
<1> QED
  BY <1>1, <1>2, <1>3, <1>4, <1>5, <1>6 DEF Next

(* Nothing is left behind: whoever fails, is refused or is killed, what an *)
(* extraction wrote beside the vault outlives it only if it was killed,    *)
(* and then only to the next boot.  What is missing to DebrisSwept is that *)
(* there is one.                                                           *)
THEOREM NothingLeftBehind == Spec => []Debris
<1>1. Init => Debris
  BY Apart DEF Init, Debris
<1>2. IInv /\ Debris /\ [Next]_vars => Debris'
  BY DebrisStep DEF IInv
<1> QED
  BY <1>1, <1>2, InvAlways, PTL DEF Spec
=============================================================================
