------------------------------- MODULE Vault -------------------------------
(***************************************************************************)
(* The content-addressed vault and everyone who touches it: the gateway's  *)
(* uploads (handleSubmit, services/mal-gateway/main.go), the ingest of     *)
(* extracted children (ExtractActivity and ingestChild, services/          *)
(* mal-orchestrator/activity.go) and the sweeps at boot (main.go).         *)
(*                                                                         *)
(* Uploads and extraction attempts run concurrently, an attempt that       *)
(* Temporal has given up on included; either program may be killed between *)
(* any two steps.  A blob is its own content address, so an entry is named *)
(* truthfully when it holds the blob it is named by.                       *)
(***************************************************************************)
EXTENDS Integers, FiniteSets

CONSTANTS Blobs,      \* byte strings, and by hashing, names
          Size(_),    \* the length of a blob
          Uploads,    \* requests to the gateway
          Attempts,   \* runs of ExtractActivity
          MaxIngest,  \* maxIngestBytes: the largest child
          MaxTotal,   \* maxIngestTotalBytes: the cap on one extraction
          MaxListed,  \* bound: children named by one manifest
          MaxCrashes, \* bound: times each program is killed
          Absent, Partial

ASSUME VaultConstants ==
  /\ \A b \in Blobs : Size(b) \in Nat \ {0}
  /\ MaxIngest \in Nat /\ MaxTotal \in Nat
  /\ MaxListed \in Nat /\ MaxCrashes \in Nat
  /\ Uploads \cap Attempts = {}
  /\ Absent \notin Blobs \cup {Partial} /\ Partial \notin Blobs

VARIABLES
  vault,      \* the entry of each name, Absent or the bytes it holds
  temp,       \* the temporary file of each upload and attempt
  pc,
  blob,       \* what an upload sends; the artifact an attempt unpacks
  claim,      \* the name the extractor gave the child being ingested
  stage,      \* attempts whose staging directory exists
  listed,     \* children of the manifest handled so far
  total,      \* ingestedTotal
  children,   \* verified
  up,         \* is the orchestrator running?
  started,    \* roots of submissions that were started
  reported,   \* children in reports that were returned
  published,  \* history: bytes each attempt added to the vault
  crashes

files == <<vault, temp, stage>>
books == <<listed, total, children, published>>
world == <<started, reported, up, crashes>>
vars  == <<files, books, world, pc, blob, claim>>

Procs == Uploads \cup Attempts
UploadStages  == {"off", "copy", "rename", "start", "done", "dead"}
AttemptStages == {"off", "engine", "ingest", "copy", "stat", "rename", "done",
                  "dead"}

TypeOK ==
  /\ vault \in [Blobs -> Blobs \cup {Absent}]
  /\ temp \in [Procs -> Blobs \cup {Absent, Partial}]
  /\ pc \in [Procs -> UploadStages \cup AttemptStages]
  /\ blob \in [Procs -> Blobs] /\ claim \in [Attempts -> Blobs]
  /\ stage \in SUBSET Attempts
  /\ listed \in [Attempts -> 0..MaxListed]
  /\ total \in [Attempts -> Nat] /\ published \in [Attempts -> Nat]
  /\ children \in [Attempts -> SUBSET Blobs]
  /\ up \in BOOLEAN /\ crashes \in 0..MaxCrashes
  /\ started \in SUBSET Blobs /\ reported \in SUBSET Blobs

Init ==
  /\ vault = [n \in Blobs |-> Absent]
  /\ temp = [p \in Procs |-> Absent]
  /\ pc = [p \in Procs |-> "off"]
  /\ blob \in [Procs -> Blobs] /\ claim = [a \in Attempts |-> blob[a]]
  /\ stage = {} /\ up = TRUE /\ crashes = 0
  /\ listed = [a \in Attempts |-> 0] /\ total = [a \in Attempts |-> 0]
  /\ published = [a \in Attempts |-> 0] /\ children = [a \in Attempts |-> {}]
  /\ started = {} /\ reported = {}

Goto(p, s) == pc' = [pc EXCEPT ![p] = s]
----------------------------------------------------------------------------
(* The gateway: handleSubmit.                                              *)

UploadBegin(u) ==
  /\ pc[u] = "off"
  /\ \/ Goto(u, "copy") /\ temp' = [temp EXCEPT ![u] = Partial]
     \/ Goto(u, "done") /\ UNCHANGED temp
  /\ UNCHANGED <<vault, stage, books, world, blob, claim>>

(* The body is streamed through the hasher, or cannot be read in full.     *)
UploadCopy(u) ==
  /\ pc[u] = "copy"
  /\ \/ Goto(u, "rename") /\ temp' = [temp EXCEPT ![u] = blob[u]]
     \/ Goto(u, "done") /\ temp' = [temp EXCEPT ![u] = Absent]
  /\ UNCHANGED <<vault, stage, books, world, blob, claim>>

(* The rename replaces whatever the name holds.                            *)
UploadRename(u) ==
  /\ pc[u] = "rename"
  /\ \/ Goto(u, "start") /\ vault' = [vault EXCEPT ![blob[u]] = temp[u]]
     \/ Goto(u, "done") /\ UNCHANGED vault
  /\ temp' = [temp EXCEPT ![u] = Absent]
  /\ UNCHANGED <<stage, books, world, blob, claim>>

(* ExecuteWorkflow; when it fails the bytes stay, with no submission.      *)
UploadStart(u) ==
  /\ pc[u] = "start"
  /\ started' \in {started, started \cup {blob[u]}}
  /\ Goto(u, "done")
  /\ UNCHANGED <<files, books, reported, up, crashes, blob, claim>>
----------------------------------------------------------------------------
(* The orchestrator: ExtractActivity on an artifact of some submission.    *)

(* A staging directory of its own; the worker and the broker run.          *)
Begin(a) ==
  /\ pc[a] = "off" /\ up
  /\ blob[a] \in started \cup reported
  /\ \/ Goto(a, "engine") /\ stage' = stage \cup {a}
     \/ Goto(a, "done") /\ UNCHANGED stage
  /\ UNCHANGED <<vault, temp, books, world, blob, claim>>

(* No report from the engine: the deferred cleanup runs.                   *)
EngineFails(a) ==
  /\ pc[a] = "engine"
  /\ Goto(a, "done") /\ stage' = stage \ {a}
  /\ UNCHANGED <<vault, temp, books, world, blob, claim>>

EngineReports(a) ==
  /\ pc[a] = "engine"
  /\ Goto(a, "ingest")
  /\ UNCHANGED <<files, books, world, blob, claim>>

(* Mutation: no cap on the total of one extraction.                        *)
MoreWithoutCap(a) == pc[a] = "ingest" /\ listed[a] < MaxListed

(* The loop goes on while the manifest lists children, under the cap.      *)
More(a) == pc[a] = "ingest" /\ listed[a] < MaxListed /\ total[a] < MaxTotal

(* The next child is refused before a byte is copied: its name is not a    *)
(* hash, or it is missing, not a regular file or too large, or the files   *)
(* cannot be opened.                                                       *)
Refuse(a) ==
  /\ More(a)
  /\ listed' = [listed EXCEPT ![a] = @ + 1]
  /\ UNCHANGED <<files, total, children, published, world, pc, blob, claim>>

OpenTemp(a) ==
  /\ More(a)
  /\ \E n \in Blobs : claim' = [claim EXCEPT ![a] = n]
  /\ listed' = [listed EXCEPT ![a] = @ + 1]
  /\ temp' = [temp EXCEPT ![a] = Partial]
  /\ Goto(a, "copy")
  /\ UNCHANGED <<vault, stage, total, children, published, world, blob>>

Drop(a) == Goto(a, "ingest") /\ temp' = [temp EXCEPT ![a] = Absent]

(* Mutation: the extractor's name for a child is taken at its word.        *)
CopyOnTrust(a) ==
  /\ pc[a] = "copy"
  /\ \E b \in Blobs : /\ Size(b) <= MaxIngest
                      /\ Goto(a, "stat")
                      /\ temp' = [temp EXCEPT ![a] = b]
  /\ UNCHANGED <<vault, stage, books, world, blob, claim>>

(* The copy fails, or grows past the cap; or it is complete, and its bytes *)
(* are what the extractor called them, or they are not.                    *)
Copy(a) ==
  /\ pc[a] = "copy"
  /\ \/ Drop(a)
     \/ \E b \in Blobs :
          /\ Size(b) <= MaxIngest
          /\ IF b = claim[a]
             THEN Goto(a, "stat") /\ temp' = [temp EXCEPT ![a] = b]
             ELSE Drop(a)
  /\ UNCHANGED <<vault, stage, books, world, blob, claim>>

Verified(a) ==
  /\ total' = [total EXCEPT ![a] = @ + Size(claim[a])]
  /\ children' = [children EXCEPT ![a] = @ \cup {claim[a]}]

(* Already in the vault: a success without a write.                        *)
Dedup(a) ==
  /\ pc[a] = "stat" /\ vault[claim[a]] # Absent
  /\ Drop(a) /\ Verified(a)
  /\ UNCHANGED <<vault, stage, listed, published, world, blob, claim>>

NotThere(a) ==
  /\ pc[a] = "stat" /\ vault[claim[a]] = Absent
  /\ Goto(a, "rename")
  /\ UNCHANGED <<files, books, world, blob, claim>>

(* Mutation: a child is listed although its rename failed.                 *)
PublishUnchecked(a) ==
  /\ pc[a] = "rename"
  /\ Drop(a) /\ Verified(a)
  /\ \/ /\ vault' = [vault EXCEPT ![claim[a]] = temp[a]]
        /\ published' = [published EXCEPT ![a] = @ + Size(claim[a])]
     \/ UNCHANGED <<vault, published>>
  /\ UNCHANGED <<stage, listed, world, blob, claim>>

(* The rename: another attempt or an upload may have been faster.          *)
Publish(a) ==
  /\ pc[a] = "rename"
  /\ Drop(a)
  /\ \/ /\ vault' = [vault EXCEPT ![claim[a]] = temp[a]]
        /\ published' = [published EXCEPT ![a] = @ + Size(claim[a])]
        /\ Verified(a)
     \/ UNCHANGED <<vault, published, total, children>>
  /\ UNCHANGED <<stage, listed, world, blob, claim>>

(* The manifest is exhausted, or the total cap cut it short.  The report   *)
(* of an attempt that Temporal has given up on is ignored.                 *)
Return(a) ==
  /\ pc[a] = "ingest"
  /\ Goto(a, "done") /\ stage' = stage \ {a}
  /\ reported' \in {reported, reported \cup children[a]}
  /\ UNCHANGED <<vault, temp, books, started, up, crashes, blob, claim>>
----------------------------------------------------------------------------
(* Crashes and restarts.                                                   *)

Killed(P) == pc' = [p \in Procs |->
                      IF p \in P /\ pc[p] \notin {"off", "done"} THEN "dead"
                      ELSE pc[p]]

CrashOrchestrator ==
  /\ up /\ crashes < MaxCrashes
  /\ up' = FALSE /\ crashes' = crashes + 1
  /\ Killed(Attempts)
  /\ UNCHANGED <<files, books, started, reported, blob, claim>>

CrashGateway ==
  /\ crashes < MaxCrashes
  /\ crashes' = crashes + 1
  /\ Killed(Uploads)
  /\ UNCHANGED <<files, books, started, reported, up, blob, claim>>

(* Mutation: the sweep's pattern matches every file of the vault.          *)
BootSweepsAll ==
  /\ ~up
  /\ stage' = {}
  /\ temp' = [p \in Procs |-> Absent]
  /\ vault' = [n \in Blobs |-> Absent]
  /\ up' = TRUE
  /\ UNCHANGED <<books, started, reported, crashes, pc, blob, claim>>

(* Mutation: only the staging area is swept.                               *)
BootSweepsStaging ==
  /\ ~up
  /\ stage' = {}
  /\ up' = TRUE
  /\ UNCHANGED <<vault, temp, books, started, reported, crashes, pc, blob, claim>>

(* Boot, before the worker polls: sweepStaging and sweepVaultTemps.        *)
Boot ==
  /\ ~up
  /\ stage' = {}
  /\ temp' = [p \in Procs |-> IF p \in Attempts THEN Absent ELSE temp[p]]
  /\ up' = TRUE
  /\ UNCHANGED <<vault, books, started, reported, crashes, pc, blob, claim>>

Upload(u) == UploadBegin(u) \/ UploadCopy(u) \/ UploadRename(u) \/ UploadStart(u)
Extract(a) ==
  \/ Begin(a) \/ EngineFails(a) \/ EngineReports(a) \/ Refuse(a) \/ OpenTemp(a)
  \/ Copy(a) \/ Dedup(a) \/ NotThere(a) \/ Publish(a) \/ Return(a)

Next == \/ \E u \in Uploads : Upload(u)
        \/ \E a \in Attempts : Extract(a)
        \/ CrashOrchestrator \/ CrashGateway \/ Boot

Spec == Init /\ [][Next]_vars

(* The container runtime restarts a dead orchestrator (restart:            *)
(* unless-stopped, deploy/compose.yaml), and boot comes before any work.   *)
FairSpec == Spec /\ WF_vars(Boot)
----------------------------------------------------------------------------
(* "The vault is only ever keyed by a hash we computed": whatever the      *)
(* extractors claim and whoever crashes, an entry holds the bytes it is    *)
(* named by.  About ingestChild, activity.go:395-471.                      *)
VaultKeyed == \A n \in Blobs : vault[n] \in {n, Absent}

(* The vault only grows: no sweep, rename or retry removes or changes an   *)
(* entry, not even one it replaces.                                        *)
VaultGrows == [][\A n \in Blobs : vault[n] # Absent => vault'[n] = vault[n]]_vars

(* Every artifact that an engine is pointed at exists, so that its mount   *)
(* by content address resolves: the roots the gateway started and the      *)
(* children any report names.  About the order in handleSubmit and         *)
(* ingestChild, and sampleMount in jail.go.                                *)
MountsResolve ==
  /\ \A n \in started \cup reported : vault[n] = n
  /\ \A a \in Attempts : pc[a] = "engine" => vault[blob[a]] = blob[a]

(* A file about to be renamed into the vault is still there, complete and  *)
(* its own: no sweep takes the file of an upload in flight.                *)
TempsIntact ==
  /\ \A u \in Uploads : pc[u] = "rename" => temp[u] = blob[u]
  /\ \A a \in Attempts : pc[a] \in {"stat", "rename"} => temp[a] = claim[a]

(* One attempt ingests at most the cap and one child more, and what it     *)
(* added to the vault is covered by the bytes it reports, which is what    *)
(* the submission's budget is charged.                                     *)
IngestBounded ==
  \A a \in Attempts : /\ total[a] < MaxTotal + MaxIngest \/ total[a] = 0
                      /\ published[a] <= total[a]

(* A crash between CreateTemp and Rename leaves nothing behind for long:   *)
(* the files of a killed ingest are gone after the next boot.              *)
DebrisSwept ==
  \A a \in Attempts :
    pc[a] = "dead" ~> (temp[a] = Absent /\ a \notin stage)

(* The inductive strengthening: a file ready to be renamed is true to its  *)
(* name, what is verified or started is stored, a child is begun only      *)
(* under the cap, and nothing runs between a crash and the next boot.      *)
Stored(S) == \A n \in S : vault[n] = n
Backed ==
  /\ Stored(started \cup reported)
  /\ \A u \in Uploads : pc[u] = "start" => Stored({blob[u]})
  /\ \A a \in Attempts : /\ Stored(children[a])
                         /\ pc[a] = "engine" => Stored({blob[a]})
Metered ==
  \A a \in Attempts : /\ pc[a] \in {"copy", "stat", "rename"} => total[a] < MaxTotal
                      /\ pc[a] \in {"stat", "rename"} => Size(claim[a]) <= MaxIngest

Quiet == ~up => \A a \in Attempts : pc[a] \in {"off", "done", "dead"}

IInv == /\ TypeOK /\ Quiet /\ VaultKeyed /\ TempsIntact /\ Backed
        /\ Metered /\ IngestBounded
============================================================================
