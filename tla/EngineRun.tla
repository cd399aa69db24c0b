----------------------------- MODULE EngineRun -----------------------------
(***************************************************************************)
(* One engine activity, from dispatch to answer: the attempts Temporal     *)
(* makes, and in each attempt runWorkerThroughBroker (services/mal-        *)
(* orchestrator/activity.go): a jailed worker whose raw output is decoded  *)
(* by a jailed broker (runJailed, jail.go; validate, services/mal-broker). *)
(*                                                                         *)
(* The orchestrator may be killed at any step.  An attempt that timed out  *)
(* for the server runs on, next to its own retry.  Of what a worker prints *)
(* only what is captured counts: nobody knows whether it was all, since    *)
(* the stream is drained for a bounded time.  It is one document and       *)
(* nothing else, abstracted to its verdict word; or no such thing (less    *)
(* than a document, or more than one); or the first MiB of more.  A prefix *)
(* of the output may be any of the first two.                              *)
(***************************************************************************)
EXTENDS Lattice

CONSTANTS MaxAttempts, \* RetryPolicy.MaximumAttempts
          MaxCrashes,  \* bound: times the orchestrator is killed
          Words,       \* verdict words a worker may print, known or not
          Retryable, Final, \* the errors of an attempt
          Pending, Failed, NoWord

ASSUME EngineRunConstants ==
  /\ MaxAttempts \in Nat \ {0} /\ MaxCrashes \in Nat
  /\ NoWord \notin Words
  /\ Pending \notin Verdicts \cup {Failed, Retryable, Final}
  /\ Failed \notin Verdicts
  /\ Retryable \notin Verdicts \cup {Final} /\ Final \notin Verdicts

Attempts == 1..MaxAttempts
Cuts == {"document", "garbled", "over"}

(* The errors of an attempt: one worth another attempt, and one that is    *)
(* not (NewNonRetryableApplicationError).                                  *)
Errors == {Retryable, Final}

VARIABLES
  pc,        \* per attempt
  out,       \* per attempt: how it ended
  jails,     \* containers that carry the jail label
  word, exit, cut, \* per attempt: what its worker said, exited with, was captured
  up,        \* is the orchestrator running?
  server,    \* Temporal's view: scheduled, started, or closed
  attempt,   \* its current attempt
  answer,    \* the future
  crashes

remote == <<server, attempt, answer>>
worker == <<word, exit, cut>>
vars == <<pc, out, jails, worker, up, remote, crashes>>

Stages == {"off", "worker", "inWorker", "broker", "inBroker", "answer", "done",
           "dead"}
Jail == [of : Attempts, runs : BOOLEAN]

TypeOK ==
  /\ pc \in [Attempts -> Stages]
  /\ out \in [Attempts -> Verdicts \cup Errors \cup {Pending}]
  /\ jails \in SUBSET Jail
  /\ word \in [Attempts -> Words \cup {NoWord}]
  /\ exit \in [Attempts -> {"zero", "nonzero"}] /\ cut \in [Attempts -> Cuts]
  /\ up \in BOOLEAN /\ crashes \in 0..MaxCrashes
  /\ server \in {"scheduled", "started", "closed"} /\ attempt \in Attempts
  /\ answer \in Verdicts \cup {Pending, Failed}

Init ==
  /\ pc = [n \in Attempts |-> "off"] /\ out = [n \in Attempts |-> Pending]
  /\ jails = {}
  /\ word = [n \in Attempts |-> NoWord] /\ exit = [n \in Attempts |-> "zero"]
  /\ cut = [n \in Attempts |-> "document"]
  /\ up = TRUE /\ crashes = 0
  /\ server = "scheduled" /\ attempt = 1 /\ answer = Pending
----------------------------------------------------------------------------
Goto(n, s) == pc' = [pc EXCEPT ![n] = s] /\ UNCHANGED out

(* The attempt returns, with an error or a verdict.                        *)
End(n, o) == pc' = [pc EXCEPT ![n] = "answer"] /\ out' = [out EXCEPT ![n] = o]

(* The deferred ContainerRemove, by force.                                 *)
Removed(n) == jails' = jails \ {[of |-> n, runs |-> TRUE]}

Dispatch ==
  /\ server = "scheduled" /\ up
  /\ server' = "started"
  /\ Goto(attempt, "worker")
  /\ UNCHANGED <<jails, worker, up, attempt, answer, crashes>>

(* Create, attach, start.  A create that fails for the client may still    *)
(* leave a container that never ran; a failed attach or start removes it.  *)
Launch(n) ==
  /\ pc[n] \in {"worker", "broker"}
  /\ \/ /\ jails' = jails \cup {[of |-> n, runs |-> TRUE]}
        /\ Goto(n, IF pc[n] = "worker" THEN "inWorker" ELSE "inBroker")
     \/ /\ jails' \in {jails, jails \cup {[of |-> n, runs |-> FALSE]}}
        /\ End(n, Retryable)
  /\ UNCHANGED <<worker, up, remote, crashes>>

(* Mutation: the jail is removed only when it ran to its end.              *)
JailFailsLeaking(n) ==
  /\ pc[n] \in {"inWorker", "inBroker"}
  /\ End(n, Retryable)
  /\ UNCHANGED <<jails, worker, up, remote, crashes>>

(* The wall clock, a failed wait, or the deadline of the activity.         *)
JailFails(n) ==
  /\ pc[n] \in {"inWorker", "inBroker"}
  /\ Removed(n) /\ End(n, Retryable)
  /\ UNCHANGED <<worker, up, remote, crashes>>

Prints(n) ==
  /\ pc[n] = "inWorker"
  /\ \E w \in Words, x \in {"zero", "nonzero"}, c \in Cuts :
       /\ word' = [word EXCEPT ![n] = w]
       /\ exit' = [exit EXCEPT ![n] = x]
       /\ cut' = [cut EXCEPT ![n] = c]
  /\ Removed(n)

(* Mutation: the output of a worker that failed is used all the same.      *)
WorkerExitsIgnored(n) ==
  /\ Prints(n)
  /\ IF cut'[n] = "over" THEN End(n, Final) ELSE Goto(n, "broker")
  /\ UNCHANGED <<up, remote, crashes>>

WorkerExits(n) ==
  /\ Prints(n)
  /\ IF exit'[n] # "zero" THEN End(n, Retryable)
     ELSE IF cut'[n] = "over" THEN End(n, Final)
     ELSE Goto(n, "broker")
  /\ UNCHANGED <<up, remote, crashes>>

(* What the broker is given is one document of known words and nothing     *)
(* after it.  Whether the worker went on printing it cannot know.          *)
Valid(n) == cut[n] = "document" /\ word[n] \in WireVerdicts

(* A verdict only when the broker accepts and what is captured of its own  *)
(* output decodes, which no strict prefix of one re-encoded document does; *)
(* a rejection, a killed broker, a cut or oversize output is final.        *)
BrokerExits(n) ==
  /\ pc[n] = "inBroker"
  /\ Removed(n)
  /\ \/ Valid(n) /\ End(n, ParseVerdict(word[n]).v)
     \/ End(n, Final)
  /\ UNCHANGED <<worker, up, remote, crashes>>
----------------------------------------------------------------------------
(* Temporal: a retryable error is retried while attempts remain.           *)
Retry ==
  IF attempt < MaxAttempts
  THEN server' = "scheduled" /\ attempt' = attempt + 1 /\ UNCHANGED answer
  ELSE server' = "closed" /\ answer' = Failed /\ UNCHANGED attempt

Resolve(a) == server' = "closed" /\ answer' = a /\ UNCHANGED attempt

(* The answer reaches the server, which ignores one it no longer expects.  *)
Respond(n) ==
  /\ pc[n] = "answer"
  /\ Goto(n, "done")
  /\ IF server # "started" \/ n # attempt THEN UNCHANGED remote
     ELSE IF out[n] = Retryable THEN Retry
     ELSE Resolve(IF out[n] = Final THEN Failed ELSE out[n])
  /\ UNCHANGED <<jails, worker, up, crashes>>

(* Mutation: a timed-out attempt is scheduled again without being counted. *)
TimeoutUncounted ==
  /\ server = "started"
  /\ server' = "scheduled"
  /\ UNCHANGED <<pc, out, jails, worker, up, attempt, answer, crashes>>

(* StartToCloseTimeout: the attempt is counted, and goes on by itself.     *)
Timeout ==
  /\ server = "started"
  /\ Retry
  /\ UNCHANGED <<pc, out, jails, worker, up, crashes>>

Crash ==
  /\ up /\ crashes < MaxCrashes
  /\ up' = FALSE /\ crashes' = crashes + 1
  /\ pc' = [n \in Attempts |-> IF pc[n] \in {"off", "done"} THEN pc[n] ELSE "dead"]
  /\ UNCHANGED <<out, jails, worker, remote>>

(* reapLeakedJails, before the worker polls for activities.                *)
Boot ==
  /\ ~up /\ up' = TRUE
  /\ jails' = {}
  /\ UNCHANGED <<pc, out, worker, remote, crashes>>

Run(n) == \/ Launch(n) \/ JailFails(n) \/ WorkerExits(n) \/ BrokerExits(n)
          \/ Respond(n)

Next == \/ Dispatch \/ Timeout \/ Crash \/ Boot
        \/ \E n \in Attempts : Run(n)

Spec == Init /\ [][Next]_vars

(* The server's timer fires, a scheduled attempt is polled for, and a dead *)
(* orchestrator is restarted.  An attempt itself owes nothing.             *)
FairSpec == Spec /\ WF_vars(Timeout) /\ WF_vars(Dispatch) /\ WF_vars(Boot)
----------------------------------------------------------------------------
(* A verdict that reaches the workflow is the one word of what was         *)
(* captured in the attempt the server waited for, of a worker that exited  *)
(* cleanly, validated by that attempt's own broker: never of excess        *)
(* output, of a crash, or of an attempt given up on, however they overlap. *)
(* It is not claimed that the worker had nothing more to say: an output    *)
(* that stalls for the ten seconds of the drain just where a document ends *)
(* passes.  About runWorkerThroughBroker, activity.go:478-534.             *)
VerdictEarned ==
  answer \in Verdicts =>
    /\ pc[attempt] = "done" /\ exit[attempt] = "zero" /\ cut[attempt] = "document"
    /\ word[attempt] \in WireVerdicts
    /\ answer = ParseVerdict(word[attempt]).v

(* While the orchestrator is up, every jail that runs is the one jail of   *)
(* an attempt in progress: none outlives its attempt, its predecessor, or  *)
(* the process that started it.  About the deferred removal in runJailed   *)
(* and reapLeakedJails, jail.go:222-231 and 293-311.                       *)
JailsOwned ==
  up => \A j \in jails : j.runs => pc[j.of] \in {"inWorker", "inBroker"}

(* The workflow sees an answer in the end, although an attempt may hang:   *)
(* the walk over an artifact tree never waits for ever.  About the         *)
(* timeouts and retry policy of SubmissionWorkflow, workflow.go:60-71.     *)
Answered == <>(answer # Pending)

(* The inductive strengthening: an attempt has a verdict only when it read *)
(* a document, it ends once, and the server expects only the newest.       *)
Earned ==
  \A n \in Attempts :
    /\ pc[n] \in {"broker", "inBroker"} => exit[n] = "zero"
    /\ out[n] \in Verdicts => /\ exit[n] = "zero" /\ Valid(n)
                              /\ out[n] = ParseVerdict(word[n]).v
    /\ pc[n] \notin {"answer", "done", "dead"} => out[n] = Pending
    /\ pc[n] \in {"answer", "done"} => out[n] # Pending

Newest ==
  /\ \A n \in Attempts : n > attempt => pc[n] = "off"
  /\ server = "scheduled" => pc[attempt] = "off"
  /\ answer # Pending <=> server = "closed"
  /\ answer \in Verdicts => pc[attempt] = "done" /\ out[attempt] = answer

Down == ~up => \A n \in Attempts : pc[n] \in {"off", "done", "dead"}

IInv == TypeOK /\ Earned /\ Newest /\ Down /\ JailsOwned
=============================================================================
