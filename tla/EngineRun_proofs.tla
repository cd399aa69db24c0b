-------------------------- MODULE EngineRun_proofs --------------------------
(* What holds of an engine activity for any number of attempts, crashes    *)
(* and verdict words.                                                      *)
EXTENDS EngineRun, TLAPS

(* The marks of an attempt or of the future are no verdicts.               *)
LEMMA Marks ==
  /\ Pending \notin Verdicts /\ Failed \notin Verdicts /\ Pending # Failed
  /\ Retryable \notin Verdicts /\ Final \notin Verdicts
  /\ Pending # Retryable /\ Pending # Final /\ Retryable # Final
  BY EngineRunConstants

(* An attempt number is a number up to the maximum.                        *)
LEMMA Numbered == 1 \in Attempts /\ \A n \in Attempts : n \in Int
  BY EngineRunConstants DEF Attempts

(* A word the broker accepts is a verdict.                                 *)
LEMMA WordVerdict == \A w \in WireVerdicts : ParseVerdict(w).v \in Verdicts
  BY DEF WireVerdicts, ParseVerdict, Verdicts, Benign, Unknown, Suspicious, Malicious

(* The initial state is well-typed.                                        *)
LEMMA TypeInit == Init => TypeOK
  BY EngineRunConstants, Numbered DEF Init, TypeOK, Stages, Cuts

(* Temporal's retry stays within the policy.                               *)
LEMMA RetryType ==
  TypeOK /\ Retry => /\ server' \in {"scheduled", "closed"} /\ attempt' \in Attempts
                     /\ answer' \in Verdicts \cup {Pending, Failed}
  BY EngineRunConstants DEF TypeOK, Retry, Attempts

(* Every step keeps every variable's type.                                 *)
LEMMA TypeStep == TypeOK /\ [Next]_vars => TypeOK'
<1> SUFFICES ASSUME TypeOK, [Next]_vars PROVE TypeOK'
  OBVIOUS
<1> USE DEF TypeOK, Goto, End, Stages, Errors
<1>1. CASE Dispatch
  BY <1>1 DEF Dispatch, worker
<1>2. CASE Timeout
  <2>1. /\ server' \in {"scheduled", "closed"} /\ attempt' \in Attempts
        /\ answer' \in Verdicts \cup {Pending, Failed}
    BY <1>2, RetryType DEF Timeout
  <2> QED
    BY <1>2, <2>1 DEF Timeout, worker
<1>3. CASE Crash
  <2>1. pc' \in [Attempts -> Stages]
    BY <1>3 DEF Crash
  <2>2. crashes' \in 0..MaxCrashes
    BY <1>3, EngineRunConstants DEF Crash
  <2> QED
    BY <1>3, <2>1, <2>2 DEF Crash, worker, remote
<1>4. CASE Boot
  BY <1>4 DEF Boot, worker, remote
<1>5. ASSUME NEW n \in Attempts, Run(n) PROVE TypeOK'
  <2>1. CASE Launch(n)
    <3>1. jails' \in SUBSET Jail
      <4>1. /\ [of |-> n, runs |-> TRUE] \in Jail
            /\ [of |-> n, runs |-> FALSE] \in Jail
        BY DEF Jail
      <4>2. jails' \in {jails, jails \cup {[of |-> n, runs |-> TRUE]},
                       jails \cup {[of |-> n, runs |-> FALSE]}}
        BY <2>1 DEF Launch
      <4> QED
        BY <4>1, <4>2
    <3>2. pc' \in [Attempts -> Stages] /\ out' \in [Attempts -> Verdicts \cup Errors \cup {Pending}]
      BY <2>1 DEF Launch
    <3> QED
      BY <2>1, <3>1, <3>2 DEF Launch, worker, remote
  <2>2. CASE JailFails(n)
    BY <2>2 DEF JailFails, Removed, worker, remote
  <2>3. CASE WorkerExits(n)
    BY <2>3 DEF WorkerExits, Prints, Removed, remote
  <2>4. CASE BrokerExits(n)
    BY <2>4, WordVerdict DEF BrokerExits, Valid, Removed, worker, remote
  <2>5. CASE Respond(n)
    <3>1. /\ server' \in {"scheduled", "started", "closed"} /\ attempt' \in Attempts
          /\ answer' \in Verdicts \cup {Pending, Failed}
      BY <2>5, RetryType DEF Respond, remote, Resolve
    <3> QED
      BY <2>5, <3>1 DEF Respond, worker
  <2> QED
    BY <1>5, <2>1, <2>2, <2>3, <2>4, <2>5 DEF Run
<1>6. CASE UNCHANGED vars
  BY <1>6 DEF vars, worker, remote
<1> QED
  BY <1>1, <1>2, <1>3, <1>4, <1>5, <1>6 DEF Next
----------------------------------------------------------------------------
(* What each attempt has earned: a verdict only from one document.         *)
LEMMA EarnedStep == TypeOK /\ Earned /\ Newest /\ [Next]_vars => Earned'
<1> DEFINE Fine(p, o, w, x, c) ==
             /\ p \in {"broker", "inBroker"} => x = "zero"
             /\ o \in Verdicts => /\ x = "zero" /\ c = "document" /\ w \in WireVerdicts
                                 /\ o = ParseVerdict(w).v
             /\ p \notin {"answer", "done", "dead"} => o = Pending
             /\ p \in {"answer", "done"} => o # Pending
           Now(n)  == Fine(pc[n], out[n], word[n], exit[n], cut[n])
           Then(n) == Fine(pc'[n], out'[n], word'[n], exit'[n], cut'[n])
<1> SUFFICES ASSUME TypeOK, Earned, Newest, [Next]_vars
             PROVE  \A n \in Attempts : Then(n)
  BY DEF Earned, Valid
<1>n. \A n \in Attempts : Now(n)
  BY DEF Earned, Valid
<1>1. CASE Dispatch
  BY <1>1, <1>n DEF Dispatch, worker, Goto, TypeOK, Newest
<1>2. CASE Timeout \/ Boot \/ UNCHANGED vars
  BY <1>2, <1>n DEF Timeout, Boot, vars, worker
<1>3. CASE Crash
  BY <1>3, <1>n DEF Crash, worker, TypeOK
<1>5. ASSUME NEW n \in Attempts, Run(n) PROVE \A m \in Attempts : Then(m)
  <2>o. \A m \in Attempts \ {n} :
          /\ pc'[m] = pc[m] /\ out'[m] = out[m] /\ word'[m] = word[m]
          /\ exit'[m] = exit[m] /\ cut'[m] = cut[m]
    BY <1>5 DEF Run, Launch, JailFails, WorkerExits, Prints, BrokerExits, Respond,
                Goto, End, worker, TypeOK
  <2>n. Now(n)
    BY <1>n
  <2>3. ASSUME WorkerExits(n) PROVE Then(n)
    <3>1. \/ out'[n] \in {Retryable, Final} /\ pc'[n] = "answer"
          \/ /\ out'[n] = out[n] /\ pc[n] = "inWorker" /\ pc'[n] = "broker"
             /\ exit'[n] = "zero"
      BY <2>3 DEF WorkerExits, Prints, End, Goto, TypeOK
    <3>2. CASE out'[n] \in {Retryable, Final} /\ pc'[n] = "answer"
      BY <3>2, Marks
    <3>3. CASE /\ out'[n] = out[n] /\ pc[n] = "inWorker" /\ pc'[n] = "broker"
               /\ exit'[n] = "zero"
      BY <2>n, <3>3, Marks
    <3> QED
      BY <3>1, <3>2, <3>3
  <2>w. ASSUME UNCHANGED worker PROVE Then(n)
    <3>1. word'[n] = word[n] /\ exit'[n] = exit[n] /\ cut'[n] = cut[n]
      BY <2>w DEF worker
    <3>2. ASSUME out'[n] = Retryable \/ out'[n] = Final, pc'[n] = "answer"
          PROVE  Then(n)
      BY <3>2, Marks
    <3>3. CASE JailFails(n)
      <4>1. out'[n] = Retryable /\ pc'[n] = "answer"
        BY <3>3 DEF JailFails, End, TypeOK
      <4> QED
        BY <3>2, <4>1
    <3>4. CASE Launch(n)
      <4>1. \/ out'[n] = Retryable /\ pc'[n] = "answer"
            \/ /\ out'[n] = out[n]
               /\ \/ pc[n] = "worker" /\ pc'[n] = "inWorker"
                  \/ pc[n] = "broker" /\ pc'[n] = "inBroker"
        BY <3>4 DEF Launch, End, Goto, TypeOK
      <4>2. CASE out'[n] = Retryable /\ pc'[n] = "answer"
        BY <3>2, <4>2
      <4>3. CASE out'[n] = out[n] /\ pc[n] = "worker" /\ pc'[n] = "inWorker"
        BY <2>n, <3>1, <4>3
      <4>4. CASE out'[n] = out[n] /\ pc[n] = "broker" /\ pc'[n] = "inBroker"
        BY <2>n, <3>1, <4>4
      <4> QED
        BY <4>1, <4>2, <4>3, <4>4
    <3>5. CASE Respond(n)
      <4>1. pc[n] = "answer" /\ pc'[n] = "done" /\ out'[n] = out[n]
        BY <3>5 DEF Respond, Goto, TypeOK
      <4> QED
        BY <2>n, <3>1, <4>1
    <3>6. CASE BrokerExits(n) /\ End(n, Final)
      <4>1. out'[n] = Final /\ pc'[n] = "answer"
        BY <3>6 DEF End, TypeOK
      <4> QED
        BY <3>2, <4>1
    <3>7. CASE BrokerExits(n) /\ Valid(n) /\ End(n, ParseVerdict(word[n]).v)
      <4>1. /\ out'[n] = ParseVerdict(word[n]).v /\ pc'[n] = "answer"
            /\ pc[n] = "inBroker"
        BY <3>7 DEF End, BrokerExits, TypeOK
      <4>2. cut[n] = "document" /\ word[n] \in WireVerdicts
        BY <3>7 DEF Valid
      <4>3. exit[n] = "zero"
        BY <2>n, <4>1
      <4>4. out'[n] \in Verdicts
        BY <4>1, <4>2, WordVerdict
      <4> QED
        BY <3>1, <4>1, <4>2, <4>3, <4>4, Marks
    <3> QED
      <4>1. CASE WorkerExits(n)
        BY <2>3, <4>1
      <4>2. CASE BrokerExits(n)
        BY <3>6, <3>7, <4>2 DEF BrokerExits
      <4> QED
        BY <1>5, <3>3, <3>4, <3>5, <4>1, <4>2 DEF Run
  <2>6. Then(n)
    BY <1>5, <2>w, <2>3 DEF Run, Launch, JailFails, BrokerExits, Respond
  <2> HIDE DEF Fine
  <2> QED
    BY <1>n, <2>o, <2>6
<1> QED
  BY <1>1, <1>2, <1>3, <1>5 DEF Next

(* The server waits only for the newest attempt, and answers once.         *)
LEMMA NewestStep == TypeOK /\ Earned /\ Newest /\ [Next]_vars => Newest'
<1> SUFFICES ASSUME TypeOK, Earned, Newest, [Next]_vars PROVE Newest'
  OBVIOUS
<1> USE Marks, Numbered DEF TypeOK, Newest, Goto, End, Stages
<1>r. ASSUME Retry, server = "started", pc' = pc \/ \E n \in Attempts : pc' = [pc EXCEPT ![n] = "done"] /\ n <= attempt,
             out' = out
      PROVE  Newest'
  <2>1. attempt' >= attempt /\ attempt' \in Attempts
    BY <1>r, EngineRunConstants DEF Retry, Attempts
  <2>2. \A n \in Attempts : n > attempt' => pc'[n] = "off"
    BY <1>r, <2>1
  <2>3. server' = "scheduled" => pc'[attempt'] = "off"
    BY <1>r, <2>1 DEF Retry
  <2>4. (answer' # Pending <=> server' = "closed") /\ answer' \notin Verdicts
    BY <1>r DEF Retry
  <2> QED
    BY <2>2, <2>3, <2>4
<1>1. CASE Dispatch
  BY <1>1 DEF Dispatch
<1>2. CASE Timeout
  BY <1>2, <1>r DEF Timeout
<1>3. CASE Crash
  BY <1>3 DEF Crash, remote
<1>4. CASE Boot \/ UNCHANGED vars
  BY <1>4 DEF Boot, vars, remote
<1>5. ASSUME NEW n \in Attempts, Run(n) PROVE Newest'
  <2>b. n <= attempt
    BY <1>5 DEF Run, Launch, JailFails, WorkerExits, Prints, BrokerExits, Respond
  <2>1. CASE ~Respond(n)
    <3>1. UNCHANGED remote /\ pc[n] \in {"worker", "broker", "inWorker", "inBroker"}
      BY <1>5, <2>1 DEF Run, Launch, JailFails, WorkerExits, Prints, BrokerExits
    <3>2. \A m \in Attempts : m # n => pc'[m] = pc[m] /\ out'[m] = out[m]
      BY <1>5, <2>1 DEF Run, Launch, JailFails, WorkerExits, Prints, BrokerExits
    <3>3. server = "scheduled" => n # attempt
      BY <3>1
    <3>4. answer \in Verdicts => n # attempt
      BY <3>1
    <3> QED
      BY <2>b, <3>1, <3>2, <3>3, <3>4 DEF remote
  <2>2. CASE Respond(n)
    <3>1. CASE server # "started" \/ n # attempt
      <4>1. UNCHANGED remote /\ out' = out /\ pc[n] = "answer"
        BY <2>2, <3>1 DEF Respond
      <4>2. \A m \in Attempts : pc'[m] = IF m = n THEN "done" ELSE pc[m]
        BY <2>2 DEF Respond
      <4>3. server = "scheduled" => n # attempt
        BY <4>1
      <4>4. \A m \in Attempts : m > attempt => m # n
        BY <2>b
      <4>5. \A m \in Attempts : m > attempt' => pc'[m] = "off"
        BY <4>1, <4>2, <4>4 DEF remote
      <4>6. server' = "scheduled" => pc'[attempt'] = "off"
        BY <4>1, <4>2, <4>3 DEF remote
      <4>7. answer' \in Verdicts => pc'[attempt'] = "done" /\ out'[attempt'] = answer'
        BY <4>1, <4>2 DEF remote
      <4>8. answer' # Pending <=> server' = "closed"
        BY <4>1 DEF remote
      <4> QED
        BY <4>5, <4>6, <4>7, <4>8
    <3>2. CASE server = "started" /\ n = attempt /\ out[n] = Retryable
      <4>1. Retry /\ out' = out /\ pc' = [pc EXCEPT ![n] = "done"] /\ n <= attempt
        BY <2>2, <2>b, <3>2 DEF Respond
      <4>2. server = "started"
        BY <3>2
      <4> QED
        BY <1>r, <4>1, <4>2
    <3>3. CASE server = "started" /\ n = attempt /\ out[n] # Retryable
      <4>1. out[n] # Pending
        BY <2>2 DEF Respond, Earned
      <4>2. /\ server' = "closed" /\ attempt' = attempt /\ out' = out
            /\ answer' = (IF out[n] = Final THEN Failed ELSE out[n])
        BY <2>2, <3>3 DEF Respond, Resolve
      <4>3. \A m \in Attempts : pc'[m] = IF m = n THEN "done" ELSE pc[m]
        BY <2>2 DEF Respond
      <4>4. answer' # Pending
        BY <4>1, <4>2
      <4>5. answer' \in Verdicts => pc'[attempt'] = "done" /\ out'[attempt'] = answer'
        BY <3>3, <4>2, <4>3
      <4>6. \A m \in Attempts : m > attempt' => pc'[m] = "off"
        <5>1. \A m \in Attempts : m > attempt => m # n
          BY <3>3
        <5> QED
          BY <4>2, <4>3, <5>1
      <4> QED
        BY <4>2, <4>4, <4>5, <4>6
    <3> QED
      BY <3>1, <3>2, <3>3
  <2> QED
    BY <2>1, <2>2
<1> QED
  BY <1>1, <1>2, <1>3, <1>4, <1>5 DEF Next

(* Between a crash and the next boot no attempt makes a step.              *)
LEMMA DownStep == TypeOK /\ Down /\ [Next]_vars => Down'
<1> SUFFICES ASSUME TypeOK, Down, [Next]_vars, ~up'
             PROVE  \A n \in Attempts : pc'[n] \in {"off", "done", "dead"}
  BY DEF Down
<1> USE DEF TypeOK, Down, Goto
<1>1. CASE Dispatch
  BY <1>1 DEF Dispatch
<1>2. CASE Timeout \/ Boot \/ UNCHANGED vars
  BY <1>2 DEF Timeout, Boot, vars
<1>3. CASE Crash
  BY <1>3 DEF Crash
<1>4. CASE \E n \in Attempts : Run(n)
  BY <1>4 DEF Run, Launch, JailFails, WorkerExits, Prints, BrokerExits, Respond
<1> QED
  BY <1>1, <1>2, <1>3, <1>4 DEF Next

(* A jail goes when its attempt leaves it, and the boot takes the rest.    *)
LEMMA JailsStep == TypeOK /\ Newest /\ JailsOwned /\ Down /\ [Next]_vars => JailsOwned'
<1> SUFFICES ASSUME TypeOK, Newest, JailsOwned, Down, [Next]_vars, up',
                    NEW j \in jails', j.runs
             PROVE  pc'[j.of] \in {"inWorker", "inBroker"}
  BY DEF JailsOwned
<1> DEFINE In(n) == pc[n] \in {"inWorker", "inBroker"}
<1>j. up /\ j \in jails => j \in Jail /\ In(j.of)
  BY DEF JailsOwned, TypeOK
<1> USE DEF TypeOK, Goto, End
<1>1. CASE Dispatch
  <2>1. up /\ j \in jails
    BY <1>1 DEF Dispatch
  <2>2. j.of # attempt
    BY <1>1, <1>j, <2>1 DEF Dispatch, Newest
  <2> QED
    BY <1>1, <1>j, <2>1, <2>2 DEF Dispatch, Jail
<1>2. CASE Timeout \/ UNCHANGED vars
  BY <1>2, <1>j DEF Timeout, vars
<1>3. CASE Crash \/ Boot
  BY <1>3 DEF Crash, Boot
<1>4. ASSUME NEW n \in Attempts, Run(n)
      PROVE  pc'[j.of] \in {"inWorker", "inBroker"}
  <2>1. up' = up
    BY <1>4 DEF Run, Launch, JailFails, WorkerExits, Prints, BrokerExits, Respond
  <2>2. CASE Launch(n)
    <3>1. CASE j \in jails
      BY <1>j, <2>1, <2>2, <3>1 DEF Launch, Jail
    <3>2. CASE j \notin jails
      <4>1. j = [of |-> n, runs |-> TRUE] /\ pc'[n] \in {"inWorker", "inBroker"}
        BY <2>2, <3>2 DEF Launch
      <4> QED
        BY <4>1
    <3> QED
      BY <3>1, <3>2
  <2>3. CASE Respond(n)
    BY <1>j, <2>1, <2>3 DEF Respond, Jail
  <2>4. CASE ~Launch(n) /\ ~Respond(n)
    <3>1. jails' = jails \ {[of |-> n, runs |-> TRUE]}
      BY <1>4, <2>4 DEF Run, JailFails, WorkerExits, Prints, BrokerExits, Removed
    <3>2. \A m \in Attempts : m # n => pc'[m] = pc[m]
      BY <1>4, <2>4 DEF Run, JailFails, WorkerExits, Prints, BrokerExits
    <3>3. j \in jails /\ j \in Jail
      BY <3>1
    <3>4. j.of # n
      BY <3>1, <3>3 DEF Jail
    <3> QED
      BY <1>j, <2>1, <3>2, <3>3, <3>4 DEF Jail
  <2> QED
    BY <2>2, <2>3, <2>4
<1> QED
  BY <1>1, <1>2, <1>3, <1>4 DEF Next

(* The strengthened invariant holds for ever.                              *)
LEMMA InvAlways == Spec => []IInv
<1>1. Init => IInv
  <2>1. Init => Earned
    BY Marks DEF Init, Earned
  <2>2. Init => Newest /\ Down /\ JailsOwned
    BY Marks, Numbered DEF Init, Newest, Down, JailsOwned
  <2> QED
    BY <2>1, <2>2, TypeInit DEF IInv
<1>2. IInv /\ [Next]_vars => IInv'
  BY TypeStep, EarnedStep, NewestStep, DownStep, JailsStep DEF IInv
<1> QED
  BY <1>1, <1>2, PTL DEF Spec

(* Every variable keeps its type.                                          *)
THEOREM TypeCorrect == Spec => []TypeOK
<1>1. IInv => TypeOK
  BY DEF IInv
<1> QED
  BY <1>1, InvAlways, PTL

(* A verdict that reaches the workflow is the one word captured in the     *)
(* attempt it waited for, whatever other attempts say and however late.    *)
THEOREM VerdictsEarned == Spec => []VerdictEarned
<1>1. IInv => VerdictEarned
  BY DEF IInv, Earned, Newest, TypeOK, VerdictEarned, Valid
<1> QED
  BY <1>1, InvAlways, PTL

(* No jail outlives its attempt but by a crash, and then only to the boot. *)
THEOREM NoJailLeft == Spec => []JailsOwned
<1>1. IInv => JailsOwned
  BY DEF IInv
<1> QED
  BY <1>1, InvAlways, PTL

----------------------------------------------------------------------------
(* What the server still has to spend: an attempt costs it two steps, to   *)
(* hand it out and to hear of it or give it up.                            *)
Budget == IF server = "closed" THEN 0
          ELSE 2 * (MaxAttempts - attempt) + (IF server = "scheduled" THEN 2 ELSE 1)

LEMMA BudgetType == TypeOK => Budget \in 0..(2 * MaxAttempts) /\ (Budget = 0 <=> server = "closed")
  BY EngineRunConstants DEF TypeOK, Budget, Attempts

(* A retry costs an attempt, an answer all that is left.                   *)
LEMMA Spends ==
  ASSUME TypeOK, server = "started", Retry \/ \E a : Resolve(a)
  PROVE  Budget' < Budget
<1>1. attempt \in 1..MaxAttempts /\ MaxAttempts \in Nat
  BY EngineRunConstants DEF TypeOK, Attempts
<1>2. Budget = 2 * (MaxAttempts - attempt) + 1
  BY DEF Budget
<1>3. CASE server' = "closed"
  BY <1>1, <1>2, <1>3 DEF Budget
<1>4. CASE server' = "scheduled" /\ attempt' = attempt + 1
  <2>1. Budget' = 2 * (MaxAttempts - (attempt + 1)) + 2
    BY <1>4 DEF Budget
  <2> QED
    BY <1>1, <1>2, <2>1
<1> QED
  BY <1>3, <1>4 DEF Retry, Resolve

LEMMA BudgetStep == TypeOK /\ [Next]_vars => UNCHANGED remote \/ Budget' < Budget
<1> SUFFICES ASSUME TypeOK, [Next]_vars PROVE UNCHANGED remote \/ Budget' < Budget
  OBVIOUS
<1>1. CASE Dispatch
  <2>1. server = "scheduled" /\ server' = "started" /\ attempt' = attempt
    BY <1>1 DEF Dispatch
  <2>2. Budget = 2 * (MaxAttempts - attempt) + 2 /\ Budget' = 2 * (MaxAttempts - attempt) + 1
    BY <2>1 DEF Budget
  <2>3. attempt \in Int /\ MaxAttempts \in Int
    BY EngineRunConstants DEF TypeOK, Attempts
  <2> QED
    BY <2>2, <2>3
<1>2. CASE Timeout
  BY <1>2, Spends DEF Timeout
<1>3. CASE Crash \/ Boot \/ UNCHANGED vars
  BY <1>3 DEF Crash, Boot, vars
<1>4. ASSUME NEW n \in Attempts, Run(n) PROVE UNCHANGED remote \/ Budget' < Budget
  <2>1. CASE Respond(n)
    BY <2>1, Spends DEF Respond
  <2>2. CASE ~Respond(n)
    BY <1>4, <2>2 DEF Run, Launch, JailFails, WorkerExits, BrokerExits
  <2> QED
    BY <2>1, <2>2
<1> QED
  BY <1>1, <1>2, <1>3, <1>4 DEF Next

(* The server never waits for ever by its own doing: every step it makes   *)
(* costs it one of at most two per attempt, crashes and late answers cost  *)
(* it none, and it has an answer exactly when it has nothing left.  What   *)
(* is missing to Answered is that it makes those steps.                    *)
THEOREM AttemptsRunOut ==
  Spec => /\ [](Budget \in 0..(2 * MaxAttempts) /\ (Budget = 0 <=> answer # Pending))
          /\ [][UNCHANGED remote \/ Budget' < Budget]_vars
<1>1. IInv => Budget \in 0..(2 * MaxAttempts) /\ (Budget = 0 <=> answer # Pending)
  BY BudgetType DEF IInv, Newest
<1>2. IInv /\ [Next]_vars => [UNCHANGED remote \/ Budget' < Budget]_vars
  BY BudgetStep DEF IInv
<1> QED
  BY <1>1, <1>2, InvAlways, PTL DEF Spec
----------------------------------------------------------------------------
(* The stages of an attempt, in the order it goes through them.            *)
Stage(s) == IF s = "off" THEN 0 ELSE IF s = "worker" THEN 1 ELSE IF s = "inWorker" THEN 2
            ELSE IF s = "broker" THEN 3 ELSE IF s = "inBroker" THEN 4
            ELSE IF s = "answer" THEN 5 ELSE 6

(* No attempt is run twice, nor a stage of it: what was killed, or given   *)
(* up by the server, is never taken up again, and what an attempt has read *)
(* and answered changes only with its own next stage.                      *)
THEOREM AttemptsGoForward ==
  Spec => [][\A n \in Attempts :
               /\ pc'[n] # pc[n] => Stage(pc'[n]) > Stage(pc[n])
               /\ pc'[n] = pc[n] => UNCHANGED <<out[n], word[n], exit[n], cut[n]>>]_vars
<1> DEFINE Forward(n) ==
             /\ pc'[n] # pc[n] => Stage(pc'[n]) > Stage(pc[n])
             /\ pc'[n] = pc[n] => UNCHANGED <<out[n], word[n], exit[n], cut[n]>>
<1>1. IInv /\ [Next]_vars => \A n \in Attempts : Forward(n)
  <2> SUFFICES ASSUME IInv, [Next]_vars, NEW m \in Attempts PROVE Forward(m)
    OBVIOUS
  <2> USE DEF TypeOK, Goto, End
  <2>t. TypeOK /\ Newest
    BY DEF IInv
  <2>1. CASE Dispatch
    <3>1. pc[attempt] = "off"
      BY <2>t, <2>1 DEF Dispatch, Newest
    <3> QED
      BY <2>t, <2>1, <3>1 DEF Dispatch, Stage, worker
  <2>2. CASE Timeout \/ Boot \/ UNCHANGED vars
    BY <2>2 DEF Timeout, Boot, vars, worker
  <2>3. CASE Crash
    BY <2>t, <2>3 DEF Crash, Stage, Stages, worker
  <2>4. ASSUME NEW n \in Attempts, Run(n) PROVE Forward(m)
    <3>1. CASE m # n
      BY <2>t, <2>4, <3>1 DEF Run, Launch, JailFails, WorkerExits, Prints, BrokerExits, Respond, worker
    <3>2. Stage(pc'[n]) > Stage(pc[n]) /\ pc'[n] # pc[n]
      <4>1. CASE Launch(n)
        BY <2>t, <4>1 DEF Launch, Stage
      <4>2. CASE JailFails(n)
        BY <2>t, <4>2 DEF JailFails, Stage
      <4>3. CASE WorkerExits(n)
        BY <2>t, <4>3 DEF WorkerExits, Prints, Stage
      <4>4. CASE BrokerExits(n)
        BY <2>t, <4>4 DEF BrokerExits, Stage
      <4>5. CASE Respond(n)
        BY <2>t, <4>5 DEF Respond, Stage
      <4> QED
        BY <2>4, <4>1, <4>2, <4>3, <4>4, <4>5 DEF Run
    <3> QED
      BY <3>1, <3>2
  <2> QED
    BY <2>1, <2>2, <2>3, <2>4 DEF Next
<1> QED
  BY <1>1, InvAlways, PTL DEF Spec
=============================================================================
