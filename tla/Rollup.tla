------------------------------- MODULE Rollup -------------------------------
(***************************************************************************)
(* What an analysis promises, with no engine, queue or budget in sight:    *)
(* the verdict is exactly the most suspicious signal observed so far,      *)
(* floored to SUSPICIOUS as soon as anything went unanalysed, and the      *)
(* answer is fixed once it is delivered.  SubmissionWorkflow is shown to   *)
(* implement this.                                                         *)
(***************************************************************************)
EXTENDS Lattice

VARIABLES signal,      \* the worst verdict any evidence has carried
          incomplete,  \* something was not analysed
          verdict,     \* the answer
          delivered

vars == <<signal, incomplete, verdict, delivered>>

Init == /\ signal = Unknown
        /\ incomplete = FALSE
        /\ verdict = Unknown
        /\ delivered = FALSE

(* Evidence arrives, or a gap is discovered, or both at once.              *)
Observe(s, gap) ==
  /\ ~delivered
  /\ signal' = Join({signal, s})
  /\ incomplete' = (incomplete \/ gap)
  /\ verdict' = Floor(signal', incomplete')
  /\ UNCHANGED delivered

Deliver == /\ ~delivered
           /\ delivered' = TRUE
           /\ UNCHANGED <<signal, incomplete, verdict>>

Next == \/ \E s \in Verdicts, gap \in BOOLEAN : Observe(s, gap)
        \/ Deliver

Spec == Init /\ [][Next]_vars
============================================================================
