------------------------------- MODULE Future -------------------------------
(***************************************************************************)
(* What a workflow sees of an activity: one answer, a verdict or a         *)
(* failure, that never changes.  This is Temporal's promise, which the     *)
(* walk of Submission is shown to use each engine by.                      *)
(***************************************************************************)
EXTENDS Lattice

CONSTANTS Pending, Failed

VARIABLE answer

Init == answer = Pending

Resolve == /\ answer = Pending
           /\ answer' \in Verdicts \cup {Failed}

Spec == Init /\ [][Resolve]_answer
=============================================================================
