---------------------------- MODULE MCSubmission ----------------------------
(* Small instances of SubmissionWorkflow for TLC.                          *)
EXTENDS Submission

F(v, c, n) == [verdict |-> v, conf |-> c, size |-> n]
B(v, fs, i) == [verdict |-> v, findings |-> fs, incomplete |-> i]

(* Reports that differ in every way fold tells apart: clean; informational *)
(* and large; a malicious finding under a milder rollup, after a large one *)
(* that may not fit; a rollup with no finding; a partial report.           *)
SignalBodies ==
  {B(Benign, <<>>, FALSE),
   B(Unknown, <<F(Unknown, ConfLow, 2)>>, FALSE),
   B(Unknown, <<F(Unknown, ConfLow, 2), F(Malicious, ConfHigh, 1)>>, FALSE),
   B(Malicious, <<>>, FALSE),
   B(Unknown, <<F(Suspicious, ConfMedium, 1)>>, TRUE)}

(* For the budgets of the walk: nothing to report, or one finding.         *)
QuietBodies ==
  {B(Unknown, <<>>, FALSE), B(Suspicious, <<F(Suspicious, ConfMedium, 1)>>, FALSE)}
============================================================================
