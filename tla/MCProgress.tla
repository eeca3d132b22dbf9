----------------------------- MODULE MCProgress -----------------------------
(* The suites of MCSuiteRunner with the progress page beside them.           *)
EXTENDS MCSuiteRunner, Progress
=============================================================================
