----------------------------- MODULE MCTaskRow -----------------------------
(* One row, run twice in one directory.                                     *)
EXTENDS TaskRow
=============================================================================
