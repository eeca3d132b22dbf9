--------------------------- MODULE ResultsLedger ---------------------------
(***************************************************************************)
(* What results.json promises to whoever reruns a suite with --resume: a   *)
(* list of rows that only grows, by the rows of one (task, row) key at a    *)
(* time, and never drops a row unless the user starts over without          *)
(* --resume.  SuiteRunner is shown to implement this specification.         *)
(***************************************************************************)
EXTENDS Naturals, Sequences

CONSTANTS Keys          \* the (task id, row name) pairs of the suite

VARIABLES ledger,       \* the rows the file holds, or held before it was torn
          readable,     \* FALSE while the file is truncated but not rewritten
          discarding    \* a run without --resume has started and not yet written

ledgerVars == <<ledger, readable, discarding>>

Entries == [key : Keys, kind : {"result", "failure"}]

KeysIn(rows) == {rows[i].key : i \in 1..Len(rows)}

\* The rows one rewrite of the file may add to the rows in base: none; the
\* outcome of a new key; the outcome of a new key and the failure of writing
\* it; or the failure of the key that was written last.
Additions(base) ==
  {<<>>}
  \cup {<<e>> : e \in {x \in Entries : x.key \notin KeysIn(base)}}
  \cup {<<[key |-> k, kind |-> "result"], [key |-> k, kind |-> "failure"]>> :
          k \in Keys \ KeysIn(base)}
  \cup {<<[key |-> e.key, kind |-> "failure"]>> :
          e \in {base[i] : i \in {j \in 1..Len(base) : /\ j = Len(base)
                                                     /\ base[j].kind = "result"}}}

LedgerInit == ledger = <<>> /\ readable = TRUE /\ discarding = FALSE

\* A run that keeps the file's rows needs a file it can read.
StartResumed == /\ readable = TRUE
                /\ discarding' = FALSE
                /\ UNCHANGED <<ledger, readable>>

StartFresh == discarding' = TRUE /\ UNCHANGED <<ledger, readable>>

Truncate == readable' = FALSE /\ UNCHANGED <<ledger, discarding>>

Rewrite ==
  LET base == IF discarding THEN <<>> ELSE ledger
  IN /\ \E new \in Additions(base) : ledger' = base \o new
     /\ readable' = TRUE
     /\ discarding' = FALSE

LedgerNext == StartResumed \/ StartFresh \/ Truncate \/ Rewrite

LedgerSpec == LedgerInit /\ [][LedgerNext]_ledgerVars
=============================================================================
