------------------------------ MODULE ProxyLog ------------------------------
(***************************************************************************)
(* The request log between the LiteLLM proxy and the runner                 *)
(* (fortbench/litellm_proxy.py, assert_local_stage_healthy in core.py).     *)
(*                                                                         *)
(* The proxy's callback appends a request_start record before it calls the  *)
(* model and a success or failure record afterwards.  For every stage the   *)
(* runner takes the time and the size of the log, runs the agent, waits     *)
(* until the log is quiet, reads it from that offset, keeps the records of  *)
(* requests begun since, and truncates the file.  No lock spans these       *)
(* steps: the proxy may write between any two of them, and a record that was *)
(* cut short, or is read while it is written, is a fragment to the reader.   *)
(*                                                                         *)
(* Time is the number of traces begun, which is all the filter tells apart. *)
(***************************************************************************)
EXTENDS Naturals, Sequences, FiniteSets

CONSTANTS
  Requests,   \* the requests agents make, over all stages
  MaxStages,  \* bound: stages run one after the other
  MaxLost,    \* bound: records that cannot be written
  Faults      \* which of "stray" (a process outlives its agent and goes on making
              \* requests) and "write" (the callback cannot write a record) happen

ASSUME BoundAssumption == MaxStages \in Nat /\ MaxLost \in Nat /\ Faults \subseteq {"stray", "write"}

VARIABLES
  pc,       \* the runner: "idle", "snapshot", "agent", "drain", "read",
            \* "truncate", "judge", "end" or "raised"
  stage,    \* number of traces begun
  offset,   \* ProxyLogCursor.offset, in records
  split,    \* the record the offset falls into, if it does: its request, and
            \* the state in which the request was writing it
  log,      \* the log file
  req,      \* req[r]: where the request is
  recv,     \* recv[r]: when LiteLLM received it, its start_time
  stamp,    \* stamp[r]: the time in its request_start record
  drained,  \* drained_cleanly of the current collection
  summary,  \* what the collection of the current stage counted
  leftover, \* the requests that were open when the current trace began
  stray,    \* the requests received while no agent was running
  lost,     \* the records that were not written whole
  torn,     \* fragments were written since the snapshot, before the log was read
  inFlight  \* the requests that were open when the log was read

runner == <<pc, stage, offset, split, drained, summary, leftover, inFlight>>
faulty == <<stray, lost, torn>>
proxy  == <<req, recv, stamp, stray, lost>>
vars   == <<runner, proxy, torn, log>>

RequestState == {"new", "received", "stamped", "upstream", "finished", "killed"}
Records      == [type : {"request_start", "finish", "fragment"}, id : Requests, began : Nat]
NoSummary    == [starts |-> {}, finishes |-> {}, foreignStarts |-> 0,
                 foreignFinishes |-> 0, errors |-> 0]

Open == {r \in Requests : req[r] \in {"received", "stamped", "upstream"}}

Init ==
  /\ pc = "idle" /\ stage = 0 /\ offset = 0 /\ split = {} /\ log = <<>>
  /\ req = [r \in Requests |-> "new"]
  /\ recv = [r \in Requests |-> 0] /\ stamp = [r \in Requests |-> 0]
  /\ drained = FALSE /\ summary = NoSummary /\ leftover = {} /\ inFlight = {}
  /\ stray = {} /\ lost = {} /\ torn = FALSE

-----------------------------------------------------------------------------
(* The proxy.                                                                *)

Receive(r) ==
  /\ req[r] = "new"
  /\ \/ pc = "agent" /\ stray' = stray
     \/ /\ "stray" \in Faults /\ stage > 0 /\ pc \notin {"agent", "end", "raised"}
        /\ stray' = stray \cup {r}
  /\ req' = [req EXCEPT ![r] = "received"] /\ recv' = [recv EXCEPT ![r] = stage]
  /\ UNCHANGED <<runner, stamp, lost, torn, log>>

\* _build_request_start takes its own time before _write takes the lock.
Stamp(r) ==
  /\ req[r] = "received"
  /\ req' = [req EXCEPT ![r] = "stamped"] /\ stamp' = [stamp EXCEPT ![r] = stage]
  /\ UNCHANGED <<runner, recv, faulty, log>>

\* What is written next of a request, and when; a finish record carries LiteLLM's
\* start_time, not the stamp above.
Record(r) == IF req[r] = "stamped"
             THEN [type |-> "request_start", id |-> r, began |-> stamp[r]]
             ELSE [type |-> "finish", id |-> r, began |-> recv[r]]

Writers == {r \in Requests : req[r] \in {"stamped", "upstream"}}

\* A record that was being written when the offset was taken; its writer holds the
\* lock until the rest is written.
Pending == {x.id : x \in {y \in split : req[y.id] = y.state}}

Advance(r) == /\ r \in Writers /\ Pending \subseteq {r}
              /\ req' = [req EXCEPT ![r] = IF req[r] = "stamped" THEN "upstream" ELSE "finished"]

\* Mutant: the callback names the record after the outcome.
WriteUnknown(r) ==
  /\ Advance(r)
  /\ log' = Append(log, [Record(r) EXCEPT !.type = "timeout"])
  /\ UNCHANGED <<runner, recv, stamp, faulty>>

\* The end of a record that begins before it, or was never finished, is no record.
Tear(r) == /\ log' = Append(log, [type |-> "fragment", id |-> r, began |-> 0])
           /\ torn' = (torn \/ pc \in {"agent", "drain", "read"})

\* _write: one record under the lock.
Write(r) ==
  /\ Advance(r) /\ r \notin Pending
  /\ log' = Append(log, Record(r))
  /\ UNCHANGED <<runner, recv, stamp, faulty>>

\* The rest of the record the offset falls into; the newline alone is no fragment.
WriteRest(r) ==
  /\ Advance(r) /\ r \in Pending
  /\ Tear(r) \/ UNCHANGED <<log, torn>>
  /\ UNCHANGED <<runner, recv, stamp, stray, lost>>

\* The disk is full: nothing is written, or os.write writes less than it was
\* given.  LiteLLM goes on without the record.
WriteFails(r) ==
  /\ "write" \in Faults /\ Cardinality(lost) < MaxLost /\ Advance(r)
  /\ lost' = lost \cup {[type |-> Record(r).type, id |-> r]}
  /\ Tear(r) \/ UNCHANGED <<log, torn>>
  /\ UNCHANGED <<runner, recv, stamp, stray>>

-----------------------------------------------------------------------------
(* The runner, for one stage after the other.                                *)

\* trace_started = time.time()
TraceStart ==
  /\ pc = "idle" /\ stage < MaxStages
  /\ stage' = stage + 1 /\ pc' = "snapshot"
  /\ summary' = NoSummary /\ leftover' = Open /\ inFlight' = {}
  /\ UNCHANGED <<offset, split, drained, proxy, torn, log>>

\* st_size counts what is there of a record that is just being written.
Snapshot ==
  /\ pc = "snapshot" /\ pc' = "agent"
  /\ offset' = Len(log) /\ torn' = FALSE
  /\ split' \in {{}} \cup {{[id |-> r, state |-> req[r]]} : r \in Writers}
  /\ UNCHANGED <<stage, drained, summary, leftover, inFlight, proxy, log>>

\* The agent exits or is terminated, whatever its requests are doing.
AgentEnds == pc = "agent" /\ pc' = "drain" /\ UNCHANGED <<stage, offset, split, drained,
                                                        summary, leftover, inFlight, proxy, torn, log>>

\* The log did not grow for the quiet period, or did until the timeout.  An
\* open request that waits for its model does not make it grow.
Drain ==
  /\ pc = "drain" /\ pc' = "read"
  /\ \/ drained' = TRUE
     \/ (Open # {} \/ "stray" \in Faults) /\ drained' = FALSE
  /\ UNCHANGED <<stage, offset, split, summary, leftover, inFlight, proxy, torn, log>>

\* Mutant: finish records are not filtered.
ForeignStart(x) == x.type = "request_start" /\ x.began < stage

New        == SubSeq(log, offset + 1, Len(log))
NewRecords == {New[i] : i \in 1..Len(New)}

\* Mutant: the records of the stage before are let through.
ForeignOffByOne(x) == x.began + 1 < stage

Foreign(x) == x.began < stage
Ids(type)  == {x.id : x \in {y \in NewRecords : y.type = type /\ ~Foreign(y)}}
Strangers(type) == Cardinality({x \in NewRecords : x.type = type /\ Foreign(x)})

\* Mutant: a line that is no record is passed over.
FragmentsPassedOver(partial) == IF partial THEN 1 ELSE 0

\* _parse_proxy_log_records goes on behind a fragment and counts it; the last
\* record may be one that is just being written.
Fragments(partial) ==
  Cardinality({i \in 1..Len(New) : New[i].type = "fragment"}) + (IF partial THEN 1 ELSE 0)

\* More finishes than starts count as log write errors too.
Excess == LET finishes == Cardinality(Ids("finish"))
              starts   == Cardinality(Ids("request_start"))
          IN IF finishes > starts THEN finishes - starts ELSE 0

\* Read from the offset, filter, count.
Read ==
  /\ pc = "read" /\ pc' = "truncate"
  /\ \E partial \in BOOLEAN :
       /\ partial => Writers # {}
       /\ summary' =
            [starts |-> Ids("request_start"), finishes |-> Ids("finish"),
             foreignStarts |-> Strangers("request_start"),
             foreignFinishes |-> Strangers("finish"),
             errors |-> Fragments(partial) + Excess]
  /\ inFlight' = Open
  /\ UNCHANGED <<stage, offset, split, drained, leftover, proxy, torn, log>>

\* path.write_text(""); the file system ends a write before it truncates.
Truncate ==
  /\ pc = "truncate" /\ pc' = "judge" /\ Pending = {}
  /\ log' = <<>>
  /\ UNCHANGED <<stage, offset, split, drained, summary, leftover, inFlight, proxy, torn>>

\* assert_local_stage_healthy
Healthy ==
  /\ summary.errors = 0
  /\ summary.starts # {}
  /\ drained
  /\ summary.foreignStarts = 0

Judge ==
  /\ pc = "judge"
  /\ pc' = IF ~Healthy THEN "raised" ELSE IF stage = MaxStages THEN "end" ELSE "idle"
  /\ UNCHANGED <<stage, offset, split, drained, summary, leftover, inFlight, proxy, torn, log>>

\* Before the next row: stop_proxy kills the requests, start_proxy empties the log.
RestartProxy ==
  /\ pc = "idle" /\ stage > 0
  /\ req' = [r \in Requests |-> IF r \in Open THEN "killed" ELSE req[r]]
  /\ log' = <<>>
  /\ UNCHANGED <<runner, recv, stamp, faulty>>

Next == \/ TraceStart \/ Snapshot \/ AgentEnds \/ Drain \/ Read \/ Truncate \/ Judge
        \/ RestartProxy
        \/ \E r \in Requests : Receive(r) \/ Stamp(r) \/ Write(r) \/ WriteRest(r) \/ WriteFails(r)

Spec == Init /\ [][Next]_vars
-----------------------------------------------------------------------------
(* Properties.                                                               *)

\* Type invariant.
TypeOK ==
  /\ pc \in {"idle", "snapshot", "agent", "drain", "read", "truncate", "judge", "end", "raised"}
  /\ stage \in 0..MaxStages /\ offset \in Nat
  /\ split \subseteq [id : Requests, state : {"stamped", "upstream"}]
  /\ log \in Seq(Records)
  /\ req \in [Requests -> RequestState]
  /\ recv \in [Requests -> 0..MaxStages] /\ stamp \in [Requests -> 0..MaxStages]
  /\ drained \in BOOLEAN /\ leftover \subseteq Requests /\ stray \subseteq Requests /\ inFlight \subseteq Requests
  /\ torn \in BOOLEAN /\ lost \subseteq [type : {"request_start", "finish"}, id : Requests]
  /\ summary \in [starts : SUBSET Requests, finishes : SUBSET Requests,
                 foreignStarts : Nat, foreignFinishes : Nat, errors : Nat]

LostOf(type) == {x.id : x \in {y \in lost : y.type = type}}

\* A request is counted for no stage but the one it was received in, whoever made
\* it and whenever its records were written.  If nothing was open when the log was
\* read, the stage's trace is complete: it counts the start and the finish of every
\* request its agent made, but for the records that could not be written.
TraceIsTrue ==
  pc \in {"truncate", "judge"} =>
    /\ \A r \in summary.starts : stamp[r] = stage
    /\ \A r \in summary.finishes : recv[r] = stage
    /\ inFlight = {} =>
         /\ {r \in Requests \ stray : recv[r] = stage /\ stamp[r] = stage}
              \subseteq summary.starts \cup LostOf("request_start")
         /\ {r \in Requests \ stray : recv[r] = stage}
              \subseteq summary.finishes \cup LostOf("finish")

\* A stage is not blamed for the log: every counted finish has its start, there are
\* errors only if a record was lost or still open, or was being written when the
\* offset was taken; and such a record, like a foreign one, comes only from a request
\* that was open when the trace began.
NoFalseAlarm ==
  pc \in {"truncate", "judge"} /\ stray = {} =>
    /\ summary.finishes \subseteq summary.starts \cup LostOf("request_start")
    /\ lost = {} /\ inFlight = {} /\ split = {} => summary.errors = 0
    /\ {x.id : x \in split} \subseteq leftover
    /\ leftover = {} => summary.foreignStarts = 0 /\ summary.foreignFinishes = 0

\* A torn record is never passed over in silence: the stage it falls into, up to
\* the moment its log is read, does not count as healthy.
TornIsNoticed == pc = "judge" /\ torn => ~Healthy
=============================================================================
