------------------------- MODULE WorkbookProcessing -------------------------
(***************************************************************************)
(* Processing an uploaded workbook (server_akash_version/core): requests   *)
(* to POST /data-sources/{id}/process and the background task of an        *)
(* upload, all for one data source, through                                *)
(* ExcelAgentService.process_data_source, the orchestrator's in-memory     *)
(* _processed_cache, and the database session that commits on success and  *)
(* rolls back on an exception.                                             *)
(*                                                                         *)
(* The database is PostgreSQL at READ COMMITTED: a flushed INSERT or       *)
(* UPDATE of the row makes every other one wait until its transaction      *)
(* ends.  The results of the LLM phases are told apart by the run of the   *)
(* pipeline that made them; 0 is the empty result {}.                      *)
(***************************************************************************)
EXTENDS Naturals

CONSTANTS
  Request,     \* calls of process_data_source
  Background,  \* those made by process_in_background
  NoRequest

ASSUME RequestAssumption == Background \subseteq Request /\ NoRequest \notin Request

VARIABLES
  row,      \* the committed row of excel_schemas, or NoRow
  lock,     \* the request whose transaction has written the row
  cache,    \* _processed_cache[file_path], or NoResult
  runs,     \* runs of the pipeline that got as far as the cache
  pc,       \* where each request is
  forced,   \* force_reprocess
  seen,     \* the row as the request loaded it
  draft,    \* its ExcelSchema object
  result,   \* what process_workbook returned
  outcome   \* what the caller was told

vars == <<row, lock, cache, runs, pc, forced, seen, draft, result, outcome>>

-----------------------------------------------------------------------------
NoRow    == [status |-> "none", ready |-> FALSE, schema |-> 0, enrichment |-> 0,
             run |-> 0]
Pending  == [NoRow EXCEPT !.status = "pending"]
NoResult == [run |-> 0, schema |-> 0, enrichment |-> 0]

\* ProcessedWorkbook.is_ready_for_queries
Usable(res) == res.schema # 0 \/ res.enrichment # 0

InProgress == {"extracting", "mapping", "enriching"}
Statuses   == {"none", "pending", "completed", "failed"} \cup InProgress

\* mark_extracting, mark_completed, mark_failed; `run` stands for processed_at.
Extracting(d) == [d EXCEPT !.status = "extracting"]
Completed(res) == [status |-> "completed", ready |-> TRUE, schema |-> res.schema,
                   enrichment |-> res.enrichment, run |-> res.run]
Failed(d) == [d EXCEPT !.status = "failed", !.ready = FALSE]

\* The row once the writes of r are committed: an UPDATE sets the columns whose
\* value is another one than was loaded, and leaves the others as they are.
Column(loaded, set, stored) == IF set = loaded THEN stored ELSE set
Written(r) ==
  IF seen[r] = NoRow THEN draft[r]
  ELSE [status     |-> draft[r].status,
        ready      |-> Column(seen[r].ready, draft[r].ready, row.ready),
        schema     |-> Column(seen[r].schema, draft[r].schema, row.schema),
        enrichment |-> Column(seen[r].enrichment, draft[r].enrichment, row.enrichment),
        run        |-> Column(seen[r].run, draft[r].run, row.run)]

Released(r) == IF lock = r THEN NoRequest ELSE lock

Goto(r, l) == pc' = [pc EXCEPT ![r] = l]

\* The call is over: its session and its locals go.
End(r, o) ==
  /\ Goto(r, "done")
  /\ outcome' = [outcome EXCEPT ![r] = o]
  /\ forced' = [forced EXCEPT ![r] = FALSE]
  /\ seen' = [seen EXCEPT ![r] = NoRow]
  /\ draft' = [draft EXCEPT ![r] = NoRow]
  /\ result' = [result EXCEPT ![r] = IF o = "completed" THEN @ ELSE NoResult]

-----------------------------------------------------------------------------
Init ==
  /\ row = NoRow /\ lock = NoRequest /\ cache = NoResult /\ runs = 0
  /\ pc = [r \in Request |-> "idle"]
  /\ forced = [r \in Request |-> FALSE]
  /\ seen = [r \in Request |-> NoRow]
  /\ draft = [r \in Request |-> NoRow]
  /\ result = [r \in Request |-> NoResult]
  /\ outcome = [r \in Request |-> "none"]

\* The background task never forces.
Submit(r, force) ==
  /\ pc[r] = "idle"
  /\ force => r \notin Background
  /\ forced' = [forced EXCEPT ![r] = force]
  /\ Goto(r, "load")
  /\ UNCHANGED <<row, lock, cache, runs, seen, draft, result, outcome>>

\* _get_existing_schema finds a schema there is no need to touch.
ReturnExisting(r) ==
  /\ pc[r] = "load"
  /\ ~forced[r] /\ row.status \in {"completed"} \cup InProgress
  /\ End(r, "existing")
  /\ UNCHANGED <<row, lock, cache, runs>>

Load(r) ==
  /\ pc[r] = "load"
  /\ forced[r] \/ row.status \notin {"completed"} \cup InProgress
  /\ seen' = [seen EXCEPT ![r] = row]
  /\ draft' = [draft EXCEPT ![r] = IF row = NoRow THEN Pending ELSE row]
  /\ Goto(r, "flush")
  /\ UNCHANGED <<row, lock, cache, runs, forced, result, outcome>>

\* Another request has created the row since this one looked.
Duplicate(r) == seen[r] = NoRow /\ row # NoRow

\* Fault: the status is set on the object but not flushed.
FlushUnlocked(r) ==
  /\ pc[r] = "flush"
  /\ draft' = [draft EXCEPT ![r] = Extracting(@)]
  /\ Goto(r, "pipeline")
  /\ UNCHANGED <<row, lock, cache, runs, forced, seen, result, outcome>>

\* mark_extracting and flush: waits for the row, then holds it.
Flush(r) ==
  /\ pc[r] = "flush" /\ lock = NoRequest /\ ~Duplicate(r)
  /\ lock' = r
  /\ draft' = [draft EXCEPT ![r] = Extracting(@)]
  /\ Goto(r, "pipeline")
  /\ UNCHANGED <<row, cache, runs, forced, seen, result, outcome>>

\* The INSERT violates the UNIQUE constraint on data_source_id.
FlushDuplicate(r) ==
  /\ pc[r] = "flush" /\ lock = NoRequest /\ Duplicate(r)
  /\ draft' = [draft EXCEPT ![r] = Failed(@)]
  /\ Goto(r, "raise")
  /\ UNCHANGED <<row, lock, cache, runs, forced, seen, result, outcome>>

\* The stored file is gone: the failure is flushed, then ValidationError.
FileMissing(r) ==
  /\ pc[r] = "flush" /\ lock = NoRequest /\ ~Duplicate(r)
  /\ lock' = r
  /\ draft' = [draft EXCEPT ![r] = Failed(@)]
  /\ Goto(r, "raise")
  /\ UNCHANGED <<row, cache, runs, forced, seen, result, outcome>>

\* orchestrator.process_workbook answers from its cache ...
FromCache(r) ==
  /\ pc[r] = "pipeline" /\ ~forced[r] /\ Usable(cache)
  /\ result' = [result EXCEPT ![r] = cache]
  /\ Goto(r, "save")
  /\ UNCHANGED <<row, lock, cache, runs, forced, seen, draft, outcome>>

MustRun(r) == pc[r] = "pipeline" /\ (forced[r] \/ ~Usable(cache))

\* Fault: a forced run does not replace what is cached.
RunPipelineUncached(r, mapped, enriched) ==
  /\ MustRun(r)
  /\ runs' = runs + 1
  /\ result' = [result EXCEPT ![r] =
                 [run |-> runs', schema |-> IF mapped THEN runs' ELSE 0,
                  enrichment |-> IF enriched THEN runs' ELSE 0]]
  /\ cache' = IF cache = NoResult THEN result'[r] ELSE cache
  /\ Goto(r, "save")
  /\ UNCHANGED <<row, lock, forced, seen, draft, outcome>>

\* ... or runs the phases; the mapping and the enrichment may each fail, which
\* is logged, and the result is cached all the same ...
RunPipeline(r, mapped, enriched) ==
  /\ MustRun(r)
  /\ runs' = runs + 1
  /\ cache' = [run |-> runs', schema |-> IF mapped THEN runs' ELSE 0,
               enrichment |-> IF enriched THEN runs' ELSE 0]
  /\ result' = [result EXCEPT ![r] = cache']
  /\ Goto(r, "save")
  /\ UNCHANGED <<row, lock, forced, seen, draft, outcome>>

\* ... or fails: the extraction, or an exception in a phase.
PipelineFails(r) ==
  /\ MustRun(r)
  /\ draft' = [draft EXCEPT ![r] = Failed(@)]
  /\ Goto(r, "raise")
  /\ UNCHANGED <<row, lock, cache, runs, forced, seen, result, outcome>>

\* mark_completed, whatever the phases produced.
Complete(r) ==
  /\ pc[r] = "save"
  /\ draft' = [draft EXCEPT ![r] = Completed(result[r])]
  /\ Goto(r, "commit")
  /\ UNCHANGED <<row, lock, cache, runs, forced, seen, result, outcome>>

\* The database fails while the result is flushed, refreshed or committed.
SaveFails(r) ==
  /\ pc[r] \in {"save", "commit"}
  /\ draft' = [draft EXCEPT ![r] = Failed(@)]
  /\ Goto(r, "raise")
  /\ UNCHANGED <<row, lock, cache, runs, forced, seen, result, outcome>>

\* The session commits: at the end of get_session, or in the background task.
Commit(r) ==
  /\ pc[r] = "commit"
  /\ row' = Written(r)
  /\ lock' = Released(r)
  /\ End(r, "completed")
  /\ UNCHANGED <<cache, runs>>

\* Faults: the failure is committed; the transaction is left open.
RollbackCommitting(r) ==
  /\ pc[r] = "raise" /\ r \notin Background
  /\ row' = Written(r)
  /\ lock' = Released(r)
  /\ End(r, "failed")
  /\ UNCHANGED <<cache, runs>>
RollbackForgotten(r) ==
  /\ pc[r] = "raise" /\ r \notin Background
  /\ End(r, "failed")
  /\ UNCHANGED <<row, lock, cache, runs>>

\* The exception reaches get_session as an HTTPException: all writes are undone,
\* the FAILED status among them.
Rollback(r) ==
  /\ pc[r] = "raise" /\ r \notin Background
  /\ lock' = Released(r)
  /\ End(r, "failed")
  /\ UNCHANGED <<row, cache, runs>>

\* process_in_background logs the exception and returns; the session it was
\* lent, closed once already, is neither committed nor rolled back ...
Abandon(r) ==
  /\ pc[r] = "raise" /\ r \in Background
  /\ Goto(r, "abandoned")
  /\ UNCHANGED <<row, lock, cache, runs, forced, seen, draft, result, outcome>>

\* ... until it is garbage collected and its connection is reset.
Collect(r) ==
  /\ pc[r] = "abandoned"
  /\ lock' = Released(r)
  /\ End(r, "failed")
  /\ UNCHANGED <<row, cache, runs>>

\* The server stops and starts again: requests, background tasks and cache are
\* lost, open transactions are rolled back.
Active == {r \in Request : pc[r] \notin {"idle", "done"}}
Forget(f, none) == [r \in Request |-> IF r \in Active THEN none ELSE f[r]]
Lose ==
  /\ cache' = NoResult
  /\ pc' = Forget(pc, "done") /\ outcome' = Forget(outcome, "lost")
  /\ forced' = Forget(forced, FALSE)
  /\ seen' = Forget(seen, NoRow) /\ draft' = Forget(draft, NoRow)
  /\ result' = Forget(result, NoResult)
  /\ UNCHANGED <<row, runs>>

\* The database undoes the transactions of the dead process.
Restart == Lose /\ lock' = NoRequest

-----------------------------------------------------------------------------
Step(r) ==
  \/ ReturnExisting(r) \/ Load(r)
  \/ Flush(r) \/ FlushDuplicate(r) \/ FileMissing(r)
  \/ FromCache(r) \/ PipelineFails(r)
  \/ \E mapped, enriched \in BOOLEAN : RunPipeline(r, mapped, enriched)
  \/ Complete(r) \/ SaveFails(r) \/ Commit(r)
  \/ Rollback(r) \/ Abandon(r) \/ Collect(r)

Next ==
  \/ \E r \in Request : Step(r) \/ \E force \in BOOLEAN : Submit(r, force)
  \/ Restart

Spec == Init /\ [][Next]_vars

\* Requests make progress: the event loop runs them, the database wakes a
\* waiting writer, an unreachable session is collected in the end.
FairSpec == Spec /\ \A r \in Request : WF_vars(Step(r))

-----------------------------------------------------------------------------
Result == [run : Nat, schema : Nat, enrichment : Nat]
Row == [status : Statuses, ready : BOOLEAN, schema : Nat, enrichment : Nat, run : Nat]

Running == {"pipeline", "save", "commit"}
Holding == Running \cup {"raise", "abandoned"}

\* Every variable is of its kind, and the row is only ever held by a request
\* that has flushed and is still being served.
TypeOK ==
  /\ row \in Row /\ cache \in Result /\ runs \in Nat
  /\ lock \in {NoRequest} \cup {r \in Request : pc[r] \in Holding}
  /\ pc \in [Request -> {"idle", "load", "flush", "pipeline", "save", "commit",
                         "raise", "abandoned", "done"}]
  /\ forced \in [Request -> BOOLEAN]
  /\ seen \in [Request -> Row] /\ draft \in [Request -> Row]
  /\ result \in [Request -> Result]
  /\ outcome \in [Request -> {"none", "existing", "completed", "failed", "lost"}]

\* No reader ever finds a schema that is not completed and ready: neither the
\* busy statuses (so the "already in progress" return of process_data_source is
\* never taken) nor FAILED are committed, whatever fails and whenever.
StoredIsSettled ==
  row # NoRow => row.status = "completed" /\ row.ready

\* The LLM pipeline runs for one request at a time, although process_data_source
\* has no lock: the flush of EXTRACTING holds the row until the end.
OnePipeline ==
  \A r, q \in Request : {pc[r], pc[q]} \subseteq Running => r = q

\* A request that was told its result is stored is right for good: the row holds
\* that result or a later run's, through failures of others and restarts.
SuccessIsDurable ==
  \A r \in Request : outcome[r] = "completed" => row # NoRow /\ row.run >= result[r].run

\* What the orchestrator would answer with is never older than the stored row.
CacheIsCurrent == cache # NoResult => row.run <= cache.run

\* Every request is answered and gives the row back.
EveryRequestEnds ==
  \A r \in Request : pc[r] # "idle" ~> (pc[r] = "done" /\ lock # r)

=============================================================================
