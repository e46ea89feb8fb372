---------------------- MODULE WorkbookProcessingProofs ----------------------
(***************************************************************************)
(* Proofs about WorkbookProcessing, for any set of requests: only one      *)
(* request at a time works on the schema, what is stored is always a       *)
(* completed schema, and a stored success is never replaced by an older    *)
(* one.                                                                    *)
(***************************************************************************)
EXTENDS WorkbookProcessing, TLAPS

\* A request that works on the schema holds the row; what it has to store is
\* what the orchestrator has cached.
HoldersWork ==
  \A r \in Request :
    /\ pc[r] \in Running => lock = r
    /\ pc[r] \in {"save", "commit"} => result[r] = cache /\ cache.run > 0
    /\ pc[r] = "commit" => draft[r] = Completed(result[r])

\* Loaded rows and the cache stay within what was stored and what was run.
RunsInOrder ==
  /\ row.run <= runs /\ cache.run <= runs
  /\ cache # NoResult => cache.run > 0
  /\ \A r \in Request : /\ seen[r] # NoRow => row # NoRow
                        /\ seen[r].run <= row.run

\* Only a call that is over has an outcome.
OutcomeFollowsPc == \A r \in Request : outcome[r] # "none" => pc[r] = "done"

IInv ==
  /\ TypeOK /\ HoldersWork /\ RunsInOrder /\ OutcomeFollowsPc
  /\ StoredIsSettled /\ SuccessIsDurable /\ CacheIsCurrent

-----------------------------------------------------------------------------
\* The operators a commit is built from.

LEMMA WrittenIsRow ==
  ASSUME TypeOK, NEW r \in Request
  PROVE  Written(r) \in Row
BY DEF TypeOK, Written, Column, Row

\* Committing a completed schema leaves a completed schema whose run is the one
\* committed or a later one that was there.
LEMMA WrittenIsSettled ==
  ASSUME IInv, NEW r \in Request, pc[r] = "commit"
  PROVE  /\ Written(r).status = "completed" /\ Written(r).ready
         /\ Written(r).run \in {row.run, cache.run}
         /\ Written(r).run >= row.run /\ Written(r).run >= result[r].run
<1>1. draft[r] = Completed(result[r]) /\ result[r] = cache /\ cache.run > 0
  BY DEF IInv, HoldersWork
<1>2. row.run <= cache.run /\ row.run \in Nat /\ cache.run \in Nat /\ seen[r].run \in Nat
      /\ seen[r].run <= row.run /\ (seen[r] # NoRow => row.status = "completed" /\ row.ready)
  BY <1>1 DEF IInv, TypeOK, RunsInOrder, CacheIsCurrent, StoredIsSettled, NoResult, Row, Result
<1>3. CASE seen[r] = NoRow
  BY <1>1, <1>2, <1>3 DEF Written, Completed
<1>4. CASE seen[r] # NoRow
  <2> DEFINE d == draft[r]
  <2>1. d.status = "completed" /\ d.ready = TRUE /\ d.run = cache.run
    BY <1>1 DEF Completed
  <2>2. row.ready = TRUE
    BY <1>2, <1>4 DEF IInv, TypeOK, Row
  <2>3. Written(r) = [status     |-> d.status,
                      ready      |-> Column(seen[r].ready, d.ready, row.ready),
                      schema     |-> Column(seen[r].schema, d.schema, row.schema),
                      enrichment |-> Column(seen[r].enrichment, d.enrichment, row.enrichment),
                      run        |-> Column(seen[r].run, d.run, row.run)]
    BY <1>4 DEF Written
  <2> HIDE DEF d
  <2>4. Written(r).status = "completed"
    BY <2>1, <2>3
  <2>5. Written(r).ready
    <3>1. Column(seen[r].ready, d.ready, row.ready) = TRUE
      BY <2>1, <2>2 DEF Column
    <3> QED BY <2>3, <3>1
  <2>6. Written(r).run = Column(seen[r].run, d.run, row.run)
    BY <2>3
  <2>7. Written(r).run = cache.run \/ (Written(r).run = row.run /\ seen[r].run = cache.run)
    BY <2>1, <2>6 DEF Column
  <2> QED BY <1>1, <1>2, <2>4, <2>5, <2>7
<1> QED BY <1>3, <1>4

-----------------------------------------------------------------------------
LEMMA InitIInv == Init => IInv
BY RequestAssumption DEF Init, IInv, TypeOK, HoldersWork, RunsInOrder, StoredIsSettled,
   SuccessIsDurable, CacheIsCurrent, OutcomeFollowsPc, Row, Result, NoRow, NoResult,
   Statuses, InProgress, Running, Holding

\* Dropping what some requests have loaded keeps the order of runs.
LEMMA StaleRowsGone ==
  ASSUME IInv, row' = row, runs' = runs, cache' = cache \/ cache' = NoResult,
         \A r \in Request : seen'[r] \in {seen[r], NoRow}
  PROVE  RunsInOrder'
<1>1. row.run \in Nat /\ runs \in Nat /\ NoRow.run = 0 /\ NoResult.run = 0
  BY DEF IInv, TypeOK, Row, NoRow, NoResult
<1>2. ASSUME NEW r \in Request
      PROVE  (seen'[r] # NoRow => row # NoRow) /\ seen'[r].run <= row.run
  <2>1. (seen[r] # NoRow => row # NoRow) /\ seen[r].run <= row.run
    BY DEF IInv, RunsInOrder
  <2>2. CASE seen'[r] = seen[r]  BY <2>1, <2>2
  <2>3. CASE seen'[r] = NoRow    BY <1>1, <2>3
  <2> QED BY <2>2, <2>3
<1> QED BY <1>1, <1>2 DEF IInv, RunsInOrder

\* Steps that touch neither the row nor the cache nor the lock, and leave no
\* request at work that was not, keep the invariant if they keep the types.
LEMMA QuietStep ==
  ASSUME IInv, TypeOK', OutcomeFollowsPc',
         UNCHANGED <<row, cache, runs, lock>>,
         \A r \in Request :
           /\ pc'[r] \in Running => pc[r] \in Running
           /\ pc'[r] \in {"save", "commit"} => pc[r] \in {"save", "commit"} /\ result'[r] = result[r]
           /\ pc'[r] = "commit" => draft'[r] = Completed(result[r])
           /\ outcome'[r] = "completed" => outcome[r] = "completed" /\ result'[r] = result[r]
           /\ seen'[r] \in {seen[r], row, NoRow}
  PROVE  IInv'
<1>1. HoldersWork'
  BY DEF IInv, HoldersWork
<1>2. RunsInOrder'
  <2>1. row.run \in Nat /\ NoRow.run = 0 /\ row.run <= row.run
    BY DEF IInv, TypeOK, Row, NoRow
  <2>2. ASSUME NEW r \in Request
        PROVE  (seen'[r] # NoRow => row # NoRow) /\ seen'[r].run <= row.run
    <3>1. (seen[r] # NoRow => row # NoRow) /\ seen[r].run <= row.run
      BY DEF IInv, RunsInOrder
    <3>2. CASE seen'[r] = seen[r]  BY <3>1, <3>2
    <3>3. CASE seen'[r] = row      BY <2>1, <3>3
    <3>4. CASE seen'[r] = NoRow    BY <2>1, <3>4
    <3> QED BY <3>2, <3>3, <3>4
  <2> QED BY <2>2 DEF IInv, RunsInOrder
<1> QED BY <1>1, <1>2 DEF IInv, StoredIsSettled, SuccessIsDurable, CacheIsCurrent

LEMMA TypeStep == TypeOK /\ [Next]_vars => TypeOK'
<1> USE RequestAssumption DEF Holding, Running
<1> SUFFICES ASSUME TypeOK, [Next]_vars PROVE TypeOK'
  OBVIOUS
<1> NoRow \in Row /\ NoResult \in Result /\ Pending \in Row
  BY DEF NoRow, NoResult, Row, Result, Pending, Statuses
<1> \A d \in Row : Extracting(d) \in Row /\ Failed(d) \in Row
  BY DEF Extracting, Failed, Row, Statuses, InProgress
<1> \A x \in Result : Completed(x) \in Row
  BY DEF Completed, Row, Result, Statuses
<1>1. ASSUME NEW r \in Request, NEW f \in BOOLEAN, Submit(r, f) PROVE TypeOK'
  BY <1>1 DEF TypeOK, Submit, Goto, Active
<1>2. ASSUME NEW r \in Request, ReturnExisting(r) PROVE TypeOK'
  BY <1>2 DEF TypeOK, ReturnExisting, End, Goto, Active
<1>3. ASSUME NEW r \in Request, Load(r) PROVE TypeOK'
  BY <1>3 DEF TypeOK, Load, Goto, Active
<1>4. ASSUME NEW r \in Request, Flush(r) PROVE TypeOK'
  BY <1>4 DEF TypeOK, Flush, Goto, Active
<1>5. ASSUME NEW r \in Request, FlushDuplicate(r) PROVE TypeOK'
  BY <1>5 DEF TypeOK, FlushDuplicate, Goto, Active
<1>6. ASSUME NEW r \in Request, FileMissing(r) PROVE TypeOK'
  BY <1>6 DEF TypeOK, FileMissing, Goto, Active
<1>7. ASSUME NEW r \in Request, FromCache(r) PROVE TypeOK'
  BY <1>7 DEF TypeOK, FromCache, Goto, Active
<1>8. ASSUME NEW r \in Request, PipelineFails(r) PROVE TypeOK'
  BY <1>8 DEF TypeOK, PipelineFails, MustRun, Goto, Active
<1>9. ASSUME NEW r \in Request, NEW m \in BOOLEAN, NEW e \in BOOLEAN, RunPipeline(r, m, e)
      PROVE TypeOK'
  <2>1. cache' \in Result /\ runs' \in Nat
    BY <1>9 DEF TypeOK, RunPipeline, Result
  <2> QED BY <1>9, <2>1 DEF TypeOK, RunPipeline, MustRun, Goto, Active
<1>10. ASSUME NEW r \in Request, Complete(r) PROVE TypeOK'
  BY <1>10 DEF TypeOK, Complete, Goto, Active
<1>11. ASSUME NEW r \in Request, SaveFails(r) PROVE TypeOK'
  BY <1>11 DEF TypeOK, SaveFails, Goto, Active
<1>12. ASSUME NEW r \in Request, Commit(r) PROVE TypeOK'
  BY <1>12, WrittenIsRow DEF TypeOK, Commit, End, Goto, Active, Released
<1>13. ASSUME NEW r \in Request, Rollback(r) PROVE TypeOK'
  BY <1>13 DEF TypeOK, Rollback, End, Goto, Active, Released
<1>14. ASSUME NEW r \in Request, Abandon(r) PROVE TypeOK'
  BY <1>14 DEF TypeOK, Abandon, Goto, Active
<1>15. ASSUME NEW r \in Request, Collect(r) PROVE TypeOK'
  BY <1>15 DEF TypeOK, Collect, End, Goto, Active, Released
<1>16. ASSUME Restart PROVE TypeOK'
  BY <1>16 DEF TypeOK, Restart, Lose, Forget, Active
<1>17. ASSUME UNCHANGED vars PROVE TypeOK'
  BY <1>17 DEF TypeOK, vars, Active
<1> QED
  BY <1>1, <1>2, <1>3, <1>4, <1>5, <1>6, <1>7, <1>8, <1>9, <1>10, <1>11, <1>12, <1>13,
     <1>14, <1>15, <1>16, <1>17 DEF Next, Step

-----------------------------------------------------------------------------
\* Every step keeps the invariant.

LEMMA OutcomeStep == TypeOK /\ OutcomeFollowsPc /\ [Next]_vars => OutcomeFollowsPc'
<1> SUFFICES ASSUME TypeOK, OutcomeFollowsPc, [Next]_vars PROVE OutcomeFollowsPc'
  OBVIOUS
<1> USE DEF TypeOK, OutcomeFollowsPc, Goto, End
<1>1. ASSUME NEW r \in Request, Step(r) PROVE OutcomeFollowsPc'
  <2>1. CASE ReturnExisting(r) \/ Commit(r) \/ Rollback(r) \/ Collect(r)
    BY <2>1 DEF ReturnExisting, Commit, Rollback, Collect
  <2>2. CASE Load(r) \/ Flush(r) \/ FlushDuplicate(r) \/ FileMissing(r)
    BY <2>2 DEF Load, Flush, FlushDuplicate, FileMissing
  <2>3. CASE FromCache(r) \/ PipelineFails(r) \/ Complete(r) \/ SaveFails(r) \/ Abandon(r)
    BY <2>3 DEF FromCache, PipelineFails, MustRun, Complete, SaveFails, Abandon
  <2>4. ASSUME NEW m \in BOOLEAN, NEW e \in BOOLEAN, RunPipeline(r, m, e)
        PROVE OutcomeFollowsPc'
    BY <2>4 DEF RunPipeline, MustRun
  <2> QED BY <1>1, <2>1, <2>2, <2>3, <2>4 DEF Step
<1>2. ASSUME NEW r \in Request, NEW f \in BOOLEAN, Submit(r, f) PROVE OutcomeFollowsPc'
  BY <1>2 DEF Submit
<1>3. CASE Restart
  BY <1>3 DEF Restart, Lose, Forget, Active
<1>4. CASE UNCHANGED vars
  BY <1>4 DEF vars
<1> QED BY <1>1, <1>2, <1>3, <1>4 DEF Next

LEMMA StepIInv == IInv /\ [Next]_vars => IInv'
<1> SUFFICES ASSUME IInv, [Next]_vars PROVE IInv'
  OBVIOUS
<1>0. TypeOK /\ TypeOK' /\ OutcomeFollowsPc'
  BY TypeStep, OutcomeStep DEF IInv
<1> USE DEF Goto
<1>1. ASSUME NEW r \in Request, NEW f \in BOOLEAN, Submit(r, f) PROVE IInv'
  BY <1>0, <1>1, QuietStep DEF TypeOK, Submit, Running, IInv, HoldersWork
<1>2. ASSUME NEW r \in Request, ReturnExisting(r) PROVE IInv'
  BY <1>0, <1>2, QuietStep DEF TypeOK, ReturnExisting, End, Running, IInv, HoldersWork
<1>3. ASSUME NEW r \in Request, Load(r) PROVE IInv'
  BY <1>0, <1>3, QuietStep DEF TypeOK, Load, Running, IInv, HoldersWork
<1>4. ASSUME NEW r \in Request, Flush(r) PROVE IInv'
  <2>1. HoldersWork'
    BY <1>0, <1>4, RequestAssumption DEF TypeOK, Flush, Running, IInv, HoldersWork
  <2> QED BY <1>0, <1>4, <2>1 DEF Flush, IInv, RunsInOrder, StoredIsSettled,
             SuccessIsDurable, CacheIsCurrent
<1>5. ASSUME NEW r \in Request, FlushDuplicate(r) PROVE IInv'
  BY <1>0, <1>5, QuietStep DEF TypeOK, FlushDuplicate, Running, IInv, HoldersWork
<1>6. ASSUME NEW r \in Request, FileMissing(r) PROVE IInv'
  <2>1. HoldersWork'
    BY <1>0, <1>6, RequestAssumption DEF TypeOK, FileMissing, Running, IInv, HoldersWork
  <2> QED BY <1>0, <1>6, <2>1 DEF FileMissing, IInv, RunsInOrder, StoredIsSettled,
             SuccessIsDurable, CacheIsCurrent
<1>7. ASSUME NEW r \in Request, FromCache(r) PROVE IInv'
  <2>1. cache.run > 0
    BY <1>7 DEF FromCache, Usable, NoResult, IInv, RunsInOrder
  <2>2. HoldersWork'
    BY <1>0, <1>7, <2>1 DEF TypeOK, FromCache, Running, IInv, HoldersWork
  <2>3. SuccessIsDurable'
    BY <1>0, <1>7 DEF TypeOK, FromCache, IInv, SuccessIsDurable, OutcomeFollowsPc
  <2> QED BY <1>0, <1>7, <2>2, <2>3 DEF FromCache, IInv, RunsInOrder, StoredIsSettled,
             CacheIsCurrent
<1>8. ASSUME NEW r \in Request, PipelineFails(r) PROVE IInv'
  BY <1>0, <1>8, QuietStep DEF TypeOK, PipelineFails, MustRun, Running, IInv, HoldersWork
<1>9. ASSUME NEW r \in Request, NEW m \in BOOLEAN, NEW e \in BOOLEAN, RunPipeline(r, m, e)
      PROVE IInv'
  <2>1. runs \in Nat /\ runs' = runs + 1 /\ cache'.run = runs' /\ row.run \in Nat
    BY <1>0, <1>9 DEF TypeOK, RunPipeline, Row
  <2>2. HoldersWork'
    BY <1>0, <1>9, <2>1 DEF TypeOK, RunPipeline, MustRun, Running, IInv, HoldersWork
  <2>3. SuccessIsDurable'
    BY <1>0, <1>9 DEF TypeOK, RunPipeline, MustRun, IInv, SuccessIsDurable, OutcomeFollowsPc
  <2>4. RunsInOrder' /\ CacheIsCurrent'
    BY <1>0, <1>9, <2>1 DEF RunPipeline, IInv, RunsInOrder, CacheIsCurrent
  <2> QED BY <1>0, <1>9, <2>2, <2>3, <2>4 DEF RunPipeline, IInv, StoredIsSettled
<1>10. ASSUME NEW r \in Request, Complete(r) PROVE IInv'
  BY <1>0, <1>10, QuietStep DEF TypeOK, Complete, Running, IInv, HoldersWork
<1>11. ASSUME NEW r \in Request, SaveFails(r) PROVE IInv'
  BY <1>0, <1>11, QuietStep DEF TypeOK, SaveFails, Running, IInv, HoldersWork
<1>12. ASSUME NEW r \in Request, Commit(r) PROVE IInv'
  <2>1. /\ pc[r] = "commit" /\ row' = Written(r) /\ cache' = cache /\ runs' = runs
        /\ lock = r /\ result[r] = cache /\ result'[r] = cache
    BY <1>0, <1>12 DEF Commit, End, IInv, HoldersWork, Running, TypeOK
  <2>2. /\ row'.status = "completed" /\ row'.ready
        /\ row'.run \in {row.run, cache.run} /\ row'.run >= row.run /\ row'.run >= cache.run
    BY <2>1, WrittenIsSettled
  <2>3. row' # NoRow /\ row.run \in Nat /\ row'.run \in Nat /\ cache.run \in Nat
    BY <1>0, <2>2 DEF NoRow, TypeOK, Row, Result
  <2>4. HoldersWork'
    BY <1>0, <1>12, <2>1 DEF TypeOK, Commit, End, Running, IInv, HoldersWork
  <2>5. RunsInOrder'
    <3>1. \A q \in Request : seen'[q].run <= row'.run
      <4> SUFFICES ASSUME NEW q \in Request PROVE seen'[q].run <= row'.run
        OBVIOUS
      <4>1. seen[q].run <= row.run /\ seen[q].run \in Nat
        BY <1>0 DEF IInv, RunsInOrder, TypeOK, Row
      <4>2. seen'[q] = seen[q] \/ seen'[q].run = 0
        BY <1>0, <1>12 DEF Commit, End, TypeOK, NoRow
      <4> QED BY <2>2, <2>3, <4>1, <4>2
    <3> QED BY <2>1, <2>2, <2>3, <3>1 DEF IInv, RunsInOrder
  <2>6. SuccessIsDurable'
    <3> SUFFICES ASSUME NEW q \in Request, outcome'[q] = "completed"
                 PROVE  row' # NoRow /\ row'.run >= result'[q].run
      BY DEF SuccessIsDurable
    <3>1. CASE q = r
      BY <2>1, <2>2, <2>3, <3>1
    <3>2. CASE q # r
      <4>1. outcome[q] = "completed" /\ result'[q] = result[q] /\ result[q].run \in Nat
        BY <1>0, <1>12, <3>2 DEF Commit, End, TypeOK, Result
      <4>2. row.run >= result[q].run
        BY <4>1 DEF IInv, SuccessIsDurable
      <4> QED BY <2>2, <2>3, <4>1, <4>2
    <3> QED BY <3>1, <3>2
  <2>7. StoredIsSettled' /\ CacheIsCurrent'
    BY <2>1, <2>2, <2>3 DEF IInv, StoredIsSettled, CacheIsCurrent, RunsInOrder
  <2> QED BY <1>0, <2>4, <2>5, <2>6, <2>7 DEF IInv
<1>13. ASSUME NEW r \in Request, Rollback(r) PROVE IInv'
  <2>1. HoldersWork'
    BY <1>0, <1>13 DEF TypeOK, Rollback, End, Released, Running, IInv, HoldersWork
  <2>2. RunsInOrder'
    BY <1>0, <1>13, StaleRowsGone DEF TypeOK, Rollback, End, IInv
  <2>3. SuccessIsDurable'
    BY <1>0, <1>13 DEF TypeOK, Rollback, End, IInv, SuccessIsDurable
  <2> QED BY <1>0, <1>13, <2>1, <2>2, <2>3 DEF Rollback, IInv, StoredIsSettled, CacheIsCurrent
<1>14. ASSUME NEW r \in Request, Abandon(r) PROVE IInv'
  BY <1>0, <1>14, QuietStep DEF TypeOK, Abandon, Running, IInv, HoldersWork
<1>15. ASSUME NEW r \in Request, Collect(r) PROVE IInv'
  <2>1. HoldersWork'
    BY <1>0, <1>15 DEF TypeOK, Collect, End, Released, Running, IInv, HoldersWork
  <2>2. RunsInOrder'
    BY <1>0, <1>15, StaleRowsGone DEF TypeOK, Collect, End, IInv
  <2>3. SuccessIsDurable'
    BY <1>0, <1>15 DEF TypeOK, Collect, End, IInv, SuccessIsDurable
  <2> QED BY <1>0, <1>15, <2>1, <2>2, <2>3 DEF Collect, IInv, StoredIsSettled, CacheIsCurrent
<1>16. ASSUME Restart PROVE IInv'
  <2>1. \A r \in Request : pc'[r] \in {"idle", "done"}
    BY <1>0, <1>16 DEF Restart, Lose, Forget, Active, TypeOK
  <2>2. HoldersWork'
    BY <2>1 DEF HoldersWork, Running
  <2>3. RunsInOrder'
    <3>1. \A r \in Request : seen'[r] \in {seen[r], NoRow}
      BY <1>0, <1>16 DEF TypeOK, Restart, Lose, Forget
    <3>2. cache'.run = 0 /\ cache' = NoResult /\ runs \in Nat /\ runs' = runs /\ row' = row
      BY <1>0, <1>16 DEF TypeOK, Restart, Lose, NoResult
    <3> QED BY <3>1, <3>2, StaleRowsGone DEF IInv, RunsInOrder
  <2>4. SuccessIsDurable'
    BY <1>0, <1>16 DEF TypeOK, Restart, Lose, Forget, IInv, SuccessIsDurable
  <2> QED BY <1>0, <1>16, <2>2, <2>3, <2>4
          DEF Restart, Lose, IInv, StoredIsSettled, CacheIsCurrent
<1>17. ASSUME UNCHANGED vars PROVE IInv'
  BY <1>17 DEF vars, IInv, TypeOK, Holding, HoldersWork, RunsInOrder, StoredIsSettled,
     SuccessIsDurable, CacheIsCurrent, OutcomeFollowsPc, Completed
<1> QED
  BY <1>1, <1>2, <1>3, <1>4, <1>5, <1>6, <1>7, <1>8, <1>9, <1>10, <1>11, <1>12, <1>13,
     <1>14, <1>15, <1>16, <1>17 DEF Next, Step

LEMMA AlwaysIInv == Spec => []IInv
BY InitIInv, StepIInv, PTL DEF Spec

-----------------------------------------------------------------------------
\* Every variable is of its kind; the row is only held by a request being served.
THEOREM TypeCorrect == Spec => []TypeOK
BY AlwaysIInv, PTL DEF IInv

\* The pipeline runs for one request at a time, whatever their number: the
\* flush of EXTRACTING (excel_agent.py) is a lock.
THEOREM Exclusion == Spec => []OnePipeline
<1>1. IInv => OnePipeline
  BY DEF IInv, HoldersWork, OnePipeline, Running
<1> QED BY <1>1, AlwaysIInv, PTL

\* Only completed, ready schemas are ever committed; FAILED never is.
THEOREM Settledness == Spec => []StoredIsSettled
BY AlwaysIInv, PTL DEF IInv

\* A result reported as stored is there for good, or a later run's is.
THEOREM Durability == Spec => []SuccessIsDurable
BY AlwaysIInv, PTL DEF IInv

\* The orchestrator's cache is never older than the stored schema.
THEOREM CacheCurrency == Spec => []CacheIsCurrent
BY AlwaysIInv, PTL DEF IInv

=============================================================================
