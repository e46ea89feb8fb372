# Rosetta: TLA+ models, checks and proofs

The repository holds two programs that answer questions about Excel workbooks
and share no code:

* **`rosetta/`** — one process, everything in memory. A workbook is parsed into
  cells with their dependencies (`parser.py`); questions are answered by rules
  (`qa.py`), or by an LLM that calls tools and whose answers are audited
  (`coordinator.py`, `auditor.py`); what-if tools recompute formulas
  (`evaluator.py`, `graph.py`).
* **`server_akash_version/`** — a multi-user server on PostgreSQL, Redis and
  Qdrant: uploads, an LLM pipeline that describes a workbook, questions answered
  by generated code, conversations with their cost.

This directory models the parts of both where order, failure and shared state
decide whether the result is right. It needs TLC and TLAPS 1.4.5:

    tlc -config MCChatSession.cfg MCChatSession.tla
    tlapm ChatSessionProofs.tla

## Inventory

| Component | State | Operations | Interacts with | Hard behaviours | What makes it correct | Here |
|---|---|---|---|---|---|---|
| chat coordinator, session, auditor, specialist (`rosetta/coordinator.py`, `conversation.py`, `auditor.py`, `specialists/`) | `ConversationState`: history, active entity, overrides, answer cache, tool log | `answer`, set/clear scenario | thread pool of FastAPI, LLM, tools, stores | turns of one session interleave with no lock; audit retries; cache with TTL | what is badged "passed" is grounded; the cache serves what it should; each turn ends and is recorded | `ChatSession`, `GroundedChat` |
| what-if recalculation (`evaluator.py`, `graph.py`, `tools.py`, `parser.py`) | memo, evaluation stack, visited set, queue; cell values while parsing | `value_of`, `forward_impacted`, `_scenario_recalc`, `_what_if`, precompute | called by the tools, by `/what-if`, by the parser | circular references, formulas that raise, one memo for many targets, depth bound, recursion limit | the values are what the formulas mean; the report is exact; it ends | `ScenarioRecalc` |
| dependency graph summary (`parser.py`, `graph.py`) | colours, stack, memo, during one call | `_detect_circular`, `_approx_max_depth`, `backward_trace` | parser, tools | memo inside circles, order of the cells | circles are found, none is invented; a trace shows what feeds a cell | `DependencyGraph` |
| workbook and session stores, ingest (`store.py`, `api.py`) | two dictionaries | put, get, get_or_create, restart | all endpoints | a session of another workbook, of a server that is gone | a session stays with its workbook | `ChatPage` |
| web page (`static/app.js`) | workbook, session, what is in flight | upload, send, reload | `/ingest`, `/chat`, localStorage | late responses after a new upload, overlapping messages | a conversation goes on as long as nothing overlaps | `ChatPage` |
| search, rules, static audit (`tools.py`, `qa.py`, `audit.py`, `embeddings.py`) | none | pure functions on a workbook | coordinator, endpoints | – | – | not modelled |
| workbook processing (`core/services/excel_agent.py`, `agents/orchestrator.py`, `models/excel_schema.py`, `database/session.py`, routes) | a row of `excel_schemas`, `_processed_cache`, the session's transaction | `process_data_source`, `process_in_background` | PostgreSQL, LLM agents, FastAPI's background tasks | concurrent requests with no lock but the database's; rollback; a session used after its request; restarts | one pipeline at a time; the row is usable; a reported success is durable | `WorkbookProcessing` |
| reading workbooks (`agents/extractor.py`, `vector/excel_parser.py`, `vector/chunk_generator.py`) | counters over the sheets | extract, parse, generate chunks | processing, knowledge base | passes with different first rows, headers that span rows or end the sheet | passes agree; regions and sections tile; what chunks list and number is all there is | `Worksheet`, `ExcelParser`, `Extractor`, `WorkbookReading` |
| LLM phases (`agents/mapper.py`, `semantic_enricher.py`) | calls in flight, token counters shared by all requests | map, enrich each sheet at once, summarise | LLM, orchestrator | replies in any order and of any form, some missing | a sheet's enrichment is its own; one failure costs one sheet | `Enrichment` |
| questions, conversations, usage (`services/excel_agent.py`, `services/conversation.py`, `agents/executor.py`) | conversations, messages, totals, usage, query history | `ask_question`, rename, delete, executor loop | processing's row, LLM, code runner | lock of a row, what survives a failed query, retry bounds, generated code with no time limit | the books agree; an answer given is on record | `AskQuestion` |
| data sources, knowledge base (`services/data_source.py`, `vector/`) | file, row, points in Qdrant | upload, index, search, delete | three stores without a common transaction | failures and crashes in between, indexing twice | the stores agree as far as the order of writes keeps them so | `KnowledgeBase` |
| response cache (`core/cache/`) | Redis keys, timers | `cached`, tenant values, removals | decorated functions | function run twice, removal while others store, keys taken apart | a removal removes; nothing crosses tenants | `ResponseCache` |
| auth, repositories, middlewares, exceptions, logging, user interface of the server | – | – | – | – | – | not modelled: CRUD on a framework, request plumbing, presentation |

`PROJECT.json` lists the components with their files, every definition with the
lines it models, and the hazards of the code with the properties aimed at them.

## Modules

| Module | What it is |
|---|---|
| `ChatSession` | a session shared by concurrent calls of `coordinator.answer` and the scenario endpoints |
| `GroundedChat` | what a session promises, with no cache, audit or retry; implemented by `ChatSession` |
| `ChatPage` | which workbook and session a question goes to: page, endpoints, stores |
| `ScenarioRecalc` | recomputing a workbook under overrides, and filling in missing values when parsing |
| `DependencyGraph` | the graph summary and the traces of the same workbooks; extends `ScenarioRecalc` |
| `WorkbookProcessing` | processing one data source: requests, background task, transaction, cache, restarts |
| `Enrichment` | the LLM phases of several workbooks in process at once |
| `Worksheet`, `ExcelParser`, `Extractor` | sheets, and the two readers of one, as functions |
| `WorkbookReading` | the readers' loops over a workbook; extends both |
| `AskQuestion` | questions of one user, their conversations and books, renaming and deleting |
| `Conversations` | what asking questions promises, with no transactions, locks or clocks; implemented by `AskQuestion` |
| `KnowledgeBase` | data sources through upload, background indexing, search and deletion |
| `ResponseCache` | the decorator, tenant values and removals over a Redis that fails |
| `ChatSessionProofs`, `ChatPageProofs`, `ScenarioRecalcProofs`, `WorkbookProcessingProofs`, `AskQuestionProofs`, `KnowledgeBaseProofs`, `ResponseCacheProofs` | the theorems about each, for all values of its constants |
| `PipelineProofs` | the theorems about `WorkbookReading` and `Enrichment`, which have no state in common |
| `MC*` | the instances TLC checks |

How they fit. In rosetta, `ChatPage` picks the session whose inside is
`ChatSession`; its tools are `ScenarioRecalc` and `DependencyGraph`. In the server
`KnowledgeBase` takes the file in and starts the background task, whose pipeline is
`WorkbookProcessing`; what happens inside the pipeline, which is one step there, is
`WorkbookReading` (the extractor) and `Enrichment`; the parser and chunk generator
of `WorkbookReading` are the `Generate` step of `KnowledgeBase`; `AskQuestion`
starts from the row `WorkbookProcessing` left.

Definitions in a module whose comment begins with "Fault" are plausible bugs of
the definition that follows; nothing uses them but the runs that check that a
property notices (`PROJECT.json`, "mutants").

### ChatSession

`POST /chat` is a plain `def`, so FastAPI runs each call in a thread of its own;
no lock guards `ConversationState`. A call of `answer` is a `Turn` with a program
counter; an action is the stretch of `answer` up to the next point at which other
threads can see or change something that matters:

| Actions | Code |
|---|---|
| `AppendUser` | `state.append_user(message)` |
| `CacheHit`, `CacheMiss` | `question_hash`, look-up, freshness, and the return with no API key |
| `BuildMessages` | `_build_claude_messages`, which reads entity and overrides *again* |
| `CallTool`, `LlmAnswers`, `HitToolCap`, `LlmFails` | `_run_tool_loop`: a tool call at a time, the end of a turn, the loop exhausted, the SDK raising |
| `Delegate` | `_maybe_delegate_to_explainer` |
| `AuditPass`, `AuditRetry`, `AuditGiveUp` | `auditor.audit` and the three ways on |
| `CollectEvidence`, `StoreAnswer`, `Reply` | the post-processing, in its order |
| `SetScenario`, `ClearScenario`, `ClearAllScenarios`, `Expire` | the scenario endpoints, and time passing the TTL |

A text is the set of claims it states (numbers, refs, categories), the first cell
it mentions and its kind. The audit is then a subset test: the workbook's own
claims (`Native`) and those in the tool log back a text. What the LLM, the
specialist and the tools say is any set of claims. A cached answer is named by the
turn that stored it.

### ScenarioRecalc

A formula is the sequence of cells it reads; its value is the term `<<"result", cell,
values read>>`, so two values are equal exactly if the same inputs made them. The
recursion of `value_of` is the explicit `stack` of formulas in progress: `Enter` adds to
`_eval_stack`, `Read` is a call that returns at once (override, memo, no cell, literal,
circle), `Compute` memoises, `Raise` is the `except` branch after any number of reads:
the formula is `broken`, or the chain is as long as the interpreter lets the recursion
get (`MaxOpen` formulas open at once, a `RecursionError`), in which case a formula with
nothing wrong in it falls back to its cached value too. That depth is some hundred
formulas, and depends on how long they are; `NoneTooDeep` says that no formula ran into
it, and what is claimed of values is claimed then. `StartTrace`/`Visit`/`TracesDone` are
`forward_impacted` for each override; the children of a cell are queued in any order,
and a cell `MaxDepth` steps down is not followed further. `Within` says by paths which
cells a trace should find, with no queue and no visited set. `AskFor`/`Take` are the
loop over the targets, in the order of a Python set, and of
`_precompute_missing_values`, where `Take` writes `cell.value`. Functions that read only
some cells of a range (`VLOOKUP`, `INDEX`) are taken to read them all. An edge missing
from `depends_on` (a range of over 5000 cells is a single logical edge) is in
`unlinked`.

### DependencyGraph

The three searches are functions of a workbook and of the order in which its cells come,
which is that of the sheet. Each recursion returns the mutable state it threads (`Dfs`:
colours, stack and circles; the memo of the depth; the visited set of a trace). A node
of a trace is its ref. `GraphIsDescribed` is checked for all orders of the cells at
once: every circle reported is one and every workbook with circles has one reported; the
depth is the longest chain when there is none; traces are compared, at every depth bound
from 0 to beyond the longest chain, with what feeds a cell by paths (`FeedersAreShown`):
they show nothing else, the feeders two steps away at least, and everything if no chain
is longer than the bound. They do not show everything within a bound that a chain
exceeds (see the findings). With circles the memoised depth depends on the order of the
cells, so nothing is claimed of it.

### ChatPage

The page's `workbookId` and `sessionId`, the calls it waits for, each `/ingest`
and `/chat` on its way (`sent`, `answering`, `answered`, `failed`), and the two
stores. A session is named by the message it was made for. `ingest` is an `async
def` that never awaits between parsing and indexing, so it is one step. `Loaded`,
`Hear` and the error handlers are the continuations in `app.js`, in any order.
`Reload` keeps `sessionId`, as localStorage does; `Restart` empties the stores.

### WorkbookProcessing

One data source; a request is a call of `process_data_source`, those in
`Background` are made by `process_in_background`. Its `ExcelSchema` object is
`draft`, the row as it was loaded is `seen`, and `Written` is what the UPDATE at
the end leaves: columns whose value equals the loaded one are not written. `lock`
is the row lock (or the pending INSERT) that a flush takes and the end of the
transaction releases. A result names, for mapping and enrichment, the pipeline
run that made it, 0 being `{}`. `Rollback` is `get_session` on an exception;
`Abandon` and `Collect` are the background task, whose session was closed before
it began, opens a new transaction by being used, and is neither committed nor
rolled back when it fails. `Restart` loses all that is in memory.

### AskQuestion

A request is one database session from its first query to its commit: `draft` is what it
has written, `seen` the total it loaded, `lock` the row of the conversation, taken by
the first flush that updates it and held to the end. `Attempt` is once around
`_generate_code_node`, `_execute_code_node` and `_should_retry`. An attempt is three
steps of the LangGraph graph (`generate_code`, `execute_code`, `handle_error`), the last
one two, and `WithinStepLimit` is whether LangGraph's recursion limit lets it begin;
once it does not, only `GenerateFails` is left, which is what `execute` makes of a
`GraphRecursionError`. `LoopForever` is generated code that does not end: `exec`
(`executor.py:318`) has no time limit and runs on the event loop. `DatabaseFails` undoes
all, as `get_session` does; `BreakOff` is an exception that is not the database's, after
which the transaction is committed without a reply. A total is the set of the questions
it adds up, so a lost update shows as a missing member. `Conversations` is the same seen
from the tables: a question enters a conversation with all that became of it in one step
(`Exchange`, or `BreakOff` without a reply) or leaves no trace (`Decline`). It grants
that a total has lost other questions, as the code does, never the question's own.

### KnowledgeBase

A task is a request; an upload goes on as its background task. Each write of a
store is an action of its own, in the order of the code, and each may fail
(`Breaks`, `UpsertFails`, `EmbedBatchFails`); `Crash` may come anywhere. A vector is
named by the text it was made of, a point by its run and chunk, so a point of the
wrong vector or run is seen. A vector has the dimension that was asked for or another:
`Embedded` is what the code counts, `Valid` what `_upload_chunks` then lets through, and
`misfit` remembers the runs in which these differ. A file whose chunks are all empty is
a failure for a workbook, which has an overview at least, and an indexing of none for
the formats in `OtherFormat`. What TLC needs of a workbook is how many chunks it
has and whether its analysis can be stored as JSON.

### ResponseCache

A task is a call of the library, which gives way at each command of Redis. A tenant's
key is the sequence of the parts it joins: two are equal exactly if the code makes equal
strings of them, as no part has a colon in it. A function's key is its tag and what it
is called (`NameOf`: module, `__name__`, parameter names run together), which functions
may share; what it is called with, and by whom, is no part of it. `Get`, `Set` and the
page by page `Scan`/`Delete` may be refused; `RunRaises` is the wrapped function raising
into the `except` that takes it for a failure of the cache. `timing` is
`CacheMetrics._start_times`. No route uses the library yet; tasks call it as its own doc
comments show.

### Worksheet, ExcelParser, Extractor, WorkbookReading

A value is a type and a text that stands for all texts with the same keywords, a formula
the kinds of function and the sheet names in it. The helpers of the two readers are
operators on a sheet with the source's names, `WorkbookReading` the loops that call
them. Merged ranges come in any order (openpyxl keeps a set). A loop over cells that
keeps some of them is the set kept, put in the order of `iter_rows` (`ByRows`); `told`
counts the sheets the chunk generator's loop is through with. The formula and the error
chunk list the first `ListLimit` (10 in the code) of a category or type by address and
number the rest (`Listing`). What a workbook is (`BookAssumption`) is what openpyxl
hands out: sheets with names of their own, rows of one length, at least one of them and
with a cell in it.

### Enrichment

A reply is its form, the fields it gives as null or leaves out, the names it uses
and its tokens; what the fields say is left out. `EnrichSheet` is a call of
`_enrich_sheet` that returns, in any order with those of other workbooks;
`Collect` is what follows `asyncio.gather`.

External behaviour, from the locked versions (FastAPI 0.116, Starlette 0.47,
SQLAlchemy 2.0.43, PostgreSQL at READ COMMITTED): dependencies with `yield` end
before background tasks run; `autoflush` is off; one process has one
orchestrator. `AskQuestion` takes of PostgreSQL that a flush that updates a row waits
for its other writers, and that a foreign key with ON DELETE CASCADE takes the
messages along. `ResponseCache` takes of Redis that a full SCAN returns every key
that is there from its beginning to its end, and may return others.
`KnowledgeBase` takes of Qdrant that an upsert with `wait` is there when it
returns, a delete by filter is one step, and a second `create_collection` fails.

## Runs

| Run | Shows | Bounds |
|---|---|---|
| `chat_safety` | `TypeOK`, `PassedIsGrounded`, `CacheIsSound`, `SpecialistBounded`, `HistoryPairsUp`, and that the session implements `GroundedChat` | 2 turns, 1 question, 1 override, 1 claim backed by tools only, 2 LLM calls an attempt, 1 retry, 1 tool call a turn; 2.3 million states |
| `chat_live` | `EveryTurnEnds` | 2 turns, 2 tool calls a turn, several in one response; a cell that becomes the active entity |
| `chat_stale_hit` | *violated*: a hit serves an answer made under other overrides | 2 turns |
| `chat_evidence` | *violated*: evidence of an answer from another turn's calls | 2 turns |
| `page` | `WorkbookIsNamed`, `ConversationIsKept` | 2 uploads, 4 messages, any reloads and restarts; 180 000 states |
| `recalc` | `NoReentry`, `MemoIsReference`, `ChangesAreExact`, `PrecomputeIsReference`, `GraphIsDescribed`, `RequestEnds` | the workbooks of `MCWorkbooks`, of 3 cells and chains of 5, any overrides, any target; traces of 2 steps, a recursion of 4 formulas; the traces of the graph at every depth; 73 000 states |
| `processing` | `StoredIsSettled`, `OnePipeline`, `SuccessIsDurable`, `CacheIsCurrent`, `EveryRequestEnds` | a background task and 2 requests, any failures, any restarts |
| `ask` | `TranscriptAlternates`, `BooksAgree`, `AnswerIsOnRecord`, `DeletedIsGone`, `RenameIsKept`, `EveryRequestEnds`, and that it implements `Conversations` | 2 questions, 2 edits, 1 conversation there is already, 3 iterations, of which the graph's 6 steps allow 2; 230 000 states |
| `cache` | `RunsAgainOnlyAfterRaise`, `RemovedIsGone`, `NothingCrosses` | 3 calls, 3 functions of one tag, 2 of them of one name, 2 arguments, 2 tenants, 1 user in both; 320 000 states |
| `knowledge` | `RowHasFile`, `CountIsStored`, `VectorIsOwn`, `DeletedIsGone` | 3 requests, 2 users, a workbook of 3 chunks in batches of 2 whose vectors have the right dimension or another, an `.xls`, a file that is refused; 3.4 million states |
| `reading` | `CountsAgree`, `RegionsTile`, `ChunksCoverWorkbook`, `SectionsTile` | the books of `MCWorkbookReading`: tables of 3 rows, single rows, section headers of every arrangement, pairs of sheets; 2 formulas or errors of a kind listed; 22 000 states |
| `enrichment` | `SheetsAreOwn`, `FailureIsContained` | 2 workbooks of 2 sheets, replies of every form; 370 000 states |

A type invariant is checked where it bounds counters (`chat_safety`).

Why the bounds are enough. Chat: everything a turn reads of others is one entry of the
cache, the overrides, the log and the history; two turns and one override give every
order of two readers and writers of each, a hit on an entry that the other turn
replaced, and an audit against the other's calls. Two LLM calls and one retry are one
beyond "the loop is not repeated". Recalculation: three cells hold a circle of two with
a cell outside it, a circle of three, a cell that reads itself, a diamond, and a formula
that reads a broken one; five in a chain go beyond the depth bound and beyond the
recursion, with and without a short cut that reaches a cell on a shorter path than the
first, and hold a missing value in too few formulas for the parser to recompute them. A
depth of 2 and a recursion of 4 stand for the code's 12 and some hundred: what the
bounds cut off is one cell from the last, and the last. Processing: two user requests
are needed for a lost update, the third is the one whose session outlives its request; a
run of the pipeline per request bounds `runs`. Page: four messages are two that overlap
nothing, before and after two that overlap everything; two uploads are the least for a
late response of another workbook. Questions: two give every order at the one row they
share, against a rename and a delete at each point of either; 3 iterations and 6 steps
are the code's 10 and LangGraph's 25, in which the second bound is met first, so that
the loop ends in an exception. Cache: a removal, a call that stores during its scan, and
one that removes or reads too. Knowledge base: uploading, indexing a second time and
deleting or searching meanwhile take three requests; three chunks in batches of two make
a full and a short batch, of which either may fail or come with another dimension, alone
or together; an analysis that cannot be stored ends as a row that cannot be written does,
which is a failure there may be in any case. Reading: three formulas of a category are one more than are listed; all
that the readers decide looks at one row and the next, at the first and the last, or at
one column. Enrichment: two sheets are a success beside a failure, two workbooks share
the counters. The proofs below hold with no bounds.

`CHECK_DEADLOCK FALSE`: the models stop when every call has been served.

**Fairness.** `ChatSession`: a thread that has begun `answer` goes on (WF of a
turn's step once it has left "idle"); a call to the LLM ends with a response or
the client's own timeout, so it is a step like any other; no fairness for users,
scenario changes or the TTL. `ScenarioRecalc`: WF of the one thread.
`WorkbookProcessing`: WF of the step of each request: the event loop runs tasks
that are ready, PostgreSQL wakes writers that wait, the collector gets to an
unreachable session. None for submitting or restarting. A waiting `Flush` is
enabled only when the lock is free; weak fairness suffices because holders
are finitely many and each request takes the lock once. `AskQuestion`: WF of the
steps of each request while no generated program loops (`LoopIsFree`), for the same
reasons; none for submitting or editing. A program that loops forever holds the event
loop, and with it every request of the process: from then on nothing is assumed to
happen, and `EveryRequestEnds` promises nothing. Code that does end, the call to the LLM
with its client's timeout and the step limit make the attempts finitely many. The
other models claim no liveness.

### Where code and documents disagree

The violated properties state what the repository says:

* `HitMatchesScenario` — `docs/plan_v1_5.md:205`, "Cache hit only if
  `scenario_overrides == {}` OR the scenario signature matches exactly". The key
  is computed before the prompt is built; an override set in between files the
  answer under a scenario it was not made in. `CacheIsSound` shows how far the
  guarantee does go: an entry is always under the key its own turn looked up.
* `EvidenceIsOwn` — `coordinator.py:330`. `tool_call_log[-0:]` is the whole log.

Findings with no run of their own, each with its lines in `PROJECT.json`:

* the specialist runs once for each attempt at an answer, twice with one retry, where
  `docs/plan_v1_5.md:350` says "at most once per turn"; `SpecialistBounded` is the bound
  the code keeps, and passes where the plan's would not;
* a trace shares one visited set among all its paths, so a cell within the depth can be
  missing below one that was first met at the end of a longer path (`graph.py:50`);
* generated code has no time limit: `AGENT_TIMEOUT_SECONDS` (`config.py:130`) is read
  nowhere, and a program that loops forever stops the server with the conversation's
  row locked (`executor.py:318`);
* chunks are counted as indexed before those with a vector of another dimension are
  skipped (`knowledge_base.py:206`);
* functions of a module with one `__name__` and the same parameter names share a key and
  are served each other's responses (`custom_key_maker.py:24`);
* `forward_impacted` stops at 12 steps, so `scenario_recalc` does not recompute
  "all cells impacted" of a longer chain (`tools.py:128`);
* `mark_completed` calls a workbook ready whose mapping and enrichment both failed
  (`orchestrator.py:195`), and a question about it is then asked with `{}`
  (`orchestrator.py:240`);
* two forced requests can leave the mapping of one run beside the enrichment of the
  other (`excel_schema.py:32`);
* of two questions asked at once in a conversation, the second loses the first's
  tokens and cost from the totals (`models/conversation.py:88`);
* a numpy number or a timestamp in an answer undoes the question and its usage
  (`executor.py:323`); a date in a sheet makes its manifest impossible to store
  (`extractor.py:601`);
* keys of decorated functions hold the names of the parameters, not their values
  (`custom_key_maker.py:12`); removal by tenant or user removes nothing
  (`tenant_cache.py:241`);
* indexing a data source again doubles it (`data_sources.py:297`); a `.csv` is
  allowed and never accepted (`config.py:120`);
* a reply that gives null as told costs the whole workbook its enrichment
  (`semantic_enricher.py:66`); token counts of concurrent workbooks mix;
* a late response brings back the session of the workbook the page has left
  (`app.js:164`).

Met while modelling: `FAILED` and the busy statuses are
never committed, so "Processing already in progress" is not reached
(`StoredIsSettled` says so); the text of the tool cap states nothing, so passes
its audit and is cached;
`plan_v1_5.md:302` wants a cached answer audited again, which `PassedIsGrounded`
shows to be unnecessary; the auditor takes findings of the workbook for backing
that no tool has returned; `messages[-1]` in `_build_claude_messages` may be
another thread's message; the cache key leaves out the active entity.

## Proofs

TLAPS proves, for every value of the constants, every safety invariant and action
property that the passing runs check but `GraphIsDescribed`, and both refinements.
Each `...Proofs` module has an inductive invariant (`IInv`, for the readers
`ReadingInv`), lemmas that each action keeps it, and theorems that follow from it.

| Module | Theorem: property | From |
|---|---|---|
| `ChatSessionProofs` | `TypeCorrect`, `Grounding`: `PassedIsGrounded`, `CacheSoundness`: `CacheIsSound`, `SpecialistBound`: `SpecialistBounded`, `HistoryPairing`: `HistoryPairsUp`, `Refinement`: `ImplementsGroundedChat` | `ChatAssumption` |
| `ChatPageProofs` | `WorkbookNaming`: `WorkbookIsNamed`, `ConversationKeeping`: `ConversationIsKept` | `CallAssumption` |
| `ScenarioRecalcProofs` | `Reentry`: `NoReentry`, `Recalculation`, `MemoMeaning`: `MemoIsReference`, `Precomputation`: `PrecomputeIsReference`, `Exactness`: `ChangesAreExact` | `WorkbookAssumption`, `DepthAssumption`, `CellAssumption` |
| `WorkbookProcessingProofs` | `TypeCorrect`, `Exclusion`: `OnePipeline`, `Settledness`: `StoredIsSettled`, `Durability`: `SuccessIsDurable`, `CacheCurrency`: `CacheIsCurrent` | `RequestAssumption` |
| `AskQuestionProofs` | `OneWriterAtATime`, `TranscriptInOrder`: `TranscriptAlternates`, `BooksAlwaysAgree`: `BooksAgree`, `AnswersStayOnRecord`: `AnswerIsOnRecord`, `DeletionIsFinal`: `DeletedIsGone`, `TitlesAreKept`: `RenameIsKept`, `QuestionsAreSerial`: `ImplementsConversations` | `AskAssumption` |
| `KnowledgeBaseProofs` | `RowsHaveFiles`: `RowHasFile`, `CountsAreStored`: `CountIsStored`, `VectorsAreOwn`: `VectorIsOwn`, `DeletionReachesAll`: `DeletedIsGone` | `ChunkAssumption`, `NothingAssumption` |
| `ResponseCacheProofs` | `RunsOnce`: `RunsAgainOnlyAfterRaise`, `RemovalRemoves`: `RemovedIsGone`, `ValuesNeverCross`: `NothingCrosses` | `KeyAssumption` |
| `PipelineProofs` | `ReadingInvariance`, `CountsAlwaysAgree`: `CountsAgree`, `RegionsAlwaysTile`: `RegionsTile`, `ChunksAlwaysCoverWorkbook`: `ChunksCoverWorkbook`, `SectionsAlwaysTile`: `SectionsTile` | `BookAssumption`, `ListAssumption` |
| `PipelineProofs` | `SheetsStayOwn`: `SheetsAreOwn`, `FailureStaysContained`: `FailureIsContained` | `SheetAssumption` |

What is assumed of the constants. The assumptions say that kinds of calls are told apart
and that `Nothing`, `NoTurn` and the like are none of what they stand for the absence of;
that bounds are naturals; that a workbook's cells are finitely many (`CellAssumption`);
that no two sheets of a workbook have one name, as openpyxl sees to (`SheetAssumption`),
and that a sheet is a table of cells in rows of one length (`BookAssumption`);
and that no tenant goes by `user` (`KeyAssumption`): a tenant's part of a key is a UUID,
and without it the context read off a key may be another.

The arguments:

* **`ChatSession`.** `IInv` adds to the properties
  * `StatusFollowsPc`: which status a turn may have at which point, so that only
    audited texts are collected, stored and replied;
  * `DelegationsFollowRetries`: delegations never exceed the attempts begun, one
    less before the specialist of the attempt has run;
  * `EntriesAreSettled`: a turn named by the cache has stored its answer, so that
    its text changes no more.

  `PassedIsGrounded` is not inductive alone: a hit copies a text on the strength
  of `CacheIsSound`, which rests on the third; the log only grows (`LoggedGrows`),
  so what was backed stays backed. The history pairs up because a turn's places in it
  are none, one or two by its program counter (`PairedUp`). The refinement maps each
  action to `Learn`, `Vouch`, `Hedge`, `Fail` or a stutter.
* **`ChatPage`.** For `WorkbookIsNamed`, what a session is named after has been sent, so
  that its workbook is settled before the session can be handed out
  (`SessionsAreSent`). For `ConversationIsKept` (`KInv`), once a message was answered
  alone, its session is what every later message sent alone about that workbook names
  (`SessionIsFollowed`), since the page never returns to a workbook (`WorkbookWasLoaded`)
  and of the messages about a workbook at most one is alone and under way
  (`OneUnderWay`).
* **`ScenarioRecalc`.** `StackIsSound`: what is on the stack are formulas without an
  override, each once. For what is computed, the invariant speaks of any assignment that
  solves the equations of the cells (`Solves`) and any rank that falls along the reads
  (`Ranks`): ranks fall along the stack, so the early return for a circle is never
  taken; each frame holds the right values so far; what is not computed has its cached
  value in the memo (`Settled`), so that the parser's writing into the workbook changes no
  solution (`SolutionsKept`). That a workbook without circles has a rank (`AcyclicRanks`),
  and that the recursive `Reference` then solves the equations (`ReferenceMeans`), takes
  induction. The library's principles are about operators, which no prover here can
  instantiate; it is done with sets instead: `LeastOfSet`, `StrongInduction` and
  `IteratesExist` follow from the well-foundedness of `<` alone.

  All this is under `NoneTooDeep`: `unsupported` only grows (`DeepKept`), so if it ends
  with broken formulas only, no `Raise` on the way was one of the recursion.

  `Exactness` needs the trace, and that it is breadth first. While a trace works at
  depth *h* (`TracingAt`), the queue is what is left at *h* followed by what was found
  at *h* + 1, and the cells seen are those within *h* steps and those found one step
  further (`TracingStep`); a level that adds no cell ends the growth (`WithinClosed`),
  so a trace that has emptied its queue has seen exactly the cells within `MaxDepth` of
  its override (`TraceIsSound`, `ReachIsFound`), whatever the order of the children and
  with one visited set: unlike `backward_trace`'s, this search meets a cell on a
  shortest path. What is in reach was asked for and is reported if it is another value
  (`Taken`); if no edge leads out of reach, what is beyond reads only what is beyond,
  and by induction on its rank means what it was saved with (`OutOfReach`).
* **`WorkbookProcessing`.** `HoldersWork`: a request in the pipeline holds the lock, its
  result is the cache's while it saves, its draft is that result completed.
  `RunsInOrder`: neither the row nor the cache nor a loaded row is ahead of the runs
  begun, and a loaded row is not ahead of the stored one. `OutcomeFollowsPc`: only a
  call that is over has an outcome. `WrittenIsSettled` is the heart: whatever columns an
  UPDATE leaves out, the row it leaves is complete and of a run no older than the one
  before.
* **`AskQuestion`.** A question between its first flush and its commit holds its
  conversation's row (`RowIsHeld`), and its draft has what its program counter says
  (`DraftFits`). Two more facts carry the books: the total a question loaded is of
  questions that have their reply (`SeenIsReplied`), and its messages are younger than
  all that are in the conversation it holds (`InThePast`), which keeps transcripts in
  order although their order is only `created_at`'s. The same facts make it implement
  `Conversations` (`SerialStep`): a commit is an `Exchange` if the reply was charged and
  a `BreakOff` if not (`SerialCommit`), and comes after all that is there
  (`LastInOrder`); a refusal or a failure of the database is a `Decline`; every other
  statement of a question is a stutter, as the tables and the outcomes show nothing of a
  draft.
* **`KnowledgeBase`.** The file comes before the row (`UploadIsOwn`) and the row before
  the index (`SourceIsThere`); the list of vectors keeps the places of the chunks,
  whatever batches failed (`VectorsInOrder`); a run's points are stored at once and are,
  until a deletion, no more than were counted, and as many but for a run in `misfit`,
  which stays there (`RunIsWhole`, `MisfitStays`, `StillTells`), and what is counted
  belongs to runs that are over (`CountedIsOver`).
* **`ResponseCache`.** The keys of tenants are injective and apart from those of
  functions (`TenantKeyIsOwn`, `KeysApart`, `ContextIsRead`); an entry is of the subject
  its key is made from (`EntryIsOfKey`). A removal meets, page by page, all it was
  called for: what it has not met yet was stored after it began (`RestIsYounger`).
* **`WorkbookReading`.** `ReadingInv` says of each list that it holds what the functions
  of a sheet give, sheet by sheet, that the totals are the sums so far, and that the
  chunks of a sheet that was told lie together from some place on while no other chunk
  is of that sheet (`Block`), which later sheets do not disturb, names being distinct
  (`BlockStays`). The rest is about one sheet, of any size:
  * `SheetCounts`: the passes by columns begin below the header and those by rows at the
    top; both count pairs of a row and a column (`CountPairs`), so they differ by the
    header row;
  * `RegionsOfSheet`, `SectionsOfSheet`: a region, and a section, ends before the next
    begins and the last reaches the end of the sheet (`SectionsOneByOne`), although
    reading under the last header makes the sheet longer (`MaxRowGrows`);
  * `ChunksOfSheet`: each purpose has one chunk of columns (`EachKeyOnce`), a column has
    one purpose, the sizes of the groups add up to the whole (`GroupsAddUp`), and a
    listing lists the first places of a kind and numbers the rest (`ListingTells`).

  They rest on facts the library does not have: that a sum over a finite set exists and
  does not depend on the order (`SumsExist`, `SumTakesOff`), and that a finite set of
  numbers can be put in order (`CountInOrder`), by induction over subsets
  (`SubsetInduction`, from the well-foundedness of the strict subset order).
* **`Enrichment`.** The sheets that are stored are what the calls came to, in place
  (`SheetsKept`); a name that one reply alone claims stands for that reply
  (`OnlyOneOfName`).

The invariants were checked with TLC before they were proved, `ScenarioRecalc`'s as far as
it does not speak of all assignments. One property turned out to be false:
`ChangesAreExact` used to be stated for all workbooks, and with a value missing in fewer
than 30% of the formulas the report leaves out a cell that has none and is downstream of
no override. The three cells of the run were too few for it. The property now says so, and
the run has chains of five cells.

Only model-checked: `GraphIsDescribed`, whose searches are RECURSIVE operators, for which
the prover has no backend; and liveness (`EveryTurnEnds`, `RequestEnds`, both
`EveryRequestEnds`), which is beyond TLAPS here.

## Not modelled

Arithmetic of the worksheet functions, formula tokens, text matching of the auditor
(tolerances, dates), prompts, search ranking, HTTP status codes, authentication, logging
and the user interfaces; `what_if` through a named range
(`forward_impacted_for_named_range`), though `_scenario_recalc` resolves a name to its
cell, which is an override like any other; how deep exactly Python's recursion gets; the
trace shown beside an answer; turn numbers of messages; the sheet extract put into the
executor's prompt (`_build_sheet_extract`); number formats, charts, validations and
styles of a sheet; the price table of tokens; the page's chips and scenario panel; the
indexer's `.csv` branch, which no upload reaches; the comments of a sheet, which chunks
only count, and the named ranges, of which they tell twenty; a reply of OpenAI with
fewer vectors than texts. LangGraph's default limit of steps depends on its version,
which `pyproject.toml` leaves open (`>=0.2.0`) and `uv.lock` fixes at 1.1.6: where it is
25, the ten attempts of `AGENT_MAX_ITERATIONS` are never reached. `RegionsTile` is about
sheets of two rows or more; in a sheet whose first row holds only zeros or formulas
without a cached value, that row is in no region. `SectionsTile` is about headers that
begin on different rows: of two side by side, the code makes an empty section first.
Several sessions or data sources at once in `ChatSession` and `WorkbookProcessing`: they
share nothing but the stores' dictionaries and the orchestrator's cache, whose keys are
distinct.

## Plan

1. `what_if` through named ranges (`forward_impacted_for_named_range`), whose traces are
   those of `Exactness` with several sources in one queue.
2. An abstract specification for `KnowledgeBase`: a store of data sources.
3. Several sessions and data sources at once, if code comes to share more than the
   stores' dictionaries between them.
