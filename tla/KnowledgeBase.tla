--------------------------- MODULE KnowledgeBase ---------------------------
(***************************************************************************)
(* Data sources and the knowledge base they are indexed into               *)
(* (server_akash_version/core: services/data_source.py, vector/            *)
(* knowledge_base.py, embedding.py, client.py and their routes).           *)
(*                                                                         *)
(* A task is one request; the one that uploads a workbook goes on as its   *)
(* background task.  Tasks share the upload directory, the table           *)
(* data_sources, one Qdrant collection and OpenAI, each of which may fail, *)
(* and the process may be killed at any time.  A data source is named by   *)
(* the task that uploaded it, a point by the task that indexed it and the  *)
(* number of its chunk.                                                    *)
(***************************************************************************)
EXTENDS Naturals, FiniteSets, Sequences

CONSTANTS
  Task,
  User,
  Content,      \* what an uploaded file may hold
  Chunks,       \* the number of chunks generated from each; 0: it cannot be read
  OtherFormat,  \* those that are not .xlsx: .csv, .xls
  Storable,     \* those whose analysis the database can store as JSON
  Refused,      \* those create_data_source refuses
  BatchSize,    \* EMBEDDING_BATCH_SIZE
  Nothing

ASSUME ChunkAssumption == Chunks \in [Content -> Nat] /\ BatchSize \in Nat \ {0}
\* Nothing stands for None.
ASSUME NothingAssumption == Nothing \notin Task \cup User \cup Content

VARIABLES
  files,       \* the content of each task's uploaded file, or Nothing
  rows,        \* the committed row of each data source, or NoRow
  collection,  \* whether the collection exists
  points,      \* the points in it
  pc,
  job,         \* the user and the data source of the request
  loaded,      \* the row as the task loaded it
  vectors,     \* valid_embeddings: what OpenAI returned so far, <<>> for a failure
  counted,     \* points counted before a deletion
  answer,      \* what the caller was told
  time,        \* commands that have written to the collection
  since,       \* the time each task began
  gone,        \* history: indexing tasks whose points were deleted
  misfit       \* history: those that were given a vector of another dimension

vars == <<files, rows, collection, points, pc, job, loaded, vectors, counted, answer,
          time, since, gone, misfit>>
store == <<files, rows, collection, points, time, gone, misfit>>

-----------------------------------------------------------------------------
\* meta_info["knowledge_base"], absent in the metadata of the upload.
NotIndexed == [by |-> Nothing, chunk_count |-> 0]
NoRow == [user_id |-> Nothing, content |-> Nothing, knowledge_base |-> NotIndexed]
NoAnswer == [status |-> "none", result |-> {}, count |-> 0]
NoJob == [kind |-> "none", user |-> Nothing, source |-> Nothing]

Init ==
  /\ files = [p \in Task |-> Nothing] /\ rows = [p \in Task |-> NoRow]
  /\ collection = FALSE /\ points = {}
  /\ pc = [p \in Task |-> "idle"] /\ job = [p \in Task |-> NoJob]
  /\ loaded = [p \in Task |-> NoRow] /\ vectors = [p \in Task |-> <<>>]
  /\ counted = [p \in Task |-> 0] /\ answer = [p \in Task |-> NoAnswer]
  /\ time = 1 /\ since = [p \in Task |-> 0] /\ gone = {} /\ misfit = {}

Goto(p, l) == pc' = [pc EXCEPT ![p] = l]
Continue(p, l) == Goto(p, l) /\ UNCHANGED <<loaded, vectors, counted, answer>>

\* A request that ends forgets its locals.
Stop(p) ==
  /\ Goto(p, "done")
  /\ loaded' = [loaded EXCEPT ![p] = NoRow]
  /\ vectors' = [vectors EXCEPT ![p] = <<>>]
  /\ counted' = [counted EXCEPT ![p] = 0]
Return(p, status, result, count) ==
  /\ Stop(p)
  /\ answer' = [answer EXCEPT ![p] = [status |-> status, result |-> result, count |-> count]]

\* The caller of an upload has had its answer when the background task starts.
InBackground(p) == job[p].kind = "background"
\* An exception ends the request, and its session is rolled back; in the background
\* it is only logged.
Fail(p) == IF InBackground(p) THEN Stop(p) /\ UNCHANGED answer ELSE Return(p, "failed", {}, 0)

Begin(p, kind, u, s, first) ==
  /\ pc[p] = "idle"
  /\ job' = [job EXCEPT ![p] = [kind |-> kind, user |-> u, source |-> s]]
  /\ since' = [since EXCEPT ![p] = time]
  /\ Goto(p, first)
  /\ UNCHANGED <<store, vectors, counted, answer>>

Upload(p, u, c) ==
  /\ Begin(p, "upload", u, p, "persist")
  /\ loaded' = [loaded EXCEPT ![p] = [NoRow EXCEPT !.user_id = u, !.content = c]]
Ask(p, kind, u, s, first) == Begin(p, kind, u, s, first) /\ UNCHANGED loaded
Index(p, u, s)    == Ask(p, "index", u, s, "load")
Remove(p, u, s)   == Ask(p, "remove", u, s, "count")
Search(p, u, s)   == Ask(p, "search", u, s, "embed_query")
Analysis(p, u, s) == Ask(p, "analysis", u, s, "load")

-----------------------------------------------------------------------------
\* create_data_source validates, reads the sheet names, writes the file and flushes
\* the row; get_session commits it when the route returns.
RefuseUpload(p) ==
  /\ pc[p] = "persist" /\ loaded[p].content \in Refused
  /\ Return(p, "refused", {}, 0)
  /\ UNCHANGED <<store, job, since>>
\* Fault: the row goes first.
PersistRow(p) ==
  /\ pc[p] = "persist" /\ loaded[p].content \notin Refused
  /\ rows' = [rows EXCEPT ![p] = loaded[p]]
  /\ Continue(p, "insert")
  /\ UNCHANGED <<files, collection, points, time, gone, misfit, job, since>>
PersistFile(p) ==
  /\ pc[p] = "persist" /\ loaded[p].content \notin Refused
  /\ files' = [files EXCEPT ![p] = loaded[p].content]
  /\ Continue(p, "insert")
  /\ UNCHANGED <<rows, collection, points, time, gone, misfit, job, since>>
\* With auto_process the task goes on as process_in_background.
Insert(p) ==
  /\ pc[p] = "insert"
  /\ rows' = [rows EXCEPT ![p] = loaded[p]]
  /\ \E auto_process \in BOOLEAN :
       IF auto_process
         THEN /\ Goto(p, "process")
              /\ job' = [job EXCEPT ![p].kind = "background"]
              /\ answer' = [answer EXCEPT ![p].status = "uploaded"]
              /\ UNCHANGED <<loaded, vectors, counted>>
         ELSE Return(p, "uploaded", {}, 0) /\ UNCHANGED job
  /\ UNCHANGED <<files, collection, points, time, gone, misfit, since>>

\* A workbook the pipeline fails on (WorkbookProcessing) is not indexed.
Process(p) ==
  /\ pc[p] = "process"
  /\ \E completed \in BOOLEAN : IF completed THEN Continue(p, "load") ELSE Fail(p)
  /\ UNCHANGED <<store, job, since>>

\* get_data_source, for the user's own row; an indexing also needs the file it names.
Found(p) == rows[job[p].source] # NoRow /\ rows[job[p].source].user_id = job[p].user
NotFound(p) ==
  /\ pc[p] = "load" /\ ~Found(p)
  /\ Return(p, "not_found", {}, 0)
  /\ UNCHANGED <<store, job, since>>
GetAnalysis(p) ==
  /\ pc[p] = "load" /\ Found(p) /\ job[p].kind = "analysis"
  /\ LET kb == rows[job[p].source].knowledge_base
     IN  Return(p, IF kb = NotIndexed THEN "null" ELSE "analysis", {}, kb.chunk_count)
  /\ UNCHANGED <<store, job, since>>
Load(p) ==
  /\ pc[p] = "load" /\ Found(p) /\ job[p].kind # "analysis"
  /\ IF files[job[p].source] = Nothing THEN Fail(p)
     ELSE /\ loaded' = [loaded EXCEPT ![p] = rows[job[p].source]]
          /\ Goto(p, "list")
          /\ UNCHANGED <<vectors, counted, answer>>
  /\ UNCHANGED <<store, job, since>>

\* ensure_collection lists the collections, and creates this one if it was not there:
\* an error if another request has created it since.
ListCollections(p) ==
  /\ pc[p] = "list"
  /\ Continue(p, IF collection THEN "generate" ELSE "create")
  /\ UNCHANGED <<store, job, since>>
CreateCollection(p) ==
  /\ pc[p] = "create"
  /\ IF collection THEN Fail(p) ELSE Continue(p, "generate")
  /\ collection' = TRUE
  /\ UNCHANGED <<files, rows, points, time, gone, misfit, job, since>>

\* The texts to embed.  generate_chunks raises on a workbook openpyxl cannot read; of
\* the other formats there are the chunks of what could be read, possibly none.
Texts(p) == Chunks[loaded[p].content]
Generate(p) ==
  /\ pc[p] = "generate"
  /\ IF Texts(p) > 0 THEN Continue(p, "embed")
     ELSE IF loaded[p].content \in OtherFormat THEN Continue(p, "meta")
     ELSE Fail(p)
  /\ UNCHANGED <<store, job, since>>

\* embed_texts, batch by batch: the vectors of a batch, each the text's it is made
\* from and of the dimension asked for or of another, or as many empty ones when the
\* request failed.
Dimension == 1
Vector(k, dimension) == [d \in 1 .. dimension |-> k]
AtMost(m, n) == IF m < n THEN m ELSE n
BatchLength(p) == AtMost(BatchSize, Texts(p) - Len(vectors[p]))
Extend(p, batch) ==
  /\ pc[p] = "embed"
  /\ vectors' = [vectors EXCEPT ![p] = @ \o batch]
  /\ Goto(p, IF Len(vectors'[p]) >= Texts(p) THEN "upsert" ELSE "embed")
  /\ UNCHANGED <<store, job, loaded, counted, answer, since>>
\* Fault: a failed batch leaves nothing in its place, so that the next one's vectors
\* take it.
EmbedBatchDropped(p) ==
  /\ pc[p] = "embed" /\ vectors[p] = <<>> /\ Texts(p) > BatchSize
  /\ Extend(p, [i \in 1 .. Texts(p) - BatchSize |-> <<BatchSize + i>>]
                 \o [i \in 1 .. BatchSize |-> <<>>])
EmbedBatch(p) ==
  \E dimension \in {Dimension, Dimension + 1} :
    Extend(p, [i \in 1 .. BatchLength(p) |-> Vector(Len(vectors[p]) + i, dimension)])
EmbedBatchFails(p) == Extend(p, [i \in 1 .. BatchLength(p) |-> <<>>])

\* chunks_with_embeddings, and those of them _upload_chunks finds valid.
Embedded(p) == {i \in 1 .. Len(vectors[p]) : vectors[p][i] # <<>>}
Valid(p) == {i \in Embedded(p) : Len(vectors[p][i]) = Dimension}
PointsOf(p) ==
  {[by |-> p, chunk |-> i, vector |-> vectors[p][i][1], source |-> job[p].source,
    user |-> job[p].user, at |-> time] : i \in Valid(p)}

\* _upload_chunks waits until the points are there; there is nothing to upload when
\* every batch failed or came in another dimension.
Upsert(p) ==
  /\ pc[p] = "upsert"
  /\ points' = points \cup PointsOf(p)
  /\ time' = IF Valid(p) = {} THEN time ELSE time + 1
  /\ misfit' = IF Valid(p) = Embedded(p) THEN misfit ELSE misfit \cup {p}
  /\ Continue(p, "meta")
  /\ UNCHANGED <<files, rows, collection, gone, job, since>>
UpsertFails(p) ==
  /\ pc[p] = "upsert" /\ Valid(p) # {}
  /\ Fail(p)
  /\ UNCHANGED <<store, job, since>>

\* meta_info as it was loaded, with the analysis; the route answers with the count,
\* which is that of the chunks that had an embedding, valid or not.
MetaWritten(p, count) ==
  /\ pc[p] = "meta" /\ loaded[p].content \in Storable \cup OtherFormat
  /\ rows' = [rows EXCEPT ![job[p].source].knowledge_base =
                [by |-> p, chunk_count |-> count]]
  /\ IF InBackground(p) THEN Stop(p) /\ UNCHANGED answer ELSE Return(p, "indexed", {}, count)
  /\ UNCHANGED <<files, collection, points, time, gone, misfit, job, since>>
\* Fault: the count is that of the chunks generated.
SetMetaGenerated(p) == MetaWritten(p, Texts(p))
SetMeta(p) == MetaWritten(p, Cardinality(Embedded(p)))

\* delete_data_source counts the points and deletes those that match the filter then.
Mine(p) == {x \in points : x.source = job[p].source /\ x.user = job[p].user}
Count(p) ==
  /\ pc[p] = "count"
  /\ IF collection
       THEN /\ Goto(p, "delete")
            /\ counted' = [counted EXCEPT ![p] = Cardinality(Mine(p))]
            /\ UNCHANGED <<loaded, vectors, answer>>
       ELSE Fail(p)
  /\ UNCHANGED <<store, job, since>>
Deleted(p, those) ==
  /\ pc[p] = "delete"
  /\ points' = points \ those
  /\ gone' = gone \cup {x.by : x \in those}
  /\ time' = time + 1
  /\ Return(p, "deleted", {}, counted[p])
  /\ UNCHANGED <<files, rows, collection, misfit, job, since>>
\* Fault: the points of one indexing only, the last the row tells of.
DeleteLast(p) == Deleted(p, {x \in Mine(p) : x.by = rows[job[p].source].knowledge_base.by})
Delete(p) == Deleted(p, Mine(p))

\* search: the question's vector (none if OpenAI failed, which Qdrant refuses), then
\* the nearest of the user's points, of one data source if one is given.  The result
\* keeps any one of them.
EmbedQuery(p) ==
  /\ pc[p] = "embed_query"
  /\ Continue(p, "query")
  /\ UNCHANGED <<store, job, since>>
QueryAmong(p, matching) ==
  /\ pc[p] = "query" /\ collection
  /\ \E near \in {{}} \cup {{x} : x \in matching} : Return(p, "results", near, 0)
  /\ UNCHANGED <<store, job, since>>
Query(p) ==
  QueryAmong(p, {x \in points : x.user = job[p].user /\ job[p].source \in {Nothing, x.source}})

\* Any command of Qdrant or of the database may fail; the write of an analysis with a
\* value JSON has no form for always does.
Breaks(p) ==
  /\ pc[p] \in {"insert", "load", "list", "create", "meta", "count", "delete", "query"}
  /\ Fail(p)
  /\ UNCHANGED <<store, job, since>>

\* The process is killed: every request goes, the stores stay.
Crash ==
  /\ \E p \in Task : pc[p] \notin {"idle", "done"}
  /\ pc' = [p \in Task |-> IF pc[p] = "idle" THEN "idle" ELSE "done"]
  /\ loaded' = [p \in Task |-> NoRow] /\ vectors' = [p \in Task |-> <<>>]
  /\ counted' = [p \in Task |-> 0]
  /\ UNCHANGED <<store, job, answer, since>>

\* The ids a client may have heard of.
Known == {s \in Task : files[s] # Nothing}

Start(p) ==
  \E u \in User :
    \/ \E c \in Content : Upload(p, u, c)
    \/ \E s \in Known : Index(p, u, s) \/ Remove(p, u, s) \/ Search(p, u, s) \/ Analysis(p, u, s)
    \/ Search(p, u, Nothing)

Step(p) ==
  \/ RefuseUpload(p) \/ PersistFile(p) \/ Insert(p) \/ Process(p)
  \/ NotFound(p) \/ GetAnalysis(p) \/ Load(p)
  \/ ListCollections(p) \/ CreateCollection(p) \/ Generate(p)
  \/ EmbedBatch(p) \/ EmbedBatchFails(p) \/ Upsert(p) \/ UpsertFails(p) \/ SetMeta(p)
  \/ Count(p) \/ Delete(p) \/ EmbedQuery(p) \/ Query(p) \/ Breaks(p)

Next == Crash \/ \E p \in Task : Start(p) \/ Step(p)

Spec == Init /\ [][Next]_vars

-----------------------------------------------------------------------------
\* A row names a file that is on disk: what a crash or a failed commit leaves behind
\* is a file nothing names, never a data source that cannot be read.
RowHasFile == \A s \in Task : rows[s] # NoRow => files[s] = rows[s].content

\* What a row says of an indexing, and what the caller was told, is what is in the
\* index, unless a deletion came since: as many points of that run as were counted,
\* and fewer only if OpenAI returned vectors of another dimension.
CountIsStored ==
  LET Stored(p) == Cardinality({x \in points : x.by = p})
      Tells(p, count) == /\ Stored(p) <= count
                         /\ p \notin misfit => Stored(p) = count
  IN  /\ \A s \in Task : LET kb == rows[s].knowledge_base
                         IN  kb # NotIndexed /\ kb.by \notin gone => Tells(kb.by, kb.chunk_count)
      /\ \A p \in Task : answer[p].status = "indexed" /\ p \notin gone =>
           Tells(p, answer[p].count)

\* Whatever batches fail, each point carries the vector of its own chunk.
VectorIsOwn == \A x \in points : x.vector = x.chunk

\* After a deletion returned, what is left of the data source was added after it began.
DeletedIsGone ==
  \A p \in Task : answer[p].status = "deleted" => \A x \in Mine(p) : x.at >= since[p]

=============================================================================
