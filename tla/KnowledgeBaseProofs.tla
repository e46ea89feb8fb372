------------------------ MODULE KnowledgeBaseProofs ------------------------
(***************************************************************************)
(* Proofs about KnowledgeBase, for any tasks, users, files and batch size: *)
(* a row names a file that is there, a point carries the vector of its own *)
(* chunk, the counts are those of the points stored unless OpenAI returned *)
(* vectors of another dimension, and a deletion leaves nothing that was    *)
(* there when it began.                                                    *)
(***************************************************************************)
EXTENDS KnowledgeBase, FiniteSetTheorems, TLAPS

\* The places a request passes, in the order of an upload that is indexed, then
\* those of a deletion and of a search.
Indexing == {"list", "create", "generate", "embed", "upsert", "meta"}
Labels ==
  Indexing \cup {"idle", "persist", "insert", "process", "load", "count", "delete",
                "embed_query", "query", "done"}
Kinds == {"none", "upload", "background", "index", "remove", "search", "analysis"}
Statuses == {"none", "uploaded", "refused", "failed", "not_found", "null", "analysis",
             "indexed", "deleted", "results"}
KnowledgeBaseInfo == [by : Task \cup {Nothing}, chunk_count : Nat]
Row == [user_id : User \cup {Nothing}, content : Content \cup {Nothing},
        knowledge_base : KnowledgeBaseInfo]
Job == [kind : Kinds, user : User \cup {Nothing}, source : Task \cup {Nothing}]
Point == [by : Task, chunk : Nat, vector : Nat, source : Task \cup {Nothing},
          user : User \cup {Nothing}, at : Nat]
Answer == [status : Statuses, result : SUBSET Point, count : Nat]

StoresOK ==
  /\ files \in [Task -> Content \cup {Nothing}] /\ rows \in [Task -> Row]
  /\ points \in SUBSET Point /\ IsFiniteSet(points) /\ time \in Nat

LocalsOK ==
  /\ pc \in [Task -> Labels] /\ loaded \in [Task -> Row]
  /\ vectors \in [Task -> Seq(Seq(Nat))] /\ counted \in [Task -> Nat]
  /\ answer \in [Task -> Answer]

TypeOK == StoresOK /\ LocalsOK /\ job \in [Task -> Job] /\ since \in [Task -> Nat]

\* The points of one indexing run.
Run(p) == {x \in points : x.by = p}

\* A data source has no row until its own upload inserts it, after the file.
UploadIsOwn ==
  \A p \in Task :
    /\ pc[p] \in {"persist", "insert", "process"} => job[p].source = p
    /\ pc[p] \in {"idle", "persist", "insert"} => rows[p] = NoRow
    /\ pc[p] \in {"persist", "insert"} => loaded[p].knowledge_base = NotIndexed
    /\ pc[p] = "insert" => files[p] = loaded[p].content

\* What is indexed has a row, and keeps it, and a file.
SourceIsThere ==
  \A p \in Task :
    /\ pc[p] \in {"load"} \cup Indexing => job[p].source \in Task
    /\ pc[p] \in Indexing => rows[job[p].source] # NoRow /\ loaded[p].content \in Content

\* The vectors come in the order of the chunks, whatever batches failed, and none
\* are asked for in excess.
VectorsInOrder ==
  \A p \in Task :
    /\ pc[p] \notin {"embed", "upsert", "meta"} => vectors[p] = <<>>
    /\ pc[p] = "embed" => Len(vectors[p]) < Texts(p)
    /\ \A i \in 1 .. Len(vectors[p]) : vectors[p][i] \in {<<>>, <<i>>, <<i, i>>}

\* What a count says of a run: the two parts of CountIsStored are made of it.
Tells(p, count) ==
  /\ Cardinality(Run(p)) <= count
  /\ p \notin misfit => Cardinality(Run(p)) = count

\* The points of a run are stored at once, and stay as many until a deletion.
RunIsWhole ==
  \A p \in Task :
    /\ pc[p] \notin {"meta", "done"} => Run(p) = {}
    /\ pc[p] = "meta" /\ p \notin gone => Tells(p, Cardinality(Embedded(p)))

\* What is counted belongs to runs that are over.
CountedIsOver ==
  /\ \A s \in Task : rows[s].knowledge_base # NotIndexed =>
       /\ rows[s].knowledge_base.by \in Task
       /\ pc[rows[s].knowledge_base.by] = "done"
  /\ \A p \in Task : answer[p].status \in {"indexed", "deleted"} => pc[p] = "done"

InThePast == \A p \in Task : since[p] <= time

IInv ==
  /\ TypeOK /\ UploadIsOwn /\ SourceIsThere /\ VectorsInOrder /\ RunIsWhole
  /\ CountedIsOver /\ InThePast
  /\ RowHasFile /\ CountIsStored /\ VectorIsOwn /\ DeletedIsGone

-----------------------------------------------------------------------------
\* What the steps do to what they share.

LEMMA StartStores == ASSUME NEW p \in Task, Start(p) PROVE UNCHANGED store
BY DEF Start, Begin, Upload, Ask, Index, Remove, Search, Analysis

LEMMA StoreStep ==
  ASSUME NEW p \in Task, Step(p)
  PROVE  \/ UNCHANGED <<files, rows, points, time, gone, misfit>>
         \/ PersistFile(p) /\ UNCHANGED <<rows, points, time, gone, misfit>>
         \/ (Insert(p) \/ SetMeta(p)) /\ UNCHANGED <<files, points, time, gone, misfit>>
         \/ (Upsert(p) \/ Delete(p)) /\ UNCHANGED <<files, rows>>
<1>1. CASE \/ RefuseUpload(p) \/ Process(p) \/ NotFound(p) \/ GetAnalysis(p) \/ Load(p)
           \/ ListCollections(p) \/ Generate(p) \/ UpsertFails(p) \/ Count(p)
           \/ EmbedQuery(p) \/ Query(p) \/ Breaks(p) \/ EmbedBatch(p) \/ EmbedBatchFails(p)
  <2>1. UNCHANGED store
    BY <1>1 DEF RefuseUpload, Process, NotFound, GetAnalysis, Load, ListCollections, Generate,
                UpsertFails, Count, EmbedQuery, QueryAmong, Query, Breaks, Extend, EmbedBatch,
                EmbedBatchFails
  <2> QED
    BY <2>1 DEF store
<1>2. CASE CreateCollection(p)
  BY <1>2 DEF CreateCollection
<1>3. CASE PersistFile(p)
  BY <1>3 DEF PersistFile
<1>4. CASE Insert(p) \/ SetMeta(p)
  BY <1>4 DEF Insert, SetMeta, MetaWritten
<1>5. CASE Upsert(p)
  BY <1>5 DEF Upsert
<1>6. CASE Delete(p)
  BY <1>6 DEF Delete, Deleted
<1> QED
  BY <1>1, <1>2, <1>3, <1>4, <1>5, <1>6 DEF Step

\* Who may write to what.
LEMMA FilesStep == [Next]_vars => UNCHANGED files \/ \E p \in Task : PersistFile(p)
BY StartStores, StoreStep DEF Next, vars, store, Crash

LEMMA RowsStep == [Next]_vars => UNCHANGED rows \/ \E p \in Task : Insert(p) \/ SetMeta(p)
BY StartStores, StoreStep DEF Next, vars, store, Crash

LEMMA PointsStep ==
  [Next]_vars => \/ UNCHANGED <<points, time, gone, misfit>>
                 \/ \E p \in Task : Upsert(p) \/ Delete(p)
BY StartStores, StoreStep DEF Next, vars, store, Crash

\* The locals of a request, as far as the proofs speak of them.
Locals(p) == <<pc[p], job[p], loaded[p], vectors[p], answer[p], since[p]>>

Over(p) == Fail(p) \/ (Stop(p) /\ UNCHANGED answer) \/ \E s, r, n : Return(p, s, r, n)

LEMMA EndOfOne ==
  ASSUME TypeOK, NEW p \in Task, NEW q \in Task, q # p,
         Over(q)
  PROVE  UNCHANGED <<pc[p], loaded[p], vectors[p], answer[p]>>
BY DEF Over, Fail, Stop, Return, Goto, TypeOK, LocalsOK

\* A request is changed by its own steps and by a crash only.
LEMMA OthersWait ==
  ASSUME TypeOK, [Next]_vars, NEW p \in Task
  PROVE  Start(p) \/ Step(p) \/ Crash \/ UNCHANGED Locals(p)
<1>1. ASSUME NEW q \in Task, q # p, Start(q)
      PROVE  UNCHANGED Locals(p)
  BY <1>1 DEF Start, Upload, Ask, Index, Remove, Search, Analysis, Begin, Goto, TypeOK, LocalsOK, Locals
<1>2. ASSUME NEW q \in Task, q # p, Step(q)
      PROVE  UNCHANGED Locals(p)
  <2>1. CASE \/ RefuseUpload(q) \/ NotFound(q) \/ GetAnalysis(q) \/ UpsertFails(q)
             \/ SetMeta(q) \/ Delete(q) \/ Query(q) \/ Breaks(q)
    <3>1. UNCHANGED <<job, since>>
      BY <2>1 DEF RefuseUpload, NotFound, GetAnalysis, UpsertFails, MetaWritten, SetMeta,
                  Deleted, Delete, QueryAmong, Query, Breaks
    <3>2. Over(q)
      BY <2>1 DEF RefuseUpload, NotFound, GetAnalysis, UpsertFails, MetaWritten, SetMeta,
                  Deleted, Delete, QueryAmong, Query, Breaks, Over
    <3>3. UNCHANGED <<pc[p], loaded[p], vectors[p], answer[p]>>
      BY <1>2, <3>2, EndOfOne
    <3> QED
      BY <3>1, <3>3 DEF Locals
  <2>2. CASE \/ PersistFile(q) \/ ListCollections(q) \/ EmbedQuery(q) \/ Upsert(q)
    BY <1>2, <2>2 DEF PersistFile, ListCollections, EmbedQuery, Upsert, Continue, Goto, Locals,
                      LocalsOK, TypeOK
  <2>3. CASE Process(q) \/ Generate(q) \/ CreateCollection(q) \/ Load(q) \/ Count(q)
    <3>1. UNCHANGED <<job, since>>
      BY <2>3 DEF Process, Generate, CreateCollection, Load, Count
    <3>2. CASE Over(q)
      <4>1. UNCHANGED <<pc[p], loaded[p], vectors[p], answer[p]>>
        BY <1>2, <3>2, EndOfOne
      <4> QED
        BY <3>1, <4>1 DEF Locals
    <3>3. CASE ~Over(q)
      <4>1. ~Fail(q)
        BY <3>3 DEF Over
      <4>2. /\ \E l : Goto(q, l)
            /\ UNCHANGED <<vectors, answer>>
            /\ UNCHANGED loaded \/ \E r : loaded' = [loaded EXCEPT ![q] = r]
        BY <2>3, <4>1 DEF Process, Generate, CreateCollection, Load, Count, Continue
      <4> QED
        BY <1>2, <3>1, <4>2 DEF Goto, Locals, LocalsOK, TypeOK
    <3> QED
      BY <3>2, <3>3
  <2>4. CASE EmbedBatch(q) \/ EmbedBatchFails(q)
    BY <1>2, <2>4 DEF EmbedBatch, EmbedBatchFails, Extend, Goto, Locals, LocalsOK, TypeOK
  <2>5. CASE Insert(q)
    BY <1>2, <2>5 DEF Insert, Return, Stop, Goto, Locals, LocalsOK, TypeOK
  <2> QED
    BY <1>2, <2>1, <2>2, <2>3, <2>4, <2>5 DEF Step
<1>3. CASE UNCHANGED vars
  BY <1>3 DEF vars, Locals
<1>4. CASE \E q \in Task : Start(q) \/ Step(q)
  <2>1. PICK q \in Task : Start(q) \/ Step(q)
    BY <1>4
  <2>2. CASE q = p
    BY <2>1, <2>2
  <2>3. CASE q # p
    BY <1>1, <1>2, <2>1, <2>3
  <2> QED
    BY <2>2, <2>3
<1> QED
  BY <1>3, <1>4 DEF Next

-----------------------------------------------------------------------------
\* Types.

LEMMA NoneIsTyped == /\ NoRow \in Row /\ NoAnswer \in Answer /\ NoJob \in Job
                     /\ NotIndexed \in KnowledgeBaseInfo
BY DEF NoRow, Row, NotIndexed, KnowledgeBaseInfo, NoAnswer, Answer, Statuses, NoJob, Job, Kinds

LEMMA TypeInit == Init => TypeOK
<1> SUFFICES ASSUME Init
             PROVE  TypeOK
  OBVIOUS
<1>1. StoresOK
  <2>1. IsFiniteSet(points)
    BY FS_EmptySet DEF Init
  <2> QED
    BY <2>1, NoneIsTyped DEF Init, StoresOK
<1>2. LocalsOK
  <2>1. <<>> \in Seq(Seq(Nat))
    OBVIOUS
  <2> QED
    BY <2>1, NoneIsTyped DEF Init, LocalsOK, Labels
<1>3. job \in [Task -> Job] /\ since \in [Task -> Nat]
  BY NoneIsTyped DEF Init
<1> QED
  BY <1>1, <1>2, <1>3 DEF TypeOK

LEMMA StopIsTyped ==
  ASSUME TypeOK, NEW p \in Task, Stop(p)
  PROVE  /\ pc' \in [Task -> Labels] /\ loaded' \in [Task -> Row]
         /\ vectors' \in [Task -> Seq(Seq(Nat))] /\ counted' \in [Task -> Nat]
<1>1. pc' \in [Task -> Labels]
  BY DEF Stop, Goto, TypeOK, LocalsOK, Labels
<1>2. loaded' \in [Task -> Row]
  BY NoneIsTyped DEF Stop, TypeOK, LocalsOK
<1>3. vectors' \in [Task -> Seq(Seq(Nat))]
  <2>1. <<>> \in Seq(Seq(Nat))
    OBVIOUS
  <2> QED
    BY <2>1 DEF Stop, TypeOK, LocalsOK
<1>4. counted' \in [Task -> Nat]
  BY DEF Stop, TypeOK, LocalsOK
<1> QED
  BY <1>1, <1>2, <1>3, <1>4

LEMMA ReturnIsTyped ==
  ASSUME TypeOK, NEW p \in Task, NEW s \in Statuses, NEW r \in SUBSET Point, NEW n \in Nat,
         Return(p, s, r, n)
  PROVE  LocalsOK'
<1>1. [status |-> s, result |-> r, count |-> n] \in Answer
  BY DEF Answer
<1>2. answer' \in [Task -> Answer]
  BY <1>1 DEF Return, TypeOK, LocalsOK
<1> QED
  BY <1>2, StopIsTyped DEF Return, LocalsOK

LEMMA FailIsTyped ==
  ASSUME TypeOK, NEW p \in Task, Fail(p)
  PROVE  LocalsOK'
<1>1. CASE Stop(p) /\ UNCHANGED answer
  BY <1>1, StopIsTyped DEF TypeOK, LocalsOK
<1>2. CASE Return(p, "failed", {}, 0)
  BY <1>2, ReturnIsTyped DEF Statuses
<1> QED
  BY <1>1, <1>2 DEF Fail

LEMMA ContinueIsTyped ==
  ASSUME TypeOK, NEW p \in Task, NEW l \in Labels, Continue(p, l)
  PROVE  LocalsOK'
BY DEF TypeOK, LocalsOK, Continue, Goto

\* Records with one field replaced.
LEMMA RowFields ==
  ASSUME NEW r \in Row, NEW k
  PROVE  [r EXCEPT !.knowledge_base = k] =
           [user_id |-> r.user_id, content |-> r.content, knowledge_base |-> k]
<1>1. r = [user_id |-> r.user_id, content |-> r.content, knowledge_base |-> r.knowledge_base]
  BY DEF Row
<1> QED
  BY ONLY <1>1

LEMMA JobFields ==
  ASSUME NEW j \in Job
  PROVE  [j EXCEPT !.kind = "background"] =
           [kind |-> "background", user |-> j.user, source |-> j.source]
<1>1. j = [kind |-> j.kind, user |-> j.user, source |-> j.source]
  BY DEF Job
<1> QED
  BY ONLY <1>1

LEMMA AnswerFields ==
  ASSUME NEW r \in Answer
  PROVE  [r EXCEPT !.status = "uploaded"] =
           [status |-> "uploaded", result |-> r.result, count |-> r.count]
<1>1. r = [status |-> r.status, result |-> r.result, count |-> r.count]
  BY DEF Answer
<1> QED
  BY ONLY <1>1

\* A request that begins.
LEMMA StartOfOne ==
  ASSUME TypeOK, NEW p \in Task, Start(p)
  PROVE  /\ pc[p] = "idle" /\ UNCHANGED store /\ UNCHANGED <<vectors, counted, answer>>
         /\ since' = [since EXCEPT ![p] = time]
         /\ \E k \in Kinds, u \in User, s \in Task \cup {Nothing}, l \in Labels :
              /\ job' = [job EXCEPT ![p] = [kind |-> k, user |-> u, source |-> s]]
              /\ pc' = [pc EXCEPT ![p] = l]
              /\ \/ /\ l = "persist" /\ s = p
                    /\ \E c \in Content : loaded' = [loaded EXCEPT ![p] =
                         [user_id |-> u, content |-> c, knowledge_base |-> NotIndexed]]
                 \/ l \in {"load", "count"} /\ s \in Task /\ UNCHANGED loaded
                 \/ l = "embed_query" /\ UNCHANGED loaded
<1> PICK u \in User :
      \/ \E c \in Content : Upload(p, u, c)
      \/ \E s \in Known : Index(p, u, s) \/ Remove(p, u, s) \/ Search(p, u, s) \/ Analysis(p, u, s)
      \/ Search(p, u, Nothing)
  BY DEF Start
<1>1. ASSUME NEW c \in Content, Upload(p, u, c)
      PROVE  /\ Begin(p, "upload", u, p, "persist")
             /\ loaded' = [loaded EXCEPT ![p] =
                  [user_id |-> u, content |-> c, knowledge_base |-> NotIndexed]]
  <2>1. [NoRow EXCEPT !.user_id = u, !.content = c] =
          [user_id |-> u, content |-> c, knowledge_base |-> NotIndexed]
    <3> DEFINE r == [user_id |-> u, content |-> Nothing, knowledge_base |-> NotIndexed]
    <3>1. [NoRow EXCEPT !.user_id = u] = r
      BY DEF NoRow
    <3>2. [r EXCEPT !.content = c] =
            [user_id |-> u, content |-> c, knowledge_base |-> NotIndexed]
      OBVIOUS
    <3> QED
      BY <3>1, <3>2
  <2> QED
    BY <1>1, <2>1 DEF Upload
<1>2. CASE \E c \in Content : Upload(p, u, c)
  BY <1>1, <1>2 DEF Begin, Goto, Kinds, Labels
<1>3. CASE \E s \in Known : Index(p, u, s) \/ Remove(p, u, s) \/ Search(p, u, s) \/ Analysis(p, u, s)
  BY <1>3 DEF Index, Remove, Search, Analysis, Ask, Begin, Goto, Kinds, Labels, Known
<1>4. CASE Search(p, u, Nothing)
  BY <1>4 DEF Search, Ask, Begin, Goto, Kinds, Labels
<1> QED
  BY <1>2, <1>3, <1>4

\* What an indexing run stores.
LEMMA PointsAreTyped ==
  ASSUME TypeOK, VectorsInOrder, NEW p \in Task
  PROVE  /\ IsFiniteSet(Embedded(p)) /\ Valid(p) \subseteq Embedded(p)
         /\ \A i \in Valid(p) : vectors[p][i][1] = i
         /\ PointsOf(p) \in SUBSET Point /\ IsFiniteSet(PointsOf(p))
         /\ Cardinality(PointsOf(p)) = Cardinality(Valid(p))
         /\ Cardinality(Valid(p)) <= Cardinality(Embedded(p))
<1> DEFINE f == [i \in Valid(p) |->
                   [by |-> p, chunk |-> i, vector |-> vectors[p][i][1],
                    source |-> job[p].source, user |-> job[p].user, at |-> time]]
<1>0. vectors[p] \in Seq(Seq(Nat)) /\ Len(vectors[p]) \in Nat
  BY DEF TypeOK, LocalsOK
<1>1. Embedded(p) \subseteq 1 .. Len(vectors[p]) /\ Valid(p) \subseteq Embedded(p)
  BY DEF Embedded, Valid
<1>2. /\ IsFiniteSet(Embedded(p)) /\ IsFiniteSet(Valid(p))
      /\ Cardinality(Valid(p)) <= Cardinality(Embedded(p))
  <2>1. IsFiniteSet(1 .. Len(vectors[p]))
    BY <1>0, FS_Interval
  <2>2. IsFiniteSet(Embedded(p))
    BY <1>1, <2>1, FS_Subset
  <2> QED
    BY <1>1, <2>2, FS_Subset
<1>3. \A i \in Valid(p) : vectors[p][i] \in {<<i>>, <<i, i>>}
  BY DEF Embedded, Valid, VectorsInOrder
<1>4. \A i \in Valid(p) : vectors[p][i][1] = i
  <2> TAKE i \in Valid(p)
  <2>1. vectors[p][i] \in {<<i>>, <<i, i>>}
    BY <1>3
  <2> QED
    BY <2>1
<1>5. PointsOf(p) \in SUBSET Point
  <2>1. job[p].source \in Task \cup {Nothing} /\ job[p].user \in User \cup {Nothing} /\ time \in Nat
    BY DEF TypeOK, StoresOK, Job
  <2>2. \A i \in Valid(p) : i \in Nat
    BY <1>0, <1>1
  <2> QED
    BY <1>4, <2>1, <2>2 DEF PointsOf, Point
<1>6. f \in Bijection(Valid(p), PointsOf(p))
  <2>1. f \in Surjection(Valid(p), PointsOf(p))
    BY DEF PointsOf, Surjection
  <2>2. f \in Injection(Valid(p), PointsOf(p))
    <3>1. f \in [Valid(p) -> PointsOf(p)]
      BY DEF PointsOf
    <3>2. \A i \in Valid(p) : f[i].chunk = i
      OBVIOUS
    <3>3. \A i, j \in Valid(p) : f[i] = f[j] => i = j
      BY <3>2
    <3> HIDE DEF f
    <3> QED
      BY <3>1, <3>3 DEF Injection, IsInjective
  <2> QED
    BY <2>1, <2>2 DEF Bijection
<1>7. IsFiniteSet(PointsOf(p)) /\ Cardinality(PointsOf(p)) = Cardinality(Valid(p))
  <2>1. ExistsBijection(Valid(p), PointsOf(p))
    <3> HIDE DEF f
    <3> QED
      BY <1>6 DEF ExistsBijection
  <2> QED
    BY <1>2, <2>1, FS_Bijection
<1> QED
  BY <1>1, <1>2, <1>4, <1>5, <1>7

\* The vectors of a batch, as written out.
LEMMA VectorIs ==
  ASSUME NEW k \in Nat
  PROVE  Vector(k, Dimension) = <<k>> /\ Vector(k, Dimension + 1) = <<k, k>>
<1>1. 1 .. 1 = {1} /\ 1 .. 2 = {1, 2}
  OBVIOUS
<1>2. Dimension = 1 /\ Dimension + 1 = 2
  BY DEF Dimension
<1>3. [d \in 1 .. 1 |-> k] = <<k>>
  BY <1>1
<1>4. [d \in 1 .. 2 |-> k] = <<k, k>>
  BY <1>1
<1> QED
  BY <1>2, <1>3, <1>4 DEF Vector

\* A batch may come in three ways.
Right(p) == [i \in 1 .. BatchLength(p) |-> Vector(Len(vectors[p]) + i, Dimension)]
Other(p) == [i \in 1 .. BatchLength(p) |-> Vector(Len(vectors[p]) + i, Dimension + 1)]
Empty(p) == [i \in 1 .. BatchLength(p) |-> <<>>]

LEMMA BatchIsOne ==
  ASSUME NEW p \in Task, EmbedBatch(p) \/ EmbedBatchFails(p)
  PROVE  Extend(p, Right(p)) \/ Extend(p, Other(p)) \/ Extend(p, Empty(p))
<1>1. CASE EmbedBatch(p)
  BY <1>1 DEF EmbedBatch, Right, Other
<1>2. CASE EmbedBatchFails(p)
  BY <1>2 DEF EmbedBatchFails, Empty
<1> QED
  BY <1>1, <1>2

\* A batch is never empty, and no longer than what is left.
LEMMA BatchIsTyped ==
  ASSUME TypeOK, SourceIsThere, VectorsInOrder, NEW p \in Task, pc[p] = "embed",
         NEW b \in {Right(p), Other(p), Empty(p)}
  PROVE  /\ Len(vectors[p]) \in Nat /\ BatchLength(p) \in Nat
         /\ b \in Seq(Seq(Nat)) /\ Len(b) = BatchLength(p)
         /\ \A i \in 1 .. BatchLength(p) :
              b[i] \in {<<>>, <<Len(vectors[p]) + i>>, <<Len(vectors[p]) + i, Len(vectors[p]) + i>>}
<1>1. vectors[p] \in Seq(Seq(Nat)) /\ Len(vectors[p]) \in Nat
  BY DEF TypeOK, LocalsOK
<1>2. Texts(p) \in Nat /\ BatchSize \in Nat
  BY ChunkAssumption DEF Texts, SourceIsThere, Indexing
<1>3. Len(vectors[p]) < Texts(p)
  BY DEF VectorsInOrder
<1>4. BatchLength(p) \in Nat
  BY <1>1, <1>2, <1>3 DEF BatchLength, AtMost
<1> HIDE DEF BatchLength
<1>5. \A i \in 1 .. BatchLength(p) : Len(vectors[p]) + i \in Nat
  BY <1>1, <1>4
<1>6. \A i \in 1 .. BatchLength(p) :
        b[i] \in {<<>>, <<Len(vectors[p]) + i>>, <<Len(vectors[p]) + i, Len(vectors[p]) + i>>}
  BY <1>5, VectorIs DEF Right, Other, Empty
<1>7. \A k \in Nat : <<>> \in Seq(Nat) /\ <<k>> \in Seq(Nat) /\ <<k, k>> \in Seq(Nat)
  OBVIOUS
<1>8. \A i \in 1 .. BatchLength(p) : b[i] \in Seq(Nat)
  BY <1>5, <1>6, <1>7
<1>9. b = [i \in 1 .. BatchLength(p) |-> b[i]]
  BY DEF Right, Other, Empty
<1>10. ASSUME NEW n \in Nat, NEW f \in [1 .. n -> Seq(Nat)]
       PROVE  f \in Seq(Seq(Nat)) /\ Len(f) = n
  BY <1>10
<1>11. b \in [1 .. BatchLength(p) -> Seq(Nat)]
  BY <1>8, <1>9
<1> QED
  BY <1>1, <1>4, <1>6, <1>10, <1>11

LEMMA TypeStep == TypeOK /\ SourceIsThere /\ UploadIsOwn /\ VectorsInOrder /\ [Next]_vars => TypeOK'
<1> SUFFICES ASSUME TypeOK, SourceIsThere, UploadIsOwn, VectorsInOrder, [Next]_vars
             PROVE  TypeOK'
  OBVIOUS
<1> USE DEF TypeOK
<1>1. ASSUME NEW p \in Task, Start(p)
      PROVE  TypeOK'
  <2>1. StoresOK'
    BY <1>1, StartOfOne DEF StoresOK, store
  <2>2. PICK k \in Kinds, u \in User, s \in Task \cup {Nothing}, l \in Labels :
              /\ job' = [job EXCEPT ![p] = [kind |-> k, user |-> u, source |-> s]]
              /\ pc' = [pc EXCEPT ![p] = l]
              /\ \/ \E c \in Content : loaded' = [loaded EXCEPT ![p] =
                         [user_id |-> u, content |-> c, knowledge_base |-> NotIndexed]]
                 \/ UNCHANGED loaded
    BY <1>1, StartOfOne
  <2>3. [kind |-> k, user |-> u, source |-> s] \in Job
    BY DEF Job
  <2>4. \A c \in Content : [user_id |-> u, content |-> c, knowledge_base |-> NotIndexed] \in Row
    BY NoneIsTyped DEF Row
  <2>5. job' \in [Task -> Job] /\ pc' \in [Task -> Labels] /\ loaded' \in [Task -> Row]
    BY <2>2, <2>3, <2>4 DEF LocalsOK
  <2>6. UNCHANGED <<vectors, counted, answer>> /\ since' \in [Task -> Nat]
    BY <1>1, StartOfOne DEF StoresOK
  <2> QED
    BY <2>1, <2>5, <2>6 DEF LocalsOK
<1>2. ASSUME NEW p \in Task, Step(p)
      PROVE  job' \in [Task -> Job] /\ since' = since
  <2>1. CASE Insert(p)
    <3>1. /\ job' = job \/ job' = [job EXCEPT ![p].kind = "background"]
          /\ since' = since
      BY <2>1 DEF Insert
    <3>2. job[p] \in Job
      OBVIOUS
    <3>3. [job[p] EXCEPT !.kind = "background"] =
            [kind |-> "background", user |-> job[p].user, source |-> job[p].source]
      BY <3>2, JobFields
    <3>4. [kind |-> "background", user |-> job[p].user, source |-> job[p].source] \in Job
      BY <3>2 DEF Job, Kinds
    <3>5. [job EXCEPT ![p].kind = "background"] \in [Task -> Job]
      BY <3>3, <3>4
    <3> QED
      BY <3>1, <3>5
  <2>2. CASE ~Insert(p)
    <3>1. UNCHANGED <<job, since>>
      BY <1>2, <2>2 DEF Step, RefuseUpload, PersistFile, Process, NotFound, GetAnalysis, Load,
         ListCollections, CreateCollection, Generate, Extend, EmbedBatch, EmbedBatchFails,
         Upsert, UpsertFails, MetaWritten, SetMeta, Count, Deleted, Delete, EmbedQuery,
         QueryAmong, Query, Breaks
    <3> QED
      BY <3>1
  <2> QED
    BY <2>1, <2>2
<1>3. ASSUME NEW p \in Task, Step(p)
      PROVE  StoresOK'
  <2>1. CASE UNCHANGED <<files, rows, points, time, gone>>
    BY <2>1 DEF StoresOK
  <2>2. CASE PersistFile(p) /\ UNCHANGED <<rows, points, time, gone>>
    <3>1. loaded[p].content \in Content \cup {Nothing}
      BY DEF LocalsOK, Row
    <3>2. files' \in [Task -> Content \cup {Nothing}]
      BY <2>2, <3>1 DEF PersistFile, StoresOK
    <3> QED
      BY <2>2, <3>2 DEF StoresOK
  <2>3. CASE Insert(p) /\ UNCHANGED <<files, points, time, gone>>
    <3>1. rows' \in [Task -> Row]
      BY <2>3 DEF Insert, StoresOK, LocalsOK
    <3> QED
      BY <2>3, <3>1 DEF StoresOK
  <2>4. CASE SetMeta(p) /\ UNCHANGED <<files, points, time, gone>>
    <3> DEFINE s == job[p].source
               k == [by |-> p, chunk_count |-> Cardinality(Embedded(p))]
    <3>1. s \in Task
      BY <2>4 DEF SetMeta, MetaWritten, SourceIsThere, Indexing
    <3>2. rows' = [rows EXCEPT ![s].knowledge_base = k]
      BY <2>4 DEF SetMeta, MetaWritten
    <3>3. rows[s] \in Row
      BY <3>1 DEF StoresOK
    <3>4. k \in KnowledgeBaseInfo
      BY PointsAreTyped, FS_CardinalityType DEF KnowledgeBaseInfo
    <3> HIDE DEF s, k
    <3>5. [rows[s] EXCEPT !.knowledge_base = k] =
            [user_id |-> rows[s].user_id, content |-> rows[s].content, knowledge_base |-> k]
      BY <3>3, RowFields
    <3>6. [rows[s] EXCEPT !.knowledge_base = k] \in Row
      BY <3>3, <3>4, <3>5 DEF Row
    <3>7. rows' \in [Task -> Row]
      BY <3>1, <3>2, <3>6 DEF StoresOK
    <3> QED
      BY <2>4, <3>7 DEF StoresOK
  <2>5. CASE Upsert(p) /\ UNCHANGED <<files, rows>>
    <3>1. points' = points \cup PointsOf(p) /\ time' \in Nat
      BY <2>5 DEF Upsert, StoresOK
    <3>2. points' \in SUBSET Point /\ IsFiniteSet(points')
      BY <3>1, PointsAreTyped, FS_Union DEF StoresOK
    <3> QED
      BY <2>5, <3>1, <3>2 DEF StoresOK
  <2>6. CASE Delete(p) /\ UNCHANGED <<files, rows>>
    <3>1. points' = points \ Mine(p) /\ time' = time + 1
      BY <2>6 DEF Delete, Deleted
    <3>2. points' \in SUBSET Point /\ IsFiniteSet(points')
      BY <3>1, FS_Subset DEF StoresOK
    <3> QED
      BY <2>6, <3>1, <3>2 DEF StoresOK
  <2> QED
    BY <1>3, <2>1, <2>2, <2>3, <2>4, <2>5, <2>6, StoreStep
<1>4. ASSUME NEW p \in Task, Step(p)
      PROVE  LocalsOK'
  <2>1. CASE RefuseUpload(p) \/ NotFound(p)
    BY <2>1, ReturnIsTyped DEF RefuseUpload, NotFound, Statuses
  <2>2. CASE GetAnalysis(p)
    <3> DEFINE n == rows[job[p].source].knowledge_base.chunk_count
    <3>1. n \in Nat
      <4>1. job[p].source \in Task
        BY <2>2 DEF GetAnalysis, SourceIsThere
      <4>2. rows[job[p].source] \in Row
        BY <4>1 DEF StoresOK
      <4> QED
        BY <4>2 DEF Row, KnowledgeBaseInfo
    <3>2. Return(p, "null", {}, n) \/ Return(p, "analysis", {}, n)
      BY <2>2 DEF GetAnalysis
    <3> HIDE DEF n
    <3> QED
      BY <3>1, <3>2, ReturnIsTyped DEF Statuses
  <2>3. CASE UpsertFails(p) \/ Breaks(p)
    BY <2>3, FailIsTyped DEF UpsertFails, Breaks
  <2>4. CASE PersistFile(p) \/ ListCollections(p) \/ CreateCollection(p) \/ Generate(p)
             \/ Process(p) \/ Upsert(p) \/ EmbedQuery(p)
    <3>1. Fail(p) \/ \E l \in Labels : Continue(p, l)
      BY <2>4 DEF PersistFile, ListCollections, CreateCollection, Generate, Process, Upsert,
                  EmbedQuery, Labels, Indexing
    <3> QED
      BY <3>1, FailIsTyped, ContinueIsTyped
  <2>5. CASE Load(p)
    <3>1. CASE Fail(p)
      BY <3>1, FailIsTyped
    <3>2. CASE ~Fail(p)
      <4>1. /\ loaded' = [loaded EXCEPT ![p] = rows[job[p].source]]
            /\ Goto(p, "list") /\ UNCHANGED <<vectors, counted, answer>>
        BY <2>5, <3>2 DEF Load
      <4>2. rows[job[p].source] \in Row
        BY <2>5 DEF Load, SourceIsThere, StoresOK
      <4> QED
        BY <4>1, <4>2 DEF LocalsOK, Goto, Labels, Indexing
    <3> QED
      BY <3>1, <3>2
  <2>6. CASE Count(p)
    <3>1. CASE Fail(p)
      BY <3>1, FailIsTyped
    <3>2. CASE ~Fail(p)
      <4>1. /\ counted' = [counted EXCEPT ![p] = Cardinality(Mine(p))]
            /\ Goto(p, "delete") /\ UNCHANGED <<loaded, vectors, answer>>
        BY <2>6, <3>2 DEF Count
      <4>2. Cardinality(Mine(p)) \in Nat
        BY FS_Subset, FS_CardinalityType DEF Mine, StoresOK
      <4> QED
        BY <4>1, <4>2 DEF LocalsOK, Goto, Labels
    <3> QED
      BY <3>1, <3>2
  <2>7. CASE SetMeta(p)
    <3>1. Cardinality(Embedded(p)) \in Nat
      BY PointsAreTyped, FS_CardinalityType
    <3>2. \/ Stop(p) /\ UNCHANGED answer
          \/ Return(p, "indexed", {}, Cardinality(Embedded(p)))
      BY <2>7 DEF SetMeta, MetaWritten
    <3>3. CASE Stop(p) /\ UNCHANGED answer
      BY <3>3, StopIsTyped DEF LocalsOK
    <3>4. CASE Return(p, "indexed", {}, Cardinality(Embedded(p)))
      BY <3>1, <3>4, ReturnIsTyped DEF Statuses
    <3> QED
      BY <3>2, <3>3, <3>4
  <2>8. CASE Delete(p)
    <3>1. Return(p, "deleted", {}, counted[p]) /\ counted[p] \in Nat
      BY <2>8 DEF Delete, Deleted, LocalsOK
    <3> QED
      BY <3>1, ReturnIsTyped DEF Statuses
  <2>9. CASE Query(p)
    <3>1. PICK near \in SUBSET points : Return(p, "results", near, 0)
      BY <2>9 DEF Query, QueryAmong
    <3>2. near \in SUBSET Point
      BY <3>1 DEF StoresOK
    <3> QED
      BY <3>1, <3>2, ReturnIsTyped DEF Statuses
  <2>10. CASE EmbedBatch(p) \/ EmbedBatchFails(p)
    <3>1. PICK b : Extend(p, b) /\ b \in Seq(Seq(Nat))
      <4>1. pc[p] = "embed"
        BY <2>10 DEF EmbedBatch, EmbedBatchFails, Extend
      <4> QED
        BY <2>10, <4>1, BatchIsOne, BatchIsTyped
    <3>2. vectors' = [vectors EXCEPT ![p] = vectors[p] \o b] /\ vectors[p] \in Seq(Seq(Nat))
      BY <3>1 DEF Extend, LocalsOK
    <3>3. vectors' \in [Task -> Seq(Seq(Nat))]
      BY <3>1, <3>2 DEF LocalsOK
    <3>4. /\ \E l \in Labels : pc' = [pc EXCEPT ![p] = l]
          /\ UNCHANGED <<loaded, counted, answer>>
      BY <3>1 DEF Extend, Goto, Labels, Indexing
    <3> QED
      BY <3>3, <3>4 DEF LocalsOK
  <2>11. CASE Insert(p)
    <3>1. CASE Return(p, "uploaded", {}, 0)
      BY <3>1, ReturnIsTyped DEF Statuses
    <3>2. CASE ~Return(p, "uploaded", {}, 0)
      <4>1. /\ answer' = [answer EXCEPT ![p].status = "uploaded"]
            /\ Goto(p, "process") /\ UNCHANGED <<loaded, vectors, counted>>
        BY <2>11, <3>2 DEF Insert
      <4>2. answer[p] \in Answer
        BY DEF LocalsOK
      <4>3. [answer[p] EXCEPT !.status = "uploaded"] =
              [status |-> "uploaded", result |-> answer[p].result, count |-> answer[p].count]
        BY <4>2, AnswerFields
      <4>4. [answer[p] EXCEPT !.status = "uploaded"] \in Answer
        BY <4>2, <4>3 DEF Answer, Statuses
      <4>5. answer' \in [Task -> Answer]
        BY <4>1, <4>4 DEF LocalsOK
      <4> QED
        BY <4>1, <4>5 DEF LocalsOK, Goto, Labels
    <3> QED
      BY <3>1, <3>2
  <2> QED
    BY <1>4, <2>1, <2>2, <2>3, <2>4, <2>5, <2>6, <2>7, <2>8, <2>9, <2>10, <2>11 DEF Step
<1>5. CASE Crash
  <2>1. <<>> \in Seq(Seq(Nat))
    OBVIOUS
  <2> QED
    BY <1>5, <2>1, NoneIsTyped DEF Crash, store, StoresOK, LocalsOK, Labels
<1>6. CASE UNCHANGED vars
  BY <1>6 DEF vars, StoresOK, LocalsOK
<1> QED
  BY <1>1, <1>2, <1>3, <1>4, <1>5, <1>6 DEF Next

-----------------------------------------------------------------------------
\* The life of one request, one file, one row.

Same(p) == UNCHANGED <<loaded[p], vectors[p], answer[p]>>

LEMMA EndsAll ==
  ASSUME TypeOK, NEW p \in Task, Fail(p)
  PROVE  /\ pc'[p] = "done" /\ vectors'[p] = <<>>
         /\ answer'[p] = answer[p] \/ answer'[p].status = "failed"
BY DEF Fail, Return, Stop, Goto, TypeOK, LocalsOK

\* A request ends, with an answer about the index only if it wrote to it, or goes
\* one step further.
LEMMA StepOfOne ==
  ASSUME TypeOK, NEW p \in Task, Step(p)
  PROVE  \/ /\ pc'[p] = "done" /\ vectors'[p] = <<>>
            /\ \/ answer'[p] = answer[p] \/ answer'[p].status \notin {"indexed", "deleted"}
               \/ SetMeta(p) \/ Delete(p)
         \/ PersistFile(p) /\ pc[p] = "persist" /\ pc'[p] = "insert" /\ Same(p)
         \/ /\ Insert(p) /\ pc[p] = "insert" /\ pc'[p] = "process"
            /\ UNCHANGED <<loaded[p], vectors[p]>> /\ answer'[p].status = "uploaded"
         \/ pc[p] = "process" /\ pc'[p] = "load" /\ Same(p)
         \/ /\ Load(p) /\ pc[p] = "load" /\ pc'[p] = "list" /\ files[job[p].source] # Nothing
            /\ loaded'[p] = rows[job[p].source] /\ UNCHANGED <<vectors[p], answer[p]>>
         \/ pc[p] \in {"list", "create"} /\ pc'[p] \in {"create", "generate"} /\ Same(p)
         \/ pc[p] = "generate" /\ pc'[p] = "embed" /\ Texts(p) > 0 /\ Same(p)
         \/ pc[p] = "generate" /\ pc'[p] = "meta" /\ Same(p)
         \/ pc[p] = "embed" /\ (EmbedBatch(p) \/ EmbedBatchFails(p))
         \/ Upsert(p) /\ pc[p] = "upsert" /\ pc'[p] = "meta" /\ Same(p)
         \/ /\ pc[p] \in {"count", "embed_query"} /\ pc'[p] \in {"delete", "query"}
            /\ Same(p)
<1>0. p \in DOMAIN pc /\ p \in DOMAIN answer /\ p \in DOMAIN loaded /\ p \in DOMAIN vectors
  BY DEF TypeOK, LocalsOK
<1>1. CASE RefuseUpload(p) \/ NotFound(p) \/ GetAnalysis(p) \/ Query(p)
  <2>1. \E st \in {"refused", "not_found", "null", "analysis", "results"} :
          \E r, n : Return(p, st, r, n)
    BY <1>1 DEF RefuseUpload, NotFound, GetAnalysis, Query, QueryAmong
  <2>2. pc'[p] = "done" /\ vectors'[p] = <<>> /\ answer'[p].status \notin {"indexed", "deleted"}
    BY <1>0, <2>1 DEF Return, Stop, Goto
  <2> QED
    BY <2>2
<1>2. CASE SetMeta(p) \/ Delete(p)
  <2>1. Stop(p)
    BY <1>2 DEF SetMeta, MetaWritten, Delete, Deleted, Return
  <2> QED
    BY <1>0, <1>2, <2>1 DEF Stop, Goto
<1>3. CASE Fail(p)
  <2>1. answer'[p].status = "failed" => answer'[p].status \notin {"indexed", "deleted"}
    OBVIOUS
  <2> QED
    BY <1>3, <2>1, EndsAll
<1>4. CASE UpsertFails(p) \/ Breaks(p)
  BY <1>3, <1>4 DEF UpsertFails, Breaks
<1>5. CASE PersistFile(p)
  BY <1>0, <1>5 DEF PersistFile, Continue, Goto, Same
<1>6. CASE Insert(p)
  <2>1. CASE Return(p, "uploaded", {}, 0)
    <3>1. pc'[p] = "done" /\ vectors'[p] = <<>> /\ answer'[p].status \notin {"indexed", "deleted"}
      BY <1>0, <2>1 DEF Return, Stop, Goto
    <3> QED
      BY <3>1
  <2>2. CASE ~Return(p, "uploaded", {}, 0)
    <3>1. /\ answer' = [answer EXCEPT ![p].status = "uploaded"]
          /\ Goto(p, "process") /\ UNCHANGED <<loaded, vectors>> /\ pc[p] = "insert"
      BY <1>6, <2>2 DEF Insert
    <3>2. answer'[p] = [answer[p] EXCEPT !.status = "uploaded"] /\ answer[p] \in Answer
      BY <3>1 DEF TypeOK, LocalsOK
    <3>3. answer'[p].status = "uploaded"
      BY <3>2 DEF Answer
    <3> QED
      BY <1>0, <1>6, <3>1, <3>3 DEF Goto
  <2> QED
    BY <2>1, <2>2
<1>7. CASE Process(p)
  <2>1. CASE Continue(p, "load")
    BY <1>0, <1>7, <2>1 DEF Process, Continue, Goto, Same
  <2> QED
    BY <1>3, <1>7, <2>1 DEF Process
<1>8. CASE Load(p)
  <2>1. CASE ~Fail(p)
    BY <1>0, <1>8, <2>1 DEF Load, Goto
  <2> QED
    BY <1>3, <2>1
<1>9. CASE ListCollections(p) \/ CreateCollection(p)
  <2>1. CASE ~Fail(p)
    <3>1. /\ pc[p] \in {"list", "create"}
          /\ \E l \in {"create", "generate"} : Continue(p, l)
      BY <1>9, <2>1 DEF ListCollections, CreateCollection
    <3> QED
      BY <1>0, <3>1 DEF Continue, Goto, Same
  <2> QED
    BY <1>3, <2>1
<1>10. CASE Generate(p)
  <2>1. CASE ~Fail(p)
    <3>1. pc[p] = "generate" /\ (Continue(p, "meta") \/ (Texts(p) > 0 /\ Continue(p, "embed")))
      BY <1>10, <2>1 DEF Generate
    <3> QED
      BY <1>0, <3>1 DEF Continue, Goto, Same
  <2> QED
    BY <1>3, <2>1
<1>11. CASE EmbedBatch(p) \/ EmbedBatchFails(p)
  BY <1>11 DEF EmbedBatch, EmbedBatchFails, Extend
<1>12. CASE Upsert(p)
  BY <1>0, <1>12 DEF Upsert, Continue, Goto, Same
<1>13. CASE Count(p) \/ EmbedQuery(p)
  <2>1. CASE ~Fail(p)
    BY <1>0, <1>13, <2>1 DEF Count, EmbedQuery, Continue, Goto, Same
  <2> QED
    BY <1>3, <2>1
<1> QED
  BY <1>1, <1>2, <1>4, <1>5, <1>6, <1>7, <1>8, <1>9, <1>10, <1>11, <1>12, <1>13 DEF Step

\* What a request was asked does not change, nor does the time it began.
LEMMA JobStep ==
  ASSUME TypeOK, NEW p \in Task, Step(p)
  PROVE  /\ pc[p] \notin {"idle", "done"} /\ since' = since
         /\ job'[p].source = job[p].source /\ job'[p].user = job[p].user
<1>1. CASE Insert(p)
  BY <1>1 DEF Insert, TypeOK, Job
<1>2. CASE ~Insert(p)
  BY <1>2 DEF Step, RefuseUpload, PersistFile, Process, NotFound, GetAnalysis, Load,
         ListCollections, CreateCollection, Generate, Extend, EmbedBatch, EmbedBatchFails,
         Upsert, UpsertFails, MetaWritten, SetMeta, Count, Deleted, Delete, EmbedQuery,
         QueryAmong, Query, Breaks
<1> QED
  BY <1>1, <1>2

\* A file is written by its own upload.
LEMMA FileStep ==
  ASSUME TypeOK, [Next]_vars, NEW s \in Task
  PROVE  \/ files'[s] = files[s]
         \/ PersistFile(s) /\ files'[s] = loaded[s].content /\ UNCHANGED rows
BY FilesStep DEF PersistFile, TypeOK, StoresOK

\* A row is inserted by its own upload, then only its analysis is written.
LEMMA RowStep ==
  ASSUME TypeOK, SourceIsThere, [Next]_vars, NEW s \in Task
  PROVE  \/ rows'[s] = rows[s]
         \/ Insert(s) /\ rows'[s] = loaded[s]
         \/ \E p \in Task :
              /\ SetMeta(p) /\ pc[p] = "meta" /\ pc'[p] = "done" /\ job[p].source = s
              /\ rows[s] # NoRow
              /\ rows'[s] = [user_id |-> rows[s].user_id, content |-> rows[s].content,
                   knowledge_base |-> [by |-> p, chunk_count |-> Cardinality(Embedded(p))]]
<1>1. CASE UNCHANGED rows
  BY <1>1
<1>2. ASSUME NEW p \in Task, Insert(p)
      PROVE  rows'[s] = rows[s] \/ (p = s /\ rows'[s] = loaded[s])
  BY <1>2 DEF Insert, TypeOK, StoresOK
<1>3. ASSUME NEW p \in Task, SetMeta(p)
      PROVE  \/ rows'[s] = rows[s]
             \/ /\ pc[p] = "meta" /\ pc'[p] = "done" /\ job[p].source = s
                /\ rows[s] # NoRow
                /\ rows'[s] = [user_id |-> rows[s].user_id, content |-> rows[s].content,
                     knowledge_base |-> [by |-> p, chunk_count |-> Cardinality(Embedded(p))]]
  <2> DEFINE k == [by |-> p, chunk_count |-> Cardinality(Embedded(p))]
  <2>1. pc[p] = "meta" /\ rows' = [rows EXCEPT ![job[p].source].knowledge_base = k] /\ Stop(p)
    BY <1>3 DEF SetMeta, MetaWritten, Return
  <2>2. pc'[p] = "done"
    BY <2>1 DEF Stop, Goto, TypeOK, LocalsOK
  <2>3. rows[job[p].source] # NoRow
    BY <2>1 DEF SourceIsThere, Indexing
  <2>4. rows[s] \in Row
    BY DEF TypeOK, StoresOK
  <2>5. CASE job[p].source # s
    BY <2>1, <2>5 DEF TypeOK, StoresOK
  <2>6. CASE job[p].source = s
    <3> HIDE DEF k
    <3>1. rows'[s] = [rows[s] EXCEPT !.knowledge_base = k]
      BY <2>1, <2>6 DEF TypeOK, StoresOK
    <3>2. rows'[s] = [user_id |-> rows[s].user_id, content |-> rows[s].content, knowledge_base |-> k]
      BY <2>4, <3>1, RowFields
    <3> QED
      BY <2>1, <2>2, <2>3, <2>6, <3>2 DEF k
  <2> QED
    BY <2>5, <2>6
<1> QED
  BY <1>1, <1>2, <1>3, RowsStep

\* A row is never taken away, nor is its content replaced.
LEMMA RowsStay ==
  ASSUME TypeOK, SourceIsThere, UploadIsOwn, [Next]_vars, NEW s \in Task, rows[s] # NoRow
  PROVE  rows'[s] # NoRow /\ rows'[s].content = rows[s].content
<1>1. ~Insert(s)
  BY DEF Insert, UploadIsOwn
<1>2. ASSUME NEW p \in Task,
             rows'[s] = [user_id |-> rows[s].user_id, content |-> rows[s].content,
                   knowledge_base |-> [by |-> p, chunk_count |-> Cardinality(Embedded(p))]]
      PROVE  rows'[s] # NoRow /\ rows'[s].content = rows[s].content
  <2>1. rows'[s].knowledge_base.by = p /\ rows'[s].content = rows[s].content
    BY <1>2
  <2>2. NoRow.knowledge_base.by = Nothing
    BY DEF NoRow, NotIndexed
  <2>3. p # Nothing
    BY NothingAssumption
  <2> QED
    BY <2>1, <2>2, <2>3
<1> QED
  BY <1>1, <1>2, RowStep

\* Insert moves on.
LEMMA InsertMoves ==
  ASSUME TypeOK, NEW p \in Task, Insert(p)
  PROVE  pc[p] = "insert" /\ pc'[p] \in {"process", "done"}
BY DEF Insert, Return, Stop, Goto, TypeOK, LocalsOK

LEMMA UploadStep == TypeOK /\ UploadIsOwn /\ SourceIsThere /\ [Next]_vars => UploadIsOwn'
<1> SUFFICES ASSUME TypeOK, UploadIsOwn, SourceIsThere, [Next]_vars, NEW p \in Task
             PROVE  /\ pc'[p] \in {"persist", "insert", "process"} => job'[p].source = p
                    /\ pc'[p] \in {"idle", "persist", "insert"} => rows'[p] = NoRow
                    /\ pc'[p] \in {"persist", "insert"} => loaded'[p].knowledge_base = NotIndexed
                    /\ pc'[p] = "insert" => files'[p] = loaded'[p].content
  BY DEF UploadIsOwn
<1>0. p \in DOMAIN pc /\ p \in DOMAIN job /\ p \in DOMAIN loaded
  BY DEF TypeOK, LocalsOK
<1>1. CASE Start(p)
  <2>1. PICK k \in Kinds, u \in User, s \in Task \cup {Nothing}, l \in Labels :
              /\ job' = [job EXCEPT ![p] = [kind |-> k, user |-> u, source |-> s]]
              /\ pc' = [pc EXCEPT ![p] = l]
              /\ \/ /\ l = "persist" /\ s = p
                    /\ \E c \in Content : loaded' = [loaded EXCEPT ![p] =
                         [user_id |-> u, content |-> c, knowledge_base |-> NotIndexed]]
                 \/ l \in {"load", "count", "embed_query"}
    BY <1>1, StartOfOne
  <2>2. rows' = rows /\ rows[p] = NoRow
    BY <1>1, StartOfOne DEF store, UploadIsOwn
  <2> QED
    BY <1>0, <2>1, <2>2
<1>2. CASE Step(p)
  <2>0. job'[p].source = job[p].source
    BY <1>2, JobStep
  <2>1. CASE PersistFile(p) /\ pc[p] = "persist" /\ pc'[p] = "insert" /\ Same(p)
    <3>1. rows' = rows /\ files'[p] = loaded[p].content
      BY <2>1 DEF PersistFile, TypeOK, StoresOK
    <3> QED
      BY <2>0, <2>1, <3>1 DEF UploadIsOwn, Same
  <2>2. CASE pc[p] = "insert" /\ pc'[p] = "process"
    BY <2>0, <2>2 DEF UploadIsOwn
  <2>3. CASE EmbedBatch(p) \/ EmbedBatchFails(p)
    BY <1>0, <2>3 DEF EmbedBatch, EmbedBatchFails, Extend, Goto
  <2>4. CASE pc'[p] \notin {"idle", "persist", "insert", "process"}
    BY <2>4
  <2> QED
    BY <1>2, <2>1, <2>2, <2>3, <2>4, StepOfOne
<1>3. CASE Crash
  BY <1>3 DEF Crash, store, UploadIsOwn
<1>4. CASE UNCHANGED Locals(p)
  <2>1. ~Insert(p)
    BY <1>4, InsertMoves DEF Locals
  <2>2. rows[p] = NoRow => rows'[p] = NoRow
    BY <2>1, RowStep
  <2>3. pc'[p] = "insert" => files'[p] = files[p]
    BY <1>4, FileStep DEF Locals, PersistFile
  <2> QED
    BY <1>4, <2>2, <2>3 DEF Locals, UploadIsOwn
<1> QED
  BY <1>1, <1>2, <1>3, <1>4, OthersWait

LEMMA SourceStep ==
  TypeOK /\ UploadIsOwn /\ SourceIsThere /\ RowHasFile /\ [Next]_vars => SourceIsThere'
<1> SUFFICES ASSUME TypeOK, UploadIsOwn, SourceIsThere, RowHasFile, [Next]_vars, NEW p \in Task
             PROVE  /\ pc'[p] \in {"load"} \cup Indexing => job'[p].source \in Task
                    /\ pc'[p] \in Indexing => /\ rows'[job'[p].source] # NoRow
                                              /\ loaded'[p].content \in Content
  BY DEF SourceIsThere
<1>0. p \in DOMAIN pc /\ p \in DOMAIN job /\ p \in DOMAIN loaded
  BY DEF TypeOK, LocalsOK
<1>1. CASE Start(p)
  <2>1. PICK k \in Kinds, u \in User, s \in Task \cup {Nothing}, l \in Labels :
              /\ job' = [job EXCEPT ![p] = [kind |-> k, user |-> u, source |-> s]]
              /\ pc' = [pc EXCEPT ![p] = l]
              /\ (l \in {"load", "count"} /\ s \in Task) \/ l \in {"persist", "embed_query"}
    BY <1>1, StartOfOne
  <2> QED
    BY <1>0, <2>1 DEF Indexing
<1>2. ASSUME pc[p] \in Indexing, job'[p].source = job[p].source, loaded'[p] = loaded[p]
      PROVE  /\ job'[p].source \in Task /\ rows'[job'[p].source] # NoRow
             /\ loaded'[p].content \in Content
  BY <1>2, RowsStay DEF SourceIsThere
<1>3. CASE Step(p)
  <2>0. job'[p].source = job[p].source
    BY <1>3, JobStep
  <2>1. CASE pc[p] = "process" /\ pc'[p] = "load"
    BY <2>0, <2>1 DEF UploadIsOwn, Indexing
  <2>2. CASE /\ Load(p) /\ pc[p] = "load" /\ files[job[p].source] # Nothing
             /\ loaded'[p] = rows[job[p].source]
    <3>1. job[p].source \in Task
      BY <2>2 DEF SourceIsThere
    <3>2. rows[job[p].source] # NoRow
      BY <2>2 DEF Load, Found
    <3>3. loaded'[p].content \in Content
      BY <2>2, <3>1, <3>2 DEF RowHasFile, TypeOK, StoresOK
    <3> QED
      BY <2>0, <3>1, <3>2, <3>3, RowsStay
  <2>3. CASE EmbedBatch(p) \/ EmbedBatchFails(p)
    <3>1. pc[p] = "embed" /\ loaded' = loaded
      BY <2>3 DEF EmbedBatch, EmbedBatchFails, Extend
    <3> QED
      BY <1>2, <2>0, <3>1 DEF Indexing
  <2>4. CASE pc[p] \in Indexing /\ Same(p)
    BY <1>2, <2>0, <2>4 DEF Same
  <2>5. CASE pc'[p] \notin {"load"} \cup Indexing
    BY <2>5
  <2> QED
    BY <1>3, <2>1, <2>2, <2>3, <2>4, <2>5, StepOfOne DEF Indexing
<1>4. CASE Crash
  BY <1>4 DEF Crash, Indexing
<1>5. CASE UNCHANGED Locals(p)
  BY <1>2, <1>5 DEF Locals, SourceIsThere
<1> QED
  BY <1>1, <1>3, <1>4, <1>5, OthersWait

\* What a batch adds.
LEMMA ExtendStep ==
  ASSUME TypeOK, SourceIsThere, VectorsInOrder, NEW p \in Task,
         EmbedBatch(p) \/ EmbedBatchFails(p)
  PROVE  /\ pc'[p] \in {"embed", "upsert"} /\ UNCHANGED <<loaded, answer>>
         /\ pc'[p] = "embed" => Len(vectors'[p]) < Texts(p)
         /\ \A i \in 1 .. Len(vectors'[p]) : vectors'[p][i] \in {<<>>, <<i>>, <<i, i>>}
<1>1. PICK b \in {Right(p), Other(p), Empty(p)} : Extend(p, b)
  BY BatchIsOne
<1>2. pc[p] = "embed" /\ vectors'[p] = vectors[p] \o b /\ UNCHANGED <<loaded, answer>>
  BY <1>1 DEF Extend, TypeOK, LocalsOK
<1>3. /\ Len(vectors[p]) \in Nat /\ BatchLength(p) \in Nat /\ b \in Seq(Seq(Nat))
      /\ vectors[p] \in Seq(Seq(Nat)) /\ Texts(p) \in Nat
  <2>1. Texts(p) \in Nat
    BY <1>2, ChunkAssumption DEF Texts, SourceIsThere, Indexing
  <2> QED
    BY <1>2, <2>1, BatchIsTyped DEF TypeOK, LocalsOK
<1> HIDE DEF BatchLength
<1>4. Len(b) = BatchLength(p)
  BY <1>2, BatchIsTyped
<1>5. \A i \in 1 .. BatchLength(p) :
        b[i] \in {<<>>, <<Len(vectors[p]) + i>>, <<Len(vectors[p]) + i, Len(vectors[p]) + i>>}
  BY <1>2, BatchIsTyped
<1>6. Len(vectors'[p]) = Len(vectors[p]) + BatchLength(p)
  <2>1. \A v, w \in Seq(Seq(Nat)) : Len(v \o w) = Len(v) + Len(w)
    OBVIOUS
  <2>2. Len(vectors[p] \o b) = Len(vectors[p]) + Len(b)
    BY <1>3, <2>1
  <2> QED
    BY <1>2, <1>4, <2>2
<1>7. ASSUME NEW i \in 1 .. Len(vectors'[p])
      PROVE  vectors'[p][i] \in {<<>>, <<i>>, <<i, i>>}
  <2>1. CASE i <= Len(vectors[p])
    <3>1. vectors'[p][i] = vectors[p][i]
      BY <1>2, <1>3, <1>4, <1>6, <2>1
    <3> QED
      BY <1>3, <2>1, <3>1 DEF VectorsInOrder
  <2>2. CASE i > Len(vectors[p])
    <3> DEFINE j == i - Len(vectors[p])
    <3>1. j \in 1 .. BatchLength(p) /\ Len(vectors[p]) + j = i
      BY <1>3, <1>6, <2>2
    <3>2. vectors'[p][i] = b[j]
      BY <1>2, <1>3, <1>4, <1>6, <2>2
    <3> HIDE DEF j
    <3> QED
      BY <1>5, <3>1, <3>2
  <2> QED
    BY <1>3, <1>6, <2>1, <2>2
<1>8. /\ pc'[p] \in {"embed", "upsert"}
      /\ pc'[p] = "embed" => ~(Len(vectors'[p]) >= Texts(p))
  BY <1>1 DEF Extend, Goto, TypeOK, LocalsOK
<1>9. pc'[p] = "embed" => Len(vectors'[p]) < Texts(p)
  BY <1>3, <1>6, <1>8
<1> QED
  BY <1>2, <1>7, <1>8, <1>9

LEMMA VectorsStep == TypeOK /\ SourceIsThere /\ VectorsInOrder /\ [Next]_vars => VectorsInOrder'
<1> SUFFICES ASSUME TypeOK, SourceIsThere, VectorsInOrder, [Next]_vars, NEW p \in Task
             PROVE  /\ pc'[p] \notin {"embed", "upsert", "meta"} => vectors'[p] = <<>>
                    /\ pc'[p] = "embed" => Len(vectors'[p]) < Chunks[loaded'[p].content]
                    /\ \A i \in 1 .. Len(vectors'[p]) : vectors'[p][i] \in {<<>>, <<i>>, <<i, i>>}
  BY DEF VectorsInOrder, Texts
<1>0. p \in DOMAIN pc /\ \A i \in 1 .. Len(vectors[p]) : vectors[p][i] \in {<<>>, <<i>>, <<i, i>>}
  BY DEF TypeOK, LocalsOK, VectorsInOrder
<1>1. ASSUME vectors'[p] = <<>>, pc'[p] # "embed"
      PROVE  /\ pc'[p] \notin {"embed", "upsert", "meta"} => vectors'[p] = <<>>
             /\ pc'[p] = "embed" => Len(vectors'[p]) < Chunks[loaded'[p].content]
             /\ \A i \in 1 .. Len(vectors'[p]) : vectors'[p][i] \in {<<>>, <<i>>, <<i, i>>}
  BY <1>1
<1>2. CASE Start(p)
  <2>1. pc[p] = "idle" /\ vectors' = vectors
    BY <1>2, StartOfOne
  <2>2. pc'[p] # "embed"
    BY <1>0, <1>2, StartOfOne
  <2> QED
    BY <1>1, <2>1, <2>2 DEF VectorsInOrder
<1>3. CASE Step(p)
  <2>1. CASE pc'[p] = "done" /\ vectors'[p] = <<>>
    BY <1>1, <2>1
  <2>2. CASE EmbedBatch(p) \/ EmbedBatchFails(p)
    BY <2>2, ExtendStep DEF Texts
  <2>3. CASE pc[p] = "generate" /\ pc'[p] = "embed" /\ Texts(p) > 0 /\ Same(p)
    <3>1. vectors'[p] = <<>> /\ loaded'[p] = loaded[p]
      BY <2>3 DEF Same, VectorsInOrder
    <3>2. Texts(p) \in Nat
      BY <2>3, ChunkAssumption DEF Texts, SourceIsThere, Indexing
    <3> QED
      BY <2>3, <3>1, <3>2 DEF Texts
  <2>4. CASE pc[p] \notin {"embed", "upsert", "meta"} /\ pc'[p] # "embed" /\ vectors'[p] = vectors[p]
    BY <1>1, <2>4 DEF VectorsInOrder
  <2>5. CASE pc[p] = "upsert" /\ pc'[p] = "meta" /\ Same(p)
    BY <1>0, <2>5 DEF Same
  <2> QED
    BY <1>3, <2>1, <2>2, <2>3, <2>4, <2>5, StepOfOne DEF Same
<1>4. CASE Crash
  <2>1. vectors'[p] = <<>> /\ pc'[p] # "embed"
    BY <1>4 DEF Crash
  <2> QED
    BY <1>1, <2>1
<1>5. CASE UNCHANGED Locals(p)
  BY <1>5 DEF Locals, VectorsInOrder, Texts
<1> QED
  BY <1>2, <1>3, <1>4, <1>5, OthersWait

-----------------------------------------------------------------------------
\* The points of a run, from the writing to the deletion.

LEMMA UpsertMoves ==
  ASSUME TypeOK, NEW p \in Task, Upsert(p)
  PROVE  pc[p] = "upsert" /\ pc'[p] = "meta" /\ UNCHANGED <<vectors, gone>>
BY DEF Upsert, Continue, Goto, TypeOK, LocalsOK

LEMMA RunOfOne ==
  ASSUME TypeOK, [Next]_vars, NEW p \in Task
  PROVE  \/ Run(p)' = Run(p) /\ (p \in gone => p \in gone')
         \/ Upsert(p) /\ Run(p)' = Run(p) \cup PointsOf(p)
         \/ p \in gone' /\ Run(p)' \subseteq Run(p)
<1>1. ASSUME NEW q \in Task, Upsert(q)
      PROVE  \/ Run(p)' = Run(p) /\ (p \in gone => p \in gone')
             \/ q = p /\ Run(p)' = Run(p) \cup PointsOf(p)
  <2>1. points' = points \cup PointsOf(q) /\ gone' = gone
    BY <1>1 DEF Upsert
  <2>2. \A x \in PointsOf(q) : x.by = q
    BY DEF PointsOf
  <2> QED
    BY <2>1, <2>2 DEF Run
<1>2. ASSUME NEW q \in Task, Delete(q)
      PROVE  \/ Run(p)' = Run(p) /\ (p \in gone => p \in gone')
             \/ p \in gone' /\ Run(p)' \subseteq Run(p)
  <2>1. points' = points \ Mine(q) /\ gone' = gone \cup {x.by : x \in Mine(q)}
    BY <1>2 DEF Delete, Deleted
  <2>2. CASE \E x \in Mine(q) : x.by = p
    BY <2>1, <2>2 DEF Run
  <2>3. CASE \A x \in Mine(q) : x.by # p
    BY <2>1, <2>3 DEF Run
  <2> QED
    BY <2>2, <2>3
<1>3. CASE UNCHANGED <<points, time, gone>>
  BY <1>3 DEF Run
<1> QED
  BY <1>1, <1>2, <1>3, PointsStep

LEMMA MisfitStays ==
  ASSUME [Next]_vars, NEW p \in Task, p \in misfit
  PROVE  p \in misfit'
BY PointsStep DEF Upsert, Delete, Deleted

\* A request that is over, or about to be, gets no further.
LEMMA DoneStays ==
  ASSUME TypeOK, [Next]_vars, NEW p \in Task
  PROVE  /\ pc[p] = "done" => pc'[p] = "done"
         /\ pc[p] = "meta" => pc'[p] \in {"meta", "done"}
<1>1. CASE Start(p)
  BY <1>1, StartOfOne
<1>2. CASE Step(p)
  <2>1. pc[p] # "done"
    BY <1>2, JobStep
  <2> QED
    BY <1>2, <2>1, StepOfOne
<1>3. CASE Crash
  BY <1>3 DEF Crash
<1>4. CASE UNCHANGED Locals(p)
  BY <1>4 DEF Locals
<1> QED
  BY <1>1, <1>2, <1>3, <1>4, OthersWait

LEMMA RunStep ==
  TypeOK /\ SourceIsThere /\ VectorsInOrder /\ RunIsWhole /\ [Next]_vars => RunIsWhole'
<1> SUFFICES ASSUME TypeOK, SourceIsThere, VectorsInOrder, RunIsWhole, [Next]_vars,
                    NEW p \in Task
             PROVE  /\ pc'[p] \notin {"meta", "done"} => Run(p)' = {}
                    /\ pc'[p] = "meta" /\ p \notin gone' =>
                         /\ Cardinality(Run(p)') <= Cardinality(Embedded(p)')
                         /\ p \notin misfit' => Cardinality(Run(p)') = Cardinality(Embedded(p)')
  BY DEF RunIsWhole, Tells
<1>1. ASSUME pc'[p] \notin {"meta", "done"}
      PROVE  Run(p)' = {}
  <2>1. pc[p] \notin {"meta", "done"} /\ ~Upsert(p)
    BY <1>1, DoneStays, UpsertMoves
  <2>2. Run(p) = {}
    BY <2>1 DEF RunIsWhole
  <2> QED
    BY <2>1, <2>2, RunOfOne
<1>2. ASSUME pc'[p] = "meta", p \notin gone'
      PROVE  /\ Cardinality(Run(p)') <= Cardinality(Embedded(p)')
             /\ p \notin misfit' => Cardinality(Run(p)') = Cardinality(Embedded(p)')
  <2>1. CASE Upsert(p)
    <3>1. pc[p] = "upsert" /\ vectors' = vectors /\ Run(p) = {}
      BY <2>1, UpsertMoves DEF RunIsWhole
    <3>2. Run(p)' = PointsOf(p)
      <4>1. points' = points \cup PointsOf(p)
        BY <2>1 DEF Upsert
      <4>2. \A x \in PointsOf(p) : x.by = p
        BY DEF PointsOf
      <4> QED
        BY <3>1, <4>1, <4>2 DEF Run
    <3>3. Embedded(p)' = Embedded(p)
      BY <3>1 DEF Embedded
    <3>4. p \notin misfit' => Valid(p) = Embedded(p)
      BY <2>1 DEF Upsert
    <3> QED
      BY <3>2, <3>3, <3>4, PointsAreTyped
  <2>2. CASE pc[p] = "generate" /\ vectors'[p] = vectors[p]
    <3>1. Run(p) = {} /\ vectors'[p] = <<>>
      BY <2>2 DEF RunIsWhole, VectorsInOrder
    <3>2. Run(p)' = {}
      BY <2>2, <3>1, RunOfOne, UpsertMoves
    <3>3. Embedded(p)' = {}
      BY <3>1 DEF Embedded
    <3> QED
      BY <3>2, <3>3, FS_EmptySet
  <2>3. CASE pc[p] = "meta" /\ vectors'[p] = vectors[p]
    <3>1. Run(p)' = Run(p) /\ p \notin gone /\ (p \in misfit => p \in misfit')
      BY <1>2, <2>3, RunOfOne, UpsertMoves, MisfitStays
    <3>2. /\ Cardinality(Run(p)) <= Cardinality(Embedded(p))
          /\ p \notin misfit => Cardinality(Run(p)) = Cardinality(Embedded(p))
      BY <2>3, <3>1 DEF RunIsWhole, Tells
    <3>3. Embedded(p)' = Embedded(p)
      BY <2>3 DEF Embedded
    <3> QED
      BY <3>1, <3>2, <3>3
  <2>4. CASE Start(p)
    BY <1>2, <2>4, StartOfOne DEF TypeOK, LocalsOK
  <2>5. CASE Step(p)
    <3>1. CASE EmbedBatch(p) \/ EmbedBatchFails(p)
      BY <1>2, <3>1, ExtendStep
    <3> QED
      BY <1>2, <2>1, <2>2, <2>5, <3>1, StepOfOne DEF Same
  <2>6. CASE Crash
    BY <1>2, <2>6 DEF Crash
  <2>7. CASE UNCHANGED Locals(p)
    BY <1>2, <2>3, <2>7 DEF Locals
  <2> QED
    BY <2>4, <2>5, <2>6, <2>7, OthersWait
<1> QED
  BY <1>1, <1>2

\* Who tells of the index.
LEMMA AnswerStep ==
  ASSUME TypeOK, SourceIsThere, VectorsInOrder, [Next]_vars, NEW p \in Task
  PROVE  \/ answer'[p] = answer[p] \/ answer'[p].status \notin {"indexed", "deleted"}
         \/ pc'[p] = "done" /\ (SetMeta(p) \/ Delete(p))
<1>1. CASE Start(p)
  BY <1>1, StartOfOne
<1>2. CASE Step(p)
  <2>1. CASE EmbedBatch(p) \/ EmbedBatchFails(p)
    BY <2>1, ExtendStep
  <2>2. answer'[p].status = "uploaded" => answer'[p].status \notin {"indexed", "deleted"}
    OBVIOUS
  <2> QED
    BY <1>2, <2>1, <2>2, StepOfOne DEF Same
<1>3. CASE Crash
  BY <1>3 DEF Crash
<1>4. CASE UNCHANGED Locals(p)
  BY <1>4 DEF Locals
<1> QED
  BY <1>1, <1>2, <1>3, <1>4, OthersWait

LEMMA CountedStep ==
  TypeOK /\ UploadIsOwn /\ SourceIsThere /\ VectorsInOrder /\ CountedIsOver /\ [Next]_vars
    => CountedIsOver'
<1> SUFFICES ASSUME TypeOK, UploadIsOwn, SourceIsThere, VectorsInOrder, CountedIsOver,
                    [Next]_vars, NEW p \in Task
             PROVE  /\ rows'[p].knowledge_base # NotIndexed =>
                         /\ rows'[p].knowledge_base.by \in Task
                         /\ pc'[rows'[p].knowledge_base.by] = "done"
                    /\ answer'[p].status \in {"indexed", "deleted"} => pc'[p] = "done"
  BY DEF CountedIsOver
<1>1. ASSUME rows'[p].knowledge_base # NotIndexed
      PROVE  /\ rows'[p].knowledge_base.by \in Task
             /\ pc'[rows'[p].knowledge_base.by] = "done"
  <2>1. CASE rows'[p] = rows[p]
    BY <1>1, <2>1, DoneStays DEF CountedIsOver
  <2>2. CASE Insert(p) /\ rows'[p] = loaded[p]
    BY <1>1, <2>2 DEF Insert, UploadIsOwn
  <2>3. ASSUME NEW q \in Task, pc'[q] = "done",
               rows'[p] = [user_id |-> rows[p].user_id, content |-> rows[p].content,
                   knowledge_base |-> [by |-> q, chunk_count |-> Cardinality(Embedded(q))]]
        PROVE  /\ rows'[p].knowledge_base.by \in Task
               /\ pc'[rows'[p].knowledge_base.by] = "done"
    <3>1. rows'[p].knowledge_base.by = q
      BY <2>3
    <3> QED
      BY <2>3, <3>1
  <2> QED
    BY <2>1, <2>2, <2>3, RowStep
<1>2. answer'[p].status \in {"indexed", "deleted"} => pc'[p] = "done"
  BY AnswerStep, DoneStays DEF CountedIsOver
<1> QED
  BY <1>1, <1>2

-----------------------------------------------------------------------------
\* The properties, step by step.

LEMMA PastStep == TypeOK /\ InThePast /\ [Next]_vars => InThePast'
<1> SUFFICES ASSUME TypeOK, InThePast, [Next]_vars, NEW p \in Task
             PROVE  since'[p] <= time'
  BY DEF InThePast
<1>1. time \in Nat /\ since[p] \in Nat /\ since[p] <= time
  BY DEF TypeOK, StoresOK, InThePast
<1>2. time' = time \/ time' = time + 1
  BY PointsStep DEF Upsert, Delete, Deleted
<1>3. since'[p] \in {since[p], time}
  <2>1. CASE Start(p)
    BY <2>1, StartOfOne DEF TypeOK
  <2>2. CASE Step(p)
    BY <2>2, JobStep
  <2> QED
    BY <2>1, <2>2, OthersWait DEF Crash, Locals
<1> QED
  BY <1>1, <1>2, <1>3

LEMMA FileKept ==
  TypeOK /\ UploadIsOwn /\ SourceIsThere /\ RowHasFile /\ [Next]_vars => RowHasFile'
<1> SUFFICES ASSUME TypeOK, UploadIsOwn, SourceIsThere, RowHasFile, [Next]_vars,
                    NEW s \in Task, rows'[s] # NoRow
             PROVE  files'[s] = rows'[s].content
  BY DEF RowHasFile
<1>1. CASE rows[s] # NoRow
  <2>1. rows'[s].content = rows[s].content /\ files[s] = rows[s].content
    BY <1>1, RowsStay DEF RowHasFile
  <2>2. ~PersistFile(s)
    BY <1>1 DEF PersistFile, UploadIsOwn
  <2> QED
    BY <2>1, <2>2, FileStep
<1>2. CASE rows[s] = NoRow
  <2>1. Insert(s) /\ rows'[s] = loaded[s]
    BY <1>2, RowStep
  <2>2. pc[s] = "insert" /\ files[s] = loaded[s].content
    BY <2>1 DEF Insert, UploadIsOwn
  <2>3. ~PersistFile(s)
    BY <2>2 DEF PersistFile
  <2> QED
    BY <2>1, <2>2, <2>3, FileStep
<1> QED
  BY <1>1, <1>2

\* The points of a run that is over are as many as before, unless some were deleted.
LEMMA RunOver ==
  ASSUME TypeOK, [Next]_vars, NEW p \in Task, pc[p] \in {"meta", "done"}, p \notin gone'
  PROVE  Run(p)' = Run(p) /\ p \notin gone /\ (p \in misfit => p \in misfit')
BY RunOfOne, UpsertMoves, MisfitStays

\* So what was said of it still holds.
LEMMA StillTells ==
  ASSUME TypeOK, [Next]_vars, NEW p \in Task, pc[p] \in {"meta", "done"}, p \notin gone',
         NEW n, Tells(p, n)
  PROVE  /\ Cardinality(Run(p)') <= n
         /\ p \notin misfit' => Cardinality(Run(p)') = n
BY RunOver DEF Tells

LEMMA CountStep ==
  /\ TypeOK /\ UploadIsOwn /\ SourceIsThere /\ VectorsInOrder /\ RunIsWhole
  /\ CountedIsOver /\ CountIsStored /\ [Next]_vars
  => CountIsStored'
<1> SUFFICES ASSUME TypeOK, UploadIsOwn, SourceIsThere, VectorsInOrder, RunIsWhole,
                    CountedIsOver, CountIsStored, [Next]_vars, NEW p \in Task
             PROVE  /\ rows'[p].knowledge_base # NotIndexed
                         /\ rows'[p].knowledge_base.by \notin gone' =>
                       Tells(rows[p].knowledge_base.by, rows[p].knowledge_base.chunk_count)'
                    /\ answer'[p].status = "indexed" /\ p \notin gone' =>
                         Tells(p, answer[p].count)'
  BY DEF CountIsStored, Tells, Run
<1>1. ASSUME rows'[p].knowledge_base # NotIndexed, rows'[p].knowledge_base.by \notin gone'
      PROVE  Tells(rows[p].knowledge_base.by, rows[p].knowledge_base.chunk_count)'
  <2>1. ASSUME NEW q \in Task, NEW n, pc[q] \in {"meta", "done"}, Tells(q, n),
               rows'[p].knowledge_base.by = q, rows'[p].knowledge_base.chunk_count = n
        PROVE  Tells(rows[p].knowledge_base.by, rows[p].knowledge_base.chunk_count)'
    <3>1. /\ Cardinality(Run(q)') <= n
          /\ q \notin misfit' => Cardinality(Run(q)') = n
      BY <1>1, <2>1, StillTells
    <3>2. Run(rows[p].knowledge_base.by)' = Run(q)'
      BY <2>1 DEF Run
    <3> QED
      BY <2>1, <3>1, <3>2 DEF Tells
  <2>2. CASE rows'[p] = rows[p]
    <3>1. rows[p].knowledge_base.by \in Task /\ pc[rows[p].knowledge_base.by] = "done"
      BY <1>1, <2>2 DEF CountedIsOver
    <3>2. rows[p].knowledge_base.by \notin gone
      BY <1>1, <2>2, <3>1, RunOver
    <3>3. Tells(rows[p].knowledge_base.by, rows[p].knowledge_base.chunk_count)
      BY <1>1, <2>2, <3>2 DEF CountIsStored, Tells, Run
    <3> QED
      BY <2>1, <2>2, <3>1, <3>3
  <2>3. CASE Insert(p) /\ rows'[p] = loaded[p]
    BY <1>1, <2>3 DEF Insert, UploadIsOwn
  <2>4. ASSUME NEW q \in Task, pc[q] = "meta",
               rows'[p] = [user_id |-> rows[p].user_id, content |-> rows[p].content,
                   knowledge_base |-> [by |-> q, chunk_count |-> Cardinality(Embedded(q))]]
        PROVE  Tells(rows[p].knowledge_base.by, rows[p].knowledge_base.chunk_count)'
    <3>1. /\ rows'[p].knowledge_base.by = q
          /\ rows'[p].knowledge_base.chunk_count = Cardinality(Embedded(q))
      BY <2>4
    <3>2. q \notin gone
      BY <1>1, <2>4, <3>1, RunOver
    <3>3. Tells(q, Cardinality(Embedded(q)))
      BY <2>4, <3>2 DEF RunIsWhole
    <3> QED
      BY <2>1, <2>4, <3>1, <3>3
  <2> QED
    BY <2>2, <2>3, <2>4, RowStep
<1>2. ASSUME answer'[p].status = "indexed", p \notin gone'
      PROVE  Tells(p, answer[p].count)'
  <2>1. ASSUME NEW n, pc[p] \in {"meta", "done"}, Tells(p, n), answer'[p].count = n
        PROVE  Tells(p, answer[p].count)'
    <3>1. /\ Cardinality(Run(p)') <= n
          /\ p \notin misfit' => Cardinality(Run(p)') = n
      BY <1>2, <2>1, StillTells
    <3> QED
      BY <2>1, <3>1 DEF Tells
  <2>2. CASE answer'[p] = answer[p]
    <3>1. pc[p] = "done"
      BY <1>2, <2>2 DEF CountedIsOver
    <3>2. p \notin gone
      BY <1>2, <3>1, RunOver
    <3>3. Tells(p, answer[p].count)
      BY <1>2, <2>2, <3>2 DEF CountIsStored, Tells, Run
    <3> QED
      BY <2>1, <2>2, <3>1, <3>3
  <2>3. CASE SetMeta(p) /\ answer'[p] # answer[p]
    <3>1. pc[p] = "meta" /\ Return(p, "indexed", {}, Cardinality(Embedded(p)))
      BY <2>3 DEF SetMeta, MetaWritten
    <3>2. answer'[p].count = Cardinality(Embedded(p))
      BY <3>1 DEF Return, TypeOK, LocalsOK
    <3>3. p \notin gone
      BY <1>2, <3>1, RunOver
    <3>4. Tells(p, Cardinality(Embedded(p)))
      BY <3>1, <3>3 DEF RunIsWhole
    <3> QED
      BY <2>1, <3>1, <3>2, <3>4
  <2>4. CASE Delete(p)
    <3>1. answer'[p].status = "deleted"
      BY <2>4 DEF Delete, Deleted, Return, TypeOK, LocalsOK
    <3> QED
      BY <1>2, <3>1
  <2> QED
    BY <1>2, <2>2, <2>3, <2>4, AnswerStep
<1> QED
  BY <1>1, <1>2

LEMMA VectorStep == TypeOK /\ VectorsInOrder /\ VectorIsOwn /\ [Next]_vars => VectorIsOwn'
<1> SUFFICES ASSUME TypeOK, VectorsInOrder, VectorIsOwn, [Next]_vars, NEW x \in points'
             PROVE  x.vector = x.chunk
  BY DEF VectorIsOwn
<1>1. CASE x \in points
  BY <1>1 DEF VectorIsOwn
<1>2. ASSUME NEW p \in Task, x \in PointsOf(p)
      PROVE  x.vector = x.chunk
  <2>1. PICK i \in Valid(p) : x.vector = vectors[p][i][1] /\ x.chunk = i
    BY <1>2 DEF PointsOf
  <2> QED
    BY <2>1, PointsAreTyped
<1> QED
  BY <1>1, <1>2, PointsStep DEF Upsert, Delete, Deleted

LEMMA DeletedStep ==
  /\ TypeOK /\ SourceIsThere /\ VectorsInOrder /\ CountedIsOver /\ InThePast
  /\ DeletedIsGone /\ [Next]_vars
  => DeletedIsGone'
<1> SUFFICES ASSUME TypeOK, SourceIsThere, VectorsInOrder, CountedIsOver, InThePast,
                    DeletedIsGone, [Next]_vars, NEW p \in Task,
                    answer'[p].status = "deleted", NEW x \in Mine(p)'
             PROVE  x.at >= since'[p]
  BY DEF DeletedIsGone
<1>1. CASE answer'[p] = answer[p]
  <2>1. pc[p] = "done"
    BY <1>1 DEF CountedIsOver
  <2>2. job'[p] = job[p] /\ since'[p] = since[p]
    <3>1. ~Start(p) /\ ~Step(p)
      BY <2>1, StartOfOne, JobStep
    <3> QED
      BY <3>1, OthersWait DEF Crash, Locals
  <2>3. CASE x \in points
    <3>1. x \in Mine(p)
      BY <2>2, <2>3 DEF Mine
    <3> QED
      BY <1>1, <2>2, <3>1 DEF DeletedIsGone
  <2>4. ASSUME NEW q \in Task, x \in PointsOf(q)
        PROVE  x.at >= since'[p]
    <3>1. x.at = time
      BY <2>4 DEF PointsOf
    <3>2. time \in Nat /\ since[p] \in Nat /\ since[p] <= time
      BY DEF TypeOK, StoresOK, InThePast
    <3> QED
      BY <2>2, <3>1, <3>2
  <2>5. x \in points'
    BY DEF Mine
  <2> QED
    BY <2>3, <2>4, <2>5, PointsStep DEF Upsert, Delete, Deleted
<1>2. CASE SetMeta(p) /\ answer'[p] # answer[p]
  <2>1. answer'[p].status = "indexed"
    BY <1>2 DEF SetMeta, MetaWritten, Return, TypeOK, LocalsOK
  <2> QED
    BY <2>1
<1>3. CASE Delete(p)
  <2>1. points' = points \ Mine(p) /\ job' = job
    BY <1>3 DEF Delete, Deleted
  <2>2. Mine(p)' = {}
    BY <2>1 DEF Mine
  <2> QED
    BY <2>2
<1> QED
  BY <1>1, <1>2, <1>3, AnswerStep

-----------------------------------------------------------------------------
LEMMA InitIInv == Init => IInv
<1> SUFFICES ASSUME Init
             PROVE  IInv
  OBVIOUS
<1>1. TypeOK
  BY TypeInit
<1>2. \A p \in Task : /\ pc[p] = "idle" /\ rows[p] = NoRow /\ vectors[p] = <<>>
                      /\ answer[p] = NoAnswer /\ since[p] = 0
  BY DEF Init
<1>3. points = {} /\ time = 1
  BY DEF Init
<1>4. UploadIsOwn /\ SourceIsThere /\ RunIsWhole /\ VectorIsOwn /\ RowHasFile
  BY <1>2, <1>3 DEF UploadIsOwn, SourceIsThere, RunIsWhole, Run, VectorIsOwn, RowHasFile, Indexing
<1>5. VectorsInOrder
  BY <1>2 DEF VectorsInOrder
<1>6. CountedIsOver
  BY <1>2 DEF CountedIsOver, NoRow, NoAnswer
<1>7. InThePast
  BY <1>2, <1>3 DEF InThePast
<1>8. CountIsStored /\ DeletedIsGone
  BY <1>2, <1>3 DEF CountIsStored, DeletedIsGone, NoRow, NoAnswer
<1> QED
  BY <1>1, <1>4, <1>5, <1>6, <1>7, <1>8 DEF IInv

LEMMA StepIInv == IInv /\ [Next]_vars => IInv'
<1> SUFFICES ASSUME IInv, [Next]_vars
             PROVE  IInv'
  OBVIOUS
<1>1. TypeOK' /\ UploadIsOwn' /\ SourceIsThere' /\ VectorsInOrder'
  BY TypeStep, UploadStep, SourceStep, VectorsStep DEF IInv
<1>2. RunIsWhole' /\ CountedIsOver' /\ InThePast'
  BY RunStep, CountedStep, PastStep DEF IInv
<1>3. RowHasFile' /\ CountIsStored' /\ VectorIsOwn' /\ DeletedIsGone'
  BY FileKept, CountStep, VectorStep, DeletedStep DEF IInv
<1> QED
  BY <1>1, <1>2, <1>3 DEF IInv

LEMMA Invariance == Spec => []IInv
BY InitIInv, StepIInv, PTL DEF Spec

-----------------------------------------------------------------------------
\* create_data_source writes the file before the row, and nothing removes either:
\* whenever the process is killed, a data source that is listed can be read.
THEOREM RowsHaveFiles == Spec => []RowHasFile
<1>1. IInv => RowHasFile
  BY DEF IInv
<1> QED
  BY <1>1, Invariance, PTL

\* The chunk_count of a data source and of the answer of its indexing is the number
\* of points of that run, though batches fail, runs of the same data source overlap
\* and write to the same row, until a deletion takes points of that run; only where
\* OpenAI returned a vector of another dimension, which _upload_chunks skips after it
\* was counted, is it more.
THEOREM CountsAreStored == Spec => []CountIsStored
<1>1. IInv => CountIsStored
  BY DEF IInv
<1> QED
  BY <1>1, Invariance, PTL

\* embed_texts keeps the place of a batch that failed, so that _upload_chunks pairs
\* each chunk with the vector of its own text.
THEOREM VectorsAreOwn == Spec => []VectorIsOwn
<1>1. IInv => VectorIsOwn
  BY DEF IInv
<1> QED
  BY <1>1, Invariance, PTL

\* delete_data_source leaves no point of the data source that was stored before the
\* request began, of whichever indexing.
THEOREM DeletionReachesAll == Spec => []DeletedIsGone
<1>1. IInv => DeletedIsGone
  BY DEF IInv
<1> QED
  BY <1>1, Invariance, PTL

=============================================================================
