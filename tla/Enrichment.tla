----------------------------- MODULE Enrichment -----------------------------
(***************************************************************************)
(* The LLM phases of processing a workbook: SemanticMapper, one call for   *)
(* all of it, then SemanticEnricher, one call per sheet at the same time   *)
(* and one for the summary (server_akash_version/core/agents).  The        *)
(* orchestrator has one enricher for all requests, so its token counters   *)
(* are shared by the workbooks in process.                                 *)
(*                                                                         *)
(* A reply of the LLM is a record: its form, the fields it gives as null,  *)
(* the fields it leaves out, the names it uses, and the tokens it cost, if *)
(* the client was told.  No reply, an error of the client, has the form    *)
(* "raises".  What the fields say is left out.                             *)
(***************************************************************************)
EXTENDS Naturals, Sequences, FiniteSets

CONSTANTS
  Workbook,
  SheetNames,    \* the names of a workbook's sheets, in order
  MapperReply, SheetReply, SummaryReply,
  NoUsage        \* usage_metadata is None

\* No two sheets of a workbook have one name.
ASSUME SheetAssumption ==
  /\ SheetNames \in Seq(STRING)
  /\ \A i, j \in DOMAIN SheetNames : SheetNames[i] = SheetNames[j] => i = j

VARIABLES
  pc,          \* "map", "sheets", "summary" or "done"
  schema,      \* ProcessedWorkbook.schema
  calls,       \* what each _enrich_sheet came to
  sheets,      \* sheet_enrichments
  enrichment,  \* ProcessedWorkbook.enrichment
  tokens       \* _total_input_tokens of the enricher

vars == <<pc, schema, calls, sheets, enrichment, tokens>>

-----------------------------------------------------------------------------
Nothing == [of |-> "nothing"]
Pending == [of |-> "pending"]
Failed  == [of |-> "failure"]

\* _clean_json_response, json.loads and _extract_json_from_text: an object, bare, in a
\* code fence or in the middle of a text, is found; an array is read as one, and has no
\* fields; two objects, one cut off, or none at all are no JSON.
IsObject(reply) == reply.form \in {"object", "fenced", "prose"}
\* data.get(f, default): a field that is null is None, not the default.
Field(reply, f, default) ==
  IF f \in reply.null THEN "null" ELSE IF f \in reply.missing THEN default ELSE "given"
\* What is iterated over, or has fields of its own, must not be null.
Readable(reply, fields) == IsObject(reply) /\ reply.null \cap fields = {}
\* The counters are added to before the reply is read; there is nothing to add in None.
Cost(reply) == IF reply.form = "raises" \/ reply.usage = NoUsage THEN 0 ELSE reply.usage
Counted(reply) == reply.form # "raises" /\ reply.usage # NoUsage

\* SemanticMapper._dict_to_schema and schema_to_dict.
Schema(reply) ==
  [of |-> "schema", sheets |-> IF "sheets" \in reply.missing THEN {} ELSE reply.names,
   workbook_purpose |-> Field(reply, "workbook_purpose", ""),
   global_metrics |-> Field(reply, "global_metrics", "[]"),
   data_quality_notes |-> Field(reply, "data_quality_notes", "[]")]
Mapped(reply) ==
  IF Readable(reply, {"sheets", "columns", "sections", "global_metrics"})
    THEN Schema(reply) ELSE Nothing

\* SheetEnrichment: the sheet it says it is of is the one the LLM named.
SheetEnrichment(name, purpose, questions, call) ==
  [of |-> "sheet", sheet_name |-> name, primary_purpose |-> purpose,
   answerable_question_types |-> questions, call |-> call]
Placeholder(i) == SheetEnrichment(SheetNames[i], "Enrichment failed", "[]", 0)

\* SemanticEnricher._dict_to_sheet_enrichment of the reply to call i.
SheetNeeds == {"time_dimension", "key_metrics", "dimensions", "detected_tables", "columns",
               "section_labels", "data_quality_flags", "retrieval_hints"}
Enriched(reply, i) ==
  IF ~Counted(reply) \/ ~Readable(reply, SheetNeeds) THEN Failed
  ELSE SheetEnrichment(
         CASE "sheet_name" \in reply.null -> "null" [] "sheet_name" \in reply.missing -> ""
           [] OTHER -> reply.name,
         Field(reply, "primary_purpose", ""), Field(reply, "answerable_question_types", "[]"), i)

\* _dict_to_workbook_enrichment, and the dictionary of the sheets by their names: of two
\* with one name the later one is kept.
SummaryNeeds == {"sheet_index", "cross_sheet_relationships", "recommended_query_routing"}
ByName(s) ==
  [n \in {s[i].sheet_name : i \in DOMAIN s} |->
     s[CHOOSE i \in DOMAIN s : /\ s[i].sheet_name = n
                               /\ \A j \in DOMAIN s : s[j].sheet_name = n => j <= i]]
WorkbookEnrichment(reply, s, spent) ==
  [of |-> "workbook", domain |-> Field(reply, "domain", "general"),
   context_header_for_qa |-> Field(reply, "context_header_for_qa", ""),
   sheets |-> ByName(s), total_tokens |-> spent]

-----------------------------------------------------------------------------
Init ==
  /\ pc = [w \in Workbook |-> "map"]
  /\ schema = [w \in Workbook |-> Nothing]
  /\ calls = [w \in Workbook |-> [i \in DOMAIN SheetNames |-> Pending]]
  /\ sheets = [w \in Workbook |-> <<>>]
  /\ enrichment = [w \in Workbook |-> Nothing]
  /\ tokens = 0

Goto(w, l) == pc' = [pc EXCEPT ![w] = l]

\* The mapper's reply.  The enricher is entered next, without a pause: it clears its
\* counters and makes the calls of all sheets.
Map(w) ==
  /\ pc[w] = "map"
  /\ \E reply \in MapperReply : schema' = [schema EXCEPT ![w] = Mapped(reply)]
  /\ tokens' = 0
  /\ Goto(w, "sheets")
  /\ UNCHANGED <<calls, sheets, enrichment>>

\* _enrich_sheet gets its reply.
EnrichSheet(w, i) ==
  /\ pc[w] = "sheets" /\ calls[w][i] = Pending
  /\ \E reply \in SheetReply :
       /\ calls' = [calls EXCEPT ![w][i] = Enriched(reply, i)]
       /\ tokens' = tokens + Cost(reply)
  /\ UNCHANGED <<pc, schema, sheets, enrichment>>

\* gather is done: a sheet whose call failed gets a placeholder.  The prompt for the
\* summary takes the first four questions of each sheet.
Collected(w, standIn(_, _)) ==
  /\ pc[w] = "sheets" /\ \A i \in DOMAIN SheetNames : calls[w][i] # Pending
  /\ sheets' = [sheets EXCEPT ![w] =
       [i \in DOMAIN SheetNames |-> IF calls[w][i] = Failed THEN standIn(w, i) ELSE calls[w][i]]]
  /\ Goto(w, IF \E i \in DOMAIN sheets'[w] : sheets'[w][i].answerable_question_types = "null"
               THEN "done" ELSE "summary")
  /\ UNCHANGED <<schema, calls, enrichment, tokens>>
\* Fault: the placeholders are numbered on their own.
CollectMisnumbered(w) ==
  Collected(w, LAMBDA v, i : Placeholder(Cardinality({j \in 1 .. i : calls[v][j] = Failed})))
\* Fault: gather without return_exceptions.
CollectOrRaise(w) ==
  IF \E i \in DOMAIN SheetNames : calls[w][i] = Failed
    THEN /\ pc[w] = "sheets" /\ \A i \in DOMAIN SheetNames : calls[w][i] # Pending
         /\ Goto(w, "done")
         /\ UNCHANGED <<schema, calls, sheets, enrichment, tokens>>
    ELSE Collected(w, LAMBDA v, i : Placeholder(i))
Collect(w) == Collected(w, LAMBDA v, i : Placeholder(i))

\* The reply to the summary's call; without it there is no enrichment.
EnrichWorkbook(w) ==
  /\ pc[w] = "summary"
  /\ \E reply \in SummaryReply :
       /\ tokens' = tokens + Cost(reply)
       /\ enrichment' = [enrichment EXCEPT ![w] =
            IF Counted(reply) /\ Readable(reply, SummaryNeeds)
              THEN WorkbookEnrichment(reply, sheets[w], tokens') ELSE Nothing]
  /\ Goto(w, "done")
  /\ UNCHANGED <<schema, calls, sheets>>

Next == \E w \in Workbook : \/ Map(w) \/ Collect(w) \/ EnrichWorkbook(w)
                            \/ \E i \in DOMAIN SheetNames : EnrichSheet(w, i)

Spec == Init /\ [][Next]_vars

-----------------------------------------------------------------------------
\* Whatever order the calls return in: a sheet no other reply claimed to be has, in the
\* enrichment that is stored, what its own call returned if that named it, and the
\* placeholder if the call failed.
SheetsAreOwn ==
  \A w \in Workbook : enrichment[w] # Nothing =>
    \A i \in DOMAIN SheetNames :
      LET claims(j) == calls[w][j] # Failed /\ calls[w][j].sheet_name = SheetNames[i]
      IN  (\A j \in DOMAIN SheetNames : claims(j) => j = i) =>
            /\ calls[w][i] = Failed =>
                 /\ SheetNames[i] \in DOMAIN enrichment[w].sheets
                 /\ enrichment[w].sheets[SheetNames[i]].primary_purpose = "Enrichment failed"
            /\ claims(i) => enrichment[w].sheets[SheetNames[i]] = calls[w][i]

\* A sheet whose call failed never costs the other sheets their enrichment: only a reply
\* that was accepted, with null for its questions, keeps the summary from being made.
FailureIsContained ==
  [][\A w \in Workbook : pc[w] = "sheets" /\ pc'[w] = "done" =>
       \E i \in DOMAIN SheetNames :
         calls[w][i] # Failed /\ calls[w][i].answerable_question_types = "null"]_vars

=============================================================================
