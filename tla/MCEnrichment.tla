---------------------------- MODULE MCEnrichment ----------------------------
(* Two workbooks of two sheets in process at once, replies of every form for Enrichment. *)
EXTENDS Enrichment

CONSTANTS w1, w2

Reply(form, null, missing) == [form |-> form, null |-> null, missing |-> missing, usage |-> 1]
Fine == Reply("object", {}, {})
Forms == {"object", "fenced", "prose", "array", "nojson", "raises"}

Sheets2 == <<"A", "B">>
MapperReplies == {[r \in {"form", "null", "missing", "usage", "names"} |->
                     IF r = "names" THEN {"A"} ELSE x[r]] :
                  x \in {Fine, Reply("fenced", {"sheets"}, {}), Reply("raises", {}, {})}}
Named(x, n) == [r \in {"form", "null", "missing", "usage", "name"} |->
                  IF r = "name" THEN n ELSE x[r]]
SheetReplies ==
  {Named(Fine, n) : n \in {"A", "B"}} \cup
  {Named(Reply("prose", {"answerable_question_types"}, {}), "A"),
   Named(Reply("object", {"key_metrics"}, {}), "A"), Named(Reply("fenced", {}, {"sheet_name"}), "A")}
SummaryReplies == {Fine, Reply("array", {}, {}), [Fine EXCEPT !.usage = NoUsage],
                   Reply("object", {"domain"}, {"context_header_for_qa"})}
=============================================================================
