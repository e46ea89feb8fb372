-------------------------- MODULE WorkbookReading --------------------------
(***************************************************************************)
(* The two readers of an uploaded workbook, one after the other as the     *)
(* background task runs them: the extractor, sheet by sheet, for the agent *)
(* pipeline, and the parser and chunk generator, sheet by sheet, for the   *)
(* knowledge base.  Both see the same file and neither writes to it.       *)
(***************************************************************************)
EXTENDS ExcelParser, Extractor

CONSTANT Book   \* workbooks: sequences of sheets

\* Of a workbook openpyxl has loaded: sheets have names of their own, rows of one
\* length, at least one of them, and merged ranges, which are what they say.
Cell == [value : [type : STRING, v : STRING], fill : STRING,
         formula : [is : BOOLEAN, calls : SUBSET STRING, sum : BOOLEAN, sheets : SUBSET STRING]]
IsSheet(s) ==
  /\ s.top \in Nat \ {0}
  /\ s.rows \in Seq(Seq(Cell)) /\ s.rows # <<>> /\ s.rows[1] # <<>>
  /\ \A i \in DOMAIN s.rows : Len(s.rows[i]) = Len(s.rows[1])
  /\ IsFiniteSet(s.merged)
  /\ \A m \in s.merged : m.top \in Nat \ {0} /\ m.bottom \in Nat /\ m.top <= m.bottom
ASSUME BookAssumption ==
  \A b \in Book :
    /\ DOMAIN b = 1 .. Len(b) /\ Len(b) \in Nat
    /\ \A i \in DOMAIN b : IsSheet(b[i])
    /\ \A i, j \in DOMAIN b : b[i].name = b[j].name => i = j

VARIABLES
  book,
  manifests,       \* WorkbookManifest.sheets so far
  total_sections,
  analyses,        \* sheets_analysis so far
  total_formulas, total_errors,
  chunks,
  told,            \* how many of the sheets the chunks tell of
  phase            \* "extract", "parse", "chunk" or "done"

readingVars ==
  <<book, manifests, total_sections, analyses, total_formulas, total_errors, chunks, told, phase>>

ReadingInit ==
  /\ book \in Book
  /\ manifests = <<>> /\ total_sections = 0
  /\ analyses = <<>> /\ total_formulas = 0 /\ total_errors = 0
  /\ chunks = <<>> /\ told = 0 /\ phase = "extract"

ExtractSheet ==
  /\ phase = "extract" /\ Len(manifests) < Len(book)
  /\ LET s == book[Len(manifests) + 1]
     IN  \E headers \in HeaderOrders(s) :
           /\ manifests' = Append(manifests, SheetManifest(s, headers))
           /\ total_sections' = total_sections + Len(SheetManifest(s, headers).sections)
  /\ UNCHANGED <<book, analyses, total_formulas, total_errors, chunks, told, phase>>

Parse ==
  /\ phase = "extract" /\ Len(manifests) = Len(book)
  /\ phase' = "parse"
  /\ UNCHANGED <<book, manifests, total_sections, analyses, total_formulas, total_errors, chunks,
                 told>>

ParseSheet ==
  /\ phase = "parse" /\ Len(analyses) < Len(book)
  /\ LET a == AnalyzeSheet(book[Len(analyses) + 1])
     IN  /\ analyses' = Append(analyses, a)
         /\ total_formulas' = total_formulas + Len(a.formulas)
         /\ total_errors' = total_errors + Len(a.errors)
  /\ UNCHANGED <<book, manifests, total_sections, chunks, told, phase>>

\* generate_chunks: the overview, the chunks of each sheet, the relationships.
Generate ==
  /\ phase = "parse" /\ Len(analyses) = Len(book)
  /\ phase' = "chunk"
  /\ chunks' = <<OverviewChunk(analyses)>>
  /\ UNCHANGED <<book, manifests, total_sections, analyses, total_formulas, total_errors, told>>

ChunkSheet ==
  /\ phase = "chunk" /\ told < Len(analyses)
  /\ chunks' = chunks \o SheetChunks(analyses[told + 1])
  /\ told' = told + 1
  /\ UNCHANGED <<book, manifests, total_sections, analyses, total_formulas, total_errors, phase>>
Finish ==
  /\ phase = "chunk" /\ told = Len(analyses)
  /\ chunks' = chunks \o RelationshipChunk(analyses)
  /\ phase' = "done"
  /\ UNCHANGED <<book, manifests, total_sections, analyses, total_formulas, total_errors, told>>

ReadingNext == ExtractSheet \/ Parse \/ ParseSheet \/ Generate \/ ChunkSheet \/ Finish

ReadingSpec == ReadingInit /\ [][ReadingNext]_readingVars

-----------------------------------------------------------------------------
\* The passes of the parser agree on a sheet: what its columns count, with the header
\* row they skip, is what the sheet's lists have, the totals of the workbook are the
\* sums, and the summary says no other.
CountsAgree ==
  /\ \A i \in DOMAIN analyses :
       LET s == book[i]
           a == analyses[i]
       IN  /\ Len(a.errors) =
                SumFunction([c \in DOMAIN a.columns |-> a.columns[c].errors])
                  + Cardinality({c \in Columns(s) : Value(s, MinRow(s), c).type = "error"})
           /\ Len(a.formulas) =
                SumFunction([c \in DOMAIN a.columns |-> a.columns[c].formulas])
                  + Cardinality({c \in Columns(s) : Formula(s, MinRow(s), c).is})
           /\ \A c \in Columns(s) : a.columns[c].non_null + a.columns[c].null = a.row_count - 1
  /\ total_errors = SumFunction([i \in DOMAIN analyses |-> Len(analyses[i].errors)])
  /\ total_formulas = SumFunction([i \in DOMAIN analyses |-> Len(analyses[i].formulas)])
  /\ LET summary == Summary(analyses, total_formulas, total_errors)
     IN  /\ summary.has_errors <=> summary.error_types # {}
         /\ summary.has_formulas <=> summary.formula_categories # {}

\* The data regions of a sheet of two rows or more do not overlap, and every row with
\* something in it is in one of them.
RegionsTile ==
  \A i \in DOMAIN analyses :
    LET s == book[i]
        regions == analyses[i].regions
        within(r) == {k \in DOMAIN regions : r \in regions[k].first .. regions[k].last}
    IN  MaxRow(s) > 1 =>
          \A r \in 1 .. MaxRow(s) :
            /\ \A j, k \in within(r) : j = k
            /\ (\E c \in Columns(s) : ~Falsy(Value(s, r, c))) => within(r) # {}

\* What a listing tells of a list: the numbers add up to its length, and each entry is
\* listed under its kind or comes after the ListLimit that are, and is in the number of
\* the others.
TellsAll(listing, keys) ==
  /\ SumFunction([k \in DOMAIN listing |-> listing[k].count]) = Len(keys)
  /\ \A k \in DOMAIN listing : listing[k].count = Len(listing[k].listed) + listing[k].more
  /\ \A i \in DOMAIN keys :
       LET kind == listing[keys[i]]
       IN  \/ i \in Range(kind.listed)
           \/ /\ kind.more > 0 /\ Len(kind.listed) = ListLimit
              /\ \A j \in Range(kind.listed) : j < i

\* What is analyzed of a workbook is in its chunks: besides the schema, which has them
\* all, each column is in exactly one chunk of its sheet by purpose; the formulas and
\* the errors of a sheet are in one chunk each, counted by kind, the first of a kind by
\* their addresses and the others as a number; each reference to another sheet is in
\* the relationships.
ChunksCoverWorkbook ==
  phase = "done" =>
    LET of(type, name) == {k \in DOMAIN chunks : chunks[k].type = type /\ chunks[k].sheet = name}
    IN  /\ \A i \in DOMAIN analyses :
             LET a == analyses[i]
             IN  /\ \A c \in DOMAIN a.columns : \E k \in DOMAIN chunks :
                      {j \in of("column_analysis", a.name) : c \in chunks[j].about} = {k}
                 /\ a.formulas # <<>> => \E k \in DOMAIN chunks :
                      of("formula_analysis", a.name) = {k} /\ TellsAll(chunks[k].about, Categories(a))
                 /\ a.errors # <<>> => \E k \in DOMAIN chunks :
                      of("error_analysis", a.name) = {k} /\ TellsAll(chunks[k].about, ErrorTypes(a))
        /\ \A r \in Relationships(analyses) :
             \E k \in of("relationships", "") : r \in chunks[k].about[r.from_sheet]

\* The sections of a sheet whose headers begin on different rows take up each row from
\* the first header to the end of the sheet, and none of them twice; what is counted of
\* a section lies in it, below its header.
SectionsTile ==
  \A i \in DOMAIN manifests :
    LET s == manifests[i].sections
    IN  s # <<>> /\ (\A j, k \in DOMAIN s : s[j].first = s[k].first => j = k) =>
          /\ \A r \in s[1].first .. manifests[i].total_rows :
               \E j \in DOMAIN s : /\ r \in s[j].first .. s[j].last
                                   /\ \A k \in DOMAIN s : r \in s[k].first .. s[k].last => k = j
          /\ \A j \in DOMAIN s : s[j].has_data => s[j].row_count \in 1 .. s[j].last - s[j].first

=============================================================================
