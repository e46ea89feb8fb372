---------------------------- MODULE ExcelParser ----------------------------
(***************************************************************************)
(* What ExcelParser finds out about a sheet and a workbook, and the chunks *)
(* SemanticChunkGenerator makes of it (server_akash_version/core/vector:   *)
(* excel_parser.py, chunk_generator.py).  The loop over the sheets is in   *)
(* WorkbookReading.                                                        *)
(***************************************************************************)
EXTENDS Worksheet

CONSTANT ListLimit   \* formulas of a category, errors of a type that a chunk lists
ASSUME ListAssumption == ListLimit \in Nat

\* purpose_patterns and FORMULA_CATEGORIES, in the order they are tried.
PurposePatterns == <<"identifier", "name", "date", "amount", "percentage", "status",
                     "category", "contact">>
FormulaCategories == <<"mathematical", "logical", "lookup", "text", "date", "financial",
                       "statistical">>

\* The first row is the header, whatever is in it.
HeaderName(s, c) ==
  IF Falsy(Value(s, MinRow(s), c)) THEN "Column_" \o ToString(c) ELSE Value(s, MinRow(s), c).v
DataRows(s) == MinRow(s) + 1 .. MaxRow(s)
ColumnValues(s, c) ==
  LET filled == InOrder({r \in DataRows(s) : Value(s, r, c).type # "none"})
  IN  [i \in DOMAIN filled |-> Value(s, filled[i], c)]

\* _infer_column_type: the type of most values, the first of them on a tie.
TypeName(x) == CASE x.type = "bool" -> "boolean" [] IsNumber(x) -> "numeric"
                 [] x.type = "date" -> "date" [] OTHER -> "text"
ColumnType(values) ==
  LET count(t) == Cardinality({i \in DOMAIN values : TypeName(values[i]) = t})
      types == <<"numeric", "text", "date", "boolean">>
  IN  IF values = <<>> THEN "empty"
      ELSE FirstOf(types, {t \in Range(types) : \A u \in Range(types) : count(u) <= count(t)}, "")

ColumnPurpose(header, type) ==
  FirstOf(PurposePatterns, Keywords(header),
          CASE type = "date" -> "date" [] type = "numeric" -> "numeric_value"
            [] type = "boolean" -> "flag" [] OTHER -> "general")

\* _analyze_columns: what one column has; formulas and errors are looked for in `rows`.
ColumnAnalysis(s, c, rows) ==
  LET values == ColumnValues(s, c)
      type == ColumnType(values)
  IN  [name |-> HeaderName(s, c), data_type |-> type,
       non_null |-> Len(values), null |-> MaxRow(s) - MinRow(s) - Len(values),
       unique |-> Cardinality({values[i].v : i \in DOMAIN values}),
       formulas |-> Cardinality({r \in rows : Formula(s, r, c).is}),
       errors |-> Cardinality({r \in rows : Value(s, r, c).type = "error"}),
       purpose |-> ColumnPurpose(HeaderName(s, c), type)]
\* Fault: the range ends before the last row.
AnalyzeColumnShort(s, c) == ColumnAnalysis(s, c, MinRow(s) + 1 .. MaxRow(s) - 1)
AnalyzeColumn(s, c) == ColumnAnalysis(s, c, DataRows(s))

\* The formulas and the errors of a sheet, in the order of iter_rows.
Cells(s) == (1 .. MaxRow(s)) \X Columns(s)
Categorize(f) == FirstOf(FormulaCategories, f.calls, "other")
ExtractFormulas(s) ==
  LET found == ByRows(s, {a \in Cells(s) : Formula(s, a[1], a[2]).is})
  IN  [i \in DOMAIN found |->
         [address |-> found[i], category |-> Categorize(Formula(s, found[i][1], found[i][2])),
          names |-> Formula(s, found[i][1], found[i][2]).sheets]]
ExtractErrors(s) ==
  LET found == ByRows(s, {a \in Cells(s) : Value(s, a[1], a[2]).type = "error"})
  IN  [i \in DOMAIN found |-> [address |-> found[i], error_type |-> Value(s, found[i][1], found[i][2]).v,
                               computed |-> Formula(s, found[i][1], found[i][2]).is]]

\* _detect_data_regions: header, totals and data, by rows.
Region(type, first, last) == [type |-> type, first |-> first, last |-> last]
HasTotal(s) ==
  \E c \in Columns(s) :
    \/ Formula(s, MaxRow(s), c).is /\ Formula(s, MaxRow(s), c).sum
    \/ ~Falsy(Value(s, MaxRow(s), c)) /\ "total" \in Keywords(Value(s, MaxRow(s), c).v)
RegionsTo(s, last) ==
  (IF \E c \in Columns(s) : ~Falsy(Value(s, 1, c)) THEN <<Region("header", 1, 1)>> ELSE <<>>)
    \o (IF HasTotal(s) THEN <<Region("totals", MaxRow(s), MaxRow(s))>> ELSE <<>>)
    \o (IF last >= 2 THEN <<Region("data", 2, last)>> ELSE <<>>)
\* Fault: the totals stay in the data.
DataRegionsOverlapping(s) == RegionsTo(s, MaxRow(s))
DataRegions(s) == RegionsTo(s, IF HasTotal(s) THEN MaxRow(s) - 1 ELSE MaxRow(s))

\* _calculate_summary_statistics: the columns pandas takes for numeric; {} without
\* rows, a message without such columns.
NumericColumns(s) == {c \in Columns(s) : LET values == ColumnValues(s, c)
                                         IN values # <<>> /\ \A i \in DOMAIN values : IsNumber(values[i])}
Statistics(s) == IF Len(s.rows) = 1 THEN [is |-> FALSE, columns |-> {}]
                                    ELSE [is |-> TRUE, columns |-> NumericColumns(s)]
\* The sum of a column of integers without blanks is an int64 of numpy, the deviation
\* of a single value is NaN, the sum over columns of one name is a Series: none of
\* these can be stored as JSON.
StatisticIsJson(s, c) ==
  LET values == ColumnValues(s, c)
  IN  /\ Len(values) > 1
      /\ Len(values) < Len(s.rows) - 1 \/ \E i \in DOMAIN values : values[i].type = "float"
      /\ \A d \in NumericColumns(s) \ {c} : HeaderName(s, d) # HeaderName(s, c)
StorableSheet(s) == \A c \in Statistics(s).columns : StatisticIsJson(s, c)

DataPatterns(columns) ==
  LET some(P(_)) == \E i \in DOMAIN columns : P(columns[i])
  IN  {p \in {"time_series", "financial", "calculated", "identifier", "categorical"} :
         CASE p = "time_series" -> some(LAMBDA c : c.data_type = "date")
           [] p = "financial"   -> some(LAMBDA c : "financial" \in Keywords(c.name))
           [] p = "calculated"  -> some(LAMBDA c : c.formulas > 0)
           [] p = "identifier"  -> some(LAMBDA c : c.unique = c.non_null /\ c.non_null > 1)
           [] p = "categorical" -> some(LAMBDA c : /\ c.data_type = "text" /\ c.unique < 20
                                                   /\ c.non_null > 10)}

\* _infer_sheet_purpose: by name, by the density of formulas in the data region, by
\* the types of the columns.
NamePurposes == <<"summary", "data", "calc", "config", "lookup">>
SheetPurpose(name, columns, formulas, regions) ==
  LET data == {k \in DOMAIN regions : regions[k].type = "data"}
      rows(k) == regions[k].last - regions[k].first + 1
      dense(n) == formulas # <<>> /\ \E k \in data :
                    Len(formulas) * 10 > rows(k) * Len(columns) * n
      typed(t) == {i \in DOMAIN columns : columns[i].data_type = t}
      clues == {FirstOf(NamePurposes, Keywords(name), "none")} \ {"none"}
      found == clues \cup (IF dense(5) THEN {"calculation"} ELSE IF dense(1) THEN {"mixed"} ELSE {})
                 \cup (IF Cardinality(typed("numeric")) * 10 > Len(columns) * 7
                         THEN {"numeric"} ELSE {})
                 \cup (IF typed("numeric") # {} /\ typed("date") # {} THEN {"tracking"} ELSE {})
  IN  IF found = {} THEN {"general"} ELSE found

AnalyzeSheet(s) ==
  LET columns == [c \in Columns(s) |-> AnalyzeColumn(s, c)]
      formulas == ExtractFormulas(s)
      regions == DataRegions(s)
  IN  [name |-> s.name, row_count |-> MaxRow(s) - MinRow(s) + 1, columns |-> columns,
       formulas |-> formulas, errors |-> ExtractErrors(s), regions |-> regions,
       statistics |-> Statistics(s).is, storable |-> StorableSheet(s),
       patterns |-> DataPatterns(columns),
       purpose |-> SheetPurpose(s.name, columns, formulas, regions)]

\* _detect_sheet_relationships: a formula whose text has the name of another sheet in it.
Relationships(sheets) ==
  UNION {{[from_sheet |-> sheets[i].name, to_sheet |-> sheets[j].name,
           location |-> sheets[i].formulas[k].address] :
            k \in {k \in DOMAIN sheets[i].formulas :
                     sheets[j].name \in sheets[i].formulas[k].names \ {sheets[i].name}}} :
           i \in DOMAIN sheets, j \in DOMAIN sheets}

\* _infer_workbook_purpose
WorkbookPurpose(sheets) ==
  LET total == SumFunction([i \in DOMAIN sheets |-> Len(sheets[i].formulas)])
  IN  [contains |-> {sheets[i].purpose : i \in DOMAIN sheets},
       calculations |-> IF total > 100 THEN "heavy" ELSE IF total > 10 THEN "some" ELSE "none"]

\* to_dict: the summary stored with the analysis.
PurposesOf(columns) == {columns[i].purpose : i \in DOMAIN columns}
Summary(sheets, total_formulas, total_errors) ==
  LET all(F(_)) == UNION {F(sheets[i]) : i \in DOMAIN sheets}
  IN  [has_formulas |-> total_formulas > 0, has_errors |-> total_errors > 0,
       formula_categories |-> all(LAMBDA s : {s.formulas[i].category : i \in DOMAIN s.formulas}),
       error_types |-> all(LAMBDA s : {s.errors[i].error_type : i \in DOMAIN s.errors}),
       column_purposes |->
         [p \in all(LAMBDA s : PurposesOf(s.columns)) |->
            SumFunction([i \in DOMAIN sheets |->
              Cardinality({c \in DOMAIN sheets[i].columns : sheets[i].columns[c].purpose = p})])]]

-----------------------------------------------------------------------------
\* A chunk: its type, its sheet and how much of what it tells of.
Chunk(type, sheet, about) == [type |-> type, sheet |-> sheet, about |-> about]
\* The keys of a sequence in the order they come up in, and how often each does.
KeysInOrder(keys) ==
  LET first == InOrder({i \in DOMAIN keys : \A j \in 1 .. i - 1 : keys[j] # keys[i]})
  IN  [n \in DOMAIN first |-> keys[first[n]]]
GroupSizes(keys) == [k \in Range(keys) |-> Cardinality({i \in DOMAIN keys : keys[i] = k})]

\* _create_column_chunks: one for all columns of one purpose.
Purposes(s) == [i \in DOMAIN s.columns |-> s.columns[i].purpose]
\* Fault: a purpose keeps the last of its columns.
ColumnChunksLast(s) ==
  LET purposes == KeysInOrder(Purposes(s))
  IN  [i \in DOMAIN purposes |->
         Chunk("column_analysis", s.name,
               {c \in DOMAIN s.columns :
                  /\ s.columns[c].purpose = purposes[i]
                  /\ \A d \in DOMAIN s.columns : s.columns[d].purpose = purposes[i] => d <= c})]
ColumnChunks(s) ==
  LET purposes == KeysInOrder(Purposes(s))
  IN  [i \in DOMAIN purposes |->
         Chunk("column_analysis", s.name,
               {c \in DOMAIN s.columns : s.columns[c].purpose = purposes[i]})]

\* _create_formula_chunk, _create_error_chunk: by category and by type, how many there
\* are, the first of them, and how many more.
Listing(keys) ==
  [k \in Range(keys) |->
     LET all == InOrder({i \in DOMAIN keys : keys[i] = k})
     IN  IF Len(all) > ListLimit
           THEN [count |-> Len(all), listed |-> SubSeq(all, 1, ListLimit),
                 more |-> Len(all) - ListLimit]
           ELSE [count |-> Len(all), listed |-> all, more |-> 0]]
Categories(s) == [i \in DOMAIN s.formulas |-> s.formulas[i].category]
ErrorTypes(s) == [i \in DOMAIN s.errors |-> s.errors[i].error_type]
FormulaChunk(s) == Chunk("formula_analysis", s.name, Listing(Categories(s)))
ErrorChunk(s) == Chunk("error_analysis", s.name, Listing(ErrorTypes(s)))
If(condition, chunk) == IF condition THEN <<chunk>> ELSE <<>>
PatternsChunk(s) == Chunk("data_patterns", s.name, GroupSizes(Purposes(s)))

SheetChunks(s) ==
  <<Chunk("sheet_overview", s.name, s.purpose), Chunk("schema", s.name, DOMAIN s.columns)>>
    \o ColumnChunks(s)
    \o If(s.formulas # <<>>, FormulaChunk(s)) \o If(s.errors # <<>>, ErrorChunk(s))
    \o If(s.patterns # {}, PatternsChunk(s)) \o If(s.statistics, Chunk("statistics", s.name, {}))

OverviewChunk(sheets) == Chunk("workbook_overview", "", WorkbookPurpose(sheets))
\* _create_relationships_chunk: the references, by the sheet they come from.
RelationshipChunk(sheets) ==
  LET rels == Relationships(sheets)
  IN  If(Len(sheets) > 1 /\ rels # {},
         Chunk("relationships", "", [f \in {r.from_sheet : r \in rels} |->
                                       {r \in rels : r.from_sheet = f}]))
=============================================================================
