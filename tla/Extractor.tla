----------------------------- MODULE Extractor -----------------------------
(***************************************************************************)
(* The structural manifest VisualMetadataExtractor makes of a sheet        *)
(* (server_akash_version/core/agents/extractor.py).                        *)
(*                                                                         *)
(* A sheet also has `merged`, its merged ranges: openpyxl keeps a set, so  *)
(* they come in any order.  A cell's fill is the label of its colour.      *)
(***************************************************************************)
EXTENDS Worksheet

CONSTANTS SampleRows,            \* rows of sample data
          ColorRows, ColorCols,  \* how far colours are looked for
          HeaderRows             \* how far the header row is looked for

Low(m, n) == IF m < n THEN m ELSE n
\* The workbook is loaded with its formulas: one is a text.
Raw(s, r, c) == IF Formula(s, r, c).is THEN [type |-> "text", v |-> "="] ELSE Value(s, r, c)
IsEmpty(x) == x.type = "none" \/ x = [type |-> "text", v |-> ""]

\* _extract_merged_regions: where they are, what they span, what is in their first cell.
MergedRegion(s, m) == [range |-> m, value |-> Raw(s, m.top, m.left),
                       color |-> At(s, m.top, m.left).fill, col_span |-> m.right - m.left + 1]

\* _extract_color_regions: the cells of each colour but white and black.
Colorless == {"FFFFFF", "000000"}
Colored(s) == {a \in (1 .. Low(MaxRow(s), ColorRows)) \X (1 .. Low(MaxCol(s), ColorCols)) :
                 At(s, a[1], a[2]).fill \notin Colorless}
ColorRegions(s) == [f \in {At(s, a[1], a[2]).fill : a \in Colored(s)} |->
                      {a \in Colored(s) : At(s, a[1], a[2]).fill = f}]

\* _detect_empty_rows, _detect_empty_cols: nine cells in ten are empty.
MostlyEmpty(cells) == Cardinality({a \in DOMAIN cells : IsEmpty(cells[a])}) * 10
                        >= Cardinality(DOMAIN cells) * 9
EmptyRows(s) == {r \in 1 .. MaxRow(s) : MostlyEmpty([c \in Columns(s) |-> Raw(s, r, c)])}
EmptyCols(s) == {c \in Columns(s) : MostlyEmpty([r \in 1 .. MaxRow(s) |-> Raw(s, r, c)])}

Section(first, last, data) ==
  [first |-> first, last |-> last, row_count |-> IF data <= last THEN last - data + 1 ELSE 0,
   has_data |-> data <= last]
\* _detect_sections: a merged range of three columns with a value heads what is below
\* it, to the row before the next such range.  Reading the column headers under the
\* last row of the sheet makes that row a part of the sheet, for the ranges after it.
HeadsSection(s, m) == MergedRegion(s, m).col_span >= 3 /\ MergedRegion(s, m).value.type # "none"
MaxRowAfter(s, headers, n) == Max({MaxRow(s)} \cup {headers[i].bottom + 1 : i \in 1 .. n})
SectionsUpTo(s, headers, gap) ==
  [i \in DOMAIN headers |->
     Section(headers[i].top,
             IF i < Len(headers) THEN headers[i + 1].top - gap ELSE MaxRowAfter(s, headers, i - 1),
             headers[i].bottom + 1)]
\* Fault: a section reaches to the next header's own row.
SectionsSharing(s, headers) == SectionsUpTo(s, headers, 0)
Sections(s, headers) == SectionsUpTo(s, headers, 1)
\* The section headers sorted by row, those of one row in any order.
HeaderOrders(s) ==
  {h \in SetToSeqs({m \in s.merged : HeadsSection(s, m)}) :
     \A i \in 1 .. Len(h) - 1 : h[i].top <= h[i + 1].top}

\* _detect_sections_from_colors: a row with three cells of one colour heads a section.
ColorHeaderRows(s) ==
  InOrder({r \in 1 .. MaxRow(s) : \E f \in DOMAIN ColorRegions(s) :
                                     Cardinality({a \in ColorRegions(s)[f] : a[1] = r}) >= 3})
ColorSections(s) ==
  LET rows == ColorHeaderRows(s)
  IN  [i \in DOMAIN rows |->
         Section(rows[i], IF i < Len(rows) THEN rows[i + 1] - 1 ELSE MaxRow(s), rows[i] + 1)]

\* _find_header_row: the first row of three values or more, three in five of them texts
\* that are no numbers; 0 if there is none.
HeaderRow(s) ==
  LET filled(r) == {c \in Columns(s) : Raw(s, r, c).type # "none"}
      texts(r) == {c \in filled(r) : /\ Raw(s, r, c).type \in {"text", "error"}
                                     /\ "digits" \notin Keywords(Raw(s, r, c).v)}
      heads == {r \in 1 .. Low(MaxRow(s), HeaderRows) :
                  /\ Cardinality(filled(r)) >= 3
                  /\ Cardinality(texts(r)) * 10 >= Cardinality(filled(r)) * 6}
  IN  IF heads = {} THEN 0 ELSE CHOOSE r \in heads : \A q \in heads : r <= q

\* _extract_sample_data: a row is a dictionary by header text; a blank header's is "None".
HeaderText(s, row, c) ==
  LET x == Raw(s, row, c)
  IN  IF x.type = "none" THEN "None" ELSE IF x.v = "" THEN "Col_" \o ToString(c) ELSE x.v
SampleRow(s, header, r) ==
  [h \in {HeaderText(s, header, c) : c \in Columns(s)} |->
     Raw(s, r, CHOOSE c \in Columns(s) :
                 /\ HeaderText(s, header, c) = h
                 /\ \A d \in Columns(s) : HeaderText(s, header, d) = h => d <= c)]
SampleData(s, header, max_row) ==
  IF header = 0 THEN <<>>
  ELSE [i \in 1 .. Low(SampleRows, max_row - header) |-> SampleRow(s, header, header + i)]

SheetManifest(s, headers) ==
  LET found == Sections(s, headers)
      header == HeaderRow(s)
  IN  [sheet_name |-> s.name, total_rows |-> MaxRow(s), total_cols |-> MaxCol(s),
       merged |-> {MergedRegion(s, m) : m \in s.merged}, colors |-> DOMAIN ColorRegions(s),
       sections |-> IF found = <<>> /\ Colored(s) # {} THEN ColorSections(s) ELSE found,
       empty_rows |-> EmptyRows(s), empty_cols |-> EmptyCols(s), header_row |-> header,
       sample_data |-> SampleData(s, header, MaxRowAfter(s, headers, Len(headers)))]

=============================================================================
