------------------------- MODULE MCWorkbookReading -------------------------
(* Small workbooks for WorkbookReading: every sheet of three rows and two columns over a
   few values, sheets of three columns with merged and coloured headers, a long column of
   categories, and pairs of sheets that refer to each other. *)
EXTENDS WorkbookReading

MentionsConst == [t \in {"Total", "Amount", "Name", "Data", "12", "1-2"} |->
  CASE t = "Total" -> {"amount", "total", "financial"} [] t = "Amount" -> {"amount", "financial"}
    [] t = "Name" -> {"name"} [] t = "Data" -> {"data"} [] t = "12" -> {"digits"}
    [] t = "1-2" -> {"dashed"}]

V(t, v) == [value |-> [type |-> t, v |-> v], formula |-> NoFormula, fill |-> "FFFFFF"]
F(x, f) == [x EXCEPT !.formula = f]
Text(v) == V("text", v)
SumOf == [is |-> TRUE, calls |-> {"mathematical"}, sum |-> TRUE, sheets |-> {}]
Ref(names) == [is |-> TRUE, calls |-> {}, sum |-> FALSE, sheets |-> names]
Sheet(name, top, rows, merged) == [name |-> name, top |-> top, rows |-> rows, merged |-> merged]

Heads == {Text("Amount"), Blank}
Body == {Blank, V("int", "0"), V("float", "1"), V("error", "#REF!"), F(V("error", "#NUM!"), SumOf),
         Text("Total")}
Tables == {<<Sheet("Data", top, <<<<h1, h2>>, <<a, b>>, <<c, d>>>>, {})>> :
             top \in {1, 2}, h1 \in Heads, h2 \in {Text("Name")},
             a \in Body, b \in Body, c \in Body, d \in {Blank, Text("Total"), F(V("int", "1"), SumOf)}}
Single == {<<Sheet("S", 1, <<<<h1, h2>>>>, {})>> : h1 \in Heads \cup Body, h2 \in Heads}

\* Sheets of three columns, five rows, with section headers.
M(top, left, bottom, right) == [top |-> top, left |-> left, bottom |-> bottom, right |-> right]
Row3(x, y, z) == <<x, y, z>>
Red(x) == [x EXCEPT !.fill = "Red"]
Plain == Row3(Text("Name"), Text("12"), Text("1-2"))
Dates == Row3(V("date", "d"), V("int", "1"), V("bool", "True"))
RedRow == Row3(Red(Text("Name")), Red(Blank), Red(Text("Amount")))
Rows3 == {Plain, Dates, Row3(Text("Name"), Text("Amount"), Blank), RedRow, Row3(Blank, Blank, Blank)}
Merges == {{}, {M(1, 1, 1, 3)}, {M(1, 1, 1, 3), M(3, 1, 3, 3)}, {M(1, 1, 2, 3), M(3, 1, 3, 3)}}
Sectioned == {<<Sheet("S", 1, <<r1, r2, r3>>, m)>> : r1 \in Rows3, r2 \in Rows3, r3 \in Rows3, m \in Merges}
\* Section headers side by side, at different heights and on the last rows.
Wide(x) == <<x, x, x, x, x, x>>
Beside == {<<Sheet("S", 1, <<Wide(Text("Name")), Wide(Text("Amount")), Wide(V("int", "1"))>>, m)>> :
             m \in {{M(1, 1, 1, 3), M(1, 4, 1, 6)}, {M(1, 1, 3, 3), M(2, 4, 2, 6)},
                    {M(2, 1, 3, 3), M(3, 4, 3, 6)}}}

Long == {<<Sheet("S", 1, [i \in 1 .. 12 |-> <<IF i = 1 THEN Text("Name") ELSE Text(v), V("float", "1")>>],
                 {})>> : v \in {"Data", "Name"}}
Pairs == {<<Sheet("Data", 1, <<<<Text("Name")>>, <<F(V("int", "1"), Ref(n))>>>>, {}),
            Sheet("S", 1, <<<<x>>, <<F(V("int", "1"), Ref(m))>>>>, {})>> :
            n \in SUBSET {"Data", "S"}, m \in SUBSET {"Data", "S"}, x \in Heads}

Books == Tables \cup Single \cup Sectioned \cup Beside \cup Long \cup Pairs
=============================================================================
