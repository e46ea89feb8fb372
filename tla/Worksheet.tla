----------------------------- MODULE Worksheet -----------------------------
(***************************************************************************)
(* Workbooks as openpyxl gives them to the server: the cells, formulas,    *)
(* merged ranges and fills that the readers of a sheet look at.            *)
(*                                                                         *)
(* A value has a type and a name; a text stands for all texts in which the *)
(* same keywords occur (Mentions), a formula for those with the same kinds *)
(* of function and the same sheet names in their text.                     *)
(***************************************************************************)
EXTENDS Naturals, Integers, Sequences, FiniteSets, SequencesExt

CONSTANT Mentions   \* text -> the keyword groups of which a keyword occurs in it

NoFormula == [is |-> FALSE, calls |-> {}, sum |-> FALSE, sheets |-> {}]
None == [type |-> "none", v |-> ""]
Blank == [value |-> None, formula |-> NoFormula, fill |-> "FFFFFF"]

\* The cells of a sheet begin at row `top` and column 1; there is nothing around them.
MinRow(s) == s.top
MaxRow(s) == s.top + Len(s.rows) - 1
MaxCol(s) == Len(s.rows[1])
Columns(s) == 1 .. MaxCol(s)
At(s, r, c) == IF r \in MinRow(s) .. MaxRow(s) /\ c \in Columns(s)
                 THEN s.rows[r - s.top + 1][c] ELSE Blank
Value(s, r, c) == At(s, r, c).value
Formula(s, r, c) == At(s, r, c).formula

\* What Python takes for false: None, 0, "", False.
Falsy(x) == x.type = "none" \/ <<x.type, x.v>> \in
              {<<"int", "0">>, <<"float", "0">>, <<"text", "">>, <<"bool", "False">>}
IsNumber(x) == x.type \in {"int", "float"}

Keywords(text) == IF text \in DOMAIN Mentions THEN Mentions[text] ELSE {}
\* The first entry of a table, in its order, that is among those that match.
FirstOf(order, matching, default) ==
  LET hits == {i \in DOMAIN order : order[i] \in matching}
  IN  IF hits = {} THEN default ELSE order[Min(hits)]
\* The members of a finite set of numbers, in ascending order.
InOrder(I) ==
  [k \in 1 .. Cardinality(I) |-> CHOOSE i \in I : Cardinality({j \in I : j < i}) = k - 1]
\* A set of cells in the order of iter_rows, row by row.
Place(s, a) == (a[1] - 1) * MaxCol(s) + a[2]
ByRows(s, cells) ==
  LET places == InOrder({Place(s, a) : a \in cells})
  IN  [i \in DOMAIN places |-> CHOOSE a \in cells : Place(s, a) = places[i]]
=============================================================================
