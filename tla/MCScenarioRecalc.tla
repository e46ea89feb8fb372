-------------------------- MODULE MCScenarioRecalc --------------------------
\* ScenarioRecalc on every workbook of three cells whose formulas read up to
\* two of them, with circular references, a formula that raises, a missing
\* cell, and formulas saved without values; and on workbooks of five cells with
\* chains longer than the depth bound, and so long that the recursion may give up.
EXTENDS DependencyGraph

MCCell == 1..5
Three  == 1..3

Reads == {r \in [MCCell -> {<<>>, <<1>>, <<2>>, <<3>>, <<1, 2>>, <<3, 1>>}] :
            r[4] = <<>> /\ r[5] = <<>>}
Formulas(reads) == {c \in MCCell : reads[c] # <<>>}

Sound(reads) ==
  [held |-> Three, reads |-> reads, formulas |-> Formulas(reads),
   unlinked |-> {}, broken |-> {}, unsaved |-> {}]

\* The workbooks with an input cell, and those in which all three are formulas
\* and read in circles: of two cells, of three, of one that reads itself.
AllReads ==
  {r \in Reads : r[1] = <<>> \/ r[2] = <<>>}
  \cup {r \in Reads : r[1] = <<3>> /\ r[2] # <<>> /\ r[3] # <<>>}

\* Five formulas, the first of which reads nothing, in a chain, or with a short cut
\* from the last to the third; with a value missing too few are for the parser to
\* recompute them.
Deep(last) ==
  [Sound(<<<<>>, <<1>>, <<2>>, <<3>>, last>>) EXCEPT !.held = MCCell, !.formulas = MCCell]
Chain == Deep(<<4>>)

MCWorkbooks ==
  {Sound(reads) : reads \in AllReads}
  \cup {[Sound(reads) EXCEPT !.broken = {2}] : reads \in {r \in AllReads : r[2] # <<>>}}
  \cup {[Sound(reads) EXCEPT !.held = {1, 2}, !.formulas = @ \ {3}] :
            reads \in {r \in AllReads : r[3] = <<>>}}
  \cup {[Sound(reads) EXCEPT !.unsaved = Formulas(reads)] : reads \in AllReads}
  \cup {[Sound(reads) EXCEPT !.broken = {2}, !.unsaved = Formulas(reads) \ {2}] :
            reads \in {r \in AllReads : r[2] # <<>>}}
  \cup {[Sound(reads) EXCEPT !.unlinked = {<<2, 1>>}] :
            reads \in {r \in AllReads : r[2] = <<1>>}}
  \cup {Chain, Deep(<<4, 3>>), [Chain EXCEPT !.unsaved = {2}]}

=============================================================================
