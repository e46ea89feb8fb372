--------------------------- MODULE DependencyGraph ---------------------------
(***************************************************************************)
(* What rosetta tells about the dependency graph of a parsed workbook:     *)
(* parser._detect_circular and parser._approx_max_depth, whose results go  *)
(* into graph_summary, and graph.backward_trace.  All three are depth      *)
(* first searches that thread a mutable state through their recursion, in  *)
(* the order of the dictionary of cells and of each depends_on list.       *)
(*                                                                         *)
(* A node of a trace tree is abstracted to its ref; labels and warnings    *)
(* are left out.  A range too large to be expanded (wb.unlinked) is a leaf *)
(* of a trace and no edge for the other two.                               *)
(***************************************************************************)
EXTENDS ScenarioRecalc
LOCAL INSTANCE SequencesExt
LOCAL INSTANCE FiniteSetsExt

\* depends_on in its order, without the logical ranges.
Deps(w, c) == SelectSeq(w.reads[c], LAMBDA d : <<c, d>> \notin w.unlinked)

-----------------------------------------------------------------------------
\* parser._detect_circular: st.gray are the cells on st.stack.

RECURSIVE Dfs(_, _, _)

\* Fault: a finished cell stays on the stack.
DfsUnpopped(w, st, c) ==
  IF c \notin w.held \/ c \in st.black THEN st
  ELSE IF c \in st.gray
       THEN LET from == CHOOSE i \in DOMAIN st.stack : st.stack[i] = c
            IN  [st EXCEPT !.circles =
                   @ \cup {Append(SubSeq(st.stack, from, Len(st.stack)), c)}]
  ELSE LET open == [st EXCEPT !.gray = @ \cup {c}, !.stack = Append(@, c)]
       IN  [FoldLeft(LAMBDA s, d : Dfs(w, s, d), open, Deps(w, c))
              EXCEPT !.gray = @ \ {c}, !.black = @ \cup {c}]

\* A cell met again while it is open closes a circle, reported once for each
\* set of cells; a finished cell is not looked into again.
Dfs(w, st, c) ==
  IF c \notin w.held \/ c \in st.black THEN st
  ELSE IF c \in st.gray
       THEN LET from  == CHOOSE i \in DOMAIN st.stack : st.stack[i] = c
                chain == SubSeq(st.stack, from, Len(st.stack))
            IN  IF \E other \in st.circles : ToSet(other) = ToSet(chain) THEN st
                ELSE [st EXCEPT !.circles = @ \cup {Append(chain, c)}]
  ELSE LET open == [st EXCEPT !.gray = @ \cup {c}, !.stack = Append(@, c)]
       IN  [FoldLeft(LAMBDA s, d : Dfs(w, s, d), open, Deps(w, c))
              EXCEPT !.gray = @ \ {c}, !.black = @ \cup {c}, !.stack = Front(@)]

DetectCircular(w, order) ==
  LET white == [gray |-> {}, black |-> {}, stack |-> <<>>, circles |-> {}]
  IN  FoldLeft(LAMBDA s, c : Dfs(w, s, c), white, order).circles

-----------------------------------------------------------------------------
\* parser._approx_max_depth: a cell met again on its own path counts nothing;
\* what was found below a cell is remembered, in a circle too.

RECURSIVE Depth(_, _, _, _)
Depth(w, memo0, r, visiting) ==
  IF r \in DOMAIN memo0 \/ r \in visiting THEN memo0
  ELSE IF r \notin w.held \cap w.formulas THEN memo0 @@ (r :> 0)
  ELSE LET Known(m, d) == IF d \in DOMAIN m THEN m[d] ELSE 0
           Below(acc, d) ==
             LET m == Depth(w, acc.memo, d, visiting \cup {r})
             IN  [memo |-> m, best |-> Max({acc.best, 1 + Known(m, d)})]
           all == FoldLeft(Below, [memo |-> memo0, best |-> 0], Deps(w, r))
       IN  all.memo @@ (r :> all.best)

ApproxMaxDepth(w, order) ==
  LET all == FoldLeft(LAMBDA m, c : Depth(w, m, c, {}), <<>>, order)
  IN  Max({all[c] : c \in w.held} \cup {0})

-----------------------------------------------------------------------------
\* graph.backward_trace: the refs of the tree and the number of its nodes.

RECURSIVE Build(_, _, _, _, _)
Build(w, tree, r, depth, maxDepth) ==
  LET node == [tree EXCEPT !.refs = @ \cup {r}, !.size = @ + 1]
  IN  IF r \notin w.held \/ r \in tree.visited \/ depth >= maxDepth THEN node
      ELSE FoldLeft(LAMBDA t, d : Build(w, t, d, depth + 1, maxDepth),
                    [node EXCEPT !.visited = @ \cup {r}],
                    IF r \in w.formulas THEN Deps(w, r) ELSE <<>>)

BackwardTrace(w, ref, maxDepth) ==
  Build(w, [refs |-> {}, size |-> 0, visited |-> {}], ref, 0, maxDepth)

-----------------------------------------------------------------------------
\* Properties

\* The orders in which a parser may have met the cells.
Orders(w) == SetToSeqs(w.held)

\* What a cell depends on, at any distance, itself only if it is on a circle.
Feeders(w, c) ==
  LET reach[n \in Nat] ==
        IF n = 0 THEN DependsOn(w, c)
        ELSE reach[n - 1] \cup
             UNION {DependsOn(w, d) : d \in reach[n - 1] \cap w.held}
  IN  reach[Cardinality(Cell)]

\* Each chain reported is a circle of dependencies that begins and ends in the
\* same cell, and a workbook without a report has no circle.
CirclesAreFound(w) ==
  \A order \in Orders(w) :
    LET found == DetectCircular(w, order)
    IN  /\ \A chain \in found :
             /\ Len(chain) > 1 /\ chain[1] = chain[Len(chain)]
             /\ \A i \in 1..(Len(chain) - 1) : chain[i + 1] \in DependsOn(w, chain[i])
        /\ found = {} => \A c \in w.held : c \notin Feeders(w, c)

\* The longest chain of reads where there are no circles; never more than the
\* formulas can make, with them.
DepthIsLongest(w) ==
  LET longest[c \in Cell] ==
        IF c \notin w.held \cap w.formulas THEN 0
        ELSE Max({1 + longest[d] : d \in DependsOn(w, c)} \cup {0})
  IN  \A order \in Orders(w) :
        IF \E c \in w.held : c \in Feeders(w, c)
        THEN ApproxMaxDepth(w, order) <= Cardinality(w.formulas)
        ELSE ApproxMaxDepth(w, order) = Max({longest[c] : c \in w.held} \cup {0})

\* What a cell depends on at a distance of at most n.
FeedersWithin(w, c, n) ==
  LET near[k \in 0..n] ==
        IF k = 0 THEN {c}
        ELSE near[k - 1] \cup UNION {DependsOn(w, d) : d \in near[k - 1] \cap w.held}
  IN  near[n]

\* The length of the longest chain of reads from c that meets no cell of met.
RECURSIVE LongestChain(_, _, _)
LongestChain(w, c, met) ==
  Max({0} \cup {1 + LongestChain(w, d, met \cup {c}) :
                   d \in IF c \in w.held THEN DependsOn(w, c) \ (met \cup {c}) ELSE {}})

\* Whatever its depth bound, a trace shows nothing but what feeds its cell within
\* the bound, shows the feeders of its feeders at least, and expands no cell twice.
\* It shows every feeder if no chain of reads is longer than the bound; otherwise
\* one within the bound may be missing, below a cell that was first met on a longer
\* path (one visited set for all paths of backward_trace).
FeedersAreShown(w) ==
  \A c \in w.held, depth \in 0..Cardinality(Cell) :
    LET tree == BackwardTrace(w, c, depth)
    IN  /\ tree.refs \subseteq FeedersWithin(w, c, depth)
        /\ FeedersWithin(w, c, Min({2, depth})) \subseteq tree.refs
        /\ depth >= LongestChain(w, c, {}) => tree.refs = {c} \cup Feeders(w, c)
        /\ tree.size <= 1 + Cardinality({e \in Cell \X Cell : e[2] \in DependsOn(w, e[1])})

\* Whatever the order of the cells, graph_summary and the traces of a workbook
\* are true of it (parse_workbook, GET /trace, the tool backward_trace).
GraphIsDescribed ==
  phase = "done" => CirclesAreFound(wb) /\ DepthIsLongest(wb) /\ FeedersAreShown(wb)

=============================================================================
