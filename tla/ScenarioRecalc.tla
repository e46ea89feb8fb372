--------------------------- MODULE ScenarioRecalc ---------------------------
(***************************************************************************)
(* The what-if tools of rosetta: tools._scenario_recalc, tools._what_if,   *)
(* api.what_if and parser._precompute_missing_values, with the two         *)
(* algorithms they run on a workbook: graph.forward_impacted (breadth      *)
(* first, bounded depth) finds the cells an override may change, and       *)
(* evaluator.Evaluator.value_of recomputes them, recursively and memoised. *)
(*                                                                         *)
(* A formula is abstracted to the cells it reads, in order (every argument *)
(* of a function is evaluated), and its value to the term <<cell, values   *)
(* read>>: two values are equal only if the same inputs made them.  The    *)
(* recursion of value_of is the explicit stack of frames.                  *)
(***************************************************************************)
EXTENDS Integers, Sequences, FiniteSets

CONSTANTS
  Cell,         \* cell refs
  Workbooks,    \* the workbooks considered
  MaxOverrides, \* bound: overrides in a request
  MaxDepth,     \* max_depth of forward_impacted
  MaxOpen       \* formulas in evaluation from which on Python's recursion limit
                \* may be hit

ASSUME DepthAssumption ==
  MaxDepth \in Nat /\ MaxOverrides \in Nat \ {0} /\ MaxOpen \in Nat \ {0}
ASSUME CellAssumption == IsFiniteSet(Cell)

\* A workbook: the cells it holds, the formula cells with what each reads, the
\* reads that are no dependency edge (cells of a range too large to expand),
\* the formulas that raise an error, and those saved without a value.
Workbook == [held     : SUBSET Cell,
             reads    : [Cell -> Seq(Cell)],
             formulas : SUBSET Cell,
             unlinked : SUBSET (Cell \X Cell),
             broken   : SUBSET Cell,
             unsaved  : SUBSET Cell]

ASSUME WorkbookAssumption == Workbooks \subseteq Workbook

VARIABLES
  wb,           \* the WorkbookModel
  cached,       \* cell.value
  overrides,    \* the overridden cells
  mode,         \* "scenario", "targets" (a scenario with target_refs), or
                \* "precompute" (the workbook is being parsed)
  phase,        \* "impact", "eval", "done"
  sources,      \* overridden cells whose dependents are yet to be traced
  queue, seen,  \* forward_impacted of one of them
  impacted,     \* what the traces found
  todo,         \* cells whose new value is yet to be asked for
  current,      \* the cell asked for, as a set of at most one
  stack,        \* value_of calls in progress: _eval_stack with their frames
  memo,         \* _memo, for the cells that have an entry
  unsupported,  \* formulas that fell back to the cached value
  changed       \* "recalculated": cells reported with a new value

graphVars == <<sources, queue, seen, impacted>>
evalVars  == <<stack, memo, unsupported>>
vars == <<wb, cached, overrides, mode, phase, graphVars, todo, current, evalVars,
          changed>>

-----------------------------------------------------------------------------
None       == <<"none">>
Saved(c)   == <<"saved", c>>    \* a literal, or what a formula was saved with
Entered(c) == <<"entered", c>>  \* the overriding value
Result(c, vals) == <<"result", c, vals>>

\* cell.depends_on and cell.depended_by of parse_workbook
DependsOn(w, c) ==
  {d \in {w.reads[c][i] : i \in DOMAIN w.reads[c]} : <<c, d>> \notin w.unlinked}
Dependents(w, d) ==
  {c \in w.formulas \cap w.held : d \in w.held /\ d \in DependsOn(w, c)}

\* The cells a change of o reaches in at most n steps along dependents.
Within(w, o, n) ==
  {c \in Cell : \E k \in 0..n : \E path \in [0..k -> Cell] :
     /\ path[0] = o /\ path[k] = c
     /\ \A i \in 1..k : path[i] \in Dependents(w, path[i - 1])}

\* The cells from which no chain of reads of length n runs back into formulas
\* that read on: all of them, for n large enough, unless formulas read in circles.
Acyclic(w) ==
  LET settled[n \in Nat] ==
        IF n = 0 THEN Cell \ (w.formulas \cap w.held)
        ELSE LET known == settled[n - 1]
             IN  known \cup {c \in Cell : \A i \in DOMAIN w.reads[c] :
                                            w.reads[c][i] \in known}
  IN  settled[Cardinality(Cell)] = Cell

\* The value of every cell of an acyclic workbook with the overrides ovr, by
\* the meaning of its formulas; a broken formula keeps the value it has.
Reference(w, ovr, old) ==
  LET val[c \in Cell] ==
        IF c \in ovr THEN Entered(c)
        ELSE IF c \notin w.held THEN None
        ELSE IF c \notin w.formulas \/ c \in w.broken THEN old[c]
        ELSE Result(c, [i \in DOMAIN w.reads[c] |-> val[w.reads[c][i]]])
  IN  val

\* What a workbook is saved with: Excel's values, where it computed them.
SavedValues(w) ==
  LET atoms == [c \in Cell |-> IF c \in w.held THEN Saved(c) ELSE None]
      vals  == IF Acyclic(w) THEN Reference(w, {}, atoms) ELSE atoms
  IN  [c \in Cell |-> IF c \in w.unsaved THEN None ELSE vals[c]]

-----------------------------------------------------------------------------
Idle == /\ queue = <<>> /\ seen = {} /\ impacted = {}
        /\ current = {} /\ stack = <<>> /\ memo = <<>>
        /\ unsupported = {} /\ changed = {}

\* Too many formulas came without a value for the parser to trust the file.
Uncomputed(w) ==
  w.unsaved # {} /\ 10 * Cardinality(w.unsaved) >= 3 * Cardinality(w.formulas)

\* A request with its resolved overrides, with target_refs or without.
ScenarioInit ==
  /\ wb \in {w \in Workbooks : ~Uncomputed(w)}
  /\ cached = SavedValues(wb)
  /\ overrides \in {o \in SUBSET wb.held : Cardinality(o) \in 1..MaxOverrides}
  /\ \/ /\ mode = "scenario" /\ phase = "impact"
        /\ sources = overrides /\ todo = {}
     \/ /\ mode = "targets" /\ phase = "eval"
        /\ sources = {} /\ todo \in {{c} : c \in Cell}
  /\ Idle

\* A workbook that was just parsed.
PrecomputeInit ==
  /\ wb \in {w \in Workbooks : Uncomputed(w)}
  /\ cached = SavedValues(wb)
  /\ overrides = {}
  /\ mode = "precompute" /\ phase = "eval"
  /\ sources = {} /\ todo = wb.unsaved
  /\ Idle

Init == ScenarioInit \/ PrecomputeInit

-----------------------------------------------------------------------------
\* graph.forward_impacted

StartTrace(c) ==
  /\ phase = "impact" /\ queue = <<>>
  /\ c \in sources
  /\ sources' = sources \ {c}
  /\ queue' = <<[cell |-> c, depth |-> 0]>>
  /\ seen' = {c}
  /\ UNCHANGED <<wb, cached, overrides, mode, phase, impacted, todo, current,
                 evalVars, changed>>

\* Fault: the depth bound bites one level early.
VisitTooShallow ==
  LET head == queue[1]
      next == IF head.depth + 1 >= MaxDepth THEN {}
              ELSE Dependents(wb, head.cell) \ seen
  IN  /\ phase = "impact" /\ queue # <<>>
      /\ \E order \in [1..Cardinality(next) -> next] :
           /\ \A i, j \in DOMAIN order : order[i] = order[j] => i = j
           /\ queue' = Tail(queue) \o
                [i \in DOMAIN order |-> [cell |-> order[i], depth |-> head.depth + 1]]
      /\ seen' = seen \cup next
      /\ impacted' = impacted \cup next
      /\ UNCHANGED <<wb, cached, overrides, mode, phase, sources, todo, current,
                     evalVars, changed>>

\* One round of the while loop: the dependents not seen before join the result
\* and the queue, unless the depth is exhausted.
Visit ==
  LET head == queue[1]
      next == IF head.depth >= MaxDepth THEN {} ELSE Dependents(wb, head.cell) \ seen
  IN  /\ phase = "impact" /\ queue # <<>>
      /\ \E order \in [1..Cardinality(next) -> next] :
           /\ \A i, j \in DOMAIN order : order[i] = order[j] => i = j
           /\ queue' = Tail(queue) \o
                [i \in DOMAIN order |-> [cell |-> order[i], depth |-> head.depth + 1]]
      /\ seen' = seen \cup next
      /\ impacted' = impacted \cup next
      /\ UNCHANGED <<wb, cached, overrides, mode, phase, sources, todo, current,
                     evalVars, changed>>

TracesDone ==
  /\ phase = "impact" /\ queue = <<>> /\ sources = {}
  /\ phase' = "eval"
  /\ todo' = impacted
  /\ UNCHANGED <<wb, cached, overrides, mode, graphVars, current, evalVars, changed>>

-----------------------------------------------------------------------------
\* evaluator.Evaluator

Top == stack[Len(stack)]
OnStack == {stack[i].cell : i \in DOMAIN stack}

\* The ref value_of is being called for: the next read of the innermost
\* formula, or the cell asked for when none is being evaluated.
Pending ==
  IF stack = <<>> THEN current
  ELSE IF Len(Top.vals) < Len(wb.reads[Top.cell])
       THEN {wb.reads[Top.cell][Len(Top.vals) + 1]}
       ELSE {}

\* Faults: the overrides are not looked at; a formula is never recomputed.
AtOnceUnoverridden(r) ==
  IF r \in DOMAIN memo THEN <<memo[r]>>
  ELSE IF r \notin wb.held THEN <<None>>
  ELSE IF r \notin wb.formulas \/ r \in OnStack THEN <<cached[r]>>
  ELSE <<>>
AtOnceShallow(r) ==
  IF r \in overrides THEN <<Entered(r)>>
  ELSE IF r \in DOMAIN memo THEN <<memo[r]>>
  ELSE IF r \notin wb.held THEN <<None>>
  ELSE <<cached[r]>>

\* The early returns of value_of, in their order: <<>> when there is none.
AtOnce(r) ==
  IF r \in overrides THEN <<Entered(r)>>
  ELSE IF r \in DOMAIN memo THEN <<memo[r]>>
  ELSE IF r \notin wb.held THEN <<None>>
  ELSE IF r \notin wb.formulas THEN <<cached[r]>>
  ELSE IF r \in OnStack THEN <<cached[r]>>
  ELSE <<>>

Remember(r, v) == memo' = [x \in DOMAIN memo \cup {r} |-> IF x = r THEN v ELSE memo[x]]

\* The next target; the order is that of a Python set.
AskFor(r) ==
  /\ phase = "eval" /\ current = {}
  /\ r \in todo
  /\ current' = {r}
  /\ todo' = todo \ {r}
  /\ UNCHANGED <<wb, cached, overrides, mode, phase, graphVars, evalVars, changed>>

\* A read that value_of answers at once; a literal is memoised.
Read(r) ==
  /\ phase = "eval" /\ stack # <<>>
  /\ r \in Pending
  /\ AtOnce(r) # <<>>
  /\ stack' = [stack EXCEPT ![Len(stack)].vals = Append(@, AtOnce(r)[1])]
  /\ IF r \in wb.held \ (wb.formulas \cup overrides)
     THEN Remember(r, cached[r]) ELSE UNCHANGED memo
  /\ UNCHANGED <<wb, cached, overrides, mode, phase, graphVars, todo, current,
                 unsupported, changed>>

\* Fault: value_of does not look at _eval_stack.
EnterUnguarded(r) ==
  /\ phase = "eval"
  /\ r \in Pending
  /\ r \in wb.formulas \cap wb.held /\ r \notin DOMAIN memo /\ r \notin overrides
  /\ stack' = Append(stack, [cell |-> r, vals |-> <<>>])
  /\ UNCHANGED <<wb, cached, overrides, mode, phase, graphVars, todo, current,
                 memo, unsupported, changed>>

\* A formula that has to be evaluated first.
Enter(r) ==
  /\ phase = "eval"
  /\ r \in Pending
  /\ AtOnce(r) = <<>>
  /\ stack' = Append(stack, [cell |-> r, vals |-> <<>>])
  /\ UNCHANGED <<wb, cached, overrides, mode, phase, graphVars, todo, current,
                 memo, unsupported, changed>>

\* The innermost formula has its reads: its value is memoised, and the caller,
\* which asked for it, finds it there.
Compute ==
  /\ phase = "eval" /\ stack # <<>> /\ Pending = {}
  /\ Top.cell \notin wb.broken
  /\ Remember(Top.cell, Result(Top.cell, Top.vals))
  /\ stack' = SubSeq(stack, 1, Len(stack) - 1)
  /\ UNCHANGED <<wb, cached, overrides, mode, phase, graphVars, todo, current,
                 unsupported, changed>>

\* Fault: the error path does not leave the formula.
RaiseStuck ==
  /\ phase = "eval" /\ stack # <<>>
  /\ Top.cell \in wb.broken \/ Len(stack) >= MaxOpen
  /\ Remember(Top.cell, cached[Top.cell])
  /\ unsupported' = unsupported \cup {Top.cell}
  /\ UNCHANGED <<wb, cached, overrides, mode, phase, graphVars, todo, current,
                 stack, changed>>

\* It raises, after some of its reads, an error of its own or the RecursionError of
\* a chain of formulas too long: the cached value is used and memoised.
Raise ==
  /\ phase = "eval" /\ stack # <<>>
  /\ Top.cell \in wb.broken \/ Len(stack) >= MaxOpen
  /\ Remember(Top.cell, cached[Top.cell])
  /\ unsupported' = unsupported \cup {Top.cell}
  /\ stack' = SubSeq(stack, 1, Len(stack) - 1)
  /\ UNCHANGED <<wb, cached, overrides, mode, phase, graphVars, todo, current, changed>>

\* The cell asked for is known: a scenario reports it if it differs from the
\* cached value, the parser fills in the value that was missing.
Take ==
  /\ phase = "eval" /\ stack = <<>>
  /\ \E r \in current :
       /\ AtOnce(r) # <<>>
       /\ LET v == AtOnce(r)[1]
          IN  IF mode = "precompute"
              THEN /\ cached' = [cached EXCEPT ![r] = IF v # None THEN v ELSE @]
                   /\ UNCHANGED changed
              ELSE /\ changed' = IF r \in wb.held /\ v # cached[r]
                                 THEN changed \cup {r} ELSE changed
                   /\ UNCHANGED cached
       /\ IF r \in wb.held \ (wb.formulas \cup overrides)
          THEN Remember(r, cached[r]) ELSE UNCHANGED memo
  /\ current' = {}
  /\ UNCHANGED <<wb, overrides, mode, phase, graphVars, todo, stack, unsupported>>

Respond ==
  /\ phase = "eval" /\ todo = {} /\ current = {}
  /\ phase' = "done"
  /\ UNCHANGED <<wb, cached, overrides, mode, graphVars, todo, current, evalVars,
                 changed>>

-----------------------------------------------------------------------------
Step ==
  \/ \E c \in Cell : StartTrace(c)
  \/ Visit
  \/ TracesDone
  \/ \E r \in Cell : AskFor(r) \/ Read(r) \/ Enter(r)
  \/ Compute
  \/ Raise
  \/ Take
  \/ Respond

Next == Step

Spec == Init /\ [][Next]_vars

\* One thread runs the whole request.
FairSpec == Spec /\ WF_vars(Next)

-----------------------------------------------------------------------------
\* Properties

\* A formula is evaluated at most once at a time and has no memo entry while it
\* is: circular references are cut at the first repetition (_eval_stack).
NoReentry ==
  /\ \A i, j \in DOMAIN stack : stack[i].cell = stack[j].cell => i = j
  /\ OnStack \cap DOMAIN memo = {}

\* No formula fell back to its cached value but for an error of its own: none ran
\* into the recursion limit, which value_of takes for an error of the formula.
NoneTooDeep == unsupported \subseteq wb.broken

\* In a workbook without circular references, what is memoised is what the
\* formulas mean under the overrides, whatever was asked for before, unless a chain
\* was too long for the recursion (Evaluator.value_of, its memo shared by all
\* targets of a request).
MemoIsReference ==
  (memo # <<>> /\ Acyclic(wb) /\ NoneTooDeep) =>
    LET ref == Reference(wb, overrides, cached)
    IN  \A c \in DOMAIN memo : memo[c] = ref[c]

\* The cells forward_impacted is to find: those at most max_depth steps below an
\* overridden one.
InReach == UNION {Within(wb, o, MaxDepth) : o \in overrides}

\* A recalculation reports, of the cells that mean another value now, exactly those
\* at most max_depth steps below an override: none of these is missed by the
\* breadth first traces, whatever their order, and no cell is reported that stayed
\* the same.  Where every read is an edge, no value was missing and nothing depends
\* on a cell at the bound, these are all cells that mean another value
\* (_scenario_recalc with no target_refs, what_if).
ChangesAreExact ==
  (phase = "done" /\ mode = "scenario" /\ Acyclic(wb) /\ NoneTooDeep) =>
    LET ref    == Reference(wb, overrides, cached)
        differ == {c \in wb.held \ overrides : ref[c] # cached[c]}
        closed == \A d \in InReach : Dependents(wb, d) \subseteq InReach
    IN  /\ changed \ overrides = differ \cap InReach
        /\ (wb.unlinked = {} /\ wb.unsaved = {} /\ closed) => differ \subseteq InReach

\* After parsing, a workbook saved without values has the ones its formulas
\* mean, in whatever order the missing ones were asked for
\* (_precompute_missing_values, which writes cell.value between evaluations).
PrecomputeIsReference ==
  (phase = "done" /\ mode = "precompute" /\ Acyclic(wb) /\ NoneTooDeep) =>
    LET ref == Reference(wb, {}, cached)
    IN  \A c \in wb.unsaved : cached[c] = ref[c]

\* Every request is answered, on circular workbooks too.
RequestEnds == <>(phase = "done")

=============================================================================
