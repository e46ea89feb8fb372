------------------------ MODULE ScenarioRecalcProofs ------------------------
(***************************************************************************)
(* Theorems about ScenarioRecalc for any cells, workbooks, overrides and   *)
(* depth.                                                                  *)
(*                                                                         *)
(* The invariants speak of any assignment of values that satisfies the     *)
(* equation of every cell and of any rank of the cells that falls along    *)
(* the reads.  That a workbook whose formulas do not read in circles has   *)
(* such a rank, and that the recursive definition of what its formulas     *)
(* mean is such an assignment, is proved by induction on the naturals, in  *)
(* the form of least elements of sets.                                     *)
(***************************************************************************)
EXTENDS ScenarioRecalc, SequenceTheorems, FiniteSetTheorems, WellFoundedInduction, TLAPS

IsSeq(s) == s \in Seq({s[i] : i \in DOMAIN s})

IsFrame(f) == f = [cell |-> f.cell, vals |-> f.vals]

\* The formulas in progress are formulas with no override, each once and none of
\* them memoised.
StackIsSound ==
  /\ IsSeq(stack)
  /\ \A i \in DOMAIN stack : IsFrame(stack[i])
  /\ OnStack \subseteq (wb.formulas \cap wb.held) \ overrides
  /\ NoReentry

\* Assignment ref gives every cell the value its content means.
Solves(ref) ==
  \A c \in Cell :
    ref[c] = IF c \in overrides THEN Entered(c)
             ELSE IF c \notin wb.held THEN None
             ELSE IF c \notin wb.formulas \/ c \in wb.broken THEN cached[c]
             ELSE Result(c, [i \in DOMAIN wb.reads[c] |-> ref[wb.reads[c][i]]])

\* Every formula ranks above the cells it reads.
Ranks(rank) ==
  /\ rank \in [Cell -> Nat]
  /\ \A c \in (wb.formulas \cap wb.held) \ overrides : \A i \in DOMAIN wb.reads[c] :
       rank[wb.reads[c][i]] < rank[c]

MemoSolves(ref) == \A c \in DOMAIN memo : memo[c] = ref[c]

\* Only cells that now mean another value are reported.
ChangesSolve(ref) ==
  mode # "precompute" => \A c \in changed : c \in wb.held /\ ref[c] # cached[c]

\* The innermost formula ranks lowest, and what was read so far is right.
FramesDescend(rank) ==
  \A i, j \in DOMAIN stack : i < j => rank[stack[j].cell] < rank[stack[i].cell]
FramesSolve(ref) ==
  \A i \in DOMAIN stack :
    /\ Len(stack[i].vals) \in 0 .. Len(wb.reads[stack[i].cell])
    /\ stack[i].vals =
         [k \in 1 .. Len(stack[i].vals) |-> ref[wb.reads[stack[i].cell][k]]]

-----------------------------------------------------------------------------
\* Growing and shrinking a stack.
LEMMA Pushed ==
  ASSUME NEW s, IsSeq(s), NEW e
  PROVE  /\ IsSeq(Append(s, e)) /\ Len(Append(s, e)) = Len(s) + 1
         /\ Len(s) \in Nat /\ DOMAIN s = 1 .. Len(s)
         /\ DOMAIN Append(s, e) = 1 .. Len(s) + 1
         /\ \A i \in 1 .. Len(s) : Append(s, e)[i] = s[i]
         /\ Append(s, e)[Len(s) + 1] = e
<1> DEFINE S == {s[i] : i \in DOMAIN s} \cup {e}
           t == Append(s, e)
<1>1. s \in Seq(S)
  <2>. {s[i] : i \in DOMAIN s} \subseteq S
    OBVIOUS
  <2>. QED
    BY SeqMonotonic DEF IsSeq
<1>2. /\ Len(s) \in Nat /\ DOMAIN s = 1 .. Len(s)
      /\ t \in Seq(S) /\ Len(t) = Len(s) + 1 /\ DOMAIN t = 1 .. Len(s) + 1
      /\ \A i \in 1 .. Len(s) : t[i] = s[i]
      /\ t[Len(s) + 1] = e
  <2>. e \in S
    OBVIOUS
  <2>. HIDE DEF S
  <2>. QED
    BY <1>1
<1>3. {t[i] : i \in DOMAIN t} = S
  <2>1. ASSUME NEW x \in S PROVE \E i \in 1 .. Len(s) + 1 : x = t[i]
    <3>1. CASE x = e
      BY <3>1, <1>2
    <3>2. CASE \E i \in DOMAIN s : x = s[i]
      <4>1. PICK i \in DOMAIN s : x = s[i]
        BY <3>2
      <4>. i \in 1 .. Len(s) + 1
        BY <1>2
      <4>. QED
        BY <4>1, <1>2
    <3>. QED
      BY <3>1, <3>2
  <2>2. ASSUME NEW i \in 1 .. Len(s) + 1 PROVE t[i] \in S
    BY <1>2
  <2>. QED
    BY <2>1, <2>2, <1>2
<1>. QED
  BY <1>2, <1>3 DEF IsSeq

\* Any function on 1 .. n is a sequence of its own values.
LEMMA FunctionIsSeq ==
  ASSUME NEW n \in Nat, NEW s, s = [i \in 1 .. n |-> s[i]]
  PROVE  IsSeq(s) /\ Len(s) = n /\ DOMAIN s = 1 .. n
<1> DEFINE S == {s[i] : i \in DOMAIN s}
<1>1. DOMAIN s = 1 .. n
  OBVIOUS
<1>2. s \in [1 .. n -> S]
  BY <1>1
<1>3. s \in Seq(S)
  BY <1>2, SeqDef
<1>. QED
  BY <1>1, <1>3, LenProperties DEF IsSeq

\* The stack without its top.
LEMMA Popped ==
  ASSUME NEW s, IsSeq(s), s # <<>>
  PROVE  LET t == SubSeq(s, 1, Len(s) - 1)
         IN  /\ IsSeq(t)
             /\ Len(s) \in Nat \ {0} /\ DOMAIN s = 1 .. Len(s)
             /\ DOMAIN t = 1 .. Len(s) - 1
             /\ \A i \in 1 .. Len(s) - 1 : t[i] = s[i]
<1> DEFINE S == {s[i] : i \in DOMAIN s}
           t == SubSeq(s, 1, Len(s) - 1)
<1>1. s \in Seq(S)
  BY DEF IsSeq
<1>2. Len(s) \in Nat \ {0} /\ DOMAIN s = 1 .. Len(s)
  BY <1>1, EmptySeq, LenProperties
<1>3. /\ t \in Seq(S) /\ Len(t) = Len(s) - 1
      /\ \A i \in 1 .. Len(s) - 1 : t[i] = s[i]
  <2>1. \A i \in 1 .. Len(s) - 1 : s[i] \in S
    BY <1>2
  <2>. QED
    BY <1>2, <2>1, SubSeqProperties
<1>4. t \in [1 .. Len(s) - 1 -> S]
  BY <1>3, LenProperties
<1>5. t = [i \in 1 .. Len(s) - 1 |-> t[i]]
  BY <1>4
<1>6. Len(s) - 1 \in Nat
  BY <1>2
<1>7. IsSeq(t) /\ DOMAIN t = 1 .. Len(s) - 1
  BY ONLY <1>5, <1>6, FunctionIsSeq
<1>. QED
  BY <1>2, <1>3, <1>7

\* A frame is replaced.
LEMMA Replaced ==
  ASSUME NEW s, IsSeq(s), NEW n \in DOMAIN s, NEW e
  PROVE  /\ IsSeq([s EXCEPT ![n] = e])
         /\ Len(s) \in Nat /\ DOMAIN s = 1 .. Len(s)
         /\ DOMAIN [s EXCEPT ![n] = e] = 1 .. Len(s)
         /\ \A i \in 1 .. Len(s) : [s EXCEPT ![n] = e][i] = IF i = n THEN e ELSE s[i]
<1> DEFINE S == {s[i] : i \in DOMAIN s}
<1>1. /\ Len(s) \in Nat /\ DOMAIN s = 1 .. Len(s) /\ s \in [1 .. Len(s) -> S]
  BY LenProperties DEF IsSeq
<1>2. [s EXCEPT ![n] = e] = [i \in 1 .. Len(s) |-> [s EXCEPT ![n] = e][i]]
  BY <1>1
<1>. QED
  BY <1>1, <1>2, FunctionIsSeq

-----------------------------------------------------------------------------
\* No formula is entered twice

LEMMA InitSound == Init => StackIsSound
<1> SUFFICES ASSUME Init PROVE StackIsSound
  OBVIOUS
<1>1. stack = <<>> /\ memo = <<>>
  BY DEF Init, ScenarioInit, PrecomputeInit, Idle
<1>2. IsSeq(<<>>)
  BY DEF IsSeq
<1>. QED
  BY <1>1, <1>2 DEF StackIsSound, OnStack, NoReentry

\* Putting a formula on the stack that is neither there nor in the memo.
LEMMA EnterSound ==
  ASSUME StackIsSound, NEW r, Enter(r)
  PROVE  StackIsSound'
<1> DEFINE f == [cell |-> r, vals |-> <<>>]
<1>1. /\ r \notin DOMAIN memo /\ r \in wb.held /\ r \in wb.formulas /\ r \notin OnStack
      /\ r \notin overrides
      /\ stack' = Append(stack, f)
      /\ UNCHANGED <<wb, overrides, memo>>
  BY DEF Enter, AtOnce
<1>2. /\ IsSeq(stack')
      /\ Len(stack) \in Nat /\ DOMAIN stack = 1 .. Len(stack)
      /\ DOMAIN stack' = 1 .. Len(stack) + 1
      /\ \A i \in 1 .. Len(stack) : stack'[i] = stack[i]
      /\ stack'[Len(stack) + 1] = f
  BY <1>1, Pushed DEF StackIsSound
<1>3. OnStack' = OnStack \cup {r}
  BY <1>2 DEF OnStack
<1>4. \A i \in 1 .. Len(stack) : stack[i].cell # r
  BY <1>1, <1>2 DEF OnStack
<1>5. \A i, j \in DOMAIN stack' : stack'[i].cell = stack'[j].cell => i = j
  <2>. SUFFICES ASSUME NEW i \in 1 .. Len(stack) + 1, NEW j \in 1 .. Len(stack) + 1,
                       stack'[i].cell = stack'[j].cell
                PROVE  i = j
    BY <1>2
  <2>. QED
    BY <1>2, <1>4 DEF StackIsSound, NoReentry
<1>6. IsFrame(f)
  BY DEF IsFrame
<1>. QED
  BY <1>1, <1>2, <1>3, <1>5, <1>6 DEF StackIsSound, NoReentry

\* Taking the top off, which alone is memoised.
LEMMA LeaveSound ==
  ASSUME StackIsSound, Compute \/ Raise
  PROVE  StackIsSound'
<1>1. /\ stack # <<>>
      /\ stack' = SubSeq(stack, 1, Len(stack) - 1)
      /\ DOMAIN memo' = DOMAIN memo \cup {Top.cell}
      /\ UNCHANGED <<wb, overrides>>
  BY DEF Compute, Raise, Remember
<1>2. /\ IsSeq(stack')
      /\ Len(stack) \in Nat \ {0} /\ DOMAIN stack = 1 .. Len(stack)
      /\ DOMAIN stack' = 1 .. Len(stack) - 1
      /\ \A i \in 1 .. Len(stack) - 1 : stack'[i] = stack[i]
  BY <1>1, Popped DEF StackIsSound
<1>3. \A i \in 1 .. Len(stack) - 1 : stack[i].cell # Top.cell
  BY <1>2 DEF StackIsSound, NoReentry, Top
<1>4. OnStack' \subseteq OnStack \ {Top.cell}
  BY <1>2, <1>3 DEF OnStack
<1>5. \A i, j \in DOMAIN stack' : stack'[i].cell = stack'[j].cell => i = j
  BY <1>2 DEF StackIsSound, NoReentry
<1>. QED
  BY <1>1, <1>2, <1>4, <1>5 DEF StackIsSound, NoReentry

LEMMA ReadSound ==
  ASSUME StackIsSound, NEW r, Read(r)
  PROVE  StackIsSound'
<1> DEFINE n == Len(stack)
           f == [stack[n] EXCEPT !.vals = Append(@, AtOnce(r)[1])]
<1>1. /\ stack # <<>>
      /\ stack' = [stack EXCEPT ![n] = f]
      /\ DOMAIN memo' \subseteq DOMAIN memo \cup (wb.held \ wb.formulas)
      /\ UNCHANGED <<wb, overrides>>
  BY DEF Read, Remember
<1>2. n \in DOMAIN stack
  BY <1>1, EmptySeq, LenProperties DEF StackIsSound, IsSeq
<1>3. /\ IsSeq(stack')
      /\ DOMAIN stack = 1 .. n /\ DOMAIN stack' = 1 .. n
      /\ \A i \in 1 .. n : stack'[i] = IF i = n THEN f ELSE stack[i]
  <2>. HIDE DEF f
  <2>. QED
    BY <1>1, <1>2, Replaced DEF StackIsSound
<1>4. IsFrame(f) /\ f.cell = stack[n].cell
  BY <1>2 DEF StackIsSound, IsFrame
<1>7. \A i \in 1 .. n : stack'[i].cell = stack[i].cell
  BY <1>3, <1>4
<1>5. OnStack' = OnStack
  BY <1>3, <1>7 DEF OnStack
<1>6. \A i, j \in DOMAIN stack' : stack'[i].cell = stack'[j].cell => i = j
  BY <1>3, <1>7 DEF StackIsSound, NoReentry
<1>. QED
  BY <1>1, <1>3, <1>4, <1>5, <1>6 DEF StackIsSound, NoReentry

\* Every step keeps the stack sound.
LEMMA StackStep == StackIsSound /\ [Next]_vars => StackIsSound'
<1> SUFFICES ASSUME StackIsSound, [Next]_vars PROVE StackIsSound'
  OBVIOUS
<1>0. ASSUME UNCHANGED <<wb, overrides, stack, memo>> PROVE StackIsSound'
  BY <1>0 DEF StackIsSound, IsSeq, OnStack, NoReentry
<1>1. ASSUME NEW c, StartTrace(c) \/ AskFor(c) PROVE StackIsSound'
  BY <1>0, <1>1 DEF StartTrace, AskFor, evalVars
<1>2. ASSUME Visit \/ TracesDone \/ Respond PROVE StackIsSound'
  BY <1>0, <1>2 DEF Visit, TracesDone, Respond, evalVars
<1>3. CASE Take
  <2>1. stack = <<>> /\ stack' = <<>> /\ UNCHANGED <<wb, overrides>>
    BY <1>3 DEF Take
  <2>2. IsSeq(<<>>)
    BY DEF IsSeq
  <2>. QED
    BY <2>1, <2>2 DEF StackIsSound, OnStack, NoReentry
<1>4. CASE UNCHANGED vars
  BY <1>0, <1>4 DEF vars, evalVars
<1>. QED
  BY <1>1, <1>2, <1>3, <1>4, EnterSound, LeaveSound, ReadSound DEF Next, Step

\* Evaluator.value_of enters no formula that is being evaluated or memoised, on
\* whatever circles a workbook has: the recursion is no deeper than the formulas
\* are many.
THEOREM Reentry == Spec => []NoReentry
<1>1. StackIsSound => NoReentry
  BY DEF StackIsSound
<1>. QED
  BY <1>1, InitSound, StackStep, PTL DEF Spec

-----------------------------------------------------------------------------
\* What is memoised is what the formulas mean

Literal(c) == c \in wb.held \ overrides /\ (c \notin wb.formulas \/ c \in wb.broken)

\* What is not computed has its cached value in the memo too; only a scenario reports.
Settled ==
  /\ wb \in Workbooks
  /\ DOMAIN cached = Cell
  /\ \A c \in DOMAIN memo : Literal(c) => memo[c] = cached[c]
  /\ mode = "precompute" => changed = {}

\* All that is memoised, read or reported fits the solution, as long as no formula gave
\* up in the recursion limit.
Fits(ref, rank) ==
  NoneTooDeep /\ Solves(ref) /\ Ranks(rank) =>
    MemoSolves(ref) /\ FramesDescend(rank) /\ FramesSolve(ref) /\ ChangesSolve(ref)

IInv == StackIsSound /\ Settled /\ \A ref, rank : Fits(ref, rank)

LEMMA InitSettled == Init => Settled
<1> SUFFICES ASSUME Init PROVE Settled
  OBVIOUS
<1>1. wb \in Workbooks /\ memo = <<>> /\ changed = {}
  BY DEF Init, ScenarioInit, PrecomputeInit, Idle
<1>2. DOMAIN cached = Cell
  BY DEF Init, ScenarioInit, PrecomputeInit, SavedValues
<1>. QED
  BY <1>1, <1>2 DEF Settled

\* The parser writes into formulas only: what the others hold stays, and so does
\* what the workbook means.
LEMMA CachedKept ==
  ASSUME Settled, StackIsSound, [Next]_vars
  PROVE  /\ UNCHANGED <<wb, overrides, mode>>
         /\ DOMAIN cached' = Cell
         /\ \A c : Literal(c) => cached'[c] = cached[c]
         /\ mode # "precompute" => cached' = cached
<1> USE DEF Settled
<1>1. ASSUME UNCHANGED <<wb, cached, overrides, mode>>
      PROVE  /\ UNCHANGED <<wb, overrides, mode>>
             /\ DOMAIN cached' = Cell
             /\ \A c : Literal(c) => cached'[c] = cached[c]
             /\ mode # "precompute" => cached' = cached
  BY <1>1
<1>2. ASSUME NEW c, StartTrace(c) \/ AskFor(c) \/ Read(c) \/ Enter(c)
      PROVE  UNCHANGED <<wb, cached, overrides, mode>>
  BY <1>2 DEF StartTrace, AskFor, Read, Enter
<1>3. ASSUME Visit \/ TracesDone \/ Compute \/ Raise \/ Respond
      PROVE  UNCHANGED <<wb, cached, overrides, mode>>
  BY <1>3 DEF Visit, TracesDone, Compute, Raise, Respond
<1>4. ASSUME Take
      PROVE  /\ UNCHANGED <<wb, overrides, mode>>
             /\ DOMAIN cached' = Cell
             /\ \A c : Literal(c) => cached'[c] = cached[c]
             /\ mode # "precompute" => cached' = cached
  <2>1. PICK r \in current :
          /\ AtOnce(r) # <<>>
          /\ LET v == AtOnce(r)[1]
             IN  IF mode = "precompute"
                 THEN cached' = [cached EXCEPT ![r] = IF v # None THEN v ELSE @]
                 ELSE cached' = cached
    BY <1>4 DEF Take
  <2>2. UNCHANGED <<wb, overrides, mode>>
    BY <1>4 DEF Take
  <2>3. DOMAIN cached' = Cell /\ (mode # "precompute" => cached' = cached)
    BY <2>1
  <2>4. ASSUME Literal(r) PROVE AtOnce(r)[1] = cached[r]
    <3>1. stack = <<>>
      BY <1>4 DEF Take
    <3>2. r \notin OnStack
      BY <3>1 DEF OnStack
    <3>3. CASE r \in DOMAIN memo
      BY <2>4, <3>3 DEF AtOnce, Literal
    <3>4. CASE r \notin DOMAIN memo
      BY <2>1, <2>4, <3>2, <3>4 DEF AtOnce, Literal
    <3>. QED
      BY <3>3, <3>4
  <2>5. ASSUME NEW c, Literal(c) PROVE cached'[c] = cached[c]
    <3>1. c \in Cell
      BY <2>5, WorkbookAssumption DEF Literal, Workbook
    <3>. QED
      BY <3>1, <2>1, <2>4, <2>5
  <2>. QED
    BY <2>2, <2>3, <2>5
<1>5. ASSUME UNCHANGED vars
      PROVE  UNCHANGED <<wb, cached, overrides, mode>>
  BY <1>5 DEF vars
<1>. QED
  BY <1>1, <1>2, <1>3, <1>4, <1>5 DEF Next, Step

\* So a solution before the step is one after it, and the other way round.
LEMMA SolutionsKept ==
  ASSUME Settled, StackIsSound, [Next]_vars, NEW ref, NEW rank
  PROVE  Solves(ref)' <=> Solves(ref)
<1>1. ASSUME NEW c \in Cell,
             c \notin overrides, c \in wb.held, c \notin wb.formulas \/ c \in wb.broken
      PROVE  cached'[c] = cached[c]
  BY <1>1, CachedKept DEF Literal
<1>2. UNCHANGED <<wb, overrides>>
  BY CachedKept
<1>. QED
  BY <1>1, <1>2 DEF Solves

LEMMA RanksKept ==
  ASSUME Settled, StackIsSound, [Next]_vars, NEW rank
  PROVE  Ranks(rank)' <=> Ranks(rank)
<1>1. UNCHANGED <<wb, overrides>>
  BY CachedKept
<1>. QED
  BY <1>1 DEF Ranks

\* What a step adds to the memo.
LEMMA MemoGrows ==
  ASSUME NEW r, NEW v, Remember(r, v)
  PROVE  /\ DOMAIN memo' = DOMAIN memo \cup {r}
         /\ memo'[r] = v
         /\ \A c \in DOMAIN memo : c # r => memo'[c] = memo[c]
BY DEF Remember

LEMMA SettledStep == Settled /\ StackIsSound /\ [Next]_vars => Settled'
<1> SUFFICES ASSUME Settled, StackIsSound, [Next]_vars PROVE Settled'
  OBVIOUS
<1>1. /\ UNCHANGED <<wb, overrides, mode>> /\ DOMAIN cached' = Cell
      /\ \A c : Literal(c) => cached'[c] = cached[c]
      /\ \A c : Literal(c)' <=> Literal(c)
  BY CachedKept DEF Literal
<1>2. ASSUME \A c \in DOMAIN memo' : Literal(c) => memo'[c] = cached[c],
             mode = "precompute" => changed' = changed
      PROVE  Settled'
  BY <1>1, <1>2 DEF Settled
<1>3. ASSUME NEW r, NEW v, Remember(r, v), Literal(r) => v = cached[r]
      PROVE  \A c \in DOMAIN memo' : Literal(c) => memo'[c] = cached[c]
  BY <1>3, MemoGrows DEF Settled
<1>4. ASSUME UNCHANGED memo
      PROVE  \A c \in DOMAIN memo' : Literal(c) => memo'[c] = cached[c]
  BY <1>4 DEF Settled
<1>5. ASSUME NEW c, StartTrace(c) \/ AskFor(c) \/ Enter(c) PROVE Settled'
  BY <1>2, <1>4, <1>5 DEF StartTrace, AskFor, Enter, evalVars
<1>6. ASSUME Visit \/ TracesDone \/ Respond PROVE Settled'
  BY <1>2, <1>4, <1>6 DEF Visit, TracesDone, Respond, evalVars
<1>7. ASSUME NEW r, Read(r) PROVE Settled'
  <2>1. Remember(r, cached[r]) \/ UNCHANGED memo
    BY <1>7 DEF Read
  <2>2. changed' = changed
    BY <1>7 DEF Read
  <2>. QED
    BY <2>1, <2>2, <1>2, <1>3, <1>4
<1>8. CASE Compute
  <2>1. Remember(Top.cell, Result(Top.cell, Top.vals)) /\ changed' = changed
    BY <1>8 DEF Compute
  <2>2. ~Literal(Top.cell)
    <3>1. Len(stack) \in DOMAIN stack
      BY <1>8, EmptySeq, LenProperties DEF StackIsSound, IsSeq, Compute
    <3>2. Top.cell \in wb.formulas /\ Top.cell \notin wb.broken
      BY <1>8, <3>1 DEF Compute, StackIsSound, OnStack, Top
    <3>. QED
      BY <3>2 DEF Literal
  <2>. QED
    BY <2>1, <2>2, <1>2, <1>3
<1>9. CASE Raise
  <2>1. Remember(Top.cell, cached[Top.cell]) /\ changed' = changed
    BY <1>9 DEF Raise
  <2>. QED
    BY <2>1, <1>2, <1>3
<1>10. CASE Take
  <2>1. PICK r : Remember(r, cached[r]) \/ UNCHANGED memo
    BY <1>10 DEF Take
  <2>2. mode = "precompute" => changed' = changed
    BY <1>10 DEF Take
  <2>. QED
    BY <2>1, <2>2, <1>2, <1>3, <1>4
<1>11. CASE UNCHANGED vars
  BY <1>2, <1>4, <1>11 DEF vars, evalVars
<1>. QED
  BY <1>5, <1>6, <1>7, <1>8, <1>9, <1>10, <1>11 DEF Next, Step

-----------------------------------------------------------------------------
\* A frame that reads one more right value reads as the formula means.
LEMMA FrameGrows ==
  ASSUME NEW n \in Nat, NEW vals, NEW m(_),
         Len(vals) = n, vals = [k \in 1 .. n |-> m(k)]
  PROVE  /\ Len(Append(vals, m(n + 1))) = n + 1
         /\ Append(vals, m(n + 1)) = [k \in 1 .. n + 1 |-> m(k)]
<1> DEFINE v == m(n + 1)
           t == Append(vals, v)
<1>1. IsSeq(vals)
  <2>1. vals = [k \in 1 .. n |-> vals[k]]
    OBVIOUS
  <2>. QED
    BY ONLY <2>1, FunctionIsSeq, n \in Nat
<1>2. /\ IsSeq(t) /\ Len(t) = n + 1 /\ DOMAIN t = 1 .. n + 1
      /\ \A k \in 1 .. n : t[k] = vals[k]
      /\ t[n + 1] = v
  BY <1>1, Pushed
<1>3. Len(t) = n + 1 /\ t = [k \in 1 .. n + 1 |-> t[k]]
  <2> DEFINE S == {t[k] : k \in DOMAIN t}
  <2>. HIDE DEF t
  <2>1. t \in Seq(S)
    BY <1>2 DEF IsSeq
  <2>. HIDE DEF S
  <2>2. Len(t) \in Nat /\ DOMAIN t = 1 .. Len(t) /\ t \in [1 .. Len(t) -> S]
    BY <2>1, LenProperties
  <2>. QED
    BY <2>2, <1>2
<1>4. \A k \in 1 .. n + 1 : t[k] = m(k)
  BY <1>2
<1>. QED
  BY <1>3, <1>4

\* The top of the stack is a formula the workbook holds, without an override.
LEMMA TopIsFormula ==
  ASSUME StackIsSound, Settled, stack # <<>>
  PROVE  /\ Len(stack) \in DOMAIN stack
         /\ Top.cell \in Cell
         /\ Top.cell \in wb.formulas /\ Top.cell \in wb.held /\ Top.cell \notin overrides
         /\ wb.reads[Top.cell] \in Seq(Cell)
<1>1. Len(stack) \in DOMAIN stack
  BY EmptySeq, LenProperties DEF StackIsSound, IsSeq
<1>2. Top.cell \in wb.formulas /\ Top.cell \in wb.held /\ Top.cell \notin overrides
  BY <1>1 DEF StackIsSound, OnStack, Top
<1>3. wb \in Workbook
  BY WorkbookAssumption DEF Settled
<1>. QED
  BY <1>1, <1>2, <1>3 DEF Workbook

\* What the innermost formula reads next ranks below all that are in progress.
LEMMA PendingRanksLow ==
  ASSUME StackIsSound, Settled, stack # <<>>, NEW rank, Ranks(rank), FramesDescend(rank),
         NEW ref, FramesSolve(ref), NEW r \in Pending
  PROVE  /\ r \in Cell
         /\ r = wb.reads[Top.cell][Len(Top.vals) + 1]
         /\ Len(Top.vals) \in Nat /\ Len(Top.vals) + 1 \in 1 .. Len(wb.reads[Top.cell])
         /\ \A i \in DOMAIN stack : rank[r] < rank[stack[i].cell]
<1>1. /\ Len(Top.vals) < Len(wb.reads[Top.cell])
      /\ r = wb.reads[Top.cell][Len(Top.vals) + 1]
  BY DEF Pending
<1>2. Len(wb.reads[Top.cell]) \in Nat /\ Len(Top.vals) \in Nat
  BY TopIsFormula, LenProperties DEF FramesSolve, Top
<1>3. /\ Len(Top.vals) + 1 \in 1 .. Len(wb.reads[Top.cell])
      /\ Len(Top.vals) + 1 \in DOMAIN wb.reads[Top.cell]
  BY <1>1, <1>2, TopIsFormula, LenProperties
<1>4. r \in Cell
  BY <1>1, <1>3, TopIsFormula, ElementOfSeq
<1>5. rank[r] < rank[Top.cell]
  BY <1>1, <1>3, TopIsFormula DEF Ranks
<1>6. ASSUME NEW i \in DOMAIN stack PROVE rank[r] < rank[stack[i].cell]
  <2>1. stack[i].cell \in Cell
    <3>. wb.held \subseteq Cell
      BY WorkbookAssumption DEF Settled, Workbook
    <3>. QED
      BY DEF StackIsSound, OnStack
  <2>2. rank[stack[i].cell] \in Nat /\ rank[r] \in Nat /\ rank[Top.cell] \in Nat
    BY <2>1, <1>4, TopIsFormula DEF Ranks
  <2>3. i = Len(stack) \/ i < Len(stack)
    <3>. DOMAIN stack = 1 .. Len(stack) /\ Len(stack) \in Nat
      BY LenProperties DEF StackIsSound, IsSeq
    <3>. QED
      OBVIOUS
  <2>4. rank[Top.cell] <= rank[stack[i].cell]
    BY <2>2, <2>3, TopIsFormula DEF FramesDescend, Top
  <2>. QED
    BY <2>2, <2>4, <1>5
<1>. QED
  BY <1>1, <1>2, <1>3, <1>4, <1>6

\* The early returns of value_of give what the cell means: that of a circular
\* reference is never taken.
LEMMA AtOnceSolves ==
  ASSUME StackIsSound, Settled, NEW ref, Solves(ref), MemoSolves(ref),
         NEW r \in Cell, AtOnce(r) # <<>>, r \notin OnStack
  PROVE  AtOnce(r)[1] = ref[r]
<1>1. CASE r \in overrides
  BY <1>1 DEF AtOnce, Solves
<1>2. CASE r \notin overrides /\ r \in DOMAIN memo
  BY <1>2 DEF AtOnce, MemoSolves
<1>3. CASE r \notin overrides /\ r \notin DOMAIN memo
  <2>1. CASE r \notin wb.held
    BY <1>3, <2>1 DEF AtOnce, Solves
  <2>2. CASE r \in wb.held /\ r \notin wb.formulas
    BY <1>3, <2>2 DEF AtOnce, Solves
  <2>3. CASE r \in wb.held /\ r \in wb.formulas
    BY <1>3, <2>3 DEF AtOnce
  <2>. QED
    BY <2>1, <2>2, <2>3
<1>. QED
  BY <1>1, <1>2, <1>3

LEMMA InitFits == Init => \A ref, rank : Fits(ref, rank)
<1>1. ASSUME Init PROVE stack = <<>> /\ memo = <<>> /\ changed = {}
  BY <1>1 DEF Init, ScenarioInit, PrecomputeInit, Idle
<1>. QED
  BY <1>1 DEF Fits, MemoSolves, FramesDescend, FramesSolve, ChangesSolve

\* A formula that gave up stays on the list of those that did.
LEMMA DeepKept ==
  ASSUME StackIsSound, Settled, [Next]_vars, NoneTooDeep'
  PROVE  NoneTooDeep /\ (Raise => Top.cell \in wb.broken)
<1>1. unsupported \subseteq unsupported' /\ (Raise => Top.cell \in unsupported')
  <2>1. CASE Raise
    BY <2>1 DEF Raise
  <2>2. CASE ~Raise
    BY <2>2 DEF Next, Step, StartTrace, Visit, TracesDone, AskFor, Read, Enter, Compute, Take,
                Respond, vars, evalVars
  <2> QED
    BY <2>1, <2>2
<1>2. wb' = wb
  BY CachedKept
<1> QED
  BY <1>1, <1>2 DEF NoneTooDeep

\* Every step keeps memo, frames and report in line with a solution.
LEMMA FitsStep ==
  ASSUME StackIsSound, Settled, [Next]_vars, NEW ref, NEW rank, Fits(ref, rank)
  PROVE  Fits(ref, rank)'
<1> SUFFICES ASSUME NoneTooDeep, Raise => Top.cell \in wb.broken, Solves(ref), Ranks(rank)
             PROVE  MemoSolves(ref)' /\ FramesDescend(rank)' /\ FramesSolve(ref)' /\ ChangesSolve(ref)'
  BY SolutionsKept, RanksKept, DeepKept DEF Fits
<1>0. /\ MemoSolves(ref) /\ FramesDescend(rank) /\ FramesSolve(ref) /\ ChangesSolve(ref)
      /\ UNCHANGED <<wb, overrides, mode>>
      /\ mode # "precompute" => cached' = cached
  BY CachedKept DEF Fits
<1>M. ASSUME NEW r, NEW v, Remember(r, v), v = ref[r] PROVE MemoSolves(ref)'
  BY <1>M, <1>0, MemoGrows DEF MemoSolves
<1>N. ASSUME UNCHANGED memo PROVE MemoSolves(ref)'
  BY <1>N, <1>0 DEF MemoSolves
<1>F. ASSUME UNCHANGED stack PROVE FramesDescend(rank)' /\ FramesSolve(ref)'
  BY <1>F, <1>0 DEF FramesDescend, FramesSolve
<1>C. ASSUME UNCHANGED changed PROVE ChangesSolve(ref)'
  BY <1>C, <1>0 DEF ChangesSolve
<1>L. ASSUME NEW r, Remember(r, cached[r]) \/ UNCHANGED memo,
             r \in wb.held \ (wb.formulas \cup overrides) \/ UNCHANGED memo
      PROVE  MemoSolves(ref)'
  <2>1. CASE UNCHANGED memo
    BY <2>1, <1>N
  <2>2. CASE ~UNCHANGED memo
    <3>1. r \in Cell
      BY <2>2, <1>L, WorkbookAssumption DEF Settled, Workbook
    <3>2. cached[r] = ref[r]
      BY <2>2, <3>1, <1>L DEF Solves
    <3>. QED
      BY <2>2, <3>2, <1>L, <1>M
  <2>. QED
    BY <2>1, <2>2
<1>1. ASSUME NEW c, StartTrace(c) \/ AskFor(c)
      PROVE  MemoSolves(ref)' /\ FramesDescend(rank)' /\ FramesSolve(ref)' /\ ChangesSolve(ref)'
  BY <1>1, <1>N, <1>F, <1>C DEF StartTrace, AskFor, evalVars
<1>2. ASSUME Visit \/ TracesDone \/ Respond
      PROVE  MemoSolves(ref)' /\ FramesDescend(rank)' /\ FramesSolve(ref)' /\ ChangesSolve(ref)'
  BY <1>2, <1>N, <1>F, <1>C DEF Visit, TracesDone, Respond, evalVars
<1>3. ASSUME NEW r, Read(r)
      PROVE  MemoSolves(ref)' /\ FramesDescend(rank)' /\ FramesSolve(ref)' /\ ChangesSolve(ref)'
  <2> DEFINE n == Len(stack)
             v == AtOnce(r)[1]
             vals == Append(stack[n].vals, v)
             f == [stack[n] EXCEPT !.vals = vals]
  <2>1. /\ stack # <<>> /\ r \in Pending /\ AtOnce(r) # <<>>
        /\ stack' = [stack EXCEPT ![n] = f]
        /\ changed' = changed
    BY <1>3 DEF Read
  <2>2. MemoSolves(ref)'
    BY <1>3, <1>L DEF Read
  <2>3. /\ r \in Cell
        /\ r = wb.reads[Top.cell][Len(Top.vals) + 1]
        /\ Len(Top.vals) \in Nat /\ Len(Top.vals) + 1 \in 1 .. Len(wb.reads[Top.cell])
        /\ \A i \in DOMAIN stack : rank[r] < rank[stack[i].cell]
    BY <2>1, <1>0, PendingRanksLow
  <2>4. n \in DOMAIN stack
    BY <2>1, TopIsFormula
  <2>5. r \notin OnStack
    <3>. SUFFICES ASSUME NEW i \in DOMAIN stack, stack[i].cell = r PROVE FALSE
      BY DEF OnStack
    <3>1. rank[r] < rank[r] /\ rank[r] \in Nat
      BY <2>3 DEF Ranks
    <3>. QED
      BY <3>1
  <2>6. v = ref[r]
    BY <2>1, <2>3, <2>5, <1>0, AtOnceSolves
  <2>7. f = [cell |-> stack[n].cell, vals |-> vals]
    BY <2>4 DEF StackIsSound, IsFrame
  <2>8. /\ DOMAIN stack = 1 .. n /\ DOMAIN stack' = 1 .. n /\ n \in Nat
        /\ \A i \in 1 .. n : stack'[i] = IF i = n THEN f ELSE stack[i]
    <3>. HIDE DEF f
    <3>. QED
      BY <2>1, <2>4, Replaced DEF StackIsSound
  <2>9. \A i \in 1 .. n : stack'[i].cell = stack[i].cell
    BY <2>7, <2>8
  <2>10. FramesDescend(rank)'
    BY <2>8, <2>9, <1>0 DEF FramesDescend
  <2>11. /\ Len(vals) = Len(stack[n].vals) + 1
         /\ vals = [k \in 1 .. Len(vals) |-> ref[wb.reads[stack[n].cell][k]]]
    <3> DEFINE m(k) == ref[wb.reads[stack[n].cell][k]]
               l == Len(stack[n].vals)
    <3>1. l \in Nat /\ stack[n].vals = [k \in 1 .. l |-> m(k)]
      BY <2>3, <2>4, <1>0 DEF FramesSolve, Top
    <3>2. v = m(l + 1)
      BY <2>3, <2>6 DEF Top
    <3>. HIDE DEF m, v
    <3>3. /\ Len(Append(stack[n].vals, m(l + 1))) = l + 1
          /\ Append(stack[n].vals, m(l + 1)) = [k \in 1 .. l + 1 |-> m(k)]
      BY <3>1, FrameGrows
    <3>. QED
      BY <3>2, <3>3 DEF m
  <2>12. FramesSolve(ref)'
    <3>. SUFFICES ASSUME NEW i \in 1 .. n
                  PROVE  /\ Len(stack'[i].vals) \in 0 .. Len(wb.reads[stack'[i].cell])
                         /\ stack'[i].vals = [k \in 1 .. Len(stack'[i].vals) |->
                                                ref[wb.reads[stack'[i].cell][k]]]
      BY <2>8, <1>0 DEF FramesSolve
    <3>1. CASE i = n
      <4>1. stack'[i].vals = vals /\ stack'[i].cell = stack[n].cell
        BY <3>1, <2>7, <2>8
      <4>. HIDE DEF vals
      <4>2. Len(vals) \in 0 .. Len(wb.reads[stack[n].cell])
        <5>1. Len(wb.reads[Top.cell]) \in Nat
          BY <2>1, TopIsFormula, LenProperties
        <5>. QED
          BY <5>1, <2>3, <2>11 DEF Top
      <4>. QED
        BY <4>1, <4>2, <2>11
    <3>2. CASE i # n
      BY <3>2, <2>8, <1>0 DEF FramesSolve
    <3>. QED
      BY <3>1, <3>2
  <2>. QED
    BY <2>1, <2>2, <2>10, <2>12, <1>C
<1>4. ASSUME NEW r, Enter(r)
      PROVE  MemoSolves(ref)' /\ FramesDescend(rank)' /\ FramesSolve(ref)' /\ ChangesSolve(ref)'
  <2> DEFINE n == Len(stack)
             f == [cell |-> r, vals |-> <<>>]
  <2>1. /\ r \in Pending /\ r \in wb.held /\ r \in wb.formulas
        /\ stack' = Append(stack, f)
        /\ memo' = memo /\ changed' = changed
    BY <1>4 DEF Enter, AtOnce
  <2>2. /\ n \in Nat /\ DOMAIN stack = 1 .. n /\ DOMAIN stack' = 1 .. n + 1
        /\ \A i \in 1 .. n : stack'[i] = stack[i]
        /\ stack'[n + 1] = f
    BY <2>1, Pushed DEF StackIsSound
  <2>3. \A i \in 1 .. n : rank[r] < rank[stack[i].cell]
    <3>1. CASE stack = <<>>
      BY <3>1
    <3>2. CASE stack # <<>>
      BY <3>2, <2>1, <2>2, <1>0, PendingRanksLow
    <3>. QED
      BY <3>1, <3>2
  <2>4. FramesDescend(rank)'
    <3>. SUFFICES ASSUME NEW i \in 1 .. n + 1, NEW j \in 1 .. n + 1, i < j
                  PROVE  rank[stack'[j].cell] < rank[stack'[i].cell]
      BY <2>2 DEF FramesDescend
    <3>1. CASE j = n + 1
      BY <3>1, <2>2, <2>3
    <3>2. CASE j # n + 1
      BY <3>2, <2>2, <1>0 DEF FramesDescend
    <3>. QED
      BY <3>1, <3>2
  <2>5. Len(wb.reads[r]) \in Nat
    <3>. r \in Cell /\ wb \in Workbook
      BY <2>1, WorkbookAssumption DEF Settled, Workbook
    <3>. QED
      BY LenProperties DEF Workbook
  <2>6. FramesSolve(ref)'
    BY <2>2, <2>5, <1>0 DEF FramesSolve
  <2>. QED
    BY <2>1, <2>4, <2>6, <1>N, <1>C
<1>5. ASSUME Compute \/ Raise
      PROVE  MemoSolves(ref)' /\ FramesDescend(rank)' /\ FramesSolve(ref)' /\ ChangesSolve(ref)'
  <2> DEFINE n == Len(stack)
  <2>1. /\ stack # <<>> /\ stack' = SubSeq(stack, 1, n - 1)
        /\ changed' = changed
    BY <1>5 DEF Compute, Raise
  <2>2. /\ n \in Nat /\ DOMAIN stack = 1 .. n /\ DOMAIN stack' = 1 .. n - 1
        /\ \A i \in 1 .. n - 1 : stack'[i] = stack[i]
    BY <2>1, Popped DEF StackIsSound
  <2>3. FramesDescend(rank)' /\ FramesSolve(ref)'
    <3>1. \A i \in 1 .. n - 1 : i \in DOMAIN stack /\ stack'[i] = stack[i]
      BY <2>2
    <3>2. FramesDescend(rank)'
      BY <3>1, <2>2, <1>0 DEF FramesDescend
    <3>3. FramesSolve(ref)'
      BY <3>1, <2>2, <1>0 DEF FramesSolve
    <3>. QED
      BY <3>2, <3>3
  <2>4. ASSUME Raise PROVE MemoSolves(ref)'
    <3>1. cached[Top.cell] = ref[Top.cell]
      BY <2>1, <2>4, TopIsFormula DEF Raise, Solves
    <3>. QED
      BY <2>4, <3>1, <1>M DEF Raise
  <2>5. ASSUME Compute PROVE MemoSolves(ref)'
    <3>1. ~(Len(Top.vals) < Len(wb.reads[Top.cell]))
      BY <2>5 DEF Compute, Pending
    <3>2. /\ Len(Top.vals) \in 0 .. Len(wb.reads[Top.cell])
          /\ Top.vals = [k \in 1 .. Len(Top.vals) |-> ref[wb.reads[Top.cell][k]]]
      BY <2>1, <1>0, TopIsFormula DEF FramesSolve, Top
    <3>3. Len(wb.reads[Top.cell]) \in Nat /\ DOMAIN wb.reads[Top.cell] = 1 .. Len(wb.reads[Top.cell])
      BY <2>1, TopIsFormula, LenProperties
    <3>4. Len(Top.vals) = Len(wb.reads[Top.cell])
      BY <3>1, <3>2, <3>3
    <3>5. Top.vals = [k \in DOMAIN wb.reads[Top.cell] |-> ref[wb.reads[Top.cell][k]]]
      BY <3>2, <3>3, <3>4
    <3>6. Result(Top.cell, Top.vals) = ref[Top.cell]
      BY <2>1, <2>5, <3>5, TopIsFormula DEF Compute, Solves
    <3>. QED
      BY <2>5, <3>6, <1>M DEF Compute
  <2>. QED
    BY <1>5, <2>1, <2>3, <2>4, <2>5, <1>C
<1>6. ASSUME Take
      PROVE  MemoSolves(ref)' /\ FramesDescend(rank)' /\ FramesSolve(ref)' /\ ChangesSolve(ref)'
  <2>1. PICK r \in current :
          /\ AtOnce(r) # <<>>
          /\ mode # "precompute" =>
               changed' = IF r \in wb.held /\ AtOnce(r)[1] # cached[r]
                          THEN changed \cup {r} ELSE changed
          /\ IF r \in wb.held \ (wb.formulas \cup overrides)
             THEN Remember(r, cached[r]) ELSE UNCHANGED memo
    BY <1>6 DEF Take
  <2>2. MemoSolves(ref)'
    BY <2>1, <1>L
  <2>3. stack = <<>> /\ stack' = stack
    BY <1>6 DEF Take
  <2>4. ASSUME r \in wb.held PROVE AtOnce(r)[1] = ref[r]
    <3>1. r \in Cell
      BY <2>4, WorkbookAssumption DEF Settled, Workbook
    <3>2. r \notin OnStack
      BY <2>3 DEF OnStack
    <3>. QED
      BY <3>1, <3>2, <2>1, <1>0, AtOnceSolves
  <2>5. ChangesSolve(ref)'
    BY <2>1, <2>4, <1>0 DEF ChangesSolve
  <2>. QED
    BY <2>2, <2>3, <2>5, <1>F
<1>7. CASE UNCHANGED vars
  BY <1>7, <1>N, <1>F, <1>C DEF vars, evalVars
<1>. QED
  BY <1>1, <1>2, <1>3, <1>4, <1>5, <1>6, <1>7 DEF Next, Step

LEMMA InitInv == Init => IInv
BY InitSound, InitSettled, InitFits DEF IInv

LEMMA InvStep == IInv /\ [Next]_vars => IInv'
<1> SUFFICES ASSUME IInv, [Next]_vars PROVE IInv'
  OBVIOUS
<1>1. StackIsSound' /\ Settled'
  BY StackStep, SettledStep DEF IInv
<1>2. ASSUME NEW ref, NEW rank PROVE Fits(ref, rank)'
  BY FitsStep DEF IInv
<1>. QED
  BY <1>1, <1>2 DEF IInv

-----------------------------------------------------------------------------
\* However many targets share one memo, and in whatever order they come: where
\* formulas do not read in circles or too deep, every value memoised is the one the workbook
\* means under the overrides, and only cells whose value is another one are reported
\* (Evaluator.value_of, _scenario_recalc).  This is what MemoIsReference says of
\* the recursive Reference, for any assignment that solves the same equations.
THEOREM Recalculation ==
  Spec => [](NoneTooDeep => \A ref, rank : Solves(ref) /\ Ranks(rank) =>
                                            MemoSolves(ref) /\ ChangesSolve(ref))
<1> DEFINE Claim == NoneTooDeep => \A ref, rank :
             Solves(ref) /\ Ranks(rank) => MemoSolves(ref) /\ ChangesSolve(ref)
<1>1. Init => IInv
  BY InitInv
<1>2. IInv /\ [Next]_vars => IInv'
  BY InvStep
<1>3. IInv => Claim
  BY DEF IInv, Fits
<1>. QED
  <2>. HIDE DEF Claim
  <2>1. Spec => []Claim
    BY <1>1, <1>2, <1>3, PTL DEF Spec
  <2>. QED
    BY <2>1 DEF Claim

-----------------------------------------------------------------------------
\* Induction.  The library's principles are about operators; these are about sets.

LEMMA LeastOfSet ==
  ASSUME NEW S \in SUBSET Nat, S # {}
  PROVE  \E x \in S : \A y \in S : x <= y
<1> DEFINE R == OpToRel(<, Nat)
<1>1. IsWellFoundedOn(R, Nat)
  BY NatLessThanWellFounded
<1>2. \A x, y \in Nat : y < x => <<y, x>> \in R
  BY DEF OpToRel
<1> HIDE DEF R
<1>3. PICK x \in S : \A y \in S : ~(<<y, x>> \in R)
  BY <1>1, WFMin
<1>4. \A y \in S : ~(y < x)
  BY <1>2, <1>3
<1>5. \A m, n \in Nat : ~(n < m) => m <= n
  OBVIOUS
<1> QED
  BY <1>3, <1>4, <1>5

LEMMA StrongInduction ==
  ASSUME NEW S, \A n \in Nat : (\A m \in Nat : m < n => m \in S) => n \in S
  PROVE  Nat \subseteq S
<1> SUFFICES ASSUME Nat \ S # {} PROVE FALSE
  OBVIOUS
<1>1. PICK x \in Nat \ S : \A y \in Nat \ S : x <= y
  BY LeastOfSet
<1>2. \A m \in Nat : m < x => m \in S
  BY <1>1
<1> QED
  BY <1>1, <1>2

LEMMA SimpleInduction ==
  ASSUME NEW S, 0 \in S, \A n \in Nat : n \in S => n + 1 \in S
  PROVE  Nat \subseteq S
<1>1. ASSUME NEW n \in Nat, \A m \in Nat : m < n => m \in S PROVE n \in S
  <2>1. CASE n = 0
    BY <2>1
  <2>2. CASE n # 0
    <3>1. n - 1 \in Nat /\ n - 1 < n /\ (n - 1) + 1 = n
      BY <2>2
    <3> QED
      BY <1>1, <3>1
  <2> QED
    BY <2>1, <2>2
<1> QED
  BY <1>1, StrongInduction

\* A function on the naturals may be defined by its first value and by how each value
\* follows from the one before.
LEMMA IteratesExist ==
  ASSUME NEW D, NEW b \in D, NEW g \in [D -> D]
  PROVE  \E f \in [Nat -> D] : f[0] = b /\ \A n \in Nat : f[n + 1] = g[f[n]]
<1> DEFINE Upto(n) == {h \in [0 .. n -> D] : h[0] = b /\ \A k \in 0 .. n - 1 : h[k + 1] = g[h[k]]}
           H(n) == CHOOSE h : h \in Upto(n)
           Long == {n \in Nat : Upto(n) # {}}
           Same == {k \in Nat : \A m, n \in Nat : \A h \in Upto(m), i \in Upto(n) :
                                  k <= m /\ k <= n => h[k] = i[k]}
<1>1. Nat \subseteq Long
  <2>1. 0 \in Long
    <3>1. [k \in 0 .. 0 |-> b] \in Upto(0)
      OBVIOUS
    <3> QED
      BY <3>1
  <2>2. ASSUME NEW n \in Nat, n \in Long PROVE n + 1 \in Long
    <3>1. PICK h \in [0 .. n -> D] : h[0] = b /\ \A k \in 0 .. n - 1 : h[k + 1] = g[h[k]]
      BY <2>2
    <3> DEFINE i == [k \in 0 .. n + 1 |-> IF k = n + 1 THEN g[h[n]] ELSE h[k]]
    <3>2. i \in [0 .. n + 1 -> D]
      BY <3>1
    <3>3. i[0] = b
      BY <3>1
    <3>4. \A k \in 0 .. (n + 1) - 1 : i[k + 1] = g[i[k]]
      BY <3>1
    <3>5. i \in Upto(n + 1)
      BY <3>2, <3>3, <3>4
    <3> HIDE DEF i, Upto
    <3> QED
      BY <3>5
  <2> HIDE DEF Long
  <2> QED
    BY <2>1, <2>2, SimpleInduction
<1>2. Nat \subseteq Same
  <2>1. 0 \in Same
    OBVIOUS
  <2>2. ASSUME NEW k \in Nat, k \in Same PROVE k + 1 \in Same
    <3> SUFFICES ASSUME NEW m \in Nat, NEW n \in Nat, NEW h \in Upto(m), NEW i \in Upto(n),
                        k + 1 <= m, k + 1 <= n
                 PROVE  h[k + 1] = i[k + 1]
      OBVIOUS
    <3>1. k <= m /\ k <= n /\ k \in 0 .. m - 1 /\ k \in 0 .. n - 1
      OBVIOUS
    <3>2. h[k] = i[k]
      BY <2>2, <3>1
    <3> QED
      BY <3>1, <3>2
  <2> HIDE DEF Same
  <2> QED
    BY <2>1, <2>2, SimpleInduction
<1>3. \A n \in Nat : H(n) \in Upto(n)
  BY <1>1
<1>4. \A n \in Nat : H(n + 1)[n] = H(n)[n]
  <2> TAKE n \in Nat
  <2>1. n \in Same /\ n + 1 \in Nat /\ n <= n /\ n <= n + 1
    BY <1>2
  <2> HIDE DEF H, Upto
  <2> QED
    BY <1>3, <2>1
<1> DEFINE f == [n \in Nat |-> H(n)[n]]
<1>5. \A n \in Nat : H(n) \in [0 .. n -> D] /\ H(n)[0] = b
  BY <1>3
<1>6. \A n \in Nat : H(n + 1)[n + 1] = g[H(n + 1)[n]]
  <2> TAKE n \in Nat
  <2>0. n + 1 \in Nat /\ n \in 0 .. (n + 1) - 1
    OBVIOUS
  <2> HIDE DEF H
  <2>1. H(n + 1) \in Upto(n + 1) /\ n \in 0 .. (n + 1) - 1
    <3> HIDE DEF Upto
    <3> QED
      BY <1>3, <2>0
  <2> QED
    BY <2>1
<1> HIDE DEF H
<1>7. f \in [Nat -> D]
  BY <1>5
<1>8. f[0] = b
  BY <1>5
<1>9. ASSUME NEW n \in Nat PROVE f[n + 1] = g[f[n]]
  <2>1. f[n] = H(n)[n] /\ f[n + 1] = H(n + 1)[n + 1]
    OBVIOUS
  <2>2. H(n + 1)[n + 1] = g[H(n + 1)[n]] /\ H(n + 1)[n] = H(n)[n]
    BY <1>4, <1>6
  <2> HIDE DEF f
  <2> QED
    BY <2>1, <2>2
<1> HIDE DEF f
<1> QED
  BY <1>7, <1>8, <1>9

-----------------------------------------------------------------------------
\* A workbook without circles means something: its cells have a rank, and the recursive
\* definition of what they mean satisfies its own equation.

LEMMA LevelsExist ==
  ASSUME NEW w \in Workbook, Acyclic(w)
  PROVE  \E level \in [Nat -> SUBSET Cell] :
           /\ level[0] = Cell \ (w.formulas \cap w.held)
           /\ \A n \in Nat : level[n + 1] =
                level[n] \cup {c \in Cell : \A i \in DOMAIN w.reads[c] : w.reads[c][i] \in level[n]}
           /\ level[Cardinality(Cell)] = Cell
<1> DEFINE grow(K) == K \cup {c \in Cell : \A i \in DOMAIN w.reads[c] : w.reads[c][i] \in K}
           bottom == Cell \ (w.formulas \cap w.held)
           body(f, n) == IF n = 0 THEN bottom ELSE grow(f[n - 1])
           level == CHOOSE f : f = [n \in Nat |-> body(f, n)]
           g == [K \in SUBSET Cell |-> grow(K)]
<1>1. level[Cardinality(Cell)] = Cell
  BY DEF Acyclic
<1>2. PICK f \in [Nat -> SUBSET Cell] : f[0] = bottom /\ \A n \in Nat : f[n + 1] = g[f[n]]
  <2> DEFINE D == SUBSET Cell
  <2>1. g \in [D -> D] /\ bottom \in D
    OBVIOUS
  <2> HIDE DEF g, bottom, D, level
  <2>2. \E f \in [Nat -> D] : f[0] = bottom /\ \A n \in Nat : f[n + 1] = g[f[n]]
    BY <2>1, IteratesExist
  <2> QED
    BY <2>2 DEF D
<1>3. \A n \in Nat : f[n + 1] = grow(f[n])
  BY <1>2
<1>4. \A n \in Nat : f[n] = body(f, n)
  <2> TAKE n \in Nat
  <2>1. CASE n = 0
    BY <1>2, <2>1
  <2>2. CASE n # 0
    <3>1. n - 1 \in Nat /\ (n - 1) + 1 = n
      BY <2>2
    <3>2. f[(n - 1) + 1] = grow(f[n - 1])
      BY <1>3, <3>1
    <3> HIDE DEF grow
    <3> QED
      BY <2>2, <3>1, <3>2
  <2> QED
    BY <2>1, <2>2
<1>5. f = [n \in Nat |-> body(f, n)]
  <2> HIDE DEF body
  <2>1. f = [n \in Nat |-> f[n]]
    OBVIOUS
  <2> QED
    BY <1>4, <2>1
<1>6. level = [n \in Nat |-> body(level, n)]
  <2> HIDE DEF body
  <2> QED
    BY <1>5
<1> HIDE DEF level
<1>7. level[0] = bottom
  BY <1>6
<1>8. \A n \in Nat : level[n + 1] = grow(level[n])
  <2> TAKE n \in Nat
  <2>1. n + 1 \in Nat /\ n + 1 # 0 /\ (n + 1) - 1 = n
    OBVIOUS
  <2>2. level[n + 1] = body(level, n + 1)
    BY <1>6, <2>1
  <2> HIDE DEF grow
  <2> QED
    BY <2>1, <2>2
<1>9. Nat \subseteq {n \in Nat : level[n] \in SUBSET Cell}
  <2> DEFINE S == {n \in Nat : level[n] \in SUBSET Cell}
  <2>1. 0 \in S
    BY <1>7
  <2>2. \A n \in Nat : n \in S => n + 1 \in S
    BY <1>8
  <2> HIDE DEF S
  <2>3. Nat \subseteq S
    BY <2>1, <2>2, SimpleInduction
  <2> QED
    BY <2>3 DEF S
<1>10. level \in [Nat -> SUBSET Cell]
  <2>1. DOMAIN level = Nat /\ level = [n \in Nat |-> level[n]]
    <3> HIDE DEF body
    <3>1. DOMAIN level = Nat /\ \A n \in Nat : level[n] = body(level, n)
      BY <1>6
    <3> QED
      BY <1>6, <3>1
  <2>2. \A n \in Nat : level[n] \in SUBSET Cell
    BY <1>9
  <2> QED
    BY <2>1, <2>2
<1> QED
  BY <1>1, <1>7, <1>8, <1>10

LEMMA AcyclicRanks ==
  ASSUME NEW w \in Workbook, Acyclic(w)
  PROVE  \E rank \in [Cell -> Nat] :
           /\ \A c \in Cell : rank[c] <= Cardinality(Cell)
           /\ \A c \in w.formulas \cap w.held : \A i \in DOMAIN w.reads[c] :
                rank[w.reads[c][i]] < rank[c]
<1>1. PICK level \in [Nat -> SUBSET Cell] :
        /\ level[0] = Cell \ (w.formulas \cap w.held)
        /\ \A n \in Nat : level[n + 1] =
             level[n] \cup {c \in Cell : \A i \in DOMAIN w.reads[c] : w.reads[c][i] \in level[n]}
        /\ level[Cardinality(Cell)] = Cell
  BY LevelsExist
<1>2. Cardinality(Cell) \in Nat
  BY CellAssumption, FS_CardinalityType
<1>3. \A c \in Cell : \E n \in Nat : c \in level[n] /\ \A m \in Nat : c \in level[m] => n <= m
  <2> TAKE c \in Cell
  <2> DEFINE S == {n \in Nat : c \in level[n]}
  <2>1. S \in SUBSET Nat /\ S # {}
    BY <1>1, <1>2
  <2> HIDE DEF S
  <2>2. PICK n \in S : \A m \in S : n <= m
    BY <2>1, LeastOfSet
  <2> QED
    BY <2>2 DEF S
<1> DEFINE rank == [c \in Cell |-> CHOOSE n \in Nat : /\ c \in level[n]
                                                      /\ \A m \in Nat : c \in level[m] => n <= m]
<1>4. \A c \in Cell : /\ rank[c] \in Nat /\ c \in level[rank[c]]
                      /\ \A m \in Nat : c \in level[m] => rank[c] <= m
  BY <1>3
<1>5. rank \in [Cell -> Nat]
  BY <1>3
<1> HIDE DEF rank
<1>6. \A c \in Cell : rank[c] <= Cardinality(Cell)
  BY <1>1, <1>2, <1>4
<1>7. ASSUME NEW c \in w.formulas \cap w.held, NEW i \in DOMAIN w.reads[c]
      PROVE  rank[w.reads[c][i]] < rank[c]
  <2>1. c \in Cell /\ w.reads[c] \in Seq(Cell)
    BY DEF Workbook
  <2>2. w.reads[c][i] \in Cell
    BY <2>1, LenProperties, ElementOfSeq
  <2>3. rank[c] # 0
    BY <1>1, <1>4, <2>1
  <2>4. rank[c] - 1 \in Nat /\ (rank[c] - 1) + 1 = rank[c] /\ ~(rank[c] <= rank[c] - 1)
    BY <1>4, <2>1, <2>3
  <2>5. c \notin level[rank[c] - 1]
    BY <1>4, <2>1, <2>4
  <2>6. level[rank[c]] = level[rank[c] - 1]
          \cup {d \in Cell : \A j \in DOMAIN w.reads[d] : w.reads[d][j] \in level[rank[c] - 1]}
    BY <1>1, <2>4
  <2>7. w.reads[c][i] \in level[rank[c] - 1]
    BY <1>4, <2>1, <2>5, <2>6
  <2>8. rank[w.reads[c][i]] <= rank[c] - 1 /\ rank[w.reads[c][i]] \in Nat
    BY <1>4, <2>2, <2>4, <2>7
  <2> QED
    BY <2>4, <2>8
<1> QED
  BY <1>5, <1>6, <1>7

\* What a cell means when the cells it reads are worth what f says.
Meaning(w, ovr, old, f, c) ==
  IF c \in ovr THEN Entered(c)
  ELSE IF c \notin w.held THEN None
  ELSE IF c \notin w.formulas \/ c \in w.broken THEN old[c]
  ELSE Result(c, [i \in DOMAIN w.reads[c] |-> f[w.reads[c][i]]])

LEMMA MeaningIsOfReads ==
  ASSUME NEW w, NEW ovr, NEW old, NEW f, NEW h, NEW c,
         c \in w.formulas /\ c \in w.held =>
           \A i \in DOMAIN w.reads[c] : f[w.reads[c][i]] = h[w.reads[c][i]]
  PROVE  Meaning(w, ovr, old, f, c) = Meaning(w, ovr, old, h, c)
<1>1. c \in w.formulas /\ c \in w.held =>
        [i \in DOMAIN w.reads[c] |-> f[w.reads[c][i]]] = [i \in DOMAIN w.reads[c] |-> h[w.reads[c][i]]]
  OBVIOUS
<1> QED
  BY <1>1 DEF Meaning

LEMMA ReferenceMeans ==
  ASSUME NEW w \in Workbook, Acyclic(w), NEW ovr, NEW old
  PROVE  /\ DOMAIN Reference(w, ovr, old) = Cell
         /\ \A c \in Cell : Reference(w, ovr, old)[c] = Meaning(w, ovr, old, Reference(w, ovr, old), c)
<1> DEFINE M(f, c) == Meaning(w, ovr, old, f, c)
<1>1. PICK rank \in [Cell -> Nat] :
        /\ \A c \in Cell : rank[c] <= Cardinality(Cell)
        /\ \A c \in w.formulas \cap w.held : \A i \in DOMAIN w.reads[c] :
             rank[w.reads[c][i]] < rank[c]
  BY AcyclicRanks
<1>2. \A c \in Cell : \A i \in DOMAIN w.reads[c] : w.reads[c][i] \in Cell
  <2> TAKE c \in Cell
  <2>1. w.reads[c] \in Seq(Cell)
    BY DEF Workbook
  <2> QED
    BY <2>1, LenProperties, ElementOfSeq
\* Solutions up to a rank.
<1> DEFINE S == {n \in Nat : \E v : \A c \in Cell : rank[c] < n => v[c] = M(v, c)}
<1>3. 0 \in S
  <2>1. \A c \in Cell : ~(rank[c] < 0)
    BY <1>1
  <2> HIDE DEF M
  <2> QED
    BY <2>1
<1>4. ASSUME NEW n \in Nat, n \in S PROVE n + 1 \in S
  <2> HIDE DEF M
  <2>1. PICK v : \A c \in Cell : rank[c] < n => v[c] = M(v, c)
    BY <1>4
  <2> DEFINE h == [c \in Cell |-> M(v, c)]
  <2>2. ASSUME NEW c \in Cell, rank[c] < n + 1 PROVE h[c] = M(h, c)
    <3>1. c \in w.formulas /\ c \in w.held =>
            \A i \in DOMAIN w.reads[c] : v[w.reads[c][i]] = h[w.reads[c][i]]
      <4> SUFFICES ASSUME c \in w.formulas /\ c \in w.held, NEW i \in DOMAIN w.reads[c]
                   PROVE  v[w.reads[c][i]] = h[w.reads[c][i]]
        OBVIOUS
      <4>1. w.reads[c][i] \in Cell /\ rank[w.reads[c][i]] < rank[c]
        BY <1>1, <1>2
      <4>2. rank[w.reads[c][i]] < n
        BY <1>1, <2>2, <4>1
      <4> QED
        BY <2>1, <4>1, <4>2
    <3>2. h[c] = M(v, c)
      OBVIOUS
    <3> HIDE DEF h
    <3>3. M(v, c) = M(h, c)
      BY <3>1, MeaningIsOfReads DEF M
    <3> QED
      BY <3>2, <3>3
  <2> HIDE DEF h
  <2> QED
    BY <2>2
<1>5. PICK v : \A c \in Cell : v[c] = M(v, c)
  <2> DEFINE n == Cardinality(Cell) + 1
  <2>1. n \in Nat /\ \A c \in Cell : rank[c] < n
    BY <1>1, CellAssumption, FS_CardinalityType
  <2> HIDE DEF S, n, M
  <2>2. n \in S
    BY <1>3, <1>4, <2>1, SimpleInduction
  <2> QED
    BY <2>1, <2>2 DEF S
<1> DEFINE f == [c \in Cell |-> v[c]]
<1>6. \A c \in Cell : f[c] = M(f, c)
  <2> TAKE c \in Cell
  <2>1. \A i \in DOMAIN w.reads[c] : v[w.reads[c][i]] = f[w.reads[c][i]]
    BY <1>2
  <2>2. f[c] = v[c]
    OBVIOUS
  <2> HIDE DEF f, M
  <2>3. M(v, c) = M(f, c)
    BY <2>1, MeaningIsOfReads DEF M
  <2> QED
    BY <1>5, <2>2, <2>3
<1>7. f = [c \in Cell |-> M(f, c)]
  <2>1. f = [c \in Cell |-> f[c]]
    OBVIOUS
  <2> HIDE DEF f, M
  <2> QED
    BY <1>6, <2>1
<1>8. Reference(w, ovr, old) = CHOOSE val : val = [c \in Cell |-> M(val, c)]
  BY DEF Reference, Meaning
<1> HIDE DEF f, M
<1>9. Reference(w, ovr, old) = [c \in Cell |-> M(Reference(w, ovr, old), c)]
  BY <1>7, <1>8
<1>10. DOMAIN Reference(w, ovr, old) = Cell
       /\ \A c \in Cell : Reference(w, ovr, old)[c] = M(Reference(w, ovr, old), c)
  BY <1>9
<1> QED
  BY <1>10 DEF M

LEMMA ReferenceSolves ==
  ASSUME Settled, Acyclic(wb)
  PROVE  Solves(Reference(wb, overrides, cached)) /\ \E rank : Ranks(rank)
<1>1. wb \in Workbook
  BY WorkbookAssumption DEF Settled
<1>2. Solves(Reference(wb, overrides, cached))
  BY <1>1, ReferenceMeans DEF Solves, Meaning
<1>3. PICK rank \in [Cell -> Nat] :
        \A c \in wb.formulas \cap wb.held : \A i \in DOMAIN wb.reads[c] :
          rank[wb.reads[c][i]] < rank[c]
  BY <1>1, AcyclicRanks
<1>4. Ranks(rank)
  BY <1>3 DEF Ranks
<1> QED
  BY <1>2, <1>4

\* However many targets share one memo, and in whatever order they come: on a workbook
\* without circular references, what is memoised is what the formulas mean under the
\* overrides (Evaluator.value_of).
THEOREM MemoMeaning == Spec => []MemoIsReference
<1>1. IInv => MemoIsReference
  <2> SUFFICES ASSUME IInv, Acyclic(wb), NoneTooDeep, NEW c \in DOMAIN memo
               PROVE  memo[c] = Reference(wb, overrides, cached)[c]
    BY DEF MemoIsReference
  <2>1. PICK rank : Ranks(rank)
    BY ReferenceSolves DEF IInv
  <2>2. Solves(Reference(wb, overrides, cached))
    BY ReferenceSolves DEF IInv
  <2>3. Fits(Reference(wb, overrides, cached), rank)
    BY DEF IInv
  <2> QED
    BY <2>1, <2>2, <2>3 DEF Fits, MemoSolves
<1> QED
  BY <1>1, InitInv, InvStep, PTL DEF Spec

-----------------------------------------------------------------------------
\* What was asked for is taken.

\* A cell is asked for once, in a scenario one the traces found; the parser has none of the values it asks for.
Orderly ==
  /\ todo \cup current \subseteq Cell /\ todo \cap current = {}
  /\ \A r, s \in current : r = s
  /\ phase = "impact" => mode = "scenario" /\ todo = {} /\ current = {}
  /\ phase = "done" => todo = {} /\ current = {}
  /\ mode # "precompute" => cached = SavedValues(wb) /\ overrides \subseteq wb.held
  /\ mode = "precompute" => overrides = {} /\ \A c \in todo \cup current : cached[c] = None
  /\ impacted \subseteq Cell
  /\ mode = "scenario" => todo \cup current \cup changed \subseteq impacted

\* What is no longer asked for is filled in, or reported if it is another value.
Taken(ref, rank) ==
  NoneTooDeep /\ Solves(ref) /\ Ranks(rank) =>
    /\ mode = "precompute" => \A c \in wb.unsaved \ (todo \cup current) : cached[c] = ref[c]
    /\ mode = "scenario" /\ phase # "impact" =>
         \A c \in impacted \ (todo \cup current) : c \in wb.held /\ ref[c] # cached[c] => c \in changed

LEMMA InitOrderly == Init => Orderly /\ \A ref, rank : Taken(ref, rank)
<1> SUFFICES ASSUME Init PROVE Orderly /\ \A ref, rank : Taken(ref, rank)
  OBVIOUS
<1>1. wb \in Workbook /\ impacted = {} /\ current = {} /\ changed = {} /\ cached = SavedValues(wb)
  BY WorkbookAssumption DEF Init, ScenarioInit, PrecomputeInit, Idle
<1>2. wb.unsaved \subseteq Cell /\ \A c \in wb.unsaved : cached[c] = None
  BY <1>1 DEF Workbook, SavedValues
<1>3. CASE ScenarioInit
  BY <1>1, <1>3 DEF ScenarioInit, Orderly, Taken
<1>4. CASE PrecomputeInit
  BY <1>1, <1>2, <1>4 DEF PrecomputeInit, Orderly, Taken
<1> QED
  BY <1>3, <1>4 DEF Init

\* What the answer to a question does.
LEMMA TakeDoes ==
  ASSUME Orderly, Take
  PROVE  \E r \in current \cap Cell :
           /\ AtOnce(r) # <<>> /\ stack = <<>> /\ phase = "eval" /\ current = {r}
           /\ current' = {} /\ UNCHANGED <<wb, overrides, mode, phase, impacted, todo>>
           /\ mode = "precompute" =>
                cached' = [cached EXCEPT ![r] = IF AtOnce(r)[1] # None THEN AtOnce(r)[1] ELSE @]
           /\ mode # "precompute" =>
                /\ UNCHANGED cached
                /\ changed' = IF r \in wb.held /\ AtOnce(r)[1] # cached[r]
                              THEN changed \cup {r} ELSE changed
<1>1. PICK r \in current :
        /\ AtOnce(r) # <<>>
        /\ LET v == AtOnce(r)[1]
           IN  IF mode = "precompute"
               THEN /\ cached' = [cached EXCEPT ![r] = IF v # None THEN v ELSE @]
                    /\ UNCHANGED changed
               ELSE /\ changed' = IF r \in wb.held /\ v # cached[r]
                                  THEN changed \cup {r} ELSE changed
                    /\ UNCHANGED cached
  BY DEF Take
<1>2. current = {r} /\ r \in Cell
  BY <1>1 DEF Orderly
<1> QED
  BY <1>1, <1>2 DEF Take, graphVars

\* The other steps by what they do to questions and answers.
LEMMA QuestionsMove ==
  ASSUME Orderly, [Next]_vars, ~Take
  PROVE  /\ UNCHANGED <<wb, overrides, mode, cached, changed>>
         /\ \/ phase = "impact" /\ phase' = "impact" /\ UNCHANGED <<todo, current>>
            \/ /\ phase = "impact" /\ phase' = "eval" /\ todo' = impacted
               /\ UNCHANGED <<current, impacted>>
            \/ /\ phase' = phase /\ UNCHANGED impacted
               /\ \E r \in todo : current = {} /\ current' = {r} /\ todo' = todo \ {r}
                                  /\ phase = "eval"
            \/ phase' = phase /\ UNCHANGED <<todo, current, impacted>>
            \/ /\ phase = "eval" /\ phase' = "done" /\ todo = {} /\ current = {}
               /\ UNCHANGED <<todo, current, impacted>>
<1>1. ASSUME NEW c, StartTrace(c) \/ Visit
      PROVE  /\ UNCHANGED <<wb, overrides, mode, cached, changed, todo, current>>
             /\ phase = "impact" /\ phase' = "impact"
  BY <1>1 DEF StartTrace, Visit
<1>2. ASSUME TracesDone
      PROVE  /\ UNCHANGED <<wb, overrides, mode, cached, changed, current, impacted>>
             /\ phase = "impact" /\ phase' = "eval" /\ todo' = impacted
  BY <1>2 DEF TracesDone, graphVars
<1>3. ASSUME NEW r, AskFor(r)
      PROVE  /\ UNCHANGED <<wb, overrides, mode, phase, cached, changed, impacted>>
             /\ r \in todo /\ current = {} /\ current' = {r} /\ todo' = todo \ {r} /\ phase = "eval"
  BY <1>3 DEF AskFor, graphVars
<1>4. ASSUME NEW r, Read(r) \/ Enter(r) \/ Compute \/ Raise \/ UNCHANGED vars
      PROVE  UNCHANGED <<wb, overrides, mode, phase, cached, changed, todo, current, impacted>>
  BY <1>4 DEF Read, Enter, Compute, Raise, vars, graphVars
<1>5. ASSUME Respond
      PROVE  /\ UNCHANGED <<wb, overrides, mode, cached, changed, todo, current, impacted>>
             /\ phase = "eval" /\ phase' = "done" /\ todo = {} /\ current = {}
  BY <1>5 DEF Respond, graphVars
<1> QED
  BY <1>1, <1>2, <1>3, <1>4, <1>5 DEF Next, Step

LEMMA ImpactedStep ==
  ASSUME Settled, impacted \subseteq Cell, [Next]_vars
  PROVE  impacted' \subseteq Cell /\ impacted \subseteq impacted'
<1>1. CASE Visit
  <2>1. wb.held \subseteq Cell
    BY WorkbookAssumption DEF Settled, Workbook
  <2>2. \E next : impacted' = impacted \cup next /\ next \subseteq wb.held
    BY <1>1 DEF Visit, Dependents
  <2> QED
    BY <2>1, <2>2
<1>2. CASE ~Visit
  <2>1. UNCHANGED impacted
    BY <1>2 DEF Next, Step, StartTrace, TracesDone, AskFor, Read, Enter, Compute, Raise, Take,
                Respond, vars, graphVars
  <2> QED
    BY <2>1
<1> QED
  BY <1>1, <1>2

LEMMA OrderlyStep == Settled /\ Orderly /\ [Next]_vars => Orderly'
<1> SUFFICES ASSUME Settled, Orderly, [Next]_vars PROVE Orderly'
  OBVIOUS
<1>0. impacted \subseteq Cell /\ impacted' \subseteq Cell /\ impacted \subseteq impacted'
  BY ImpactedStep DEF Orderly
<1>1. CASE Take
  BY <1>0, <1>1, TakeDoes DEF Orderly, Settled
<1>2. CASE ~Take
  <2> DEFINE Fixed == UNCHANGED <<wb, overrides, mode, cached, changed>>
  <2>0. Fixed
    BY <1>2, QuestionsMove
  <2>1. CASE phase = "impact" /\ phase' = "impact" /\ UNCHANGED <<todo, current>>
    BY <1>0, <2>0, <2>1 DEF Orderly
  <2>2. CASE /\ phase = "impact" /\ phase' = "eval" /\ todo' = impacted
             /\ UNCHANGED <<current, impacted>>
    BY <1>0, <2>0, <2>2 DEF Orderly
  <2>3. CASE /\ phase' = phase /\ UNCHANGED impacted
             /\ \E r \in todo : current = {} /\ current' = {r} /\ todo' = todo \ {r}
                                /\ phase = "eval"
    BY <1>0, <2>0, <2>3 DEF Orderly
  <2>4. CASE \/ phase' = phase /\ UNCHANGED <<todo, current, impacted>>
             \/ /\ phase = "eval" /\ phase' = "done" /\ todo = {} /\ current = {}
                /\ UNCHANGED <<todo, current, impacted>>
    BY <1>0, <2>0, <2>4 DEF Orderly
  <2> QED
    BY <1>2, <2>1, <2>2, <2>3, <2>4, QuestionsMove
<1> QED
  BY <1>1, <1>2

LEMMA TakenStep ==
  ASSUME IInv, Orderly, [Next]_vars, NEW ref, NEW rank, Taken(ref, rank)
  PROVE  Taken(ref, rank)'
<1>0. Settled /\ StackIsSound /\ Fits(ref, rank)
  BY DEF IInv
<1> SUFFICES ASSUME NoneTooDeep, Solves(ref), Ranks(rank)
             PROVE  /\ (mode = "precompute" =>
                          \A c \in wb.unsaved \ (todo \cup current) : cached[c] = ref[c])'
                    /\ (mode = "scenario" /\ phase # "impact" =>
                          \A c \in impacted \ (todo \cup current) :
                            c \in wb.held /\ ref[c] # cached[c] => c \in changed)'
  BY <1>0, SolutionsKept, RanksKept, DeepKept DEF Taken
<1>1. /\ mode = "precompute" => \A c \in wb.unsaved \ (todo \cup current) : cached[c] = ref[c]
      /\ mode = "scenario" /\ phase # "impact" =>
           \A c \in impacted \ (todo \cup current) : c \in wb.held /\ ref[c] # cached[c] => c \in changed
      /\ MemoSolves(ref)
  BY <1>0 DEF Taken, Fits
<1>2. CASE Take
  <2>1. PICK r \in current \cap Cell :
          /\ AtOnce(r) # <<>> /\ stack = <<>> /\ phase = "eval" /\ current = {r}
          /\ current' = {} /\ UNCHANGED <<wb, overrides, mode, phase, impacted, todo>>
          /\ mode = "precompute" =>
               cached' = [cached EXCEPT ![r] = IF AtOnce(r)[1] # None THEN AtOnce(r)[1] ELSE @]
          /\ mode # "precompute" =>
               /\ UNCHANGED cached
               /\ changed' = IF r \in wb.held /\ AtOnce(r)[1] # cached[r]
                             THEN changed \cup {r} ELSE changed
    BY <1>2, TakeDoes
  <2>2. r \notin OnStack
    BY <2>1 DEF OnStack
  <2>3. AtOnce(r)[1] = ref[r]
    BY <1>0, <1>1, <2>1, <2>2, AtOnceSolves
  <2>4. ASSUME mode = "precompute", NEW c \in wb.unsaved \ todo
        PROVE  cached'[c] = ref[c]
    <3>1. cached[r] = None /\ r \in DOMAIN cached
      BY <2>1, <2>4, <1>0 DEF Orderly, Settled
    <3>2. CASE c = r
      BY <2>1, <2>3, <2>4, <3>1, <3>2
    <3>3. CASE c # r
      <4>1. c \in DOMAIN cached
        BY <1>0, WorkbookAssumption DEF Settled, Workbook
      <4>2. cached'[c] = cached[c]
        BY <2>1, <2>4, <3>3, <4>1
      <4> QED
        BY <1>1, <2>1, <2>4, <3>3, <4>2
    <3> QED
      BY <3>2, <3>3
  <2>5. ASSUME mode = "scenario", NEW c \in impacted \ todo, c \in wb.held, ref[c] # cached[c]
        PROVE  c \in changed'
    <3>1. CASE c = r
      BY <2>1, <2>3, <2>5, <3>1
    <3>2. CASE c # r
      BY <1>1, <2>1, <2>5, <3>2
    <3> QED
      BY <3>1, <3>2
  <2> QED
    BY <2>1, <2>4, <2>5
<1>3. CASE ~Take
  <2>0. UNCHANGED <<wb, overrides, mode, cached, changed>>
    BY <1>3, QuestionsMove
  <2>1. CASE phase = "impact" /\ phase' = "impact" /\ UNCHANGED <<todo, current>>
    BY <2>0, <2>1 DEF Orderly
  <2>2. CASE /\ phase = "impact" /\ phase' = "eval" /\ todo' = impacted
             /\ UNCHANGED <<current, impacted>>
    BY <2>0, <2>2 DEF Orderly
  <2>3. CASE /\ phase' = phase /\ UNCHANGED impacted
             /\ \E r \in todo : current = {} /\ current' = {r} /\ todo' = todo \ {r}
                                /\ phase = "eval"
    BY <1>1, <2>0, <2>3
  <2>4. CASE \/ phase' = phase /\ UNCHANGED <<todo, current, impacted>>
             \/ /\ phase = "eval" /\ phase' = "done" /\ todo = {} /\ current = {}
                /\ UNCHANGED <<todo, current, impacted>>
    BY <1>1, <2>0, <2>4
  <2> QED
    BY <1>3, <2>1, <2>2, <2>3, <2>4, QuestionsMove
<1> QED
  BY <1>2, <1>3

JInv == IInv /\ Orderly /\ \A ref, rank : Taken(ref, rank)

LEMMA InitJ == Init => JInv
BY InitInv, InitOrderly DEF JInv

LEMMA StepJ == JInv /\ [Next]_vars => JInv'
<1> SUFFICES ASSUME JInv, [Next]_vars PROVE JInv'
  OBVIOUS
<1>1. IInv' /\ Orderly'
  BY InvStep, OrderlyStep DEF JInv, IInv
<1>2. ASSUME NEW ref, NEW rank PROVE Taken(ref, rank)'
  BY TakenStep DEF JInv
<1> QED
  BY <1>1, <1>2 DEF JInv

\* In whatever order the parser asks for the values that are missing, and though it writes
\* each into its cell before it asks for the next: a workbook without circular references
\* ends with the values its formulas mean (_precompute_missing_values).
THEOREM Precomputation == Spec => []PrecomputeIsReference
<1>1. JInv => PrecomputeIsReference
  <2> SUFFICES ASSUME JInv, phase = "done", mode = "precompute", Acyclic(wb), NoneTooDeep,
                      NEW c \in wb.unsaved
               PROVE  cached[c] = Reference(wb, {}, cached)[c]
    BY DEF PrecomputeIsReference
  <2>1. overrides = {} /\ todo = {} /\ current = {}
    BY DEF JInv, Orderly
  <2>2. Solves(Reference(wb, overrides, cached)) /\ \E rank : Ranks(rank)
    BY ReferenceSolves DEF JInv, IInv
  <2>3. PICK rank : Ranks(rank)
    BY <2>2
  <2>4. Taken(Reference(wb, overrides, cached), rank)
    BY DEF JInv
  <2> QED
    BY <2>1, <2>2, <2>3, <2>4 DEF Taken
<1> QED
  BY <1>1, InitJ, StepJ, PTL DEF Spec

-----------------------------------------------------------------------------
\* The forward trace.

\* The cells that are a number of steps away, from those that are fewer.
LEMMA WithinGrows ==
  ASSUME NEW w \in Workbook, NEW o \in Cell, NEW n \in Nat
  PROVE  /\ Within(w, o, 0) = {o}
         /\ Within(w, o, n) \subseteq Within(w, o, n + 1)
         /\ \A d \in Within(w, o, n) : Dependents(w, d) \subseteq Within(w, o, n + 1)
         /\ \A c \in Within(w, o, n + 1) :
              c \in Within(w, o, n) \/ \E d \in Within(w, o, n) : c \in Dependents(w, d)
<1>0. \A d : Dependents(w, d) \subseteq Cell
  BY DEF Dependents, Workbook
<1>1. Within(w, o, 0) = {o}
  <2>1. ASSUME NEW c \in Within(w, o, 0) PROVE c = o
    BY <2>1 DEF Within
  <2>2. o \in Within(w, o, 0)
    <3> DEFINE path == [i \in 0 .. 0 |-> o]
    <3>1. path \in [0 .. 0 -> Cell] /\ path[0] = o
      OBVIOUS
    <3>2. \A i \in 1 .. 0 : path[i] \in Dependents(w, path[i - 1])
      OBVIOUS
    <3> HIDE DEF path
    <3>3. 0 \in 0 .. 0
      OBVIOUS
    <3> QED
      BY <3>1, <3>2, <3>3 DEF Within
  <2> QED
    BY <2>1, <2>2
<1>2. Within(w, o, n) \subseteq Within(w, o, n + 1)
  <2>1. 0 .. n \subseteq 0 .. n + 1
    OBVIOUS
  <2> QED
    BY <2>1 DEF Within
<1>3. ASSUME NEW d \in Within(w, o, n), NEW c \in Dependents(w, d) PROVE c \in Within(w, o, n + 1)
  <2>0. PICK k \in 0 .. n : \E p \in [0 .. k -> Cell] :
          /\ p[0] = o /\ p[k] = d
          /\ \A i \in 1 .. k : p[i] \in Dependents(w, p[i - 1])
    BY DEF Within
  <2>1. PICK p \in [0 .. k -> Cell] :
          /\ p[0] = o /\ p[k] = d
          /\ \A i \in 1 .. k : p[i] \in Dependents(w, p[i - 1])
    BY <2>0
  <2> DEFINE q == [i \in 0 .. k + 1 |-> IF i = k + 1 THEN c ELSE p[i]]
  <2>2. k + 1 \in 0 .. n + 1 /\ k \in Nat
    OBVIOUS
  <2>3. q \in [0 .. k + 1 -> Cell]
    BY <1>0, <2>2
  <2>4. q[0] = o /\ q[k + 1] = c /\ q[k] = d
    BY <2>1, <2>2
  <2>5. ASSUME NEW i \in 1 .. k + 1 PROVE q[i] \in Dependents(w, q[i - 1])
    <3>1. CASE i = k + 1
      BY <2>2, <2>4, <3>1
    <3>2. CASE i # k + 1
      <4>1. i \in 1 .. k /\ i - 1 \in 0 .. k /\ i \in 0 .. k
        BY <2>2, <3>2
      <4>2. q[i] = p[i] /\ q[i - 1] = p[i - 1]
        BY <2>2, <4>1
      <4> QED
        BY <2>1, <4>1, <4>2
    <3> QED
      BY <3>1, <3>2
  <2> HIDE DEF q
  <2>6. \E j \in 0 .. n + 1 : \E path \in [0 .. j -> Cell] :
          /\ path[0] = o /\ path[j] = c
          /\ \A i \in 1 .. j : path[i] \in Dependents(w, path[i - 1])
    BY <2>2, <2>3, <2>4, <2>5
  <2>7. c \in Cell
    BY <1>0
  <2> QED
    BY <2>6, <2>7 DEF Within
<1>4. ASSUME NEW c \in Within(w, o, n + 1)
      PROVE  c \in Within(w, o, n) \/ \E d \in Within(w, o, n) : c \in Dependents(w, d)
  <2>0. PICK k \in 0 .. n + 1 : \E p \in [0 .. k -> Cell] :
          /\ p[0] = o /\ p[k] = c
          /\ \A i \in 1 .. k : p[i] \in Dependents(w, p[i - 1])
    BY DEF Within
  <2>1. PICK p \in [0 .. k -> Cell] :
          /\ p[0] = o /\ p[k] = c
          /\ \A i \in 1 .. k : p[i] \in Dependents(w, p[i - 1])
    BY <2>0
  <2>2. CASE k = 0
    <3>1. k \in 0 .. n
      BY <2>2
    <3> QED
      BY <2>1, <3>1 DEF Within
  <2>3. CASE k # 0
    <3> DEFINE q == [i \in 0 .. k - 1 |-> p[i]]
               d == p[k - 1]
    <3>1. k - 1 \in 0 .. n /\ k - 1 \in 0 .. k /\ k \in 1 .. k
      BY <2>3
    <3>2. \A i \in 0 .. k - 1 : i \in 0 .. k /\ q[i] = p[i]
      BY <3>1
    <3>3. q \in [0 .. k - 1 -> Cell] /\ q[0] = o /\ q[k - 1] = d /\ d \in Cell
      BY <2>1, <3>1, <3>2
    <3>4. ASSUME NEW i \in 1 .. k - 1 PROVE q[i] \in Dependents(w, q[i - 1])
      <4>1. i \in 1 .. k /\ i \in 0 .. k - 1 /\ i - 1 \in 0 .. k - 1
        BY <3>1
      <4> QED
        BY <2>1, <3>2, <4>1
    <3>5. c \in Dependents(w, d)
      BY <2>1, <3>1
    <3> HIDE DEF q, d
    <3>6. d \in Within(w, o, n)
      BY <3>1, <3>3, <3>4 DEF Within
    <3> QED
      BY <3>5, <3>6
  <2> QED
    BY <2>2, <2>3
<1> QED
  BY <1>1, <1>2, <1>3, <1>4

\* No cell is further away than the cells no others depend on.
LEMMA WithinClosed ==
  ASSUME NEW w \in Workbook, NEW o \in Cell, NEW h \in Nat,
         \A d \in Within(w, o, h) : Dependents(w, d) \subseteq Within(w, o, h), NEW n \in Nat
  PROVE  Within(w, o, n) \subseteq Within(w, o, h)
<1> DEFINE Grows == {m \in Nat : o \in Within(w, o, m)}
           S == {m \in Nat : Within(w, o, m) \subseteq Within(w, o, h)}
<1>1. h \in Grows
  <2>1. 0 \in Grows
    BY WithinGrows
  <2>2. ASSUME NEW m \in Nat, m \in Grows PROVE m + 1 \in Grows
    BY <2>2, WithinGrows
  <2> HIDE DEF Grows
  <2> QED
    BY <2>1, <2>2, SimpleInduction
<1>2. 0 \in S
  BY <1>1, WithinGrows
<1>3. ASSUME NEW m \in Nat, m \in S PROVE m + 1 \in S
  <2>1. \A c \in Within(w, o, m + 1) :
          c \in Within(w, o, m) \/ \E d \in Within(w, o, m) : c \in Dependents(w, d)
    BY WithinGrows
  <2> QED
    BY <1>3, <2>1
<1> HIDE DEF S
<1>4. n \in S
  BY <1>2, <1>3, SimpleInduction
<1> QED
  BY <1>4 DEF S

\* What is n steps away is no further than m, if m is more.
LEMMA WithinMonotonic ==
  ASSUME NEW w, NEW o, NEW m \in Nat, NEW n \in 0 .. m
  PROVE  Within(w, o, n) \subseteq Within(w, o, m)
<1>1. 0 .. n \subseteq 0 .. m
  OBVIOUS
<1> QED
  BY <1>1 DEF Within

QueuedAt(n) == {queue[i].cell : i \in {j \in DOMAIN queue : queue[j].depth = n}}

\* The queue is the trace of o, whose head is h steps away: cells that far and then cells
\* one step further.  What is no further than the head was seen, and what depends on it,
\* unless it is still in the queue; what else was seen is in the queue.
TracingAt(o, h) ==
  /\ queue # <<>> /\ queue[1].depth = h /\ o \in overrides \ sources
  /\ \A i \in DOMAIN queue : /\ queue[i].depth \in {h, h + 1} /\ queue[i].depth <= MaxDepth
                             /\ queue[i].cell \in Within(wb, o, queue[i].depth)
  /\ \A i, j \in DOMAIN queue : i < j => queue[i].depth <= queue[j].depth
  /\ Within(wb, o, h) \subseteq seen
  /\ \A d \in Within(wb, o, h) :
       h < MaxDepth => d \in QueuedAt(h) \/ Dependents(wb, d) \subseteq seen
  /\ seen \subseteq Within(wb, o, h) \cup QueuedAt(h + 1)
  /\ seen \subseteq impacted \cup {o}

Tracing(o) == \E h \in 0 .. MaxDepth : TracingAt(o, h)

Traced(o) == Within(wb, o, MaxDepth) \subseteq impacted \cup {o}

TraceIsTyped ==
  /\ queue \in Seq([cell : Cell, depth : Nat])
  /\ sources \subseteq overrides /\ overrides \subseteq Cell
  /\ mode # "precompute" => overrides \subseteq wb.held
  /\ mode = "scenario" /\ phase # "impact" => queue = <<>> /\ sources = {}

\* The traces find cells in reach and no others; an override not waiting to be traced is
\* being traced or all in its reach was found.
TraceIsSound ==
  /\ TraceIsTyped
  /\ impacted \subseteq InReach
  /\ mode = "scenario" => \A o \in overrides \ sources : Tracing(o) \/ Traced(o)
  /\ queue # <<>> => mode = "scenario" /\ \E o \in overrides : Tracing(o)

LEMMA InitTrace == Init => TraceIsSound
<1> SUFFICES ASSUME Init PROVE TraceIsSound
  OBVIOUS
<1>1. queue = <<>> /\ impacted = {} /\ sources \subseteq overrides
  BY DEF Init, ScenarioInit, PrecomputeInit, Idle
<1>2. /\ mode # "precompute" => overrides \subseteq wb.held
      /\ mode = "precompute" => overrides = {}
      /\ mode = "scenario" => phase = "impact" /\ sources = overrides
  BY DEF Init, ScenarioInit, PrecomputeInit
<1>3. wb.held \subseteq Cell
  BY WorkbookAssumption DEF Init, ScenarioInit, PrecomputeInit, Workbook
<1>4. overrides \subseteq Cell
  BY <1>2, <1>3 DEF Init, ScenarioInit, PrecomputeInit
<1> QED
  BY <1>1, <1>2, <1>4 DEF TraceIsSound, TraceIsTyped

\* What the visit of the head of the queue puts into it.
Joining == IF queue[1].depth >= MaxDepth THEN {} ELSE Dependents(wb, queue[1].cell) \ seen

\* One round of the loop: the head leaves the queue, its dependents not seen before join
\* it at its end.
LEMMA VisitDoes ==
  ASSUME Settled, TraceIsTyped, Visit
  PROVE  /\ phase = "impact" /\ queue # <<>> /\ Joining \subseteq Cell
         /\ seen' = seen \cup Joining /\ impacted' = impacted \cup Joining
         /\ UNCHANGED <<wb, overrides, mode, phase, sources>>
         /\ queue' \in Seq([cell : Cell, depth : Nat])
         /\ queue[1] \in [cell : Cell, depth : Nat]
         /\ \E l, m \in Nat :
              /\ DOMAIN queue = 1 .. l + 1 /\ DOMAIN queue' = 1 .. l + m
              /\ \A i \in 1 .. l : queue'[i] = queue[i + 1]
              /\ \A i \in 1 .. m : /\ queue'[l + i].cell \in Joining
                                   /\ queue'[l + i].depth = queue[1].depth + 1
              /\ \A x \in Joining : \E i \in 1 .. m : queue'[l + i].cell = x
<1> DEFINE head == queue[1]
           next == IF head.depth >= MaxDepth THEN {} ELSE Dependents(wb, head.cell) \ seen
           Q == [cell : Cell, depth : Nat]
           entry(c) == [cell |-> c, depth |-> head.depth + 1]
<1>1. PICK order \in [1 .. Cardinality(next) -> next] :
        /\ \A i, j \in DOMAIN order : order[i] = order[j] => i = j
        /\ queue' = Tail(queue) \o [i \in DOMAIN order |-> entry(order[i])]
  BY DEF Visit
<1>2. /\ phase = "impact" /\ queue # <<>>
      /\ seen' = seen \cup next /\ impacted' = impacted \cup next
      /\ UNCHANGED <<wb, overrides, mode, phase, sources>>
  BY DEF Visit
<1>3. next \subseteq Cell
  <2>1. wb.held \subseteq Cell
    BY WorkbookAssumption DEF Settled, Workbook
  <2> QED
    BY <2>1 DEF Dependents
<1> HIDE DEF next
<1>4. IsFiniteSet(next) /\ Cardinality(next) \in Nat
  BY <1>3, CellAssumption, FS_Subset, FS_CardinalityType
\* An order without repetition is one of all of them.
<1>5. \A c \in next : \E i \in 1 .. Cardinality(next) : order[i] = c
  <2>1. order \in Injection(1 .. Cardinality(next), next)
    BY <1>1 DEF Injection, IsInjective
  <2>2. Cardinality(1 .. Cardinality(next)) = Cardinality(next)
    BY <1>4, FS_Interval
  <2>3. order \in Surjection(1 .. Cardinality(next), next)
    BY <1>4, <2>1, <2>2, FS_Injection
  <2> QED
    BY <2>3 DEF Surjection
<1>6. queue \in Seq(Q) /\ Len(queue) \in Nat \ {0} /\ DOMAIN queue = 1 .. Len(queue)
  BY <1>2, EmptySeq, LenProperties DEF TraceIsTyped
<1>7. head \in Q /\ 1 \in DOMAIN queue /\ head.depth \in Nat
  <2>1. 1 \in DOMAIN queue /\ 1 \in 1 .. Len(queue)
    BY <1>6
  <2>2. queue[1] \in Q
    <3> HIDE DEF Q
    <3> QED
      BY <1>6, <2>1, ElementOfSeq
  <2> QED
    BY <2>1, <2>2
<1> DEFINE new == [i \in 1 .. Cardinality(next) |-> entry(order[i])]
           rest == Tail(queue)
<1>9. queue' = rest \o new
  <2>1. DOMAIN order = 1 .. Cardinality(next)
    OBVIOUS
  <2> QED
    BY <1>1, <2>1
<1>10. /\ new \in Seq(Q) /\ Len(new) = Cardinality(next)
       /\ \A i \in 1 .. Cardinality(next) : new[i] = entry(order[i])
  <2>1. \A i \in 1 .. Cardinality(next) : order[i] \in Cell
    BY <1>3
  <2>2. \A i \in 1 .. Cardinality(next) : entry(order[i]) \in Q
    BY <1>7, <2>1
  <2> HIDE DEF entry
  <2>3. new \in [1 .. Cardinality(next) -> Q]
    BY <2>2
  <2>4. new \in Seq(Q)
    <3> HIDE DEF new, Q
    <3>1. \E n \in Nat : new \in [1 .. n -> Q]
      BY <1>4, <2>3
    <3> QED
      BY <3>1, SeqDef
  <2> QED
    BY <1>4, <2>3, <2>4, LenProperties
<1>11. /\ rest \in Seq(Q) /\ Len(rest) = Len(queue) - 1
       /\ \A i \in 1 .. Len(queue) - 1 : rest[i] = queue[i + 1]
  BY <1>2, <1>6, HeadTailProperties
<1> DEFINE l == Len(queue) - 1
           m == Cardinality(next)
<1>12. l \in Nat /\ m \in Nat /\ Len(rest) = l /\ Len(new) = m
  BY <1>4, <1>6, <1>10, <1>11
<1> HIDE DEF new, rest, l, m, head
<1>13. /\ queue' \in Seq(Q) /\ DOMAIN queue' = 1 .. l + m
       /\ \A i \in 1 .. l : queue'[i] = rest[i]
       /\ \A i \in 1 .. m : queue'[l + i] = new[i]
       /\ \A i \in 1 .. l + m : i \in 1 .. l \/ \E j \in 1 .. m : i = l + j
  <2>1. queue' \in Seq(Q) /\ Len(queue') = l + m
        /\ \A i \in 1 .. l + m : queue'[i] = IF i <= l THEN rest[i] ELSE new[i - l]
    BY <1>9, <1>10, <1>11, <1>12, ConcatProperties
  <2>2. \A i \in 1 .. l + m : i \in 1 .. l \/ (i - l \in 1 .. m /\ i = l + (i - l))
    BY <1>12
  <2>3. \A i \in 1 .. m : l + i \in 1 .. l + m /\ ~(l + i <= l) /\ (l + i) - l = i
    BY <1>12
  <2>4. \A i \in 1 .. l : i \in 1 .. l + m /\ i <= l
    BY <1>12
  <2> QED
    BY <2>1, <2>2, <2>3, <2>4, LenProperties
<1>14. \A i \in 1 .. l : queue'[i] = queue[i + 1] /\ i + 1 \in DOMAIN queue
  BY <1>6, <1>11, <1>13 DEF l
<1>15. ASSUME NEW i \in 1 .. m
       PROVE  /\ queue'[l + i].cell = order[i] /\ order[i] \in next
              /\ queue'[l + i].depth = head.depth + 1 /\ next # {}
  <2>1. queue'[l + i] = entry(order[i])
    BY <1>10, <1>13 DEF m
  <2>2. order[i] \in next
    BY DEF m
  <2> QED
    BY <2>1, <2>2
<1>16. DOMAIN queue = 1 .. l + 1
  BY <1>6 DEF l
<1>17. ASSUME NEW c \in next PROVE \E i \in 1 .. m : queue'[l + i].cell = c
  <2>1. PICK i \in 1 .. m : order[i] = c
    BY <1>5 DEF m
  <2> QED
    BY <1>15, <2>1
<1>18. \A i \in 1 .. m : queue'[l + i].cell \in next /\ queue'[l + i].depth = head.depth + 1
  BY <1>15
<1>19. head = queue[1] /\ next = Joining
  BY DEF head, next, Joining
<1>20. head \in Q /\ queue' \in Seq(Q) /\ Q = [cell : Cell, depth : Nat]
  BY <1>7, <1>13 DEF Q
<1> HIDE DEF Q
<1> QED
  BY <1>2, <1>3, <1>12, <1>13, <1>14, <1>16, <1>17, <1>18, <1>19, <1>20

\* A round takes the trace of o on by one cell, or ends it with all in its reach found.
LEMMA TracingStep ==
  ASSUME Settled, TraceIsTyped, Visit, NEW o, Tracing(o)
  PROVE  /\ Tracing(o)' \/ (queue' = <<>> /\ Traced(o)')
         /\ impacted' \subseteq impacted \cup Within(wb, o, MaxDepth)
<1>0. PICK h \in 0 .. MaxDepth : TracingAt(o, h)
  BY DEF Tracing
<1>1. PICK c \in Cell : queue[1].cell = c
  BY VisitDoes
<1>2. h \in Nat /\ MaxDepth \in Nat /\ h <= MaxDepth /\ queue[1].depth = h
  BY <1>0, DepthAssumption DEF TracingAt
<1>30. /\ Joining \subseteq Cell
       /\ seen' = seen \cup Joining /\ impacted' = impacted \cup Joining
       /\ UNCHANGED <<wb, overrides, mode, phase, sources>>
       /\ queue' \in Seq([cell : Cell, depth : Nat])
  BY VisitDoes
<1>31. /\ Joining \subseteq Dependents(wb, c) /\ (h >= MaxDepth => Joining = {})
       /\ (h < MaxDepth => Dependents(wb, c) \subseteq seen \cup Joining)
  BY <1>1, <1>2 DEF Joining
<1>32. PICK l \in Nat, m \in Nat :
        /\ DOMAIN queue = 1 .. l + 1 /\ DOMAIN queue' = 1 .. l + m
        /\ \A i \in 1 .. l : queue'[i] = queue[i + 1]
        /\ \A i \in 1 .. m : queue'[l + i].cell \in Joining /\ queue'[l + i].depth = h + 1
        /\ \A x \in Joining : \E i \in 1 .. m : queue'[l + i].cell = x
  BY <1>2, VisitDoes
<1>4. /\ h \in Nat /\ h <= MaxDepth /\ MaxDepth \in Nat /\ o \in overrides \ sources
      /\ \A i \in 1 .. l + 1 : /\ queue[i].depth \in {h, h + 1} /\ queue[i].depth <= MaxDepth
                               /\ queue[i].cell \in Within(wb, o, queue[i].depth)
      /\ \A i, j \in 1 .. l + 1 : i < j => queue[i].depth <= queue[j].depth
      /\ Within(wb, o, h) \subseteq seen
      /\ \A d \in Within(wb, o, h) :
           h < MaxDepth => d \in QueuedAt(h) \/ Dependents(wb, d) \subseteq seen
      /\ seen \subseteq Within(wb, o, h) \cup QueuedAt(h + 1)
      /\ seen \subseteq impacted \cup {o}
  BY <1>0, <1>2, <1>32 DEF TracingAt
<1>5. wb \in Workbook /\ o \in Cell
  BY <1>4, WorkbookAssumption DEF Settled, TraceIsTyped
<1>6. /\ c \in Within(wb, o, h)
      /\ Within(wb, o, h) \subseteq Within(wb, o, h + 1)
      /\ \A d \in Within(wb, o, h) : Dependents(wb, d) \subseteq Within(wb, o, h + 1)
      /\ \A x \in Within(wb, o, h + 1) :
           x \in Within(wb, o, h) \/ \E d \in Within(wb, o, h) : x \in Dependents(wb, d)
  <2>1. 1 \in 1 .. l + 1
    OBVIOUS
  <2> QED
    BY <1>1, <1>2, <1>4, <1>5, <2>1, WithinGrows
<1>7. Joining \subseteq Within(wb, o, h + 1) /\ (Joining # {} => h + 1 \in 0 .. MaxDepth)
  BY <1>31, <1>4, <1>6
<1>8. impacted' \subseteq impacted \cup Within(wb, o, MaxDepth)
  BY <1>30, <1>4, <1>7, WithinMonotonic
\* What the queue holds now, by the place it had before.
<1>9. \A i \in 1 .. l + m : i \in 1 .. l \/ \E j \in 1 .. m : i = l + j
  <2>1. \A i \in 1 .. l + m : i \in 1 .. l \/ (i - l \in 1 .. m /\ i = l + (i - l))
    OBVIOUS
  <2> QED
    BY <2>1
<1>10. ASSUME NEW i \in 1 .. l + m
       PROVE  /\ queue'[i].depth \in {h, h + 1} /\ queue'[i].depth <= MaxDepth
              /\ queue'[i].cell \in Within(wb, o, queue'[i].depth)
  <2>1. CASE i \in 1 .. l
    BY <1>32, <1>4, <2>1
  <2>2. CASE \E j \in 1 .. m : i = l + j
    <3>1. queue'[i].cell \in Joining /\ queue'[i].depth = h + 1
      BY <1>32, <2>2
    <3> QED
      BY <1>7, <3>1
  <2> QED
    BY <1>9, <2>1, <2>2
<1>11. ASSUME NEW i \in 1 .. l + m, NEW j \in 1 .. l + m, i < j
       PROVE  queue'[i].depth <= queue'[j].depth
  <2>1. CASE j \in 1 .. l
    <3>1. i \in 1 .. l /\ i + 1 \in 1 .. l + 1 /\ j + 1 \in 1 .. l + 1 /\ i + 1 < j + 1
      BY <1>11, <2>1
    <3> QED
      BY <1>32, <1>4, <2>1, <3>1
  <2>2. CASE \E k \in 1 .. m : j = l + k
    <3>1. queue'[j].depth = h + 1
      BY <1>32, <2>2
    <3> QED
      BY <1>4, <1>10, <3>1
  <2> QED
    BY <1>9, <2>1, <2>2
<1>12. \A n : QueuedAt(n) \subseteq QueuedAt(n)' \cup (IF n = h THEN {c} ELSE {})
  <2> SUFFICES ASSUME NEW n, NEW i \in 1 .. l + 1, queue[i].depth = n, i # 1
               PROVE  queue[i].cell \in QueuedAt(n)'
    BY <1>1, <1>2, <1>32 DEF QueuedAt
  <2>1. i - 1 \in 1 .. l /\ (i - 1) + 1 = i /\ i - 1 \in 1 .. l + m
    OBVIOUS
  <2>2. queue'[i - 1] = queue[i] /\ i - 1 \in DOMAIN queue'
    BY <1>32, <2>1
  <2> QED
    BY <2>2 DEF QueuedAt
<1>13. Joining \subseteq QueuedAt(h + 1)'
  <2> SUFFICES ASSUME NEW x \in Joining PROVE x \in QueuedAt(h + 1)'
    OBVIOUS
  <2>1. PICK i \in 1 .. m : queue'[l + i].cell = x
    BY <1>32
  <2>2. l + i \in DOMAIN queue' /\ queue'[l + i].depth = h + 1
    <3>1. l + i \in 1 .. l + m
      OBVIOUS
    <3> QED
      BY <1>32, <3>1
  <2> DEFINE k == l + i
  <2>3. k \in DOMAIN queue' /\ queue'[k].depth = h + 1 /\ queue'[k].cell = x
    BY <2>1, <2>2
  <2> QED
    BY <2>3 DEF QueuedAt
<1>14. \A d \in Within(wb, o, h) :
         h < MaxDepth => d \in QueuedAt(h)' \/ Dependents(wb, d) \subseteq seen'
  BY <1>30, <1>31, <1>4, <1>12
<1>15. seen' \subseteq Within(wb, o, h) \cup QueuedAt(h + 1)' /\ seen' \subseteq impacted' \cup {o}
  <2>1. QueuedAt(h + 1) \subseteq QueuedAt(h + 1)'
    BY <1>4, <1>12
  <2> QED
    BY <1>30, <1>4, <1>13, <2>1
<1>16. CASE l + m = 0
  <2>1. queue' = <<>>
    BY <1>30, <1>32, <1>16, EmptySeq, LenProperties
  <2>2. \A n : QueuedAt(n)' = {}
    BY <1>32, <1>16 DEF QueuedAt
  <2>3. seen' = Within(wb, o, h)
    BY <1>30, <1>4, <1>15, <2>2
  <2>4. Within(wb, o, MaxDepth) \subseteq Within(wb, o, h)
    <3>1. CASE h < MaxDepth
      BY <1>4, <1>5, <1>14, <2>2, <2>3, <3>1, WithinClosed
    <3>2. CASE ~(h < MaxDepth)
      BY <1>4, <3>2
    <3> QED
      BY <3>1, <3>2
  <2>5. Within(wb, o, MaxDepth) \subseteq impacted' \cup {o}
    BY <1>15, <2>3, <2>4
  <2> QED
    <3>1. Traced(o)'
      <4>1. wb' = wb
        BY <1>30
      <4> QED
        BY <2>5, <4>1 DEF Traced
    <3> QED
      BY <1>8, <2>1, <3>1
<1>17. CASE l + m # 0
  <2>1. 1 \in 1 .. l + m /\ queue' # <<>>
    <3>1. 1 \in 1 .. l + m
      BY <1>17
    <3>2. 1 \in DOMAIN queue'
      BY <1>32, <3>1
    <3> QED
      BY <3>1, <3>2, EmptySeq
  <2>0. PICK g \in 0 .. MaxDepth : g \in {h, h + 1} /\ queue'[1].depth = g
    BY <1>4, <1>10, <2>1
  <2>2. g \in {h, h + 1} /\ g \in 0 .. MaxDepth
    BY <2>0
  <2>3. /\ \A i \in 1 .. l + m : queue'[i].depth \in {g, g + 1}
        /\ Within(wb, o, g) \subseteq seen'
        /\ \A d \in Within(wb, o, g) :
             g < MaxDepth => d \in QueuedAt(g)' \/ Dependents(wb, d) \subseteq seen'
        /\ seen' \subseteq Within(wb, o, g) \cup QueuedAt(g + 1)'
    <3>1. CASE g = h
      BY <1>30, <1>4, <1>10, <1>14, <1>15, <3>1
    <3>2. CASE g = h + 1
      <4>1. \A i \in 1 .. l + m : queue'[i].depth = h + 1
        <5> SUFFICES ASSUME NEW i \in 1 .. l + m, i # 1 PROVE queue'[i].depth = h + 1
          BY <2>0, <3>2
        <5>1. queue'[1].depth <= queue'[i].depth
          BY <1>11, <2>0, <2>1
        <5> QED
          BY <1>4, <1>10, <2>0, <3>2, <5>1
      <4>2. QueuedAt(h)' = {}
        <5>1. h # h + 1
          BY <1>4
        <5>2. \A i \in DOMAIN queue' : queue'[i].depth # h
          BY <1>32, <4>1, <5>1
        <5> QED
          BY <5>2, <1>12 DEF QueuedAt
      <4>3. \A d \in Within(wb, o, h) : Dependents(wb, d) \subseteq seen'
        BY <1>4, <1>14, <2>2, <3>2, <4>2
      <4>4. Within(wb, o, h + 1) \subseteq seen'
        BY <1>30, <1>4, <1>6, <4>3
      <4>5. seen' \subseteq Within(wb, o, h + 1)
        <5>1. QueuedAt(h + 1)' \subseteq Within(wb, o, h + 1)
          <6>1. \A i \in 1 .. l + m : queue'[i].cell \in Within(wb, o, h + 1)
            BY <1>10, <4>1
          <6> QED
            BY <1>32, <6>1 DEF QueuedAt
        <5> QED
          BY <1>6, <1>15, <5>1
      <4>6. \A d \in Within(wb, o, h + 1) : d \in QueuedAt(h + 1)' \/ Dependents(wb, d) \subseteq seen'
        BY <1>15, <4>3, <4>4
      <4>7. \A i \in 1 .. l + m : queue'[i].depth = g
        BY <3>2, <4>1
      <4> QED
        BY <3>2, <4>4, <4>5, <4>6, <4>7
    <3> QED
      BY <2>2, <3>1, <3>2
  <2>4. TracingAt(o, g)'
    BY <1>30, <1>32, <1>4, <1>10, <1>11, <1>15, <2>0, <2>1, <2>2, <2>3 DEF TracingAt
  <2>5. Tracing(o)'
    BY <2>0, <2>4 DEF Tracing
  <2> QED
    BY <1>8, <2>5
<1> QED
  BY <1>32, <1>16, <1>17

\* A trace starts with its override alone.
LEMMA StartDoes ==
  ASSUME Settled, TraceIsTyped, NEW c \in Cell, StartTrace(c)
  PROVE  /\ queue = <<>> /\ c \in overrides /\ phase = "impact" /\ sources' = sources \ {c}
         /\ UNCHANGED <<wb, overrides, mode, phase, impacted>>
         /\ queue' \in Seq([cell : Cell, depth : Nat])
         /\ Tracing(c)'
<1>1. /\ queue = <<>> /\ queue' = <<[cell |-> c, depth |-> 0]>> /\ seen' = {c} /\ c \in sources
      /\ sources' = sources \ {c} /\ phase = "impact"
      /\ UNCHANGED <<wb, overrides, mode, phase, impacted>>
  BY DEF StartTrace
<1>2. queue' \in Seq([cell : Cell, depth : Nat])
  BY <1>1
<1>3. wb \in Workbook /\ MaxDepth \in Nat /\ c \in overrides
  BY <1>1, WorkbookAssumption, DepthAssumption DEF Settled, TraceIsTyped
<1>4. /\ DOMAIN queue' = {1} /\ queue'[1].depth = 0 /\ queue'[1].cell = c /\ queue' # <<>>
  BY <1>1
<1>5. Within(wb', c, 0) = {c}
  BY <1>1, <1>3, WithinGrows
<1>6. QueuedAt(0)' = {c}
  BY <1>4 DEF QueuedAt
<1>7. TracingAt(c, 0)'
  BY <1>1, <1>3, <1>4, <1>5, <1>6 DEF TracingAt
<1>8. Tracing(c)'
  BY <1>3, <1>7 DEF Tracing
<1> QED
  BY <1>1, <1>2, <1>3, <1>8

\* The steps that are not of a trace leave it alone.
LEMMA TracesRest ==
  ASSUME [Next]_vars, ~Visit, \A c \in Cell : ~StartTrace(c)
  PROVE  /\ UNCHANGED <<wb, overrides, mode, queue, seen, sources, impacted>>
         /\ phase' = "impact" => phase = "impact"
         /\ phase' # phase => (queue = <<>> /\ sources = {}) \/ phase = "eval"
<1>1. CASE TracesDone
  BY <1>1 DEF TracesDone, graphVars
<1>2. CASE ~TracesDone
  BY <1>2 DEF Next, Step, AskFor, Read, Enter, Compute, Raise, Take, Respond, vars, graphVars
<1> QED
  BY <1>1, <1>2

LEMMA TraceStep ==
  ASSUME TraceIsSound, Settled, Orderly, [Next]_vars
  PROVE  TraceIsSound'
<1>0. TraceIsTyped
  BY DEF TraceIsSound
<1>1. CASE Visit
  <2>1. /\ queue # <<>> /\ phase = "impact" /\ impacted \subseteq impacted'
        /\ UNCHANGED <<wb, overrides, mode, phase, sources>>
        /\ queue' \in Seq([cell : Cell, depth : Nat])
    BY <1>0, <1>1, VisitDoes
  <2>1a. /\ \A p, n : Within(wb', p, n) = Within(wb, p, n)
         /\ wb' = wb /\ overrides' = overrides
    BY <2>1
  <2>2. PICK o \in overrides : Tracing(o)
    BY <2>1 DEF TraceIsSound
  <2>3. ASSUME NEW p, Tracing(p)
        PROVE  /\ Tracing(p)' \/ (queue' = <<>> /\ Traced(p)')
               /\ impacted' \subseteq impacted \cup Within(wb, p, MaxDepth)
    BY <1>0, <1>1, <2>3, TracingStep
  <2>4. TraceIsTyped'
    BY <1>0, <2>1 DEF TraceIsTyped
  <2>5. InReach' = InReach /\ Within(wb, o, MaxDepth) \subseteq InReach
    BY <2>1, <2>1a DEF InReach
  <2>6. impacted' \subseteq InReach'
    BY <2>2, <2>3, <2>5 DEF TraceIsSound
  <2>7. ASSUME mode = "scenario", NEW p \in overrides \ sources PROVE Tracing(p)' \/ Traced(p)'
    <3>1. CASE Tracing(p)
      BY <2>3, <3>1
    <3>2. CASE Traced(p)
      BY <2>1, <2>1a, <3>2 DEF Traced
    <3> QED
      BY <2>7, <3>1, <3>2 DEF TraceIsSound
  <2>8. queue' # <<>> => mode' = "scenario" /\ Tracing(o)'
    BY <2>1, <2>2, <2>3 DEF TraceIsSound
  <2> QED
    BY <2>1, <2>4, <2>6, <2>7, <2>8 DEF TraceIsSound
<1>2. CASE \E c \in Cell : StartTrace(c)
  <2>1. PICK c \in Cell : StartTrace(c)
    BY <1>2
  <2>2. /\ queue = <<>> /\ c \in overrides /\ phase = "impact" /\ sources' = sources \ {c}
        /\ UNCHANGED <<wb, overrides, mode, phase, impacted>>
        /\ queue' \in Seq([cell : Cell, depth : Nat])
        /\ Tracing(c)'
    BY <1>0, <2>1, StartDoes
  <2>3. TraceIsTyped'
    BY <1>0, <2>2 DEF TraceIsTyped
  <2>4. impacted' \subseteq InReach'
    <3>1. wb' = wb /\ overrides' = overrides
      BY <2>2
    <3>2. InReach' = InReach
      BY <3>1 DEF InReach
    <3> QED
      BY <2>2, <3>2 DEF TraceIsSound
  <2>5. ASSUME mode = "scenario", NEW p \in overrides \ sources' PROVE Tracing(p)' \/ Traced(p)'
    <3>1. CASE p = c
      BY <2>2, <3>1
    <3>2. CASE p # c
      <4>1. Traced(p)
        BY <2>2, <2>5, <3>2 DEF TraceIsSound, Tracing, TracingAt
      <4> QED
        <5>1. wb' = wb /\ impacted' = impacted
          BY <2>2
        <5> QED
          BY <4>1, <5>1 DEF Traced
    <3> QED
      BY <3>1, <3>2
  <2>6. mode = "scenario"
    BY <2>2 DEF Orderly
  <2> QED
    BY <2>2, <2>3, <2>4, <2>5, <2>6 DEF TraceIsSound
<1>3. CASE ~Visit /\ ~\E c \in Cell : StartTrace(c)
  <2>1. /\ UNCHANGED <<wb, overrides, mode, queue, seen, sources, impacted>>
        /\ phase' = "impact" => phase = "impact"
        /\ phase' # phase => (queue = <<>> /\ sources = {}) \/ phase = "eval"
    BY <1>3, TracesRest
  <2>2. TraceIsTyped'
    BY <1>0, <2>1 DEF TraceIsTyped
  <2>3. /\ InReach' = InReach /\ \A o : Traced(o)' <=> Traced(o)
        /\ \A o : Tracing(o)' <=> Tracing(o)
    BY <2>1 DEF InReach, Traced, Tracing, TracingAt, QueuedAt, Within, Dependents, DependsOn
  <2> QED
    BY <2>1, <2>2, <2>3 DEF TraceIsSound
<1> QED
  BY <1>1, <1>2, <1>3

KInv == JInv /\ TraceIsSound

LEMMA InitK == Init => KInv
BY InitJ, InitTrace DEF KInv

LEMMA StepK == KInv /\ [Next]_vars => KInv'
BY StepJ, TraceStep DEF KInv, JInv, IInv

\* When the traces are done, they have found what is in reach, and nothing else.
LEMMA ReachIsFound ==
  ASSUME KInv, mode = "scenario", phase # "impact"
  PROVE  impacted \subseteq InReach /\ InReach \subseteq impacted \cup overrides
<1>1. queue = <<>> /\ sources = {} /\ impacted \subseteq InReach
  BY DEF KInv, TraceIsSound, TraceIsTyped
<1>2. \A o \in overrides : Traced(o)
  BY <1>1 DEF KInv, TraceIsSound, Tracing, TracingAt
<1> QED
  BY <1>1, <1>2 DEF Traced, InReach

\* What is not below an override means what it was saved with.
LEMMA OutOfReach ==
  ASSUME KInv, mode = "scenario", wb.unsaved = {}, wb.unlinked = {}, Acyclic(wb),
         \A d \in InReach : Dependents(wb, d) \subseteq InReach
  PROVE  \A c \in Cell \ InReach : Reference(wb, overrides, cached)[c] = cached[c]
<1> DEFINE atoms == [c \in Cell |-> IF c \in wb.held THEN Saved(c) ELSE None]
           ref == Reference(wb, overrides, cached)
           base == Reference(wb, {}, atoms)
<1>1. wb \in Workbook /\ cached = SavedValues(wb) /\ overrides \subseteq wb.held
  BY WorkbookAssumption DEF KInv, JInv, IInv, Settled, Orderly
<1>2. \A c \in Cell : cached[c] = base[c]
  BY <1>1 DEF SavedValues
<1>3. \A c \in Cell : ref[c] = Meaning(wb, overrides, cached, ref, c)
  BY <1>1, ReferenceMeans
<1>4. \A c \in Cell : base[c] = Meaning(wb, {}, atoms, base, c)
  BY <1>1, ReferenceMeans
<1> HIDE DEF ref, base, atoms
<1>5. ASSUME NEW c \in Cell, c \notin wb.held PROVE ref[c] = None /\ cached[c] = None
  BY <1>1, <1>2, <1>3, <1>4, <1>5 DEF Meaning
<1>6. PICK rank \in [Cell -> Nat] :
        \A c \in wb.formulas \cap wb.held : \A i \in DOMAIN wb.reads[c] :
          rank[wb.reads[c][i]] < rank[c]
  BY <1>1, AcyclicRanks
<1>7. overrides \subseteq InReach
  <2> SUFFICES ASSUME NEW x \in overrides PROVE x \in InReach
    OBVIOUS
  <2>1. x \in Cell /\ MaxDepth \in Nat /\ 0 \in 0 .. MaxDepth
    BY DepthAssumption DEF KInv, TraceIsSound, TraceIsTyped
  <2>2. x \in Within(wb, x, MaxDepth)
    BY <1>1, <2>1, WithinGrows, WithinMonotonic
  <2> QED
    BY <2>2 DEF InReach
<1> DEFINE S == {n \in Nat : \A c \in Cell \ InReach :
                              rank[c] = n => ref[c] = cached[c]}
<1>8. ASSUME NEW n \in Nat, \A m \in Nat : m < n => m \in S PROVE n \in S
  <2> SUFFICES ASSUME NEW c \in Cell \ InReach, rank[c] = n
               PROVE  ref[c] = cached[c]
    OBVIOUS
  <2>1. CASE c \notin wb.held
    BY <1>5, <2>1
  <2>2. CASE c \in wb.held /\ (c \notin wb.formulas \/ c \in wb.broken)
    BY <1>3, <1>7, <2>2 DEF Meaning
  <2>3. CASE c \in wb.held /\ c \in wb.formulas /\ c \notin wb.broken
    <3>1. ASSUME NEW i \in DOMAIN wb.reads[c]
          PROVE  ref[wb.reads[c][i]] = base[wb.reads[c][i]]
      <4> DEFINE d == wb.reads[c][i]
      <4>1. wb.reads[c] \in Seq(Cell)
        BY <1>1 DEF Workbook
      <4>2. d \in Cell
        BY <4>1, LenProperties, ElementOfSeq
      <4>3. d \in wb.held => c \in Dependents(wb, d)
        BY <2>3 DEF Dependents, DependsOn
      <4>4. rank[d] < n /\ rank[d] \in Nat
        BY <1>6, <2>3, <4>2
      <4> HIDE DEF d
      <4>5. CASE d \in wb.held
        <5>1. d \notin InReach
          BY <4>3, <4>5
        <5>2. rank[d] \in S
          BY <1>8, <4>4
        <5>3. ref[d] = cached[d]
          BY <4>2, <5>1, <5>2
        <5> QED
          BY <1>2, <4>2, <5>3 DEF d
      <4>6. CASE d \notin wb.held
        BY <1>2, <1>5, <4>2, <4>6 DEF d
      <4> QED
        BY <4>5, <4>6
    <3>2. [i \in DOMAIN wb.reads[c] |-> ref[wb.reads[c][i]]]
            = [i \in DOMAIN wb.reads[c] |-> base[wb.reads[c][i]]]
      BY <3>1
    <3>3. ref[c] = Result(c, [i \in DOMAIN wb.reads[c] |-> ref[wb.reads[c][i]]])
      BY <1>3, <1>7, <2>3 DEF Meaning
    <3>4. base[c] = Result(c, [i \in DOMAIN wb.reads[c] |-> base[wb.reads[c][i]]])
      BY <1>4, <2>3 DEF Meaning
    <3> QED
      BY <1>2, <3>2, <3>3, <3>4
  <2> QED
    BY <2>1, <2>2, <2>3
<1>9. Nat \subseteq S
  <2> HIDE DEF S
  <2> QED
    BY <1>8, StrongInduction
<1>10. ASSUME NEW c \in Cell \ InReach PROVE ref[c] = cached[c]
  <2>1. rank[c] \in S
    BY <1>6, <1>9
  <2> QED
    BY <2>1
<1> QED
  BY <1>10 DEF ref

\* A recalculation reports, of the cells that mean another value now, exactly those within
\* max_depth of an override, whatever the order of the traces and of the targets; and these
\* are all, where every read is an edge, no value was missing and nothing depends on a cell at
\* the bound (forward_impacted, then value_of, in _scenario_recalc).
THEOREM Exactness == Spec => []ChangesAreExact
<1>1. KInv => ChangesAreExact
  <2> DEFINE ref == Reference(wb, overrides, cached)
             closed == \A d \in InReach : Dependents(wb, d) \subseteq InReach
             differ == {c \in wb.held \ overrides : ref[c] # cached[c]}
  <2> SUFFICES ASSUME KInv, phase = "done", mode = "scenario", Acyclic(wb), NoneTooDeep
               PROVE  /\ changed \ overrides = differ \cap InReach
                      /\ wb.unlinked = {} /\ wb.unsaved = {} /\ closed => differ \subseteq InReach
    BY DEF ChangesAreExact
  <2>1. Settled /\ todo = {} /\ current = {} /\ wb.held \subseteq Cell /\ changed \subseteq impacted
    BY WorkbookAssumption DEF KInv, JInv, IInv, Settled, Orderly, Workbook
  <2>2. PICK rank : Ranks(rank)
    BY <2>1, ReferenceSolves
  <2>3. Solves(ref)
    BY <2>1, ReferenceSolves
  <2>4. wb.unlinked = {} /\ wb.unsaved = {} /\ closed => \A c \in Cell \ InReach : ref[c] = cached[c]
    BY OutOfReach
  <2>5. impacted \subseteq InReach /\ InReach \subseteq impacted \cup overrides
    BY ReachIsFound
  <2> HIDE DEF ref
  <2>6. Fits(ref, rank) /\ Taken(ref, rank)
    BY DEF KInv, JInv, IInv
  <2>7. \A c \in changed : c \in wb.held /\ ref[c] # cached[c]
    BY <2>2, <2>3, <2>6 DEF Fits, ChangesSolve
  <2>8. \A c \in impacted : c \in wb.held /\ ref[c] # cached[c] => c \in changed
    BY <2>1, <2>2, <2>3, <2>6 DEF Taken
  <2> QED
    BY <2>1, <2>4, <2>5, <2>7, <2>8
<1> QED
  BY <1>1, InitK, StepK, PTL DEF Spec

=============================================================================
