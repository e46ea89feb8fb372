------------------------- MODULE ChatSessionProofs --------------------------
(***************************************************************************)
(* Theorems about ChatSession for any number of turns, questions,          *)
(* overrides, facts, tool turns and retries.                               *)
(***************************************************************************)
EXTENDS ChatSession, FiniteSetTheorems, TLAPS

\* Where a turn stands decides what its status can be ...
StatusFollowsPc ==
  \A t \in Turn :
    /\ pc[t] \in {"idle", "lookup", "build", "llm", "tools", "delegate", "audit",
                  "failed"} => status[t] = "none"
    /\ pc[t] \in {"evidence", "reply", "done"} => status[t] # "none"
    /\ pc[t] = "store" => status[t] = "passed"

\* ... and how often it may have called the specialist.
DelegationsFollowRetries ==
  \A t \in Turn :
    delegations[t] <= IF pc[t] \in {"idle", "lookup", "build", "llm", "tools",
                                    "delegate"}
                      THEN retries[t] ELSE retries[t] + 1

\* The locals a cache entry stands for are settled.
EntriesAreSettled ==
  /\ \A t \in Turn : key[t][1] = question[t]
  /\ \A k \in Key : cache[k] # NoTurn => pc[cache[k]] \in {"reply", "done"}

IInv ==
  /\ TypeOK
  /\ StatusFollowsPc
  /\ DelegationsFollowRetries
  /\ EntriesAreSettled
  /\ PassedIsGrounded
  /\ CacheIsSound

-----------------------------------------------------------------------------
\* A tool result adds its facts to what the session's log backs.
LEMMA LoggedGrows ==
  ASSUME NEW t \in Turn, NEW claims \in SUBSET Claim, log \in Seq(ToolCall),
         log' = Append(log, [by |-> t, claims |-> claims])
  PROVE  Logged' = Logged \cup claims
<1>1. /\ DOMAIN log' = DOMAIN log \cup {Len(log) + 1}
      /\ \A i \in DOMAIN log : log'[i] = log[i]
      /\ log'[Len(log) + 1].claims = claims
  OBVIOUS
<1>2. ASSUME NEW c PROVE c \in Logged' <=> c \in Logged \cup claims
  BY <1>1 DEF Logged
<1>. QED
  BY <1>2

\* The initial states satisfy the inductive invariant.
LEMMA InitInv == Init => IInv
<1> SUFFICES ASSUME Init PROVE IInv
  OBVIOUS
<1> USE ChatAssumption
<1>1. TypeOK
  BY DEF Init, TypeOK, Key, Scenario, Context, Text, NoText, Kind, PC
<1>2. StatusFollowsPc /\ DelegationsFollowRetries /\ PassedIsGrounded
  BY DEF Init, StatusFollowsPc, DelegationsFollowRetries, PassedIsGrounded
<1>3. EntriesAreSettled /\ CacheIsSound
  BY DEF Init, EntriesAreSettled, CacheIsSound
<1>. QED
  BY <1>1, <1>2, <1>3 DEF IInv

-----------------------------------------------------------------------------
\* Every step keeps the types.
LEMMA TypeStep == TypeOK /\ [Next]_vars => TypeOK'
<1> SUFFICES ASSUME TypeOK, [Next]_vars PROVE TypeOK'
  OBVIOUS
<1> USE ChatAssumption
<1>1. ASSUME NEW t \in Turn, AppendUser(t)
      PROVE  TypeOK'
  BY <1>1 DEF TypeOK, Text, Kind, Context, Key, Scenario, PC, AppendUser, Goto, session, Message
<1>2. ASSUME NEW t \in Turn, CacheHit(t)
      PROVE  TypeOK'
  BY <1>2 DEF TypeOK, Text, Kind, Context, Key, Scenario, PC, CacheHit, Goto, session, Fresh
<1>3. ASSUME NEW t \in Turn, CacheMiss(t)
      PROVE  TypeOK'
  <2>1. <<question[t], overrides>> \in Key
    BY DEF TypeOK, Key
  <2>2. text' \in [Turn -> Text]
    <3>1. text[t] \in Text
      BY DEF TypeOK
    <3>2. [text[t] EXCEPT !.kind = "declined"] \in Text
      BY <3>1 DEF Text, Kind
    <3>. QED
      BY <1>3, <3>2 DEF TypeOK, CacheMiss
  <2>3. pc' \in [Turn -> PC]
    <3>1. \/ pc' = [pc EXCEPT ![t] = "build"]
          \/ pc' = [pc EXCEPT ![t] = "reply"]
      BY <1>3 DEF CacheMiss, Goto
    <3>. QED
      BY <3>1 DEF TypeOK, PC
  <2>4. status' \in [Turn -> {"none", "passed", "unknown"}]
    BY <1>3 DEF TypeOK, CacheMiss
  <2>. QED
    BY <1>3, <2>1, <2>2, <2>3, <2>4 DEF TypeOK, CacheMiss, session
<1>4. ASSUME NEW t \in Turn, BuildMessages(t)
      PROVE  TypeOK'
  BY <1>4 DEF TypeOK, Text, Kind, Context, Key, Scenario, PC, BuildMessages, Goto, session
<1>5. ASSUME NEW t \in Turn, \E claims \in SUBSET Claim : CallTool(t, claims)
      PROVE  TypeOK'
  <2> PICK claims \in SUBSET Claim : CallTool(t, claims)
    BY <1>5
  <2>1. log' \in Seq(ToolCall)
    <3>1. [by |-> t, claims |-> claims] \in ToolCall
      BY DEF ToolCall
    <3>. QED
      BY <3>1 DEF TypeOK, CallTool
  <2>2. toolTurns' \in [Turn -> 0..MAX_TOOL_TURNS]
    <3>1. CASE toolTurns[t] < MAX_TOOL_TURNS
               /\ toolTurns' = [toolTurns EXCEPT ![t] = @ + 1]
      BY <3>1 DEF TypeOK
    <3>2. CASE UNCHANGED toolTurns
      BY <3>2 DEF TypeOK
    <3>. QED
      BY <3>1, <3>2 DEF CallTool
  <2>4. toolCalls' \in [Turn -> 0..MaxToolCalls]
    BY DEF TypeOK, CallTool
  <2>3. pc' \in [Turn -> PC]
    BY DEF TypeOK, CallTool, Goto, PC
  <2>. QED
    BY <2>1, <2>2, <2>3, <2>4 DEF TypeOK, CallTool
<1>6. ASSUME NEW t \in Turn, \E claims \in SUBSET Claim, cell \in Cell \cup {NoCell} :
                 LlmAnswers(t, claims, cell)
      PROVE  TypeOK'
  <2> PICK claims \in SUBSET Claim, cell \in Cell \cup {NoCell} :
             LlmAnswers(t, claims, cell)
    BY <1>6
  <2>1. [claims |-> claims, cell |-> cell, kind |-> "answer"] \in Text
    BY DEF Text, Kind
  <2>2. /\ text' \in [Turn -> Text]
        /\ toolTurns' \in [Turn -> 0..MAX_TOOL_TURNS]
    BY <2>1 DEF TypeOK, LlmAnswers
  <2>3. pc' \in [Turn -> PC]
    BY DEF TypeOK, LlmAnswers, Goto, PC
  <2>. QED
    BY <2>2, <2>3 DEF TypeOK, LlmAnswers, session
<1>7. ASSUME NEW t \in Turn, HitToolCap(t)
      PROVE  TypeOK'
  <2>1. [NoText EXCEPT !.kind = "capped"] \in Text
    BY DEF Text, NoText, Kind
  <2>2. /\ text' \in [Turn -> Text]
        /\ toolTurns' \in [Turn -> 0..MAX_TOOL_TURNS]
    BY <1>7, <2>1 DEF TypeOK, HitToolCap
  <2>3. pc' \in [Turn -> PC]
    BY <1>7 DEF TypeOK, HitToolCap, Goto, PC
  <2>. QED
    BY <1>7, <2>2, <2>3 DEF TypeOK, HitToolCap, session
<1>8. ASSUME NEW t \in Turn, LlmFails(t)
      PROVE  TypeOK'
  BY <1>8 DEF TypeOK, Text, Kind, Context, Key, Scenario, PC, LlmFails, Goto, session
<1>9. ASSUME NEW t \in Turn, \E found \in BOOLEAN, prose \in SUBSET Claim,
                 cell \in Cell \cup {NoCell} : Delegate(t, found, prose, cell)
      PROVE  TypeOK'
  <2> PICK found \in BOOLEAN, prose \in SUBSET Claim, cell \in Cell \cup {NoCell} :
             Delegate(t, found, prose, cell)
    BY <1>9
  <2>1. text' \in [Turn -> Text]
    <3>1. text[t] \in Text
      BY DEF TypeOK
    <3>2. [text[t] EXCEPT !.claims = @ \cup prose,
                          !.cell = IF @ = NoCell THEN cell ELSE @] \in Text
      BY <3>1 DEF Text
    <3>. QED
      BY <3>2 DEF TypeOK, Delegate
  <2>2. pc' \in [Turn -> PC] /\ delegations' \in [Turn -> Nat]
    BY DEF TypeOK, Delegate, Goto, PC
  <2>. QED
    BY <2>1, <2>2 DEF TypeOK, Delegate, session
<1>10. ASSUME NEW t \in Turn, AuditPass(t)
      PROVE  TypeOK'
  BY <1>10 DEF TypeOK, Text, Kind, Context, Key, Scenario, PC, AuditPass, Goto, session
<1>11. ASSUME NEW t \in Turn, AuditRetry(t)
      PROVE  TypeOK'
  BY <1>11 DEF TypeOK, Text, Kind, Context, Key, Scenario, PC, AuditRetry, Goto, session
<1>12. ASSUME NEW t \in Turn, AuditGiveUp(t)
      PROVE  TypeOK'
  BY <1>12 DEF TypeOK, Text, Kind, Context, Key, Scenario, PC, AuditGiveUp, Goto, session
<1>13. ASSUME NEW t \in Turn, CollectEvidence(t)
      PROVE  TypeOK'
  <2>1. Owners(Recent(toolCalls[t])) \subseteq Turn
    <3>1. \A i \in DOMAIN log : log[i] \in ToolCall
      BY DEF TypeOK
    <3>2. \A i \in DOMAIN log : log[i].by \in Turn
      BY <3>1 DEF ToolCall
    <3>. QED
      BY <3>2 DEF Owners, Recent
  <2>2. text[t].cell \in Cell \cup {NoCell}
    BY DEF TypeOK, Text
  <2>3. pc' \in [Turn -> PC]
    BY <1>13 DEF TypeOK, CollectEvidence, Goto, PC
  <2>. QED
    BY <1>13, <2>1, <2>2, <2>3 DEF TypeOK, CollectEvidence
<1>14. ASSUME NEW t \in Turn, StoreAnswer(t)
      PROVE  TypeOK'
  BY <1>14 DEF TypeOK, Text, Kind, Context, Key, Scenario, PC, StoreAnswer, Goto, session
<1>15. ASSUME NEW t \in Turn, Reply(t)
      PROVE  TypeOK'
  BY <1>15 DEF TypeOK, Text, Kind, Context, Key, Scenario, PC, Reply, Goto, session, Message
<1>16. CASE Environment
  BY <1>16 DEF TypeOK, Text, Kind, Context, Key, Scenario, PC, Environment, SetScenario, ClearScenario,
              ClearAllScenarios, Expire, locals
<1>17. CASE UNCHANGED vars
  BY <1>17 DEF TypeOK, Text, Kind, Context, Key, Scenario, PC, vars, session, locals
<1>. QED
  BY <1>1, <1>2, <1>3, <1>4, <1>5, <1>6, <1>7, <1>8, <1>9, <1>10, <1>11, <1>12, <1>13, <1>14, <1>15, <1>16, <1>17 DEF Next, TurnStep

-----------------------------------------------------------------------------
\* A status is set by an audit or a cache, and nothing before them has one.
LEMMA StatusStep ==
  ASSUME TypeOK, EntriesAreSettled, StatusFollowsPc, [Next]_vars
  PROVE  StatusFollowsPc'
<1> USE ChatAssumption DEF TypeOK, StatusFollowsPc, Goto
<1>1. ASSUME NEW t \in Turn, TurnStep(t)
      PROVE  StatusFollowsPc'
  <2>1. CASE CacheHit(t)
    <3>1. /\ <<question[t], overrides>> \in Key
          /\ status[cache[<<question[t], overrides>>]] # "none"
      BY <2>1 DEF CacheHit, Fresh, Key, EntriesAreSettled
    <3>. QED
      BY <2>1, <3>1 DEF CacheHit
  <2>2. CASE CacheMiss(t)
    <3>1. \/ pc' = [pc EXCEPT ![t] = "build"] /\ UNCHANGED status
          \/ pc' = [pc EXCEPT ![t] = "reply"]
             /\ status' = [status EXCEPT ![t] = "unknown"]
      BY <2>2 DEF CacheMiss
    <3>. QED
      BY <2>2, <3>1 DEF CacheMiss
  <2>3. CASE AppendUser(t) \/ BuildMessages(t) \/ HitToolCap(t) \/ LlmFails(t)
    BY <2>3 DEF AppendUser, BuildMessages, HitToolCap, LlmFails
  <2>4. CASE \E claims \in SUBSET Claim : CallTool(t, claims)
    BY <2>4 DEF CallTool
  <2>5. CASE \E claims \in SUBSET Claim, cell \in Cell \cup {NoCell} :
               LlmAnswers(t, claims, cell)
    BY <2>5 DEF LlmAnswers
  <2>6. CASE \E found \in BOOLEAN, prose \in SUBSET Claim,
                cell \in Cell \cup {NoCell} : Delegate(t, found, prose, cell)
    BY <2>6 DEF Delegate
  <2>7. CASE AuditPass(t) \/ AuditRetry(t) \/ AuditGiveUp(t)
    BY <2>7 DEF AuditPass, AuditRetry, AuditGiveUp
  <2>8. CASE CollectEvidence(t)
    BY <2>8 DEF CollectEvidence
  <2>9. CASE StoreAnswer(t) \/ Reply(t)
    BY <2>9 DEF StoreAnswer, Reply
  <2>. QED
    BY <1>1, <2>1, <2>2, <2>3, <2>4, <2>5, <2>6, <2>7, <2>8, <2>9 DEF TurnStep
<1>2. CASE Environment \/ UNCHANGED vars
  BY <1>2 DEF Environment, SetScenario, ClearScenario, ClearAllScenarios, Expire,
              vars, locals
<1>. QED
  BY <1>1, <1>2 DEF Next

\* A turn calls the specialist at most once between two retries.
LEMMA DelegationsStep ==
  ASSUME TypeOK, DelegationsFollowRetries, [Next]_vars
  PROVE  DelegationsFollowRetries'
<1> USE ChatAssumption DEF TypeOK, DelegationsFollowRetries, Goto
<1>1. ASSUME NEW t \in Turn, TurnStep(t)
      PROVE  DelegationsFollowRetries'
  <2>1. CASE \E found \in BOOLEAN, prose \in SUBSET Claim,
                cell \in Cell \cup {NoCell} : Delegate(t, found, prose, cell)
    BY <2>1 DEF Delegate
  <2>2. CASE \E claims \in SUBSET Claim : CallTool(t, claims)
    BY <2>2 DEF CallTool
  <2>3. CASE \E claims \in SUBSET Claim, cell \in Cell \cup {NoCell} :
               LlmAnswers(t, claims, cell)
    BY <2>3 DEF LlmAnswers
  <2>4. CASE CacheMiss(t)
    <3>1. \/ pc' = [pc EXCEPT ![t] = "build"]
          \/ pc' = [pc EXCEPT ![t] = "reply"]
      BY <2>4 DEF CacheMiss
    <3>. QED
      BY <2>4, <3>1 DEF CacheMiss
  <2>5. CASE AuditRetry(t)
    BY <2>5 DEF AuditRetry
  <2>6. CASE CollectEvidence(t)
    BY <2>6 DEF CollectEvidence
  <2>7. CASE Reply(t)
    BY <2>7 DEF Reply
  <2>8. CASE AppendUser(t) \/ CacheHit(t) \/ BuildMessages(t) \/ HitToolCap(t)
             \/ LlmFails(t) \/ AuditPass(t) \/ AuditGiveUp(t) \/ StoreAnswer(t)
    BY <2>8 DEF AppendUser, CacheHit, BuildMessages, HitToolCap, LlmFails,
                AuditPass, AuditGiveUp, StoreAnswer
  <2>. QED
    BY <1>1, <2>1, <2>2, <2>3, <2>4, <2>5, <2>6, <2>7, <2>8 DEF TurnStep
<1>2. CASE Environment \/ UNCHANGED vars
  BY <1>2 DEF Environment, SetScenario, ClearScenario, ClearAllScenarios, Expire,
              vars, locals
<1>. QED
  BY <1>1, <1>2 DEF Next

\* What a cache entry stands for no longer changes, and it was stored under the
\* key its turn looked up.
LEMMA CacheStep ==
  ASSUME TypeOK, StatusFollowsPc, EntriesAreSettled, CacheIsSound, [Next]_vars
  PROVE  EntriesAreSettled' /\ CacheIsSound'
<1> USE ChatAssumption DEF TypeOK, StatusFollowsPc, EntriesAreSettled, CacheIsSound, Goto
<1>1. ASSUME NEW t \in Turn, TurnStep(t)
      PROVE  EntriesAreSettled' /\ CacheIsSound'
  <2>0. pc[t] \notin {"reply", "done"} => \A k \in Key : cache[k] # t
    OBVIOUS
  <2>1. CASE CacheHit(t)
    <3>1. <<question[t], overrides>> \in Key
      BY DEF Key
    <3>. QED
      BY <2>0, <2>1, <3>1 DEF CacheHit, session
  <2>2. CASE CacheMiss(t)
    <3>1. <<question[t], overrides>> \in Key
      BY DEF Key
    <3>2. /\ \A u \in Turn : u # t => status'[u] = status[u] /\ pc'[u] = pc[u]
          /\ key' = [key EXCEPT ![t] = <<question[t], overrides>>]
          /\ UNCHANGED <<cache, question>>
          /\ pc[t] = "lookup"
      BY <2>2 DEF CacheMiss, session
    <3>. QED
      BY <2>0, <3>1, <3>2
  <2>3. CASE StoreAnswer(t)
    BY <2>3 DEF StoreAnswer
  <2>4. CASE Reply(t)
    BY <2>4 DEF Reply
  <2>5. CASE \E claims \in SUBSET Claim : CallTool(t, claims)
    BY <2>0, <2>5 DEF CallTool
  <2>6. CASE \E claims \in SUBSET Claim, cell \in Cell \cup {NoCell} :
               LlmAnswers(t, claims, cell)
    BY <2>0, <2>6 DEF LlmAnswers, session
  <2>7. CASE \E found \in BOOLEAN, prose \in SUBSET Claim,
                cell \in Cell \cup {NoCell} : Delegate(t, found, prose, cell)
    BY <2>0, <2>7 DEF Delegate, session
  <2>8. CASE AppendUser(t) \/ BuildMessages(t) \/ HitToolCap(t) \/ LlmFails(t)
    BY <2>0, <2>8 DEF AppendUser, BuildMessages, HitToolCap, LlmFails, session
  <2>9. CASE AuditPass(t) \/ AuditRetry(t) \/ AuditGiveUp(t)
    BY <2>0, <2>9 DEF AuditPass, AuditRetry, AuditGiveUp, session
  <2>10. CASE CollectEvidence(t)
    BY <2>0, <2>10 DEF CollectEvidence
  <2>. QED
    BY <1>1, <2>1, <2>2, <2>3, <2>4, <2>5, <2>6, <2>7, <2>8, <2>9, <2>10 DEF TurnStep
<1>2. CASE Environment \/ UNCHANGED vars
  BY <1>2 DEF Environment, SetScenario, ClearScenario, ClearAllScenarios, Expire,
              vars, locals, session
<1>. QED
  BY <1>1, <1>2 DEF Next

\* The log only grows, and the text of a turn is fixed once its status is.
LEMMA GroundedStep ==
  ASSUME TypeOK, StatusFollowsPc, CacheIsSound, PassedIsGrounded, [Next]_vars
  PROVE  PassedIsGrounded'
<1> USE ChatAssumption DEF TypeOK, StatusFollowsPc, PassedIsGrounded, Goto
<1>1. ASSUME NEW t \in Turn, TurnStep(t)
      PROVE  PassedIsGrounded'
  <2>0. UNCHANGED log => Logged' = Logged
    BY DEF Logged
  <2>1. CASE CacheHit(t)
    <3>1. LET k == <<question[t], overrides>>
          IN  k \in Key /\ cache[k] \in Turn /\ status[cache[k]] = "passed"
      BY <2>1 DEF CacheHit, Fresh, Key, CacheIsSound
    <3>. QED
      BY <2>0, <2>1, <3>1 DEF CacheHit, session
  <2>2. CASE CacheMiss(t)
    <3>1. /\ \A u \in Turn : u # t => status'[u] = status[u] /\ text'[u] = text[u]
          /\ status'[t] # "passed"
          /\ UNCHANGED log
      BY <2>2 DEF CacheMiss, session
    <3>. QED
      BY <2>0, <3>1
  <2>3. CASE \E claims \in SUBSET Claim : CallTool(t, claims)
    <3> PICK claims \in SUBSET Claim : CallTool(t, claims)
      BY <2>3
    <3>1. Logged' = Logged \cup claims
      BY LoggedGrows DEF CallTool
    <3>. QED
      BY <3>1 DEF CallTool
  <2>4. CASE \E claims \in SUBSET Claim, cell \in Cell \cup {NoCell} :
               LlmAnswers(t, claims, cell)
    BY <2>0, <2>4 DEF LlmAnswers, session
  <2>5. CASE \E found \in BOOLEAN, prose \in SUBSET Claim,
                cell \in Cell \cup {NoCell} : Delegate(t, found, prose, cell)
    BY <2>0, <2>5 DEF Delegate, session
  <2>6. CASE AuditPass(t)
    BY <2>0, <2>6 DEF AuditPass, AuditPasses, session
  <2>7. CASE AuditGiveUp(t)
    BY <2>0, <2>7 DEF AuditGiveUp, session
  <2>8. CASE AppendUser(t) \/ BuildMessages(t) \/ HitToolCap(t) \/ LlmFails(t)
             \/ AuditRetry(t) \/ CollectEvidence(t) \/ StoreAnswer(t) \/ Reply(t)
    BY <2>0, <2>8 DEF AppendUser, BuildMessages, HitToolCap, LlmFails, AuditRetry,
                      CollectEvidence, StoreAnswer, Reply, session
  <2>. QED
    BY <1>1, <2>1, <2>2, <2>3, <2>4, <2>5, <2>6, <2>7, <2>8 DEF TurnStep
<1>2. CASE Environment \/ UNCHANGED vars
  BY <1>2 DEF Environment, SetScenario, ClearScenario, ClearAllScenarios, Expire,
              vars, locals, session, Logged
<1>. QED
  BY <1>1, <1>2 DEF Next

\* The invariant is inductive.
LEMMA NextInv == IInv /\ [Next]_vars => IInv'
  BY TypeStep, StatusStep, DelegationsStep, CacheStep, GroundedStep DEF IInv

LEMMA Invariance == Spec => []IInv
<1>. QED
  BY InitInv, NextInv, PTL DEF Spec

-----------------------------------------------------------------------------
\* The shared state and the locals of answer() keep their types.
THEOREM TypeCorrect == Spec => []TypeOK
<1>1. IInv => TypeOK
  BY DEF IInv
<1>. QED
  BY <1>1, Invariance, PTL

\* However turns and scenario changes interleave, an answer badged "passed"
\* states only what the workbook or a tool result of the session backs.
THEOREM Grounding == Spec => []PassedIsGrounded
<1>1. IInv => PassedIsGrounded
  BY DEF IInv
<1>. QED
  BY <1>1, Invariance, PTL

\* answer_cache holds only audited answers, each under its question and the
\* overrides its turn looked up.
THEOREM CacheSoundness == Spec => []CacheIsSound
<1>1. IInv => CacheIsSound
  BY DEF IInv
<1>. QED
  BY <1>1, Invariance, PTL

\* The specialist runs at most once for each attempt at an answer, and a message
\* is attempted at most 1 + MAX_AUDIT_RETRIES times.
THEOREM SpecialistBound == Spec => []SpecialistBounded
<1>1. IInv => SpecialistBounded
  <2> SUFFICES ASSUME IInv, NEW t \in Turn
               PROVE  /\ delegations[t] <= 1 + retries[t]
                      /\ retries[t] <= MAX_AUDIT_RETRIES
    BY DEF SpecialistBounded
  <2>1. /\ delegations[t] \in Nat /\ retries[t] \in 0..MAX_AUDIT_RETRIES
        /\ delegations[t] <= retries[t] \/ delegations[t] <= retries[t] + 1
    BY DEF IInv, TypeOK, DelegationsFollowRetries
  <2>. QED
    BY <2>1, ChatAssumption
<1>. QED
  BY <1>1, Invariance, PTL

-----------------------------------------------------------------------------
\* The shared history.

Asks(t)    == {i \in DOMAIN messages : messages[i] = [role |-> "user", by |-> t]}
Replies(t) == {i \in DOMAIN messages : messages[i] = [role |-> "assistant", by |-> t]}

\* A turn that has begun asked once, one that is done replied once, and later.
PairedUp(t) ==
  /\ IF pc[t] = "idle" THEN Asks(t) = {} ELSE \E i : Asks(t) = {i}
  /\ IF pc[t] = "done" THEN \E i : Replies(t) = {i} ELSE Replies(t) = {}
  /\ \A i \in Asks(t), j \in Replies(t) : i < j

\* Appending a message of a turn adds its place to what that turn asked or replied.
LEMMA MessageAppended ==
  ASSUME TypeOK, NEW r \in {"user", "assistant"}, NEW t \in Turn,
         messages' = Append(messages, [role |-> r, by |-> t]), NEW u \in Turn
  PROVE  /\ Len(messages) \in Nat /\ DOMAIN messages = 1 .. Len(messages)
         /\ Asks(u)' = IF u = t /\ r = "user" THEN Asks(u) \cup {Len(messages) + 1} ELSE Asks(u)
         /\ Replies(u)' = IF u = t /\ r = "assistant" THEN Replies(u) \cup {Len(messages) + 1}
                                                      ELSE Replies(u)
<1> DEFINE n == Len(messages)
           e == [role |-> r, by |-> t]
<1>1. /\ n \in Nat /\ DOMAIN messages = 1 .. n
      /\ DOMAIN messages' = (1 .. n) \cup {n + 1}
      /\ \A i \in 1 .. n : messages'[i] = messages[i]
      /\ messages'[n + 1] = e
  <2>1. messages \in Seq(Message) /\ e \in Message
    BY DEF TypeOK, Message
  <2> HIDE DEF e
  <2> QED
    BY <2>1 DEF e
<1>2. \A q \in {"user", "assistant"} : e = [role |-> q, by |-> u] <=> q = r /\ u = t
  OBVIOUS
<1> HIDE DEF n, e
<1>3. ASSUME NEW q \in {"user", "assistant"}
      PROVE  {i \in DOMAIN messages' : messages'[i] = [role |-> q, by |-> u]}
               = {i \in DOMAIN messages : messages[i] = [role |-> q, by |-> u]}
                 \cup (IF q = r /\ u = t THEN {n + 1} ELSE {})
  <2> DEFINE f == [role |-> q, by |-> u]
  <2>1. e = f <=> q = r /\ u = t
    BY <1>2
  <2> HIDE DEF f
  <2>2. {i \in DOMAIN messages' : messages'[i] = f}
          = {i \in DOMAIN messages : messages[i] = f}
            \cup (IF q = r /\ u = t THEN {n + 1} ELSE {})
    BY <1>1, <2>1
  <2> QED
    BY <2>2 DEF f
<1> QED
  BY <1>1, <1>3 DEF Asks, Replies, n

\* The steps of a turn by what they mean to the history.
LEMMA HistoryMoves ==
  ASSUME TypeOK, [Next]_vars
  PROVE  \/ \E t \in Turn : AppendUser(t) \/ Reply(t)
         \/ /\ messages' = messages
            /\ \A u \in Turn : /\ pc'[u] = "idle" <=> pc[u] = "idle"
                               /\ pc'[u] = "done" <=> pc[u] = "done"
<1> DEFINE Keeps == /\ messages' = messages
                    /\ \A u \in Turn : /\ pc'[u] = "idle" <=> pc[u] = "idle"
                                       /\ pc'[u] = "done" <=> pc[u] = "done"
<1>1. ASSUME NEW t \in Turn, NEW l \in PC \ {"idle", "done"}, messages' = messages,
             pc[t] \notin {"idle", "done"}, Goto(t, l)
      PROVE  Keeps
  BY <1>1 DEF TypeOK, Goto
<1>2. ASSUME NEW t \in Turn, TurnStep(t), ~AppendUser(t), ~Reply(t)
      PROVE  Keeps
  <2> HIDE DEF Keeps
  <2>1. CASE CacheHit(t) \/ CacheMiss(t)
    BY <1>1, <2>1 DEF CacheHit, CacheMiss, session, PC
  <2>2. CASE BuildMessages(t) \/ HitToolCap(t) \/ LlmFails(t)
    BY <1>1, <2>2 DEF BuildMessages, HitToolCap, LlmFails, session, PC
  <2>3. CASE \E claims \in SUBSET Claim : CallTool(t, claims)
    BY <1>1, <2>3 DEF CallTool, session, PC
  <2>4. CASE \E claims \in SUBSET Claim, cell \in Cell \cup {NoCell} :
               LlmAnswers(t, claims, cell)
    BY <1>1, <2>4 DEF LlmAnswers, session, PC
  <2>5. CASE \E found \in BOOLEAN, prose \in SUBSET Claim,
                cell \in Cell \cup {NoCell} : Delegate(t, found, prose, cell)
    BY <1>1, <2>5 DEF Delegate, session, PC
  <2>6. CASE AuditPass(t) \/ AuditRetry(t) \/ AuditGiveUp(t)
    BY <1>1, <2>6 DEF AuditPass, AuditRetry, AuditGiveUp, session, PC
  <2>7. CASE CollectEvidence(t)
    <3>1. (IF status[t] = "passed" THEN "store" ELSE "reply") \in PC \ {"idle", "done"}
      BY DEF PC
    <3> QED
      BY <1>1, <2>7, <3>1 DEF CollectEvidence
  <2>8. CASE StoreAnswer(t)
    BY <1>1, <2>8 DEF StoreAnswer, PC
  <2> QED
    BY <1>2, <2>1, <2>2, <2>3, <2>4, <2>5, <2>6, <2>7, <2>8 DEF TurnStep
<1>3. CASE Environment \/ UNCHANGED vars
  BY <1>3 DEF Environment, SetScenario, ClearScenario, ClearAllScenarios, Expire,
              vars, locals, session
<1> QED
  BY <1>2, <1>3 DEF Next

LEMMA InitPaired == Init => \A t \in Turn : PairedUp(t)
BY DEF Init, PairedUp, Asks, Replies

LEMMA PairedStep ==
  ASSUME TypeOK, [Next]_vars, \A t \in Turn : PairedUp(t)
  PROVE  \A t \in Turn : PairedUp(t)'
<1> SUFFICES ASSUME NEW u \in Turn PROVE PairedUp(u)'
  OBVIOUS
<1>1. ASSUME NEW t \in Turn, AppendUser(t) PROVE PairedUp(u)'
  <2>1. /\ pc[t] = "idle" /\ messages' = Append(messages, [role |-> "user", by |-> t])
        /\ pc'[t] = "lookup" /\ \A v \in Turn \ {t} : pc'[v] = pc[v]
    BY <1>1 DEF AppendUser, Goto, TypeOK
  <2>2. /\ Asks(u)' = IF u = t THEN Asks(u) \cup {Len(messages) + 1} ELSE Asks(u)
        /\ Replies(u)' = Replies(u)
    BY <2>1, MessageAppended
  <2>3. PairedUp(u)
    OBVIOUS
  <2>4. CASE u = t
    BY <2>1, <2>2, <2>3, <2>4 DEF PairedUp
  <2>5. CASE u # t
    BY <2>1, <2>2, <2>3, <2>5 DEF PairedUp
  <2> QED
    BY <2>4, <2>5
<1>2. ASSUME NEW t \in Turn, Reply(t) PROVE PairedUp(u)'
  <2>1. /\ pc[t] = "reply" /\ messages' = Append(messages, [role |-> "assistant", by |-> t])
        /\ pc'[t] = "done" /\ \A v \in Turn \ {t} : pc'[v] = pc[v]
    BY <1>2 DEF Reply, Goto, TypeOK
  <2>2. /\ Asks(u)' = Asks(u) /\ Len(messages) \in Nat /\ DOMAIN messages = 1 .. Len(messages)
        /\ Replies(u)' = IF u = t THEN Replies(u) \cup {Len(messages) + 1} ELSE Replies(u)
    BY <2>1, MessageAppended
  <2>3. PairedUp(u) /\ \A i \in Asks(u) : i < Len(messages) + 1
    BY <2>2 DEF Asks
  <2>4. CASE u = t
    BY <2>1, <2>2, <2>3, <2>4 DEF PairedUp
  <2>5. CASE u # t
    BY <2>1, <2>2, <2>3, <2>5 DEF PairedUp
  <2> QED
    BY <2>4, <2>5
<1>3. CASE /\ messages' = messages
           /\ \A v \in Turn : /\ pc'[v] = "idle" <=> pc[v] = "idle"
                              /\ pc'[v] = "done" <=> pc[v] = "done"
  <2>1. Asks(u)' = Asks(u) /\ Replies(u)' = Replies(u)
    BY <1>3 DEF Asks, Replies
  <2>2. PairedUp(u) /\ (pc'[u] = "idle" <=> pc[u] = "idle") /\ (pc'[u] = "done" <=> pc[u] = "done")
    BY <1>3
  <2> QED
    BY <2>1, <2>2 DEF PairedUp
<1> QED
  BY <1>1, <1>2, <1>3, HistoryMoves

\* However turns interleave, the shared history holds the message of each turn once it has
\* begun, and its reply, once and after it, exactly when it has returned: a cached or a
\* refused answer too, never one that ended in an exception (append_user, append_assistant).
THEOREM HistoryPairing == Spec => []HistoryPairsUp
<1> DEFINE Paired == \A t \in Turn : PairedUp(t)
<1>1. Paired => HistoryPairsUp
  <2> SUFFICES ASSUME Paired, NEW t \in Turn
               PROVE  /\ Cardinality(Asks(t)) = (IF pc[t] = "idle" THEN 0 ELSE 1)
                      /\ Cardinality(Replies(t)) = (IF pc[t] = "done" THEN 1 ELSE 0)
                      /\ \A i \in Asks(t), j \in Replies(t) : i < j
    BY DEF HistoryPairsUp, Asks, Replies
  <2> QED
    BY FS_EmptySet, FS_Singleton DEF PairedUp
<1>2. Init => Paired
  BY InitPaired
<1>3. IInv /\ Paired /\ [Next]_vars => Paired'
  BY PairedStep DEF IInv
<1> HIDE DEF Paired
<1> QED
  BY <1>1, <1>2, <1>3, Invariance, PTL DEF Spec

-----------------------------------------------------------------------------
\* Initially a session has given no answer and knows the workbook.
LEMMA RefineInit == Init => Grounded!Init
<1> SUFFICES ASSUME Init PROVE Grounded!Init
  OBVIOUS
<1>1. Logged = {}
  BY DEF Init, Logged
<1>2. \A t \in Turn : pc[t] = "idle"
  BY DEF Init
<1>. QED
  BY <1>1, <1>2 DEF Grounded!Init

\* A step of a turn that does not end it changes neither what was said nor
\* what became of other turns.
LEMMA OpenStep ==
  ASSUME NEW t \in Turn, TypeOK,
         pc[t] \notin {"done", "failed"}, pc'[t] \notin {"done", "failed"},
         \A u \in Turn \ {t} : /\ pc'[u] = pc[u]
                               /\ status'[u] = status[u]
                               /\ text'[u] = text[u]
  PROVE  UNCHANGED <<[u \in Turn |-> CASE pc[u] = "done"   -> status[u]
                                       [] pc[u] = "failed" -> "failed"
                                       [] OTHER            -> "open"],
                     [u \in Turn |-> IF pc[u] = "done" THEN text[u].claims ELSE {}]>>
<1>1. \A u \in Turn : /\ pc'[u] = "done" <=> pc[u] = "done"
                      /\ pc'[u] = "failed" <=> pc[u] = "failed"
                      /\ pc[u] = "done" => status'[u] = status[u] /\ text'[u] = text[u]
  OBVIOUS
<1>. QED
  BY <1>1

\* Each step of the session is a step of the abstract one or changes nothing
\* of it: Reply publishes, LlmFails fails, a tool call learns.
LEMMA RefineStep ==
  ASSUME IInv, [Next]_vars
  PROVE  [Grounded!Next]_Grounded!vars
<1> USE DEF IInv, Goto
<1>1. ASSUME NEW t \in Turn, TurnStep(t)
      PROVE  [Grounded!Next]_Grounded!vars
  <2>0. UNCHANGED log => Logged' = Logged
    BY DEF Logged
  <2>1. CASE \E claims \in SUBSET Claim : CallTool(t, claims)
    <3> PICK claims \in SUBSET Claim : CallTool(t, claims)
      BY <2>1
    <3>1. (Native \cup Logged)' = (Native \cup Logged) \cup claims
      BY LoggedGrows DEF CallTool, TypeOK
    <3>2. /\ pc[t] \notin {"done", "failed"} /\ pc'[t] \notin {"done", "failed"}
          /\ \A u \in Turn \ {t} : pc'[u] = pc[u]
          /\ UNCHANGED <<status, text>>
      BY DEF CallTool, TypeOK
    <3>3. Grounded!Learn(claims)
      BY <3>1, <3>2, OpenStep DEF Grounded!Learn
    <3>. QED
      BY <3>3 DEF Grounded!Next
  <2>2. CASE Reply(t)
    <3>1. /\ pc[t] = "reply" /\ pc' = [pc EXCEPT ![t] = "done"] /\ pc \in [Turn -> PC]
          /\ UNCHANGED <<status, text, log>>
          /\ status[t] \in {"passed", "unknown"}
          /\ text[t].claims \in SUBSET Claim
      BY <2>2 DEF Reply, TypeOK, StatusFollowsPc, Text
    <3> PICK facts \in SUBSET Claim : facts = text[t].claims
      BY <3>1
    <3>2. CASE status[t] = "passed"
      <4>1. facts \subseteq Native \cup Logged
        BY <3>2 DEF PassedIsGrounded
      <4>2. Grounded!Vouch(t, facts)
        BY <2>0, <3>1, <3>2, <4>1 DEF Grounded!Vouch
      <4>. QED
        BY <4>2 DEF Grounded!Next
    <3>3. CASE status[t] = "unknown"
      <4>1. Grounded!Hedge(t, facts)
        BY <2>0, <3>1, <3>3 DEF Grounded!Hedge
      <4>. QED
        BY <4>1 DEF Grounded!Next
    <3>. QED
      BY <3>1, <3>2, <3>3
  <2>3. CASE LlmFails(t)
    <3>1. /\ pc[t] = "llm" /\ pc' = [pc EXCEPT ![t] = "failed"] /\ pc \in [Turn -> PC]
          /\ UNCHANGED <<status, text, log>>
      BY <2>3 DEF LlmFails, TypeOK, session
    <3>2. Grounded!Fail(t)
      BY <2>0, <3>1 DEF Grounded!Fail
    <3>. QED
      BY <3>2 DEF Grounded!Next
  <2>4. ASSUME ~(\E claims \in SUBSET Claim : CallTool(t, claims)),
               ~Reply(t), ~LlmFails(t)
        PROVE  UNCHANGED Grounded!vars
    <3>1. /\ pc[t] \notin {"done", "failed"} /\ pc'[t] \notin {"done", "failed"}
          /\ \A u \in Turn \ {t} : /\ pc'[u] = pc[u]
                                   /\ status'[u] = status[u]
                                   /\ text'[u] = text[u]
          /\ UNCHANGED log
      <4> USE DEF TypeOK, session
      <4>1. CASE AppendUser(t) \/ CacheHit(t) \/ CacheMiss(t) \/ BuildMessages(t)
                 \/ HitToolCap(t)
        BY <4>1 DEF AppendUser, CacheHit, CacheMiss, BuildMessages, HitToolCap
      <4>2. CASE \E claims \in SUBSET Claim, cell \in Cell \cup {NoCell} :
                   LlmAnswers(t, claims, cell)
        BY <4>2 DEF LlmAnswers
      <4>3. CASE \E found \in BOOLEAN, prose \in SUBSET Claim,
                    cell \in Cell \cup {NoCell} : Delegate(t, found, prose, cell)
        BY <4>3 DEF Delegate
      <4>4. CASE AuditPass(t) \/ AuditRetry(t) \/ AuditGiveUp(t)
        BY <4>4 DEF AuditPass, AuditRetry, AuditGiveUp
      <4>5. CASE CollectEvidence(t) \/ StoreAnswer(t)
        BY <4>5 DEF CollectEvidence, StoreAnswer
      <4>. QED
        BY <1>1, <2>4, <4>1, <4>2, <4>3, <4>4, <4>5 DEF TurnStep
    <3>. QED
      BY <2>0, <3>1, OpenStep DEF Grounded!vars
  <2>. QED
    BY <2>1, <2>2, <2>3, <2>4
<1>2. CASE Environment \/ UNCHANGED vars
  BY <1>2 DEF Environment, SetScenario, ClearScenario, ClearAllScenarios, Expire,
              vars, locals, session, Logged, Grounded!vars
<1>. QED
  BY <1>1, <1>2 DEF Next

\* ChatSession implements GroundedChat: caching, auditing, retrying and the
\* interleaving of turns add no way to vouch for an unknown fact.
THEOREM Refinement == Spec => ImplementsGroundedChat
<1>. QED
  BY RefineInit, RefineStep, Invariance, PTL
  DEF Spec, ImplementsGroundedChat, Grounded!Spec

=============================================================================
