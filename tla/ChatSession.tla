---------------------------- MODULE ChatSession -----------------------------
(***************************************************************************)
(* One ConversationState of rosetta shared by the threads that run         *)
(* coordinator.answer for it (POST /chat handlers are plain `def`s, which  *)
(* FastAPI runs in a thread pool) and by the scenario endpoints.  No lock  *)
(* guards the state, so the steps of the turns interleave between any two  *)
(* reads or writes of it.                                                  *)
(*                                                                         *)
(* Texts are abstracted to what the auditor and the properties tell apart: *)
(* the facts they state, the first cell they mention, what kind of text    *)
(* they are.  A cached answer is named by the turn that stored it: its     *)
(* text and evidence are that turn's and change no more.  Counters are     *)
(* zeroed where their loop or call ends.                                   *)
(***************************************************************************)
EXTENDS Integers, Sequences, FiniteSets

CONSTANTS
  Turn,              \* calls of answer(), each one chat message
  Question,          \* normalised questions
  Override,          \* scenario overrides (a cell with its new value)
  Cell,              \* cells an answer may mention
  Claim,             \* numbers, refs and audit categories a text may state
  Native,            \* claims the workbook itself backs
  MAX_TOOL_TURNS,    \* LLM calls per attempt
  MAX_AUDIT_RETRIES, \* attempts after the first
  MaxToolCalls,      \* bound: tool calls of one turn
  NoTurn, NoCell

ASSUME ChatAssumption ==
  /\ Native \subseteq Claim
  /\ MAX_TOOL_TURNS \in Nat \ {0}
  /\ MAX_AUDIT_RETRIES \in Nat
  /\ MaxToolCalls \in Nat
  /\ NoTurn \notin Turn
  /\ NoCell \notin Cell

Scenario == SUBSET Override
Key      == Question \X Scenario   \* what question_hash tells apart

VARIABLES
  \* the shared ConversationState
  messages,   \* the chat history: role and the turn whose text it is
  active,     \* active_entity
  overrides,  \* scenario_overrides
  cache,      \* answer_cache: who stored the entry of each key
  stale,      \* keys whose entry is older than ROSETTA_CACHE_TTL_SECS
  log,        \* tool_call_log
  \* the locals of each call of answer()
  pc, question, key, context, toolTurns, toolCalls, retries,
  text, status, evidence, delegations,
  \* the process environment
  apiKey

session == <<messages, active, overrides, cache, stale, log>>
locals  == <<pc, question, key, context, toolTurns, toolCalls, retries,
             text, status, evidence, delegations>>
vars    == <<session, locals, apiKey>>

-----------------------------------------------------------------------------
Kind    == {"none", "answer", "capped", "partial", "declined"}
Text    == [claims : SUBSET Claim, cell : Cell \cup {NoCell}, kind : Kind]
Message == [role : {"user", "assistant"}, by : Turn]
\* What _build_claude_messages took from the shared state.
Context == [entity : Cell \cup {NoCell}, overrides : Scenario]
\* A tool call: whose it is and what it returned.
ToolCall == [by : Turn, claims : SUBSET Claim]
PC == {"idle", "lookup", "build", "llm", "tools", "delegate", "audit",
       "evidence", "store", "reply", "done", "failed"}

NoText == [claims |-> {}, cell |-> NoCell, kind |-> "none"]

TypeOK ==
  /\ messages \in Seq(Message)
  /\ active \in Cell \cup {NoCell}
  /\ overrides \in Scenario
  /\ cache \in [Key -> Turn \cup {NoTurn}]
  /\ stale \subseteq Key
  /\ log \in Seq(ToolCall)
  /\ pc \in [Turn -> PC]
  /\ question \in [Turn -> Question]
  /\ key \in [Turn -> Key]
  /\ context \in [Turn -> Context]
  /\ toolTurns \in [Turn -> 0..MAX_TOOL_TURNS]
  /\ toolCalls \in [Turn -> 0..MaxToolCalls]
  /\ retries \in [Turn -> 0..MAX_AUDIT_RETRIES]
  /\ text \in [Turn -> Text]
  /\ status \in [Turn -> {"none", "passed", "unknown"}]
  /\ evidence \in [Turn -> SUBSET Turn]
  /\ delegations \in [Turn -> Nat]
  /\ apiKey \in BOOLEAN

Init ==
  /\ messages = <<>>
  /\ active = NoCell
  /\ overrides = {}
  /\ cache = [k \in Key |-> NoTurn]
  /\ stale = {}
  /\ log = <<>>
  /\ pc = [t \in Turn |-> "idle"]
  /\ question \in [Turn -> Question]
  /\ key = [t \in Turn |-> <<question[t], {}>>]
  /\ context = [t \in Turn |-> [entity |-> NoCell, overrides |-> {}]]
  /\ toolTurns = [t \in Turn |-> 0]
  /\ toolCalls = [t \in Turn |-> 0]
  /\ retries = [t \in Turn |-> 0]
  /\ text = [t \in Turn |-> NoText]
  /\ status = [t \in Turn |-> "none"]
  /\ evidence = [t \in Turn |-> {}]
  /\ delegations = [t \in Turn |-> 0]
  /\ apiKey \in BOOLEAN

-----------------------------------------------------------------------------
\* Operators

\* The claims tool results of the whole session back.
Logged == UNION {log[i].claims : i \in DOMAIN log}

\* auditor.audit on a text: everything stated is in a tool result of the
\* session or in the workbook (its numbers, refs, named ranges and findings).
AuditPasses(txt) == txt.claims \subseteq Native \cup Logged

Fresh(k) == cache[k] # NoTurn /\ k \notin stale

\* The places of tool_call_log[-n:]; with n = 0 Python's slice is the whole log.
Recent(n) == {i \in DOMAIN log : n = 0 \/ i > Len(log) - n}

\* The owners of the calls whose refs _extract_evidence_refs collects.
Owners(places) == {log[i].by : i \in places}

Goto(t, label) == pc' = [pc EXCEPT ![t] = label]

-----------------------------------------------------------------------------
\* coordinator.answer, one action per stretch that other threads can see

\* state.append_user(message)
AppendUser(t) ==
  /\ pc[t] = "idle"
  /\ messages' = Append(messages, [role |-> "user", by |-> t])
  /\ Goto(t, "lookup")
  /\ UNCHANGED <<active, overrides, cache, stale, log, question, key, context,
                 toolTurns, toolCalls, retries, text, status, evidence,
                 delegations, apiKey>>

\* Fault: a hit returns at once, without append_assistant.
CacheHitUnrecorded(t) ==
  LET k  == <<question[t], overrides>>
      by == cache[k]
  IN  /\ pc[t] = "lookup"
      /\ Fresh(k)
      /\ key' = [key EXCEPT ![t] = k]
      /\ context' = [context EXCEPT ![t] = context[by]]
      /\ text' = [text EXCEPT ![t] = text[by]]
      /\ status' = [status EXCEPT ![t] = status[by]]
      /\ evidence' = [evidence EXCEPT ![t] = evidence[by]]
      /\ Goto(t, "done")
      /\ UNCHANGED <<session, question, toolTurns, toolCalls, retries,
                     delegations, apiKey>>

\* question_hash and a fresh entry: the cached answer becomes this turn's.
CacheHit(t) ==
  LET k  == <<question[t], overrides>>
      by == cache[k]
  IN  /\ pc[t] = "lookup"
      /\ Fresh(k)
      /\ key' = [key EXCEPT ![t] = k]
      /\ context' = [context EXCEPT ![t] = context[by]]
      /\ text' = [text EXCEPT ![t] = text[by]]
      /\ status' = [status EXCEPT ![t] = status[by]]
      /\ evidence' = [evidence EXCEPT ![t] = evidence[by]]
      /\ Goto(t, "reply")
      /\ UNCHANGED <<session, question, toolTurns, toolCalls, retries,
                     delegations, apiKey>>

\* No usable entry: on to the LLM, or to the answer that says it cannot be
\* reached (no key in the environment, no SDK).
CacheMiss(t) ==
  LET k == <<question[t], overrides>>
  IN  /\ pc[t] = "lookup"
      /\ ~Fresh(k)
      /\ key' = [key EXCEPT ![t] = k]
      /\ IF apiKey
         THEN /\ Goto(t, "build")
              /\ UNCHANGED <<text, status>>
         ELSE /\ text' = [text EXCEPT ![t].kind = "declined"]
              /\ status' = [status EXCEPT ![t] = "unknown"]
              /\ Goto(t, "reply")
      /\ UNCHANGED <<session, question, context, toolTurns, toolCalls, retries,
                     evidence, delegations, apiKey>>

\* _build_claude_messages(state): entity and overrides of this moment are the
\* context the question is put in.
BuildMessages(t) ==
  /\ pc[t] = "build"
  /\ context' = [context EXCEPT ![t] = [entity    |-> active,
                                        overrides |-> overrides]]
  /\ Goto(t, "llm")
  /\ UNCHANGED <<session, question, key, toolTurns, toolCalls, retries, text,
                 status, evidence, delegations, apiKey>>

\* The LLM answers with tool_use and its first block is executed and logged
\* (from "llm"), or the next block of the same response is (from "tools").
CallTool(t, claims) ==
  /\ \/ /\ pc[t] = "llm"
        /\ toolTurns[t] < MAX_TOOL_TURNS
        /\ toolTurns' = [toolTurns EXCEPT ![t] = @ + 1]
     \/ /\ pc[t] = "tools"
        /\ UNCHANGED toolTurns
  /\ toolCalls[t] < MaxToolCalls
  /\ toolCalls' = [toolCalls EXCEPT ![t] = @ + 1]
  /\ log' = Append(log, [by |-> t, claims |-> claims])
  /\ \/ Goto(t, "llm")
     \/ /\ toolCalls[t] + 1 < MaxToolCalls
        /\ Goto(t, "tools")
  /\ UNCHANGED <<messages, active, overrides, cache, stale, question, key,
                 context, retries, text, status, evidence, delegations, apiKey>>

\* The LLM ends its turn with a text, with a delegation marker or without.
LlmAnswers(t, claims, cell) ==
  /\ pc[t] = "llm"
  /\ toolTurns[t] < MAX_TOOL_TURNS
  /\ text' = [text EXCEPT ![t] = [claims |-> claims, cell |-> cell,
                                  kind |-> "answer"]]
  /\ toolTurns' = [toolTurns EXCEPT ![t] = 0]
  /\ Goto(t, "delegate") \/ Goto(t, "audit")
  /\ UNCHANGED <<session, question, key, context, toolCalls, retries,
                 status, evidence, delegations, apiKey>>

\* The for loop of _run_tool_loop is exhausted: a fixed text that states nothing.
HitToolCap(t) ==
  /\ pc[t] = "llm"
  /\ toolTurns[t] = MAX_TOOL_TURNS
  /\ text' = [text EXCEPT ![t] = [NoText EXCEPT !.kind = "capped"]]
  /\ toolTurns' = [toolTurns EXCEPT ![t] = 0]
  /\ Goto(t, "audit")
  /\ UNCHANGED <<session, question, key, context, toolCalls, retries,
                 status, evidence, delegations, apiKey>>

\* client.messages.create raises: answer() has no handler, the request ends
\* in an error and no assistant message is appended.
LlmFails(t) ==
  /\ pc[t] = "llm"
  /\ toolTurns[t] < MAX_TOOL_TURNS
  /\ Goto(t, "failed")
  /\ UNCHANGED <<session, question, key, context, toolTurns, toolCalls, retries,
                 text, status, evidence, delegations, apiKey>>

\* Fault: the specialist's prose is looked through for markers again.
DelegateAgain(t, found, prose, cell) ==
  /\ pc[t] = "delegate"
  /\ text' = [text EXCEPT ![t].claims = @ \cup prose,
                          ![t].cell = IF @ = NoCell THEN cell ELSE @]
  /\ delegations' = [delegations EXCEPT ![t] = IF found THEN @ + 1 ELSE @]
  /\ Goto(t, "audit") \/ Goto(t, "delegate")
  /\ UNCHANGED <<session, question, key, context, toolTurns, toolCalls, retries,
                 status, evidence, apiKey>>

\* _maybe_delegate_to_explainer: the marker is replaced by the specialist's
\* prose, or, when its ref is no cell of the workbook, by a note that quotes it
\* with no specialist run; either may state anything.
Delegate(t, found, prose, cell) ==
  /\ pc[t] = "delegate"
  /\ text' = [text EXCEPT ![t].claims = @ \cup prose,
                          ![t].cell = IF @ = NoCell THEN cell ELSE @]
  /\ delegations' = [delegations EXCEPT ![t] = IF found THEN @ + 1 ELSE @]
  /\ Goto(t, "audit")
  /\ UNCHANGED <<session, question, key, context, toolTurns, toolCalls, retries,
                 status, evidence, apiKey>>

\* Fault: the verdict of the audit is not looked at.
AuditPassUnchecked(t) ==
  /\ pc[t] = "audit"
  /\ status' = [status EXCEPT ![t] = "passed"]
  /\ Goto(t, "evidence")
  /\ UNCHANGED <<session, question, key, context, toolTurns, toolCalls, retries,
                 text, evidence, delegations, apiKey>>

\* auditor.audit against the whole log of the session.
AuditPass(t) ==
  /\ pc[t] = "audit"
  /\ AuditPasses(text[t])
  /\ status' = [status EXCEPT ![t] = "passed"]
  /\ Goto(t, "evidence")
  /\ UNCHANGED <<session, question, key, context, toolTurns, toolCalls, retries,
                 text, evidence, delegations, apiKey>>

\* Fault: the retries are not compared with their maximum.
AuditRetryUnbounded(t) ==
  /\ pc[t] = "audit"
  /\ ~AuditPasses(text[t])
  /\ retries' = [retries EXCEPT ![t] = @ + 1]
  /\ Goto(t, "llm")
  /\ UNCHANGED <<session, question, key, context, toolTurns, toolCalls, text,
                 status, evidence, delegations, apiKey>>

\* A failed audit is retried with the violations fed back ...
AuditRetry(t) ==
  /\ pc[t] = "audit"
  /\ ~AuditPasses(text[t])
  /\ retries[t] < MAX_AUDIT_RETRIES
  /\ retries' = [retries EXCEPT ![t] = @ + 1]
  /\ Goto(t, "llm")
  /\ UNCHANGED <<session, question, key, context, toolTurns, toolCalls, text,
                 status, evidence, delegations, apiKey>>

\* Fault: > for >=.
AuditGiveUpTooLate(t) ==
  /\ pc[t] = "audit"
  /\ ~AuditPasses(text[t])
  /\ retries[t] > MAX_AUDIT_RETRIES
  /\ text' = [text EXCEPT ![t].kind = "partial"]
  /\ status' = [status EXCEPT ![t] = "unknown"]
  /\ Goto(t, "evidence")
  /\ UNCHANGED <<session, question, key, context, toolTurns, toolCalls, retries,
                 evidence, delegations, apiKey>>

\* Fault: the status of the partial answer is not lowered.
AuditGiveUpVouching(t) ==
  /\ pc[t] = "audit"
  /\ ~AuditPasses(text[t])
  /\ retries[t] >= MAX_AUDIT_RETRIES
  /\ text' = [text EXCEPT ![t].kind = "partial"]
  /\ status' = [status EXCEPT ![t] = "passed"]
  /\ Goto(t, "evidence")
  /\ UNCHANGED <<session, question, key, context, toolTurns, toolCalls, retries,
                 evidence, delegations, apiKey>>

\* ... and at the last attempt wrapped as a partial answer.
AuditGiveUp(t) ==
  /\ pc[t] = "audit"
  /\ ~AuditPasses(text[t])
  /\ retries[t] >= MAX_AUDIT_RETRIES
  /\ text' = [text EXCEPT ![t].kind = "partial"]
  /\ status' = [status EXCEPT ![t] = "unknown"]
  /\ Goto(t, "evidence")
  /\ UNCHANGED <<session, question, key, context, toolTurns, toolCalls, retries,
                 evidence, delegations, apiKey>>

\* Evidence from the tail of the log, active_entity from the final text.
CollectEvidence(t) ==
  /\ pc[t] = "evidence"
  /\ evidence' = [evidence EXCEPT ![t] = Owners(Recent(toolCalls[t]))]
  /\ active' = IF text[t].cell = NoCell THEN active ELSE text[t].cell
  /\ Goto(t, IF status[t] = "passed" THEN "store" ELSE "reply")
  /\ UNCHANGED <<messages, overrides, cache, stale, log, question, key, context,
                 toolTurns, toolCalls, retries, text, status,
                 delegations, apiKey>>

\* Fault: the key is computed when the answer is stored.
StoreAnswerUnderNewKey(t) ==
  /\ pc[t] = "store"
  /\ cache' = [cache EXCEPT ![<<question[t], overrides>>] = t]
  /\ stale' = stale \ {<<question[t], overrides>>}
  /\ Goto(t, "reply")
  /\ UNCHANGED <<messages, active, overrides, log, question, key, context,
                 toolTurns, toolCalls, retries, text, status, evidence,
                 delegations, apiKey>>

\* state.answer_cache[qh] = CachedAnswer(...), under the key of the look-up.
StoreAnswer(t) ==
  /\ pc[t] = "store"
  /\ cache' = [cache EXCEPT ![key[t]] = t]
  /\ stale' = stale \ {key[t]}
  /\ Goto(t, "reply")
  /\ UNCHANGED <<messages, active, overrides, log, question, key, context,
                 toolTurns, toolCalls, retries, text, status, evidence,
                 delegations, apiKey>>

\* state.append_assistant(...) and return.
Reply(t) ==
  /\ pc[t] = "reply"
  /\ messages' = Append(messages, [role |-> "assistant", by |-> t])
  /\ Goto(t, "done")
  /\ toolCalls' = [toolCalls EXCEPT ![t] = 0]
  /\ retries' = [retries EXCEPT ![t] = 0]
  /\ delegations' = [delegations EXCEPT ![t] = 0]
  /\ UNCHANGED <<active, overrides, cache, stale, log, question, key, context,
                 toolTurns, text, status, evidence, apiKey>>

-----------------------------------------------------------------------------
\* The scenario endpoints and time

SetScenario(ovr) ==
  /\ overrides' = ovr
  /\ UNCHANGED <<messages, active, cache, stale, log, locals, apiKey>>

ClearScenario(o) ==
  /\ overrides' = overrides \ {o}
  /\ UNCHANGED <<messages, active, cache, stale, log, locals, apiKey>>

ClearAllScenarios ==
  /\ overrides' = {}
  /\ UNCHANGED <<messages, active, cache, stale, log, locals, apiKey>>

\* An entry's age passes the TTL.
Expire(k) ==
  /\ Fresh(k)
  /\ stale' = stale \cup {k}
  /\ UNCHANGED <<messages, active, overrides, cache, log, locals, apiKey>>

-----------------------------------------------------------------------------
TurnStep(t) ==
  \/ AppendUser(t)
  \/ CacheHit(t)
  \/ CacheMiss(t)
  \/ BuildMessages(t)
  \/ \E claims \in SUBSET Claim : CallTool(t, claims)
  \/ \E claims \in SUBSET Claim, cell \in Cell \cup {NoCell} :
        LlmAnswers(t, claims, cell)
  \/ HitToolCap(t)
  \/ LlmFails(t)
  \/ \E found \in BOOLEAN, prose \in SUBSET Claim, cell \in Cell \cup {NoCell} :
        Delegate(t, found, prose, cell)
  \/ AuditPass(t)
  \/ AuditRetry(t)
  \/ AuditGiveUp(t)
  \/ CollectEvidence(t)
  \/ StoreAnswer(t)
  \/ Reply(t)

Environment ==
  \/ \E ovr \in Scenario : SetScenario(ovr)
  \/ \E o \in Override : ClearScenario(o)
  \/ ClearAllScenarios
  \/ \E k \in Key : Expire(k)

Next == (\E t \in Turn : TurnStep(t)) \/ Environment

Spec == Init /\ [][Next]_vars

-----------------------------------------------------------------------------
\* Properties

\* No answer is badged "passed" unless everything it states is in the workbook
\* or in a tool result of the session: also when it was served from the cache,
\* when the log it was audited against is another turn's, and at every later
\* moment (coordinator.answer, auditor.audit).
PassedIsGrounded ==
  \A t \in Turn : status[t] = "passed" => text[t].claims \subseteq Native \cup Logged

\* What sits in answer_cache passed its audit, answers the question of its key,
\* and is filed under the key its own turn looked up, whatever the overrides
\* became while the turn ran (coordinator.answer, question_hash).
CacheIsSound ==
  \A k \in Key : cache[k] # NoTurn =>
     /\ status[cache[k]] = "passed"
     /\ key[cache[k]] = k
     /\ k[1] = question[cache[k]]

\* The specialist runs at most once for every attempt at an answer, and only a
\* failed audit makes another attempt: never more often than the retries so far
\* allow, never more than 1 + MAX_AUDIT_RETRIES times for a message (the retry
\* loop of answer()). It is less than plan_v1_5.md:350 asks, "at most once per
\* turn", which the code does not keep: with one retry it may run twice.
SpecialistBounded ==
  \A t \in Turn : /\ delegations[t] <= 1 + retries[t]
                  /\ retries[t] <= MAX_AUDIT_RETRIES

\* In the shared history each message of a user is there once and before its
\* reply; the reply is there once and exactly when the turn has returned: a
\* cached answer and a refused one are recorded like any other, a turn that
\* ended in an exception leaves its question unanswered (append_user,
\* append_assistant on every path of answer()).
HistoryPairsUp ==
  \A t \in Turn :
    LET asks    == {i \in DOMAIN messages : messages[i] = [role |-> "user", by |-> t]}
        replies == {i \in DOMAIN messages : messages[i] = [role |-> "assistant", by |-> t]}
    IN  /\ Cardinality(asks) = (IF pc[t] = "idle" THEN 0 ELSE 1)
        /\ Cardinality(replies) = (IF pc[t] = "done" THEN 1 ELSE 0)
        /\ \A i \in asks, j \in replies : i < j

\* Every message that was taken in is answered or ends in an error: the tool
\* loop and the audit retries are bounded (MAX_TOOL_TURNS, MAX_AUDIT_RETRIES).
EveryTurnEnds ==
  \A t \in Turn : pc[t] = "lookup" ~> pc[t] \in {"done", "failed"}

\* A session never vouches for what it does not know (module GroundedChat).
Grounded == INSTANCE GroundedChat WITH
  known   <- Native \cup Logged,
  verdict <- [t \in Turn |-> CASE pc[t] = "done"   -> status[t]
                             [] pc[t] = "failed" -> "failed"
                             [] OTHER            -> "open"],
  said    <- [t \in Turn |-> IF pc[t] = "done" THEN text[t].claims ELSE {}]

ImplementsGroundedChat == Grounded!Spec

-----------------------------------------------------------------------------
\* What the repository says of the code and the code does not keep

\* coordinator.py:330 "Pull cell refs touched by recent tool calls": the
\* evidence of an answer comes from the turn's own tool calls.
EvidenceIsOwn ==
  \A t \in Turn : pc[t] = "store" => evidence[t] \subseteq {t}

\* plan_v1_5.md:205 "Cache hit only if `scenario_overrides == {}` OR the
\* scenario signature matches exactly": what a hit serves was made under the
\* overrides in force.
HitMatchesScenario ==
  [][\A t \in Turn : CacheHit(t) => context'[t].overrides = overrides]_vars

-----------------------------------------------------------------------------
\* A thread that runs answer() keeps running (an LLM call ends, with an answer
\* or with the client's timeout error); no user is bound to ask anything.
FairSpec == Spec /\ \A t \in Turn : WF_vars(pc[t] # "idle" /\ TurnStep(t))

=============================================================================
