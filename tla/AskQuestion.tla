---------------------------- MODULE AskQuestion ----------------------------
(***************************************************************************)
(* Asking questions about a processed workbook (server_akash_version/core):*)
(* ExcelAgentService.ask_question with the conversation, its messages and  *)
(* totals, the query history and the LLM usage it records, the executor's  *)
(* generate-execute loop, and the requests that rename or delete a         *)
(* conversation meanwhile.  All requests are one user's.                   *)
(*                                                                         *)
(* One database session serves a request from its first query to the       *)
(* commit.  PostgreSQL at READ COMMITTED: the first UPDATE of the          *)
(* conversation's row makes every other writer of it wait for the commit.  *)
(* A cost is told apart by the question it was paid for, a total is the    *)
(* set of the questions it adds up.                                        *)
(***************************************************************************)
EXTENDS Naturals, FiniteSets

CONSTANTS
  Ask,            \* calls of ask_question
  Edit,           \* calls of update_conversation_title and delete_conversation
  Existing,       \* conversations there are from the start
  NoOne,
  MaxIterations,  \* settings.AGENT_MAX_ITERATIONS
  StepLimit       \* LangGraph's limit on the nodes one run may visit, which the code
                  \* leaves as it is

ASSUME AskAssumption ==
  /\ MaxIterations \in Nat \ {0} /\ StepLimit \in Nat
  /\ NoOne \notin Ask \cup Edit \cup Existing
  /\ Ask \cap Edit = {} /\ (Ask \cup Edit) \cap Existing = {}

VARIABLES
  stored,   \* committed: the conversations
  message,  \* committed: their messages
  usage,    \* committed: the questions with an LLMUsage row
  query,    \* committed: the state of each question's QueryHistory row
  lock,     \* the request that has written a conversation's row
  clock,    \* utc_now
  pc,
  conv,     \* the conversation each request names, or creates
  seen,     \* the total of the conversation as the request loaded it
  draft,    \* what its transaction has written
  tries,    \* AgentState.iterations
  outcome   \* what the caller was told

vars == <<stored, message, usage, query, lock, clock, pc, conv, seen, draft, tries,
          outcome>>

-----------------------------------------------------------------------------
\* A conversation a question creates goes by the question's own name.
Conversation == Existing \cup Ask
Actor == Ask \cup Edit
Absent == [alive |-> FALSE, title |-> NoOne, total |-> {}]
NoDraft == [messages |-> {}, usage |-> FALSE, query |-> "none"]
Message == [ask : Ask, role : {"user", "assistant"}, at : Nat]

Init ==
  /\ stored = [c \in Conversation |-> [Absent EXCEPT !.alive = (c \in Existing)]]
  /\ message = [c \in Conversation |-> {}]
  /\ usage = {} /\ query = [a \in Ask |-> "none"]
  /\ lock = [c \in Conversation |-> NoOne] /\ clock = 0
  /\ pc = [r \in Actor |-> "idle"] /\ conv = [r \in Actor |-> NoOne]
  /\ seen = [a \in Ask |-> {}] /\ draft = [a \in Ask |-> NoDraft]
  /\ tries = [a \in Ask |-> 0] /\ outcome = [r \in Actor |-> "none"]

database == <<stored, message, usage, query>>

Goto(r, l) == pc' = [pc EXCEPT ![r] = l]
Free(c) == lock[c] = NoOne
Unlocked(r) == [c \in Conversation |-> IF lock[c] = r THEN NoOne ELSE lock[c]]
Inserted(a, role) ==
  draft[a].messages \cup {[ask |-> a, role |-> role, at |-> clock]}

\* The call is over and its session closed.
End(r, o) ==
  /\ Goto(r, "done") /\ outcome' = [outcome EXCEPT ![r] = o]
  /\ lock' = Unlocked(r)
  /\ IF r \in Ask THEN /\ draft' = [draft EXCEPT ![r] = NoDraft]
                       /\ seen' = [seen EXCEPT ![r] = {}]
                       /\ tries' = [tries EXCEPT ![r] = 0]
                  ELSE UNCHANGED <<draft, seen, tries>>

-----------------------------------------------------------------------------
\* A question names a conversation or, by its own name, asks for a new one.
Submit(a, c) ==
  /\ pc[a] = "idle" /\ c \in Existing \cup {a}
  /\ conv' = [conv EXCEPT ![a] = c]
  /\ Goto(a, "load")
  /\ UNCHANGED <<database, lock, clock, seen, draft, tries, outcome>>

\* No data source, no schema or none that is ready, no such conversation.
Refuse(a) ==
  /\ pc[a] = "load"
  /\ End(a, "refused")
  /\ UNCHANGED <<database, clock, conv>>

\* get_conversation, or create_conversation, whose row no one else can name.
LoadConversation(a) ==
  /\ pc[a] = "load" /\ (conv[a] = a \/ stored[conv[a]].alive)
  /\ seen' = [seen EXCEPT ![a] = stored[conv[a]].total]
  /\ Goto(a, "user")
  /\ UNCHANGED <<database, lock, clock, conv, draft, tries, outcome>>

Gone(r) == conv[r] # r /\ ~stored[conv[r]].alive

\* Fault: the conversation's row is not written with the question.
AddUserMessageUnlocked(a) ==
  /\ pc[a] = "user" /\ ~Gone(a)
  /\ draft' = [draft EXCEPT ![a].messages = Inserted(a, "user"), ![a].query = "open"]
  /\ clock' = clock + 1
  /\ Goto(a, "run")
  /\ UNCHANGED <<database, lock, conv, seen, tries, outcome>>

\* add_message sets last_message_at: its flush waits for the row, then holds it
\* to the end.  The flush of the QueryHistory row follows.
AddUserMessage(a) ==
  /\ pc[a] = "user" /\ Free(conv[a]) /\ ~Gone(a)
  /\ lock' = [lock EXCEPT ![conv[a]] = a]
  /\ draft' = [draft EXCEPT ![a].messages = Inserted(a, "user"), ![a].query = "open"]
  /\ clock' = clock + 1
  /\ Goto(a, "run")
  /\ UNCHANGED <<database, conv, seen, tries, outcome>>

\* The LLM fails in _generate_code_node, or LangGraph ends a run that visits too many
\* nodes: CodeExecutorAgent.execute catches both.
GenerateFails(a) ==
  /\ pc[a] = "run"
  /\ draft' = [draft EXCEPT ![a].query = "failed"]
  /\ Goto(a, "usage")
  /\ UNCHANGED <<database, lock, clock, conv, seen, tries, outcome>>

\* The next attempt visits generate_code and execute_code, each failed one before it
\* visited these and handle_error.
WithinStepLimit(a) == 3 * tries[a] + 2 <= StepLimit

\* _generate_code_node, _execute_code_node and _should_retry, once around.
Attempt(a, ok) ==
  /\ pc[a] = "run" /\ WithinStepLimit(a)
  /\ tries' = [tries EXCEPT ![a] = @ + 1]
  /\ draft' = [draft EXCEPT ![a].query = IF ok THEN "answered" ELSE "failed"]
  /\ Goto(a, IF ok \/ tries'[a] >= MaxIterations THEN "usage" ELSE "run")
  /\ UNCHANGED <<database, lock, clock, conv, seen, outcome>>

\* The code the LLM wrote does not end: _safe_execute runs it on the event loop, with no
\* limit of time (AGENT_TIMEOUT_SECONDS is read nowhere), and holds the row.
LoopForever(a) ==
  /\ pc[a] = "run" /\ WithinStepLimit(a)
  /\ Goto(a, "looping")
  /\ UNCHANGED <<database, lock, clock, conv, seen, draft, tries, outcome>>

\* Fault: the LLM usage of a failed run is not recorded.
RecordUsageOfAnswers(a) ==
  /\ pc[a] = "usage"
  /\ draft' = [draft EXCEPT ![a].usage = (draft[a].query = "answered")]
  /\ Goto(a, "reply")
  /\ UNCHANGED <<database, lock, clock, conv, seen, tries, outcome>>

\* record_llm_usage, for failed runs too.
RecordUsage(a) ==
  /\ pc[a] = "usage"
  /\ draft' = [draft EXCEPT ![a].usage = TRUE]
  /\ Goto(a, "reply")
  /\ UNCHANGED <<database, lock, clock, conv, seen, tries, outcome>>

\* An exception that is not the database's, from rendering the answer the code
\* returned: the query is marked as failed and the transaction goes on.
BreakOff(a) ==
  /\ pc[a] = "usage" /\ draft[a].query = "answered"
  /\ draft' = [draft EXCEPT ![a].query = "broken"]
  /\ Goto(a, "commit")
  /\ UNCHANGED <<database, lock, clock, conv, seen, tries, outcome>>

\* The reply, or the error as one; add_cost on the total that was loaded.
AddReply(a) ==
  /\ pc[a] = "reply"
  /\ draft' = [draft EXCEPT ![a].messages = Inserted(a, "assistant")]
  /\ seen' = [seen EXCEPT ![a] = @ \cup {a}]
  /\ clock' = clock + 1
  /\ Goto(a, "commit")
  /\ UNCHANGED <<database, lock, conv, tries, outcome>>

\* Faults: the UPDATE writes every column as it was loaded; the messages are
\* committed without the usage.
CommitAllColumns(a) ==
  /\ pc[a] = "commit"
  /\ stored' = [stored EXCEPT ![conv[a]] =
                  [alive |-> TRUE, title |-> NoOne, total |-> seen[a]]]
  /\ message' = [message EXCEPT ![conv[a]] = @ \cup draft[a].messages]
  /\ usage' = IF draft[a].usage THEN usage \cup {a} ELSE usage
  /\ query' = [query EXCEPT ![a] = draft[a].query]
  /\ End(a, draft[a].query)
  /\ UNCHANGED <<clock, conv>>
CommitUnbilled(a) ==
  /\ pc[a] = "commit"
  /\ stored' = [stored EXCEPT ![conv[a]].alive = TRUE, ![conv[a]].total = @ \cup Ask]
  /\ message' = [message EXCEPT ![conv[a]] = @ \cup draft[a].messages]
  /\ query' = [query EXCEPT ![a] = "open"]
  /\ End(a, draft[a].query)
  /\ UNCHANGED <<usage, clock, conv>>

\* get_session commits.  The UPDATE has set the columns of the conversation that
\* changed: the total if a cost was added, never the title.
Commit(a) ==
  /\ pc[a] = "commit"
  /\ stored' = [stored EXCEPT ![conv[a]].alive = TRUE,
                  ![conv[a]].total = IF a \in seen[a] THEN seen[a] ELSE @]
  /\ message' = [message EXCEPT ![conv[a]] = @ \cup draft[a].messages]
  /\ usage' = IF draft[a].usage THEN usage \cup {a} ELSE usage
  /\ query' = [query EXCEPT ![a] = draft[a].query]
  /\ End(a, draft[a].query)
  /\ UNCHANGED <<clock, conv>>

\* Fault: the session of a request that failed is left open.
DatabaseFailsOpen(a) ==
  /\ pc[a] \in {"user", "usage", "reply", "commit"}
  /\ pc[a] = "user" => Free(conv[a])
  /\ Goto(a, "done") /\ outcome' = [outcome EXCEPT ![a] = "error"]
  /\ UNCHANGED <<database, lock, clock, conv, seen, draft, tries>>

\* The database refuses a flush (a conversation deleted meanwhile, an answer that
\* is no JSON, a lost connection): the flush undoes the whole transaction, and
\* what ask_question still returns ends in an error of the session.
DatabaseFails(a) ==
  /\ pc[a] \in {"user", "usage", "reply", "commit"}
  /\ pc[a] = "user" => Free(conv[a])
  /\ End(a, "error")
  /\ UNCHANGED <<database, clock, conv>>

-----------------------------------------------------------------------------
\* update_conversation_title and delete_conversation load the conversation ...
Open(e, c, task) ==
  /\ pc[e] = "idle" /\ stored[c].alive
  /\ conv' = [conv EXCEPT ![e] = c]
  /\ Goto(e, task)
  /\ UNCHANGED <<database, lock, clock, seen, draft, tries, outcome>>

\* ... and their flush waits for the row.  An UPDATE of a row that has gone is
\* an error, a DELETE is not.  Flush and commit are one step: nothing the models
\* speak of happens in between.
Rename(e) ==
  /\ pc[e] = "rename" /\ Free(conv[e])
  /\ IF Gone(e) THEN UNCHANGED stored /\ End(e, "error")
     ELSE /\ stored' = [stored EXCEPT ![conv[e]].title = e]
          /\ End(e, "renamed")
  /\ UNCHANGED <<message, usage, query, clock, conv>>

\* Fault: the messages are left.
DeleteRowOnly(e) ==
  /\ pc[e] = "delete" /\ Free(conv[e])
  /\ stored' = [stored EXCEPT ![conv[e]] = Absent]
  /\ End(e, "deleted")
  /\ UNCHANGED <<message, usage, query, clock, conv>>

\* The messages go with the conversation, those that were not loaded by the
\* foreign key; the usage and the history of its questions stay.
Delete(e) ==
  /\ pc[e] = "delete" /\ Free(conv[e])
  /\ stored' = [stored EXCEPT ![conv[e]] = Absent]
  /\ message' = [message EXCEPT ![conv[e]] = {}]
  /\ End(e, "deleted")
  /\ UNCHANGED <<usage, query, clock, conv>>

-----------------------------------------------------------------------------
Step(a) ==
  \/ Refuse(a) \/ LoadConversation(a) \/ AddUserMessage(a)
  \/ GenerateFails(a) \/ LoopForever(a) \/ \E ok \in BOOLEAN : Attempt(a, ok)
  \/ RecordUsage(a) \/ BreakOff(a) \/ AddReply(a) \/ Commit(a) \/ DatabaseFails(a)

Next ==
  \/ \E a \in Ask : Step(a) \/ \E c \in Conversation : Submit(a, c)
  \/ \E e \in Edit : Rename(e) \/ Delete(e)
                     \/ \E c \in Conversation, t \in {"rename", "delete"} : Open(e, c, t)

Spec == Init /\ [][Next]_vars

\* Generated code that does not end keeps the event loop.
LoopIsFree == \A a \in Ask : pc[a] # "looping"

\* While it is free, the event loop runs every request that is not waiting for the
\* database.  Requests served by other processes may go on after that, or not.
FairSpec == /\ Spec
            /\ \A a \in Ask : WF_vars(LoopIsFree /\ Step(a))
            /\ \A e \in Edit : WF_vars(LoopIsFree /\ (Rename(e) \/ Delete(e)))

-----------------------------------------------------------------------------

\* The two messages of a question in a conversation's transcript.
Asked(c, a) == {m \in message[c] : m.ask = a /\ m.role = "user"}
Replied(c, a) == {m \in message[c] : m.ask = a /\ m.role = "assistant"}

\* The transcript of a conversation is question, reply, question, reply, whatever
\* number of questions are asked at once: no message of another question lies
\* between a question and its reply, though the order is only created_at's.
TranscriptAlternates ==
  \A c \in Conversation : \A a \in Ask : \A u \in Asked(c, a), r \in Replied(c, a) :
    /\ u.at < r.at
    /\ \A m \in message[c] : m.at < u.at \/ m.at > r.at \/ m.ask = a

\* Messages, usage, totals and history are written by separate statements, any of
\* which may fail: a reply is there with its question and its usage, a question
\* without a reply is one that broke off, and nothing is charged to a
\* conversation but the questions that were replied to in it.
BooksAgree ==
  \A c \in Conversation : \A a \in Ask :
    /\ Replied(c, a) # {} => Asked(c, a) # {} /\ a \in usage /\ query[a] \in {"answered", "failed"}
    /\ Asked(c, a) # {} /\ Replied(c, a) = {} => query[a] = "broken"
    /\ a \in stored[c].total => Replied(c, a) # {}

\* A caller who was given an answer finds it in the conversation for as long as
\* the conversation is there, and finds its usage even after that.
AnswerIsOnRecord ==
  \A a \in Ask : outcome[a] = "answered" =>
    /\ query[a] = "answered" /\ a \in usage
    /\ stored[conv[a]].alive => Replied(conv[a], a) # {}

\* Nothing is left of a deleted conversation, also when questions were waiting for
\* it or running in it at the time.
DeletedIsGone == \A c \in Conversation : ~stored[c].alive => message[c] = {} /\ stored[c].total = {}

\* A new title is not undone by a question that loaded the conversation before.
RenameIsKept ==
  [][\A c \in Conversation : stored[c].alive /\ stored'[c].alive /\ stored[c].title # NoOne
       => stored'[c].title # NoOne]_vars

\* What messages tell of the questions in a conversation, those that have a reply and
\* which of them came before which.
QuestionsOf(messages) == {a \in Ask : \E m \in messages : m.ask = a /\ m.role = "user"}
AnswersOf(messages) == {a \in Ask : \E m \in messages : m.ask = a /\ m.role = "assistant"}
OrderOf(messages) ==
  {p \in Ask \X Ask : /\ p[1] # p[2]
                      /\ \E m, n \in messages : m.ask = p[1] /\ n.ask = p[2] /\ m.at < n.at}

\* The messages of an exchange, its usage, its history and its cost come into the
\* tables of a conversation like one step, after all that was there, or not at all
\* (module Conversations).
Serial == INSTANCE Conversations WITH
  talk <- stored,
  asked <- [c \in Conversation |-> QuestionsOf(message[c])],
  replied <- [c \in Conversation |-> AnswersOf(message[c])],
  order <- [c \in Conversation |-> OrderOf(message[c])],
  history <- query,
  usage <- usage,
  told <- [a \in Ask |-> outcome[a]]
ImplementsConversations == Serial!Spec

\* Every request ends and gives the conversation back, with questions, edits and failures
\* of the database in any order and however often the generated code fails, unless
\* generated code does not end: then nothing need ever end.
EveryRequestEnds ==
  \A r \in Actor :
    pc[r] # "idle" ~> \/ pc[r] = "done" /\ \A c \in Conversation : lock[c] # r
                      \/ ~LoopIsFree

=============================================================================
