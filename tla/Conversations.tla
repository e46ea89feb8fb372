--------------------------- MODULE Conversations ---------------------------
(***************************************************************************)
(* What asking questions promises a user, without transactions, locks or   *)
(* clocks: a question and what became of it enter a conversation in one    *)
(* step, after all that is in it, together with its usage and history, or  *)
(* leave no trace; a title or a deletion comes between two of them.        *)
(* Implemented by AskQuestion.                                             *)
(***************************************************************************)
CONSTANTS
  Ask,       \* the questions
  Edit,      \* the requests that rename or delete
  Existing,  \* conversations there are from the start
  NoOne

VARIABLES
  talk,      \* the conversations: alive, title, and the questions charged to each
  asked,     \* the questions in each
  replied,   \* those of them that have a reply
  order,     \* which of them came before which
  history,   \* how each question ended, as the books have it
  usage,     \* the questions with an LLMUsage row
  told       \* how each question ended, as its caller has it

vars == <<talk, asked, replied, order, history, usage, told>>

\* A conversation a question creates goes by the question's own name.
Conversation == Existing \cup Ask
Absent == [alive |-> FALSE, title |-> NoOne, total |-> {}]

Init ==
  /\ talk = [c \in Conversation |-> [Absent EXCEPT !.alive = (c \in Existing)]]
  /\ asked = [c \in Conversation |-> {}] /\ replied = [c \in Conversation |-> {}]
  /\ order = [c \in Conversation |-> {}]
  /\ history = [a \in Ask |-> "none"] /\ usage = {}
  /\ told = [a \in Ask |-> "none"]

\* A question ends in an answer or in an error that the conversation shows as a reply.
\* What is charged to the conversation may have lost other questions: the total is the
\* one that was loaded, with the question's own cost.
Exchange(a, c, how, total) ==
  /\ told[a] = "none" /\ (c = a \/ talk[c].alive)
  /\ how \in {"answered", "failed"} /\ a \in total /\ total \subseteq replied[c] \cup {a}
  /\ talk' = [talk EXCEPT ![c] = [alive |-> TRUE, title |-> @.title, total |-> total]]
  /\ asked' = [asked EXCEPT ![c] = @ \cup {a}] /\ replied' = [replied EXCEPT ![c] = @ \cup {a}]
  /\ order' = [order EXCEPT ![c] = @ \cup (asked[c] \X {a})]
  /\ history' = [history EXCEPT ![a] = how] /\ usage' = usage \cup {a}
  /\ told' = [told EXCEPT ![a] = how]

\* A question breaks off: it has no reply and costs nothing.
BreakOff(a, c) ==
  /\ told[a] = "none" /\ (c = a \/ talk[c].alive)
  /\ talk' = [talk EXCEPT ![c] = [alive |-> TRUE, title |-> @.title, total |-> @.total]]
  /\ asked' = [asked EXCEPT ![c] = @ \cup {a}]
  /\ order' = [order EXCEPT ![c] = @ \cup (asked[c] \X {a})]
  /\ history' = [history EXCEPT ![a] = "broken"]
  /\ told' = [told EXCEPT ![a] = "broken"]
  /\ UNCHANGED <<replied, usage>>

\* A question is refused or fails without a trace.
Decline(a, how) ==
  /\ told[a] = "none" /\ how \in {"refused", "error"}
  /\ told' = [told EXCEPT ![a] = how]
  /\ UNCHANGED <<talk, asked, replied, order, history, usage>>

Rename(e, c) ==
  /\ talk[c].alive
  /\ talk' = [talk EXCEPT ![c].title = e]
  /\ UNCHANGED <<asked, replied, order, history, usage, told>>

\* The books keep what the conversation loses. A conversation may be deleted twice.
Delete(c) ==
  /\ talk' = [talk EXCEPT ![c] = Absent]
  /\ asked' = [asked EXCEPT ![c] = {}] /\ replied' = [replied EXCEPT ![c] = {}]
  /\ order' = [order EXCEPT ![c] = {}]
  /\ UNCHANGED <<history, usage, told>>

Next ==
  \/ \E a \in Ask, c \in Conversation :
       \/ \E how \in {"answered", "failed"}, total \in SUBSET Ask : Exchange(a, c, how, total)
       \/ BreakOff(a, c)
  \/ \E a \in Ask, how \in {"refused", "error"} : Decline(a, how)
  \/ \E c \in Conversation : Delete(c) \/ \E e \in Edit : Rename(e, c)

Spec == Init /\ [][Next]_vars

=============================================================================
