------------------------- MODULE AskQuestionProofs -------------------------
(***************************************************************************)
(* Proofs about AskQuestion, for any questions, edits and conversations:   *)
(* one question at a time writes to a conversation, its messages are       *)
(* committed together and in order, the books agree, what is deleted or    *)
(* renamed stays so, and the whole implements Conversations.               *)
(***************************************************************************)
EXTENDS AskQuestion, TLAPS

\* Where a question has written the conversation's row and not committed yet.
Inside == {"run", "looping", "usage", "reply", "commit"}
Labels == Inside \cup {"idle", "load", "user", "rename", "delete", "done"}
QueryStates == {"none", "open", "failed", "answered", "broken"}
Row == [alive : BOOLEAN, title : Edit \cup {NoOne}, total : SUBSET Ask]
Draft == [messages : SUBSET Message, usage : BOOLEAN, query : QueryStates]

UserMessage(a, t) == [ask |-> a, role |-> "user", at |-> t]
AssistantMessage(a, t) == [ask |-> a, role |-> "assistant", at |-> t]

TypeOK ==
  /\ stored \in [Conversation -> Row] /\ message \in [Conversation -> SUBSET Message]
  /\ usage \in SUBSET Ask /\ query \in [Ask -> QueryStates]
  /\ lock \in [Conversation -> Actor \cup {NoOne}] /\ clock \in Nat
  /\ pc \in [Actor -> Labels] /\ conv \in [Actor -> Conversation \cup {NoOne}]
  /\ seen \in [Ask -> SUBSET Ask] /\ draft \in [Ask -> Draft]
  /\ DOMAIN outcome = Actor

\* A question that writes to a conversation holds its row, and the conversation is
\* there or is the question's own.
RowIsHeld ==
  /\ \A a \in Ask : pc[a] \notin {"idle", "rename", "delete"} => conv[a] \in Existing \cup {a}
  /\ \A e \in Edit : pc[e] \in {"rename", "delete"} => conv[e] \in Conversation
  /\ \A a \in Ask : pc[a] \in Inside => lock[conv[a]] = a /\ ~Gone(a)

\* What the transaction has written, by how far the question has come.
DraftFits ==
  \A a \in Ask :
    /\ pc[a] \in {"idle", "load", "user", "done"} => draft[a] = NoDraft
    /\ pc[a] \in {"run", "usage", "reply"} =>
         \E t \in Nat : draft[a].messages = {UserMessage(a, t)}
    /\ pc[a] \in {"run", "usage"} => ~draft[a].usage
    /\ pc[a] \in {"usage", "reply"} => draft[a].query \in {"answered", "failed"}
    /\ pc[a] = "reply" => draft[a].usage
    /\ pc[a] = "commit" =>
         \/ /\ draft[a].query = "broken" /\ ~draft[a].usage /\ a \notin seen[a]
            /\ \E t \in Nat : draft[a].messages = {UserMessage(a, t)}
         \/ /\ draft[a].query \in {"answered", "failed"} /\ draft[a].usage /\ a \in seen[a]
            /\ \E t, v \in Nat : /\ t < v
                                 /\ draft[a].messages = {UserMessage(a, t), AssistantMessage(a, v)}

\* The total a question loaded is made of questions that have their reply in the
\* conversation, unless that was deleted meanwhile; its own comes with its reply.
SeenIsReplied ==
  \A a \in Ask :
    /\ pc[a] # "commit" => a \notin seen[a]
    /\ pc[a] \in {"user"} \cup Inside /\ ~Gone(a) =>
         \A b \in seen[a] \ {a} : Replied(conv[a], b) # {}

\* Nothing is on record of a question that has not committed.
NothingYet ==
  \A a \in Ask :
    /\ pc[a] # "done" => /\ query[a] = "none" /\ a \notin usage
                         /\ \A c \in Conversation : /\ a \notin stored[c].total
                                                    /\ \A m \in message[c] : m.ask # a
                         /\ outcome[a] = "none"
    /\ pc[a] # "done" => ~stored[a].alive

\* Messages are in the past, and those of a question that holds a conversation are
\* younger than all that are in it.
InThePast ==
  /\ \A c \in Conversation : \A m \in message[c] : m.at < clock
  /\ \A a \in Ask : \A m \in draft[a].messages : m.at < clock
  /\ \A a \in Ask : pc[a] \in Inside =>
       \A u \in draft[a].messages, m \in message[conv[a]] : m.at < u.at

IInv ==
  /\ TypeOK /\ RowIsHeld /\ DraftFits /\ SeenIsReplied /\ NothingYet /\ InThePast
  /\ BooksAgree /\ TranscriptAlternates /\ AnswerIsOnRecord /\ DeletedIsGone

-----------------------------------------------------------------------------
\* What the steps do to what they share.

LEMMA Apart == /\ \A a \in Ask : a # NoOne /\ a \notin Existing /\ a \notin Edit
               /\ \A e \in Edit : e # NoOne /\ e \notin Ask
               /\ \A c \in Conversation : c # NoOne
               /\ \A a \in Ask : a \in Actor /\ a \in Conversation
               /\ \A e \in Edit : e \in Actor
BY AskAssumption DEF Actor, Conversation

\* End leaves every other question and its row alone.
LEMMA EndOfOne ==
  ASSUME TypeOK, NEW r \in Actor, NEW o, End(r, o)
  PROVE  /\ pc' = [pc EXCEPT ![r] = "done"] /\ outcome' = [outcome EXCEPT ![r] = o]
         /\ \A c \in Conversation : lock'[c] = IF lock[c] = r THEN NoOne ELSE lock[c]
         /\ \A a \in Ask : /\ draft'[a] = IF a = r THEN NoDraft ELSE draft[a]
                           /\ seen'[a] = IF a = r THEN {} ELSE seen[a]
BY DEF End, Goto, Unlocked, TypeOK

\* A question is changed by its own steps only, and keeps the row it holds.
LEMMA OthersWait ==
  ASSUME TypeOK, [Next]_vars, NEW a \in Ask
  PROVE  \/ Step(a) \/ \E c \in Conversation : Submit(a, c)
         \/ /\ pc'[a] = pc[a] /\ conv'[a] = conv[a] /\ seen'[a] = seen[a]
            /\ draft'[a] = draft[a] /\ outcome'[a] = outcome[a]
            /\ \A c \in Conversation : lock[c] = a => lock'[c] = a
<1> DEFINE Waits == /\ pc'[a] = pc[a] /\ conv'[a] = conv[a] /\ seen'[a] = seen[a]
                    /\ draft'[a] = draft[a] /\ outcome'[a] = outcome[a]
                    /\ \A c \in Conversation : lock[c] = a => lock'[c] = a
<1>1. ASSUME NEW r \in Actor, r # a, NEW o, End(r, o), UNCHANGED conv
      PROVE  Waits
  <2>1. a \in Actor
    BY Apart
  <2> QED
    BY <1>1, <2>1, EndOfOne, Apart DEF TypeOK
<1>2. ASSUME NEW b \in Ask, b # a, Step(b)
      PROVE  Waits
  <2>1. a \in Actor /\ b \in Actor
    BY Apart
  <2>2. CASE \/ Refuse(b) \/ Commit(b) \/ DatabaseFails(b)
    <3>1. UNCHANGED conv /\ \E o : End(b, o)
      BY <2>2 DEF Refuse, Commit, DatabaseFails
    <3> HIDE DEF Waits
    <3> QED
      BY <1>1, <1>2, <2>1, <3>1
  <2>3. CASE AddUserMessage(b)
    <3>1. /\ Free(conv[b]) /\ lock' = [lock EXCEPT ![conv[b]] = b] /\ conv' = conv
          /\ pc' = [pc EXCEPT ![b] = "run"] /\ seen' = seen /\ outcome' = outcome
          /\ \E d : draft' = [draft EXCEPT ![b] = d]
      BY <2>3 DEF AddUserMessage, Goto
    <3> QED
      BY <1>2, <2>1, <3>1, Apart DEF TypeOK, Free
  <2>4. CASE \/ LoadConversation(b) \/ GenerateFails(b) \/ LoopForever(b)
             \/ \E ok \in BOOLEAN : Attempt(b, ok)
             \/ RecordUsage(b) \/ BreakOff(b) \/ AddReply(b)
    BY <1>2, <2>1, <2>4 DEF LoadConversation, GenerateFails, LoopForever, Attempt, RecordUsage, BreakOff,
                            AddReply, Goto, TypeOK
  <2> QED
    BY <1>2, <2>2, <2>3, <2>4 DEF Step
<1>3. ASSUME NEW b \in Ask, b # a, NEW c \in Conversation, Submit(b, c)
      PROVE  Waits
  BY <1>3, Apart DEF Submit, Goto, TypeOK
<1>4. ASSUME NEW e \in Edit, Rename(e) \/ Delete(e)
      PROVE  Waits
  <2>1. e \in Actor /\ e # a
    BY Apart
  <2>2. UNCHANGED conv /\ \E o : End(e, o)
    BY <1>4 DEF Rename, Delete
  <2> HIDE DEF Waits
  <2> QED
    BY <1>1, <2>1, <2>2
<1>5. ASSUME NEW e \in Edit, NEW c \in Conversation, NEW t \in {"rename", "delete"}, Open(e, c, t)
      PROVE  Waits
  BY <1>5, Apart DEF Open, Goto, TypeOK
<1>6. CASE UNCHANGED vars
  BY <1>6 DEF vars
<1>7. CASE \E b \in Ask : Step(b) \/ \E c \in Conversation : Submit(b, c)
  <2>1. PICK b \in Ask : Step(b) \/ \E c \in Conversation : Submit(b, c)
    BY <1>7
  <2> HIDE DEF Waits
  <2>2. CASE b = a
    BY <2>1, <2>2
  <2>3. CASE b # a
    <3>1. Waits
      BY <1>2, <1>3, <2>1, <2>3
    <3> QED
      BY <3>1 DEF Waits
  <2> QED
    BY <2>2, <2>3
<1>8. CASE \E e \in Edit : \/ Rename(e) \/ Delete(e)
                         \/ \E c \in Conversation, t \in {"rename", "delete"} : Open(e, c, t)
  <2> HIDE DEF Waits
  <2>1. Waits
    BY <1>4, <1>5, <1>8
  <2> QED
    BY <2>1 DEF Waits
<1> QED
  BY <1>6, <1>7, <1>8 DEF Next

\* What is committed changes by a commit, a renaming or a deletion.
LEMMA DatabaseStep ==
  ASSUME [Next]_vars
  PROVE  \/ UNCHANGED database
         \/ \E a \in Ask : Commit(a)
         \/ \E e \in Edit : Rename(e) \/ Delete(e)
BY DEF Next, Step, vars, database, Submit, Refuse, LoadConversation, AddUserMessage,
       GenerateFails, LoopForever, Attempt, RecordUsage, BreakOff, AddReply, DatabaseFails, Open

-----------------------------------------------------------------------------
LEMMA TypeInit == Init => TypeOK
<1> SUFFICES ASSUME Init
             PROVE  TypeOK
  OBVIOUS
<1>1. stored \in [Conversation -> Row]
  <2>1. \A b \in BOOLEAN : [Absent EXCEPT !.alive = b] \in Row
    BY DEF Absent, Row
  <2>2. \A c \in Conversation : stored[c] \in Row
    <3> TAKE c \in Conversation
    <3>1. stored[c] = [Absent EXCEPT !.alive = (c \in Existing)]
      BY DEF Init
    <3>2. CASE c \in Existing
      <4>1. stored[c] = [Absent EXCEPT !.alive = TRUE]
        BY <3>1, <3>2
      <4> QED
        BY <2>1, <4>1
    <3>3. CASE c \notin Existing
      <4>1. (c \in Existing) = FALSE
        BY <3>3
      <4>2. stored[c] = [Absent EXCEPT !.alive = FALSE]
        BY <3>1, <4>1
      <4> QED
        BY <2>1, <4>2
    <3> QED
      BY <3>2, <3>3
  <2> QED
    BY <2>2 DEF Init
<1>2. NoDraft \in Draft
  BY DEF NoDraft, Draft, QueryStates
<1> QED
  BY <1>1, <1>2 DEF Init, TypeOK, Labels, QueryStates

LEMMA EndIsTyped ==
  ASSUME TypeOK, NEW r \in Actor, NEW o, End(r, o)
  PROVE  /\ pc' \in [Actor -> Labels] /\ DOMAIN outcome' = Actor
         /\ lock' \in [Conversation -> Actor \cup {NoOne}]
         /\ draft' \in [Ask -> Draft] /\ seen' \in [Ask -> SUBSET Ask]
<1>1. NoDraft \in Draft
  BY DEF NoDraft, Draft, QueryStates
<1>2. pc' \in [Actor -> Labels] /\ DOMAIN outcome' = Actor
  BY DEF End, Goto, TypeOK, Labels
<1>3. lock' \in [Conversation -> Actor \cup {NoOne}]
  BY DEF End, Unlocked, TypeOK
<1>4. draft' \in [Ask -> Draft] /\ seen' \in [Ask -> SUBSET Ask]
  BY <1>1 DEF End, TypeOK
<1> QED
  BY <1>2, <1>3, <1>4

\* A draft with some of its fields replaced.
LEMMA DraftFields ==
  ASSUME NEW d \in Draft
  PROVE  /\ \A m : [d EXCEPT !.messages = m] = [messages |-> m, usage |-> d.usage, query |-> d.query]
         /\ \A u : [d EXCEPT !.usage = u] = [messages |-> d.messages, usage |-> u, query |-> d.query]
         /\ \A q : [d EXCEPT !.query = q] = [messages |-> d.messages, usage |-> d.usage, query |-> q]
<1>1. d = [messages |-> d.messages, usage |-> d.usage, query |-> d.query]
  BY DEF Draft
<1> QED
  BY ONLY <1>1

LEMMA MessagesWritten ==
  ASSUME NEW f \in [Ask -> Draft], NEW a \in Ask, NEW m
  PROVE  [f EXCEPT ![a].messages = m] =
           [f EXCEPT ![a] = [messages |-> m, usage |-> f[a].usage, query |-> f[a].query]]
BY DraftFields

LEMMA UsageWritten ==
  ASSUME NEW f \in [Ask -> Draft], NEW a \in Ask
  PROVE  [f EXCEPT ![a].usage = TRUE] =
           [f EXCEPT ![a] = [messages |-> f[a].messages, usage |-> TRUE, query |-> f[a].query]]
<1>1. [f[a] EXCEPT !.usage = TRUE] =
        [messages |-> f[a].messages, usage |-> TRUE, query |-> f[a].query]
  BY DraftFields
<1> QED
  BY <1>1

LEMMA QueryWritten ==
  ASSUME NEW f \in [Ask -> Draft], NEW a \in Ask, NEW q
  PROVE  [f EXCEPT ![a].query = q] =
           [f EXCEPT ![a] = [messages |-> f[a].messages, usage |-> f[a].usage, query |-> q]]
BY DraftFields

LEMMA BothWritten ==
  ASSUME NEW f \in [Ask -> Draft], NEW a \in Ask, NEW m, NEW q
  PROVE  [f EXCEPT ![a].messages = m, ![a].query = q] =
           [f EXCEPT ![a] = [messages |-> m, usage |-> f[a].usage, query |-> q]]
<1> DEFINE d == [messages |-> m, usage |-> f[a].usage, query |-> f[a].query]
           e == [messages |-> m, usage |-> f[a].usage, query |-> q]
           g == [f EXCEPT ![a] = d]
<1>1. [f EXCEPT ![a].messages = m] = g
  BY MessagesWritten
<1>2. g[a] = d /\ [d EXCEPT !.query = q] = e
  OBVIOUS
<1>3. [g EXCEPT ![a].query = q] = [g EXCEPT ![a] = e]
  BY <1>2
<1>4. [g EXCEPT ![a] = e] = [f EXCEPT ![a] = e]
  OBVIOUS
<1> QED
  BY <1>1, <1>3, <1>4

\* The draft of one question, as a step leaves it.
LEMMA DraftIsTyped ==
  ASSUME TypeOK, NEW a \in Ask, NEW m \in SUBSET Message, NEW u \in BOOLEAN,
         NEW q \in QueryStates,
         draft' = [draft EXCEPT ![a] = [messages |-> m, usage |-> u, query |-> q]]
  PROVE  draft' \in [Ask -> Draft]
<1>1. [messages |-> m, usage |-> u, query |-> q] \in Draft
  BY DEF Draft
<1> QED
  BY <1>1 DEF TypeOK

\* The row a commit writes.
LEMMA RowFields ==
  ASSUME NEW r \in Row
  PROVE  /\ \A b : [r EXCEPT !.alive = b] = [alive |-> b, title |-> r.title, total |-> r.total]
         /\ \A t : [r EXCEPT !.total = t] = [alive |-> r.alive, title |-> r.title, total |-> t]
<1>1. r = [alive |-> r.alive, title |-> r.title, total |-> r.total]
  BY DEF Row
<1> QED
  BY ONLY <1>1

LEMMA RowWritten ==
  ASSUME TypeOK, NEW a \in Ask, Commit(a), conv[a] \in Conversation
  PROVE  stored' = [stored EXCEPT ![conv[a]] =
                      [alive |-> TRUE, title |-> stored[conv[a]].title,
                       total |-> IF a \in seen[a] THEN seen[a] ELSE stored[conv[a]].total]]
<1> DEFINE c == conv[a]
           total == IF a \in seen[a] THEN seen[a] ELSE stored[c].total
           d == [alive |-> TRUE, title |-> stored[c].title, total |-> stored[c].total]
           e == [alive |-> TRUE, title |-> stored[c].title, total |-> total]
           g == [stored EXCEPT ![c] = d]
<1>1. d \in Row /\ stored[c] \in Row /\ c \in DOMAIN stored
  BY DEF Row, TypeOK
<1>2. [stored[c] EXCEPT !.alive = TRUE] = d
  BY <1>1, RowFields
<1>3. [stored EXCEPT ![c].alive = TRUE] = g
  BY <1>2
<1>4. g[c] = d /\ d.total = stored[c].total /\ d.alive = TRUE /\ d.title = stored[c].title
  BY <1>1
<1>5. [d EXCEPT !.total = total] = e
  <2> HIDE DEF total, d
  <2>1. \A t : [d EXCEPT !.total = t] = [alive |-> d.alive, title |-> d.title, total |-> t]
    BY <1>1, RowFields
  <2>2. [d EXCEPT !.total = total] = [alive |-> d.alive, title |-> d.title, total |-> total]
    BY <2>1
  <2> QED
    BY <1>4, <2>2
<1>6. [g EXCEPT ![c].total = total] = [g EXCEPT ![c] = e]
  BY <1>4, <1>5
<1>7. stored' = [g EXCEPT ![c].total = IF a \in seen[a] THEN seen[a] ELSE @]
  BY <1>3 DEF Commit
<1>8. [g EXCEPT ![c].total = IF a \in seen[a] THEN seen[a] ELSE @] = [g EXCEPT ![c].total = total]
  BY <1>4
<1>9. [g EXCEPT ![c] = e] = [stored EXCEPT ![c] = e]
  OBVIOUS
<1>10. stored' = [stored EXCEPT ![c] = e]
  <2> HIDE DEF e, g, total
  <2> QED
    BY <1>6, <1>7, <1>8, <1>9
<1> QED
  BY ONLY <1>10

LEMMA InsertedIsTyped ==
  ASSUME TypeOK, NEW a \in Ask, NEW role \in {"user", "assistant"}
  PROVE  Inserted(a, role) \in SUBSET Message
<1>1. draft[a].messages \in SUBSET Message
  BY DEF TypeOK, Draft
<1>2. [ask |-> a, role |-> role, at |-> clock] \in Message
  BY DEF TypeOK, Message
<1> QED
  BY <1>1, <1>2 DEF Inserted

LEMMA TypeStep == TypeOK /\ RowIsHeld /\ [Next]_vars => TypeOK'
<1> SUFFICES ASSUME TypeOK, RowIsHeld, [Next]_vars
             PROVE  TypeOK'
  OBVIOUS
<1>1. ASSUME NEW a \in Ask, NEW c \in Conversation, Submit(a, c)
      PROVE  TypeOK'
  <2>1. a \in Actor
    BY Apart
  <2> QED
    BY <1>1, <2>1 DEF Submit, Goto, database, TypeOK, Labels
<1>2. ASSUME NEW a \in Ask, Refuse(a) \/ DatabaseFails(a)
      PROVE  TypeOK'
  <2>1. UNCHANGED <<database, clock, conv>> /\ \E o : End(a, o)
    BY <1>2 DEF Refuse, DatabaseFails
  <2> QED
    BY <2>1, EndIsTyped, Apart DEF database, TypeOK
<1>3. ASSUME NEW a \in Ask, LoadConversation(a)
      PROVE  TypeOK'
  <2>1. conv[a] \in Conversation
    BY <1>3 DEF LoadConversation, RowIsHeld, Conversation, Inside
  <2>2. stored[conv[a]].total \in SUBSET Ask
    BY <2>1 DEF TypeOK, Row
  <2> QED
    BY <1>3, <2>2, Apart DEF LoadConversation, Goto, database, TypeOK, Labels
<1>4. ASSUME NEW a \in Ask, AddUserMessage(a)
      PROVE  TypeOK'
  <2>1. Inserted(a, "user") \in SUBSET Message /\ draft[a].usage \in BOOLEAN
    BY InsertedIsTyped DEF TypeOK, Draft
  <2>2. draft' = [draft EXCEPT ![a] = [messages |-> Inserted(a, "user"),
                                       usage |-> draft[a].usage, query |-> "open"]]
    <3>1. draft \in [Ask -> Draft]
      BY DEF TypeOK
    <3>2. \A m, q : [draft EXCEPT ![a].messages = m, ![a].query = q] =
                    [draft EXCEPT ![a] = [messages |-> m, usage |-> draft[a].usage, query |-> q]]
      BY <3>1, BothWritten
    <3>3. [draft EXCEPT ![a].messages = Inserted(a, "user"), ![a].query = "open"] =
            [draft EXCEPT ![a] = [messages |-> Inserted(a, "user"),
                                  usage |-> draft[a].usage, query |-> "open"]]
      BY <3>2
    <3> QED
      BY <1>4, <3>3 DEF AddUserMessage
  <2>3. draft' \in [Ask -> Draft]
    BY <2>1, <2>2, DraftIsTyped DEF QueryStates
  <2>4. conv[a] \in Conversation
    BY <1>4 DEF AddUserMessage, RowIsHeld, Conversation
  <2>5. pc' \in [Actor -> Labels] /\ lock' \in [Conversation -> Actor \cup {NoOne}]
    BY <1>4, <2>4, Apart DEF AddUserMessage, Goto, TypeOK, Labels, Inside
  <2> QED
    BY <1>4, <2>3, <2>5 DEF AddUserMessage, database, TypeOK
<1>5. ASSUME NEW a \in Ask,
             \/ GenerateFails(a) \/ BreakOff(a) \/ \E ok \in BOOLEAN : Attempt(a, ok)
      PROVE  TypeOK'
  <2>1. draft[a].messages \in SUBSET Message /\ draft[a].usage \in BOOLEAN
    BY DEF TypeOK, Draft
  <2>2. PICK q \in {"failed", "answered", "broken"} :
          draft' = [draft EXCEPT ![a] = [messages |-> draft[a].messages,
                                         usage |-> draft[a].usage, query |-> q]]
    <3>1. PICK q \in {"failed", "answered", "broken"} : draft' = [draft EXCEPT ![a].query = q]
      BY <1>5 DEF GenerateFails, BreakOff, Attempt
    <3>2. draft \in [Ask -> Draft]
      BY DEF TypeOK
    <3>3. [draft EXCEPT ![a].query = q] =
            [draft EXCEPT ![a] = [messages |-> draft[a].messages,
                                  usage |-> draft[a].usage, query |-> q]]
      BY <3>2, QueryWritten
    <3> QED
      BY <3>1, <3>3
  <2>3. draft' \in [Ask -> Draft]
    BY <2>1, <2>2, DraftIsTyped DEF QueryStates
  <2>4. pc' \in [Actor -> Labels]
    BY <1>5, Apart DEF GenerateFails, BreakOff, Attempt, Goto, TypeOK, Labels, Inside
  <2> QED
    BY <1>5, <2>3, <2>4 DEF GenerateFails, BreakOff, Attempt, database, TypeOK
<1>12. ASSUME NEW a \in Ask, LoopForever(a) PROVE TypeOK'
  BY <1>12, Apart DEF LoopForever, Goto, database, TypeOK, Labels, Inside
<1>6. ASSUME NEW a \in Ask, RecordUsage(a)
      PROVE  TypeOK'
  <2>1. draft[a].messages \in SUBSET Message /\ draft[a].query \in QueryStates
    BY DEF TypeOK, Draft
  <2>2. draft' = [draft EXCEPT ![a] = [messages |-> draft[a].messages, usage |-> TRUE,
                                       query |-> draft[a].query]]
    <3>1. draft \in [Ask -> Draft]
      BY DEF TypeOK
    <3>2. [draft EXCEPT ![a].usage = TRUE] =
            [draft EXCEPT ![a] = [messages |-> draft[a].messages, usage |-> TRUE,
                                  query |-> draft[a].query]]
      BY <3>1, UsageWritten
    <3> QED
      BY <1>6, <3>2 DEF RecordUsage
  <2>3. draft' \in [Ask -> Draft]
    BY <2>1, <2>2, DraftIsTyped
  <2> QED
    BY <1>6, <2>3, Apart DEF RecordUsage, Goto, database, TypeOK, Labels, Inside
<1>7. ASSUME NEW a \in Ask, AddReply(a)
      PROVE  TypeOK'
  <2>1. Inserted(a, "assistant") \in SUBSET Message /\ draft[a].usage \in BOOLEAN
        /\ draft[a].query \in QueryStates
    BY InsertedIsTyped DEF TypeOK, Draft
  <2>2. draft' = [draft EXCEPT ![a] = [messages |-> Inserted(a, "assistant"),
                                       usage |-> draft[a].usage, query |-> draft[a].query]]
    BY <1>7, MessagesWritten DEF AddReply, TypeOK
  <2>3. draft' \in [Ask -> Draft]
    BY <2>1, <2>2, DraftIsTyped
  <2> QED
    BY <1>7, <2>3, Apart DEF AddReply, Goto, database, TypeOK, Labels, Inside
<1>8. ASSUME NEW a \in Ask, Commit(a)
      PROVE  TypeOK'
  <2>1. conv[a] \in Conversation
    BY <1>8 DEF Commit, RowIsHeld, Conversation, Inside
  <2>2. stored' \in [Conversation -> Row]
    <3>1. stored' = [stored EXCEPT ![conv[a]] =
                       [alive |-> TRUE, title |-> stored[conv[a]].title,
                        total |-> IF a \in seen[a] THEN seen[a] ELSE stored[conv[a]].total]]
      BY <1>8, <2>1, RowWritten
    <3>2. [alive |-> TRUE, title |-> stored[conv[a]].title,
           total |-> IF a \in seen[a] THEN seen[a] ELSE stored[conv[a]].total] \in Row
      BY <2>1 DEF TypeOK, Row
    <3> QED
      BY <3>1, <3>2 DEF TypeOK
  <2>3. draft[a].messages \in SUBSET Message /\ draft[a].query \in QueryStates
    BY DEF TypeOK, Draft
  <2>4. message' \in [Conversation -> SUBSET Message]
    BY <1>8, <2>1, <2>3 DEF Commit, TypeOK
  <2>5. usage' \in SUBSET Ask /\ query' \in [Ask -> QueryStates]
    BY <1>8, <2>3 DEF Commit, TypeOK
  <2>6. \E o : End(a, o)
    BY <1>8 DEF Commit
  <2> QED
    BY <1>8, <2>2, <2>4, <2>5, <2>6, EndIsTyped, Apart DEF Commit, TypeOK
<1>9. ASSUME NEW e \in Edit, Rename(e) \/ Delete(e)
      PROVE  TypeOK'
  <2>1. conv[e] \in Conversation
    BY <1>9 DEF Rename, Delete, RowIsHeld
  <2>2. stored' \in [Conversation -> Row]
    <3>1. Absent \in Row
      BY DEF Absent, Row
    <3>2. [alive |-> stored[conv[e]].alive, title |-> e, total |-> stored[conv[e]].total] \in Row
      BY <2>1 DEF TypeOK, Row
    <3>3. \/ stored' = stored \/ stored' = [stored EXCEPT ![conv[e]] = Absent]
          \/ stored' = [stored EXCEPT ![conv[e]] =
                [alive |-> stored[conv[e]].alive, title |-> e, total |-> stored[conv[e]].total]]
      BY <1>9, <2>1 DEF Rename, Delete, TypeOK, Row
    <3> QED
      BY <3>1, <3>2, <3>3 DEF TypeOK
  <2>3. message' \in [Conversation -> SUBSET Message]
    BY <1>9, <2>1 DEF Rename, Delete, TypeOK
  <2>4. \E o : End(e, o)
    BY <1>9 DEF Rename, Delete
  <2> QED
    BY <1>9, <2>2, <2>3, <2>4, EndIsTyped, Apart DEF Rename, Delete, TypeOK
<1>10. ASSUME NEW e \in Edit, NEW c \in Conversation, NEW t \in {"rename", "delete"},
              Open(e, c, t)
       PROVE  TypeOK'
  BY <1>10, Apart DEF Open, Goto, database, TypeOK, Labels
<1>11. CASE UNCHANGED vars
  BY <1>11 DEF vars, TypeOK
<1> QED
  BY <1>1, <1>2, <1>3, <1>4, <1>5, <1>6, <1>7, <1>8, <1>9, <1>10, <1>11, <1>12 DEF Next, Step

-----------------------------------------------------------------------------
\* What a step may do to one conversation.
LEMMA ConversationStep ==
  ASSUME TypeOK, RowIsHeld, [Next]_vars, NEW c \in Conversation
  PROVE  \/ stored'[c] = stored[c] /\ message'[c] = message[c]
         \/ \E a \in Ask :
              /\ Commit(a) /\ conv[a] = c
              /\ stored'[c] = [alive |-> TRUE, title |-> stored[c].title,
                               total |-> IF a \in seen[a] THEN seen[a] ELSE stored[c].total]
              /\ message'[c] = message[c] \cup draft[a].messages
         \/ \E e \in Edit :
              /\ Rename(e) /\ conv[e] = c
              /\ stored'[c] = [alive |-> stored[c].alive, title |-> e, total |-> stored[c].total]
              /\ message'[c] = message[c]
         \/ \E e \in Edit : /\ Delete(e) /\ conv[e] = c /\ lock[c] = NoOne
                            /\ stored'[c] = Absent /\ message'[c] = {}
<1>1. CASE UNCHANGED database
  BY <1>1 DEF database
<1>2. ASSUME NEW a \in Ask, Commit(a)
      PROVE  \/ stored'[c] = stored[c] /\ message'[c] = message[c]
             \/ /\ Commit(a) /\ conv[a] = c
                /\ stored'[c] = [alive |-> TRUE, title |-> stored[c].title,
                                 total |-> IF a \in seen[a] THEN seen[a] ELSE stored[c].total]
                /\ message'[c] = message[c] \cup draft[a].messages
  <2>1. conv[a] \in Conversation
    BY <1>2 DEF Commit, RowIsHeld, Conversation, Inside
  <2>2. stored' = [stored EXCEPT ![conv[a]] =
                     [alive |-> TRUE, title |-> stored[conv[a]].title,
                      total |-> IF a \in seen[a] THEN seen[a] ELSE stored[conv[a]].total]]
    BY <1>2, <2>1, RowWritten
  <2>3. message' = [message EXCEPT ![conv[a]] = @ \cup draft[a].messages]
    BY <1>2 DEF Commit
  <2> QED
    BY <1>2, <2>1, <2>2, <2>3 DEF TypeOK
<1>3. ASSUME NEW e \in Edit, Rename(e)
      PROVE  \/ stored'[c] = stored[c] /\ message'[c] = message[c]
             \/ /\ Rename(e) /\ conv[e] = c
                /\ stored'[c] = [alive |-> stored[c].alive, title |-> e, total |-> stored[c].total]
                /\ message'[c] = message[c]
  BY <1>3 DEF Rename, TypeOK, Row
<1>4. ASSUME NEW e \in Edit, Delete(e)
      PROVE  \/ stored'[c] = stored[c] /\ message'[c] = message[c]
             \/ /\ Delete(e) /\ conv[e] = c /\ lock[c] = NoOne
                /\ stored'[c] = Absent /\ message'[c] = {}
  BY <1>4 DEF Delete, Free, TypeOK
<1> QED
  BY <1>1, <1>2, <1>3, <1>4, DatabaseStep

\* What a step may do to the records of one question.
LEMMA RecordStep ==
  ASSUME TypeOK, [Next]_vars, NEW a \in Ask
  PROVE  (query'[a] = query[a] /\ (a \in usage' <=> a \in usage)) \/ Commit(a)
<1>1. ASSUME NEW b \in Ask, b # a, Commit(b)
      PROVE  query'[a] = query[a] /\ (a \in usage' <=> a \in usage)
  BY <1>1 DEF Commit, TypeOK
<1>2. ASSUME NEW e \in Edit, Rename(e) \/ Delete(e)
      PROVE  query' = query /\ usage' = usage
  BY <1>2 DEF Rename, Delete
<1>3. CASE UNCHANGED database
  BY <1>3 DEF database
<1>4. CASE \E b \in Ask : Commit(b)
  BY <1>1, <1>4
<1>5. CASE \E e \in Edit : Rename(e) \/ Delete(e)
  BY <1>2, <1>5
<1> QED
  BY <1>3, <1>4, <1>5, DatabaseStep

\* A conversation that is held is not deleted.
LEMMA HeldIsKept ==
  ASSUME TypeOK, RowIsHeld, [Next]_vars, NEW c \in Conversation, lock[c] # NoOne,
         stored[c].alive
  PROVE  stored'[c].alive
<1>1. CASE stored'[c] = stored[c]
  BY <1>1
<1>2. CASE \E a \in Ask :
             stored'[c] = [alive |-> TRUE, title |-> stored[c].title,
                           total |-> IF a \in seen[a] THEN seen[a] ELSE stored[c].total]
  BY <1>2
<1>3. CASE \E e \in Edit :
             stored'[c] = [alive |-> stored[c].alive, title |-> e, total |-> stored[c].total]
  BY <1>3
<1> QED
  BY <1>1, <1>2, <1>3, ConversationStep

LEMMA HeldStep == TypeOK /\ RowIsHeld /\ [Next]_vars => RowIsHeld'
<1> SUFFICES ASSUME TypeOK, RowIsHeld, [Next]_vars
             PROVE  RowIsHeld'
  OBVIOUS
<1>1. ASSUME NEW a \in Ask, pc'[a] \notin {"idle", "rename", "delete"}
      PROVE  conv'[a] \in Existing \cup {a}
  <2>1. CASE Step(a)
    <3>1. UNCHANGED conv /\ pc[a] \notin {"idle", "rename", "delete"}
      BY <2>1 DEF Step, Refuse, LoadConversation, AddUserMessage, GenerateFails, LoopForever, Attempt,
                  RecordUsage, BreakOff, AddReply, Commit, DatabaseFails
    <3> QED
      BY <3>1 DEF RowIsHeld
  <2>2. CASE \E c \in Conversation : Submit(a, c)
    BY <2>2, Apart DEF Submit, TypeOK
  <2>3. CASE pc'[a] = pc[a] /\ conv'[a] = conv[a]
    BY <1>1, <2>3 DEF RowIsHeld
  <2> QED
    BY <2>1, <2>2, <2>3, OthersWait
<1>2. ASSUME NEW e \in Edit, pc'[e] \in {"rename", "delete"}
      PROVE  conv'[e] \in Conversation
  <2>1. ASSUME NEW a \in Ask, Step(a) \/ \E c \in Conversation : Submit(a, c)
        PROVE  pc'[e] = pc[e] /\ conv'[e] = conv[e]
    BY <2>1, Apart DEF Step, Submit, Refuse, LoadConversation, AddUserMessage, GenerateFails, LoopForever,
       Attempt, RecordUsage, BreakOff, AddReply, Commit, DatabaseFails, End, Goto, TypeOK
  <2>2. ASSUME NEW r \in Edit, Rename(r) \/ Delete(r)
        PROVE  pc'[e] = pc[e] /\ conv'[e] = conv[e]
    BY <1>2, <2>2, Apart DEF Rename, Delete, End, Goto, TypeOK
  <2>3. ASSUME NEW r \in Edit, NEW c \in Conversation, NEW t \in {"rename", "delete"},
               Open(r, c, t)
        PROVE  (pc'[e] = pc[e] /\ conv'[e] = conv[e]) \/ conv'[e] = c
    BY <2>3, Apart DEF Open, Goto, TypeOK
  <2>4. \/ pc'[e] = pc[e] /\ conv'[e] = conv[e]
        \/ conv'[e] \in Conversation
    BY <2>1, <2>2, <2>3 DEF Next, vars
  <2> QED
    BY <1>2, <2>4 DEF RowIsHeld
<1>3. ASSUME NEW a \in Ask, pc'[a] \in Inside
      PROVE  lock'[conv'[a]] = a /\ ~Gone(a)'
  <2>1. CASE Step(a)
    <3>1. CASE Refuse(a) \/ Commit(a) \/ DatabaseFails(a)
      BY <1>3, <3>1, Apart DEF Refuse, Commit, DatabaseFails, End, Goto, TypeOK, Inside
    <3>2. CASE LoadConversation(a)
      BY <1>3, <3>2, Apart DEF LoadConversation, Goto, TypeOK, Inside
    <3>3. CASE AddUserMessage(a)
      <4>1. conv[a] \in Conversation
        BY <3>3 DEF AddUserMessage, RowIsHeld, Conversation
      <4> QED
        BY <3>3, <4>1 DEF AddUserMessage, Gone, database, TypeOK
    <3>4. CASE \/ GenerateFails(a) \/ LoopForever(a) \/ \E ok \in BOOLEAN : Attempt(a, ok)
               \/ RecordUsage(a) \/ BreakOff(a) \/ AddReply(a)
      <4>1. pc[a] \in Inside /\ UNCHANGED <<conv, lock, stored>>
        BY <3>4 DEF GenerateFails, LoopForever, Attempt, RecordUsage, BreakOff, AddReply, database, Inside
      <4> QED
        BY <4>1 DEF RowIsHeld, Gone
    <3> QED
      BY <2>1, <3>1, <3>2, <3>3, <3>4 DEF Step
  <2>2. CASE \E c \in Conversation : Submit(a, c)
    BY <1>3, <2>2, Apart DEF Submit, Goto, TypeOK, Inside
  <2>3. CASE /\ pc'[a] = pc[a] /\ conv'[a] = conv[a]
             /\ \A c \in Conversation : lock[c] = a => lock'[c] = a
    <3>1. conv[a] \in Conversation /\ lock[conv[a]] = a /\ ~Gone(a)
      BY <1>3, <2>3 DEF RowIsHeld, Inside, Conversation
    <3>2. stored[conv[a]].alive => stored'[conv[a]].alive
      BY <3>1, HeldIsKept, Apart
    <3> QED
      BY <2>3, <3>1, <3>2 DEF Gone
  <2> QED
    BY <2>1, <2>2, <2>3, OthersWait
<1> QED
  BY <1>1, <1>2, <1>3 DEF RowIsHeld

LEMMA DraftStep ==
  TypeOK /\ DraftFits /\ SeenIsReplied /\ InThePast /\ [Next]_vars => DraftFits'
<1> SUFFICES ASSUME TypeOK, DraftFits, SeenIsReplied, InThePast, [Next]_vars, NEW a \in Ask
             PROVE
    /\ pc'[a] \in {"idle", "load", "user", "done"} => draft'[a] = NoDraft
    /\ pc'[a] \in {"run", "usage", "reply"} =>
         \E t \in Nat : draft'[a].messages = {UserMessage(a, t)}
    /\ pc'[a] \in {"run", "usage"} => ~draft'[a].usage
    /\ pc'[a] \in {"usage", "reply"} => draft'[a].query \in {"answered", "failed"}
    /\ pc'[a] = "reply" => draft'[a].usage
    /\ pc'[a] = "commit" =>
         \/ /\ draft'[a].query = "broken" /\ ~draft'[a].usage /\ a \notin seen'[a]
            /\ \E t \in Nat : draft'[a].messages = {UserMessage(a, t)}
         \/ /\ draft'[a].query \in {"answered", "failed"} /\ draft'[a].usage /\ a \in seen'[a]
            /\ \E t, v \in Nat : /\ t < v
                                 /\ draft'[a].messages = {UserMessage(a, t), AssistantMessage(a, v)}
  BY DEF DraftFits
<1>0. draft[a] \in Draft /\ pc[a] \in Labels /\ a \in Actor /\ clock \in Nat
  BY Apart DEF TypeOK
<1>1. CASE Refuse(a) \/ Commit(a) \/ DatabaseFails(a)
  <2>1. draft'[a] = NoDraft /\ pc'[a] = "done"
    BY <1>0, <1>1 DEF Refuse, Commit, DatabaseFails, End, Goto, TypeOK
  <2> QED
    BY <2>1
<1>2. CASE LoadConversation(a) \/ \E c \in Conversation : Submit(a, c)
  <2>1. draft'[a] = NoDraft /\ pc'[a] \in {"load", "user"}
    BY <1>0, <1>2 DEF LoadConversation, Submit, Goto, TypeOK, DraftFits
  <2> QED
    BY <2>1
<1>3. CASE AddUserMessage(a)
  <2>1. draft[a] = NoDraft /\ pc'[a] = "run"
    BY <1>0, <1>3 DEF AddUserMessage, Goto, TypeOK, DraftFits
  <2>2. Inserted(a, "user") = {UserMessage(a, clock)}
    BY <2>1 DEF Inserted, UserMessage, NoDraft
  <2>3. draft'[a].messages = Inserted(a, "user") /\ draft'[a].usage = FALSE
    BY <1>3, <2>1 DEF AddUserMessage, TypeOK, NoDraft
  <2> QED
    BY <1>0, <2>1, <2>2, <2>3
<1>4. CASE GenerateFails(a) \/ \E ok \in BOOLEAN : Attempt(a, ok)
  <2>1. /\ pc[a] = "run" /\ pc'[a] \in {"run", "usage"}
        /\ \E q \in {"answered", "failed"} : draft' = [draft EXCEPT ![a].query = q]
    BY <1>0, <1>4 DEF GenerateFails, Attempt, Goto, TypeOK
  <2>2. /\ draft'[a].messages = draft[a].messages /\ draft'[a].usage = draft[a].usage
        /\ draft'[a].query \in {"answered", "failed"}
    BY <1>0, <2>1 DEF TypeOK, Draft
  <2> QED
    BY <2>1, <2>2 DEF DraftFits
<1>9. CASE LoopForever(a)
  BY <1>0, <1>9 DEF LoopForever, Goto, TypeOK
<1>5. CASE RecordUsage(a)
  <2>1. pc[a] = "usage" /\ pc'[a] = "reply" /\ draft' = [draft EXCEPT ![a].usage = TRUE]
    BY <1>0, <1>5 DEF RecordUsage, Goto, TypeOK
  <2>2. /\ draft'[a].messages = draft[a].messages /\ draft'[a].usage = TRUE
        /\ draft'[a].query = draft[a].query
    BY <1>0, <2>1 DEF TypeOK, Draft
  <2> QED
    BY <2>1, <2>2 DEF DraftFits
<1>6. CASE BreakOff(a)
  <2>1. /\ pc[a] = "usage" /\ pc'[a] = "commit" /\ seen' = seen
        /\ draft' = [draft EXCEPT ![a].query = "broken"]
    BY <1>0, <1>6 DEF BreakOff, Goto, TypeOK
  <2>2. /\ draft'[a].messages = draft[a].messages /\ draft'[a].usage = draft[a].usage
        /\ draft'[a].query = "broken"
    BY <1>0, <2>1 DEF TypeOK, Draft
  <2> QED
    BY <2>1, <2>2 DEF DraftFits, SeenIsReplied
<1>7. CASE AddReply(a)
  <2>1. /\ pc[a] = "reply" /\ pc'[a] = "commit" /\ a \in seen'[a]
        /\ draft' = [draft EXCEPT ![a].messages = Inserted(a, "assistant")]
    BY <1>0, <1>7 DEF AddReply, Goto, TypeOK
  <2>2. /\ draft'[a].messages = Inserted(a, "assistant") /\ draft'[a].usage = draft[a].usage
        /\ draft'[a].query = draft[a].query
    BY <1>0, <2>1 DEF TypeOK, Draft
  <2>3. PICK t \in Nat : draft[a].messages = {UserMessage(a, t)}
    BY <2>1 DEF DraftFits
  <2>4. t < clock
    <3>1. UserMessage(a, t).at < clock
      BY <2>3 DEF InThePast
    <3> QED
      BY <3>1 DEF UserMessage
  <2>5. Inserted(a, "assistant") = {UserMessage(a, t), AssistantMessage(a, clock)}
    BY <2>3 DEF Inserted, AssistantMessage
  <2>6. draft[a].query \in {"answered", "failed"} /\ draft[a].usage
    BY <2>1 DEF DraftFits
  <2> QED
    BY <1>0, <2>1, <2>2, <2>4, <2>5, <2>6
<1>8. CASE pc'[a] = pc[a] /\ seen'[a] = seen[a] /\ draft'[a] = draft[a]
  BY <1>8 DEF DraftFits
<1> QED
  BY <1>1, <1>2, <1>3, <1>4, <1>5, <1>6, <1>7, <1>8, <1>9, OthersWait DEF Step

-----------------------------------------------------------------------------
\* Whose messages are where: a question's come with its commit, in its conversation.
LEMMA MessageStep ==
  ASSUME TypeOK, RowIsHeld, [Next]_vars, NEW c \in Conversation, NEW m \in message'[c]
  PROVE  m \in message[c] \/ \E a \in Ask : Commit(a) /\ conv[a] = c /\ m \in draft[a].messages
BY ConversationStep

\* What a question commits.
LEMMA CommittedMessages ==
  ASSUME DraftFits, NEW a \in Ask, pc[a] = "commit"
  PROVE  /\ \A m \in draft[a].messages : m.ask = a
         /\ \E m \in draft[a].messages : m.role = "user"
         /\ a \in seen[a] => /\ \E m \in draft[a].messages : m.role = "assistant"
                             /\ draft[a].usage /\ draft[a].query \in {"answered", "failed"}
         /\ a \notin seen[a] => /\ \A m \in draft[a].messages : m.role # "assistant"
                                /\ draft[a].query = "broken"
         /\ \A m, n \in draft[a].messages :
              m.role = "user" /\ n.role = "assistant" => m.at < n.at
<1>1. CASE /\ draft[a].query = "broken" /\ a \notin seen[a]
           /\ \E t \in Nat : draft[a].messages = {UserMessage(a, t)}
  BY <1>1 DEF UserMessage
<1>2. CASE /\ draft[a].query \in {"answered", "failed"} /\ draft[a].usage /\ a \in seen[a]
           /\ \E t, v \in Nat : /\ t < v
                                /\ draft[a].messages = {UserMessage(a, t), AssistantMessage(a, v)}
  BY <1>2 DEF UserMessage, AssistantMessage
<1> QED
  BY <1>1, <1>2 DEF DraftFits

\* Of the questions in a conversation only the one that holds it commits to it.
LEMMA OneCommits ==
  ASSUME RowIsHeld, NEW a \in Ask, NEW b \in Ask, pc[a] \in Inside, Commit(b), conv[a] = conv[b]
  PROVE  a = b
BY DEF RowIsHeld, Commit, Inside

\* A conversation that was there from the start is not there again once deleted.
LEMMA NotRevived ==
  ASSUME TypeOK, RowIsHeld, [Next]_vars, NEW c \in Existing, ~stored[c].alive
  PROVE  ~stored'[c].alive
<1>1. c \in Conversation
  BY DEF Conversation
<1>2. ASSUME NEW a \in Ask, Commit(a), conv[a] = c
      PROVE  FALSE
  BY <1>2, Apart DEF Commit, RowIsHeld, Gone, Inside
<1>3. CASE stored'[c] = stored[c]
  BY <1>3
<1>4. CASE \E e \in Edit :
             stored'[c] = [alive |-> stored[c].alive, title |-> e, total |-> stored[c].total]
  BY <1>4
<1>5. CASE stored'[c] = Absent
  BY <1>5 DEF Absent
<1> QED
  BY <1>1, <1>2, <1>3, <1>4, <1>5, ConversationStep

\* Replies are lost with their conversation only.
LEMMA RepliesKept ==
  ASSUME TypeOK, RowIsHeld, [Next]_vars, NEW c \in Conversation
  PROVE  message[c] \subseteq message'[c] \/ (stored'[c] = Absent /\ message'[c] = {})
BY ConversationStep

LEMMA SeenStep == IInv /\ [Next]_vars => SeenIsReplied'
<1> SUFFICES ASSUME IInv, [Next]_vars, NEW a \in Ask
             PROVE  /\ pc'[a] # "commit" => a \notin seen'[a]
                    /\ pc'[a] \in {"user"} \cup Inside /\ ~Gone(a)' =>
                         \A b \in seen'[a] \ {a} :
                           \E m \in message'[conv'[a]] : m.ask = b /\ m.role = "assistant"
  BY DEF SeenIsReplied, Replied
<1> USE DEF IInv
<1>0. a \in Actor /\ pc[a] \in Labels
  BY Apart DEF TypeOK
<1>1. CASE Refuse(a) \/ Commit(a) \/ DatabaseFails(a)
  <2>1. pc'[a] = "done" /\ seen'[a] = {}
    BY <1>0, <1>1, EndOfOne DEF Refuse, Commit, DatabaseFails, TypeOK
  <2> QED
    BY <2>1
<1>2. CASE \E c \in Conversation : Submit(a, c)
  <2>1. pc'[a] = "load" /\ pc[a] = "idle" /\ seen' = seen
    BY <1>0, <1>2 DEF Submit, Goto, TypeOK
  <2> QED
    BY <2>1 DEF SeenIsReplied, Inside
<1>3. CASE LoadConversation(a)
  <2>1. /\ pc[a] = "load" /\ pc'[a] = "user" /\ seen'[a] = stored[conv[a]].total
        /\ UNCHANGED <<conv, message>>
    BY <1>0, <1>3 DEF LoadConversation, Goto, database, TypeOK
  <2>2. conv[a] \in Conversation
    BY <2>1 DEF RowIsHeld, Conversation
  <2>3. a \notin stored[conv[a]].total
    BY <2>1, <2>2 DEF NothingYet
  <2>4. \A b \in stored[conv[a]].total : b \in Ask /\ Replied(conv[a], b) # {}
    BY <2>2 DEF BooksAgree, TypeOK, Row
  <2> QED
    BY <2>1, <2>3, <2>4 DEF Replied
<1>4. CASE \/ AddUserMessage(a) \/ GenerateFails(a) \/ LoopForever(a)
           \/ \E ok \in BOOLEAN : Attempt(a, ok)
           \/ RecordUsage(a) \/ BreakOff(a) \/ AddReply(a)
  <2>1. /\ pc[a] \in {"user", "run", "usage", "reply"} /\ UNCHANGED <<conv, message, stored>>
        /\ seen'[a] = seen[a] \/ (pc'[a] = "commit" /\ seen'[a] = seen[a] \cup {a})
    <3>1. CASE AddReply(a)
      BY <1>0, <3>1 DEF AddReply, Goto, database, TypeOK
    <3>2. CASE \/ AddUserMessage(a) \/ GenerateFails(a) \/ LoopForever(a)
               \/ \E ok \in BOOLEAN : Attempt(a, ok)
               \/ RecordUsage(a) \/ BreakOff(a)
      BY <3>2 DEF AddUserMessage, GenerateFails, LoopForever, Attempt, RecordUsage, BreakOff, database
    <3> QED
      BY <1>4, <3>1, <3>2
  <2>2. a \notin seen[a]
    BY <2>1 DEF SeenIsReplied
  <2>3. ~Gone(a)' => ~Gone(a)
    BY <2>1 DEF Gone
  <2>4. ~Gone(a) => \A b \in seen[a] \ {a} :
                      \E m \in message[conv[a]] : m.ask = b /\ m.role = "assistant"
    BY <2>1 DEF SeenIsReplied, Replied, Inside
  <2> QED
    BY <2>1, <2>2, <2>3, <2>4
<1>5. CASE pc'[a] = pc[a] /\ conv'[a] = conv[a] /\ seen'[a] = seen[a]
  <2>1. SUFFICES ASSUME pc[a] \in {"user"} \cup Inside, ~Gone(a)', NEW b \in seen[a] \ {a}
                 PROVE  \E m \in message'[conv[a]] : m.ask = b /\ m.role = "assistant"
    BY <1>5 DEF SeenIsReplied
  <2>2. conv[a] \in Existing \cup {a} /\ conv[a] \in Conversation
    BY <2>1 DEF RowIsHeld, Conversation, Inside
  <2>3. ~Gone(a)
    BY <1>5, <2>1, <2>2, NotRevived DEF Gone
  <2>4. PICK m \in message[conv[a]] : m.ask = b /\ m.role = "assistant"
    BY <2>1, <2>3 DEF SeenIsReplied, Replied
  <2>5. conv[a] # a
    BY <2>1, <2>2, <2>4 DEF NothingYet, DeletedIsGone, Inside
  <2>6. stored'[conv[a]].alive
    BY <1>5, <2>1, <2>5 DEF Gone
  <2>7. stored'[conv[a]] # Absent
    BY <2>6 DEF Absent
  <2> QED
    BY <2>2, <2>4, <2>7, RepliesKept
<1> QED
  BY <1>1, <1>2, <1>3, <1>4, <1>5, OthersWait DEF Step

LEMMA YetStep == IInv /\ [Next]_vars => NothingYet'
<1> SUFFICES ASSUME IInv, [Next]_vars, NEW a \in Ask, pc'[a] # "done"
             PROVE  /\ query'[a] = "none" /\ a \notin usage'
                    /\ \A c \in Conversation : /\ a \notin stored'[c].total
                                               /\ \A m \in message'[c] : m.ask # a
                    /\ outcome'[a] = "none" /\ ~stored'[a].alive
  BY DEF NothingYet
<1> USE DEF IInv
<1>0. a \in Actor /\ a \in Conversation
  BY Apart
<1>1. ~Commit(a) /\ pc[a] # "done" /\ outcome'[a] = outcome[a]
  <2>1. CASE Step(a)
    BY <1>0, <2>1 DEF Step, Refuse, LoadConversation, AddUserMessage, GenerateFails, LoopForever, Attempt,
       RecordUsage, BreakOff, AddReply, Commit, DatabaseFails, End, Goto, TypeOK
  <2>2. CASE \E c \in Conversation : Submit(a, c)
    BY <1>0, <2>2 DEF Submit, Commit
  <2>3. CASE pc'[a] = pc[a] /\ outcome'[a] = outcome[a]
    BY <1>0, <2>3 DEF Commit, End, Goto, TypeOK
  <2> QED
    BY <2>1, <2>2, <2>3, OthersWait
<1>2. query'[a] = "none" /\ a \notin usage' /\ outcome'[a] = "none"
  BY <1>1, RecordStep DEF NothingYet
<1>3. ASSUME NEW c \in Conversation, NEW m \in message'[c]
      PROVE  m.ask # a
  <2>1. CASE m \in message[c]
    BY <1>1, <2>1 DEF NothingYet
  <2>2. ASSUME NEW b \in Ask, Commit(b), m \in draft[b].messages
        PROVE  m.ask # a
    <3>1. pc[b] = "commit"
      BY <2>2 DEF Commit
    <3>2. m.ask = b
      BY <2>2, <3>1, CommittedMessages
    <3> QED
      BY <1>1, <2>2, <3>2
  <2> QED
    BY <1>3, <2>1, <2>2, MessageStep
<1>4. ASSUME NEW c \in Conversation
      PROVE  a \notin stored'[c].total /\ (c = a => ~stored'[c].alive)
  <2>1. a \notin stored[c].total /\ (c = a => ~stored[c].alive)
    BY <1>1 DEF NothingYet
  <2>2. CASE stored'[c] = stored[c]
    BY <2>1, <2>2
  <2>3. ASSUME NEW b \in Ask, Commit(b), conv[b] = c,
               stored'[c] = [alive |-> TRUE, title |-> stored[c].title,
                             total |-> IF b \in seen[b] THEN seen[b] ELSE stored[c].total]
        PROVE  a \notin stored'[c].total /\ (c = a => ~stored'[c].alive)
    <3>1. b # a /\ pc[b] = "commit"
      BY <1>1, <2>3 DEF Commit
    <3>2. conv[b] \in Existing \cup {b} /\ ~Gone(b)
      BY <3>1 DEF RowIsHeld, Inside
    <3>3. c # a
      BY <2>3, <3>1, <3>2, Apart
    <3>4. a \notin seen[b]
      <4>1. a \in seen[b] => \E m \in message[c] : m.ask = a
        BY <2>3, <3>1, <3>2 DEF SeenIsReplied, Replied, Inside
      <4> QED
        BY <1>1, <4>1 DEF NothingYet
    <3>5. stored'[c].total = IF b \in seen[b] THEN seen[b] ELSE stored[c].total
      BY <2>3
    <3> QED
      BY <2>1, <3>3, <3>4, <3>5
  <2>4. CASE \E e \in Edit :
               stored'[c] = [alive |-> stored[c].alive, title |-> e, total |-> stored[c].total]
    BY <2>1, <2>4
  <2>5. CASE stored'[c] = Absent
    BY <2>5 DEF Absent
  <2> QED
    BY <2>2, <2>3, <2>4, <2>5, ConversationStep
<1> QED
  BY <1>0, <1>2, <1>3, <1>4

\* A message is written with the time it is written at.
LEMMA WrittenNow ==
  ASSUME TypeOK, [Next]_vars, NEW a \in Ask, NEW u \in draft'[a].messages
  PROVE  \/ u \in draft[a].messages
         \/ u.at = clock /\ clock' = clock + 1 /\ UNCHANGED <<message, conv>>
<1>0. a \in Actor /\ draft[a] \in Draft
  BY Apart DEF TypeOK
<1>1. CASE Refuse(a) \/ Commit(a) \/ DatabaseFails(a)
  <2>1. draft'[a] = NoDraft
    BY <1>0, <1>1, EndOfOne DEF Refuse, Commit, DatabaseFails
  <2> QED
    BY <2>1 DEF NoDraft
<1>2. CASE LoadConversation(a) \/ \E c \in Conversation : Submit(a, c)
  BY <1>2 DEF LoadConversation, Submit
<1>3. CASE AddUserMessage(a)
  <2>1. /\ draft' = [draft EXCEPT ![a].messages = Inserted(a, "user"), ![a].query = "open"]
        /\ clock' = clock + 1 /\ UNCHANGED <<message, conv>>
    BY <1>3 DEF AddUserMessage, database
  <2>2. draft'[a].messages = Inserted(a, "user")
    BY <1>0, <2>1 DEF TypeOK, Draft
  <2>3. u \in draft[a].messages \/ u = UserMessage(a, clock)
    BY <2>2 DEF Inserted, UserMessage
  <2>4. UserMessage(a, clock).at = clock
    BY DEF UserMessage
  <2> QED
    BY <2>1, <2>3, <2>4
<1>4. CASE AddReply(a)
  <2>1. /\ draft' = [draft EXCEPT ![a].messages = Inserted(a, "assistant")]
        /\ clock' = clock + 1 /\ UNCHANGED <<message, conv>>
    BY <1>4 DEF AddReply, database
  <2>2. draft'[a].messages = Inserted(a, "assistant")
    BY <1>0, <2>1 DEF TypeOK, Draft
  <2>3. u \in draft[a].messages \/ u = AssistantMessage(a, clock)
    BY <2>2 DEF Inserted, AssistantMessage
  <2>4. AssistantMessage(a, clock).at = clock
    BY DEF AssistantMessage
  <2> QED
    BY <2>1, <2>3, <2>4
<1>5. CASE \/ GenerateFails(a) \/ \E ok \in BOOLEAN : Attempt(a, ok)
           \/ RecordUsage(a) \/ BreakOff(a)
  <2>1. \/ \E q : draft' = [draft EXCEPT ![a].query = q]
        \/ draft' = [draft EXCEPT ![a].usage = TRUE]
    BY <1>5 DEF GenerateFails, Attempt, RecordUsage, BreakOff
  <2>2. draft'[a].messages = draft[a].messages
    BY <1>0, <2>1 DEF TypeOK, Draft
  <2> QED
    BY <2>2
<1>6. CASE LoopForever(a) \/ draft'[a] = draft[a]
  BY <1>6 DEF LoopForever
<1> QED
  BY <1>1, <1>2, <1>3, <1>4, <1>5, <1>6, OthersWait DEF Step

LEMMA ClockStep == TypeOK /\ [Next]_vars => clock' = clock \/ clock' = clock + 1
BY DEF TypeOK, Next, Step, vars, Submit, Refuse, LoadConversation, AddUserMessage,
       GenerateFails, LoopForever, Attempt, RecordUsage, BreakOff, AddReply, Commit, DatabaseFails,
       Open, Rename, Delete

LEMMA PastStep == IInv /\ [Next]_vars => InThePast'
<1> SUFFICES ASSUME IInv, [Next]_vars
             PROVE  InThePast'
  OBVIOUS
<1> USE DEF IInv
<1>0. /\ clock \in Nat /\ (clock' = clock \/ clock' = clock + 1)
      /\ \A c \in Conversation : \A m \in message[c] : m.at \in Nat
      /\ \A a \in Ask : draft[a] \in Draft
      /\ \A a \in Ask : \A u \in draft[a].messages : u.at \in Nat
  BY ClockStep DEF TypeOK, Draft, Message
<1>1. ASSUME NEW c \in Conversation, NEW m \in message'[c]
      PROVE  m.at < clock'
  <2>1. m.at \in Nat /\ m.at < clock
    BY <1>0, MessageStep DEF InThePast
  <2> QED
    BY <1>0, <2>1
<1>2. ASSUME NEW a \in Ask, NEW u \in draft'[a].messages
      PROVE  u.at < clock'
  <2>1. CASE u \in draft[a].messages
    BY <1>0, <2>1 DEF InThePast
  <2>2. CASE u.at = clock /\ clock' = clock + 1
    BY <1>0, <2>2
  <2> QED
    BY <2>1, <2>2, WrittenNow
<1>3. ASSUME NEW a \in Ask, pc'[a] \in Inside,
             NEW u \in draft'[a].messages, NEW m \in message'[conv'[a]]
      PROVE  m.at < u.at
  <2>0. a \in Actor /\ conv'[a] \in Existing \cup {a}
    BY <1>3, HeldStep, Apart DEF RowIsHeld, Inside
  <2>1. conv'[a] \in Conversation
    BY <2>0 DEF Conversation
  <2>2. CASE u.at = clock /\ clock' = clock + 1 /\ UNCHANGED <<message, conv>>
    BY <1>3, <2>1, <2>2 DEF InThePast
  <2>3. CASE u \in draft[a].messages
    <3>1. pc[a] \in Inside /\ ~Commit(a) /\ conv'[a] = conv[a]
      <4>1. draft[a] # NoDraft
        BY <2>3 DEF NoDraft
      <4>2. pc[a] \in Inside
        <5>1. CASE Step(a)
          BY <2>0, <4>1, <5>1 DEF DraftFits, Inside, Step, Refuse, LoadConversation,
             AddUserMessage, GenerateFails, LoopForever, Attempt, RecordUsage, BreakOff, AddReply, Commit,
             DatabaseFails
        <5>2. CASE \E c \in Conversation : Submit(a, c)
          BY <1>3, <2>0, <5>2 DEF Submit, Goto, TypeOK, Inside
        <5>3. CASE pc'[a] = pc[a]
          BY <1>3, <5>3
        <5> QED
          BY <5>1, <5>2, <5>3, OthersWait
      <4>3. ~Commit(a)
        BY <1>3, <2>0 DEF Commit, End, Goto, TypeOK, Inside
      <4>4. conv'[a] = conv[a]
        BY <4>2, OthersWait DEF Step, Submit, Refuse, LoadConversation, AddUserMessage,
           GenerateFails, LoopForever, Attempt, RecordUsage, BreakOff, AddReply, Commit, DatabaseFails, Inside
      <4> QED
        BY <4>2, <4>3, <4>4
    <3>2. m \in message[conv[a]]
      BY <1>3, <2>1, <3>1, MessageStep, OneCommits
    <3> QED
      BY <2>3, <3>1, <3>2 DEF InThePast
  <2> QED
    BY <1>3, <2>2, <2>3, WrittenNow
<1> QED
  BY <1>1, <1>2, <1>3 DEF InThePast

\* What a commit puts on record.
LEMMA CommitWrites ==
  ASSUME TypeOK, RowIsHeld, NEW a \in Ask, Commit(a)
  PROVE  /\ pc[a] = "commit" /\ conv' = conv /\ conv[a] \in Conversation /\ ~Gone(a)
         /\ message'[conv[a]] = message[conv[a]] \cup draft[a].messages
         /\ query'[a] = draft[a].query /\ outcome'[a] = draft[a].query
         /\ draft[a].usage => a \in usage'
<1>1. pc[a] = "commit" /\ conv' = conv /\ conv[a] \in Conversation /\ ~Gone(a)
  BY DEF Commit, RowIsHeld, Conversation, Inside
<1>2. message'[conv[a]] = message[conv[a]] \cup draft[a].messages
  BY <1>1 DEF Commit, TypeOK
<1>3. query'[a] = draft[a].query
  BY DEF Commit, TypeOK
<1>4. outcome'[a] = draft[a].query
  BY Apart DEF Commit, End, TypeOK
<1>5. draft[a].usage => a \in usage'
  BY DEF Commit
<1> QED
  BY <1>1, <1>2, <1>3, <1>4, <1>5

LEMMA BooksStep == IInv /\ [Next]_vars => BooksAgree'
<1> SUFFICES ASSUME IInv, [Next]_vars, NEW c \in Conversation, NEW a \in Ask
             PROVE  /\ Replied(c, a)' # {} => /\ Asked(c, a)' # {} /\ a \in usage'
                                              /\ query'[a] \in {"answered", "failed"}
                    /\ Asked(c, a)' # {} /\ Replied(c, a)' = {} => query'[a] = "broken"
                    /\ a \in stored'[c].total => Replied(c, a)' # {}
  BY DEF BooksAgree
<1> USE DEF IInv
<1>1. ASSUME NEW m \in message[c], m.ask = a
      PROVE  query'[a] = query[a] /\ (a \in usage' <=> a \in usage)
  <2>1. ~Commit(a)
    BY <1>1, CommitWrites DEF NothingYet
  <2> QED
    BY <2>1, RecordStep
<1>2. ASSUME NEW m \in message'[c], m \notin message[c], m.ask = a
      PROVE  Commit(a) /\ conv[a] = c /\ m \in draft[a].messages
  <2>1. PICK b \in Ask : Commit(b) /\ conv[b] = c /\ m \in draft[b].messages
    BY <1>2, MessageStep
  <2>2. b = a
    BY <1>2, <2>1, CommitWrites, CommittedMessages
  <2> QED
    BY <2>1, <2>2
<1>3. ASSUME NEW r \in message'[c], r.ask = a, r.role = "assistant"
      PROVE  /\ \E u \in message'[c] : u.ask = a /\ u.role = "user"
             /\ a \in usage' /\ query'[a] \in {"answered", "failed"}
  <2>1. CASE r \in message[c]
    <3>1. r \in Replied(c, a)
      BY <1>3, <2>1 DEF Replied
    <3>2. a \in usage /\ query[a] \in {"answered", "failed"} /\ Asked(c, a) # {}
      BY <3>1 DEF BooksAgree
    <3>3. PICK u \in message[c] : u.ask = a /\ u.role = "user"
      BY <3>2 DEF Asked
    <3>4. u \in message'[c]
      BY <1>3, <3>3, RepliesKept
    <3> QED
      BY <1>1, <1>3, <2>1, <3>2, <3>3, <3>4
  <2>2. CASE r \notin message[c]
    <3>1. Commit(a) /\ conv[a] = c /\ r \in draft[a].messages
      BY <1>2, <1>3, <2>2
    <3>2. pc[a] = "commit" /\ draft[a].messages \subseteq message'[c]
      BY <3>1, CommitWrites
    <3>3. a \in seen[a] /\ draft[a].usage /\ draft[a].query \in {"answered", "failed"}
      BY <1>3, <3>1, <3>2, CommittedMessages
    <3>4. PICK u \in draft[a].messages : u.ask = a /\ u.role = "user"
      BY <3>2, CommittedMessages
    <3> QED
      BY <3>1, <3>2, <3>3, <3>4, CommitWrites
  <2> QED
    BY <2>1, <2>2
<1>4. ASSUME NEW u \in message'[c], u.ask = a, u.role = "user",
             \A r \in message'[c] : ~(r.ask = a /\ r.role = "assistant")
      PROVE  query'[a] = "broken"
  <2>1. CASE u \in message[c]
    <3>1. message[c] \subseteq message'[c]
      BY <1>4, RepliesKept
    <3>2. u \in Asked(c, a) /\ Replied(c, a) = {}
      BY <1>4, <2>1, <3>1 DEF Asked, Replied
    <3>3. query[a] = "broken"
      BY <3>2 DEF BooksAgree
    <3> QED
      BY <1>1, <1>4, <2>1, <3>3
  <2>2. CASE u \notin message[c]
    <3>1. Commit(a) /\ conv[a] = c
      BY <1>2, <1>4, <2>2
    <3>2. /\ pc[a] = "commit" /\ draft[a].messages \subseteq message'[c]
          /\ query'[a] = draft[a].query
      BY <3>1, CommitWrites
    <3>3. a \notin seen[a]
      BY <1>4, <3>2, CommittedMessages
    <3> QED
      BY <3>2, <3>3, CommittedMessages
  <2> QED
    BY <2>1, <2>2
<1>5. ASSUME a \in stored'[c].total
      PROVE  \E r \in message'[c] : r.ask = a /\ r.role = "assistant"
  <2>1. ASSUME a \in stored[c].total
        PROVE  \E r \in message[c] : r.ask = a /\ r.role = "assistant"
    BY <2>1 DEF BooksAgree, Replied
  <2>2. CASE stored'[c] = stored[c] /\ message'[c] = message[c]
    BY <1>5, <2>1, <2>2
  <2>3. ASSUME NEW b \in Ask, Commit(b), conv[b] = c,
               stored'[c] = [alive |-> TRUE, title |-> stored[c].title,
                             total |-> IF b \in seen[b] THEN seen[b] ELSE stored[c].total],
               message'[c] = message[c] \cup draft[b].messages
        PROVE  \E r \in message'[c] : r.ask = a /\ r.role = "assistant"
    <3>1. pc[b] = "commit" /\ ~Gone(b)
      BY <2>3, CommitWrites
    <3>2. stored'[c].total = IF b \in seen[b] THEN seen[b] ELSE stored[c].total
      BY <2>3
    <3>3. CASE a \in stored[c].total
      BY <2>1, <2>3, <3>3
    <3>4. CASE b \in seen[b] /\ a = b
      <4>1. \E m \in draft[b].messages : m.role = "assistant" /\ m.ask = b
        BY <3>1, <3>4, CommittedMessages
      <4> QED
        BY <2>3, <3>4, <4>1
    <3>5. CASE a \in seen[b] \ {b}
      <4>1. \E r \in message[c] : r.ask = a /\ r.role = "assistant"
        BY <2>3, <3>1, <3>5 DEF SeenIsReplied, Replied, Inside
      <4> QED
        BY <2>3, <4>1
    <3> QED
      BY <1>5, <3>2, <3>3, <3>4, <3>5
  <2>4. ASSUME NEW e \in Edit,
               stored'[c] = [alive |-> stored[c].alive, title |-> e, total |-> stored[c].total],
               message'[c] = message[c]
        PROVE  \E r \in message'[c] : r.ask = a /\ r.role = "assistant"
    BY <1>5, <2>1, <2>4
  <2>5. CASE stored'[c] = Absent
    BY <1>5, <2>5 DEF Absent
  <2> QED
    BY <2>2, <2>3, <2>4, <2>5, ConversationStep
<1> QED
  BY <1>3, <1>4, <1>5 DEF Replied, Asked

LEMMA TranscriptStep == IInv /\ [Next]_vars => TranscriptAlternates'
<1> SUFFICES ASSUME IInv, [Next]_vars, NEW c \in Conversation, NEW a \in Ask,
                    NEW u \in message'[c], u.ask = a, u.role = "user",
                    NEW r \in message'[c], r.ask = a, r.role = "assistant",
                    NEW m \in message'[c]
             PROVE  u.at < r.at /\ (m.at < u.at \/ m.at > r.at \/ m.ask = a)
  BY DEF TranscriptAlternates, Asked, Replied
<1> USE DEF IInv
<1>1. CASE u \in message[c] /\ r \in message[c] /\ m \in message[c]
  BY <1>1 DEF TranscriptAlternates, Asked, Replied
<1>2. ASSUME NEW b \in Ask, Commit(b), conv[b] = c
      PROVE  u.at < r.at /\ (m.at < u.at \/ m.at > r.at \/ m.ask = a)
  <2>1. /\ pc[b] = "commit" /\ pc[b] \in Inside
        /\ message'[c] = message[c] \cup draft[b].messages
    BY <1>2, CommitWrites DEF Inside
  <2>2. \A n \in draft[b].messages : n.ask = b
    BY <2>1, CommittedMessages
  <2>3. \A n \in message[c] : n.ask # b
    BY <2>1 DEF NothingYet
  <2>4. \A n \in draft[b].messages, o \in message[c] : o.at < n.at
    BY <1>2, <2>1 DEF InThePast
  <2>5. CASE a = b
    <3>1. u \in draft[b].messages /\ r \in draft[b].messages
      BY <2>1, <2>3, <2>5
    <3>2. u.at < r.at
      BY <2>1, <3>1, CommittedMessages
    <3>3. m \in message[c] => m.at < u.at
      BY <2>4, <3>1
    <3> QED
      BY <2>1, <2>2, <2>5, <3>2, <3>3
  <2>6. CASE a # b
    <3>1. u \in message[c] /\ r \in message[c]
      BY <2>1, <2>2, <2>6
    <3>2. m \in draft[b].messages => r.at < m.at
      BY <2>4, <3>1
    <3>3. m \in draft[b].messages => m.at > r.at
      BY <3>2
    <3>4. u.at < r.at /\ (m \in message[c] => m.at < u.at \/ m.at > r.at \/ m.ask = a)
      BY <3>1 DEF TranscriptAlternates, Asked, Replied
    <3> QED
      BY <2>1, <3>3, <3>4
  <2> QED
    BY <2>5, <2>6
<1> QED
  BY <1>1, <1>2, MessageStep

LEMMA AnswerStep == IInv /\ [Next]_vars => AnswerIsOnRecord'
<1> SUFFICES ASSUME IInv, [Next]_vars, NEW a \in Ask, outcome'[a] = "answered"
             PROVE  /\ query'[a] = "answered" /\ a \in usage'
                    /\ stored'[conv'[a]].alive =>
                         \E r \in message'[conv'[a]] : r.ask = a /\ r.role = "assistant"
  BY DEF AnswerIsOnRecord, Replied
<1> USE DEF IInv
<1>0. a \in Actor /\ a \in Conversation
  BY Apart
<1>1. CASE Commit(a)
  <2>1. /\ pc[a] = "commit" /\ conv' = conv /\ query'[a] = "answered"
        /\ message'[conv[a]] = message[conv[a]] \cup draft[a].messages
        /\ draft[a].query = "answered" /\ (draft[a].usage => a \in usage')
    BY <1>1, CommitWrites
  <2>2. a \in seen[a]
    BY <2>1, CommittedMessages
  <2>3. /\ draft[a].usage
        /\ \E r \in draft[a].messages : r.ask = a /\ r.role = "assistant"
    BY <2>1, <2>2, CommittedMessages
  <2> QED
    BY <2>1, <2>3
<1>2. CASE Refuse(a) \/ DatabaseFails(a)
  <2>1. outcome'[a] \in {"refused", "error"}
    BY <1>0, <1>2 DEF Refuse, DatabaseFails, End, TypeOK
  <2> QED
    BY <2>1
<1>3. CASE \/ LoadConversation(a) \/ AddUserMessage(a) \/ GenerateFails(a) \/ LoopForever(a)
           \/ \E ok \in BOOLEAN : Attempt(a, ok)
           \/ RecordUsage(a) \/ BreakOff(a) \/ AddReply(a)
           \/ \E c \in Conversation : Submit(a, c)
  <2>1. pc[a] # "done" /\ outcome' = outcome
    BY <1>3 DEF LoadConversation, AddUserMessage, GenerateFails, LoopForever, Attempt, RecordUsage,
                BreakOff, AddReply, Submit
  <2> QED
    BY <2>1 DEF NothingYet
<1>4. CASE pc'[a] = pc[a] /\ conv'[a] = conv[a] /\ outcome'[a] = outcome[a]
  <2>1. pc[a] = "done" /\ outcome[a] = "answered"
    BY <1>4 DEF NothingYet
  <2>2. ~Commit(a)
    BY <2>1 DEF Commit
  <2>3. query'[a] = "answered" /\ a \in usage'
    BY <2>1, <2>2, RecordStep DEF AnswerIsOnRecord
  <2>4. conv[a] \in Existing \cup {a} /\ conv[a] \in Conversation
    BY <2>1 DEF RowIsHeld, Conversation
  <2>5. ASSUME stored'[conv[a]].alive
        PROVE  \E r \in message'[conv[a]] : r.ask = a /\ r.role = "assistant"
    <3>1. stored[conv[a]].alive
      <4>1. CASE conv[a] \in Existing
        BY <2>5, <4>1, NotRevived
      <4>2. CASE conv[a] = a
        <5>1. ASSUME NEW b \in Ask, Commit(b), conv[b] = a
              PROVE  FALSE
          <6>1. conv[b] \in Existing \cup {b} /\ pc[b] = "commit"
            BY <5>1 DEF Commit, RowIsHeld
          <6> QED
            BY <2>1, <5>1, <6>1, Apart
        <5>2. CASE stored'[a] = stored[a]
          BY <2>5, <4>2, <5>2
        <5>3. CASE \E e \in Edit : stored'[a] = [alive |-> stored[a].alive, title |-> e,
                                                total |-> stored[a].total]
          BY <2>5, <4>2, <5>3
        <5>4. CASE stored'[a] = Absent
          BY <2>5, <4>2, <5>4 DEF Absent
        <5> QED
          BY <1>0, <5>1, <5>2, <5>3, <5>4, ConversationStep
      <4> QED
        BY <2>4, <4>1, <4>2
    <3>2. PICK r \in message[conv[a]] : r.ask = a /\ r.role = "assistant"
      BY <2>1, <3>1 DEF AnswerIsOnRecord, Replied
    <3>3. stored'[conv[a]] # Absent
      BY <2>5 DEF Absent
    <3> QED
      BY <2>4, <3>2, <3>3, RepliesKept
  <2> QED
    BY <1>4, <2>3, <2>5
<1> QED
  BY <1>1, <1>2, <1>3, <1>4, OthersWait DEF Step

LEMMA GoneStep == IInv /\ [Next]_vars => DeletedIsGone'
<1> SUFFICES ASSUME IInv, [Next]_vars, NEW c \in Conversation, ~stored'[c].alive
             PROVE  message'[c] = {} /\ stored'[c].total = {}
  BY DEF DeletedIsGone
<1> USE DEF IInv
<1>1. ~stored[c].alive => message[c] = {} /\ stored[c].total = {}
  BY DEF DeletedIsGone
<1>2. CASE stored'[c] = stored[c] /\ message'[c] = message[c]
  BY <1>1, <1>2
<1>3. CASE \E a \in Ask :
             stored'[c] = [alive |-> TRUE, title |-> stored[c].title,
                           total |-> IF a \in seen[a] THEN seen[a] ELSE stored[c].total]
  BY <1>3
<1>4. CASE \E e \in Edit :
             /\ stored'[c] = [alive |-> stored[c].alive, title |-> e, total |-> stored[c].total]
             /\ message'[c] = message[c]
  BY <1>1, <1>4
<1>5. CASE stored'[c] = Absent /\ message'[c] = {}
  BY <1>5 DEF Absent
<1> QED
  BY <1>2, <1>3, <1>4, <1>5, ConversationStep

-----------------------------------------------------------------------------
LEMMA InitIInv == Init => IInv
<1> SUFFICES ASSUME Init
             PROVE  IInv
  OBVIOUS
<1>1. TypeOK
  BY TypeInit
<1>2. \A c \in Conversation : /\ message[c] = {} /\ stored[c].total = {}
                              /\ stored[c].alive = (c \in Existing)
  BY DEF Init, Absent
<1>3. \A a \in Ask : /\ a \in Conversation /\ a \notin Existing /\ pc[a] = "idle"
                     /\ draft[a] = NoDraft /\ seen[a] = {} /\ outcome[a] = "none"
                     /\ query[a] = "none" /\ a \notin usage
  BY Apart DEF Init
<1>4. \A e \in Edit : pc[e] = "idle"
  BY Apart DEF Init
<1>5. RowIsHeld /\ DraftFits /\ SeenIsReplied
  BY <1>3, <1>4 DEF RowIsHeld, DraftFits, SeenIsReplied, Inside
<1>6. NothingYet
  BY <1>2, <1>3 DEF NothingYet
<1>7. InThePast
  BY <1>2, <1>3 DEF InThePast, Inside, NoDraft
<1>8. BooksAgree /\ TranscriptAlternates
  BY <1>2 DEF BooksAgree, TranscriptAlternates, Asked, Replied
<1>9. AnswerIsOnRecord /\ DeletedIsGone
  BY <1>2, <1>3 DEF AnswerIsOnRecord, DeletedIsGone
<1> QED
  BY <1>1, <1>5, <1>6, <1>7, <1>8, <1>9 DEF IInv

LEMMA StepIInv == IInv /\ [Next]_vars => IInv'
<1> SUFFICES ASSUME IInv, [Next]_vars
             PROVE  IInv'
  OBVIOUS
<1>1. TypeOK' /\ RowIsHeld' /\ DraftFits'
  BY TypeStep, HeldStep, DraftStep DEF IInv
<1>2. SeenIsReplied' /\ NothingYet' /\ InThePast'
  BY SeenStep, YetStep, PastStep
<1>3. BooksAgree' /\ TranscriptAlternates' /\ AnswerIsOnRecord' /\ DeletedIsGone'
  BY BooksStep, TranscriptStep, AnswerStep, GoneStep
<1> QED
  BY <1>1, <1>2, <1>3 DEF IInv

LEMMA Invariance == Spec => []IInv
BY InitIInv, StepIInv, PTL DEF Spec

-----------------------------------------------------------------------------
\* The UPDATE of last_message_at comes first and makes every other request wait for
\* the row: of the questions that have begun to write to a conversation and have
\* not committed, there is one.
OneWriter ==
  \A a, b \in Ask : pc[a] \in Inside /\ pc[b] \in Inside /\ conv[a] = conv[b] => a = b

\* However many questions are asked at once, one writes to a conversation (ask_question,
\* through the row lock its first flush takes).
THEOREM OneWriterAtATime == Spec => []OneWriter
<1>1. IInv => OneWriter
  BY DEF IInv, RowIsHeld, OneWriter
<1> QED
  BY <1>1, Invariance, PTL

\* Questions that are asked at once in one conversation do not interleave in its
\* transcript: ask_question's first flush keeps the others out until the commit.
THEOREM TranscriptInOrder == Spec => []TranscriptAlternates
<1>1. IInv => TranscriptAlternates
  BY DEF IInv
<1> QED
  BY <1>1, Invariance, PTL

\* A reply is on record with its question, its usage and its history row, and what
\* a conversation adds up was replied to in it, whichever statement fails.
THEOREM BooksAlwaysAgree == Spec => []BooksAgree
<1>1. IInv => BooksAgree
  BY DEF IInv
<1> QED
  BY <1>1, Invariance, PTL

\* An answer ask_question returned was committed, and is lost with its conversation
\* only, its usage and its history row never.
THEOREM AnswersStayOnRecord == Spec => []AnswerIsOnRecord
<1>1. IInv => AnswerIsOnRecord
  BY DEF IInv
<1> QED
  BY <1>1, Invariance, PTL

\* delete_conversation leaves no message and no total behind, and no question that
\* was waiting for the row writes to it afterwards.
THEOREM DeletionIsFinal == Spec => []DeletedIsGone
<1>1. IInv => DeletedIsGone
  BY DEF IInv
<1> QED
  BY <1>1, Invariance, PTL

\* A title once given is never taken off a conversation: the UPDATE of a question
\* that loaded the conversation before the renaming leaves the title's column out.
THEOREM TitlesAreKept == Spec => RenameIsKept
<1>1. ASSUME IInv, [Next]_vars, NEW c \in Conversation,
             stored[c].alive, stored'[c].alive, stored[c].title # NoOne
      PROVE  stored'[c].title # NoOne
  <2>1. CASE stored'[c] = stored[c]
    BY <1>1, <2>1
  <2>2. CASE \E a \in Ask :
               stored'[c] = [alive |-> TRUE, title |-> stored[c].title,
                             total |-> IF a \in seen[a] THEN seen[a] ELSE stored[c].total]
    BY <1>1, <2>2
  <2>3. CASE \E e \in Edit :
               stored'[c] = [alive |-> stored[c].alive, title |-> e, total |-> stored[c].total]
    BY <2>3, Apart
  <2>4. CASE stored'[c] = Absent
    BY <1>1, <2>4 DEF Absent
  <2> QED
    BY <1>1, <2>1, <2>2, <2>3, <2>4, ConversationStep DEF IInv
<1>2. IInv /\ [Next]_vars =>
        [\A c \in Conversation : stored[c].alive /\ stored'[c].alive /\ stored[c].title # NoOne
           => stored'[c].title # NoOne]_vars
  BY <1>1
<1> QED
  BY <1>2, Invariance, PTL DEF Spec, RenameIsKept

-----------------------------------------------------------------------------
\* The refinement: what Conversations sees of each step.

\* What a question's own messages add to what a conversation tells.
LEMMA OneMoreQuestion ==
  ASSUME NEW M, NEW D, NEW a \in Ask, \A m \in D : m.ask = a, \E m \in D : m.role = "user"
  PROVE  /\ QuestionsOf(M \cup D) = QuestionsOf(M) \cup {a}
         /\ (\E m \in D : m.role = "assistant") => AnswersOf(M \cup D) = AnswersOf(M) \cup {a}
         /\ (\A m \in D : m.role # "assistant") => AnswersOf(M \cup D) = AnswersOf(M)
BY DEF QuestionsOf, AnswersOf

\* A question that is younger than all that are in a conversation comes after them.
LEMMA LastInOrder ==
  ASSUME NEW M \in SUBSET Message, NEW D \in SUBSET Message, NEW a \in Ask,
         \A m \in D : m.ask = a, D # {},
         \A m \in M : m.ask # a /\ m.ask \in QuestionsOf(M),
         \A m \in M, u \in D : m.at < u.at
  PROVE  OrderOf(M \cup D) = OrderOf(M) \cup (QuestionsOf(M) \X {a})
<1>1. ASSUME NEW p \in OrderOf(M \cup D), p \notin OrderOf(M)
      PROVE  p \in QuestionsOf(M) \X {a}
  <2>1. p \in Ask \X Ask /\ p[1] # p[2]
    BY <1>1 DEF OrderOf
  <2>2. PICK m \in M \cup D, n \in M \cup D : m.ask = p[1] /\ n.ask = p[2] /\ m.at < n.at
    BY <1>1 DEF OrderOf
  <2>3. ~(m \in M /\ n \in M)
    BY <1>1, <2>1, <2>2 DEF OrderOf
  <2>4. ~(m \in D /\ n \in D)
    BY <2>1, <2>2
  <2>5. ~(m \in D /\ n \in M)
    BY <2>2 DEF Message
  <2>6. m \in M /\ n \in D
    BY <2>3, <2>4, <2>5
  <2> QED
    BY <2>1, <2>2, <2>6
<1>2. OrderOf(M) \subseteq OrderOf(M \cup D)
  BY DEF OrderOf
<1>3. ASSUME NEW p \in QuestionsOf(M) \X {a}
      PROVE  p \in OrderOf(M \cup D)
  <2>1. p \in Ask \X Ask /\ p[1] \in QuestionsOf(M) /\ p[2] = a
    BY DEF QuestionsOf
  <2>2. PICK m \in M : m.ask = p[1]
    BY <2>1 DEF QuestionsOf
  <2>3. PICK n \in D : n.ask = a
    OBVIOUS
  <2>4. p[1] # p[2] /\ m.at < n.at
    BY <2>1, <2>2, <2>3
  <2> QED
    BY <2>1, <2>2, <2>3, <2>4 DEF OrderOf
<1> QED
  BY <1>1, <1>2, <1>3

LEMMA NothingTold ==
  /\ QuestionsOf({}) = {} /\ AnswersOf({}) = {} /\ OrderOf({}) = {}
BY DEF QuestionsOf, AnswersOf, OrderOf

\* The initial states map to initial states.
LEMMA SerialInit == Init => Serial!Init
<1> SUFFICES ASSUME Init PROVE Serial!Init
  OBVIOUS
<1>1. \A c \in Conversation : message[c] = {}
  BY DEF Init
<1>2. stored = [c \in Conversation |-> [Serial!Absent EXCEPT !.alive = (c \in Existing)]]
  BY DEF Init, Absent, Serial!Absent
<1>3. [a \in Ask |-> outcome[a]] = [a \in Ask |-> "none"]
  BY Apart DEF Init
<1>4. Serial!Conversation = Conversation
  BY DEF Conversation, Serial!Conversation
<1>5. /\ [c \in Conversation |-> QuestionsOf(message[c])] = [c \in Conversation |-> {}]
      /\ [c \in Conversation |-> AnswersOf(message[c])] = [c \in Conversation |-> {}]
      /\ [c \in Conversation |-> OrderOf(message[c])] = [c \in Conversation |-> {}]
  BY <1>1, NothingTold
<1> QED
  BY <1>2, <1>3, <1>4, <1>5 DEF Init, Serial!Init

\* The state of Conversations that a state of AskQuestion stands for.
Questions == [c \in Conversation |-> QuestionsOf(message[c])]
Answers == [c \in Conversation |-> AnswersOf(message[c])]
Order == [c \in Conversation |-> OrderOf(message[c])]
Told == [a \in Ask |-> outcome[a]]

\* Whoever leaves the tables and the outcomes of the questions alone stutters.
LEMMA SerialStutter ==
  ASSUME UNCHANGED database, Told' = Told
  PROVE  UNCHANGED Serial!vars
BY DEF database, Told, Serial!vars

LEMMA SerialNext ==
  ASSUME NEW a \in Ask, NEW c, c \in Serial!Conversation
  PROVE  /\ Serial!BreakOff(a, c) => Serial!Next
         /\ \A how, total : how \in {"answered", "failed"} /\ total \in SUBSET Ask
              /\ Serial!Exchange(a, c, how, total) => Serial!Next
BY DEF Serial!Next

\* A commit is an Exchange when the reply was charged to the conversation, and a
\* BreakOff when it was not: the row is held, so that no question came in between, and
\* the draft is younger than every message there is.
LEMMA SerialCommit ==
  ASSUME IInv, NEW a \in Ask, Commit(a)
  PROVE  Serial!Next
<1>0. PICK c : c = conv[a]
  OBVIOUS
<1> DEFINE M == message[c]
           D == draft[a].messages
           ending == draft[a].query
           charged == IF a \in seen[a] THEN seen[a] ELSE stored[c].total
<1>1. /\ TypeOK /\ RowIsHeld /\ DraftFits /\ SeenIsReplied /\ NothingYet /\ InThePast /\ BooksAgree
      /\ pc[a] = "commit" /\ c \in Conversation /\ ~Gone(a)
  BY <1>0, CommitWrites DEF IInv
<1>2. stored' = [stored EXCEPT ![c] = [alive |-> TRUE, title |-> stored[c].title, total |-> charged]]
  BY <1>0, <1>1, RowWritten
<1>3. /\ message' = [message EXCEPT ![c] = M \cup D] /\ query' = [query EXCEPT ![a] = ending]
      /\ usage' = IF draft[a].usage THEN usage \cup {a} ELSE usage
  BY <1>0 DEF Commit
<1>4. outcome[a] = "none" /\ (c = a \/ stored[c].alive)
  BY <1>0, <1>1 DEF NothingYet, Gone
<1>5. Told' = [Told EXCEPT ![a] = ending]
  <2>1. outcome' = [outcome EXCEPT ![a] = ending] /\ DOMAIN outcome = Actor
    BY <1>1 DEF Commit, End, TypeOK
  <2> HIDE DEF ending
  <2> QED
    BY <2>1, Apart DEF Told
<1>6. /\ \A m \in D : m.ask = a
      /\ \E m \in D : m.role = "user"
      /\ a \in seen[a] => /\ \E m \in D : m.role = "assistant"
                          /\ draft[a].usage /\ ending \in {"answered", "failed"}
      /\ a \notin seen[a] => (\A m \in D : m.role # "assistant") /\ ending = "broken"
  BY <1>1, CommittedMessages
<1>7. /\ QuestionsOf(M \cup D) = QuestionsOf(M) \cup {a}
      /\ a \in seen[a] => AnswersOf(M \cup D) = AnswersOf(M) \cup {a}
      /\ a \notin seen[a] => AnswersOf(M \cup D) = AnswersOf(M)
  <2> HIDE DEF M, D
  <2>1. /\ QuestionsOf(M \cup D) = QuestionsOf(M) \cup {a}
        /\ (\E m \in D : m.role = "assistant") => AnswersOf(M \cup D) = AnswersOf(M) \cup {a}
        /\ (\A m \in D : m.role # "assistant") => AnswersOf(M \cup D) = AnswersOf(M)
    BY ONLY <1>6, OneMoreQuestion, a \in Ask
  <2> QED
    BY ONLY <1>6, <2>1
<1>8. OrderOf(M \cup D) = OrderOf(M) \cup (QuestionsOf(M) \X {a})
  <2>1. M \in SUBSET Message /\ D \in SUBSET Message
    BY <1>1 DEF TypeOK, Draft
  <2>2. ASSUME NEW m \in M PROVE m.ask # a /\ m.ask \in QuestionsOf(M)
    <3>1. m.ask # a
      BY <1>1 DEF NothingYet
    <3>2. m.ask \in Ask /\ m.role \in {"user", "assistant"}
      BY <2>1 DEF Message
    <3>3. Asked(c, m.ask) # {} => m.ask \in QuestionsOf(M)
      BY <3>2 DEF Asked, QuestionsOf
    <3>4. CASE m.role = "user"
      BY <3>1, <3>2, <3>4 DEF QuestionsOf
    <3>5. CASE m.role = "assistant"
      <4>1. Replied(c, m.ask) # {}
        BY <3>5 DEF Replied
      <4> QED
        BY <1>1, <3>1, <3>2, <3>3, <4>1 DEF BooksAgree
    <3> QED
      BY <3>1, <3>2, <3>4, <3>5
  <2>3. \A m \in M, u \in D : m.at < u.at
    BY <1>0, <1>1 DEF InThePast, Inside
  <2> HIDE DEF M, D
  <2> QED
    BY <1>6, <2>1, <2>2, <2>3, LastInOrder
<1>9. \A e \in Conversation : message'[e] = IF e = c THEN M \cup D ELSE message[e]
  BY <1>1, <1>3 DEF TypeOK
<1> HIDE DEF M, D, charged, ending
<1>10. /\ Questions' = [Questions EXCEPT ![c] = Questions[c] \cup {a}]
       /\ a \in seen[a] => Answers' = [Answers EXCEPT ![c] = Answers[c] \cup {a}]
       /\ a \notin seen[a] => Answers' = Answers
       /\ Order' = [Order EXCEPT ![c] = Order[c] \cup (Questions[c] \X {a})]
  BY <1>1, <1>7, <1>8, <1>9 DEF Questions, Answers, Order, M
<1>11. Serial!Conversation = Conversation
  BY DEF Conversation, Serial!Conversation
<1>12. CASE a \in seen[a]
  <2>1. charged \in SUBSET Ask /\ a \in charged /\ charged \subseteq AnswersOf(message[c]) \cup {a}
    <3>1. charged = seen[a] /\ seen[a] \in SUBSET Ask
      BY <1>1, <1>12 DEF TypeOK, charged
    <3>2. \A b \in seen[a] \ {a} : Replied(c, b) # {}
      BY <1>0, <1>1 DEF SeenIsReplied, Inside
    <3> QED
      BY <1>12, <3>1, <3>2 DEF Replied, AnswersOf
  <2>2. usage' = usage \cup {a}
    BY <1>3, <1>6, <1>12
  <2>3. PICK how, total : how = ending /\ total = charged
    OBVIOUS
  <2>4. Serial!Exchange(a, c, how, total)
    BY <1>1, <1>2, <1>3, <1>4, <1>5, <1>6, <1>10, <1>12, <2>1, <2>2, <2>3
    DEF Serial!Exchange, Questions, Answers, Order, Told
  <2>5. how \in {"answered", "failed"} /\ total \in SUBSET Ask /\ c \in Serial!Conversation
    BY <1>1, <1>6, <1>11, <1>12, <2>1, <2>3
  <2> QED
    BY <2>4, <2>5, SerialNext
<1>13. CASE a \notin seen[a]
  <2>1. charged = stored[c].total /\ ending = "broken"
    BY <1>6, <1>13 DEF charged
  <2>2. usage' = usage
    BY <1>1, <1>3, <1>6, <1>13 DEF DraftFits
  <2>3. Serial!BreakOff(a, c)
    BY <1>1, <1>2, <1>3, <1>4, <1>5, <1>10, <1>13, <2>1, <2>2
    DEF Serial!BreakOff, Questions, Answers, Order, Told
  <2>4. c \in Serial!Conversation
    BY <1>1, <1>11
  <2> QED
    BY <2>3, <2>4, SerialNext
<1> QED
  BY <1>12, <1>13

\* A title or a deletion is one, or finds the conversation gone.
LEMMA SerialEdit ==
  ASSUME IInv, NEW e \in Edit, Rename(e) \/ Delete(e)
  PROVE  [Serial!Next]_Serial!vars
<1>0. PICK c : c = conv[e]
  OBVIOUS
<1>1. TypeOK /\ pc[e] \in {"rename", "delete"} /\ c \in Conversation
  BY <1>0 DEF IInv, RowIsHeld, Rename, Delete
<1>2. Serial!Conversation = Conversation /\ Serial!Absent = Absent
  BY DEF Conversation, Serial!Conversation, Absent, Serial!Absent
<1>3. Told' = Told
  <2>1. \E o : outcome' = [outcome EXCEPT ![e] = o]
    BY DEF Rename, Delete, End
  <2> QED
    BY <1>1, <2>1, Apart DEF Told, TypeOK
<1>4. CASE Rename(e)
  <2>1. UNCHANGED <<message, query, usage>>
    BY <1>4 DEF Rename
  <2>2. CASE Gone(e)
    <3>1. UNCHANGED database
      BY <1>4, <2>1, <2>2 DEF Rename, database
    <3> QED
      BY <1>3, <3>1, SerialStutter
  <2>3. CASE ~Gone(e)
    <3>1. stored' = [stored EXCEPT ![c].title = e] /\ stored[c].alive
      BY <1>0, <1>1, <1>4, <2>3, AskAssumption DEF Rename, Gone, Conversation
    <3>2. Serial!Rename(e, c)
      BY <1>3, <2>1, <3>1 DEF Serial!Rename, Told
    <3> QED
      BY <1>1, <1>2, <3>2 DEF Serial!Next
  <2> QED
    BY <2>2, <2>3
<1>5. CASE Delete(e)
  <2>1. /\ stored' = [stored EXCEPT ![c] = Absent] /\ message' = [message EXCEPT ![c] = {}]
        /\ UNCHANGED <<query, usage>>
    BY <1>0, <1>5 DEF Delete
  <2>2. \A d \in Conversation : message'[d] = IF d = c THEN {} ELSE message[d]
    BY <1>1, <2>1 DEF TypeOK
  <2>3. /\ Questions' = [Questions EXCEPT ![c] = {}] /\ Answers' = [Answers EXCEPT ![c] = {}]
        /\ Order' = [Order EXCEPT ![c] = {}]
    BY <1>1, <2>2, NothingTold DEF Questions, Answers, Order
  <2>4. Serial!Delete(c)
    BY <1>2, <1>3, <2>1, <2>3 DEF Serial!Delete, Questions, Answers, Order, Told
  <2> QED
    BY <1>1, <1>2, <2>4 DEF Serial!Next
<1> QED
  BY <1>4, <1>5

\* A question that ends without a commit has written nothing.
LEMMA SerialDecline ==
  ASSUME IInv, NEW a \in Ask, Refuse(a) \/ DatabaseFails(a)
  PROVE  Serial!Next
<1>1. PICK how \in {"refused", "error"} : End(a, how) /\ UNCHANGED database /\ pc[a] # "done"
  BY DEF Refuse, DatabaseFails
<1>2. outcome[a] = "none"
  BY <1>1 DEF IInv, NothingYet
<1>3. Told' = [Told EXCEPT ![a] = how]
  BY <1>1, Apart DEF End, IInv, TypeOK, Told
<1>4. Serial!Decline(a, how)
  BY <1>1, <1>2, <1>3 DEF Serial!Decline, database, Told
<1> QED
  BY <1>4 DEF Serial!Next

\* Every step maps to a step of Conversations or to a stutter.
LEMMA SerialStep ==
  ASSUME IInv, [Next]_vars
  PROVE  [Serial!Next]_Serial!vars
<1>1. ASSUME UNCHANGED <<database, outcome>>
      PROVE  [Serial!Next]_Serial!vars
  <2>1. Told' = Told
    BY <1>1 DEF Told
  <2> QED
    BY <1>1, <2>1, SerialStutter
<1>2. ASSUME NEW a \in Ask, Step(a)
      PROVE  [Serial!Next]_Serial!vars
  <2>1. CASE Commit(a)
    BY <2>1, SerialCommit
  <2>2. CASE Refuse(a) \/ DatabaseFails(a)
    BY <2>2, SerialDecline
  <2>3. CASE \/ LoadConversation(a) \/ AddUserMessage(a) \/ GenerateFails(a) \/ LoopForever(a)
             \/ \E ok \in BOOLEAN : Attempt(a, ok)
             \/ RecordUsage(a) \/ BreakOff(a) \/ AddReply(a)
    <3>1. UNCHANGED <<database, outcome>>
      BY <2>3 DEF LoadConversation, AddUserMessage, GenerateFails, LoopForever, Attempt, RecordUsage,
                  BreakOff, AddReply
    <3> QED
      BY <1>1, <3>1
  <2> QED
    BY <1>2, <2>1, <2>2, <2>3 DEF Step
<1>3. ASSUME NEW a \in Ask, NEW c \in Conversation, Submit(a, c)
      PROVE  [Serial!Next]_Serial!vars
  BY <1>1, <1>3 DEF Submit
<1>4. ASSUME NEW e \in Edit, NEW c \in Conversation, NEW t \in {"rename", "delete"}, Open(e, c, t)
      PROVE  [Serial!Next]_Serial!vars
  BY <1>1, <1>4 DEF Open
<1>5. ASSUME NEW e \in Edit, Rename(e) \/ Delete(e)
      PROVE  [Serial!Next]_Serial!vars
  BY <1>5, SerialEdit
<1>6. CASE UNCHANGED vars
  BY <1>1, <1>6 DEF vars, database
<1> QED
  BY <1>2, <1>3, <1>4, <1>5, <1>6 DEF Next

\* AskQuestion implements Conversations: the statements of a question's transaction, its
\* retries and its failures, among those of others, come to one step or to none.
THEOREM QuestionsAreSerial == Spec => ImplementsConversations
<1> QED
  BY SerialInit, SerialStep, Invariance, PTL DEF Spec, ImplementsConversations, Serial!Spec

=============================================================================
