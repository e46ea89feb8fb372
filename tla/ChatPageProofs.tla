--------------------------- MODULE ChatPageProofs ---------------------------
(***************************************************************************)
(* Theorems about ChatPage for any number of uploads and messages.         *)
(***************************************************************************)
EXTENDS ChatPage, TLAPS

At == {"unsent", "sent", "answering", "answered", "failed"}

MessageTypes ==
  message \in [Message -> [at : At, workbook : Upload \cup {Nothing},
                           names : Message \cup {Nothing},
                           session : Message \cup {Nothing}, alone : BOOLEAN]]

PageTypes ==
  /\ workbookId \in Upload \cup {Nothing}
  /\ sessionId \in Message \cup {Nothing}
  /\ waiting \subseteq Upload \cup Message
  /\ sessions \subseteq Message
  /\ DOMAIN upload = Upload

\* A session was made for a message that was sent: what it stands for is settled.
SessionsAreSent ==
  /\ \A s \in sessions : message[s].at # "unsent"
  /\ \A m \in Message :
       /\ message[m].session # Nothing => message[message[m].session].at # "unsent"
       /\ message[m].at \in {"unsent", "sent"} => message[m].session = Nothing
       /\ message[m].at \in {"answering", "answered"} => message[m].session # Nothing

IInv == MessageTypes /\ PageTypes /\ SessionsAreSent /\ WorkbookIsNamed

LEMMA InitInv == Init => IInv
BY CallAssumption DEF Init, IInv, MessageTypes, PageTypes, SessionsAreSent,
     WorkbookIsNamed, Unsent, At

\* Steps that only take the loneliness from messages.
LEMMA CrowdedKeeps ==
  ASSUME IInv
  PROVE  /\ Crowded \in [Message -> [at : At, workbook : Upload \cup {Nothing},
                                     names : Message \cup {Nothing},
                                     session : Message \cup {Nothing}, alone : BOOLEAN]]
         /\ \A m \in Message :
              /\ Crowded[m].at = message[m].at
              /\ Crowded[m].workbook = message[m].workbook
              /\ Crowded[m].session = message[m].session
BY DEF IInv, MessageTypes, Crowded

LEMMA UploadStep ==
  ASSUME IInv, NEW u \in Upload,
         Pick(u) \/ Ingest(u) \/ IngestFails(u) \/ Loaded(u) \/ UploadFailed(u)
  PROVE  IInv'
<1>1. ASSUME UNCHANGED message,
             workbookId' \in Upload \cup {Nothing}, sessionId' \in Message \cup {Nothing},
             waiting' \subseteq Upload \cup Message, sessions' = sessions,
             DOMAIN upload' = Upload
      PROVE  IInv'
  BY <1>1 DEF IInv, MessageTypes, PageTypes, SessionsAreSent, WorkbookIsNamed, WorkbookOf
<1>2. CASE Pick(u)
  <2>1. /\ message' = Crowded
        /\ UNCHANGED <<workbookId, sessionId, sessions>>
        /\ waiting' = waiting \cup {u} /\ DOMAIN upload' = DOMAIN upload
    BY <1>2 DEF Pick, stores
  <2>2. MessageTypes' /\ PageTypes'
    BY <2>1, CrowdedKeeps DEF IInv, MessageTypes, PageTypes
  <2>3. SessionsAreSent' /\ WorkbookIsNamed'
    BY <2>1, CrowdedKeeps, CallAssumption
       DEF IInv, MessageTypes, PageTypes, SessionsAreSent, WorkbookIsNamed, WorkbookOf
  <2>. QED
    BY <2>2, <2>3 DEF IInv
<1>3. CASE Ingest(u) \/ IngestFails(u) \/ Loaded(u) \/ UploadFailed(u)
  BY <1>1, <1>3 DEF Ingest, IngestFails, Loaded, UploadFailed, IInv, PageTypes, page, stores
<1>. QED
  BY <1>2, <1>3

LEMMA SendStep ==
  ASSUME IInv, NEW m \in Message, Send(m)
  PROVE  IInv'
<1> USE CallAssumption
<1>1. /\ message[m].at = "unsent"
      /\ message' = [Crowded EXCEPT ![m] =
           [Unsent EXCEPT !.at = "sent", !.workbook = workbookId, !.names = sessionId,
                          !.alone = (waiting = {})]]
      /\ waiting' = waiting \cup {m}
      /\ UNCHANGED <<workbookId, sessionId, sessions, upload>>
  BY DEF Send, stores
<1>2. /\ message'[m].at = "sent" /\ message'[m].session = Nothing
      /\ \A n \in Message \ {m} :
           /\ message'[n].at = message[n].at
           /\ message'[n].workbook = message[n].workbook
           /\ message'[n].session = message[n].session
  BY <1>1, CrowdedKeeps DEF Unsent
<1>3. MessageTypes' /\ PageTypes'
  BY <1>1, CrowdedKeeps DEF IInv, MessageTypes, PageTypes, Unsent, At
<1>4. SessionsAreSent'
  BY <1>1, <1>2 DEF IInv, MessageTypes, PageTypes, SessionsAreSent
<1>5. WorkbookIsNamed'
  <2>. SUFFICES ASSUME NEW n \in Message, message'[n].session # Nothing
                PROVE  message'[message'[n].session].workbook = message'[n].workbook
    BY DEF WorkbookIsNamed, WorkbookOf
  <2>1. n # m /\ message'[n].session = message[n].session
    BY <1>2
  <2>2. message[n].session \in Message \ {m}
    BY <1>1, <2>1 DEF IInv, MessageTypes, SessionsAreSent
  <2>. QED
    BY <1>2, <2>1, <2>2 DEF IInv, WorkbookIsNamed, WorkbookOf
<1>. QED
  BY <1>3, <1>4, <1>5 DEF IInv

\* The one step that gives a message its session.
LEMMA ServeStep ==
  ASSUME IInv, NEW m \in Message, Serve(m)
  PROVE  IInv'
<1> USE CallAssumption
<1> DEFINE s == GetOrCreate(m, message[m].names)
<1>1. /\ message[m].at = "sent"
      /\ message' = [message EXCEPT ![m].at = "answering", ![m].session = s]
      /\ sessions' = sessions \cup {s}
      /\ UNCHANGED <<workbookId, sessionId, waiting, upload>>
  BY DEF Serve, page
<1>2. /\ s \in Message
      /\ message[s].workbook = message[m].workbook
      /\ message[s].at # "unsent"
  BY <1>1 DEF GetOrCreate, WorkbookOf, IInv, PageTypes, SessionsAreSent
<1>. HIDE DEF s
<1>3. /\ message'[m].at = "answering" /\ message'[m].session = s
      /\ message'[m].workbook = message[m].workbook
      /\ \A n \in Message \ {m} : message'[n] = message[n]
  BY <1>1 DEF IInv, MessageTypes
<1>4. MessageTypes' /\ PageTypes'
  <2> DEFINE f == [message[m] EXCEPT !.at = "answering", !.session = s]
             T == [at : At, workbook : Upload \cup {Nothing}, names : Message \cup {Nothing},
                   session : Message \cup {Nothing}, alone : BOOLEAN]
  <2>1. message \in [Message -> T]
    BY DEF IInv, MessageTypes
  <2>2. message' = [message EXCEPT ![m] = f]
    BY <1>1, <2>1
  <2>3. f \in T
    BY <2>1, <1>2 DEF At
  <2>. HIDE DEF f, T
  <2>4. message' \in [Message -> T]
    BY <2>1, <2>2, <2>3
  <2>. QED
    BY <1>1, <1>2, <2>4 DEF T, IInv, MessageTypes, PageTypes
<1>5. \A n \in Message : message'[n].workbook = message[n].workbook
  BY <1>3
<1>6. \A n \in Message : message[n].at # "unsent" => message'[n].at # "unsent"
  BY <1>3
<1>7. SessionsAreSent'
  BY <1>1, <1>2, <1>3, <1>6 DEF IInv, MessageTypes, PageTypes, SessionsAreSent
<1>8. WorkbookIsNamed'
  <2>. SUFFICES ASSUME NEW n \in Message, message'[n].session # Nothing
                PROVE  message'[message'[n].session].workbook = message'[n].workbook
    BY DEF WorkbookIsNamed, WorkbookOf
  <2>1. CASE n = m
    BY <2>1, <1>2, <1>3, <1>5
  <2>2. CASE n # m
    <3>1. message'[n].session = message[n].session /\ message[n].session \in Message
      BY <2>2, <1>3 DEF IInv, MessageTypes
    <3>. QED
      BY <3>1, <1>5 DEF IInv, WorkbookIsNamed, WorkbookOf
  <2>. QED
    BY <2>1, <2>2
<1>. QED
  BY <1>4, <1>7, <1>8 DEF IInv

\* The rest of a message's way, and a restart, move messages on and no more.
LEMMA MovesOn ==
  ASSUME IInv, NEW M \in SUBSET Message, NEW a \in At \ {"unsent", "sent"},
         \A m \in M : message[m].at # "unsent",
         a # "failed" => \A m \in M : message[m].session # Nothing,
         message' = [m \in Message |-> IF m \in M THEN [message[m] EXCEPT !.at = a]
                                                   ELSE message[m]],
         sessions' \subseteq sessions, PageTypes'
  PROVE  IInv'
<1> USE CallAssumption
<1>1. \A m \in Message :
        /\ message'[m].session = message[m].session
        /\ message'[m].workbook = message[m].workbook
        /\ message'[m].at = IF m \in M THEN a ELSE message[m].at
  BY DEF IInv, MessageTypes
<1>2. MessageTypes'
  BY DEF IInv, MessageTypes
<1>3. SessionsAreSent'
  BY <1>1 DEF IInv, MessageTypes, PageTypes, SessionsAreSent, At
<1>4. WorkbookIsNamed'
  BY <1>1 DEF IInv, MessageTypes, WorkbookIsNamed, WorkbookOf
<1>. QED
  BY <1>2, <1>3, <1>4 DEF IInv

LEMMA MessageStep ==
  ASSUME IInv, NEW m \in Message,
         Answer(m) \/ AskFails(m) \/ Hear(m) \/ HearError(m)
  PROVE  IInv'
<1> USE CallAssumption
<1>1. ASSUME NEW a \in At \ {"unsent", "sent"}, message[m].at # "unsent",
             a # "failed" => message[m].session # Nothing,
             message' = [message EXCEPT ![m].at = a],
             UNCHANGED <<page, upload, sessions>>
      PROVE  IInv'
  <2> DEFINE M == {m}
  <2>1. message' = [n \in Message |-> IF n \in M THEN [message[n] EXCEPT !.at = a]
                                                ELSE message[n]]
    BY <1>1 DEF IInv, MessageTypes
  <2>2. PageTypes'
    BY <1>1 DEF IInv, PageTypes, page
  <2>3. /\ M \in SUBSET Message /\ \A n \in M : message[n].at # "unsent"
        /\ a # "failed" => \A n \in M : message[n].session # Nothing
        /\ sessions' \subseteq sessions
    BY <1>1
  <2>. HIDE DEF M
  <2>. QED
    BY <1>1, <2>1, <2>2, <2>3, MovesOn
<1>2. CASE Answer(m)
  <2>1. message[m].at = "answering" /\ message' = [message EXCEPT ![m].at = "answered"]
        /\ UNCHANGED <<page, upload, sessions>>
    BY <1>2 DEF Answer, stores
  <2>2. message[m].session # Nothing
    BY <2>1 DEF IInv, SessionsAreSent
  <2>. QED
    BY <2>1, <2>2, <1>1 DEF At
<1>3. CASE AskFails(m)
  <2>1. message[m].at # "unsent" /\ message' = [message EXCEPT ![m].at = "failed"]
        /\ UNCHANGED <<page, upload, sessions>>
    BY <1>3 DEF AskFails, stores
  <2>. QED
    BY <2>1, <1>1 DEF At
<1>4. CASE Hear(m) \/ HearError(m)
  <2>1. UNCHANGED <<message, sessions, upload>> /\ workbookId' = workbookId
    BY <1>4 DEF Hear, HearError, stores
  <2>2. PageTypes'
    BY <1>4, <2>1 DEF Hear, HearError, IInv, PageTypes, MessageTypes
  <2>. QED
    BY <2>1, <2>2 DEF IInv, MessageTypes, SessionsAreSent, WorkbookIsNamed, WorkbookOf
<1>. QED
  BY <1>2, <1>3, <1>4

\* Every step keeps the invariant.
LEMMA InvStep == IInv /\ [Next]_vars => IInv'
<1> SUFFICES ASSUME IInv, [Next]_vars PROVE IInv'
  OBVIOUS
<1> USE CallAssumption
<1>1. CASE Reload
  BY <1>1 DEF Reload, stores, IInv, MessageTypes, PageTypes, SessionsAreSent,
              WorkbookIsNamed, WorkbookOf
<1>2. CASE Restart
  <2> DEFINE M == {m \in Message : message[m].at = "answering"}
  <2>1. /\ message' = [m \in Message |-> IF m \in M THEN [message[m] EXCEPT !.at = "failed"]
                                                   ELSE message[m]]
        /\ sessions' = {}
        /\ UNCHANGED <<workbookId, sessionId, waiting, upload>>
    BY <1>2 DEF Restart, page
  <2>2. PageTypes'
    BY <2>1 DEF IInv, PageTypes
  <2>. QED
    BY <2>1, <2>2, MovesOn DEF At
<1>3. CASE UNCHANGED vars
  BY <1>3 DEF vars, page, stores, IInv, MessageTypes, PageTypes, SessionsAreSent,
              WorkbookIsNamed, WorkbookOf
<1>. QED
  BY <1>1, <1>2, <1>3, UploadStep, SendStep, ServeStep, MessageStep DEF Next

\* However uploads, messages and late responses of a page overlap, and whatever
\* the server forgets, a message is answered in a session of the workbook it names
\* (ChatSessionStore.get_or_create).
THEOREM WorkbookNaming == Spec => []WorkbookIsNamed
<1>1. IInv => WorkbookIsNamed
  BY DEF IInv
<1>. QED
  BY <1>1, InitInv, InvStep, PTL DEF Spec

-----------------------------------------------------------------------------
\* Conversations.

UnderWay == {"sent", "answering"}

\* A message is about a workbook that was picked and loaded before: the page does not
\* turn to that workbook again.
WorkbookWasLoaded ==
  /\ \A m \in Message : message[m].at # "unsent" =>
       /\ message[m].workbook \in Upload /\ upload[message[m].workbook] # "unsent"
       /\ message[m].workbook \notin waiting
  /\ workbookId # Nothing => upload[workbookId] # "unsent" /\ workbookId \notin waiting

\* What alone means of the page, and what it means to be under way.
AloneIsAlone ==
  \A m \in Message :
    /\ message[m].at = "unsent" => m \notin waiting /\ ~message[m].alone
    /\ message[m].alone /\ m \in waiting => waiting = {m} /\ workbookId = message[m].workbook
    /\ message[m].at \in UnderWay /\ m \notin waiting => message[m].workbook # workbookId

\* Of the messages about a workbook one at most is under way and alone.
OneUnderWay ==
  \A m, n \in Message :
    /\ message[m].alone /\ message[n].alone /\ message[m].workbook = message[n].workbook
    /\ message[m].at \in UnderWay /\ message[n].at \in UnderWay
    => m = n

\* A session was made when its message was served; a restart ends what is answered.
SessionsAreServed ==
  /\ \A s \in sessions : message[s].at \notin {"unsent", "sent"}
  /\ \A m \in Message :
       /\ message[m].session # Nothing => message[message[m].session].at \notin {"unsent", "sent"}
       /\ message[m].at = "answering" => message[m].session \in sessions

\* Message k is in session s, or will be.
Keeps(k, s) ==
  /\ message[k].at = "sent" => message[k].names = s
  /\ message[k].at \in {"answering", "answered"} => message[k].session = s

\* Message n was answered alone, in a session that is not forgotten.
Settled(n) ==
  message[n].alone /\ message[n].at = "answered" /\ message[n].session \in sessions

\* What is sent after such a message goes to its session: what was alone too, and what
\* the page waits for, as long as it is at that workbook.
SessionIsFollowed ==
  \A n \in Message : Settled(n) =>
    /\ \A k \in Message :
         /\ message[k].alone /\ message[k].workbook = message[n].workbook
         /\ message[k].at = "answered" => message[k].session \in sessions
         => Keeps(k, message[n].session)
    /\ workbookId = message[n].workbook /\ n \notin waiting =>
         /\ sessionId = message[n].session
         /\ \A k \in Message \cap waiting :
              message[k].workbook = workbookId /\ Keeps(k, message[n].session)

KInv == /\ IInv /\ WorkbookWasLoaded /\ AloneIsAlone /\ OneUnderWay /\ SessionsAreServed
        /\ SessionIsFollowed

\* What each action does to the messages, field by field.
SameBut(M) ==
  \A m \in Message \ M :
    /\ message'[m].at = message[m].at /\ message'[m].workbook = message[m].workbook
    /\ message'[m].names = message[m].names /\ message'[m].session = message[m].session
    /\ message'[m].alone => message[m].alone

LEMMA CrowdedFields ==
  ASSUME IInv, NEW m \in Message
  PROVE  /\ Crowded[m].at = message[m].at /\ Crowded[m].workbook = message[m].workbook
         /\ Crowded[m].names = message[m].names /\ Crowded[m].session = message[m].session
         /\ Crowded[m].alone => message[m].alone /\ m \notin waiting
BY DEF IInv, MessageTypes, Crowded

LEMMA PickDoes ==
  ASSUME IInv, NEW u \in Upload, Pick(u)
  PROVE  /\ SameBut({}) /\ \A m \in Message : message'[m].alone => m \notin waiting
         /\ upload[u] = "unsent" /\ waiting' = waiting \cup {u}
         /\ UNCHANGED <<workbookId, sessionId, sessions>>
         /\ \A v \in Upload : upload[v] # "unsent" => upload'[v] # "unsent"
<1>1. /\ message' = Crowded /\ upload' = [upload EXCEPT ![u] = "sent"]
      /\ upload[u] = "unsent" /\ waiting' = waiting \cup {u}
      /\ UNCHANGED <<workbookId, sessionId, sessions>>
  BY DEF Pick, stores
<1>2. \A v \in Upload : upload[v] # "unsent" => upload'[v] # "unsent"
  BY <1>1
<1> QED
  BY <1>1, <1>2, CrowdedFields DEF SameBut

LEMMA SendDoes ==
  ASSUME IInv, NEW m \in Message, Send(m)
  PROVE  /\ SameBut({m}) /\ message[m].at = "unsent" /\ workbookId # Nothing
         /\ message'[m].at = "sent" /\ message'[m].workbook = workbookId
         /\ message'[m].names = sessionId /\ message'[m].session = Nothing
         /\ message'[m].alone => waiting = {}
         /\ \A n \in Message \ {m} : message'[n].alone => n \notin waiting
         /\ waiting' = waiting \cup {m} /\ UNCHANGED <<workbookId, sessionId, upload, sessions>>
<1> DEFINE r == [Unsent EXCEPT !.at = "sent", !.workbook = workbookId, !.names = sessionId,
                               !.alone = (waiting = {})]
<1>1. /\ message[m].at = "unsent" /\ workbookId # Nothing
      /\ message' = [Crowded EXCEPT ![m] = r]
      /\ waiting' = waiting \cup {m} /\ UNCHANGED <<workbookId, sessionId, upload, sessions>>
  BY DEF Send, stores
<1>2. /\ r.at = "sent" /\ r.workbook = workbookId /\ r.names = sessionId /\ r.session = Nothing
      /\ r.alone => waiting = {}
  BY DEF Unsent
<1> HIDE DEF r
<1>3. message'[m] = r /\ \A n \in Message \ {m} : message'[n] = Crowded[n]
  BY <1>1 DEF Crowded
<1> QED
  BY <1>1, <1>2, <1>3, CrowdedFields DEF SameBut

LEMMA ServeDoes ==
  ASSUME IInv, NEW m \in Message, Serve(m)
  PROVE  LET s == GetOrCreate(m, message[m].names)
         IN  /\ SameBut({m}) /\ message[m].at = "sent" /\ message'[m].at = "answering"
             /\ message'[m].session = s /\ message'[m].workbook = message[m].workbook
             /\ message'[m].alone = message[m].alone
             /\ sessions' = sessions \cup {s} /\ s \in sessions \cup {m}
             /\ UNCHANGED <<workbookId, sessionId, waiting, upload>>
<1> DEFINE s == GetOrCreate(m, message[m].names)
<1>1. /\ message[m].at = "sent" /\ sessions' = sessions \cup {s}
      /\ message' = [message EXCEPT ![m].at = "answering", ![m].session = s]
      /\ UNCHANGED <<workbookId, sessionId, waiting, upload>>
  BY DEF Serve, page
<1>2. s \in sessions \cup {m}
  BY DEF GetOrCreate
<1> HIDE DEF s
<1>3. /\ message'[m].at = "answering" /\ message'[m].session = s
      /\ message'[m].workbook = message[m].workbook /\ message'[m].alone = message[m].alone
      /\ \A n \in Message \ {m} : message'[n] = message[n]
  BY <1>1 DEF IInv, MessageTypes
<1> QED
  BY <1>1, <1>2, <1>3 DEF SameBut, s

LEMMA MovesDo ==
  ASSUME IInv, NEW m \in Message, NEW a, message' = [message EXCEPT ![m].at = a]
  PROVE  /\ SameBut({m}) /\ message'[m].at = a
         /\ message'[m].workbook = message[m].workbook /\ message'[m].names = message[m].names
         /\ message'[m].session = message[m].session /\ message'[m].alone = message[m].alone
BY DEF IInv, MessageTypes, SameBut

LEMMA RestartDoes ==
  ASSUME IInv, Restart
  PROVE  /\ sessions' = {} /\ UNCHANGED <<workbookId, sessionId, waiting, upload>>
         /\ \A m \in Message :
              /\ message'[m].workbook = message[m].workbook /\ message'[m].names = message[m].names
              /\ message'[m].session = message[m].session /\ message'[m].alone = message[m].alone
              /\ message'[m].at = IF message[m].at = "answering" THEN "failed" ELSE message[m].at
BY DEF IInv, MessageTypes, Restart, page

\* The steps by what they change.
LEMMA StepKinds ==
  ASSUME IInv, [Next]_vars
  PROVE  \/ \E u \in Upload : Pick(u) \/ Loaded(u)
         \/ \E m \in Message : Send(m) \/ Serve(m) \/ Hear(m)
         \/ \E m \in Message, a \in {"answered", "failed"} :
              /\ a = "answered" => message[m].at = "answering"
              /\ a = "failed" => message[m].at \in {"sent", "answering", "answered"}
              /\ message' = [message EXCEPT ![m].at = a]
              /\ UNCHANGED <<workbookId, sessionId, waiting, upload, sessions>>
         \/ Restart
         \/ /\ UNCHANGED <<sessionId, message, sessions>>
            /\ \A v \in Upload : upload[v] # "unsent" => upload'[v] # "unsent"
            /\ \/ workbookId' = Nothing /\ waiting' = {}
               \/ UNCHANGED <<workbookId, waiting>>
               \/ /\ UNCHANGED workbookId
                  /\ \E x \in waiting : /\ waiting' = waiting \ {x}
                                        /\ x \in Message => message[x].at = "failed"
<1>1. ASSUME NEW u \in Upload, Ingest(u) \/ IngestFails(u)
      PROVE  /\ UNCHANGED <<sessionId, message, sessions, workbookId, waiting>>
             /\ \A v \in Upload : upload[v] # "unsent" => upload'[v] # "unsent"
  <2>1. /\ UNCHANGED <<sessionId, message, sessions, workbookId, waiting>>
        /\ \E o \in {"answered", "failed"} : upload' = [upload EXCEPT ![u] = o]
    BY <1>1 DEF Ingest, IngestFails, page, stores
  <2> QED
    BY <2>1
<1>2. ASSUME NEW u \in Upload, UploadFailed(u)
      PROVE  /\ UNCHANGED <<sessionId, message, sessions, workbookId, upload>>
             /\ u \in waiting /\ waiting' = waiting \ {u}
  BY <1>2 DEF UploadFailed, stores
<1>3. ASSUME NEW m \in Message, HearError(m)
      PROVE  /\ UNCHANGED <<sessionId, message, sessions, workbookId, upload>>
             /\ m \in waiting /\ waiting' = waiting \ {m} /\ message[m].at = "failed"
  BY <1>3 DEF HearError, stores
<1>4. ASSUME NEW m \in Message, Answer(m)
      PROVE  /\ message[m].at = "answering" /\ message' = [message EXCEPT ![m].at = "answered"]
             /\ UNCHANGED <<workbookId, sessionId, waiting, upload, sessions>>
  BY <1>4 DEF Answer, page, stores
<1>5. ASSUME NEW m \in Message, AskFails(m)
      PROVE  /\ message[m].at \in {"sent", "answering", "answered"}
             /\ message' = [message EXCEPT ![m].at = "failed"]
             /\ UNCHANGED <<workbookId, sessionId, waiting, upload, sessions>>
  BY <1>5 DEF AskFails, page, stores
<1>6. CASE Reload
  BY <1>6 DEF Reload, stores
<1>7. CASE UNCHANGED vars
  BY <1>7 DEF vars, page, stores
<1>8. \A u \in Upload : u \notin Message
  BY CallAssumption
<1> QED
  BY <1>1, <1>2, <1>3, <1>4, <1>5, <1>6, <1>7, <1>8 DEF Next

LEMMA InitK == Init => KInv
BY InitInv, CallAssumption
   DEF Init, KInv, WorkbookWasLoaded, AloneIsAlone, OneUnderWay, SessionsAreServed,
       SessionIsFollowed, Settled, UnderWay, Unsent

LEMMA LoadedStep == KInv /\ [Next]_vars => WorkbookWasLoaded'
<1> SUFFICES ASSUME KInv, [Next]_vars PROVE WorkbookWasLoaded'
  OBVIOUS
<1> USE CallAssumption
<1>0. IInv /\ WorkbookWasLoaded /\ workbookId \in Upload \cup {Nothing}
  BY DEF KInv, IInv, PageTypes
<1>1. ASSUME \A m \in Message : /\ message'[m].workbook = message[m].workbook
                                /\ message[m].at = "unsent" => message'[m].at = "unsent",
             \A v \in Upload : upload[v] # "unsent" => upload'[v] # "unsent",
             \A v \in Upload : v \in waiting' /\ upload[v] # "unsent" => v \in waiting,
             workbookId' \in {workbookId, Nothing}
      PROVE  WorkbookWasLoaded'
  BY <1>0, <1>1 DEF WorkbookWasLoaded
<1>2. ASSUME NEW u \in Upload, Pick(u) PROVE WorkbookWasLoaded'
  BY <1>0, <1>1, <1>2, PickDoes DEF SameBut
<1>3. ASSUME NEW u \in Upload, Loaded(u) PROVE WorkbookWasLoaded'
  BY <1>0, <1>3 DEF Loaded, stores, WorkbookWasLoaded
<1>4. ASSUME NEW m \in Message, Send(m) PROVE WorkbookWasLoaded'
  BY <1>0, <1>4, SendDoes DEF SameBut, WorkbookWasLoaded
<1>5. ASSUME NEW m \in Message, Serve(m) PROVE WorkbookWasLoaded'
  BY <1>0, <1>1, <1>5, ServeDoes DEF SameBut
<1>6. ASSUME NEW m \in Message, Hear(m) PROVE WorkbookWasLoaded'
  BY <1>0, <1>1, <1>6 DEF Hear, stores
<1>7. ASSUME NEW m \in Message, NEW a, message[m].at # "unsent",
             message' = [message EXCEPT ![m].at = a],
             UNCHANGED <<workbookId, waiting, upload>>
      PROVE  WorkbookWasLoaded'
  BY <1>0, <1>1, <1>7, MovesDo DEF SameBut
<1>8. CASE Restart
  BY <1>0, <1>1, <1>8, RestartDoes
<1>9. CASE /\ UNCHANGED <<sessionId, message, sessions>>
           /\ \A v \in Upload : upload[v] # "unsent" => upload'[v] # "unsent"
           /\ \/ workbookId' = Nothing /\ waiting' = {}
              \/ UNCHANGED <<workbookId, waiting>>
              \/ /\ UNCHANGED workbookId
                 /\ \E x \in waiting : /\ waiting' = waiting \ {x}
                                       /\ x \in Message => message[x].at = "failed"
  BY <1>0, <1>1, <1>9
<1> QED
  BY <1>0, <1>2, <1>3, <1>4, <1>5, <1>6, <1>7, <1>8, <1>9, StepKinds

LEMMA AloneStep == KInv /\ [Next]_vars => AloneIsAlone'
<1> SUFFICES ASSUME KInv, [Next]_vars PROVE AloneIsAlone'
  OBVIOUS
<1> USE CallAssumption
<1>0. IInv /\ WorkbookWasLoaded /\ AloneIsAlone
  BY DEF KInv
<1>2. ASSUME NEW u \in Upload, Pick(u) PROVE AloneIsAlone'
  BY <1>0, <1>2, PickDoes DEF SameBut, AloneIsAlone, UnderWay
<1>3. ASSUME NEW u \in Upload, Loaded(u) PROVE AloneIsAlone'
  BY <1>0, <1>3 DEF Loaded, stores, WorkbookWasLoaded, AloneIsAlone, UnderWay
<1>4. ASSUME NEW m \in Message, Send(m) PROVE AloneIsAlone'
  BY <1>0, <1>4, SendDoes DEF SameBut, AloneIsAlone, UnderWay
<1>5. ASSUME NEW m \in Message, Serve(m) PROVE AloneIsAlone'
  BY <1>0, <1>5, ServeDoes DEF SameBut, AloneIsAlone, UnderWay
<1>6. ASSUME NEW m \in Message, Hear(m) PROVE AloneIsAlone'
  BY <1>0, <1>6 DEF Hear, stores, AloneIsAlone, UnderWay
<1>7. ASSUME NEW m \in Message, NEW a \in {"answered", "failed"}, message[m].at # "unsent",
             message' = [message EXCEPT ![m].at = a],
             UNCHANGED <<workbookId, waiting, upload>>
      PROVE  AloneIsAlone'
  BY <1>0, <1>7, MovesDo DEF SameBut, AloneIsAlone, UnderWay
<1>8. CASE Restart
  BY <1>0, <1>8, RestartDoes DEF AloneIsAlone, UnderWay
<1>9. CASE /\ UNCHANGED <<sessionId, message, sessions>>
           /\ \/ workbookId' = Nothing /\ waiting' = {}
              \/ UNCHANGED <<workbookId, waiting>>
              \/ /\ UNCHANGED workbookId
                 /\ \E x \in waiting : /\ waiting' = waiting \ {x}
                                       /\ x \in Message => message[x].at = "failed"
  BY <1>0, <1>9 DEF WorkbookWasLoaded, AloneIsAlone, UnderWay
<1> QED
  BY <1>0, <1>2, <1>3, <1>4, <1>5, <1>6, <1>7, <1>8, <1>9, StepKinds

LEMMA UnderWayStep == KInv /\ [Next]_vars => OneUnderWay'
<1> SUFFICES ASSUME KInv, [Next]_vars PROVE OneUnderWay'
  OBVIOUS
<1>0. IInv /\ AloneIsAlone /\ OneUnderWay
  BY DEF KInv
<1>1. ASSUME \A m \in Message : /\ message'[m].workbook = message[m].workbook
                                /\ message'[m].at \in UnderWay => message[m].at \in UnderWay
                                /\ message'[m].alone => message[m].alone
      PROVE  OneUnderWay'
  BY <1>0, <1>1 DEF OneUnderWay
<1>2. ASSUME NEW u \in Upload, Pick(u) PROVE OneUnderWay'
  BY <1>0, <1>1, <1>2, PickDoes DEF SameBut
<1>3. ASSUME UNCHANGED message PROVE OneUnderWay'
  BY <1>1, <1>3
<1>4. ASSUME NEW m \in Message, Send(m) PROVE OneUnderWay'
  BY <1>0, <1>4, SendDoes DEF SameBut, AloneIsAlone, OneUnderWay
<1>5. ASSUME NEW m \in Message, Serve(m) PROVE OneUnderWay'
  BY <1>0, <1>1, <1>5, ServeDoes DEF SameBut, UnderWay
<1>7. ASSUME NEW m \in Message, NEW a \in {"answered", "failed"},
             message' = [message EXCEPT ![m].at = a]
      PROVE  OneUnderWay'
  BY <1>0, <1>1, <1>7, MovesDo DEF SameBut, UnderWay
<1>8. CASE Restart
  BY <1>0, <1>1, <1>8, RestartDoes DEF UnderWay
<1>9. (\E u \in Upload : Loaded(u)) \/ (\E m \in Message : Hear(m)) => UNCHANGED message
  BY DEF Loaded, Hear
<1> QED
  BY <1>0, <1>2, <1>3, <1>4, <1>5, <1>7, <1>8, <1>9, StepKinds

LEMMA ServedStep == KInv /\ [Next]_vars => SessionsAreServed'
<1> SUFFICES ASSUME KInv, [Next]_vars PROVE SessionsAreServed'
  OBVIOUS
<1> USE CallAssumption
<1>0. /\ IInv /\ SessionsAreServed /\ sessions \subseteq Message
      /\ \A m \in Message : message[m].session \in Message \cup {Nothing}
  BY DEF KInv, IInv, PageTypes, MessageTypes
<1>1. ASSUME \A m \in Message :
               /\ message'[m].session = message[m].session
               /\ message[m].at \notin {"unsent", "sent"} => message'[m].at \notin {"unsent", "sent"}
               /\ message'[m].at = "answering" => message[m].at = "answering",
             UNCHANGED sessions
      PROVE  SessionsAreServed'
  BY <1>0, <1>1 DEF SessionsAreServed
<1>2. ASSUME NEW u \in Upload, Pick(u) PROVE SessionsAreServed'
  BY <1>0, <1>1, <1>2, PickDoes DEF SameBut
<1>3. ASSUME UNCHANGED <<message, sessions>> PROVE SessionsAreServed'
  BY <1>1, <1>3
<1>4. ASSUME NEW m \in Message, Send(m) PROVE SessionsAreServed'
  BY <1>0, <1>4, SendDoes DEF SameBut, SessionsAreServed
<1>5. ASSUME NEW m \in Message, Serve(m) PROVE SessionsAreServed'
  BY <1>0, <1>5, ServeDoes DEF SameBut, SessionsAreServed
<1>7. ASSUME NEW m \in Message, NEW a \in {"answered", "failed"},
             message' = [message EXCEPT ![m].at = a], UNCHANGED sessions
      PROVE  SessionsAreServed'
  BY <1>0, <1>1, <1>7, MovesDo DEF SameBut
<1>8. CASE Restart
  BY <1>0, <1>8, RestartDoes DEF SessionsAreServed
<1>9. (\E u \in Upload : Loaded(u)) \/ (\E m \in Message : Hear(m))
      => UNCHANGED <<message, sessions>>
  BY DEF Loaded, Hear, stores
<1> QED
  BY <1>0, <1>2, <1>3, <1>4, <1>5, <1>7, <1>8, <1>9, StepKinds

\* A session that is not forgotten is not one that is made now.
LEMMA FollowedStep == KInv /\ [Next]_vars => SessionIsFollowed'
<1> SUFFICES ASSUME KInv, [Next]_vars PROVE SessionIsFollowed'
  OBVIOUS
<1> USE CallAssumption
<1>0. /\ IInv /\ WorkbookWasLoaded /\ AloneIsAlone /\ OneUnderWay /\ SessionsAreServed
      /\ SessionIsFollowed /\ sessions \subseteq Message
      /\ \A m \in Message : message[m].at \in At
  BY DEF KInv, IInv, PageTypes, MessageTypes
\* A step that leaves messages and sessions: what it does to the page is in question.
<1>1. ASSUME UNCHANGED <<message, sessions>>,
             \A n \in Message :
               /\ Settled(n) /\ workbookId' = message[n].workbook /\ n \notin waiting'
               => /\ sessionId' = message[n].session
                  /\ \A k \in Message \cap waiting' :
                       message[k].workbook = workbookId' /\ Keeps(k, message[n].session)
      PROVE  SessionIsFollowed'
  BY <1>0, <1>1 DEF SessionIsFollowed, Settled, Keeps
<1>2. ASSUME NEW u \in Upload, Pick(u) PROVE SessionIsFollowed'
  BY <1>0, <1>2, PickDoes DEF SameBut, SessionIsFollowed, Settled, Keeps
<1>3. ASSUME NEW u \in Upload, Loaded(u) PROVE SessionIsFollowed'
  BY <1>0, <1>1, <1>3 DEF Loaded, stores, WorkbookWasLoaded, Settled
<1>4. ASSUME NEW m \in Message, Send(m) PROVE SessionIsFollowed'
  <2> SUFFICES ASSUME NEW n \in Message, Settled(n)'
               PROVE  /\ \A k \in Message :
                           /\ message'[k].alone /\ message'[k].workbook = message'[n].workbook
                           /\ message'[k].at = "answered" => message'[k].session \in sessions'
                           => Keeps(k, message[n].session)'
                      /\ workbookId' = message'[n].workbook /\ n \notin waiting' =>
                           /\ sessionId' = message[n].session
                           /\ \A k \in Message \cap waiting' :
                                message'[k].workbook = workbookId' /\ Keeps(k, message[n].session)'
                      /\ message'[n].session = message[n].session
    BY DEF SessionIsFollowed, Keeps
  <2>1. n # m /\ Settled(n) /\ message'[n].workbook = message[n].workbook
        /\ message'[n].session = message[n].session
    BY <1>0, <1>4, SendDoes DEF SameBut, Settled
  <2>2. /\ \A k \in Message :
             /\ message[k].alone /\ message[k].workbook = message[n].workbook
             /\ message[k].at = "answered" => message[k].session \in sessions
             => Keeps(k, message[n].session)
        /\ workbookId = message[n].workbook /\ n \notin waiting =>
             /\ sessionId = message[n].session
             /\ \A k \in Message \cap waiting :
                  message[k].workbook = workbookId /\ Keeps(k, message[n].session)
    BY <1>0, <2>1 DEF SessionIsFollowed
  <2> QED
    BY <1>0, <1>4, <2>1, <2>2, SendDoes DEF SameBut, Keeps
<1>5. ASSUME NEW m \in Message, Serve(m) PROVE SessionIsFollowed'
  <2> SUFFICES ASSUME NEW n \in Message, Settled(n)'
               PROVE  /\ \A k \in Message :
                           /\ message'[k].alone /\ message'[k].workbook = message'[n].workbook
                           /\ message'[k].at = "answered" => message'[k].session \in sessions'
                           => Keeps(k, message[n].session)'
                      /\ workbookId' = message'[n].workbook /\ n \notin waiting' =>
                           /\ sessionId' = message[n].session
                           /\ \A k \in Message \cap waiting' :
                                message'[k].workbook = workbookId' /\ Keeps(k, message[n].session)'
                      /\ message'[n].session = message[n].session
    BY DEF SessionIsFollowed, Keeps
  <2> DEFINE s == GetOrCreate(m, message[m].names)
  <2>0. /\ SameBut({m}) /\ message[m].at = "sent" /\ message'[m].at = "answering"
        /\ message'[m].session = s /\ message'[m].workbook = message[m].workbook
        /\ message'[m].alone = message[m].alone
        /\ sessions' = sessions \cup {s} /\ s \in sessions \cup {m}
        /\ UNCHANGED <<workbookId, sessionId, waiting, upload>>
    BY <1>0, <1>5, ServeDoes
  <2>1. \A k \in Message : message[k].session # m
    BY <1>0, <2>0 DEF SessionsAreServed
  <2>2. \A k \in Message \ {m} : message'[k].session \in sessions' => message[k].session \in sessions
    BY <2>0, <2>1 DEF SameBut
  <2>3. n # m /\ Settled(n) /\ message'[n].workbook = message[n].workbook
        /\ message'[n].session = message[n].session
    BY <2>0, <2>2 DEF SameBut, Settled
  <2>4. /\ \A k \in Message :
             /\ message[k].alone /\ message[k].workbook = message[n].workbook
             /\ message[k].at = "answered" => message[k].session \in sessions
             => Keeps(k, message[n].session)
        /\ workbookId = message[n].workbook /\ n \notin waiting =>
             /\ sessionId = message[n].session
             /\ \A k \in Message \cap waiting :
                  message[k].workbook = workbookId /\ Keeps(k, message[n].session)
    BY <1>0, <2>3 DEF SessionIsFollowed
  <2>5. message[n].session \in sessions /\ WorkbookOf(message[n].session) = message[n].workbook
    BY <1>0, <2>3 DEF Settled, IInv, WorkbookIsNamed
  <2>6. message[m].workbook = message[n].workbook /\ Keeps(m, message[n].session)
        => s = message[n].session
    BY <2>0, <2>5 DEF GetOrCreate, Keeps
  <2> HIDE DEF s
  <2>7. message[m].workbook = message[n].workbook /\ Keeps(m, message[n].session)
        => Keeps(m, message[n].session)'
    BY <2>0, <2>3, <2>6 DEF Keeps
  <2>8. \A k \in Message \ {m} : Keeps(k, message[n].session) => Keeps(k, message[n].session)'
    BY <2>0, <2>3 DEF SameBut, Keeps
  <2>9. ASSUME NEW k \in Message,
               message'[k].alone /\ message'[k].workbook = message'[n].workbook,
               message'[k].at = "answered" => message'[k].session \in sessions'
        PROVE  Keeps(k, message[n].session)'
    <3>1. message[k].alone /\ message[k].workbook = message[n].workbook
      BY <2>0, <2>3, <2>9 DEF SameBut
    <3>2. message[k].at = "answered" => message[k].session \in sessions
      BY <2>0, <2>2, <2>9 DEF SameBut
    <3> QED
      BY <3>1, <3>2, <2>4, <2>7, <2>8
  <2>10. ASSUME workbookId' = message'[n].workbook, n \notin waiting'
         PROVE  /\ sessionId' = message[n].session
                /\ \A k \in Message \cap waiting' :
                     message'[k].workbook = workbookId' /\ Keeps(k, message[n].session)'
    BY <2>0, <2>3, <2>4, <2>7, <2>8, <2>10 DEF SameBut
  <2> QED
    BY <2>3, <2>9, <2>10
<1>6. ASSUME NEW m \in Message, Hear(m) PROVE SessionIsFollowed'
  <2>1. /\ m \in waiting /\ message[m].at = "answered" /\ sessionId' = message[m].session
        /\ waiting' = waiting \ {m} /\ UNCHANGED <<workbookId, message, sessions>>
    BY <1>6 DEF Hear, stores
  <2>2. \A n \in Message : Settled(n) /\ workbookId = message[n].workbook /\ n \notin waiting'
        => /\ sessionId' = message[n].session
           /\ \A k \in Message \cap waiting' :
                message[k].workbook = workbookId /\ Keeps(k, message[n].session)
    <3> SUFFICES ASSUME NEW n \in Message, Settled(n), workbookId = message[n].workbook,
                        n \notin waiting'
                 PROVE  /\ sessionId' = message[n].session
                        /\ \A k \in Message \cap waiting' :
                             message[k].workbook = workbookId /\ Keeps(k, message[n].session)
      OBVIOUS
    <3>1. CASE n = m
      BY <1>0, <2>1, <3>1 DEF AloneIsAlone, Settled
    <3>2. CASE n # m
      BY <1>0, <2>1, <3>2 DEF SessionIsFollowed, Keeps
    <3> QED
      BY <3>1, <3>2
  <2> QED
    BY <1>1, <2>1, <2>2
<1>7. ASSUME NEW m \in Message, NEW a \in {"answered", "failed"},
             a = "answered" => message[m].at = "answering",
             a = "failed" => message[m].at \in {"sent", "answering", "answered"},
             message' = [message EXCEPT ![m].at = a],
             UNCHANGED <<workbookId, sessionId, waiting, sessions>>
      PROVE  SessionIsFollowed'
  <2>0. /\ SameBut({m}) /\ message'[m].at = a
        /\ \A k \in Message : /\ message'[k].workbook = message[k].workbook
                              /\ message'[k].session = message[k].session
                              /\ message'[k].names = message[k].names
                              /\ message'[k].alone => message[k].alone
                              /\ k # m => message'[k].at = message[k].at
    <3>1. /\ SameBut({m}) /\ message'[m].at = a
          /\ message'[m].workbook = message[m].workbook /\ message'[m].names = message[m].names
          /\ message'[m].session = message[m].session /\ message'[m].alone = message[m].alone
      BY ONLY <1>0, <1>7, MovesDo
    <3> QED
      BY <3>1 DEF SameBut
  <2>1. ASSUME NEW k \in Message, NEW s, Keeps(k, s) PROVE Keeps(k, s)'
    BY <1>7, <2>0, <2>1 DEF Keeps
  <2>2. \A n \in Message \ {m} : Settled(n)' => Settled(n)
    BY <1>7, <2>0 DEF Settled
  \* The message that is answered now: what else is alone was answered in its session.
  <2>3. ASSUME Settled(m)'
        PROVE  /\ \A k \in Message :
                    /\ message'[k].alone /\ message'[k].workbook = message[m].workbook
                    /\ message'[k].at = "answered" => message[k].session \in sessions
                    => Keeps(k, message[m].session)'
               /\ ~(workbookId = message[m].workbook /\ m \notin waiting)
    <3>1. /\ message[m].at = "answering" /\ message[m].alone /\ a = "answered"
          /\ message[m].session \in sessions
      BY <1>7, <2>0, <2>3 DEF Settled
    <3>2. ~(workbookId = message[m].workbook /\ m \notin waiting)
      BY <1>0, <3>1 DEF AloneIsAlone, UnderWay
    <3>3. ASSUME NEW k \in Message, k # m, message[k].alone,
                 message[k].workbook = message[m].workbook,
                 message[k].at = "answered" => message[k].session \in sessions
          PROVE  Keeps(k, message[m].session)
      <4>1. message[k].at # "unsent" /\ message[k].at \notin {"sent", "answering"}
        BY <1>0, <3>1, <3>3 DEF AloneIsAlone, OneUnderWay, UnderWay
      <4>2. CASE message[k].at = "answered"
        <5>1. Settled(k)
          BY <3>3, <4>2 DEF Settled
        <5>2. Keeps(m, message[k].session)
          BY <1>0, <3>1, <3>3, <5>1 DEF SessionIsFollowed
        <5> QED
          BY <3>1, <4>2, <5>2 DEF Keeps
      <4>3. CASE message[k].at = "failed"
        BY <4>3 DEF Keeps
      <4> QED
        BY <1>0, <4>1, <4>2, <4>3 DEF At
    <3>4. Keeps(m, message[m].session)'
      BY <2>0, <3>1 DEF Keeps
    <3>5. ASSUME NEW k \in Message,
                 message'[k].alone /\ message'[k].workbook = message[m].workbook,
                 message'[k].at = "answered" => message[k].session \in sessions
          PROVE  Keeps(k, message[m].session)'
      <4>1. CASE k = m
        BY <3>4, <4>1
      <4>2. CASE k # m
        <5>1. Keeps(k, message[m].session)
          BY <2>0, <3>3, <3>5, <4>2
        <5> QED
          BY <2>0, <4>2, <5>1 DEF Keeps
      <4> QED
        BY <4>1, <4>2
    <3> QED
      BY <3>2, <3>5
  <2>4. ASSUME NEW n \in Message, n # m, Settled(n)
        PROVE  /\ \A k \in Message :
                    /\ message'[k].alone /\ message'[k].workbook = message[n].workbook
                    /\ message'[k].at = "answered" => message[k].session \in sessions
                    => Keeps(k, message[n].session)'
               /\ workbookId = message[n].workbook /\ n \notin waiting =>
                    /\ sessionId = message[n].session
                    /\ \A k \in Message \cap waiting :
                         message[k].workbook = workbookId /\ Keeps(k, message[n].session)'
    <3>1. /\ \A k \in Message :
               /\ message[k].alone /\ message[k].workbook = message[n].workbook
               /\ message[k].at = "answered" => message[k].session \in sessions
               => Keeps(k, message[n].session)
          /\ workbookId = message[n].workbook /\ n \notin waiting =>
               /\ sessionId = message[n].session
               /\ \A k \in Message \cap waiting :
                    message[k].workbook = workbookId /\ Keeps(k, message[n].session)
      BY <1>0, <2>4 DEF SessionIsFollowed
    <3>2. \A k \in Message : Keeps(k, message[n].session) => Keeps(k, message[n].session)'
      BY <2>0, <1>7 DEF Keeps
    <3>3. a = "failed" => Keeps(m, message[n].session)'
      BY <2>0 DEF Keeps
    <3> QED
      BY <1>7, <2>0, <3>1, <3>2, <3>3
  <2> HIDE DEF Keeps
  <2>5. \A n \in Message : message'[n].session = message[n].session
                           /\ message'[n].workbook = message[n].workbook
    BY <2>0
  <2>6. ASSUME NEW n \in Message, Settled(n)'
        PROVE  /\ \A k \in Message :
                    /\ message'[k].alone /\ message'[k].workbook = message'[n].workbook
                    /\ message'[k].at = "answered" => message'[k].session \in sessions'
                    => Keeps(k, message[n].session)'
               /\ workbookId' = message'[n].workbook /\ n \notin waiting' =>
                    /\ sessionId' = message[n].session
                    /\ \A k \in Message \cap waiting' :
                         message'[k].workbook = workbookId' /\ Keeps(k, message[n].session)'
    BY <1>7, <2>2, <2>3, <2>4, <2>5, <2>6
  <2> QED
    BY <2>5, <2>6 DEF SessionIsFollowed, Keeps
<1>8. CASE Restart
  BY <1>0, <1>8, RestartDoes DEF SessionIsFollowed, Settled
<1>9. CASE /\ UNCHANGED <<sessionId, message, sessions>>
           /\ \/ workbookId' = Nothing /\ waiting' = {}
              \/ UNCHANGED <<workbookId, waiting>>
              \/ /\ UNCHANGED workbookId
                 /\ \E x \in waiting : /\ waiting' = waiting \ {x}
                                       /\ x \in Message => message[x].at = "failed"
  <2>1. CASE workbookId' = Nothing /\ waiting' = {}
    BY <1>0, <1>1, <1>9, <2>1 DEF WorkbookWasLoaded, Settled
  <2>2. CASE UNCHANGED <<workbookId, waiting>>
    BY <1>0, <1>1, <1>9, <2>2 DEF SessionIsFollowed
  <2>3. CASE /\ UNCHANGED workbookId
             /\ \E x \in waiting : /\ waiting' = waiting \ {x}
                                   /\ x \in Message => message[x].at = "failed"
    BY <1>0, <1>1, <1>9, <2>3 DEF SessionIsFollowed, Settled
  <2> QED
    BY <1>9, <2>1, <2>2, <2>3
<1> QED
  BY <1>0, <1>2, <1>3, <1>4, <1>5, <1>6, <1>7, <1>8, <1>9, StepKinds

LEMMA KStep == KInv /\ [Next]_vars => KInv'
BY InvStep, LoadedStep, AloneStep, UnderWayStep, ServedStep, FollowedStep DEF KInv

\* However messages, uploads, reloads and restarts of the server come between them, and
\* whatever of them is lost, two messages about one workbook that the page sent and heard
\* with nothing else under way are answered in one conversation, unless the server has
\* forgotten a session (sendMessage's state.sessionId, get_or_create).
THEOREM ConversationKeeping == Spec => []ConversationIsKept
<1>1. KInv => ConversationIsKept
  <2> SUFFICES ASSUME KInv, NEW m \in Message, NEW n \in Message,
                      message[m].alone /\ message[n].alone,
                      message[m].workbook = message[n].workbook,
                      message[m].at = "answered" /\ message[n].at = "answered",
                      {message[m].session, message[n].session} \subseteq sessions
               PROVE  message[m].session = message[n].session
    BY DEF ConversationIsKept
  <2>1. Settled(m)
    BY DEF Settled
  <2>2. Keeps(n, message[m].session)
    BY <2>1 DEF KInv, SessionIsFollowed
  <2> QED
    BY <2>2 DEF Keeps
<1> QED
  BY <1>1, InitK, KStep, PTL DEF Spec

=============================================================================
