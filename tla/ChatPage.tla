------------------------------ MODULE ChatPage ------------------------------
(***************************************************************************)
(* Which workbook and which session a question goes to: the page           *)
(* (rosetta/static/app.js), the endpoints /ingest and /chat, and the two   *)
(* in-memory stores (rosetta/store.py).  The page names a workbook and the *)
(* session it was last answered in; the server gives a fresh session when  *)
(* it has none of that name for that workbook.  What a session then does   *)
(* is ChatSession; what the page displays beside the answers is left out.  *)
(*                                                                         *)
(* An upload makes a workbook of its own id, so the upload names it; a     *)
(* session is named by the message it was made for.  The send button is    *)
(* disabled while an answer is awaited, the suggested questions are not:   *)
(* a message can be sent at any time.                                      *)
(***************************************************************************)
EXTENDS Naturals, FiniteSets

CONSTANTS
  Upload,   \* files picked in the page
  Message,  \* messages sent by it
  Nothing   \* JavaScript's null

ASSUME CallAssumption == Upload \cap Message = {} /\ Nothing \notin Upload \cup Message

VARIABLES
  workbookId,   \* the page's workbook
  sessionId,    \* its session, kept in localStorage too
  waiting,      \* the calls whose response the page is waiting for
  upload,       \* where each POST /ingest is
  message,      \* each POST /chat
  workbooks,    \* WorkbookStore
  sessions      \* ChatSessionStore

page   == <<workbookId, sessionId, waiting>>
stores == <<workbooks, sessions>>
vars   == <<page, upload, message, stores>>

\* at: "unsent", "sent", "answering", "answered", "failed"; the workbook and the
\* session it names; the session it is answered in; whether the page waited for
\* nothing else from its sending to its response (which only the properties ask).
Unsent == [at |-> "unsent", workbook |-> Nothing, names |-> Nothing,
           session |-> Nothing, alone |-> FALSE]

\* Sessions stay with the workbook they were made for.
WorkbookOf(s) == message[s].workbook

Init ==
  /\ workbookId = Nothing /\ sessionId = Nothing /\ waiting = {}
  /\ upload = [u \in Upload |-> "unsent"]
  /\ message = [m \in Message |-> Unsent]
  /\ workbooks = {} /\ sessions = {}

\* The page makes one more call: none it is waiting for is alone any more.
Crowded == [m \in Message |->
              IF m \in waiting THEN [message[m] EXCEPT !.alone = FALSE] ELSE message[m]]

-----------------------------------------------------------------------------
\* Uploading

Pick(u) ==
  /\ upload[u] = "unsent"
  /\ upload' = [upload EXCEPT ![u] = "sent"]
  /\ waiting' = waiting \cup {u}
  /\ message' = Crowded
  /\ UNCHANGED <<workbookId, sessionId, stores>>

\* ingest: parse, audit, store, index; nothing else is dispatched meanwhile.
Ingest(u) ==
  /\ upload[u] = "sent"
  /\ upload' = [upload EXCEPT ![u] = "answered"]
  /\ workbooks' = workbooks \cup {u}
  /\ UNCHANGED <<page, message, sessions>>

\* Refused, not parsed, or the connection is lost, after the put perhaps.
IngestFails(u) ==
  /\ upload[u] \in {"sent", "answered"} /\ u \in waiting
  /\ upload' = [upload EXCEPT ![u] = "failed"]
  /\ UNCHANGED <<page, message, stores>>

\* The page turns to the new workbook and resets the session.
Loaded(u) ==
  /\ u \in waiting /\ upload[u] = "answered"
  /\ workbookId' = u
  /\ sessionId' = Nothing
  /\ waiting' = waiting \ {u}
  /\ UNCHANGED <<upload, message, stores>>

UploadFailed(u) ==
  /\ u \in waiting /\ upload[u] = "failed"
  /\ waiting' = waiting \ {u}
  /\ UNCHANGED <<workbookId, sessionId, upload, message, stores>>

-----------------------------------------------------------------------------
\* Asking

Send(m) ==
  /\ workbookId # Nothing
  /\ message[m].at = "unsent"
  /\ message' = [Crowded EXCEPT ![m] =
       [Unsent EXCEPT !.at = "sent", !.workbook = workbookId, !.names = sessionId,
                      !.alone = (waiting = {})]]
  /\ waiting' = waiting \cup {m}
  /\ UNCHANGED <<workbookId, sessionId, upload, stores>>

\* ChatSessionStore.get_or_create, for a message that names session s.
\* Fault: the session of another workbook is handed out too.
GetOrCreateByName(m, s) == IF s \in sessions THEN s ELSE m
GetOrCreate(m, s) ==
  IF s \in sessions /\ WorkbookOf(s) = message[m].workbook THEN s ELSE m

\* chat_endpoint up to the coordinator.
Serve(m) ==
  LET s == GetOrCreate(m, message[m].names)
  IN  /\ message[m].at = "sent"
      /\ message[m].workbook \in workbooks
      /\ message' = [message EXCEPT ![m].at = "answering", ![m].session = s]
      /\ sessions' = sessions \cup {s}
      /\ UNCHANGED <<page, upload, workbooks>>

Answer(m) ==
  /\ message[m].at = "answering"
  /\ message' = [message EXCEPT ![m].at = "answered"]
  /\ UNCHANGED <<page, upload, stores>>

\* No such workbook, the coordinator raises, or the connection is lost, with the
\* answer perhaps.
AskFails(m) ==
  /\ m \in waiting /\ message[m].at \in {"sent", "answering", "answered"}
  /\ message' = [message EXCEPT ![m].at = "failed"]
  /\ UNCHANGED <<page, upload, stores>>

\* Fault: the page does not take over the session it was answered in.
HearForgetful(m) ==
  /\ m \in waiting /\ message[m].at = "answered"
  /\ waiting' = waiting \ {m}
  /\ UNCHANGED <<workbookId, sessionId, upload, message, stores>>

Hear(m) ==
  /\ m \in waiting /\ message[m].at = "answered"
  /\ sessionId' = message[m].session
  /\ waiting' = waiting \ {m}
  /\ UNCHANGED <<workbookId, upload, message, stores>>

HearError(m) ==
  /\ m \in waiting /\ message[m].at = "failed"
  /\ waiting' = waiting \ {m}
  /\ UNCHANGED <<workbookId, sessionId, upload, message, stores>>

-----------------------------------------------------------------------------
\* The page is loaded anew: localStorage still names the session; the server
\* goes on with the calls whose responses nobody waits for.
Reload ==
  /\ workbookId' = Nothing
  /\ waiting' = {}
  /\ UNCHANGED <<sessionId, upload, message, stores>>

\* The server restarts: both stores are gone, and what it was working on.
Restart ==
  /\ workbooks' = {} /\ sessions' = {}
  /\ message' = [m \in Message |-> IF message[m].at = "answering"
                                   THEN [message[m] EXCEPT !.at = "failed"]
                                   ELSE message[m]]
  /\ UNCHANGED <<page, upload>>

Next ==
  \/ \E u \in Upload :
       Pick(u) \/ Ingest(u) \/ IngestFails(u) \/ Loaded(u) \/ UploadFailed(u)
  \/ \E m \in Message :
       Send(m) \/ Serve(m) \/ Answer(m) \/ AskFails(m) \/ Hear(m) \/ HearError(m)
  \/ Reload
  \/ Restart

Spec == Init /\ [][Next]_vars

-----------------------------------------------------------------------------
\* Properties

\* A message is answered in a session of the workbook it names, though late
\* responses leave the page with the session of a workbook it has left, and a
\* restarted server with none (get_or_create, sendMessage).
WorkbookIsNamed ==
  \A m \in Message :
    message[m].session # Nothing => WorkbookOf(message[m].session) = message[m].workbook

\* Two messages about one workbook that the page sent and heard with nothing
\* else under way are answered in one conversation, whatever was sent, heard,
\* lost or uploaded between them, unless the server has forgotten a session.
ConversationIsKept ==
  \A m, n \in Message :
    (/\ message[m].alone /\ message[n].alone
     /\ message[m].workbook = message[n].workbook
     /\ message[m].at = "answered" /\ message[n].at = "answered"
     /\ {message[m].session, message[n].session} \subseteq sessions)
    => message[m].session = message[n].session

=============================================================================
