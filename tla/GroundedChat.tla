---------------------------- MODULE GroundedChat ----------------------------
(***************************************************************************)
(* What a chat session promises, without caches, audits or retries: facts  *)
(* become known (the workbook's own ones and those tools return), and an   *)
(* answer badged "passed" states only facts known when it is given.        *)
(* Implemented by ChatSession.                                             *)
(***************************************************************************)
CONSTANTS
  Turn,     \* the calls of POST /chat
  Claim,    \* facts an answer may state
  Native    \* the facts the workbook itself holds, some of Claim

VARIABLES
  known,    \* facts that may be stated
  verdict,  \* what became of each turn
  said      \* what each published answer states

vars == <<known, verdict, said>>

Verdict == {"open", "passed", "unknown", "failed"}

TypeOK ==
  /\ known \subseteq Claim
  /\ verdict \in [Turn -> Verdict]
  /\ said \in [Turn -> SUBSET Claim]

Init ==
  /\ known = Native
  /\ verdict = [t \in Turn |-> "open"]
  /\ said = [t \in Turn |-> {}]

\* A tool returns facts.
Learn(facts) ==
  /\ known' = known \cup facts
  /\ UNCHANGED <<verdict, said>>

\* A turn gives an answer it vouches for.
Vouch(t, facts) ==
  /\ verdict[t] = "open"
  /\ facts \subseteq known
  /\ verdict' = [verdict EXCEPT ![t] = "passed"]
  /\ said' = [said EXCEPT ![t] = facts]
  /\ UNCHANGED known

\* A turn gives an answer it marks as unknown.
Hedge(t, facts) ==
  /\ verdict[t] = "open"
  /\ verdict' = [verdict EXCEPT ![t] = "unknown"]
  /\ said' = [said EXCEPT ![t] = facts]
  /\ UNCHANGED known

\* A turn ends in an error and gives no answer.
Fail(t) ==
  /\ verdict[t] = "open"
  /\ verdict' = [verdict EXCEPT ![t] = "failed"]
  /\ UNCHANGED <<known, said>>

Next ==
  \/ \E facts \in SUBSET Claim : Learn(facts)
  \/ \E t \in Turn, facts \in SUBSET Claim : Vouch(t, facts) \/ Hedge(t, facts)
  \/ \E t \in Turn : Fail(t)

Spec == Init /\ [][Next]_vars

=============================================================================
