------------------------ MODULE ResponseCacheProofs ------------------------
(***************************************************************************)
(* Proofs about ResponseCache, for any tasks, functions, arguments,        *)
(* tenants and users: a decorated function runs again only after it raised,*)
(* what a removal was called for is gone when it returns, no tenant is     *)
(* served another's value and no function the response of one whose key is *)
(* another.                                                                *)
(***************************************************************************)
EXTENDS ResponseCache, SequenceTheorems, TLAPS

-----------------------------------------------------------------------------
\* The keys.

\* The two forms a tenant's key has.
LEMMA TenantKeyForms ==
  ASSUME NEW t, NEW u
  PROVE  TenantKey("profile", t, u) =
           IF u = NoUser THEN <<"profile", "tenant", t>>
                         ELSE <<"profile", "tenant", t, "user", u>>
<1>1. <<"profile", "tenant", t>> \o <<>> = <<"profile", "tenant", t>>
  OBVIOUS
<1>2. <<"profile", "tenant", t>> \o <<"user", u>> = <<"profile", "tenant", t, "user", u>>
  <2> DEFINE S == {"profile", "tenant", t, "user", u}
             a == <<"profile", "tenant", t>>
             b == <<"user", u>>
             c == <<"profile", "tenant", t, "user", u>>
  <2>1. a \in Seq(S) /\ b \in Seq(S) /\ c \in Seq(S)
    OBVIOUS
  <2>2. Len(a) = 3 /\ Len(b) = 2 /\ Len(c) = 5
    OBVIOUS
  <2>3. \A i \in 1 .. 3 : a[i] = c[i]
    OBVIOUS
  <2>4. \A i \in 4 .. 5 : b[i - 3] = c[i]
    OBVIOUS
  <2> HIDE DEF a, b, c, S
  <2>5. /\ a \o b \in Seq(S) /\ Len(a \o b) = Len(a) + Len(b)
        /\ \A i \in 1 .. Len(a) + Len(b) :
             (a \o b)[i] = IF i <= Len(a) THEN a[i] ELSE b[i - Len(a)]
    BY ONLY <2>1, ConcatProperties
  <2>6. \A i \in 1 .. Len(a \o b) : (a \o b)[i] = c[i]
    BY <2>2, <2>3, <2>4, <2>5
  <2>7. a \o b = c
    BY <2>1, <2>2, <2>5, <2>6, SeqEqual
  <2> QED
    BY <2>7 DEF a, b, c
<1> QED
  BY <1>1, <1>2 DEF TenantKey, ForUser

LEMMA TenantKeyIsOwn ==
  ASSUME NEW t \in Tenant, NEW u \in User \cup {NoUser},
         NEW t2 \in Tenant, NEW u2 \in User \cup {NoUser},
         TenantKey("profile", t, u) = TenantKey("profile", t2, u2)
  PROVE  t = t2 /\ u = u2
BY TenantKeyForms

LEMMA KeysApart ==
  ASSUME NEW f \in Function, NEW t \in Tenant, NEW u \in User \cup {NoUser}
  PROVE  FunctionKey(f) # TenantKey("profile", t, u)
BY TenantKeyForms DEF FunctionKey

\* PartAfter finds the first part with the label.
LEMMA PartAfterFirst ==
  ASSUME NEW key, NEW label, NEW n \in Nat,
         n \in 1 .. Len(key) - 1, key[n] = label,
         \A i \in 1 .. Len(key) - 1 : key[i] = label => n <= i
  PROVE  PartAfter(key, label) = key[n + 1]
<1> DEFINE at == {i \in 1 .. Len(key) - 1 : key[i] = label}
           first == CHOOSE i \in at : \A j \in at : i <= j
<1>1. n \in at /\ \A j \in at : n <= j
  OBVIOUS
<1>2. first \in at /\ \A j \in at : first <= j
  BY <1>1
<1>3. first = n
  <2>1. first \in Nat
    BY <1>2
  <2> QED
    BY <1>1, <1>2, <2>1
<1>4. PartAfter(key, label) = IF at = {} THEN Nothing ELSE key[first + 1]
  BY DEF PartAfter
<1> QED
  BY ONLY <1>1, <1>3, <1>4

LEMMA PartAfterNone ==
  ASSUME NEW key, NEW label, \A i \in 1 .. Len(key) - 1 : key[i] # label
  PROVE  PartAfter(key, label) = Nothing
<1>1. {i \in 1 .. Len(key) - 1 : key[i] = label} = {}
  OBVIOUS
<1> QED
  BY <1>1 DEF PartAfter

\* What extract_tenant_from_key and extract_user_from_key read off a tenant's key.
LEMMA ContextIsRead ==
  ASSUME NEW t \in Tenant, NEW u \in User \cup {NoUser}
  PROVE  /\ PartAfter(TenantKey("profile", t, u), "tenant") = t
         /\ PartAfter(TenantKey("profile", t, u), "user") = u
<1>1. CASE u = NoUser
  <2> DEFINE key == <<"profile", "tenant", t>>
  <2>1. TenantKey("profile", t, u) = key
    BY <1>1, TenantKeyForms
  <2>2. PartAfter(key, "tenant") = key[2 + 1]
    <3>1. 2 \in 1 .. Len(key) - 1 /\ key[2] = "tenant"
          /\ \A i \in 1 .. Len(key) - 1 : key[i] = "tenant" => 2 <= i
      OBVIOUS
    <3> QED
      BY <3>1, PartAfterFirst
  <2>3. PartAfter(key, "user") = Nothing
    <3>1. \A i \in 1 .. Len(key) - 1 : key[i] # "user"
      OBVIOUS
    <3> QED
      BY <3>1, PartAfterNone
  <2> QED
    BY <1>1, <2>1, <2>2, <2>3 DEF NoUser
<1>2. CASE u # NoUser
  <2> DEFINE key == <<"profile", "tenant", t, "user", u>>
  <2>1. TenantKey("profile", t, u) = key
    BY <1>2, TenantKeyForms
  <2>2. PartAfter(key, "tenant") = key[2 + 1]
    <3>1. 2 \in 1 .. Len(key) - 1 /\ key[2] = "tenant"
          /\ \A i \in 1 .. Len(key) - 1 : key[i] = "tenant" => 2 <= i
      OBVIOUS
    <3> QED
      BY <3>1, PartAfterFirst
  <2>3. PartAfter(key, "user") = key[4 + 1]
    <3>1. 4 \in 1 .. Len(key) - 1 /\ key[4] = "user"
          /\ \A i \in 1 .. Len(key) - 1 : key[i] = "user" => 4 <= i
      BY KeyAssumption
    <3> QED
      BY <3>1, PartAfterFirst
  <2> QED
    BY <2>1, <2>2, <2>3
<1> QED
  BY <1>1, <1>2
-----------------------------------------------------------------------------
\* The kinds of call and where each may stand.
Ofs == Subject \cup (Function \X {Nothing}) \cup {<<>>}
Keys == Key \cup {<<TagOf[f]>> : f \in Function} \cup {<<>>}
Jobs == [kind : {"none", "cached", "remove", "tenant_get", "tenant_set", "tenant_delete"},
         key : Keys, of : Ofs]
Entries == [of : Subject, none : BOOLEAN, at : Nat]
Statuses == {"none", "served", "missed", "stored", "failed", "removed", "raised"}
Answers == [status : Statuses, value : Subject \cup {Nothing}]
Labels == {"idle", "get", "run", "rerun", "set", "scan", "delete", "done"}

TypeOK ==
  /\ ready \in BOOLEAN /\ time \in Nat
  /\ redis \in [Key -> Entries \cup {Nothing}]
  /\ pc \in [Task -> Labels]
  /\ job \in [Task -> Jobs] /\ since \in [Task -> Nat]
  /\ scanned \in [Task -> SUBSET FunctionKeys]
  /\ runs \in [Task -> Nat] /\ raised \in [Task -> Nat]
  /\ answer \in [Task -> Answers]

\* How often a function has run and raised, by where the task stands.
RunsCounted ==
  \A p \in Task :
    /\ pc[p] \in {"idle", "get", "run", "scan", "delete"} => runs[p] = 0 /\ raised[p] = 0
    /\ pc[p] \in {"rerun", "set"} => runs[p] <= 1
    /\ pc[p] = "rerun" => runs[p] = raised[p]
    /\ runs[p] <= 1 + raised[p] /\ runs[p] <= 2

\* A task's key is that of its subject.
KeyIsOfSubject ==
  \A p \in Task :
    /\ job[p].kind = "cached" =>
         \E f \in Function, a \in Arg : job[p].key = FunctionKey(f) /\ job[p].of = <<f, a>>
    /\ job[p].kind \in {"tenant_get", "tenant_set", "tenant_delete"} =>
         \E t \in Tenant, u \in User \cup {NoUser} :
           job[p].key = TenantKey("profile", t, u) /\ job[p].of = <<t, u>>
    /\ pc[p] \in {"run", "rerun"} => job[p].kind = "cached"
    /\ pc[p] \in {"get", "set"} => job[p].kind \notin {"none", "remove"}
    /\ pc[p] \in {"scan", "delete"} => job[p].kind = "remove"

\* What is under a key is of the subject the key is made from.
EntryIsOfKey ==
  /\ \A f \in Function :
       redis[FunctionKey(f)] # Nothing => redis[FunctionKey(f)].of \in Sharers(f) \X Arg
  /\ \A t \in Tenant, u \in User \cup {NoUser} :
       LET k == TenantKey("profile", t, u) IN redis[k] # Nothing => redis[k].of = <<t, u>>

\* What was served is the subject's.
ServedIsOwn ==
  \A p \in Task : answer[p].status = "served" =>
    IF job[p].kind = "cached" THEN answer[p].value \in Sharers(job[p].of[1]) \X Arg
                              ELSE answer[p].value = job[p].of

\* Entries and tasks lie in the past, and only a task that is over has an answer.
InThePast ==
  /\ \A k \in Key : redis[k] # Nothing => redis[k].at < time
  /\ \A p \in Task : /\ since[p] <= time
                     /\ answer[p].status # "none" => pc[p] = "done"
                     /\ answer[p].status = "removed" => job[p].kind = "remove"

\* Of the keys a removal is for, those it has not met yet came after it began.
RestIsYounger ==
  \A p \in Task :
    /\ pc[p] = "delete" => \A k \in Tagged(p) \ scanned[p] :
                             redis[k] # Nothing => redis[k].at >= since[p]
    /\ answer[p].status = "removed" => \A k \in Tagged(p) :
                             redis[k] # Nothing => redis[k].at >= since[p]

IInv ==
  /\ TypeOK /\ RunsCounted /\ KeyIsOfSubject /\ EntryIsOfKey /\ ServedIsOwn /\ InThePast
  /\ RestIsYounger

-----------------------------------------------------------------------------
LEMMA KeysOfSubjects ==
  /\ \A f \in Function : FunctionKey(f) \in Key
  /\ \A t \in Tenant, u \in User \cup {NoUser} : TenantKey("profile", t, u) \in Key
BY DEF Key, FunctionKeys, TenantKeys

\* The subject and the key of a task that may still read or write its entry.
LEMMA SubjectOfTask ==
  ASSUME TypeOK, KeyIsOfSubject, NEW p \in Task, pc[p] \in {"get", "set", "run", "rerun"}
  PROVE  job[p].key \in Key /\ job[p].of \in Subject
<1>1. job[p].kind \in {"cached", "tenant_get", "tenant_set", "tenant_delete"}
  BY DEF TypeOK, KeyIsOfSubject, Jobs
<1>2. CASE job[p].kind = "cached"
  <2>1. PICK f \in Function, a \in Arg : job[p].key = FunctionKey(f) /\ job[p].of = <<f, a>>
    BY <1>2 DEF KeyIsOfSubject
  <2> QED
    BY <2>1, KeysOfSubjects DEF Subject
<1>3. CASE job[p].kind # "cached"
  <2>1. PICK t \in Tenant, u \in User \cup {NoUser} :
               job[p].key = TenantKey("profile", t, u) /\ job[p].of = <<t, u>>
    BY <1>1, <1>3 DEF KeyIsOfSubject
  <2> QED
    BY <2>1, KeysOfSubjects DEF Subject
<1> QED
  BY <1>2, <1>3

LEMMA TypeInit == Init => TypeOK
BY DEF Init, TypeOK, Jobs, Keys, Ofs, NoJob, NoAnswer, Answers, Statuses, Labels

LEMMA GotoIsTyped ==
  ASSUME TypeOK, NEW p \in Task, NEW l \in Labels, Goto(p, l)
  PROVE  pc' \in [Task -> Labels]
BY DEF Goto, TypeOK

LEMMA ReturnIsTyped ==
  ASSUME TypeOK, NEW p \in Task, NEW status \in Statuses, NEW value \in Subject \cup {Nothing},
         Return(p, status, value)
  PROVE  pc' \in [Task -> Labels] /\ answer' \in [Task -> Answers]
<1>1. [status |-> status, value |-> value] \in Answers
  BY DEF Answers
<1> QED
  BY <1>1 DEF Return, Goto, TypeOK, Labels

\* A task that starts has a job of its own.
LEMMA BeginIsTyped ==
  ASSUME TypeOK, NEW p \in Task,
         NEW kind \in {"cached", "remove", "tenant_get", "tenant_set", "tenant_delete"},
         NEW key \in Keys, NEW of \in Ofs, NEW first \in {"get", "set", "scan"},
         Begin(p, kind, key, of, first)
  PROVE  TypeOK'
<1>1. [kind |-> kind, key |-> key, of |-> of] \in Jobs
  BY DEF Jobs
<1> QED
  BY <1>1 DEF Begin, Goto, TypeOK, Labels

LEMMA StartIsTyped ==
  ASSUME TypeOK, NEW p \in Task, Start(p)
  PROVE  TypeOK'
<1>1. ASSUME NEW f \in Function, Remove(p, f)
      PROVE  TypeOK'
  <2>1. <<TagOf[f]>> \in Keys /\ <<f, Nothing>> \in Ofs
    BY DEF Keys, Ofs
  <2> QED
    BY <1>1, <2>1, BeginIsTyped DEF Remove
<1>2. ASSUME NEW f \in Function, NEW a \in Arg, NEW fallback \in BOOLEAN,
             Call(p, f, a) \/ CallUncached(p, f, a, fallback)
      PROVE  TypeOK'
  <2>1. FunctionKey(f) \in Keys /\ <<f, a>> \in Ofs
    BY KeysOfSubjects DEF Keys, Ofs, Subject
  <2>2. CASE Call(p, f, a)
    BY <2>1, <2>2, BeginIsTyped DEF Call
  <2>3. CASE CallUncached(p, f, a, fallback)
    <3>1. [kind |-> "cached", key |-> FunctionKey(f), of |-> <<f, a>>] \in Jobs
      BY <2>1 DEF Jobs
    <3>2. pc' \in [Task -> Labels] /\ answer' \in [Task -> Answers]
      <4>1. CASE Goto(p, "rerun") /\ UNCHANGED answer
        BY <4>1, GotoIsTyped DEF TypeOK, Labels
      <4>2. CASE Return(p, "raised", Nothing)
        BY <4>2, ReturnIsTyped DEF Statuses
      <4> QED
        BY <2>3, <4>1, <4>2 DEF CallUncached
    <3> QED
      BY <2>3, <3>1, <3>2 DEF CallUncached, TypeOK
  <2> QED
    BY <1>2, <2>2, <2>3
<1>3. ASSUME NEW t \in Tenant, NEW u \in User \cup {NoUser},
             GetScoped(p, t, u) \/ SetScoped(p, t, u) \/ DeleteScoped(p, t, u)
      PROVE  TypeOK'
  <2>1. TenantKey("profile", t, u) \in Keys /\ <<t, u>> \in Ofs
    BY KeysOfSubjects DEF Keys, Ofs, Subject
  <2> QED
    BY <1>3, <2>1, BeginIsTyped DEF GetScoped, SetScoped, DeleteScoped
<1> QED
  BY <1>1, <1>2, <1>3 DEF Start

LEMMA TypeStep == TypeOK /\ KeyIsOfSubject /\ [Next]_vars => TypeOK'
<1> SUFFICES ASSUME TypeOK, KeyIsOfSubject, [Next]_vars
             PROVE  TypeOK'
  OBVIOUS
<1>1. ASSUME NEW p \in Task, Get(p) \/ GetFails(p)
      PROVE  TypeOK'
  <2>1. job[p].key \in Key
    BY <1>1, SubjectOfTask DEF Get, GetFails
  <2>2. redis[job[p].key] # Nothing => redis[job[p].key].of \in Subject
    BY <2>1 DEF TypeOK, Entries
  <2>3. pc' \in [Task -> Labels] /\ answer' \in [Task -> Answers]
    <3>1. CASE Goto(p, "run") /\ UNCHANGED answer
      BY <3>1, GotoIsTyped DEF TypeOK, Labels
    <3>2. CASE Return(p, "missed", Nothing)
      BY <3>2, ReturnIsTyped DEF Statuses
    <3>3. CASE Hit(p) /\ Return(p, "served", redis[job[p].key].of)
      BY <2>2, <3>3, ReturnIsTyped DEF Statuses, Hit
    <3> QED
      BY <1>1, <3>1, <3>2, <3>3 DEF Get, GetFails, AfterGet
  <2> QED
    BY <1>1, <2>3 DEF Get, GetFails, TypeOK
<1>2. ASSUME NEW p \in Task, Run(p)
      PROVE  TypeOK'
  <2>1. job[p].of \in Subject
    BY <1>2, SubjectOfTask DEF Run
  <2>2. pc' \in [Task -> Labels] /\ answer' \in [Task -> Answers]
    <3>1. CASE pc[p] = "run"
      BY <1>2, <3>1, GotoIsTyped DEF Run, TypeOK, Labels
    <3>2. CASE pc[p] # "run"
      BY <1>2, <2>1, <3>2, ReturnIsTyped DEF Run, Statuses
    <3> QED
      BY <3>1, <3>2
  <2>3. runs' \in [Task -> Nat]
    BY <1>2 DEF Run, TypeOK
  <2> QED
    BY <1>2, <2>2, <2>3 DEF Run, TypeOK
<1>3. ASSUME NEW p \in Task, NEW fallback \in BOOLEAN, RunRaises(p, fallback)
      PROVE  TypeOK'
  <2>1. pc' \in [Task -> Labels] /\ answer' \in [Task -> Answers]
    <3>1. CASE Goto(p, "rerun") /\ UNCHANGED answer
      BY <3>1, GotoIsTyped DEF TypeOK, Labels
    <3>2. CASE Return(p, "raised", Nothing)
      BY <3>2, ReturnIsTyped DEF Statuses
    <3> QED
      BY <1>3, <3>1, <3>2 DEF RunRaises
  <2>2. runs' \in [Task -> Nat] /\ raised' \in [Task -> Nat]
    BY <1>3 DEF RunRaises, TypeOK
  <2> QED
    BY <1>3, <2>1, <2>2 DEF RunRaises, TypeOK
<1>4. ASSUME NEW p \in Task, NEW none \in BOOLEAN, Set(p, none)
      PROVE  TypeOK'
  <2>1. job[p].key \in Key /\ job[p].of \in Subject
    BY <1>4, SubjectOfTask DEF Set
  <2>2. Entry(job[p].of, none) \in Entries
    BY <2>1 DEF Entry, Entries, TypeOK
  <2>3. pc' \in [Task -> Labels] /\ answer' \in [Task -> Answers]
    BY <1>4, <2>1, ReturnIsTyped DEF Set, Statuses
  <2> QED
    BY <1>4, <2>1, <2>2, <2>3 DEF Set, TypeOK
<1>5. ASSUME NEW p \in Task, SetFails(p)
      PROVE  TypeOK'
  <2>1. job[p].of \in Subject
    BY <1>5, SubjectOfTask DEF SetFails
  <2>2. pc' \in [Task -> Labels] /\ answer' \in [Task -> Answers]
    BY <1>5, <2>1, ReturnIsTyped DEF SetFails, Statuses
  <2> QED
    BY <1>5, <2>2 DEF SetFails, TypeOK
<1>6. ASSUME NEW p \in Task, Scan(p) \/ ScanMore(p)
      PROVE  TypeOK'
  <2>1. Present(p) \subseteq FunctionKeys
    BY DEF Present, Tagged
  <2>2. scanned' \in [Task -> SUBSET FunctionKeys]
    BY <1>6, <2>1 DEF Scan, ScanMore, TypeOK
  <2>3. pc' \in [Task -> Labels]
    BY <1>6, GotoIsTyped DEF Scan, ScanMore, TypeOK, Labels
  <2> QED
    BY <1>6, <2>2, <2>3 DEF Scan, ScanMore, TypeOK
<1>7. ASSUME NEW p \in Task, Delete(p)
      PROVE  TypeOK'
  <2>1. PICK k \in scanned[p] : /\ redis' = [redis EXCEPT ![k] = Nothing]
                                /\ scanned' = [scanned EXCEPT ![p] = @ \ {k}]
    BY <1>7 DEF Delete
  <2>2. scanned' \in [Task -> SUBSET FunctionKeys]
    BY <2>1 DEF TypeOK
  <2>3. redis' \in [Key -> Entries \cup {Nothing}]
    BY <2>1 DEF TypeOK
  <2> QED
    BY <1>7, <2>2, <2>3 DEF Delete, TypeOK
<1>8. ASSUME NEW p \in Task, Removed(p) \/ RemoveFails(p)
      PROVE  TypeOK'
  <2>1. pc' \in [Task -> Labels] /\ answer' \in [Task -> Answers]
    BY <1>8, ReturnIsTyped DEF Removed, RemoveFails, Statuses
  <2>2. scanned' \in [Task -> SUBSET FunctionKeys]
    BY <1>8 DEF Removed, RemoveFails, TypeOK
  <2> QED
    BY <1>8, <2>1, <2>2 DEF Removed, RemoveFails, TypeOK
<1>9. ASSUME NEW k \in Key, Expire(k)
      PROVE  TypeOK'
  BY <1>9 DEF Expire, TypeOK
<1>10. CASE UNCHANGED vars
  BY <1>10 DEF vars, TypeOK
<1> QED
  BY <1>1, <1>2, <1>3, <1>4, <1>5, <1>6, <1>7, <1>8, <1>9, <1>10, StartIsTyped
     DEF Next, Step

-----------------------------------------------------------------------------
LEMMA RunsStep == TypeOK /\ RunsCounted /\ [Next]_vars => RunsCounted'
<1> SUFFICES ASSUME TypeOK, RunsCounted, [Next]_vars
             PROVE  RunsCounted'
  OBVIOUS
<1>1. ASSUME NEW p \in Task, Start(p)
      PROVE  RunsCounted'
  <2>1. pc[p] = "idle" /\ UNCHANGED <<runs, raised>>
        /\ \E l \in {"get", "set", "scan", "rerun", "done"} :
             /\ pc' = [pc EXCEPT ![p] = l]
    BY <1>1 DEF Start, Remove, Call, CallUncached, GetScoped, SetScoped, DeleteScoped, Begin,
                Return, Goto
  <2> QED
    BY <2>1 DEF RunsCounted, TypeOK
<1>2. ASSUME NEW p \in Task, Run(p)
      PROVE  RunsCounted'
  BY <1>2 DEF Run, Return, Goto, RunsCounted, TypeOK
<1>3. ASSUME NEW p \in Task, NEW fallback \in BOOLEAN, RunRaises(p, fallback)
      PROVE  RunsCounted'
  BY <1>3 DEF RunRaises, Return, Goto, RunsCounted, TypeOK
<1>4. CASE UNCHANGED <<runs, raised>> /\ \E p \in Task :
             \/ Get(p) \/ GetFails(p) \/ SetFails(p) \/ \E none \in BOOLEAN : Set(p, none)
             \/ Scan(p) \/ ScanMore(p) \/ Delete(p) \/ Removed(p) \/ RemoveFails(p)
  <2>1. PICK p \in Task :
             \/ Get(p) \/ GetFails(p) \/ SetFails(p) \/ \E none \in BOOLEAN : Set(p, none)
             \/ Scan(p) \/ ScanMore(p) \/ Delete(p) \/ Removed(p) \/ RemoveFails(p)
    BY <1>4
  <2>2. \/ pc' = pc
        \/ pc[p] = "get" /\ pc' = [pc EXCEPT ![p] = "run"]
        \/ pc[p] = "scan" /\ pc' = [pc EXCEPT ![p] = "delete"]
        \/ pc' = [pc EXCEPT ![p] = "done"]
    BY <2>1 DEF Get, GetFails, AfterGet, SetFails, Set, Scan, ScanMore, Delete, Removed,
                RemoveFails, Return, Goto
  <2> QED
    BY <1>4, <2>2 DEF RunsCounted, TypeOK
<1>5. CASE UNCHANGED <<runs, raised, pc>>
  BY <1>5 DEF RunsCounted
<1> QED
  BY <1>1, <1>2, <1>3, <1>4, <1>5
  DEF Next, Step, vars, Get, GetFails, SetFails, Set, Scan, ScanMore, Delete, Removed,
      RemoveFails, Expire

\* A task's job is that of its start.
LEMMA KeyStep == TypeOK /\ KeyIsOfSubject /\ [Next]_vars => KeyIsOfSubject'
<1> SUFFICES ASSUME TypeOK, KeyIsOfSubject, [Next]_vars
             PROVE  KeyIsOfSubject'
  OBVIOUS
<1> DEFINE Fits(j) ==
      /\ j.kind = "cached" =>
           \E f \in Function, a \in Arg : j.key = FunctionKey(f) /\ j.of = <<f, a>>
      /\ j.kind \in {"tenant_get", "tenant_set", "tenant_delete"} =>
           \E t \in Tenant, u \in User \cup {NoUser} :
             j.key = TenantKey("profile", t, u) /\ j.of = <<t, u>>
      Stands(l, kind) ==
      /\ l \in {"run", "rerun"} => kind = "cached"
      /\ l \in {"get", "set"} => kind \notin {"none", "remove"}
      /\ l \in {"scan", "delete"} => kind = "remove"
<1>1. \A q \in Task : Fits(job[q]) /\ Stands(pc[q], job[q].kind)
  BY DEF KeyIsOfSubject
<1>2. SUFFICES \A q \in Task : Fits(job'[q]) /\ Stands(pc'[q], job'[q].kind)
  BY Zenon DEF KeyIsOfSubject
<1>3. ASSUME NEW p \in Task, NEW j, NEW l, job' = [job EXCEPT ![p] = j],
             pc' = [pc EXCEPT ![p] = l], Fits(j), Stands(l, j.kind)
      PROVE  \A q \in Task : Fits(job'[q]) /\ Stands(pc'[q], job'[q].kind)
  <2> TAKE q \in Task
  <2>1. CASE q = p
    <3>1. job'[q] = j /\ pc'[q] = l
      BY <1>3, <2>1 DEF TypeOK
    <3> QED
      BY <1>3, <3>1
  <2>2. CASE q # p
    <3>1. job'[q] = job[q] /\ pc'[q] = pc[q]
      BY <1>3, <2>2 DEF TypeOK
    <3> QED
      BY <1>1, <3>1
  <2> QED
    BY <2>1, <2>2
<1>4. ASSUME NEW p \in Task, NEW l, UNCHANGED job, pc' = [pc EXCEPT ![p] = l],
             Stands(l, job[p].kind)
      PROVE  \A q \in Task : Fits(job'[q]) /\ Stands(pc'[q], job'[q].kind)
  <2>1. \A q \in Task : job'[q] = job[q] /\ pc'[q] = IF q = p THEN l ELSE pc[q]
    BY <1>4 DEF TypeOK
  <2> QED
    BY <1>1, <1>4, <2>1
<1>5. ASSUME NEW p \in Task, Start(p)
      PROVE  \A q \in Task : Fits(job'[q]) /\ Stands(pc'[q], job'[q].kind)
  <2>1. ASSUME NEW f \in Function, Remove(p, f)
        PROVE  \A q \in Task : Fits(job'[q]) /\ Stands(pc'[q], job'[q].kind)
    <3> DEFINE j == [kind |-> "remove", key |-> <<TagOf[f]>>, of |-> <<f, Nothing>>]
    <3>1. Fits(j) /\ Stands("scan", j.kind)
      OBVIOUS
    <3>2. job' = [job EXCEPT ![p] = j] /\ pc' = [pc EXCEPT ![p] = "scan"]
      BY <2>1 DEF Remove, Begin, Goto
    <3> QED
      BY <1>3, <3>1, <3>2
  <2>2. ASSUME NEW f \in Function, NEW a \in Arg, NEW fallback \in BOOLEAN,
               Call(p, f, a) \/ CallUncached(p, f, a, fallback)
        PROVE  \A q \in Task : Fits(job'[q]) /\ Stands(pc'[q], job'[q].kind)
    <3> DEFINE j == [kind |-> "cached", key |-> FunctionKey(f), of |-> <<f, a>>]
    <3>1. Fits(j) /\ Stands("get", j.kind) /\ Stands("rerun", j.kind)
          /\ Stands("done", j.kind)
      OBVIOUS
    <3>2. job' = [job EXCEPT ![p] = j]
          /\ \E l \in {"get", "rerun", "done"} : pc' = [pc EXCEPT ![p] = l]
      BY <2>2 DEF Call, CallUncached, Begin, Return, Goto
    <3> HIDE DEF j, Fits, Stands
    <3> QED
      BY <1>3, <3>1, <3>2
  <2>3. ASSUME NEW t \in Tenant, NEW u \in User \cup {NoUser},
               NEW kind \in {"tenant_get", "tenant_set", "tenant_delete"},
               NEW l \in {"get", "set"},
               Begin(p, kind, TenantKey("profile", t, u), <<t, u>>, l)
        PROVE  \A q \in Task : Fits(job'[q]) /\ Stands(pc'[q], job'[q].kind)
    <3> DEFINE j == [kind |-> kind, key |-> TenantKey("profile", t, u), of |-> <<t, u>>]
    <3>1. Fits(j) /\ Stands(l, j.kind)
      OBVIOUS
    <3>2. job' = [job EXCEPT ![p] = j] /\ pc' = [pc EXCEPT ![p] = l]
      BY <2>3 DEF Begin, Goto
    <3> HIDE DEF j, Fits, Stands
    <3> QED
      BY <1>3, <3>1, <3>2
  <2> HIDE DEF Fits, Stands
  <2> QED
    BY <1>5, <2>1, <2>2, <2>3 DEF Start, GetScoped, SetScoped, DeleteScoped
<1>6. ASSUME NEW p \in Task, Step(p)
      PROVE  \A q \in Task : Fits(job'[q]) /\ Stands(pc'[q], job'[q].kind)
  <2>1. UNCHANGED job
    BY <1>6 DEF Step, Get, GetFails, Run, RunRaises, Set, SetFails, Scan, ScanMore, Delete,
                Removed, RemoveFails
  <2>2. \/ pc' = pc
        \/ pc[p] = "get" /\ job[p].kind = "cached" /\ pc' = [pc EXCEPT ![p] = "run"]
        \/ pc[p] = "run" /\ pc' = [pc EXCEPT ![p] = "set"]
        \/ pc[p] = "run" /\ pc' = [pc EXCEPT ![p] = "rerun"]
        \/ pc[p] = "scan" /\ pc' = [pc EXCEPT ![p] = "delete"]
        \/ pc' = [pc EXCEPT ![p] = "done"]
    BY <1>6 DEF Step, Get, GetFails, AfterGet, Run, RunRaises, Set, SetFails, Scan, ScanMore,
                Delete, Removed, RemoveFails, Return, Goto
  <2>3. CASE pc' = pc
    BY <1>1, <2>1, <2>3
  <2>4. CASE \E l : pc' = [pc EXCEPT ![p] = l] /\ Stands(l, job[p].kind)
    <3> HIDE DEF Fits, Stands
    <3> QED
      BY <1>4, <2>1, <2>4
  <2>5. Stands(pc[p], job[p].kind)
    BY <1>1
  <2> QED
    BY <2>2, <2>3, <2>4, <2>5
<1>7. CASE UNCHANGED <<job, pc>>
  BY <1>1, <1>7
<1> QED
  BY <1>5, <1>6, <1>7 DEF Next, vars, Expire

-----------------------------------------------------------------------------
\* What a step does to Redis: a command stores one entry, or deletes one.
LEMMA RedisStep ==
  ASSUME TypeOK, [Next]_vars
  PROVE  \/ UNCHANGED redis /\ UNCHANGED time
         \/ \E k \in Key : redis' = [redis EXCEPT ![k] = Nothing] /\ time' \in {time, time + 1}
         \/ \E p \in Task, none \in BOOLEAN :
              /\ pc[p] = "set" /\ time' = time + 1
              /\ redis' = [redis EXCEPT ![job[p].key] = Entry(job[p].of, none)]
<1>1. ASSUME NEW p \in Task, Delete(p)
      PROVE  \E k \in Key : redis' = [redis EXCEPT ![k] = Nothing] /\ time' \in {time, time + 1}
  <2>1. scanned[p] \subseteq Key
    BY DEF TypeOK, Key
  <2> QED
    BY <1>1, <2>1 DEF Delete
<1>2. ASSUME NEW k \in Key, Expire(k)
      PROVE  \E x \in Key : redis' = [redis EXCEPT ![x] = Nothing] /\ time' \in {time, time + 1}
  BY <1>2 DEF Expire
<1>3. ASSUME NEW p \in Task, NEW none \in BOOLEAN, Set(p, none)
      PROVE  /\ pc[p] = "set" /\ time' = time + 1
             /\ redis' = [redis EXCEPT ![job[p].key] = Entry(job[p].of, none)]
  BY <1>3 DEF Set
<1>4. ASSUME NEW p \in Task, Start(p)
      PROVE  UNCHANGED redis /\ UNCHANGED time
  BY <1>4 DEF Start, Remove, Call, CallUncached, GetScoped, SetScoped, DeleteScoped, Begin
<1>5. ASSUME NEW p \in Task,
             \/ Get(p) \/ GetFails(p) \/ Run(p) \/ \E fallback \in BOOLEAN : RunRaises(p, fallback)
             \/ SetFails(p) \/ Scan(p) \/ ScanMore(p) \/ Removed(p) \/ RemoveFails(p)
      PROVE  UNCHANGED redis /\ UNCHANGED time
  BY <1>5 DEF Get, GetFails, Run, RunRaises, SetFails, Scan, ScanMore, Removed, RemoveFails
<1>6. CASE UNCHANGED vars
  BY <1>6 DEF vars
<1> QED
  BY <1>1, <1>2, <1>3, <1>4, <1>5, <1>6 DEF Next, Step

LEMMA EntryStep ==
  TypeOK /\ KeyIsOfSubject /\ EntryIsOfKey /\ [Next]_vars => EntryIsOfKey'
<1> SUFFICES ASSUME TypeOK, KeyIsOfSubject, EntryIsOfKey, [Next]_vars
             PROVE  EntryIsOfKey'
  OBVIOUS
<1>1. CASE UNCHANGED redis
  BY <1>1 DEF EntryIsOfKey
<1>2. CASE \E k \in Key : redis' = [redis EXCEPT ![k] = Nothing]
  BY <1>2, KeysOfSubjects DEF EntryIsOfKey, TypeOK
<1>3. ASSUME NEW p \in Task, NEW none \in BOOLEAN, pc[p] = "set",
             redis' = [redis EXCEPT ![job[p].key] = Entry(job[p].of, none)]
      PROVE  EntryIsOfKey'
  <2>1. job[p].key \in Key
    BY <1>3, SubjectOfTask
  <2>2. \A k \in Key : redis'[k] = IF k = job[p].key THEN Entry(job[p].of, none) ELSE redis[k]
    BY <1>3 DEF TypeOK
  <2>3. Entry(job[p].of, none).of = job[p].of
    BY DEF Entry
  <2>4. job[p].kind \in {"cached", "tenant_get", "tenant_set", "tenant_delete"}
    BY <1>3 DEF TypeOK, KeyIsOfSubject, Jobs
  <2>5. CASE job[p].kind = "cached"
    <3>1. PICK f \in Function, a \in Arg : job[p].key = FunctionKey(f) /\ job[p].of = <<f, a>>
      BY <2>5 DEF KeyIsOfSubject
    <3>2. \A g \in Function :
            redis'[FunctionKey(g)] # Nothing => redis'[FunctionKey(g)].of \in Sharers(g) \X Arg
      <4> TAKE g \in Function
      <4>1. CASE FunctionKey(g) = FunctionKey(f)
        <5>1. redis'[FunctionKey(g)].of = <<f, a>> /\ f \in Sharers(g)
          BY <2>2, <2>3, <3>1, <4>1, KeysOfSubjects DEF Sharers
        <5> QED
          BY <5>1
      <4>2. CASE FunctionKey(g) # FunctionKey(f)
        <5>1. redis'[FunctionKey(g)] = redis[FunctionKey(g)]
          BY <2>2, <3>1, <4>2, KeysOfSubjects
        <5> QED
          BY <5>1 DEF EntryIsOfKey
      <4> QED
        BY <4>1, <4>2
    <3>3. \A t \in Tenant, u \in User \cup {NoUser} :
             redis'[TenantKey("profile", t, u)] = redis[TenantKey("profile", t, u)]
      BY <2>2, <3>1, KeysApart, KeysOfSubjects
    <3> QED
      BY <3>2, <3>3 DEF EntryIsOfKey
  <2>6. CASE job[p].kind # "cached"
    <3>1. PICK t \in Tenant, u \in User \cup {NoUser} :
                 job[p].key = TenantKey("profile", t, u) /\ job[p].of = <<t, u>>
      BY <2>4, <2>6 DEF KeyIsOfSubject
    <3>2. \A g \in Function : redis'[FunctionKey(g)] = redis[FunctionKey(g)]
      BY <2>2, <3>1, KeysApart, KeysOfSubjects
    <3>3. \A t2 \in Tenant, u2 \in User \cup {NoUser} :
            redis'[TenantKey("profile", t2, u2)] # Nothing =>
              redis'[TenantKey("profile", t2, u2)].of = <<t2, u2>>
      <4> TAKE t2 \in Tenant, u2 \in User \cup {NoUser}
      <4>1. CASE t2 = t /\ u2 = u
        BY <2>2, <2>3, <3>1, <4>1, KeysOfSubjects
      <4>2. CASE ~(t2 = t /\ u2 = u)
        <5>1. redis'[TenantKey("profile", t2, u2)] = redis[TenantKey("profile", t2, u2)]
          BY <2>2, <3>1, <4>2, TenantKeyIsOwn, KeysOfSubjects
        <5> QED
          BY <5>1 DEF EntryIsOfKey
      <4> QED
        BY <4>1, <4>2
    <3> QED
      BY <3>2, <3>3 DEF EntryIsOfKey
  <2> QED
    BY <2>5, <2>6
<1> QED
  BY <1>1, <1>2, <1>3, RedisStep

\* A call that starts has no answer yet, but that of a cache that was not initialised.
LEMMA StartAnswers ==
  ASSUME TypeOK, NEW p \in Task, Start(p)
  PROVE  /\ answer'[p] = answer[p] \/ (answer'[p].status = "raised" /\ pc'[p] = "done")
         /\ \A q \in Task : q # p => answer'[q] = answer[q]
BY DEF Start, Remove, Call, CallUncached, GetScoped, SetScoped, DeleteScoped, Begin, Return,
       Goto, TypeOK

LEMMA PastStep ==
  TypeOK /\ KeyIsOfSubject /\ InThePast /\ [Next]_vars => InThePast'
<1> SUFFICES ASSUME TypeOK, KeyIsOfSubject, InThePast, [Next]_vars
             PROVE  InThePast'
  OBVIOUS
<1> DEFINE Ordered ==
      \A q \in Task : /\ since'[q] <= time'
                      /\ answer'[q].status # "none" => pc'[q] = "done"
                      /\ answer'[q].status = "removed" => job'[q].kind = "remove"
<1>1. time' \in {time, time + 1} /\ time \in Nat
  BY RedisStep DEF TypeOK
<1>2. \A k \in Key : redis'[k] # Nothing => redis'[k].at < time'
  <2>1. CASE UNCHANGED redis \/ \E k \in Key : redis' = [redis EXCEPT ![k] = Nothing]
    <3>1. \A k \in Key : redis'[k] # Nothing => redis'[k] = redis[k] /\ redis[k].at < time
      BY <2>1 DEF InThePast, TypeOK
    <3>2. \A k \in Key : redis[k] # Nothing => redis[k].at \in Nat
      BY DEF TypeOK, Entries
    <3> QED
      BY <1>1, <3>1, <3>2
  <2>2. ASSUME NEW p \in Task, NEW none \in BOOLEAN, pc[p] = "set", time' = time + 1,
               redis' = [redis EXCEPT ![job[p].key] = Entry(job[p].of, none)]
        PROVE  \A k \in Key : redis'[k] # Nothing => redis'[k].at < time'
    <3> TAKE k \in Key
    <3>1. redis'[k] = IF k = job[p].key THEN Entry(job[p].of, none) ELSE redis[k]
      BY <2>2 DEF TypeOK
    <3>2. Entry(job[p].of, none).at = time
      BY DEF Entry
    <3>3. redis[k] # Nothing => redis[k].at < time /\ redis[k].at \in Nat
      BY DEF TypeOK, Entries, InThePast
    <3> QED
      BY <1>1, <2>2, <3>1, <3>2, <3>3
  <2> QED
    BY <2>1, <2>2, RedisStep
<1>3. Ordered
  <2>1. ASSUME NEW p \in Task, Start(p)
        PROVE  Ordered
    <3>1. /\ pc[p] = "idle" /\ time' = time
          /\ \A q \in Task : (since'[q] = since[q] \/ since'[q] = time)
          /\ \A q \in Task : q # p => pc'[q] = pc[q] /\ job'[q] = job[q]
      BY <2>1 DEF Start, Remove, Call, CallUncached, GetScoped, SetScoped, DeleteScoped, Begin,
                  Return, Goto, TypeOK
    <3>2. /\ answer'[p] = answer[p] \/ (answer'[p].status = "raised" /\ pc'[p] = "done")
          /\ \A q \in Task : q # p => answer'[q] = answer[q]
      BY <2>1, StartAnswers
    <3> QED
      BY <1>1, <3>1, <3>2 DEF InThePast
  <2>2. ASSUME NEW p \in Task, Step(p)
        PROVE  Ordered
    <3>1. UNCHANGED <<since, job>> /\ pc[p] # "done"
      BY <2>2 DEF Step, Get, GetFails, Run, RunRaises, Set, SetFails, Scan, ScanMore, Delete,
                  Removed, RemoveFails
    <3>2. \A q \in Task : q # p => pc'[q] = pc[q] /\ answer'[q] = answer[q]
      BY <2>2 DEF Step, Get, GetFails, AfterGet, Run, RunRaises, Set, SetFails, Scan, ScanMore,
                  Delete, Removed, RemoveFails, Return, Goto, TypeOK
    <3>3. \/ answer'[p] = answer[p]
          \/ /\ pc'[p] = "done"
             /\ answer'[p].status = "removed" => pc[p] = "delete"
      BY <2>2 DEF Step, Get, GetFails, AfterGet, Run, RunRaises, Set, SetFails, Scan, ScanMore,
                  Delete, Removed, RemoveFails, Return, Goto, TypeOK
    <3>4. \A q \in Task : since[q] <= time /\ since[q] \in Nat
      BY DEF InThePast, TypeOK
    <3>5. answer[p].status = "none"
      BY <3>1 DEF InThePast
    <3>6. pc[p] = "delete" => job[p].kind = "remove"
      BY DEF KeyIsOfSubject
    <3> QED
      BY <1>1, <3>1, <3>2, <3>3, <3>4, <3>5, <3>6 DEF InThePast
  <2>3. CASE UNCHANGED <<since, answer, pc, job>>
    BY <1>1, <2>3 DEF InThePast, TypeOK
  <2> HIDE DEF Ordered
  <2> QED
    BY <2>1, <2>2, <2>3 DEF Next, Expire, vars
<1> QED
  BY <1>2, <1>3 DEF InThePast

-----------------------------------------------------------------------------
LEMMA ServedStep == IInv /\ [Next]_vars => ServedIsOwn'
<1> SUFFICES ASSUME IInv, [Next]_vars
             PROVE  ServedIsOwn'
  OBVIOUS
<1> USE DEF IInv
<1>1. ASSUME NEW p \in Task, Start(p)
      PROVE  ServedIsOwn'
  <2>1. pc[p] = "idle" /\ \A q \in Task : q # p => job'[q] = job[q]
    BY <1>1 DEF Start, Remove, Call, CallUncached, GetScoped, SetScoped, DeleteScoped, Begin,
                Goto, TypeOK
  <2>2. answer[p].status = "none"
    BY <2>1 DEF InThePast
  <2>3. /\ answer'[p].status # "served"
        /\ \A q \in Task : q # p => answer'[q] = answer[q]
    BY <1>1, <2>2, StartAnswers
  <2> QED
    BY <2>1, <2>3 DEF ServedIsOwn
<1>2. ASSUME NEW p \in Task, Step(p)
      PROVE  ServedIsOwn'
  <2>1. UNCHANGED job
    BY <1>2 DEF Step, Get, GetFails, Run, RunRaises, Set, SetFails, Scan, ScanMore, Delete,
                Removed, RemoveFails
  <2>2. \A q \in Task : q # p => answer'[q] = answer[q]
    BY <1>2 DEF Step, Get, GetFails, AfterGet, Run, RunRaises, Set, SetFails, Scan, ScanMore,
                Delete, Removed, RemoveFails, Return, TypeOK
  <2>3. \/ answer'[p] = answer[p] \/ answer'[p].status # "served"
        \/ pc[p] \in {"run", "rerun", "set"} /\ answer'[p].value = job[p].of
        \/ pc[p] = "get" /\ redis[job[p].key] # Nothing
           /\ answer'[p].value = redis[job[p].key].of
    BY <1>2 DEF Step, Get, GetFails, AfterGet, Hit, Run, RunRaises, Set, SetFails, Scan,
                ScanMore, Delete, Removed, RemoveFails, Return, TypeOK
  <2>4. pc[p] = "get" /\ redis[job[p].key] # Nothing =>
          IF job[p].kind = "cached" THEN redis[job[p].key].of \in Sharers(job[p].of[1]) \X Arg
                                    ELSE redis[job[p].key].of = job[p].of
    <3> SUFFICES ASSUME pc[p] = "get", redis[job[p].key] # Nothing
                 PROVE  IF job[p].kind = "cached" THEN redis[job[p].key].of \in Sharers(job[p].of[1]) \X Arg
                                                  ELSE redis[job[p].key].of = job[p].of
      OBVIOUS
    <3>1. job[p].kind \in {"cached", "tenant_get", "tenant_set", "tenant_delete"}
      BY DEF TypeOK, KeyIsOfSubject, Jobs
    <3>2. CASE job[p].kind = "cached"
      <4>1. PICK f \in Function, a \in Arg : job[p].key = FunctionKey(f) /\ job[p].of = <<f, a>>
        BY <3>2 DEF KeyIsOfSubject
      <4> QED
        BY <3>2, <4>1 DEF EntryIsOfKey
    <3>3. CASE job[p].kind # "cached"
      <4>1. PICK t \in Tenant, u \in User \cup {NoUser} :
                   job[p].key = TenantKey("profile", t, u) /\ job[p].of = <<t, u>>
        BY <3>1, <3>3 DEF KeyIsOfSubject
      <4> QED
        BY <3>3, <4>1 DEF EntryIsOfKey
    <3> QED
      BY <3>2, <3>3
  <2>6. job[p].kind = "cached" => job[p].of \in Sharers(job[p].of[1]) \X Arg
    <3> SUFFICES ASSUME job[p].kind = "cached"
                 PROVE  job[p].of \in Sharers(job[p].of[1]) \X Arg
      OBVIOUS
    <3>1. PICK f \in Function, a \in Arg : job[p].of = <<f, a>>
      BY DEF KeyIsOfSubject
    <3>2. job[p].of[1] = f /\ f \in Sharers(f)
      BY <3>1 DEF Sharers
    <3> QED
      BY <3>1, <3>2
  <2>5. answer'[p].status = "served" =>
          IF job[p].kind = "cached" THEN answer'[p].value \in Sharers(job[p].of[1]) \X Arg
                                    ELSE answer'[p].value = job[p].of
    BY <2>3, <2>4, <2>6 DEF ServedIsOwn
  <2> QED
    BY <2>1, <2>2, <2>5 DEF ServedIsOwn
<1>3. CASE UNCHANGED <<answer, job>>
  BY <1>3 DEF ServedIsOwn
<1> QED
  BY <1>1, <1>2, <1>3 DEF Next, Expire, vars

\* A removal has to delete what it has met; what it has not met was not there when it
\* scanned, and is stored with the time of a moment after it began.
LEMMA RestStep == IInv /\ [Next]_vars => RestIsYounger'
<1> SUFFICES ASSUME IInv, [Next]_vars
             PROVE  RestIsYounger'
  OBVIOUS
<1> USE DEF IInv
<1> DEFINE Younger(q, k) == redis[k] # Nothing => redis[k].at >= since[q]
           Fresh(k) == redis'[k] # Nothing => redis'[k].at = time
\* Whatever happens to Redis, an entry is left as it was or is of this moment.
<1>1. \A k \in Key : redis'[k] = redis[k] \/ Fresh(k)
  <2>1. \A s, none : Entry(s, none).at = time
    BY DEF Entry
  <2> QED
    BY <2>1, RedisStep DEF TypeOK
<1>2. \A q \in Task, k \in Key : since'[q] = since[q] /\ Younger(q, k) => Younger(q, k)'
  <2>1. \A q \in Task : since[q] <= time
    BY DEF InThePast
  <2> QED
    BY <1>1, <2>1 DEF TypeOK
<1>3. \A q \in Task : Tagged(q) \subseteq Key
  BY DEF Tagged, Key
<1>4. ASSUME NEW p \in Task, Start(p)
      PROVE  RestIsYounger'
  <2>1. /\ pc[p] = "idle" /\ redis' = redis /\ scanned' = scanned
        /\ pc'[p] # "delete"
        /\ \A q \in Task : q # p => job'[q] = job[q] /\ since'[q] = since[q] /\ pc'[q] = pc[q]
    BY <1>4 DEF Start, Remove, Call, CallUncached, GetScoped, SetScoped, DeleteScoped, Begin,
                Return, Goto, TypeOK
  <2>2. answer[p].status = "none"
    BY <2>1 DEF InThePast
  <2>3. \A q \in Task : q # p => Tagged(q)' = Tagged(q)
    BY <2>1 DEF Tagged
  <2>4. /\ answer'[p].status # "removed"
        /\ \A q \in Task : q # p => answer'[q] = answer[q]
    BY <1>4, <2>2, StartAnswers
  <2> QED
    BY <2>1, <2>3, <2>4 DEF RestIsYounger
<1>5. ASSUME NEW p \in Task, Step(p)
      PROVE  RestIsYounger'
  <2>1. UNCHANGED <<job, since>>
    BY <1>5 DEF Step, Get, GetFails, Run, RunRaises, Set, SetFails, Scan, ScanMore, Delete,
                Removed, RemoveFails
  <2>2. \A q \in Task : Tagged(q)' = Tagged(q)
    BY <2>1 DEF Tagged
  <2>3. ASSUME NEW q \in Task, pc'[q] = "delete", NEW k \in Tagged(q) \ scanned'[q]
        PROVE  Younger(q, k)'
    <3>1. CASE q # p
      <4>1. pc[q] = "delete" /\ scanned[q] = scanned'[q]
        BY <1>5, <2>3, <3>1 DEF Step, Get, GetFails, AfterGet, Run, RunRaises, Set, SetFails,
           Scan, ScanMore, Delete, Removed, RemoveFails, Return, Goto, TypeOK
      <4> QED
        BY <1>2, <1>3, <2>1, <2>3, <4>1 DEF RestIsYounger
    <3>2. CASE q = p
      <4>1. Scan(p) \/ ScanMore(p) \/ Delete(p)
        BY <1>5, <2>3, <3>2 DEF Step, Get, GetFails, AfterGet, Run, RunRaises, Set, SetFails,
           Removed, RemoveFails, Return, Goto, TypeOK
      <4>2. CASE Scan(p)
        <5>1. scanned'[p] = Present(p) /\ redis' = redis
          BY <4>2 DEF Scan, TypeOK
        <5>2. redis'[k] = Nothing
          BY <2>3, <3>2, <5>1 DEF Present
        <5> QED
          BY <5>2
      <4>3. CASE ScanMore(p)
        <5>1. pc[p] = "delete" /\ scanned[p] \subseteq scanned'[p]
          BY <4>3 DEF ScanMore, TypeOK
        <5> QED
          BY <1>2, <1>3, <2>1, <2>3, <3>2, <5>1 DEF RestIsYounger
      <4>4. CASE Delete(p)
        <5>1. PICK x \in scanned[p] : /\ redis' = [redis EXCEPT ![x] = Nothing]
                                      /\ scanned' = [scanned EXCEPT ![p] = @ \ {x}]
          BY <4>4 DEF Delete
        <5>2. pc[p] = "delete" /\ scanned'[p] = scanned[p] \ {x}
          BY <4>4, <5>1 DEF Delete, TypeOK
        <5>3. CASE k = x
          BY <1>3, <2>3, <5>1, <5>3 DEF TypeOK
        <5>4. CASE k # x
          BY <1>2, <1>3, <2>1, <2>3, <3>2, <5>2, <5>4 DEF RestIsYounger
        <5> QED
          BY <5>3, <5>4
      <4> QED
        BY <4>1, <4>2, <4>3, <4>4
    <3> QED
      BY <3>1, <3>2
  <2>4. ASSUME NEW q \in Task, answer'[q].status = "removed", NEW k \in Tagged(q)
        PROVE  Younger(q, k)'
    <3>1. CASE answer'[q] = answer[q]
      BY <1>2, <1>3, <2>1, <2>4, <3>1 DEF RestIsYounger
    <3>2. CASE answer'[q] # answer[q]
      <4>1. pc[q] = "delete" /\ scanned[q] = {}
        BY <1>5, <2>4, <3>2 DEF Step, Get, GetFails, AfterGet, Run, RunRaises, Set, SetFails,
           Scan, ScanMore, Delete, Removed, RemoveFails, Return, TypeOK
      <4> QED
        BY <1>2, <1>3, <2>1, <2>4, <4>1 DEF RestIsYounger
    <3> QED
      BY <3>1, <3>2
  <2> QED
    BY <2>2, <2>3, <2>4 DEF RestIsYounger
<1>6. CASE UNCHANGED <<answer, job, pc, since, scanned>>
  <2>1. \A q \in Task : Tagged(q)' = Tagged(q)
    BY <1>6 DEF Tagged
  <2>2. ASSUME NEW q \in Task, NEW k \in Tagged(q), Younger(q, k)
        PROVE  Younger(q, k)'
    BY <1>2, <1>3, <1>6, <2>2
  <2> HIDE DEF Younger
  <2>3. /\ \A q \in Task : pc[q] = "delete" => \A k \in Tagged(q) \ scanned[q] : Younger(q, k)
        /\ \A q \in Task : answer[q].status = "removed" => \A k \in Tagged(q) : Younger(q, k)
    BY DEF RestIsYounger, Younger
  <2>4. /\ \A q \in Task : pc'[q] = "delete" =>
                             \A k \in Tagged(q)' \ scanned'[q] : Younger(q, k)'
        /\ \A q \in Task : answer'[q].status = "removed" => \A k \in Tagged(q)' : Younger(q, k)'
    BY <1>6, <2>1, <2>2, <2>3
  <2> QED
    BY <2>4 DEF RestIsYounger, Younger
<1> QED
  BY <1>4, <1>5, <1>6 DEF Next, Expire, vars

-----------------------------------------------------------------------------
LEMMA InitIInv == Init => IInv
BY TypeInit, KeysOfSubjects
   DEF Init, IInv, RunsCounted, KeyIsOfSubject, EntryIsOfKey, ServedIsOwn, InThePast,
       RestIsYounger, NoJob, NoAnswer

LEMMA StepIInv == IInv /\ [Next]_vars => IInv'
BY TypeStep, RunsStep, KeyStep, EntryStep, ServedStep, PastStep, RestStep DEF IInv

LEMMA Invariance == Spec => []IInv
BY InitIInv, StepIInv, PTL DEF Spec

\* A decorated function runs once, and again only because it raised: whatever Redis
\* refuses, CacheManager.cached never runs it after it returned.
THEOREM RunsOnce == Spec => []RunsAgainOnlyAfterRaise
<1>1. IInv => RunsAgainOnlyAfterRaise
  BY DEF IInv, RunsCounted, RunsAgainOnlyAfterRaise
<1> QED
  BY <1>1, Invariance, PTL

\* When delete_startswith has returned, every entry of the tag was stored after it was
\* called, though tasks store and entries expire during its scan.
THEOREM RemovalRemoves == Spec => []RemovedIsGone
<1>1. IInv => RemovedIsGone
  BY DEF IInv, RestIsYounger, RemovedIsGone
<1> QED
  BY <1>1, Invariance, PTL

\* Whatever the names of the functions: no tenant or user is served a value the tenant cache
\* holds for another, the context read off a tenant's key is that of the value under it, and
\* a caller of a decorated function is served a response of one that shares its key.
THEOREM ValuesNeverCross == Spec => []NothingCrosses
<1>1. IInv => NothingCrosses
  <2> SUFFICES ASSUME IInv
               PROVE  NothingCrosses
    OBVIOUS
  <2>1. \A p \in Task : answer[p].status = "served" =>
          IF job[p].kind = "cached" THEN answer[p].value \in Sharers(job[p].of[1]) \X Arg
                                    ELSE answer[p].value = job[p].of
    BY DEF IInv, ServedIsOwn
  <2>2. ASSUME NEW k \in TenantKeys, redis[k] # Nothing
        PROVE  redis[k].of = <<PartAfter(k, "tenant"), PartAfter(k, "user")>>
    <3>1. PICK t \in Tenant, u \in User \cup {NoUser} : k = TenantKey("profile", t, u)
      BY DEF TenantKeys
    <3>2. redis[k].of = <<t, u>>
      BY <2>2, <3>1 DEF IInv, EntryIsOfKey
    <3> QED
      BY <3>1, <3>2, ContextIsRead
  <2> QED
    BY <2>1, <2>2 DEF NothingCrosses
<1> QED
  BY <1>1, Invariance, PTL

=============================================================================
