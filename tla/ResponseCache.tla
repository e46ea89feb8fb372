--------------------------- MODULE ResponseCache ---------------------------
(***************************************************************************)
(* The server's response cache (server_akash_version/core/cache):          *)
(* CacheManager.cached and its removals, the Redis backend with the        *)
(* metrics it reports, the keys CustomKeyMaker builds and the values       *)
(* TenantCacheManager keeps per tenant.                                    *)
(*                                                                         *)
(* A task is one call of the library, awaiting Redis between its steps;    *)
(* Redis runs one command at a time and may refuse any.  A key is the      *)
(* sequence of the parts it joins.                                         *)
(***************************************************************************)
EXTENDS Naturals, FiniteSets, Sequences

CONSTANTS
  Task,         \* tasks of the event loop
  Function,     \* decorated functions
  TagOf,        \* the prefix each is cached under
  NameOf,       \* its module, __name__ and parameter names, joined to one string
  Arg,          \* what they are called with
  Tenant, User,
  Nothing

\* A tenant goes by its UUID, which is no label of a part.
ASSUME KeyAssumption == "user" \notin Tenant

VARIABLES
  ready,     \* whether Cache.init was called at the start of the server
  redis,     \* the entry under each key, or Nothing
  time,      \* commands that have written to Redis
  pc,
  job,       \* what the task is doing: the kind of call, its key, its subject
  since,     \* the time the task began
  scanned,   \* keys a removal has still to delete
  runs,      \* how often the task has run its function
  raised,    \* ... and how often it raised
  answer,    \* what the task returned
  timing     \* CacheMetrics._start_times: the tasks whose operation is timed

vars == <<ready, redis, time, pc, job, since, scanned, runs, raised, answer, timing>>

-----------------------------------------------------------------------------
NoUser == Nothing

\* make: the prefix and what the function is called; not its class, not what it is
\* called with, nor by whom.  Functions that are called the same share their key.
FunctionKey(f) == <<TagOf[f], NameOf[f]>>
Sharers(f) == {g \in Function : FunctionKey(g) = FunctionKey(f)}

\* make_tenant_key and make_auth_cache_key, without further components.
ForUser(u) == IF u = NoUser THEN <<>> ELSE <<"user", u>>
\* Fault: the tenant is left out of a user's key.
TenantKeyOfUser(base, t, u) ==
  IF u = NoUser THEN <<base, "tenant", t>> ELSE <<base>> \o ForUser(u)
TenantKey(base, t, u) == <<base, "tenant", t>> \o ForUser(u)

\* extract_tenant_from_key, extract_user_from_key: the part after the first such label.
PartAfter(key, label) ==
  LET at == {i \in 1 .. Len(key) - 1 : key[i] = label}
  IN  IF at = {} THEN Nothing ELSE key[(CHOOSE i \in at : \A j \in at : i <= j) + 1]

FunctionKeys == {FunctionKey(f) : f \in Function}
TenantKeys == {TenantKey("profile", t, u) : t \in Tenant, u \in User \cup {NoUser}}
Key == FunctionKeys \cup TenantKeys

\* The subject of a call: whose response or value it is about.
Subject == (Function \X Arg) \cup (Tenant \X (User \cup {NoUser}))
Entry(s, none) == [of |-> s, none |-> none, at |-> time]
NoAnswer == [status |-> "none", value |-> Nothing]
NoJob == [kind |-> "none", key |-> <<>>, of |-> <<>>]

Init ==
  /\ ready \in BOOLEAN
  /\ redis = [k \in Key |-> Nothing] /\ time = 1
  /\ pc = [p \in Task |-> "idle"] /\ job = [p \in Task |-> NoJob]
  /\ since = [p \in Task |-> 0] /\ scanned = [p \in Task |-> {}]
  /\ runs = [p \in Task |-> 0] /\ raised = [p \in Task |-> 0]
  /\ answer = [p \in Task |-> NoAnswer]
  /\ timing = {}

Goto(p, l) == pc' = [pc EXCEPT ![p] = l]
Return(p, status, value) ==
  /\ Goto(p, "done")
  /\ answer' = [answer EXCEPT ![p] = [status |-> status, value |-> value]]

\* A task starts with an operation of the backend, which is timed from here.
Begin(p, kind, key, subject, first) ==
  /\ pc[p] = "idle" /\ ready
  /\ job' = [job EXCEPT ![p] = [kind |-> kind, key |-> key, of |-> subject]]
  /\ since' = [since EXCEPT ![p] = time]
  /\ Goto(p, first)
  /\ timing' = timing \cup {p}
  /\ UNCHANGED <<ready, redis, time, scanned, runs, raised, answer>>

Call(p, f, a) == Begin(p, "cached", FunctionKey(f), <<f, a>>, "get")

\* Without a backend the decorator only runs the function, or raises a ValueError
\* without fallback_on_error; there is nothing to remove and no tenant cache.
CallUncached(p, f, a, fallback) ==
  /\ pc[p] = "idle" /\ ~ready
  /\ job' = [job EXCEPT ![p] = [kind |-> "cached", key |-> FunctionKey(f), of |-> <<f, a>>]]
  /\ IF fallback THEN Goto(p, "rerun") /\ UNCHANGED answer
                 ELSE Return(p, "raised", Nothing)
  /\ UNCHANGED <<ready, redis, time, since, scanned, runs, raised, timing>>

GetScoped(p, t, u) == Begin(p, "tenant_get", TenantKey("profile", t, u), <<t, u>>, "get")
SetScoped(p, t, u) == Begin(p, "tenant_set", TenantKey("profile", t, u), <<t, u>>, "set")
DeleteScoped(p, t, u) == Begin(p, "tenant_delete", TenantKey("profile", t, u), <<t, u>>, "set")
Remove(p, f) == Begin(p, "remove", <<TagOf[f]>>, <<f, Nothing>>, "scan")

\* Every end of an operation stops its timer.
Timed(p) == timing' = timing \ {p}

\* Where a get leads: a value is returned, None is a miss (also a None that was
\* stored); a miss of the decorator runs the function.
Hit(p) == redis[job[p].key] # Nothing /\ ~redis[job[p].key].none
AfterGet(p, hit) ==
  IF hit THEN Return(p, "served", redis[job[p].key].of)
  ELSE IF job[p].kind = "cached" THEN Goto(p, "run") /\ UNCHANGED answer
  ELSE Return(p, "missed", Nothing)

\* RedisBackend.get.
Get(p) ==
  /\ pc[p] = "get"
  /\ AfterGet(p, Hit(p))
  /\ Timed(p)
  /\ UNCHANGED <<ready, redis, time, job, since, scanned, runs, raised>>

\* A refused command or a value that cannot be read is logged and taken for a miss.
GetFails(p) ==
  /\ pc[p] = "get"
  /\ AfterGet(p, FALSE)
  /\ Timed(p)
  /\ UNCHANGED <<ready, redis, time, job, since, scanned, runs, raised>>

\* Fault: the function is run again after a response that could not be stored.
RunAgain(p) ==
  /\ pc[p] \in {"run", "rerun"}
  /\ runs' = [runs EXCEPT ![p] = @ + 1]
  /\ Goto(p, IF pc[p] = "run" THEN "rerun" ELSE "set")
  /\ timing' = IF pc[p] = "rerun" THEN timing \cup {p} ELSE timing
  /\ UNCHANGED <<ready, redis, time, job, since, scanned, raised, answer>>

\* The function returns: the response is to be stored, or is returned as it is
\* when this is the fallback.
Run(p) ==
  /\ pc[p] \in {"run", "rerun"}
  /\ runs' = [runs EXCEPT ![p] = @ + 1]
  /\ IF pc[p] = "run"
       THEN Goto(p, "set") /\ timing' = timing \cup {p} /\ UNCHANGED answer
       ELSE Return(p, "served", job[p].of) /\ UNCHANGED timing
  /\ UNCHANGED <<ready, redis, time, job, since, scanned, raised>>

\* The function raises, which the decorator takes for a failure of the cache: it
\* runs the function again if fallback_on_error, and gives up otherwise.
RunRaises(p, fallback) ==
  /\ pc[p] \in {"run", "rerun"}
  /\ runs' = [runs EXCEPT ![p] = @ + 1] /\ raised' = [raised EXCEPT ![p] = @ + 1]
  /\ IF pc[p] = "run" /\ fallback THEN Goto(p, "rerun") /\ UNCHANGED answer
                                  ELSE Return(p, "raised", Nothing)
  /\ UNCHANGED <<ready, redis, time, job, since, scanned, timing>>

\* RedisBackend.set, for the decorator, for set_tenant_scoped, and, as there is no
\* backend.delete, with None for delete_tenant_scoped.
Set(p, none) ==
  /\ pc[p] = "set"
  /\ job[p].kind = "tenant_delete" => none
  /\ redis' = [redis EXCEPT ![job[p].key] = Entry(job[p].of, none)]
  /\ time' = time + 1
  /\ Return(p, IF job[p].kind = "cached" THEN "served" ELSE "stored", job[p].of)
  /\ Timed(p)
  /\ UNCHANGED <<ready, job, since, scanned, runs, raised>>

\* The failure is raised, and swallowed: the response is returned all the same.
SetFails(p) ==
  /\ pc[p] = "set"
  /\ IF job[p].kind = "cached" THEN Return(p, "served", job[p].of)
                               ELSE Return(p, "failed", Nothing)
  /\ Timed(p)
  /\ UNCHANGED <<ready, redis, time, job, since, scanned, runs, raised>>

\* delete_startswith: SCAN returns the keys there are from its first to its last
\* page, and may return keys that come in the meantime; each is deleted when it
\* is met.
Tagged(p) == {k \in FunctionKeys : k[1] = job[p].key[1]}
Present(p) == {k \in Tagged(p) : redis[k] # Nothing}

\* Fault: one page of keys is enough.
ScanOnePage(p) ==
  /\ pc[p] = "scan"
  /\ \E page \in SUBSET Present(p) : scanned' = [scanned EXCEPT ![p] = page]
  /\ Goto(p, "delete")
  /\ UNCHANGED <<ready, redis, time, job, since, runs, raised, answer, timing>>
Scan(p) ==
  /\ pc[p] = "scan"
  /\ scanned' = [scanned EXCEPT ![p] = Present(p)]
  /\ Goto(p, "delete")
  /\ UNCHANGED <<ready, redis, time, job, since, runs, raised, answer, timing>>
ScanMore(p) ==
  /\ pc[p] = "delete"
  /\ \E k \in Present(p) \ scanned[p] : scanned' = [scanned EXCEPT ![p] = @ \cup {k}]
  /\ UNCHANGED <<ready, redis, time, pc, job, since, runs, raised, answer, timing>>
Delete(p) ==
  /\ pc[p] = "delete"
  /\ \E k \in scanned[p] : /\ redis' = [redis EXCEPT ![k] = Nothing]
                           /\ scanned' = [scanned EXCEPT ![p] = @ \ {k}]
  /\ time' = time + 1
  /\ UNCHANGED <<ready, pc, job, since, runs, raised, answer, timing>>
Removed(p) ==
  /\ pc[p] = "delete" /\ scanned[p] = {}
  /\ Return(p, "removed", Nothing)
  /\ Timed(p)
  /\ UNCHANGED <<ready, redis, time, job, since, scanned, runs, raised>>
RemoveFails(p) ==
  /\ pc[p] \in {"scan", "delete"}
  /\ scanned' = [scanned EXCEPT ![p] = {}]
  /\ Return(p, "raised", Nothing)
  /\ Timed(p)
  /\ UNCHANGED <<ready, redis, time, job, since, runs, raised>>

\* The TTL of an entry ends.
Expire(k) ==
  /\ redis[k] # Nothing
  /\ redis' = [redis EXCEPT ![k] = Nothing]
  /\ UNCHANGED <<ready, time, pc, job, since, scanned, runs, raised, answer, timing>>

Step(p) ==
  \/ Get(p) \/ GetFails(p) \/ Run(p) \/ \E fallback \in BOOLEAN : RunRaises(p, fallback)
  \/ \E none \in BOOLEAN : Set(p, none) \/ SetFails(p)
  \/ Scan(p) \/ ScanMore(p) \/ Delete(p) \/ Removed(p) \/ RemoveFails(p)

Start(p) ==
  \/ \E f \in Function : Remove(p, f) \/ \E a \in Arg : Call(p, f, a)
  \/ \E f \in Function, a \in Arg, fallback \in BOOLEAN : CallUncached(p, f, a, fallback)
  \/ \E t \in Tenant, u \in User \cup {NoUser} :
       GetScoped(p, t, u) \/ SetScoped(p, t, u) \/ DeleteScoped(p, t, u)

Next == (\E p \in Task : Start(p) \/ Step(p)) \/ \E k \in Key : Expire(k)

Spec == Init /\ [][Next]_vars

-----------------------------------------------------------------------------
\* A decorated function runs once, and a second time only because it raised the
\* first time: never after it returned, whatever the cache does.
RunsAgainOnlyAfterRaise ==
  \A p \in Task : runs[p] <= 1 + raised[p] /\ runs[p] <= 2

\* What a removal was called for is gone when it has returned: an entry of the tag
\* was stored while it ran or after it, though keys come and go during the scan.
RemovedIsGone ==
  \A p \in Task : answer[p].status = "removed" =>
    \A k \in Tagged(p) : redis[k] # Nothing => redis[k].at >= since[p]

\* No tenant or user is served what was stored for another in the tenant cache, and the
\* context read off a key (extract_tenant_context) is that of the value under it.  What a
\* decorated function's caller is served is a response of a function that shares its key,
\* which may be another function's, given to another caller for other arguments, and is
\* its own function's if that is the only one of its name.
NothingCrosses ==
  /\ \A p \in Task : answer[p].status = "served" =>
       IF job[p].kind = "cached" THEN answer[p].value \in Sharers(job[p].of[1]) \X Arg
                                 ELSE answer[p].value = job[p].of
  /\ \A k \in TenantKeys : redis[k] # Nothing =>
       redis[k].of = <<PartAfter(k, "tenant"), PartAfter(k, "user")>>

=============================================================================
