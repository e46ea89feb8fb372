-------------------------- MODULE MCResponseCache --------------------------
\* ResponseCache with three functions under one tag, two of which are called the
\* same, two arguments, and two tenants with a user who is a member of both.
EXTENDS ResponseCache, TLC

CONSTANTS f1, f2, f3, p1, p2, p3, x, y, t1, t2

TagOfConst == [f \in {f1, f2, f3} |-> "api_response"]
NameOfConst == f1 :> "routes.list" @@ f2 :> "routes.list" @@ f3 :> "routes.show"

Symmetric == Permutations({p1, p2, p3}) \cup Permutations({f1, f2})
             \cup Permutations({x, y}) \cup Permutations({t1, t2})

=============================================================================
