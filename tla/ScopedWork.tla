----------------------------- MODULE ScopedWork -----------------------------
(***************************************************************************)
(* What WithTenantContext promises, without connections, settings or       *)
(* policies: a call is refused, or it runs under the scope of the context  *)
(* it carries, reads rows of that scope only, and its rows, all of them    *)
(* signed with that context, are committed in one step or not at all.      *)
(***************************************************************************)
EXTENDS TenantContext

CONSTANTS Req, Contexts

VARIABLES
    ctx,      \* the context of each call
    seen,     \* the tenants whose rows each call has read
    verdict,  \* "none" while the call runs
    rows      \* the committed rows

vars == <<ctx, seen, verdict, rows>>

\* The rows r may write under context c.
Signed(r, c) ==
    [tenant : Scope(c), req : {r}, audTenant : {c.actedAsTenant},
     audAs : {c.actedAsUser}, audBy : {c.actedByUser}]

Init ==
    /\ ctx = [r \in Req |-> NoCtx]
    /\ seen = [r \in Req |-> {}]
    /\ verdict = [r \in Req |-> "none"]
    /\ rows = {}

\* A call comes with a valid context, once.
Admit(r, c) ==
    /\ verdict[r] = "none" /\ ctx[r] = NoCtx
    /\ c # NoCtx /\ validateTenantContext(c)
    /\ ctx' = [ctx EXCEPT ![r] = c]
    /\ UNCHANGED <<seen, verdict, rows>>

\* A call is refused for the context it carries.
Refuse(r, c) ==
    /\ verdict[r] = "none" /\ ctx[r] = NoCtx
    /\ ctx' = [ctx EXCEPT ![r] = c]
    /\ verdict' = [verdict EXCEPT ![r] = "falhou"]
    /\ UNCHANGED <<seen, rows>>

Read(r, T) ==
    /\ verdict[r] = "none"
    /\ T \subseteq Scope(ctx[r])
    /\ seen' = [seen EXCEPT ![r] = @ \cup T]
    /\ UNCHANGED <<ctx, verdict, rows>>

\* The call ends well: its rows W appear together.
Succeed(r, W) ==
    /\ verdict[r] = "none"
    /\ rows' = rows \cup W
    /\ verdict' = [verdict EXCEPT ![r] = "ok"]
    /\ UNCHANGED <<ctx, seen>>

\* The call ends with an error and without a trace.
Fail(r) ==
    /\ verdict[r] = "none"
    /\ verdict' = [verdict EXCEPT ![r] = "falhou"]
    /\ UNCHANGED <<ctx, seen, rows>>

\* The commit returns an error: all of W or nothing, and the caller cannot tell.
Unsure(r, W) ==
    /\ verdict[r] = "none"
    /\ rows' \in {rows, rows \cup W}
    /\ verdict' = [verdict EXCEPT ![r] = "incerto"]
    /\ UNCHANGED <<ctx, seen>>

Next ==
    \E r \in Req :
        \/ \E c \in Contexts : Admit(r, c) \/ Refuse(r, c)
        \/ \E T \in SUBSET Tenant : Read(r, T)
        \/ /\ ctx[r] # NoCtx
           /\ \E W \in SUBSET Signed(r, ctx[r]) : Succeed(r, W) \/ Unsure(r, W)
        \/ Fail(r)

Spec == Init /\ [][Next]_vars
=============================================================================
