------------------------------ MODULE NestedTx ------------------------------
(***************************************************************************)
(* Calls of WithTenantContext made by the callback of another call.  The   *)
(* package has no notion of nesting: the inner call asks the pool for a    *)
(* second connection while the outer one keeps its own, and its unit of    *)
(* work is another one.  A pool whose connections are all held by outer    *)
(* calls has none left for the inner ones, which then wait for each other. *)
(***************************************************************************)
EXTENDS TenantTx

CONSTANTS
    Outer,      \* the call whose callback makes each call, NoReq for none
    Deadline    \* the calls whose ctx has a deadline

ASSUME NestedAssumption ==
    /\ Outer \in [Req -> Req \cup {NoReq}]
    /\ Deadline \subseteq Req

\* A call nested in r is under way: the callback of r waits for it.
Waiting(r) == \E q \in Req : Outer[q] = r /\ pc[q] \notin {"idle", "done"}

\* A nested call starts from a callback that runs.
StartNested(r) ==
    /\ Outer[r] # NoReq => pc[Outer[r]] = "fn"
    /\ Start(r)

FnNested(r) == ~Waiting(r) /\ Fn(r)

StepNested(r) ==
    StartNested(r) \/ Begins(r) \/ Sets(r) \/ FnNested(r) \/ Commits(r) \/ Rollback(r)

NestedNext == (\E r \in Req : StepNested(r)) \/ (\E c \in Conn : ConnLost(c))

NestedSpec == Init /\ [][NestedNext]_vars

\* Every step of the package that can be taken is taken, a callback that waits
\* for nothing returns, and Begin answers a call whose ctx has a deadline.  No
\* other Begin is asked to fail, nothing makes a call start or a connection
\* break.
Fairness ==
    \A r \in Req :
        /\ WF_vars(\E c \in Conn : Begin(r, c))
        /\ WF_vars(r \in Deadline /\ BeginErr(r))
        /\ WF_vars(Sets(r))
        /\ WF_vars(~Waiting(r) /\ FnReturn(r))
        /\ WF_vars(Commits(r))
        /\ WF_vars(Rollback(r))

NestedFairSpec == NestedSpec /\ Fairness

-----------------------------------------------------------------------------
\* The nested calls have deadlines.
NestedInTime == \A r \in Req : Outer[r] # NoReq => r \in Deadline

\* Every call returns, those included that wait for a connection without a
\* deadline, as long as the nested ones have one: no path keeps a connection,
\* and calls that wait inside each other's callbacks give up.
EveryCallReturns ==
    NestedInTime => \A r \in Req : (pc[r] # "idle") ~> (pc[r] = "done")
=============================================================================
