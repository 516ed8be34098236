------------------------------ MODULE TenantTx ------------------------------
(***************************************************************************)
(* WithTenantContext: a unit of work over a pool of Postgres connections.  *)
(* Each request calls it once, or queries the pool directly.  The five     *)
(* set_config calls, the callback and the commit are separate steps, so    *)
(* that requests interleave between any two of them and each can fail; a   *)
(* connection can be lost under a request at any time.                     *)
(*                                                                         *)
(* Postgres, pgx and the row-level-security policies are outside the       *)
(* package and modelled from how it uses them: a setting made with         *)
(* is_local = true lives until the end of its transaction, an SQL error    *)
(* aborts the transaction, a row is visible (or may be inserted) when the  *)
(* policy holds under the settings of the connection, and the audit        *)
(* trigger copies the operated tenant and the users from the settings.     *)
(***************************************************************************)
EXTENDS Naturals, Sequences, TenantContext

CONSTANTS
    Req,        \* calls into the package, one per request or job
    Conn,       \* connections of the pool
    Contexts,   \* what the ctx of a call may carry: Contexts or NoCtx
    NoReq,      \* a connection nobody holds
    NoConn,     \* a tx handle that is closed
    Unset       \* a setting without value (current_setting NULL or '')

ASSUME TxAssumption ==
    /\ Contexts \subseteq Context \cup {NoCtx}
    /\ NoReq \notin Req
    /\ NoConn \notin Conn
    /\ Unset \notin BOOLEAN

VARIABLES
    pc,         \* where each call stands
    ctx,        \* the TenantContext each call carries
    next,       \* the set_config call that comes next, 1..5
    outcome,    \* what the call returned, or is about to return
    handle,     \* the connection behind the call's tx, NoConn once closed
    seen,       \* the tenants whose rows the call has read
    wrote,      \* the rows the call's statements have written
    holder,     \* who holds each connection
    tx,         \* the transaction state of each connection
    guc,        \* the app.* settings of each connection
    pending,    \* uncommitted rows of each connection
    rows        \* committed rows

reqVars  == <<pc, ctx, next, outcome, handle, seen, wrote>>
connVars == <<holder, tx, guc, pending>>
vars     == <<pc, ctx, next, outcome, handle, seen, wrote,
              holder, tx, guc, pending, rows>>

-----------------------------------------------------------------------------
\* A mutant: the three settings of the package comment only.
GucsDocumented == <<"tenant_ids_visiveis", "acted_as_user_id", "acted_by_user_id">>

\* The settings in the order applySetLocals makes them.
Gucs == <<"tenant_ids_visiveis", "acted_as_user_id", "acted_by_user_id",
          "tenant_id", "is_master_imobo">>
GUC == {"tenant_ids_visiveis", "acted_as_user_id", "acted_by_user_id",
        "tenant_id", "is_master_imobo"}

\* Mutants: the visibility of a master who acts as a client is left global, and
\* the two users change places.
settingsMaster(tc) ==
    [tenant_ids_visiveis |-> tc.visible,
     acted_as_user_id    |-> tc.actedAsUser,
     acted_by_user_id    |-> tc.actedByUser,
     tenant_id           |-> tc.actedAsTenant,
     is_master_imobo     |-> tc.master]

settingsSwapped(tc) ==
    [tenant_ids_visiveis |-> tc.visible,
     acted_as_user_id    |-> tc.actedByUser,
     acted_by_user_id    |-> tc.actedAsUser,
     tenant_id           |-> tc.actedAsTenant,
     is_master_imobo     |-> MasterVisaoGlobal(tc)]

\* The value of each setting for a context.
settings(tc) ==
    [tenant_ids_visiveis |-> tc.visible,
     acted_as_user_id    |-> tc.actedAsUser,
     acted_by_user_id    |-> tc.actedByUser,
     tenant_id           |-> tc.actedAsTenant,
     is_master_imobo     |-> MasterVisaoGlobal(tc)]

NoSettings == [g \in GUC |-> Unset]

\* The policy tenant_isolation under the settings g.
RowVisible(g, t) ==
    \/ g["tenant_ids_visiveis"] # Unset /\ t \in g["tenant_ids_visiveis"]
    \/ g["is_master_imobo"] = TRUE

\* A row of tenant t written by r, with what the audit trigger adds to it.
Row(r, t, g) ==
    [tenant |-> t, req |-> r, audTenant |-> g["tenant_id"],
     audAs |-> g["acted_as_user_id"], audBy |-> g["acted_by_user_id"]]

\* How a call that never reaches Begin ends, "none" when it does reach it.
Refusal(c) ==
    IF c = NoCtx THEN "sem_contexto"
    ELSE IF ~validateTenantContext(c) THEN "contexto_invalido"
    ELSE "none"

Init ==
    /\ pc = [r \in Req |-> "idle"]
    /\ ctx = [r \in Req |-> NoCtx]
    /\ next = [r \in Req |-> 1]
    /\ outcome = [r \in Req |-> "none"]
    /\ handle = [r \in Req |-> NoConn]
    /\ seen = [r \in Req |-> {}]
    /\ wrote = [r \in Req |-> {}]
    /\ holder = [c \in Conn |-> NoReq]
    /\ tx = [c \in Conn |-> "idle"]
    /\ guc = [c \in Conn |-> NoSettings]
    /\ pending = [c \in Conn |-> {}]
    /\ rows = {}

\* A mutant: settings of the session.
is_session == FALSE

\* The third argument of every set_config.
is_local == TRUE

\* The end of a connection's transaction: its uncommitted rows and local
\* settings are gone and the pool has it back (or a fresh one in its place).
Release(c) ==
    /\ holder' = [holder EXCEPT ![c] = NoReq]
    /\ tx' = [tx EXCEPT ![c] = "idle"]
    /\ guc' = [guc EXCEPT ![c] = IF is_local THEN NoSettings ELSE @]
    /\ pending' = [pending EXCEPT ![c] = {}]

-----------------------------------------------------------------------------
\* A call with a nil pool.
CallPoolNil(r) ==
    /\ pc[r] = "idle"
    /\ pc' = [pc EXCEPT ![r] = "done"]
    /\ outcome' = [outcome EXCEPT ![r] = "pool_nil"]
    /\ UNCHANGED <<ctx, next, handle, seen, wrote, connVars, rows>>

\* A call with context c: refused before Begin when c is absent or invalid.
Call(r, c) ==
    /\ pc[r] = "idle"
    /\ ctx' = [ctx EXCEPT ![r] = c]
    /\ outcome' = [outcome EXCEPT ![r] = Refusal(c)]
    /\ pc' = [pc EXCEPT ![r] = IF Refusal(c) = "none" THEN "begin" ELSE "done"]
    /\ UNCHANGED <<next, handle, seen, wrote, connVars, rows>>

\* Begin takes a free connection and opens a transaction on it.
Begin(r, c) ==
    /\ pc[r] = "begin"
    /\ holder[c] = NoReq
    /\ holder' = [holder EXCEPT ![c] = r]
    /\ tx' = [tx EXCEPT ![c] = "open"]
    /\ handle' = [handle EXCEPT ![r] = c]
    /\ pc' = [pc EXCEPT ![r] = "set"]
    /\ UNCHANGED <<ctx, next, outcome, seen, wrote, guc, pending, rows>>

\* A mutant: Begin does not take the ctx of the call, and waits for ever.
BeginErrNever(r) == FALSE

\* Begin fails (no connection before the deadline, server down): the deferred
\* rollback is not registered yet.
BeginErr(r) ==
    /\ pc[r] = "begin"
    /\ outcome' = [outcome EXCEPT ![r] = "err_begin"]
    /\ pc' = [pc EXCEPT ![r] = "done"]
    /\ UNCHANGED <<ctx, next, handle, seen, wrote, connVars, rows>>

\* One set_config(name, value, is_local).
SetConfig(r) ==
    LET c == handle[r]
        g == Gucs[next[r]]
    IN  /\ pc[r] = "set"
        /\ tx[c] = "open"
        /\ guc' = [guc EXCEPT ![c] =
                      [@ EXCEPT ![g] = settings(ctx[r])[g]]]
        /\ IF next[r] < Len(Gucs)
           THEN /\ next' = [next EXCEPT ![r] = @ + 1]
                /\ UNCHANGED pc
           ELSE /\ pc' = [pc EXCEPT ![r] = "fn"]
                /\ UNCHANGED next
        /\ UNCHANGED <<ctx, outcome, handle, seen, wrote, holder, tx,
                       pending, rows>>

\* A mutant: the failed setting returns at once.
SetConfigErrReturns(r) ==
    /\ pc[r] = "set"
    /\ outcome' = [outcome EXCEPT ![r] = "err_set"]
    /\ pc' = [pc EXCEPT ![r] = "done"]
    /\ UNCHANGED <<ctx, next, handle, seen, wrote, connVars, rows>>

\* A set_config fails: applySetLocals stops at it and the callback never runs.
SetConfigErr(r) ==
    LET c == handle[r]
    IN  /\ pc[r] = "set"
        /\ tx' = [tx EXCEPT ![c] = IF @ = "open" THEN "aborted" ELSE @]
        /\ outcome' = [outcome EXCEPT ![r] = "err_set"]
        /\ pc' = [pc EXCEPT ![r] = "defer"]
        /\ UNCHANGED <<ctx, next, handle, seen, wrote, holder, guc, pending,
                       rows>>

\* The callback reads every row the policy lets through.
FnRead(r) ==
    LET c == handle[r]
    IN  /\ pc[r] = "fn"
        /\ tx[c] = "open"
        /\ seen' = [seen EXCEPT ![r] = @ \cup
                      {w.tenant : w \in {x \in rows \cup pending[c] :
                                            RowVisible(guc[c], x.tenant)}}]
        /\ UNCHANGED <<pc, ctx, next, outcome, handle, wrote, connVars, rows>>

\* The callback writes a row of tenant t; a row the policy refuses is an SQL
\* error, which aborts the transaction.
FnWrite(r, t) ==
    LET c == handle[r]
        w == Row(r, t, guc[c])
    IN  /\ pc[r] = "fn"
        /\ tx[c] = "open"
        /\ IF RowVisible(guc[c], t)
           THEN /\ pending' = [pending EXCEPT ![c] = @ \cup {w}]
                /\ wrote' = [wrote EXCEPT ![r] = @ \cup {w}]
                /\ UNCHANGED tx
           ELSE /\ tx' = [tx EXCEPT ![c] = "aborted"]
                /\ UNCHANGED <<pending, wrote>>
        /\ UNCHANGED <<pc, ctx, next, outcome, handle, seen, holder, guc, rows>>

\* The callback returns nil, whatever became of its statements.
FnOk(r) ==
    /\ pc[r] = "fn"
    /\ pc' = [pc EXCEPT ![r] = "commit"]
    /\ UNCHANGED <<ctx, next, outcome, handle, seen, wrote, connVars, rows>>

\* The callback returns an error, or panics: either way only the deferred
\* rollback is left to run.
FnErr(r) ==
    /\ pc[r] = "fn"
    /\ outcome' = [outcome EXCEPT ![r] = "err_fn"]
    /\ pc' = [pc EXCEPT ![r] = "defer"]
    /\ UNCHANGED <<ctx, next, handle, seen, wrote, connVars, rows>>

\* A mutant: a rollback that is not deferred and so misses the panic.
FnPanicEscapes(r) ==
    /\ pc[r] = "fn"
    /\ outcome' = [outcome EXCEPT ![r] = "panic"]
    /\ pc' = [pc EXCEPT ![r] = "done"]
    /\ UNCHANGED <<ctx, next, handle, seen, wrote, connVars, rows>>

FnPanic(r) ==
    /\ pc[r] = "fn"
    /\ outcome' = [outcome EXCEPT ![r] = "panic"]
    /\ pc' = [pc EXCEPT ![r] = "defer"]
    /\ UNCHANGED <<ctx, next, handle, seen, wrote, connVars, rows>>

\* Commit succeeds and commitDone makes the deferred rollback a no-op.
CommitOk(r) ==
    LET c == handle[r]
    IN  /\ pc[r] = "commit"
        /\ tx[c] = "open"
        /\ rows' = rows \cup pending[c]
        /\ Release(c)
        /\ handle' = [handle EXCEPT ![r] = NoConn]
        /\ outcome' = [outcome EXCEPT ![r] = "ok"]
        /\ pc' = [pc EXCEPT ![r] = "done"]
        /\ UNCHANGED <<ctx, next, seen, wrote>>

\* Mutants: an ignored error of Commit, and a rollback on a handle that Commit
\* did not close.
CommitErrIgnored(r) ==
    LET c == handle[r]
    IN  /\ pc[r] = "commit"
        /\ Release(c)
        /\ handle' = [handle EXCEPT ![r] = NoConn]
        /\ outcome' = [outcome EXCEPT ![r] = "ok"]
        /\ pc' = [pc EXCEPT ![r] = "done"]
        /\ UNCHANGED <<ctx, next, seen, wrote, rows>>

CommitErrStale(r) ==
    /\ pc[r] = "commit"
    /\ Release(handle[r])
    /\ outcome' = [outcome EXCEPT ![r] = "err_commit"]
    /\ pc' = [pc EXCEPT ![r] = "defer"]
    /\ UNCHANGED <<ctx, next, handle, seen, wrote, rows>>

\* Commit returns an error.  The server may have committed before the answer
\* was lost, unless the transaction was no longer open.  pgx gives the
\* connection back here, so the rollback still to come has nothing to act on.
CommitErr(r) ==
    LET c == handle[r]
    IN  /\ pc[r] = "commit"
        /\ \/ tx[c] = "open" /\ rows' = rows \cup pending[c]
           \/ UNCHANGED rows
        /\ Release(c)
        /\ handle' = [handle EXCEPT ![r] = NoConn]
        /\ outcome' = [outcome EXCEPT ![r] = "err_commit"]
        /\ pc' = [pc EXCEPT ![r] = "defer"]
        /\ UNCHANGED <<ctx, next, seen, wrote>>

\* The deferred, best-effort rollback; its own error is ignored.
Rollback(r) ==
    /\ pc[r] = "defer"
    /\ IF handle[r] # NoConn
       THEN Release(handle[r])
       ELSE UNCHANGED connVars
    /\ handle' = [handle EXCEPT ![r] = NoConn]
    /\ pc' = [pc EXCEPT ![r] = "done"]
    /\ UNCHANGED <<ctx, next, outcome, seen, wrote, rows>>

\* A query on the pool itself, outside WithTenantContext.
DirectQuery(r, c) ==
    /\ pc[r] = "idle"
    /\ holder[c] = NoReq
    /\ seen' = [seen EXCEPT ![r] =
                  {w.tenant : w \in {x \in rows : RowVisible(guc[c], x.tenant)}}]
    /\ outcome' = [outcome EXCEPT ![r] = "direto"]
    /\ pc' = [pc EXCEPT ![r] = "done"]
    /\ UNCHANGED <<ctx, next, handle, wrote, connVars, rows>>

\* The server or the network drops a connection in use: the server rolls its
\* transaction back and every later statement on it fails.
ConnLost(c) ==
    /\ tx[c] \in {"open", "aborted"}
    /\ tx' = [tx EXCEPT ![c] = "lost"]
    /\ guc' = [guc EXCEPT ![c] = NoSettings]
    /\ pending' = [pending EXCEPT ![c] = {}]
    /\ UNCHANGED <<holder, reqVars, rows>>

-----------------------------------------------------------------------------
Start(r) ==
    \/ CallPoolNil(r)
    \/ \E c \in Contexts : Call(r, c)
    \/ \E c \in Conn : DirectQuery(r, c)

Begins(r) == BeginErr(r) \/ \E c \in Conn : Begin(r, c)

Sets(r) == SetConfig(r) \/ SetConfigErr(r)

FnReturn(r) == FnOk(r) \/ FnErr(r) \/ FnPanic(r)

Fn(r) == FnRead(r) \/ (\E t \in Tenant : FnWrite(r, t)) \/ FnReturn(r)

Commits(r) == CommitOk(r) \/ CommitErr(r)

Step(r) ==
    Start(r) \/ Begins(r) \/ Sets(r) \/ Fn(r) \/ Commits(r) \/ Rollback(r)

Next == (\E r \in Req : Step(r)) \/ (\E c \in Conn : ConnLost(c))

Spec == Init /\ [][Next]_vars

-----------------------------------------------------------------------------
Outcomes == {"none", "pool_nil", "sem_contexto", "contexto_invalido",
             "err_begin", "err_set", "err_fn", "panic", "err_commit", "ok",
             "direto"}

RowType == [tenant : Tenant, req : Req, audTenant : TenantId,
            audAs : UserId, audBy : UserId]

\* The type invariant.
TypeOK ==
    /\ pc \in [Req -> {"idle", "begin", "set", "fn", "commit", "defer", "done"}]
    /\ ctx \in [Req -> Contexts \cup {NoCtx}]
    /\ next \in [Req -> 1..5]
    /\ outcome \in [Req -> Outcomes]
    /\ handle \in [Req -> Conn \cup {NoConn}]
    /\ seen \in [Req -> SUBSET Tenant]
    /\ wrote \in [Req -> SUBSET RowType]
    /\ holder \in [Conn -> Req \cup {NoReq}]
    /\ tx \in [Conn -> {"idle", "open", "aborted", "lost"}]
    /\ DOMAIN guc = Conn /\ \A c \in Conn : DOMAIN guc[c] = GUC
    /\ pending \in [Conn -> SUBSET RowType]
    /\ rows \in SUBSET RowType

\* A call reads rows of the tenants of its own context and of no other, on
\* whichever pooled connection it ran and whoever used that connection before:
\* the promise of WithTenantContext, and of the master who acts as a tenant.
\* A query outside WithTenantContext reads nothing.
ReadsInScope == \A r \in Req : seen[r] \subseteq Scope(ctx[r])

IdleConnClean ==
    \A c \in Conn :
        holder[c] = NoReq => /\ guc[c] = NoSettings
                             /\ pending[c] = {}
                             /\ tx[c] = "idle"
NoLeakedConn ==
    \A c \in Conn, r \in Req :
        /\ handle[r] = c <=> holder[c] = r
        /\ holder[c] = r => pc[r] \in {"set", "fn", "commit", "defer"}

\* A connection in use has exactly one user, which has its handle and still has
\* the commit or the deferred rollback ahead: no path leaves one behind, and
\* none is given back twice.  One back in the pool carries no setting, no
\* uncommitted row and no open transaction: what is_local = true is for.
PoolSound == NoLeakedConn /\ IdleConnClean

\* Every row, committed or not, is of a tenant its writer may touch and bears
\* the operated tenant and the two users of its writer's context, the one who
\* acted and the one acted for: the rows of the audit trigger.
AuditFaithful ==
    \A w \in rows \cup UNION {pending[c] : c \in Conn} :
        /\ w.tenant \in Scope(ctx[w.req])
        /\ w.audTenant = ctx[w.req].actedAsTenant
        /\ w.audAs = ctx[w.req].actedAsUser
        /\ w.audBy = ctx[w.req].actedByUser

\* What r has committed.
Committed(r) == {w \in rows : w.req = r}

\* A unit of work is all or nothing, and its outcome tells which: everything
\* on ok, nothing on any error before the commit or while it still runs, one
\* or the other after a commit error.
OutcomeHonest ==
    \A r \in Req :
        /\ Committed(r) \in {{}, wrote[r]}
        /\ outcome[r] = "ok" => Committed(r) = wrote[r]
        /\ outcome[r] \notin {"ok", "err_commit"} => Committed(r) = {}

\* Inside the callback all five settings are those of the call's context.
SettingsApplied ==
    \A r \in Req :
        pc[r] \in {"fn", "commit"} /\ tx[handle[r]] = "open"
        => \A g \in GUC : guc[handle[r]][g] = settings(ctx[r])[g]

\* A step of one request never touches the uncommitted rows, the settings or
\* the transaction of a connection another request holds: the rollback that
\* runs after a failed commit finds its handle closed.
NoCrossRequestEffect ==
    [][\A c \in Conn, r \in Req :
          /\ holder[c] = r
          /\ pc'[r] = pc[r] /\ next'[r] = next[r] /\ wrote'[r] = wrote[r]
          => \/ tx'[c] = "lost"
             \/ /\ holder'[c] = r
                /\ guc'[c] = guc[c]
                /\ pending'[c] = pending[c]
                /\ tx'[c] \in {tx[c], "aborted"}]_vars

-----------------------------------------------------------------------------
(* The inductive invariant: what the properties above rest on. *)

\* A call past Begin has a connection, with a transaction on it.
HandleHeld ==
    /\ \A r \in Req : pc[r] \in {"set", "fn", "commit"} => handle[r] \in Conn
    /\ \A c \in Conn : holder[c] # NoReq => tx[c] # "idle"

\* A call past the checks carries a valid context; its outcome is open.
CtxChecked ==
    \A r \in Req :
        /\ pc[r] \in {"idle", "begin", "set", "fn", "commit"}
           => outcome[r] = "none"
        /\ pc[r] \in {"begin", "set", "fn", "commit"}
           => ctx[r] # NoCtx /\ validateTenantContext(ctx[r])
        /\ pc[r] \in {"idle", "begin", "set"} => seen[r] = {} /\ wrote[r] = {}
        /\ pc[r] = "idle" => ctx[r] = NoCtx
        /\ pc[r] \in {"idle", "begin"} => next[r] = 1

\* The settings made so far are those of the context.
SettingsSoFar ==
    \A r \in Req :
        pc[r] = "set" /\ tx[handle[r]] = "open"
        => \A i \in 1..5 :
              i < next[r] => guc[handle[r]][Gucs[i]] = settings(ctx[r])[Gucs[i]]

\* What r writes is signed by its context; an uncommitted row is its holder's.
RowsSigned ==
    /\ \A r \in Req : \A w \in wrote[r] :
        /\ w.req = r
        /\ w.tenant \in Scope(ctx[r])
        /\ w.audTenant = ctx[r].actedAsTenant
        /\ w.audAs = ctx[r].actedAsUser
        /\ w.audBy = ctx[r].actedByUser
    /\ \A c \in Conn : pending[c] # {} =>
        /\ holder[c] \in Req
        /\ pending[c] \subseteq wrote[holder[c]]
    /\ \A r \in Req :
        /\ pc[r] \in {"set", "fn", "commit"}
        /\ tx[handle[r]] = "open"
        => pending[handle[r]] = wrote[r]

IInv ==
    /\ TypeOK
    /\ NoLeakedConn
    /\ HandleHeld
    /\ IdleConnClean
    /\ CtxChecked
    /\ SettingsSoFar
    /\ SettingsApplied
    /\ RowsSigned
    /\ OutcomeHonest
    /\ ReadsInScope
=============================================================================
