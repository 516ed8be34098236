--------------------------- MODULE TenantTxRefines ---------------------------
(***************************************************************************)
(* WithTenantContext over pooled connections implements ScopedWork: the    *)
(* settings, the row-level-security policy and the rollback discipline     *)
(* together give each call an atomic unit of work in its own scope.        *)
(***************************************************************************)
EXTENDS TenantTx

\* How an outcome reads to the caller: err_commit is the only one that leaves
\* the caller unsure.
Verdict(o) ==
    CASE o = "none"       -> "none"
      [] o = "ok"         -> "ok"
      [] o = "err_commit" -> "incerto"
      [] OTHER            -> "falhou"

verdict == [r \in Req |-> Verdict(outcome[r])]

Work == INSTANCE ScopedWork
            WITH ctx <- ctx, seen <- seen, verdict <- verdict, rows <- rows

\* Every behaviour of the pool, under failures of any call, is a behaviour of
\* the abstract unit of work.
ImplementsScopedWork == Work!Spec
=============================================================================
