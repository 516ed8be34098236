----------------------------- MODULE MCTenantTx -----------------------------
EXTENDS TenantTxRefines, TLC

CONSTANTS root, tA, tB,  \* the master root and two client tenants
          uM, uA, uB     \* the platform's operator and a user of each client

\* SaaS: the user's own tenant.
saas(t, u) ==
    [actedAsTenant |-> t, actedAsUser |-> u, actedByUser |-> u, home |-> t,
     cargo |-> "GESTOR", visible |-> {t}, master |-> FALSE, servicos |-> {}]

\* The master at home sees every tenant; acting as tA, for tA's user, tA only.
masterHome ==
    [actedAsTenant |-> root, actedAsUser |-> uM, actedByUser |-> uM,
     home |-> root, cargo |-> "MASTER_IMOBO", visible |-> {root},
     master |-> TRUE, servicos |-> {}]
masterAsA ==
    [masterHome EXCEPT !.actedAsTenant = tA, !.actedAsUser = uA,
                       !.visible = {tA}]

\* A context that validation refuses.
semVisiveis == [saas(tB, uB) EXCEPT !.visible = {}]

AllContexts == {NoCtx, saas(tB, uB), masterHome, masterAsA, semVisiveis}

ConnSymmetry == Permutations(Req) \cup Permutations(Conn)
=============================================================================
