------------------------------ MODULE MCNestedTx -----------------------------
EXTENDS NestedTx, TLC

CONSTANTS tA, uA,     \* a client and its user
          e1, e2, i1  \* two calls, and one made in the callback of the first

saasA ==
    [actedAsTenant |-> tA, actedAsUser |-> uA, actedByUser |-> uA, home |-> tA,
     cargo |-> "GESTOR", visible |-> {tA}, master |-> FALSE, servicos |-> {}]

\* With a context, or without one.
TwoContexts == {saasA, NoCtx}
OuterOf == [r \in Req |-> IF r = i1 THEN e1 ELSE NoReq]
=============================================================================
