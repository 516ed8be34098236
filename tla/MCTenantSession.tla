--------------------------- MODULE MCTenantSession ---------------------------
EXTENDS TenantSession

CONSTANTS root, tA, tB,      \* the master root and two client tenants
          uM, uO, uA, uP     \* master, IMOBO admin, client's user, partner

\* The partner is a client's user whom the resolver calls master.
HomeOf == [u \in User |-> CASE u \in {uM, uO} -> root
                             [] u = uA -> tA
                             [] u = uP -> tB]

\* uA carries the portfolio's cargo without the home tenant for it.
CargoOf == [u \in User |-> CASE u = uM -> "MASTER_IMOBO"
                              [] u \in {uO, uA} -> "ADMIN_IMOBO"
                              [] u = uP -> "GESTOR"]

HomeAccess == {<<u, homeOf[u]>> : u \in User}

\* Accesses that come and go: a second tenant for uA, its own one, and a client
\* for the IMOBO admin and for the master.
Moves == {<<uA, tB>>, <<uA, tA>>, <<uO, tA>>, <<uM, tB>>} \cap (User \X Tenant)

\* A service token without ids, and one whose home and acted-as tenants are nil.
Odd(t) == [sub |-> uA, home |-> t, actingAs |-> t, cargo |-> "MASTER_IMOBO",
           srv |-> {}]
OddTokens == {Odd(Malformed), Odd(Nil), [Odd(tA) EXCEPT !.home = Malformed]}

\* A bound: one user at a time has tokens.  There is one request, which carries
\* one token, and no token has an effect on another.
OneHolder == \A u, v \in User : token[u] # NoToken /\ token[v] # NoToken => u = v

\* A bound: the world stops once the request has ended, which nothing that
\* happens later changes.
Running == \E r \in Req : pc[r] # "done"
=============================================================================
