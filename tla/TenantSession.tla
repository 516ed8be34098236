---------------------------- MODULE TenantSession ----------------------------
(***************************************************************************)
(* HTTP requests through HTTPMiddleware and RequireService down to scoped  *)
(* reads of the database, while the access table, the contracted services  *)
(* and the sessions change under them.  A read here is a whole unit of     *)
(* work of WithTenantContext, taken at its specification ScopedWork, which *)
(* TenantTx is shown to implement.                                         *)
(*                                                                         *)
(* The access table, the contracts and the identity service that signs     *)
(* tokens are outside the package.  A request carries whatever token its   *)
(* client holds, however old: nothing here tells an old token from a new   *)
(* one before it expires.                                                  *)
(***************************************************************************)
EXTENDS TenantContext

CONSTANTS
    Req,          \* HTTP requests
    homeOf,       \* user -> home tenant
    cargoOf,      \* user -> cargo
    Operator,     \* users whom the access resolver calls master
    FirstAccess,  \* rows of usuario_tenant_acesso at the start
    Movable,      \* the rows that are inserted and deleted later, a bound
    Unusual,      \* signed tokens with a nil or unparsable id: what one says of a
                  \* real home tenant is true, as a signature vouches for it
    NoToken,      \* no usable Authorization header
    NoGate        \* a route without RequireService

Claims ==
    [sub       : UserId \cup {Malformed},
     home      : TenantId \cup {Malformed},
     actingAs  : TenantId \cup {Malformed},
     cargo     : Cargo,
     srv       : SUBSET Servico]

ASSUME SessionAssumption ==
    /\ homeOf \in [User -> Tenant]
    /\ cargoOf \in [User -> Cargo]
    /\ Operator \subseteq User
    /\ FirstAccess \subseteq User \X Tenant
    /\ Unusual \subseteq
          {c \in Claims :
             /\ c.srv = {}
             /\ c.home \in Tenant
                => c.sub \in User /\ c.home = homeOf[c.sub] /\ c.cargo = cargoOf[c.sub]}
    /\ NoToken \notin Claims
    /\ NoGate \notin Servico

VARIABLES
    access,     \* the table usuario_tenant_acesso
    contract,   \* the services each tenant has contracted
    token,      \* the latest token of each user
    entitled,   \* what the tenant of that token has had since it was signed
    resolver,   \* VisibleTenantsResolver: "estatico" when none is configured
    pc,         \* where each request stands
    claims,     \* the claims its token carried
    gate,       \* the service its route requires
    ctx,        \* the TenantContext its handler finds
    accesses,   \* every set of tenants its user had access to, one per moment
                \* from its arrival until its context was built
    due,        \* the services its tenant has had from the signing of its token
                \* until its gate
    seen,       \* the tenants whose rows it has read
    operated,   \* requests that have operated the IMOBO portfolio
    status      \* how it ended

\* entitled, accesses and due are histories: the properties read them, and no
\* action but to keep them up.
world == <<access, contract, token, entitled>>
request == <<pc, claims, gate, ctx, accesses, due, seen, operated, status>>
vars == <<access, contract, token, entitled, resolver,
          pc, claims, gate, ctx, accesses, due, seen, operated, status>>

Init ==
    /\ access = FirstAccess
    /\ contract = [t \in Tenant |-> {}]
    /\ token = [u \in User |-> NoToken]
    /\ entitled = [u \in User |-> {}]
    /\ resolver \in {"estatico", "acesso"}
    /\ pc = [r \in Req |-> "idle"]
    /\ claims = [r \in Req |-> NoToken]
    /\ gate = [r \in Req |-> NoGate]
    /\ ctx = [r \in Req |-> NoCtx]
    /\ accesses = [r \in Req |-> {}]
    /\ due = [r \in Req |-> {}]
    /\ seen = [r \in Req |-> {}]
    /\ operated = {}
    /\ status = [r \in Req |-> "none"]

AccessOf(u) == {t \in Tenant : <<u, t>> \in access}

-----------------------------------------------------------------------------
\* The world outside: accesses come and go, and so do contracts.

\* The requests of u whose access is still to be read see it change.
Noted(u) ==
    accesses' = [r \in Req |->
                   IF pc[r] = "resolve" /\ claims[r].sub = u
                   THEN accesses[r] \cup {AccessOf(u)'} ELSE accesses[r]]

Grant(u, t) ==
    /\ <<u, t>> \in Movable \ access
    /\ access' = access \cup {<<u, t>>}
    /\ Noted(u)
    /\ UNCHANGED <<contract, token, entitled, resolver, pc, claims, gate, ctx, due,
                   seen, operated, status>>

Revoke(u, t) ==
    /\ <<u, t>> \in Movable \cap access
    /\ access' = access \ {<<u, t>>}
    /\ Noted(u)
    /\ UNCHANGED <<contract, token, entitled, resolver, pc, claims, gate, ctx, due,
                   seen, operated, status>>

ActsAs(c, t) == c # NoToken /\ c.actingAs = t

Contract(t, s) ==
    /\ contract' = [contract EXCEPT ![t] = @ \cup {s}]
    /\ entitled' = [u \in User |-> IF ActsAs(token[u], t)
                                  THEN entitled[u] \cup {s} ELSE entitled[u]]
    /\ due' = [r \in Req |-> IF pc[r] \in {"resolve", "gate"} /\ ActsAs(claims[r], t)
                            THEN due[r] \cup {s} ELSE due[r]]
    /\ UNCHANGED <<access, token, resolver, pc, claims, gate, ctx, accesses, seen,
                   operated, status>>

Cancel(t, s) ==
    /\ contract' = [contract EXCEPT ![t] = @ \ {s}]
    /\ UNCHANGED <<access, token, entitled, resolver, request>>

\* The identity service signs a session of u acting as t, with the services of t.
Issue(u, t) ==
    /\ t = homeOf[u] \/ <<u, t>> \in access
    /\ token' = [token EXCEPT ![u] =
                   [sub |-> u, home |-> homeOf[u], actingAs |-> t,
                    cargo |-> cargoOf[u], srv |-> contract[t]]]
    /\ entitled' = [entitled EXCEPT ![u] = contract[t]]
    /\ UNCHANGED <<access, contract, resolver, request>>

-----------------------------------------------------------------------------
End(r, s) ==
    /\ pc' = [pc EXCEPT ![r] = "done"]
    /\ status' = [status EXCEPT ![r] = s]

\* A path under SkipPaths goes to its handler with no context.
ArrivePublic(r, g) ==
    /\ pc[r] = "idle"
    /\ gate' = [gate EXCEPT ![r] = g]
    /\ pc' = [pc EXCEPT ![r] = "gate"]
    /\ UNCHANGED <<world, resolver, claims, ctx, accesses, due, seen, operated, status>>

\* No header, no bearer token in it, or a token the validator rejects.
ArriveUnauthorized(r) ==
    /\ pc[r] = "idle"
    /\ End(r, "401")
    /\ UNCHANGED <<world, resolver, claims, gate, ctx, accesses, due, seen, operated>>

\* A mutant: the home tenant goes unparsed.
ParsedTwo(c) == Malformed \notin {c.sub, c.actingAs}

\* The ids the middleware parses, which may be uuid.Nil.
Parsed(c) == Malformed \notin {c.sub, c.home, c.actingAs}

\* A token the validator accepts, with claims c.
Arrive(r, c, g) ==
    /\ pc[r] = "idle"
    /\ claims' = [claims EXCEPT ![r] = c]
    /\ gate' = [gate EXCEPT ![r] = g]
    /\ IF Parsed(c)
       THEN /\ pc' = [pc EXCEPT ![r] = "resolve"]
            /\ UNCHANGED status
       ELSE End(r, "401")
    /\ accesses' = [accesses EXCEPT ![r] = {AccessOf(c.sub)}]
    /\ due' = [due EXCEPT ![r] = UNION {entitled[u] : u \in {v \in User : token[v] = c}}]
    /\ UNCHANGED <<world, resolver, ctx, seen, operated>>

\* What the resolver answers: the acted-as tenant alone when none is configured.
Resolve(c) ==
    IF resolver = "estatico"
    THEN [visible |-> {c.actingAs}, isMaster |-> FALSE]
    ELSE [visible |-> AccessOf(c.sub), isMaster |-> c.sub \in Operator]

\* A mutant: the acted-as tenant is added whatever the user has access to.
buildTenantContextSempre(c, a) ==
    [actedAsTenant |-> c.actingAs,
     actedAsUser   |-> c.sub,
     actedByUser   |-> c.sub,
     home          |-> c.home,
     cargo         |-> c.cargo,
     visible       |-> a.visible \cup {c.actingAs},
     master        |-> a.isMaster \/ shouldPromoteMaster(c.home, c.cargo),
     servicos      |-> c.srv]

\* The rest of buildTenantContext over the answer a: the acted-as tenant when a
\* is empty, and the promotion.
buildTenantContext(c, a) ==
    [actedAsTenant |-> c.actingAs,
     actedAsUser   |-> c.sub,
     actedByUser   |-> c.sub,
     home          |-> c.home,
     cargo         |-> c.cargo,
     visible       |-> IF a.visible = {} THEN {c.actingAs} ELSE a.visible,
     master        |-> a.isMaster \/ shouldPromoteMaster(c.home, c.cargo),
     servicos      |-> c.srv]

\* The access table is read here and never again by this request.
ResolveOk(r) ==
    /\ pc[r] = "resolve"
    /\ ctx' = [ctx EXCEPT ![r] = buildTenantContext(claims[r], Resolve(claims[r]))]
    /\ pc' = [pc EXCEPT ![r] = "gate"]
    /\ UNCHANGED <<world, resolver, claims, gate, accesses, due, seen, operated, status>>

\* The access resolver fails; the static one cannot.
ResolveErr(r) ==
    /\ pc[r] = "resolve"
    /\ resolver = "acesso"
    /\ End(r, "500")
    /\ UNCHANGED <<world, resolver, claims, gate, ctx, accesses, due, seen, operated>>

\* RequireService, on the routes that have it.
RequireService(r) ==
    /\ pc[r] = "gate"
    /\ IF gate[r] = NoGate \/ HasService(ctx[r], gate[r])
       THEN /\ pc' = [pc EXCEPT ![r] = "handler"]
            /\ UNCHANGED status
       ELSE End(r, "403")
    /\ UNCHANGED <<world, resolver, claims, gate, ctx, accesses, due, seen, operated>>

-----------------------------------------------------------------------------
\* A handler that calls MustFrom where no middleware has run.
MustFromPanic(r) ==
    /\ pc[r] = "handler"
    /\ ctx[r] = NoCtx
    /\ End(r, "panic")
    /\ UNCHANGED <<world, resolver, claims, gate, ctx, accesses, due, seen, operated>>

\* A unit of work of the handler: refused before Begin, or a scoped read.
Read(r) ==
    /\ pc[r] = "handler"
    /\ IF ctx[r] # NoCtx /\ validateTenantContext(ctx[r])
       THEN /\ seen' = [seen EXCEPT ![r] = @ \cup Scope(ctx[r])]
            /\ UNCHANGED <<pc, status>>
       ELSE /\ End(r, "recusado")
            /\ UNCHANGED seen
    /\ UNCHANGED <<world, resolver, claims, gate, ctx, accesses, due, operated>>

\* An endpoint of the IMOBO portfolio, behind PodeOperarCarteiraImobo.
OperatePortfolio(r) ==
    /\ pc[r] = "handler"
    /\ ctx[r] # NoCtx
    /\ PodeOperarCarteiraImobo(ctx[r])
    /\ operated' = operated \cup {r}
    /\ UNCHANGED <<world, resolver, pc, claims, gate, ctx, accesses, due, seen, status>>

Reply(r) ==
    /\ pc[r] = "handler"
    /\ End(r, "200")
    /\ UNCHANGED <<world, resolver, claims, gate, ctx, accesses, due, seen, operated>>

Tokens == ({token[u] : u \in User} \cup Unusual) \ {NoToken}

Outside ==
    \/ \E u \in User, t \in Tenant : Grant(u, t) \/ Revoke(u, t) \/ Issue(u, t)
    \/ \E t \in Tenant, s \in Servico : Contract(t, s) \/ Cancel(t, s)

Arrivals(r) ==
    \/ ArriveUnauthorized(r)
    \/ \E g \in Servico \cup {NoGate} :
          ArrivePublic(r, g) \/ \E c \in Tokens : Arrive(r, c, g)

Progress(r) ==
    \/ ResolveOk(r) \/ ResolveErr(r) \/ RequireService(r)
    \/ MustFromPanic(r) \/ Read(r) \/ OperatePortfolio(r) \/ Reply(r)

Next == Outside \/ \E r \in Req : Arrivals(r) \/ Progress(r)

Spec == Init /\ [][Next]_vars

-----------------------------------------------------------------------------
\* The type invariant.
TypeOK ==
    /\ access \subseteq User \X Tenant
    /\ contract \in [Tenant -> SUBSET Servico]
    /\ token \in [User -> Claims \cup {NoToken}]
    /\ entitled \in [User -> SUBSET Servico]
    /\ resolver \in {"estatico", "acesso"}
    /\ pc \in [Req -> {"idle", "resolve", "gate", "handler", "done"}]
    /\ claims \in [Req -> Claims \cup {NoToken}]
    /\ gate \in [Req -> Servico \cup {NoGate}]
    /\ ctx \in [Req -> Context \cup {NoCtx}]
    /\ accesses \in [Req -> SUBSET SUBSET Tenant]
    /\ due \in [Req -> SUBSET Servico]
    /\ seen \in [Req -> SUBSET Tenant]
    /\ operated \subseteq Req
    /\ status \in [Req -> {"none", "200", "401", "403", "500", "panic",
                           "recusado"}]

\* The users who are staff of the master root with that cargo, as the identity
\* service knows them and not as a request says.
RootStaff(u, cargo) ==
    /\ u \in User
    /\ EnvRoot \in Tenant
    /\ homeOf[u] = EnvRoot
    /\ cargoOf[u] = cargo

\* The users who are masters: whom the resolver says, or those of the master root.
MasterUser(u) == u \in Operator \/ RootStaff(u, "MASTER_IMOBO")

\* Master is earned by the user who acts, whatever token carries the request: no
\* cargo or home tenant alone, and no ids that are nil or do not parse, make one.
MasterEarned ==
    \A r \in Req : ctx[r] # NoCtx /\ ctx[r].master => MasterUser(ctx[r].actedByUser)

\* What a request may read when A is what its user has access to: the acted-as
\* tenant when there is no resolver, or when the user has no access whatever,
\* even if all of it was revoked after the token was signed.
MayRead(r, A) ==
    IF resolver = "estatico" \/ A = {} THEN {claims[r].actingAs} ELSE A

\* All that a request reads is what its user had access to at one moment between
\* its arrival and its context, never the accesses of two moments together, nor
\* the acted-as tenant beside others when it was revoked; only a master that acts
\* as its own home tenant reads more.
ReadsJustified ==
    \A r \in Req :
        \/ seen[r] = {}
        \/ \E A \in accesses[r] : seen[r] \subseteq MayRead(r, A)
        \/ MasterUser(claims[r].sub) /\ claims[r].actingAs = claims[r].home

\* The portfolio is operated by masters, even while they act as a client, and
\* by ADMIN_IMOBO users of the master root who do not.
PortfolioStaff ==
    \A r \in operated :
        \/ MasterUser(claims[r].sub)
        \/ RootStaff(claims[r].sub, "ADMIN_IMOBO") /\ claims[r].actingAs = EnvRoot

\* The handler of r runs or has run.
Ran(r) == pc[r] = "handler" \/ status[r] \in {"200", "recusado", "panic"}

\* A handler behind RequireService runs only for a tenant that had the service
\* contracted at some moment between the signing of the token and the gate,
\* whoever acts as it: a master gets no bypass, a service cancelled before the
\* token was signed is gone, and a public path fails closed.
ServiceContracted ==
    \A r \in Req :
        gate[r] # NoGate /\ Ran(r) => ctx[r] # NoCtx /\ gate[r] \in due[r]

\* "sem master-root configurado, ninguem vira master".
FailClosed ==
    masterRootTenantID = {} => \A r \in Req : ctx[r] = NoCtx \/ ~ctx[r].master

-----------------------------------------------------------------------------
(* The inductive invariant behind the properties. *)

\* What the user of a request under resolution has access to now is noted.
AccessNoted ==
    \A r \in Req :
        pc[r] = "resolve"
        => /\ claims[r] # NoToken /\ Parsed(claims[r])
           /\ AccessOf(claims[r].sub) \in accesses[r]

\* A context says what its token says, sees what there was to see at one moment,
\* and is master only if its user is.
CtxFromClaims ==
    \A r \in Req :
        ctx[r] # NoCtx
        => /\ pc[r] \in {"gate", "handler", "done"}
           /\ claims[r] # NoToken
           /\ ctx[r].actedAsTenant = claims[r].actingAs
           /\ ctx[r].actedByUser = claims[r].sub
           /\ ctx[r].home = claims[r].home
           /\ ctx[r].cargo = claims[r].cargo
           /\ ctx[r].servicos = claims[r].srv
           /\ \E A \in accesses[r] : ctx[r].visible = MayRead(r, A)
           /\ ctx[r].master => MasterUser(claims[r].sub)

\* Reads and portfolio operations were let through by the context.
WorkOfContext ==
    \A r \in Req :
        /\ seen[r] # {} => ctx[r] # NoCtx /\ seen[r] \subseteq Scope(ctx[r])
        /\ r \in operated => ctx[r] # NoCtx /\ PodeOperarCarteiraImobo(ctx[r])

\* What a token says of a real home tenant is what the identity service knows.
TrueOf(c) ==
    c # NoToken /\ c.home \in Tenant
    => c.sub \in User /\ c.home = homeOf[c.sub] /\ c.cargo = cargoOf[c.sub]
SignedTrue ==
    /\ \A u \in User : TrueOf(token[u])
    /\ \A r \in Req : TrueOf(claims[r])

\* Services are in a token only if its tenant has had them since.
ServicesSigned ==
    /\ \A u \in User : token[u] # NoToken => token[u].srv \subseteq entitled[u]
    /\ \A r \in Req : claims[r] # NoToken => claims[r].srv \subseteq due[r]

\* Past the gate, the context has the service; only a request that ended has a
\* status.
PastGate ==
    \A r \in Req :
        /\ status[r] # "none" => pc[r] = "done"
        /\ gate[r] # NoGate /\ Ran(r) => HasService(ctx[r], gate[r])

IInv ==
    /\ TypeOK
    /\ AccessNoted
    /\ CtxFromClaims
    /\ WorkOfContext
    /\ SignedTrue
    /\ ServicesSigned
    /\ PastGate
=============================================================================
