------------------------- MODULE TenantSessionProofs -------------------------
(***************************************************************************)
(* Proofs about TenantSession, for every set of tenants, users, services   *)
(* and requests, every value of MASTER_ROOT_TENANT_ID and either resolver. *)
(***************************************************************************)
EXTENDS TenantSession, TLAPS

\* Nothing has arrived.
LEMMA InitIInv == Init => IInv
<1> SUFFICES ASSUME Init
             PROVE  IInv
  OBVIOUS
<1>1. TypeOK
  BY SessionAssumption DEF Init, TypeOK
<1>2. AccessNoted /\ CtxFromClaims /\ WorkOfContext /\ PastGate
  BY DEF Init, AccessNoted, CtxFromClaims, WorkOfContext, PastGate, Ran
<1>3. SignedTrue /\ ServicesSigned
  BY DEF Init, SignedTrue, TrueOf, ServicesSigned
<1> QED BY <1>1, <1>2, <1>3 DEF IInv

\* What contexts say of claims and accesses, a step that leaves these alone keeps.
LEMMA ContextsKept ==
  ASSUME IInv, UNCHANGED <<access, resolver, claims, ctx, accesses>>,
         \A q \in Req : pc'[q] # pc[q] => pc'[q] \in {"gate", "handler", "done"}
  PROVE  AccessNoted' /\ CtxFromClaims'
<1>1. AccessNoted'
  BY DEF IInv, AccessNoted, AccessOf, Parsed
<1>2. \A q \in Req : \A A : MayRead(q, A)' = MayRead(q, A)
  BY DEF MayRead
<1>3. CtxFromClaims'
  <2> SUFFICES ASSUME NEW q \in Req, ctx[q] # NoCtx
               PROVE  /\ pc'[q] \in {"gate", "handler", "done"}
                      /\ claims[q] # NoToken
                      /\ ctx[q].actedAsTenant = claims[q].actingAs
                      /\ ctx[q].actedByUser = claims[q].sub
                      /\ ctx[q].home = claims[q].home
                      /\ ctx[q].cargo = claims[q].cargo
                      /\ ctx[q].servicos = claims[q].srv
                      /\ \E A \in accesses[q] : ctx[q].visible = MayRead(q, A)'
                      /\ ctx[q].master => MasterUser(claims[q].sub)
    BY DEF CtxFromClaims, MasterUser, RootStaff
  <2> QED BY <1>2 DEF IInv, CtxFromClaims
<1> QED BY <1>1, <1>3

\* A row of access that comes or goes is noted by the requests that are still to
\* read the table, and changes nothing for the others.
LEMMA AccessStep ==
  ASSUME IInv, NEW u \in User, NEW t \in Tenant, Grant(u, t) \/ Revoke(u, t)
  PROVE  IInv'
<1>1. /\ Noted(u)
      /\ UNCHANGED <<contract, token, entitled, resolver, pc, claims, gate, ctx, due,
                     seen, operated, status>>
      /\ access' \subseteq User \X Tenant
      /\ \A v \in UserId : v # u => AccessOf(v)' = AccessOf(v)
  BY DEF Grant, Revoke, AccessOf, IInv, TypeOK
<1>2. AccessOf(u)' \subseteq Tenant
  BY DEF AccessOf
<1>3. \A r \in Req :
        accesses'[r] = IF pc[r] = "resolve" /\ claims[r].sub = u
                       THEN accesses[r] \cup {AccessOf(u)'} ELSE accesses[r]
  BY <1>1 DEF Noted
<1>4. TypeOK'
  <2>1. accesses' \in [Req -> SUBSET SUBSET Tenant]
    BY <1>1, <1>2 DEF Noted, IInv, TypeOK
  <2> QED BY <1>1, <2>1 DEF IInv, TypeOK
<1>5. AccessNoted'
  <2> SUFFICES ASSUME NEW r \in Req, pc[r] = "resolve"
               PROVE  AccessOf(claims[r].sub)' \in accesses'[r]
    BY <1>1 DEF IInv, AccessNoted, Parsed
  <2>1. /\ claims[r].sub \in UserId
        /\ AccessOf(claims[r].sub) \in accesses[r]
    BY DEF IInv, TypeOK, AccessNoted, Parsed, Claims
  <2>2. CASE claims[r].sub = u
    <3>1. AccessOf(claims[r].sub)' = AccessOf(u)'
      BY <1>1, <2>2 DEF AccessOf
    <3> QED BY <1>3, <2>2, <3>1
  <2>3. CASE claims[r].sub # u
    <3>1. AccessOf(claims[r].sub)' = AccessOf(claims[r].sub)
      BY <1>1, <2>1, <2>3 DEF AccessOf
    <3> QED BY <1>1, <1>3, <2>1, <2>3, <3>1
  <2> QED BY <2>2, <2>3
<1>6. CtxFromClaims'
  <2>1. \A r \in Req : accesses[r] \subseteq accesses'[r]
    BY <1>3
  <2>2. \A r \in Req, A \in SUBSET Tenant : MayRead(r, A)' = MayRead(r, A)
    BY <1>1 DEF MayRead
  <2>3. \A r \in Req : ctx[r] # NoCtx
           => \E A \in accesses'[r] : ctx[r].visible = MayRead(r, A)'
    BY <2>1, <1>1 DEF IInv, CtxFromClaims, MayRead
  <2> QED BY <1>1, <2>3 DEF IInv, CtxFromClaims, MayRead, MasterUser, RootStaff
<1>7. WorkOfContext' /\ SignedTrue' /\ SignedTrue' /\ ServicesSigned' /\ PastGate'
  BY <1>1 DEF IInv, WorkOfContext, SignedTrue, TrueOf, ServicesSigned, PastGate, Ran
<1> QED BY <1>4, <1>5, <1>6, <1>7 DEF IInv

\* A contract adds to what the tokens and requests of its tenant are due, and its
\* end takes nothing back from a token that was signed before.
LEMMA ContractStep ==
  ASSUME IInv, NEW t \in Tenant, NEW s \in Servico, Contract(t, s) \/ Cancel(t, s)
  PROVE  IInv'
<1>1. /\ UNCHANGED <<access, token, resolver, pc, claims, gate, ctx, accesses, seen,
                     operated, status>>
      /\ contract' \in [Tenant -> SUBSET Servico]
      /\ entitled' \in [User -> SUBSET Servico]
      /\ due' \in [Req -> SUBSET Servico]
  BY DEF IInv, TypeOK, Contract, Cancel, request
<1>2. /\ \A u \in User : entitled[u] \subseteq entitled'[u]
      /\ \A r \in Req : due[r] \subseteq due'[r]
  BY DEF IInv, TypeOK, Contract, Cancel, request
<1>3. TypeOK'
  BY <1>1 DEF IInv, TypeOK
<1>4. ServicesSigned'
  BY <1>1, <1>2 DEF IInv, ServicesSigned
<1>5. AccessNoted' /\ CtxFromClaims'
  BY <1>1, ContextsKept
<1>6. WorkOfContext' /\ SignedTrue' /\ PastGate'
  BY <1>1 DEF IInv, WorkOfContext, SignedTrue, TrueOf, PastGate, Ran
<1> QED BY <1>3, <1>4, <1>5, <1>6 DEF IInv

\* A token says who its user is and which services its tenant has at that moment.
LEMMA IssueStep ==
  ASSUME IInv, NEW u \in User, NEW t \in Tenant, Issue(u, t)
  PROVE  IInv'
<1> DEFINE c == [sub |-> u, home |-> homeOf[u], actingAs |-> t,
                 cargo |-> cargoOf[u], srv |-> contract[t]]
<1>1. c \in Claims
  BY SessionAssumption DEF IInv, TypeOK, Claims, UserId, TenantId
<1>2. TrueOf(c) /\ c.srv = contract[t]
  BY DEF TrueOf
<1>3. /\ token' = [token EXCEPT ![u] = c]
      /\ entitled' = [entitled EXCEPT ![u] = contract[t]]
      /\ UNCHANGED <<access, contract, resolver, pc, claims, gate, ctx, accesses, due,
                     seen, operated, status>>
  BY DEF Issue, request
<1> HIDE DEF c
<1>4. TypeOK'
  BY <1>1, <1>3 DEF IInv, TypeOK
<1>5. \A v \in User : /\ token'[v] = IF v = u THEN c ELSE token[v]
                      /\ entitled'[v] = IF v = u THEN contract[t] ELSE entitled[v]
  BY <1>3 DEF IInv, TypeOK
<1>6. ServicesSigned' /\ SignedTrue'
  <2>1. \A v \in User : TrueOf(token'[v])
    BY <1>2, <1>5 DEF IInv, SignedTrue
  <2>2. SignedTrue'
    BY <1>3, <2>1 DEF IInv, SignedTrue, TrueOf
  <2>3. ServicesSigned'
    BY <1>2, <1>3, <1>5 DEF IInv, ServicesSigned
  <2> QED BY <2>2, <2>3
<1>7. AccessNoted' /\ CtxFromClaims'
  BY <1>3, ContextsKept
<1>8. WorkOfContext' /\ PastGate'
  BY <1>3 DEF IInv, WorkOfContext, PastGate, Ran
<1> QED BY <1>4, <1>6, <1>7, <1>8 DEF IInv

\* Requests without claims stay without context.
LEMMA ArrivePublicStep ==
  ASSUME IInv, NEW r \in Req, NEW g \in Servico \cup {NoGate},
         ArrivePublic(r, g) \/ ArriveUnauthorized(r)
  PROVE  IInv'
<1>1. pc[r] = "idle" /\ ctx[r] = NoCtx /\ status[r] = "none"
  BY DEF IInv, CtxFromClaims, PastGate, ArrivePublic, ArriveUnauthorized
<1>2. TypeOK'
  BY DEF IInv, TypeOK, ArrivePublic, ArriveUnauthorized, End, world
<1>3. AccessNoted' /\ CtxFromClaims'
  <2>1. /\ UNCHANGED <<access, resolver, claims, ctx, accesses>>
        /\ \A q \in Req : pc'[q] # pc[q] => pc'[q] \in {"gate", "done"}
    BY DEF IInv, TypeOK, ArrivePublic, ArriveUnauthorized, End, world
  <2> QED BY <2>1, ContextsKept
<1>4. WorkOfContext' /\ SignedTrue' /\ ServicesSigned'
  BY DEF IInv, WorkOfContext, SignedTrue, TrueOf, ServicesSigned, ArrivePublic,
         ArriveUnauthorized, world
<1>5. PastGate'
  BY <1>1 DEF IInv, TypeOK, PastGate, Ran, ArrivePublic, ArriveUnauthorized, End, world
<1> QED BY <1>2, <1>3, <1>4, <1>5 DEF IInv

\* What its user has access to on arrival is noted, and what the tenant of its token
\* has had so far is due.
LEMMA ArriveStep ==
  ASSUME IInv, NEW r \in Req, NEW g \in Servico \cup {NoGate}, NEW c \in Tokens,
         Arrive(r, c, g)
  PROVE  IInv'
<1> DEFINE D == UNION {entitled[u] : u \in {v \in User : token[v] = c}}
<1>1. pc[r] = "idle" /\ ctx[r] = NoCtx /\ status[r] = "none"
  BY DEF IInv, CtxFromClaims, PastGate, Arrive
<1>2. c \in Claims /\ c # NoToken
  BY SessionAssumption DEF IInv, TypeOK, Tokens
<1>3. TrueOf(c) /\ c.srv \subseteq D
  <2>1. CASE c \in Unusual
    BY <2>1, SessionAssumption DEF TrueOf
  <2>2. CASE c \notin Unusual
    <3>1. PICK u \in User : token[u] = c
      BY <2>2 DEF Tokens
    <3>2. TrueOf(c) /\ c.srv \subseteq entitled[u]
      BY <1>2, <3>1 DEF IInv, SignedTrue, ServicesSigned
    <3>3. entitled[u] \subseteq D
      BY <3>1
    <3> QED BY <3>2, <3>3
  <2> QED BY <2>1, <2>2
<1>4. D \subseteq Servico /\ {AccessOf(c.sub)} \in SUBSET SUBSET Tenant
  BY DEF AccessOf, IInv, TypeOK
<1>5. /\ claims' = [claims EXCEPT ![r] = c]
      /\ gate' = [gate EXCEPT ![r] = g]
      /\ accesses' = [accesses EXCEPT ![r] = {AccessOf(c.sub)}]
      /\ due' = [due EXCEPT ![r] = D]
      /\ UNCHANGED <<world, resolver, ctx, seen, operated>>
      /\ \/ Parsed(c) /\ pc' = [pc EXCEPT ![r] = "resolve"] /\ status' = status
         \/ pc' = [pc EXCEPT ![r] = "done"] /\ status' = [status EXCEPT ![r] = "401"]
  BY DEF Arrive, End
<1> HIDE DEF D
<1>6. TypeOK'
  BY <1>2, <1>4, <1>5 DEF IInv, TypeOK, world
<1>7. \A q \in Req :
        q # r => /\ claims'[q] = claims[q] /\ pc'[q] = pc[q] /\ gate'[q] = gate[q]
                 /\ accesses'[q] = accesses[q] /\ due'[q] = due[q]
                 /\ status'[q] = status[q]
  BY <1>5 DEF IInv, TypeOK
<1>8. /\ claims'[r] = c /\ due'[r] = D /\ accesses'[r] = {AccessOf(c.sub)}
      /\ \/ Parsed(c) /\ pc'[r] = "resolve" /\ status'[r] = "none"
         \/ pc'[r] = "done" /\ status'[r] = "401"
  BY <1>1, <1>5 DEF IInv, TypeOK
<1>9. AccessNoted'
  BY <1>2, <1>5, <1>7, <1>8 DEF IInv, AccessNoted, AccessOf, Parsed, world
<1>10. CtxFromClaims'
  BY <1>1, <1>5, <1>7 DEF IInv, CtxFromClaims, MayRead, MasterUser, RootStaff
<1>11. WorkOfContext'
  BY <1>5 DEF IInv, WorkOfContext
<1>12. SignedTrue' /\ ServicesSigned'
  <2>1. \A q \in Req : TrueOf(claims'[q])
    BY <1>3, <1>7, <1>8 DEF IInv, SignedTrue
  <2>2. \A q \in Req : claims'[q] # NoToken => claims'[q].srv \subseteq due'[q]
    BY <1>3, <1>7, <1>8 DEF IInv, ServicesSigned
  <2> QED BY <1>5, <2>1, <2>2 DEF IInv, SignedTrue, TrueOf, ServicesSigned, world
<1>13. PastGate'
  BY <1>1, <1>5, <1>7, <1>8 DEF IInv, PastGate, Ran
<1> QED BY <1>6, <1>9, <1>10, <1>11, <1>12, <1>13 DEF IInv

\* The promotion makes a master only of the user who is one: claims that name the
\* master root as home are true of their user.
LEMMA PromotionEarned ==
  ASSUME NEW c \in Claims, TrueOf(c), c # NoToken,
         buildTenantContext(c, Resolve(c)).master
  PROVE  MasterUser(c.sub)
<1>1. CASE Resolve(c).isMaster
  BY <1>1 DEF Resolve, MasterUser
<1>2. CASE shouldPromoteMaster(c.home, c.cargo)
  <2>1. EnvRoot \in Tenant /\ c.home = EnvRoot /\ c.cargo = "MASTER_IMOBO"
    BY <1>2, IdsAssumption DEF shouldPromoteMaster, IsMasterRootTenant,
                               masterRootTenantID
  <2> QED BY <2>1 DEF TrueOf, MasterUser, RootStaff
<1> QED BY <1>1, <1>2 DEF buildTenantContext

\* The context is made of the claims and of accesses held at this moment.
LEMMA ResolveOkStep ==
  ASSUME IInv, NEW r \in Req, ResolveOk(r)
  PROVE  IInv'
<1> DEFINE c == claims[r]
           k == buildTenantContext(c, Resolve(c))
<1>1. /\ c \in Claims /\ Parsed(c) /\ c # NoToken /\ AccessOf(c.sub) \in accesses[r]
      /\ TrueOf(c)
      /\ ctx[r] = NoCtx /\ seen[r] = {} /\ r \notin operated /\ status[r] = "none"
  BY DEF IInv, TypeOK, AccessNoted, CtxFromClaims, WorkOfContext, SignedTrue, PastGate,
         ResolveOk
<1>2. c.sub \in UserId /\ c.home \in TenantId /\ c.actingAs \in TenantId
      /\ c.cargo \in Cargo /\ c.srv \in SUBSET Servico
  BY <1>1 DEF Claims, Parsed
<1>3. /\ k.actedAsTenant = c.actingAs /\ k.home = c.home /\ k.cargo = c.cargo
      /\ k.actedByUser = c.sub /\ k.servicos = c.srv
      /\ \E A \in accesses[r] : k.visible = MayRead(r, A)
      /\ k.master => MasterUser(c.sub)
  <2>1. k.master => MasterUser(c.sub)
    BY <1>1, PromotionEarned
  <2>2. k.visible = MayRead(r, AccessOf(c.sub))
    BY DEF buildTenantContext, Resolve, MayRead, IInv, TypeOK
  <2> QED BY <1>1, <2>1, <2>2 DEF buildTenantContext
<1>4. k \in Context /\ k # NoCtx
  <2> DEFINE v == IF Resolve(c).visible = {} THEN {c.actingAs} ELSE Resolve(c).visible
             m == Resolve(c).isMaster \/ shouldPromoteMaster(c.home, c.cargo)
  <2>1. v \in SUBSET TenantId
    BY <1>2 DEF Resolve, AccessOf, TenantId
  <2>2. m \in BOOLEAN
    OBVIOUS
  <2>3. k = [actedAsTenant |-> c.actingAs, actedAsUser |-> c.sub,
             actedByUser |-> c.sub, home |-> c.home, cargo |-> c.cargo,
             visible |-> v, master |-> m, servicos |-> c.srv]
    BY DEF buildTenantContext
  <2> HIDE DEF v, m
  <2>4. k \in Context
    BY <1>2, <2>1, <2>2, <2>3 DEF Context
  <2> QED BY <2>4, NoCtxAssumption
<1>5. /\ ctx' = [ctx EXCEPT ![r] = k] /\ pc' = [pc EXCEPT ![r] = "gate"]
      /\ UNCHANGED <<world, resolver, claims, gate, accesses, due, seen, operated, status>>
  BY DEF ResolveOk
<1>6. \A q \in Req : /\ ctx'[q] = IF q = r THEN k ELSE ctx[q]
                     /\ pc'[q] = IF q = r THEN "gate" ELSE pc[q]
  BY <1>5 DEF IInv, TypeOK
<1> HIDE DEF k
<1>7. TypeOK'
  BY <1>4, <1>5 DEF IInv, TypeOK, world
<1>8. AccessNoted'
  BY <1>5, <1>6 DEF IInv, AccessNoted, AccessOf, world
<1>9. CtxFromClaims'
  <2>1. \A q \in Req : \A A : MayRead(q, A)' = MayRead(q, A)
    BY <1>5 DEF MayRead
  <2>2. \A q \in Req : pc'[q] # pc[q] => q = r
    BY <1>6
  <2>3. CtxFromClaims
    BY DEF IInv
  <2> QED BY <1>1, <1>3, <1>5, <1>6, <2>1, <2>3 DEF CtxFromClaims, MasterUser, RootStaff
<1>10. WorkOfContext'
  BY <1>1, <1>5, <1>6 DEF IInv, WorkOfContext
<1>11. SignedTrue' /\ ServicesSigned'
  BY <1>5 DEF IInv, SignedTrue, TrueOf, ServicesSigned, world
<1>12. PastGate'
  BY <1>1, <1>5, <1>6 DEF IInv, PastGate, Ran
<1> QED BY <1>7, <1>8, <1>9, <1>10, <1>11, <1>12 DEF IInv

LEMMA ResolveErrStep ==
  ASSUME IInv, NEW r \in Req, ResolveErr(r)
  PROVE  IInv'
<1>1. TypeOK'
  BY DEF IInv, TypeOK, ResolveErr, End, world
<1>2. AccessNoted' /\ CtxFromClaims'
  <2>1. /\ UNCHANGED <<access, resolver, claims, ctx, accesses>>
        /\ \A q \in Req : pc'[q] # pc[q] => pc'[q] = "done"
    BY DEF IInv, TypeOK, ResolveErr, End, world
  <2> QED BY <2>1, ContextsKept
<1>3. WorkOfContext' /\ SignedTrue' /\ ServicesSigned'
  BY DEF IInv, WorkOfContext, SignedTrue, TrueOf, ServicesSigned, ResolveErr, world
<1>4. PastGate'
  BY DEF IInv, TypeOK, PastGate, Ran, ResolveErr, End, world
<1> QED BY <1>1, <1>2, <1>3, <1>4 DEF IInv

\* Only a context with the service gets past the gate.
LEMMA RequireServiceStep ==
  ASSUME IInv, NEW r \in Req, RequireService(r)
  PROVE  IInv'
<1>1. TypeOK'
  BY DEF IInv, TypeOK, RequireService, End, world
<1>2. AccessNoted' /\ CtxFromClaims'
  <2>1. /\ UNCHANGED <<access, resolver, claims, ctx, accesses>>
        /\ \A q \in Req : pc'[q] # pc[q] => pc'[q] \in {"handler", "done"}
    BY DEF IInv, TypeOK, RequireService, End, world
  <2> QED BY <2>1, ContextsKept
<1>3. WorkOfContext' /\ SignedTrue' /\ ServicesSigned'
  BY DEF IInv, WorkOfContext, SignedTrue, TrueOf, ServicesSigned, RequireService, world
<1>4. PastGate'
  BY DEF IInv, TypeOK, PastGate, Ran, RequireService, End, world
<1> QED BY <1>1, <1>2, <1>3, <1>4 DEF IInv

\* What the handler does, it does with its context.
LEMMA HandlerStep ==
  ASSUME IInv, NEW r \in Req,
         MustFromPanic(r) \/ Read(r) \/ OperatePortfolio(r) \/ Reply(r)
  PROVE  IInv'
<1>1. /\ pc[r] = "handler"
      /\ UNCHANGED <<world, resolver, claims, gate, ctx, accesses, due>>
  BY DEF MustFromPanic, Read, OperatePortfolio, Reply
<1>2. /\ pc' \in {pc, [pc EXCEPT ![r] = "done"]}
      /\ pc' = pc => status' = status
      /\ pc' # pc => \E s \in {"200", "panic", "recusado"} :
                        status' = [status EXCEPT ![r] = s]
  BY <1>1 DEF MustFromPanic, Read, OperatePortfolio, Reply, End, IInv, TypeOK
<1>3. \A q \in Req :
        /\ seen'[q] # seen[q] => /\ ctx[q] # NoCtx
                                 /\ seen'[q] = seen[q] \cup Scope(ctx[q])
                                 /\ validateTenantContext(ctx[q])
        /\ q \in operated' \ operated => ctx[q] # NoCtx /\ PodeOperarCarteiraImobo(ctx[q])
  BY DEF MustFromPanic, Read, OperatePortfolio, Reply, IInv, TypeOK
<1>4. TypeOK'
  <2>1. seen' \in [Req -> SUBSET Tenant]
    <3>1. validateTenantContext(ctx[r]) /\ ctx[r] # NoCtx => Scope(ctx[r]) \subseteq Tenant
      BY DEF IInv, TypeOK, Scope, validateTenantContext, Context, TenantId
    <3> QED BY <3>1 DEF MustFromPanic, Read, OperatePortfolio, Reply, IInv, TypeOK
  <2>2. operated' \subseteq Req
    BY DEF MustFromPanic, Read, OperatePortfolio, Reply, IInv, TypeOK
  <2> QED BY <1>1, <1>2, <2>1, <2>2 DEF IInv, TypeOK, world
<1>5. AccessNoted' /\ CtxFromClaims'
  <2>1. /\ UNCHANGED <<access, resolver, claims, ctx, accesses>>
        /\ \A q \in Req : pc'[q] # pc[q] => pc'[q] = "done"
    BY <1>1, <1>2 DEF IInv, TypeOK, world
  <2> QED BY <2>1, ContextsKept
<1>6. SignedTrue' /\ ServicesSigned'
  BY <1>1 DEF IInv, SignedTrue, TrueOf, ServicesSigned, world
<1>7. WorkOfContext'
  BY <1>1, <1>3 DEF IInv, WorkOfContext
<1>8. PastGate'
  BY <1>1, <1>2 DEF IInv, TypeOK, PastGate, Ran
<1> QED BY <1>4, <1>5, <1>6, <1>7, <1>8 DEF IInv

LEMMA NextIInv == IInv /\ [Next]_vars => IInv'
<1> SUFFICES ASSUME IInv, [Next]_vars
             PROVE  IInv'
  OBVIOUS
<1>1. CASE Outside
  BY <1>1, AccessStep, IssueStep, ContractStep DEF Outside
<1>2. ASSUME NEW r \in Req, Arrivals(r)
      PROVE  IInv'
  BY <1>2, ArrivePublicStep, ArriveStep DEF Arrivals
<1>3. ASSUME NEW r \in Req, Progress(r)
      PROVE  IInv'
  BY <1>3, ResolveOkStep, ResolveErrStep, RequireServiceStep, HandlerStep DEF Progress
<1>4. CASE UNCHANGED vars
  <2>1. AccessNoted' /\ CtxFromClaims'
    BY <1>4, ContextsKept DEF vars
  <2> QED BY <1>4, <2>1 DEF vars, IInv, TypeOK, WorkOfContext, SignedTrue, TrueOf,
                            ServicesSigned, PastGate, Ran
<1> QED BY <1>1, <1>2, <1>3, <1>4 DEF Next

THEOREM Invariance == Spec => []IInv
BY InitIInv, NextIInv, PTL DEF Spec

\* No step leaves the types.
THEOREM TypeCorrect == Spec => []TypeOK
<1>1. IInv => TypeOK
  BY DEF IInv
<1> QED BY <1>1, Invariance, PTL

\* Only users who are masters act as masters, whatever their tokens say.
THEOREM PromotionSafe == Spec => []MasterEarned
<1>1. IInv => MasterEarned
  BY DEF IInv, CtxFromClaims, MasterEarned
<1> QED BY <1>1, Invariance, PTL

\* A request reads what its user had access to at one moment, the acted-as tenant
\* when that was nothing, or everything as a master at home.
THEOREM AccessControl == Spec => []ReadsJustified
<1>1. ASSUME IInv PROVE ReadsJustified
  <2> SUFFICES ASSUME NEW r \in Req, seen[r] # {}
               PROVE  \/ \E A \in accesses[r] : seen[r] \subseteq MayRead(r, A)
                      \/ MasterUser(claims[r].sub) /\ claims[r].actingAs = claims[r].home
    BY DEF ReadsJustified
  <2>1. ctx[r] # NoCtx /\ seen[r] \subseteq Scope(ctx[r])
    BY <1>1 DEF IInv, WorkOfContext
  <2>2. CASE MasterVisaoGlobal(ctx[r])
    BY <1>1, <2>1, <2>2 DEF IInv, CtxFromClaims, MasterVisaoGlobal
  <2>3. CASE ~MasterVisaoGlobal(ctx[r])
    BY <1>1, <2>1, <2>3 DEF IInv, CtxFromClaims, Scope
  <2> QED BY <2>2, <2>3
<1> QED BY <1>1, Invariance, PTL

\* The portfolio is operated by its staff only.
THEOREM PortfolioControl == Spec => []PortfolioStaff
<1>1. ASSUME IInv PROVE PortfolioStaff
  <2> SUFFICES ASSUME NEW r \in operated
               PROVE  \/ MasterUser(claims[r].sub)
                      \/ /\ RootStaff(claims[r].sub, "ADMIN_IMOBO")
                         /\ claims[r].actingAs = EnvRoot
    BY DEF PortfolioStaff
  <2>1. r \in Req /\ ctx[r] # NoCtx /\ PodeOperarCarteiraImobo(ctx[r])
    BY <1>1 DEF IInv, TypeOK, WorkOfContext
  <2>2. CASE ctx[r].master
    BY <1>1, <2>1, <2>2 DEF IInv, CtxFromClaims
  <2>3. CASE EhAdminImobo(ctx[r])
    <3>1. /\ claims[r].cargo = "ADMIN_IMOBO" /\ claims[r].home = EnvRoot
          /\ claims[r].actingAs = EnvRoot /\ EnvRoot \in Tenant
      BY <1>1, <2>1, <2>3, IdsAssumption
         DEF IInv, CtxFromClaims, EhAdminImobo, IsMasterRootTenant, masterRootTenantID
    <3>2. TrueOf(claims[r]) /\ claims[r] # NoToken
      BY <1>1, <2>1 DEF IInv, SignedTrue, CtxFromClaims
    <3> QED BY <3>1, <3>2 DEF TrueOf, RootStaff
  <2> QED BY <2>1, <2>2, <2>3 DEF PodeOperarCarteiraImobo
<1> QED BY <1>1, Invariance, PTL

\* Entitlement: no handler behind the gate runs for a tenant that had no contract
\* for its service between the signing of the token and the gate.
THEOREM Entitlement == Spec => []ServiceContracted
<1>1. ASSUME IInv PROVE ServiceContracted
  <2> SUFFICES ASSUME NEW r \in Req, gate[r] # NoGate, Ran(r)
               PROVE  ctx[r] # NoCtx /\ gate[r] \in due[r]
    BY DEF ServiceContracted
  <2>1. HasService(ctx[r], gate[r])
    BY <1>1 DEF IInv, PastGate
  <2>2. ctx[r] # NoCtx /\ gate[r] \in claims[r].srv /\ claims[r] # NoToken
    BY <1>1, <2>1 DEF IInv, CtxFromClaims, HasService, HasServico
  <2> QED BY <1>1, <2>2 DEF IInv, ServicesSigned
<1> QED BY <1>1, Invariance, PTL
=============================================================================
