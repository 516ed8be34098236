--------------------------- MODULE TenantContext ---------------------------
(***************************************************************************)
(* The pure part of package tenantctx: the TenantContext value, the        *)
(* predicates the package derives from it, and the checks that run before  *)
(* a transaction is opened.  Identifiers are model values: a Tenant or a   *)
(* User is a UUID other than uuid.Nil.  A Go slice of tenant or service    *)
(* ids is the set of its elements, since the code only asks for membership *)
(* and emptiness.                                                          *)
(***************************************************************************)
CONSTANTS
    Tenant,     \* tenant ids that are real UUIDs
    User,       \* user ids that are real UUIDs
    Servico,    \* names of services a tenant can contract
    Nil,        \* uuid.Nil
    Malformed,  \* a string uuid.Parse rejects, or an absent one
    EnvRoot,    \* what MASTER_ROOT_TENANT_ID holds
    NoCtx       \* a context.Context without TenantContext

ASSUME IdsAssumption ==
    /\ Nil \notin Tenant \cup User
    /\ Malformed \notin Tenant \cup User \cup {Nil}
    /\ EnvRoot \in Tenant \cup {Nil, Malformed}

TenantId == Tenant \cup {Nil}
UserId == User \cup {Nil}

\* The values of the claim `cargo` that the code compares with; "GESTOR"
\* stands for every other value.
Cargo == {"MASTER_IMOBO", "ADMIN_IMOBO", "GESTOR"}

\* struct TenantContext, without the fields no predicate of the package reads
\* (Permissions, DataScope).
Context ==
    [actedAsTenant : TenantId,
     actedAsUser   : UserId,
     actedByUser   : UserId,
     home          : TenantId,
     cargo         : Cargo,
     visible       : SUBSET TenantId,
     master        : BOOLEAN,
     servicos      : SUBSET Servico]

ASSUME NoCtxAssumption == NoCtx \notin Context

-----------------------------------------------------------------------------
\* The set that holds the master root, empty when there is none: the variable
\* counts only when it parses and is not the nil UUID.
masterRootTenantID == {EnvRoot} \ {Malformed, Nil}

IsMasterRootTenant(t) == t \in masterRootTenantID

\* A mutant: single defence.
shouldPromoteEither(home, cargo) ==
    \/ IsMasterRootTenant(home)
    \/ cargo = "MASTER_IMOBO"

\* "Defesa dupla": the home tenant and the signed cargo, both.
shouldPromoteMaster(home, cargo) ==
    /\ IsMasterRootTenant(home)
    /\ cargo = "MASTER_IMOBO"

\* A mutant: a master keeps the global visibility while acting as a client.
MasterSempreGlobal(tc) == tc.master

\* Visibility over every tenant, lost while acting as another tenant.
MasterVisaoGlobal(tc) ==
    /\ tc.master
    /\ tc.actedAsTenant = tc.home

\* A mutant: an admin of any tenant.
EhAdminDeQualquer(tc) == tc.cargo = "ADMIN_IMOBO" /\ tc.actedAsTenant = tc.home

EhAdminImobo(tc) ==
    /\ tc.cargo = "ADMIN_IMOBO"
    /\ IsMasterRootTenant(tc.home)
    /\ tc.actedAsTenant = tc.home

PodeOperarCarteiraImobo(tc) == tc.master \/ EhAdminImobo(tc)

HasServico(tc, nome) == nome \in tc.servicos

\* A mutant: a master needs no contract.
HasServiceOrMaster(ctx, nome) ==
    /\ ctx # NoCtx
    /\ ctx.master \/ HasServico(ctx, nome)

\* The same over a context.Context, closed when nothing was injected.
HasService(ctx, nome) ==
    /\ ctx # NoCtx
    /\ HasServico(ctx, nome)

\* What must hold of a context before its SET LOCALs are applied.  Neither the
\* home tenant nor actedAsTenant \in visible is asked for.
validateTenantContext(tc) ==
    /\ tc.actedAsTenant # Nil
    /\ tc.actedByUser # Nil
    /\ tc.actedAsUser # Nil
    /\ tc.visible # {}
    /\ Nil \notin tc.visible

-----------------------------------------------------------------------------
\* The tenants whose rows a context gives access to, which the properties are
\* stated with: what the settings derived from it are meant to say.
Scope(c) ==
    IF c = NoCtx THEN {}
    ELSE IF MasterVisaoGlobal(c) THEN Tenant
    ELSE c.visible
=============================================================================
