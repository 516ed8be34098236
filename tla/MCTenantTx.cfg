SPECIFICATION Spec
CONSTANTS
    root = root
    tA = tA
    tB = tB
    uM = uM
    uA = uA
    uB = uB
    Tenant = {root, tA, tB}
    User = {uM, uA, uB}
    Servico = {}
    Nil = Nil
    Malformed = Malformed
    EnvRoot = root
    NoCtx = NoCtx
    Req = {r1, r2}
    Conn = {c1, c2}
    Contexts <- AllContexts
    NoReq = NoReq
    NoConn = NoConn
    Unset = Unset
SYMMETRY ConnSymmetry
INVARIANTS TypeOK ReadsInScope PoolSound AuditFaithful OutcomeHonest
PROPERTIES NoCrossRequestEffect ImplementsScopedWork
CHECK_DEADLOCK FALSE
