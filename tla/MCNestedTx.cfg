SPECIFICATION NestedFairSpec
CONSTANTS
    tA = tA
    uA = uA
    Tenant = {tA, tB}
    User = {uA}
    Servico = {}
    Nil = Nil
    Malformed = Malformed
    EnvRoot = Malformed
    NoCtx = NoCtx
    e1 = e1
    e2 = e2
    i1 = i1
    Req = {e1, e2, i1}
    Conn = {c1}
    Contexts <- TwoContexts
    Outer <- OuterOf
    Deadline = {i1}
    NoReq = NoReq
    NoConn = NoConn
    Unset = Unset
PROPERTY EveryCallReturns
CHECK_DEADLOCK FALSE
