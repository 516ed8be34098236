SPECIFICATION Spec
CONSTANTS
    root = root
    tA = tA
    tB = tB
    uM = uM
    uO = uO
    uA = uA
    uP = uP
    Tenant = {root, tA, tB}
    User = {uA, uP}
    Servico = {}
    Nil = Nil
    Malformed = Malformed
    EnvRoot = Nil
    NoCtx = NoCtx
    Req = {r1}
    homeOf <- HomeOf
    cargoOf <- CargoOf
    Operator = {uP}
    FirstAccess <- HomeAccess
    Movable <- Moves
    Unusual <- OddTokens
    NoToken = NoToken
    NoGate = NoGate
INVARIANT FailClosed
