SPECIFICATION Spec
CONSTANTS
    root = root
    tA = tA
    tB = tB
    uM = uM
    uO = uO
    uA = uA
    uP = uP
    Tenant = {root, tA, tB}
    User = {uM, uO, uA, uP}
    Servico = {chatbot}
    Nil = Nil
    Malformed = Malformed
    EnvRoot = root
    NoCtx = NoCtx
    Req = {r1}
    homeOf <- HomeOf
    cargoOf <- CargoOf
    Operator = {uP}
    FirstAccess <- HomeAccess
    Movable <- Moves
    Unusual <- OddTokens
    NoToken = NoToken
    NoGate = NoGate
INVARIANTS TypeOK ReadsJustified MasterEarned PortfolioStaff ServiceContracted
CONSTRAINTS OneHolder Running
