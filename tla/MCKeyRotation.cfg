SPECIFICATION FairSpec
CONSTANTS
    Raw <- RawSet
    Key <- KeySet
    KeyId <- Ids
    Plain = {"p", "q"}
    derivaChave <- Derived
    keyID <- IdOf
    partes <- Parts
    Fraca = Fraca
    NoId = NoId
    NoPlain = NoPlain
    NoRing = NoRing
    Instance = {i1, i2}
    Slot = {s1, s2}
    Configs <- FleetConfigs
    Initial <- FirstConfig
    Down = Down
    NoBlob = NoBlob
INVARIANTS TypeOK Readable RingOpens OldCodeReads
PROPERTIES RotationEnds ImplementsSecretStore
