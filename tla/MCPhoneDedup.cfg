SPECIFICATION Spec
CONSTANTS
    Line <- Lines
    Carrier <- Carriers
INVARIANTS OneCardPerLine LinesKeptApart MesmoFindsStored WarnsOfOneDigit SendableIsStable
