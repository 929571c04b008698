SPECIFICATION Spec
CONSTANTS
    Worker = {w1, w2, w3}
    Cli = {}
    Creator = {w1}
    Request = {r1, r2, r3, r4, r5}
    DiskFills = FALSE
    Nothing = Nothing
SYMMETRY RequestSymmetry
CHECK_DEADLOCK FALSE
INVARIANTS
    NoLostUpdate
    FinalIsWhole
PROPERTIES
    ClosedIsFinal
    ImplementsRegister
