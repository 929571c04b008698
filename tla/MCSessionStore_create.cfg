SPECIFICATION Spec
CONSTANTS
    Worker = {w1, w2}
    Cli = {}
    Creator = {w1, w2}
    Request = {r1, r2, r3}
    DiskFills = FALSE
    Nothing = Nothing
SYMMETRY RequestSymmetry
CHECK_DEADLOCK FALSE
PROPERTIES
    CreatedOnce
