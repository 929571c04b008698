SPECIFICATION Spec
CONSTANTS
    Worker = {w1, w2}
    Cli = {c1}
    Creator = {w1, w2}
    Request = {r1, r2, r3}
    DiskFills = TRUE
    Nothing = Nothing
CHECK_DEADLOCK FALSE
INVARIANTS
    TypeOK
    OneWorkerInside
PROPERTIES
    RequestsEnd
