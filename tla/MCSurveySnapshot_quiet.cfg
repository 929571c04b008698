SPECIFICATION Spec
CONSTANTS
    Worker = {w1, w2}
    Form = {f1, f2, f3}
    Session = {s1, s2, s3}
    None = None
    Deploys = "quiet"
SYMMETRY SnapshotSymmetry
INVARIANTS
    TypeOK
    SnapshotNamed
    FormStays
PROPERTIES
    NewSessionUsesCurrent
