CONSTANTS
    s1 = s1
    s2 = s2
    n1 = n1
    NoName = NoName
    NoMiddleware = NoMiddleware
    Source <- MCSource
    Name <- MCName
SYMMETRY MCSymmetry
SPECIFICATION Spec
INVARIANTS TypeOK SourceKept ConfigKept CreatorMayContinue
