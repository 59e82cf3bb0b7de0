CONSTANTS
    Node = {n1, n2, n3}
    None = None
    MaxTerm = 2
SPECIFICATION Spec
INVARIANTS TypeOK AtMostOneLeaderPerTerm OneVotePerTerm
PROPERTIES NothingTakenBack
CHECK_DEADLOCK FALSE
SYMMETRY NodeSymmetry
