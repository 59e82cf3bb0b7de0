CONSTANTS
    Key = {k1, k2}
    Value = {v1, v2}
    Absent = Absent
    MaxItems = 4
SPECIFICATION Spec
INVARIANTS TypeOK MapIsLastWrites
PROPERTIES ImplementsPrefixStore
CHECK_DEADLOCK FALSE
SYMMETRY StoreSymmetry
