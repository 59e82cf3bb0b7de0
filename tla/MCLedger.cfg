CONSTANTS
    Address = {a1, a2, a3}
    Amount = {0, 1, 3}
    Width = 2
    MaxApplied = 3
SPECIFICATION LedgerSpec
INVARIANTS AppliedInNonceOrder
PROPERTIES SupplyConserved
CHECK_DEADLOCK FALSE
SYMMETRY AddressSymmetry
