CONSTANTS
    Address = {a1, a2}
    Amount = {0, 1}
    Width = 2
    MaxApplied = 3
    Nil = Nil
    MaxHeight = 3
SPECIFICATION ChainSpec
INVARIANTS ChainTypeOK OrderlyRestart LinkedUnlessCut StoreUsable OnceUnlessCut
CHECK_DEADLOCK FALSE
SYMMETRY AddressSymmetry
