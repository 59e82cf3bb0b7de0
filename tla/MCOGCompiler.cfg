SPECIFICATION Spec
CONSTANTS
    MaxLiteral = 511
    Pool <- MCPool
    Inputs <- MCInputs
    Width = 10
    StackSlots = 40
    MaxOrdered = 4
    MaxSteps = 400
    Fuel = 20
INVARIANTS
    TypeOK
    ParsesBack
    OrderSound
    ColouringSound
    AcceptedIsCompiled
PROPERTY
    CompiledRight
