\* Every command on all short inputs, with buffers of three bytes.
CONSTANTS
    BufSize = 3
    OutSize = 3
    LineDigits = 2
    LineWidth = 1
    Base = 2
    ByteVals = 4
    Cases <- AllCases
SPECIFICATION Spec
INVARIANTS
    HeadTailExact
    CatExact
    OdExact
    CpExact
    ChmodExact
    ChownExact
    PwdExact
    Accounted
PROPERTIES
    Terminates
