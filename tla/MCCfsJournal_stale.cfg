CONSTANTS
    Home = {h1, h2, h3}
    Data = {d1, d2}
    Torn = Torn
    Unknown = Unknown
    MAX_TXN = 2
    JBLOCKS = 4
    IOErrors = "failstop"
    Formatted <- MCFormatted
SPECIFICATION Spec
SYMMETRY MCSymmetry
INVARIANTS ReadsMatchStore
