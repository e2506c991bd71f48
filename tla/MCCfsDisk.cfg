CONSTANTS
    Home = {h1, h2, h3}
    Data = {d1, d2}
    Torn = Torn
    Unknown = Unknown
    MAX_TXN = 2
    JBLOCKS = 4
    IOErrors = "failstop"
    Formatted <- MCFormatted
    n1 = n1
    n2 = n2
    x = x
SPECIFICATION MCSpec
SYMMETRY MCSymmetry
INVARIANTS JournalInv AckedSurvives SoundDiskReads ThroughSurvives
INVARIANTS RepairCleans RepairConverges RepairNeverFrees
PROPERTY ImplementsAtomicStore
