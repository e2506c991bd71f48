SPECIFICATION PartSpec
CONSTANTS
    n1 = n1
    n2 = n2
    v1 = v1
    v2 = v2
    Torn = Torn
    Name = {n1, n2}
    Value = {v1, v2}
    NINODES = 3
    NBLOCKS = 5
    DIRCAP = 3
    MAXEXT = 1
    MAXBLKS = 2
    MAXDRIFT = 1
    PowerLoss = TRUE
SYMMETRY MCSymmetry
VIEW PartView
INVARIANTS
    TypesOK SoundVolume OthersIntact
    Accounting TreeKept
