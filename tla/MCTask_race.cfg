SPECIFICATION Spec
CONSTANTS
    kmain = kmain
    NULL = NULL
    Addr = {kmain, a, b}
    MAXID = 2
    Preempt = TRUE
SYMMETRY MCSymmetry
INVARIANT WaitComplete
