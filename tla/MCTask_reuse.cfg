SPECIFICATION Spec
CONSTANTS
    kmain = kmain
    NULL = NULL
    Addr = {kmain, a, b, c}
    MAXID = 4
    Preempt = FALSE
SYMMETRY MCSymmetry
INVARIANT WaitOwn
