SPECIFICATION Spec
CONSTANTS
    kmain = kmain
    NULL = NULL
    Addr = {kmain, a}
    MAXID = 1
    Preempt = FALSE
SYMMETRY MCSymmetry
INVARIANT RunCollects
