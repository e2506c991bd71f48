SPECIFICATION MCSpec
CONSTANTS
    BASE = 8
    H = 16
    PAGE = 64
    INITIAL = 1
    MAXPAGES = 3
    MIN_GROW_PAGES = 1
    Sizes = {1, 20, 100}
    f1 = f1
    Addr = {kmain, k1, k2}
    kmain = kmain
    NULL = NULL
INVARIANTS HeapSound LiveKept Reclaimed   ResolveRight
PROPERTY WaitReturns
