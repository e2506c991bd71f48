SPECIFICATION MCSpec
SYMMETRY MCSymmetry
CONSTANTS
    Tasks = {t1, t2}
    Addr = {kmain, k1, k2}
    kmain = kmain
    NULL = NULL
    MAXID = 3
    Preempt = TRUE
INVARIANTS
     
    ListsSound CpuSound NoLostWakeup CollectedOnce 
