SPECIFICATION MCSpec
CONSTANTS
    Procs = {p1, p2}
    first = p1
    FirstFd = 1
    FD_MAX = 3
    PIPE_MAX = 2
    PIPE_BUF_SIZE = 3
    MAXCALLS = 5
    Counts = {2}
    Tasks = {t1, t2}
    NoTask = NoTask
    Readers = {t1}
    Waiters = {t2}
INVARIANTS
      MaskKept PipeCounts 
PROPERTIES
     BlockedReturns
CHECK_DEADLOCK FALSE
