-------------------------------- MODULE Fdt --------------------------------
(***************************************************************************)
(* The descriptor tables and pipes of src/linux_syscall.c: close, pipe,    *)
(* eventfd, dup, dup2, dup3, fcntl, lseek, fork, execve and exit, and      *)
(* reading and writing a pipe.  Files are the subject of Files, sockets    *)
(* of Net; here every descriptor that is not a pipe is "tty".              *)
(*                                                                         *)
(* A system call runs with interrupts off (SFMASK clears IF), so it is one *)
(* step, except that pipe_read and pipe_write give up the processor in     *)
(* yield() while the pipe is empty or full.                                *)
(***************************************************************************)
EXTENDS Naturals, FiniteSets, FiniteSetsExt

CONSTANTS
    Procs,          \* processes
    first,          \* the process that runs at the start
    FirstFd,        \* the lowest descriptor fd_alloc hands out (3)
    FD_MAX,         \* 64
    PIPE_MAX,       \* 16
    PIPE_BUF_SIZE,  \* 4096
    MAXCALLS,       \* bound on the calls the processes make
    Counts          \* the counts programs pass to read and write

ASSUME FdtAssumption ==
    /\ IsFiniteSet(Procs) /\ first \in Procs
    /\ FirstFd \in Nat /\ FD_MAX \in Nat
    /\ PIPE_MAX \in Nat \ {0} /\ PIPE_BUF_SIZE \in Nat \ {0}
    /\ Counts \subseteq Nat

Fds   == 0..FD_MAX-1
Pipes == 0..PIPE_MAX-1

VARIABLES
    fdt,        \* per process, its table
    pipe,       \* pipe_pool
    live,       \* processes that have started and not exited
    op,         \* per process, the read or write of a pipe it is in
    sent, got,  \* history: per pipe, the bytes written to it and read from it
    stray,      \* history: pipes whose counts an eventfd or lseek has upset
    calls       \* the calls so far, for the bound

vars == <<fdt, pipe, live, op, sent, got, stray, calls>>

-----------------------------------------------------------------------------
(* A descriptor: its FD_FLAG_ kind, the pipe index kept in its
   offset field, and FD_FLAG_CLOEXEC.  The kind "rw" is an eventfd, whose one
   descriptor carries FD_FLAG_PIPE_R and FD_FLAG_PIPE_W. *)
Kinds == {"free", "tty", "r", "w", "rw"}
Entry(k, i, c) == [kind |-> k, offset |-> i, cloexec |-> c]
Free  == Entry("free", 0, 0)
fdt_new == [fd \in Fds |-> IF fd < FirstFd THEN Entry("tty", 0, 0) ELSE Free]

REnds == {"r", "rw"}
WEnds == {"w", "rw"}
IsR(e) == e.kind \in REnds
IsW(e) == e.kind \in WEnds
IsPipe(e) == IsR(e) \/ IsW(e)

Unused(t, low) == {fd \in Fds : fd >= low /\ t[fd].kind = "free"}
fd_valid(p, fd) == fdt[p][fd].kind # "free"

Idle == [call |-> "idle", pipe |-> 0, left |-> 0, count |-> 0]
pipe_new == [read_open |-> 1, write_open |-> 1, head |-> 0, tail |-> 0, used |-> 0,
             buf |-> [k \in 0..PIPE_BUF_SIZE-1 |-> 0]]
pipe_unused == [pipe_new EXCEPT !.read_open = 0, !.write_open = 0]

Runs(p) == p \in live /\ op[p] = Idle

Init ==
    /\ fdt = [p \in Procs |-> fdt_new]
    /\ pipe = [i \in Pipes |-> pipe_unused]
    /\ live = {first}
    /\ op = [p \in Procs |-> Idle]
    /\ sent = [i \in Pipes |-> 0]
    /\ got = [i \in Pipes |-> 0]
    /\ stray = {}
    /\ calls = 0

-----------------------------------------------------------------------------
(* The reference counts of a pipe.  Each caller treats an eventfd in its own
   way: fork and fcntl count both ends, the others only the read end. *)

Less(n) == IF n = 0 THEN 0 ELSE n - 1

DropRef(q, e) ==
    CASE IsR(e) -> [q EXCEPT ![e.offset].read_open = Less(@)]
      [] e.kind = "w" -> [q EXCEPT ![e.offset].write_open = Less(@)]
      [] OTHER -> q

AddRef(q, e) ==
    CASE IsR(e) -> [q EXCEPT ![e.offset].read_open = @ + 1]
      [] e.kind = "w" -> [q EXCEPT ![e.offset].write_open = @ + 1]
      [] OTHER -> q

AddBothRefs(q, e) ==
    IF ~IsPipe(e) THEN q
    ELSE [q EXCEPT ![e.offset].read_open = @ + (IF IsR(e) THEN 1 ELSE 0),
                   ![e.offset].write_open = @ + (IF IsW(e) THEN 1 ELSE 0)]

(* The release of several descriptors of one table, which only subtracts from
   counts, so that its order does not matter. *)
Ends(t, S, i, kinds) == {fd \in S : t[fd].kind \in kinds /\ t[fd].offset = i}
Number(t, S, i, kinds) == Cardinality(Ends(t, S, i, kinds))
Minus(n, k) == IF k > n THEN 0 ELSE n - k

DropRefs(q, t, S) ==
    [i \in Pipes |-> [q[i] EXCEPT !.read_open = Minus(@, Number(t, S, i, REnds)),
                                  !.write_open = Minus(@, Number(t, S, i, {"w"}))]]

(* fd_close_entry on the descriptors S of p's table. *)
fd_close_entries(p, S) == pipe' = DropRefs(pipe, fdt[p], S)

-----------------------------------------------------------------------------
(* Calls that make descriptors. *)

ClosedPipes == {i \in Pipes : pipe[i].read_open = 0 /\ pipe[i].write_open = 0}
pipe_alloc == Min(ClosedPipes)

(* pipe() takes a slot first; when it cannot get two descriptors, or cannot
   write their numbers to the caller, it gives everything back. *)
sys_linux_pipe(p, cx) ==
    /\ ClosedPipes # {}
    /\ LET i == pipe_alloc
           free == Unused(fdt[p], FirstFd)
           rfd == Min(free)
           wfd == Min(free \ {rfd}) IN
       /\ \/ /\ Cardinality(free) >= 2
             /\ pipe' = [pipe EXCEPT ![i] = pipe_new]
             /\ fdt' = [fdt EXCEPT ![p][rfd] = Entry("r", i, cx), ![p][wfd] = Entry("w", i, cx)]
          \/ /\ pipe' = [pipe EXCEPT ![i] = pipe_unused]
             /\ UNCHANGED fdt
       /\ sent' = [sent EXCEPT ![i] = 0]
       /\ got' = [got EXCEPT ![i] = 0]
    /\ UNCHANGED <<live, op, stray>>

sys_linux_eventfd(p) ==
    /\ ClosedPipes # {}
    /\ LET i == pipe_alloc
           free == Unused(fdt[p], FirstFd) IN
       /\ pipe' = [pipe EXCEPT ![i] = IF free = {} THEN pipe_unused ELSE pipe_new]
       /\ fdt' = IF free = {} THEN fdt ELSE [fdt EXCEPT ![p][Min(free)] = Entry("rw", i, 0)]
       /\ stray' = IF free = {} THEN stray ELSE stray \cup {i}
       /\ sent' = [sent EXCEPT ![i] = 0]
       /\ got' = [got EXCEPT ![i] = 0]
    /\ UNCHANGED <<live, op>>

-----------------------------------------------------------------------------
(* Calls that copy, move and release descriptors. *)

sys_linux_dup(p, old) ==
    /\ fd_valid(p, old)
    /\ Unused(fdt[p], FirstFd) # {}
    /\ fdt' = [fdt EXCEPT ![p][Min(Unused(fdt[p], FirstFd))] = [fdt[p][old] EXCEPT !.cloexec = 0]]
    /\ pipe' = AddRef(pipe, fdt[p][old])
    /\ UNCHANGED <<live, op, sent, got, stray>>

(* dup2, and dup3 when cx is set. *)
sys_linux_dup2(p, old, new, cx) ==
    /\ fd_valid(p, old)
    /\ new # old
    /\ fdt' = [fdt EXCEPT ![p][new] = [fdt[p][old] EXCEPT !.cloexec = cx]]
    /\ pipe' = AddRef(DropRef(pipe, fdt[p][new]), fdt[p][old])
    /\ UNCHANGED <<live, op, sent, got, stray>>

(* fcntl: F_DUPFD and F_DUPFD_CLOEXEC from descriptor low on, and F_SETFD. *)
fcntl_dupfd(p, fd, low, cx) ==
    /\ fd_valid(p, fd)
    /\ Unused(fdt[p], low) # {}
    /\ fdt' = [fdt EXCEPT ![p][Min(Unused(fdt[p], low))] = [fdt[p][fd] EXCEPT !.cloexec = cx]]
    /\ pipe' = AddBothRefs(pipe, fdt[p][fd])
    /\ UNCHANGED <<live, op, sent, got, stray>>

fcntl_setfd(p, fd, cx) ==
    /\ fd_valid(p, fd)
    /\ fdt' = [fdt EXCEPT ![p][fd].cloexec = cx]
    /\ UNCHANGED <<pipe, live, op, sent, got, stray>>

(* lseek does not look at the kind of the descriptor: on a pipe or an eventfd
   it overwrites the index.  The indices it can be made to point to
   are those of the pool. *)
sys_linux_lseek(p, fd, off) ==
    /\ IsPipe(fdt[p][fd])
    /\ off \in Pipes
    /\ fdt' = [fdt EXCEPT ![p][fd].offset = off]
    /\ stray' = stray \cup {off, fdt[p][fd].offset}
    /\ UNCHANGED <<pipe, live, op, sent, got>>

sys_linux_close(p, fd) ==
    /\ fd_valid(p, fd)
    /\ fd_close_entries(p, {fd})
    /\ fdt' = [fdt EXCEPT ![p][fd] = Free]
    /\ UNCHANGED <<live, op, sent, got, stray>>

(* Mutant: the child's pipe ends are not counted. *)
linux_fdt_clone_Uncounted(p, c) == fdt' = [fdt EXCEPT ![c] = fdt[p]] /\ UNCHANGED pipe

(* fork: the child has a copy of the table, or, when there is no memory for
   one, starts with the descriptors of a new table. *)
linux_fdt_clone(p, c) ==
    \/ /\ fdt' = [fdt EXCEPT ![c] = fdt[p]]
       /\ pipe' = [i \in Pipes |->
              [pipe[i] EXCEPT !.read_open = @ + Number(fdt[p], Fds, i, REnds),
                              !.write_open = @ + Number(fdt[p], Fds, i, WEnds)]]
    \/ /\ fdt' = [fdt EXCEPT ![c] = fdt_new]
       /\ UNCHANGED pipe

sys_linux_fork(p, c) ==
    /\ c \notin live
    /\ live' = live \cup {c}
    /\ linux_fdt_clone(p, c)
    /\ UNCHANGED <<op, sent, got, stray>>

OnExec(t) == {fd \in Fds : fd >= FirstFd /\ t[fd].kind # "free" /\ t[fd].cloexec = 1}

(* A successful execve closes what is marked, from FirstFd up. *)
fdt_close_on_exec(p) ==
    /\ fdt' = [fdt EXCEPT ![p] = [fd \in Fds |-> IF fd \in OnExec(fdt[p]) THEN Free ELSE fdt[p][fd]]]
    /\ fd_close_entries(p, OnExec(fdt[p]))

sys_linux_execve(p) ==
    /\ fdt_close_on_exec(p)
    /\ UNCHANGED <<live, op, sent, got, stray>>

(* Exit: every descriptor is closed and the table is freed. *)
linux_fdt_release(p) ==
    /\ Runs(p)
    /\ fd_close_entries(p, Fds)
    /\ fdt' = [fdt EXCEPT ![p] = fdt_new]
    /\ live' = live \ {p}
    /\ UNCHANGED <<op, sent, got, stray, calls>>

-----------------------------------------------------------------------------
(* Reading and writing a pipe.  Neither looks at which end it was given. *)

fd_read_any(p, fd, n) ==
    /\ IsPipe(fdt[p][fd])
    /\ n > 0
    /\ op' = [op EXCEPT ![p] = [call |-> "read", pipe |-> fdt[p][fd].offset, left |-> n, count |-> n]]
    /\ UNCHANGED <<fdt, pipe, live, sent, got, stray>>

fd_write_any(p, fd, n) ==
    /\ IsPipe(fdt[p][fd])
    /\ n > 0
    /\ op' = [op EXCEPT ![p] = [call |-> "write", pipe |-> fdt[p][fd].offset, left |-> n, count |-> n]]
    /\ UNCHANGED <<fdt, pipe, live, sent, got, stray>>

Taken(q, n) == [q EXCEPT !.head = (@ + n) % PIPE_BUF_SIZE, !.used = @ - n]

(* Mutant: the read end waits although no writer is left. *)
pipe_read_NoEof(p) ==
    /\ op[p].call = "read"
    /\ LET i == op[p].pipe
           n == Min({op[p].left, pipe[i].used}) IN
       /\ pipe[i].used > 0
       /\ pipe' = [pipe EXCEPT ![i] = Taken(@, n)]
       /\ got' = [got EXCEPT ![i] = @ + n]
    /\ op' = [op EXCEPT ![p] = Idle]
    /\ UNCHANGED <<fdt, live, sent, stray, calls>>

(* The step of pipe_read that finds bytes, or that no writer is left.  While
   neither is so it yields, and nothing changes. *)
pipe_read(p) ==
    /\ op[p].call = "read"
    /\ LET i == op[p].pipe
           n == Min({op[p].left, pipe[i].used}) IN
       /\ pipe[i].used > 0 \/ pipe[i].write_open = 0
       /\ pipe' = [pipe EXCEPT ![i] = Taken(@, n)]
       /\ got' = [got EXCEPT ![i] = @ + n]
    /\ op' = [op EXCEPT ![p] = Idle]
    /\ UNCHANGED <<fdt, live, sent, stray, calls>>

(* Mutant: bytes past the end of the ring are stored at its end. *)
Put_NoWrap(q, b, n) ==
    [q EXCEPT !.buf = [k \in DOMAIN q.buf |->
                          IF k >= q.tail /\ k - q.tail < n THEN b + k - q.tail ELSE q.buf[k]],
              !.tail = (@ + n) % PIPE_BUF_SIZE,
              !.used = @ + n]

(* The bytes of a pipe are numbered in the order they are written. *)
Put(q, b, n) ==
    [q EXCEPT !.buf = [k \in DOMAIN q.buf |->
                          LET d == (k + PIPE_BUF_SIZE - q.tail) % PIPE_BUF_SIZE IN
                          IF d < n THEN b + d ELSE q.buf[k]],
              !.tail = (@ + n) % PIPE_BUF_SIZE,
              !.used = @ + n]

Room(i) == PIPE_BUF_SIZE - pipe[i].used

(* A turn of pipe_write: without a reader it ends, with what it has written or
   with EPIPE; otherwise it fills the room there is, and ends once everything is
   written. *)
pipe_write(p) ==
    /\ op[p].call = "write"
    /\ LET i == op[p].pipe
           n == IF pipe[i].read_open = 0 THEN 0 ELSE Min({op[p].left, Room(i)})
           end == pipe[i].read_open = 0 \/ n = op[p].left IN
       /\ n > 0 \/ end
       /\ pipe' = [pipe EXCEPT ![i] = Put(@, sent[i], n)]
       /\ sent' = [sent EXCEPT ![i] = @ + n]
       /\ op' = [op EXCEPT ![p] = IF end THEN Idle ELSE [op[p] EXCEPT !.left = @ - n]]
    /\ UNCHANGED <<fdt, live, got, stray, calls>>

Resume(p) == pipe_read(p) \/ pipe_write(p)

-----------------------------------------------------------------------------
(* A program that is not in a call makes one. *)
Call(p) ==
    /\ Runs(p) /\ calls < MAXCALLS /\ calls' = calls + 1
    /\ \/ \E cx \in {0, 1} : sys_linux_pipe(p, cx)
       \/ sys_linux_eventfd(p)
       \/ \E fd \in Fds : sys_linux_dup(p, fd) \/ sys_linux_close(p, fd)
       \/ \E old, new \in Fds, cx \in {0, 1} : sys_linux_dup2(p, old, new, cx)
       \/ \E fd, low \in Fds, cx \in {0, 1} : fcntl_dupfd(p, fd, low, cx)
       \/ \E fd \in Fds, cx \in {0, 1} : fcntl_setfd(p, fd, cx)
       \/ \E fd \in Fds, off \in Pipes : sys_linux_lseek(p, fd, off)
       \/ \E c \in Procs : sys_linux_fork(p, c)
       \/ sys_linux_execve(p)
       \/ \E fd \in Fds, n \in Counts : fd_read_any(p, fd, n) \/ fd_write_any(p, fd, n)

Next == \E p \in Procs : Call(p) \/ linux_fdt_release(p) \/ Resume(p)

(* yield() goes round the ready ring, so that a process that is in a call gets
   its next turn; nothing is assumed of the calls programs make. *)
Fairness == \A p \in Procs : WF_vars(Resume(p))

Spec == Init /\ [][Next]_vars /\ Fairness

-----------------------------------------------------------------------------
Refs(i, kinds) == {d \in live \X Fds : fdt[d[1]][d[2]].kind \in kinds /\ fdt[d[1]][d[2]].offset = i}
Counted(i) == i \notin stray

(* The tables, the pool and the calls in progress have their types. *)
TypeOK ==
    /\ fdt \in [Procs -> [Fds -> [kind : Kinds, offset : Nat, cloexec : {0, 1}]]]
    /\ \A i \in Pipes : /\ pipe[i].read_open \in Nat /\ pipe[i].write_open \in Nat
                        /\ pipe[i].head \in 0..PIPE_BUF_SIZE-1 /\ pipe[i].tail \in 0..PIPE_BUF_SIZE-1
                        /\ pipe[i].used \in 0..PIPE_BUF_SIZE
    /\ live \subseteq Procs
    /\ \A p \in Procs : op[p].call \in {"idle", "read", "write"} /\ op[p].left <= op[p].count

(* read_open and write_open are the numbers of descriptors, over all tables,
   that read and write the pipe: whatever order processes fork, duplicate,
   replace, close, exec and exit in, no slot leaks and none is given away while
   it is in use.  It is said of every pipe that no eventfd and no lseek reached. *)
PipeCounts ==
    \A i \in Pipes : Counted(i) =>
        /\ pipe[i].read_open = Cardinality(Refs(i, REnds))
        /\ pipe[i].write_open = Cardinality(Refs(i, WEnds))

(* A pipe holds, in the order they were written, the bytes that were written
   to it and have not been read: none is lost, doubled or reordered when the
   ring wraps, when a writer is stopped half way, or when the slot is reused. *)
PipeFifo ==
    \A i \in Pipes :
        /\ sent[i] = got[i] + pipe[i].used
        /\ \A k \in 0..pipe[i].used-1 :
              pipe[i].buf[(pipe[i].head + k) % PIPE_BUF_SIZE] = got[i] + k

(* No descriptor is left for the other end of the pipe that p is in. *)
Orphaned(p) ==
    LET i == op[p].pipe IN
    /\ Counted(i)
    /\ \/ op[p].call = "read" /\ Refs(i, WEnds) = {}
       \/ op[p].call = "write" /\ Refs(i, REnds) = {}

(* A process in pipe_read or pipe_write returns once no descriptor is left for
   the other end: a reader sees the end of the file, a writer sees EPIPE. *)
BlockedReturns ==
    \A p \in Procs : Orphaned(p) ~> (op[p].call = "idle" \/ ~Counted(op[p].pipe))
=============================================================================
