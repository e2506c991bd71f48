----------------------------- MODULE MCServices ------------------------------
(* What the kernel does for those who call it, as three parts that do not interact:
   its heap ("heap"), the VFS and the descriptors of one program ("files": a disk at /
   and a RAM file system at /tmp with one slot), and waitpid under the preemptive
   scheduler ("waits").

   The heap has at most three small pages: one of the sizes needs several pages,
   and the smallest leaves a rest too small to split. *)
EXTENDS Kheap, Sequences

CONSTANTS
    f1,                     \* a descriptor, of "files"
    Addr, kmain, NULL       \* of "waits"

VARIABLES
    part,
    fs, fd, content, unsure, dirty, calls,                  \* of "files"
    ready, zombie, current, next_id, allocated, id, state,  \* of "waits"
    parent, is_user, wait_any, reaped_by_parent, pc, arg, pending, kids, adopted, collected, result

files == <<fs, fd, content, unsure, dirty, calls>>
tasks == <<ready, zombie, current, next_id, allocated, id, state, parent, is_user, wait_any,
           reaped_by_parent, pc, arg, pending, kids, adopted, collected, result>>

Abs(c) == [abs |-> TRUE, c |-> c]
Rel(c) == [abs |-> FALSE, c |-> c]
MCPaths == {Abs(<<"a">>), Rel(<<"d">>), Rel(<<"..", "d", ".", "b">>), Abs(<<"tmp", "x">>)}
MCChunks == {<<1>>, <<2, 3>>}

L == INSTANCE Files WITH
        FDs <- {f1}, Paths <- MCPaths, Chunks <- MCChunks, Offsets <- {0, 1, 3}, MINCAP <- 3, MAXCALLS <- 4,
        MAXDEPTH <- 2, RAMFS_MAX_FILES <- 1, LISTMAX <- 3, XBUF <- 16, LINKDEPTH <- 2

W == INSTANCE Task WITH MAXID <- 2, Preempt <- TRUE, heap <- allocated

MCInit == part \in {"heap", "files", "waits"} /\ Init /\ L!Init /\ W!Init

MCNext ==
    /\ \/ part = "heap" /\ Next /\ UNCHANGED <<files, tasks>>
       \/ part = "files" /\ L!Next /\ UNCHANGED <<vars, tasks>>
       \/ part = "waits" /\ W!Next /\ UNCHANGED <<vars, files>>
    /\ UNCHANGED part

(* Fairness of Task, asked for in its part only. *)
MCFairness ==
    /\ WF_tasks(part = "waits" /\ W!scheduler_tick)
    /\ \A a \in Addr : SF_tasks(part = "waits" /\ current = a /\ W!Kernel)

MCSpec == MCInit /\ [][MCNext]_<<vars, files, tasks, part>> /\ MCFairness

(* Files!ReadsBack: a program reads through its descriptor what the calls put in the
   file, with its writes still in the buffer and after truncations and flushes (and
   Files!TypeOK, without which a view is not defined). *)
ReadsBack == part = "files" => L!TypeOK /\ L!ReadsBack

(* Files!Durable: what was closed or fsynced is in the file system under its name. *)
Durable == part = "files" => L!Durable

(* Files!ResolveRight: vfs_resolve gives the path that "." and ".." mean. *)
ResolveRight == part = "files" => L!ResolveRight

(* Task!WaitReturns: a parent that waits for a child that has exited gets it. *)
WaitReturns == W!WaitReturns
=============================================================================
