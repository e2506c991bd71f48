----------------------------- MODULE MCPrograms ------------------------------
(* Programs, as two parts that do not interact: the tasks of the preemptive scheduler
   ("tasks"), and the frames, page tables and memory of programs ("programs"), which
   see the kernel's heap as a number of objects.

   Three addresses hold the task_t structures of four tasks.  Two programs run on two
   machines: one with room for two programs but not for a third, one that runs out
   while the second is made, whose memory map has edges inside pages.  One image
   shares a page between its segments, one has an interpreter, one is bad when it
   is read. *)
EXTENDS Task, TLC

CONSTANT Tasks      \* of "programs"

VARIABLES
    part,
    m, task, map, sees, lost, torn, calls       \* of "programs"

programs == <<m, task, map, sees, lost, torn, calls>>

Region(base, len, type) == [base |-> base, len |-> len, type |-> type]
MCMaps == {<<Region(0, 34, "usable")>>,
           <<Region(0, 9, "usable"), Region(9, 4, "reserved"), Region(13, 16, "usable"), Region(29, 5, "loader")>>}

Part(at, bad) == [pages |-> at, bad |-> bad]
MCImages == {<<>>, <<Part(<<0, 0>>, "none")>>, <<Part(<<0>>, "none"), Part(<<1>>, "none")>>, <<Part(<<0, 1>>, "read")>>}
MCStackPages == <<7>>
MCDeltas == {1, 4}
MCTouched == {2, 3}

M == INSTANCE Mem WITH
        PAGE <- 2, FRAMES <- 18, Maps <- MCMaps, LOWMEM <- 2, LEVELS <- 2, ENTRIES <- 4, KERNEL <- 2,
        KHEAP_PAGES <- 2, PAGES_PER_BLOCK <- 2, KHEAP <- 20, Images <- MCImages, HEAP_BASE <- 2,
        HEAP_MAX <- 2, MMAP_BASE <- 4, MMAP_END <- 6, StackPages <- MCStackPages, Deltas <- MCDeltas,
        Touched <- MCTouched, Loaded <- 3, MAXCALLS <- 5

(* One memory map stands for all in the part that is not about it. *)
MCInit ==
    /\ part \in {"programs", "tasks"}
    /\ Init /\ M!Init
    /\ part # "programs" => map = CHOOSE mm \in MCMaps : TRUE

MCNext ==
    /\ \/ part = "programs" /\ M!Next /\ UNCHANGED vars
       \/ part = "tasks" /\ Next /\ UNCHANGED programs
    /\ UNCHANGED part

MCSpec == MCInit /\ [][MCNext]_<<vars, programs, part>>

MCSymmetry == Permutations(Tasks) \cup Permutations(Addr \ {kmain})

(* Mem!FramesOwned: every frame in use has one owner, and what nobody owns is free,
   but for what a failed loader_run_args leaves behind.  Mem!PoolSafe: what pmm_init
   hands out are whole pages of RAM that the memory map calls usable, and never the
   bitmap's own.  (Mem!TypeOK says that the tables these speak of are tables.) *)
FramesOwned == part = "programs" => M!TypeOK /\ M!FramesOwned /\ M!PoolSafe

(* Mem!MemoryKept: a program finds in each of its pages what it put there, whatever
   other programs do and however fork and exec copy and replace memory.
   Mem!BreakMapped: every page below a program's break is mapped.  Mem!KernelShared:
   every address space has the kernel's half, heap pages that were mapped after it
   was made (kheap_grow) included. *)
MemoryKept == part = "programs" => M!MemoryKept /\ M!BreakMapped /\ M!KernelShared
=============================================================================
