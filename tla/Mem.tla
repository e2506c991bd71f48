--------------------------------- MODULE Mem ---------------------------------
(***************************************************************************)
(* Memory: the frame allocator (src/pmm.c), the page tables (src/vmm.c)    *)
(* and what user programs do with them: loading, sbrk, brk, mmap, fork,    *)
(* exec and exit (src/loader.c, src/linux_syscall.c).                      *)
(*                                                                         *)
(* An address is a number of bytes, a page PAGE bytes.  A page table is a  *)
(* frame of ENTRIES entries, 0 where nothing is present; there are LEVELS  *)
(* of them (four in the code), and a page number in base ENTRIES spells    *)
(* the indices of its walk.  The contents of a page are one value.  Each   *)
(* call runs to its end before another task enters the kernel.             *)
(***************************************************************************)
EXTENDS Integers, FiniteSets, Sequences, SequencesExt, FiniteSetsExt

CONSTANTS
    Tasks,              \* slots for user tasks; a task writes its name
    PAGE,
    FRAMES,             \* frames of the machine; the kernel's PML4 is the last
    Maps,               \* memory maps the bootloader may report
    LOWMEM,             \* 0x100000: the bitmap goes above it
    LEVELS, ENTRIES,
    KERNEL,             \* PML4_KERNEL: first top-level index of the kernel half
    KHEAP_PAGES,        \* pages the kernel heap may grow to
    PAGES_PER_BLOCK,
    KHEAP,              \* objects the kernel heap holds
    Images,             \* files that may be run
    HEAP_BASE,          \* in pages, like the next three
    HEAP_MAX,
    MMAP_BASE,
    MMAP_END,           \* bound: the stack, which mmap_next never reaches here
    StackPages,         \* in the order map_user_stack maps them
    Deltas,             \* amounts asked of sbrk
    Touched,            \* pages that programs write
    Loaded,             \* the value of a page an image or its arguments fill
    MAXCALLS            \* bound on the number of calls

VARIABLES
    m,          \* used, scan, free, total: pmm.c; ram: the frames; kobj: kernel
                \* heap objects in use; mmap: mmap_next
    task,       \* per slot: st, and pd, blocks, brk of user_resources_t
    map,        \* the memory map
    sees,       \* history: what each task has put in each of its pages
    lost,       \* history: what failed loads did not release
    torn,       \* history: tasks where loader_sbrk mapped a page twice, and their children
    calls

vars == <<m, task, map, sees, lost, torn, calls>>

Pages == 0..(ENTRIES ^ LEVELS - 1)
UserPages == {v \in Pages : v < KERNEL * ENTRIES ^ (LEVELS - 1)}
kernel_pml4 == FRAMES
Table == [tab |-> [i \in 1..ENTRIES |-> 0], val |-> 0]
Page(x) == [tab |-> <<>>, val |-> x]
NoTask == [st |-> "none", pd |-> 0, blocks |-> <<>>, brk |-> 0]

-----------------------------------------------------------------------------
(* The frame allocator. *)

Up(x) == (x + PAGE - 1) \div PAGE
Down(x) == x \div PAGE

(* The frames that lie wholly in a region of the memory map. *)
FreedBy(e) == Up(e.base)..(Down(e.base + e.len) - 1)

(* The regions of the memory map that are freed, and where the bitmap may
   start in one. *)
Reclaimed(mm) == {mm[i] : i \in {j \in DOMAIN mm : mm[j].type \in {"usable", "loader"}}}
From(e) == IF e.base < LOWMEM THEN LOWMEM ELSE e.base

total_pages(mm) == Down(Max({e.base + e.len : e \in Reclaimed(mm)}))
bitmap_bytes(n) == (n + 7) \div 8

(* The frames of the bitmap: it is in the first usable region with room for it
   above LOWMEM. *)
Spanned(base, bytes) == Down(base)..(Up(base + bytes) - 1)
Bitmap(mm, bytes) ==
    Spanned(From(mm[Min({i \in DOMAIN mm : mm[i].type = "usable" /\ mm[i].base + mm[i].len - From(mm[i]) >= bytes})]), bytes)

(* pmm_init: usable and bootloader regions are freed, then the bitmap and
   page 0 are taken back. *)
Unused(mm, n) ==
    (UNION {FreedBy(e) : e \in Reclaimed(mm)} \cap (0..(n - 1))) \ ({0} \cup Bitmap(mm, bitmap_bytes(n)))

Pool(n, unused) == [used |-> (0..(n - 1)) \ unused, scan |-> 0, free |-> Cardinality(unused), total |-> n]

pmm_init(mm) == Pool(total_pages(mm), Unused(mm, total_pages(mm)))

(* pmm_alloc: the next free frame from where the last search ended, then from
   the start; 0 if there is none. *)
FirstOf(up, lo) == IF up # {} THEN Min(up) ELSE IF lo # {} THEN Min(lo) ELSE 0
Taken(s, f) ==
    [f |-> f, m |-> IF f = 0 THEN s ELSE [s EXCEPT !.used = @ \cup {f}, !.free = @ - 1, !.scan = f + 1]]

pmm_alloc(s) == Taken(s, FirstOf((s.scan..(s.total - 1)) \ s.used, (1..(s.scan - 1)) \ s.used))

pmm_free(s, f) ==
    IF f >= s.total \/ f \notin s.used THEN s
    ELSE [s EXCEPT !.used = @ \ {f}, !.free = @ + 1, !.scan = IF f < @ THEN f ELSE @]

FreeAll(s, fs) == FoldSet(LAMBDA f, acc : pmm_free(acc, f), s, fs)

-----------------------------------------------------------------------------
(* The page tables. *)

(* The entry of page v in a table of level l: pml4_index down to pt_index. *)
index(v, l) == ((v \div ENTRIES ^ (LEVELS - l)) % ENTRIES) + 1

Cleared(a) == IF a.f = 0 THEN a ELSE [a EXCEPT !.m.ram[a.f] = Table]
alloc_pt_phys(s) == Cleared(pmm_alloc(s))

(* walk_to_pte from a table of level l, making the tables that are missing:
   pt is the last table, 0 if a frame ran out. *)
RECURSIVE walk_to_pte(_, _, _, _)
RECURSIVE WalkInto(_, _, _, _, _)
WalkInto(s, tab, v, l, a) ==
    IF a.f = 0 THEN [m |-> s, pt |-> 0]
    ELSE walk_to_pte([a.m EXCEPT !.ram[tab].tab[index(v, l)] = a.f], a.f, v, l + 1)

walk_to_pte(s, tab, v, l) ==
    IF l = LEVELS THEN [m |-> s, pt |-> tab]
    ELSE IF s.ram[tab].tab[index(v, l)] # 0 THEN walk_to_pte(s, s.ram[tab].tab[index(v, l)], v, l + 1)
    ELSE WalkInto(s, tab, v, l, alloc_pt_phys(s))

(* vmm_resolve_in: the frame of page v, 0 if it is not mapped. *)
RECURSIVE resolve(_, _, _, _)
resolve(s, tab, v, l) ==
    LET e == s.ram[tab].tab[index(v, l)]
    IN  IF l = LEVELS \/ e = 0 THEN e ELSE resolve(s, e, v, l + 1)

vmm_resolve_in(s, pd, v) == resolve(s, pd, v, 1)

SetEntry(w, v, f) ==
    IF w.pt = 0 THEN [ok |-> FALSE, m |-> w.m]
    ELSE [ok |-> TRUE, m |-> [w.m EXCEPT !.ram[w.pt].tab[index(v, LEVELS)] = f]]
vmm_map_in(s, pd, v, f) == SetEntry(walk_to_pte(s, pd, v, 1), v, f)

(* vmm_new_user_pd: the kernel half is copied from the kernel's table. *)
WithKernel(a) ==
    IF a.f = 0 THEN a
    ELSE [a EXCEPT !.m.ram[a.f].tab = [i \in 1..ENTRIES |-> IF i > KERNEL THEN a.m.ram[kernel_pml4].tab[i] ELSE 0]]
vmm_new_user_pd(s) == WithKernel(alloc_pt_phys(s))

(* The table of level l at tab and those under its first n entries. *)
RECURSIVE TablesUnder(_, _, _, _)
TablesUnder(s, tab, l, n) ==
    {tab} \cup IF l = LEVELS THEN {}
               ELSE UNION {TablesUnder(s, s.ram[tab].tab[i], l + 1, ENTRIES) :
                             i \in {j \in 1..n : s.ram[tab].tab[j] # 0}}

UserTables(s, pd) == TablesUnder(s, pd, 1, KERNEL)
vmm_free_user_pd(s, pd) == FreeAll(s, UserTables(s, pd))

-----------------------------------------------------------------------------
(* The pages of a task.  These operators take and return the machine and the
   resources: [ok, m, r]. *)

Fail(s) == [s EXCEPT !.ok = FALSE]

(* record_page: a new block comes first; a full kernel heap fails. *)
record_page(s, v, f) ==
    LET bs == s.r.blocks
    IN  IF bs # <<>> /\ Len(bs[1]) < PAGES_PER_BLOCK
        THEN [s EXCEPT !.r.blocks[1] = Append(@, <<v, f>>)]
        ELSE IF s.m.kobj >= KHEAP THEN Fail(s)
        ELSE [s EXCEPT !.r.blocks = <<<<<<v, f>>>>>> \o @, !.m.kobj = @ + 1]

(* Maps page v to a new frame of contents c and records it: what to do with the
   frame once it is allocated, mapped and recorded. *)
Kept(z, f) == IF z.ok THEN z ELSE Fail([z EXCEPT !.m = pmm_free(@, f)])
Record(s, v, c, f, w) ==
    IF ~w.ok THEN Fail([s EXCEPT !.m = pmm_free(w.m, f)])
    ELSE Kept(record_page([s EXCEPT !.m = [w.m EXCEPT !.ram[f] = c]], v, f), f)
Place(s, v, c, a) == IF a.f = 0 THEN Fail(s) ELSE Record(s, v, c, a.f, vmm_map_in(a.m, s.r.pd, v, a.f))
MapNew(s, v, c) == Place(s, v, c, pmm_alloc(s.m))

(* Mutant: the frame keeps what its last owner left in it. *)
alloc_user_page_Dirty(s, v) == MapNew(s, v, s.m.ram[pmm_alloc(s.m).f])

alloc_user_page(s, v) == MapNew(s, v, Page(0))

Mapped(s, v) == vmm_resolve_in(s.m, s.r.pd, v) # 0

(* alloc_user_page for each page of vs that is not mapped, until one fails. *)
map_missing(s, vs) ==
    FoldLeft(LAMBDA acc, v : IF ~acc.ok \/ Mapped(acc, v) THEN acc ELSE alloc_user_page(acc, v), s, vs)

(* alloc_user_page for each page of vs, mapped or not, until one fails. *)
map_all(s, vs) ==
    FoldLeft(LAMBDA acc, v : IF acc.ok THEN alloc_user_page(acc, v) ELSE acc, s, vs)

Fill(s, vs) ==
    FoldSet(LAMBDA v, acc : [acc EXCEPT !.m.ram[vmm_resolve_in(acc.m, acc.r.pd, v)] = Page(Loaded)], s, Range(vs))

Records(r) == FlattenSeq(r.blocks)
RecordedFrames(r) == {x[2] : x \in Range(Records(r))}

release_resources(s) ==
    [s EXCEPT !.m = [FreeAll(@, RecordedFrames(s.r)) EXCEPT !.kobj = @ - Len(s.r.blocks)], !.r.blocks = <<>>]

(* Mutant: the tables under the top one are forgotten. *)
Discard_Top(s) == pmm_free([release_resources(s).m EXCEPT !.kobj = @ - 1], s.r.pd)

(* release_resources, kfree of the resources and vmm_free_user_pd. *)
Discard(s) == vmm_free_user_pd([release_resources(s).m EXCEPT !.kobj = @ - 1], s.r.pd)

-----------------------------------------------------------------------------
(* Loading a program: an image is the sequence of its ELF files, the program
   and its interpreter if it has one, or a flat binary.  Each has the pages of
   its segments, adjacent segments may share one, and may turn out bad at its
   header, before anything is mapped, or when a segment is read. *)

ReadInto(z, part) == IF ~z.ok THEN z ELSE IF part.bad = "read" THEN Fail(z) ELSE Fill(z, part.pages)
elf_map(s, part) == IF part.bad = "header" THEN Fail(s) ELSE ReadInto(map_missing(s, part.pages), part)

elf_load_program(s, image) == FoldLeft(LAMBDA acc, part : IF acc.ok THEN elf_map(acc, part) ELSE acc, s, image)

(* map_user_stack, then build_linux_stack writes the arguments if they fit. *)
build_linux_stack(z, fits) == IF ~z.ok THEN z ELSE IF ~fits THEN Fail(z) ELSE Fill(z, StackPages)
map_user_stack(s, fits) == build_linux_stack(map_all(s, StackPages), fits)

Empty(s, pd) == [ok |-> TRUE, m |-> s, r |-> [st |-> "live", pd |-> pd, blocks |-> <<>>, brk |-> HEAP_BASE * PAGE]]

ImagePages(image) == UNION {Range(image[i].pages) : i \in DOMAIN image}
Fresh(image) == [v \in ImagePages(image) \cup Range(StackPages) |-> Loaded]

Call == calls < MAXCALLS /\ calls' = calls + 1
Live(t) == task[t].st = "live"

(* A page directory, the resources and the first bytes of the file, in the
   order loader_run_args, do_exec and loader_fork (which has no file) ask for
   them. *)
Prepare(p, s, found) ==
    IF p.f = 0 THEN Fail(Empty(s, 0))
    ELSE IF s.kobj >= KHEAP \/ ~found THEN Fail(Empty(vmm_free_user_pd(p.m, p.f), 0))
    ELSE Empty([p.m EXCEPT !.kobj = @ + 1], p.f)

Refused(s) == m' = s /\ UNCHANGED <<task, sees>>

Runs(t, s, values) ==
    /\ m' = s.m
    /\ task' = [task EXCEPT ![t] = s.r]
    /\ sees' = [sees EXCEPT ![t] = values]

(* loader_run_args.  A load that fails gives back only the page tables: its
   pages, their records and the resources are lost.  fits is also FALSE when
   task_spawn_user finds no memory for the task. *)
loader_run(t, image, fits) ==
    /\ task[t].st = "none"
    /\ Call
    /\ \E e \in {Prepare(vmm_new_user_pd(m), m, image # <<>>)} :
        \/ ~e.ok /\ Refused(e.m) /\ UNCHANGED lost
        \/ /\ e.ok
           /\ \E l \in {elf_load_program(e, image)} :
                \/ /\ ~l.ok
                   /\ Refused(vmm_free_user_pd(l.m, l.r.pd))
                   /\ lost' = [frames |-> lost.frames \cup RecordedFrames(l.r), kobj |-> lost.kobj + 1 + Len(l.r.blocks)]
                \/ /\ l.ok
                   /\ \E z \in {map_user_stack(l, fits)} : IF z.ok THEN Runs(t, z, Fresh(image)) ELSE Refused(Discard(z))
                   /\ UNCHANGED lost
    /\ UNCHANGED <<map, torn>>

(* do_exec: the caller keeps its image unless the new one is complete. *)
Stacked(l, fits) == IF l.ok THEN map_user_stack(l, fits) ELSE l

do_exec(t, image, fits) ==
    /\ Live(t)
    /\ Call
    /\ \E e \in {Prepare(vmm_new_user_pd(m), m, image # <<>>)} :
        \/ ~e.ok /\ Refused(e.m) /\ UNCHANGED torn
        \/ /\ e.ok
           /\ \E z \in {Stacked(elf_load_program(e, image), fits)} :
                \/ z.ok /\ Runs(t, [z EXCEPT !.m = Discard([z EXCEPT !.r = task[t]])], Fresh(image)) /\ torn' = torn \ {t}
                \/ ~z.ok /\ Refused(Discard(z)) /\ UNCHANGED torn
    /\ UNCHANGED <<map, lost>>

-----------------------------------------------------------------------------
(* Growing. *)

State(t) == [ok |-> TRUE, m |-> m, r |-> task[t]]

(* The pages from the first at or after one break to the last before another. *)
Between(old, new) == [i \in 1..(Up(new) - Up(old)) |-> Up(old) + i - 1]

(* The task's pages after a call: those that were not mapped are zero. *)
Seen(t, s) ==
    [v \in {u \in UserPages : Mapped(s, u)} |-> IF v \in DOMAIN sees[t] THEN sees[t][v] ELSE 0]

Becomes(t, s) ==
    /\ m' = s.m
    /\ task' = [task EXCEPT ![t] = s.r]
    /\ sees' = [sees EXCEPT ![t] = Seen(t, s)]

HeapMax == (HEAP_BASE + HEAP_MAX) * PAGE

(* loader_sbrk64: the break moves only if every page could be mapped; those
   that were stay. *)
BreakAt(z, brk) == IF z.ok THEN [z EXCEPT !.r.brk = brk] ELSE z
loader_sbrk64(s, delta) ==
    IF delta <= 0 \/ s.r.brk + delta > HeapMax THEN s
    ELSE BreakAt(map_missing(s, Between(s.r.brk, s.r.brk + delta)), s.r.brk + delta)

loader_set_brk(s, brk) ==
    IF brk >= HEAP_BASE * PAGE /\ brk <= s.r.brk THEN [s EXCEPT !.r.brk = brk] ELSE s

(* loader_brk, as sys_linux_brk calls it. *)
loader_brk(t, brk) ==
    /\ Live(t)
    /\ Call
    /\ Becomes(t, IF brk <= task[t].brk THEN loader_set_brk(State(t), brk)
                  ELSE loader_sbrk64(State(t), brk - task[t].brk))
    /\ UNCHANGED <<map, lost, torn>>

(* loader_sbrk, of the native system call: it maps the pages again, mapped or
   not. *)
loader_sbrk(t, delta) ==
    /\ Live(t)
    /\ delta > 0 /\ task[t].brk + delta <= HeapMax
    /\ Call
    /\ \E vs \in {Between(task[t].brk, task[t].brk + delta)} :
        /\ Becomes(t, BreakAt(map_all(State(t), vs), task[t].brk + delta))
        /\ torn' = IF \E v \in Range(vs) : Mapped(State(t), v) THEN torn \cup {t} ELSE torn
    /\ UNCHANGED <<map, lost>>

(* sys_linux_mmap of n anonymous pages: mmap_next is of all tasks together and
   moves even if the pages run out. *)
sys_linux_mmap(t, n) ==
    /\ Live(t)
    /\ m.mmap + n <= MMAP_END
    /\ Call
    /\ Becomes(t, [map_missing(State(t), [i \in 1..n |-> m.mmap + i - 1]) EXCEPT !.m.mmap = @ + n])
    /\ UNCHANGED <<map, lost, torn>>

(* map_region of the kernel heap: the next page of the kernel half. *)
Mapping(w, f) == IF w.ok THEN w.m ELSE pmm_free(w.m, f)
map_region(a, s, v) == IF a.f = 0 THEN s ELSE Mapping(vmm_map_in(a.m, kernel_pml4, v, a.f), a.f)

kheap_grow(v) ==
    /\ vmm_resolve_in(m, kernel_pml4, v) = 0
    /\ vmm_resolve_in(m, kernel_pml4, v - 1) # 0
    /\ Call
    /\ m' = map_region(pmm_alloc(m), m, v)
    /\ UNCHANGED <<task, map, sees, lost, torn>>

-----------------------------------------------------------------------------
(* Forking, using and releasing. *)

(* One page of clone_resources. *)
CopyPage(s, v, f) == MapNew(s, v, s.m.ram[f])

(* clone_resources: newest block first. *)
clone_resources(s, r) ==
    FoldLeft(LAMBDA acc, x : IF acc.ok THEN CopyPage(acc, x[1], x[2]) ELSE acc, [s EXCEPT !.r.brk = r.brk], Records(r))

(* made is FALSE if task_clone_user finds no memory for the child. *)
loader_fork(t, c, made) ==
    /\ Live(t) /\ task[c].st = "none"
    /\ Call
    /\ \E e \in {Prepare(vmm_new_user_pd(m), m, TRUE)} :
        \/ ~e.ok /\ Refused(e.m) /\ UNCHANGED torn
        \/ /\ e.ok
           /\ \E z \in {clone_resources(e, task[t])} :
                \/ z.ok /\ made /\ Runs(c, z, sees[t]) /\ torn' = IF t \in torn THEN torn \cup {c} ELSE torn
                \/ ~(z.ok /\ made) /\ Refused(Discard(z)) /\ UNCHANGED torn
    /\ UNCHANGED <<map, lost>>

(* The task stores its name in page v; if it is not mapped vmm_page_fault
   sends the task to task_exit_trampoline. *)
user_write(t, v) ==
    LET f == vmm_resolve_in(m, task[t].pd, v)
    IN  /\ Live(t)
        /\ Call
        /\ IF f = 0 THEN task' = [task EXCEPT ![t].st = "dead"] /\ UNCHANGED <<m, sees>>
           ELSE /\ m' = [m EXCEPT !.ram[f].val = t]
                /\ sees' = [sees EXCEPT ![t][v] = t]
                /\ UNCHANGED task
        /\ UNCHANGED <<map, lost, torn>>

(* The pages of a range that a copy reaches: it stops at the first that is not
   mapped, where vmm_page_fault makes it return -1. *)
Reached(t, v, n) == {u \in v..(v + n - 1) : \A w \in v..u : vmm_resolve_in(m, task[t].pd, w) # 0}

(* copy_to_user of n pages of the value a task would write: a range that
   leaves the user half is refused by user_range_ok. *)
copy_to_user(t, v, n) ==
    LET us == Reached(t, v, n)
    IN  /\ Live(t)
        /\ v..(v + n - 1) \subseteq UserPages
        /\ Call
        /\ m' = FoldSet(LAMBDA u, acc : [acc EXCEPT !.ram[vmm_resolve_in(acc, task[t].pd, u)].val = t], m, us)
        /\ sees' = [sees EXCEPT ![t] = [u \in DOMAIN @ |-> IF u \in us THEN t ELSE @[u]]]
        /\ UNCHANGED <<task, map, lost, torn>>

task_exit(t) ==
    /\ Live(t)
    /\ task' = [task EXCEPT ![t].st = "dead"]
    /\ UNCHANGED <<m, map, sees, lost, torn, calls>>

(* on_user_exit, when the task is reaped. *)
on_user_exit(t) ==
    /\ task[t].st = "dead"
    /\ m' = Discard(State(t))
    /\ task' = [task EXCEPT ![t] = NoTask]
    /\ sees' = [sees EXCEPT ![t] = <<>>]
    /\ torn' = torn \ {t}
    /\ UNCHANGED <<map, lost, calls>>

(* The kernel heap's first page is mapped when the first task may run. *)
FirstKernelPage == KERNEL * ENTRIES ^ (LEVELS - 1)
KernelPages == FirstKernelPage..(FirstKernelPage + KHEAP_PAGES - 1)

Started(b) ==
    [used |-> b.used, scan |-> b.scan, free |-> b.free, total |-> b.total, kobj |-> 0, mmap |-> MMAP_BASE,
     ram |-> [f \in 0..FRAMES |-> IF f = kernel_pml4 THEN Table ELSE Page(0)]]
FirstHeapPage(s) == map_region(pmm_alloc(s), s, FirstKernelPage)
Booted(mm) == FirstHeapPage(Started(pmm_init(mm)))

Init ==
    /\ map \in Maps
    /\ m = Booted(map)
    /\ task = [t \in Tasks |-> NoTask]
    /\ sees = [t \in Tasks |-> <<>>]
    /\ lost = [frames |-> {}, kobj |-> 0]
    /\ torn = {}
    /\ calls = 0

(* The machine is started again. *)
reboot ==
    /\ \E mm \in Maps : map' = mm /\ m' = Booted(mm)
    /\ task' = [t \in Tasks |-> NoTask]
    /\ sees' = [t \in Tasks |-> <<>>]
    /\ lost' = [frames |-> {}, kobj |-> 0]
    /\ torn' = {}
    /\ calls' = 0

Next ==
    \/ \E t \in Tasks :
        \/ \E image \in Images, fits \in BOOLEAN : loader_run(t, image, fits) \/ do_exec(t, image, fits)
        \/ \E d \in Deltas : loader_sbrk(t, d)
        \/ \E b \in {HEAP_BASE * PAGE + d : d \in Deltas \cup {0}} : loader_brk(t, b)
        \/ \E n \in {1, 2} : sys_linux_mmap(t, n)
        \/ \E c \in Tasks : loader_fork(t, c, TRUE) \/ loader_fork(t, c, FALSE)
        \/ \E v \in Touched : user_write(t, v) \/ copy_to_user(t, v, 2)
        \/ task_exit(t)
        \/ on_user_exit(t)
    \/ \E v \in KernelPages : kheap_grow(v)
    \/ reboot

Spec == Init /\ [][Next]_vars

-----------------------------------------------------------------------------
(* Properties. *)

TypeOK ==
    /\ m.used \subseteq 0..(m.total - 1) /\ m.scan \in 0..m.total /\ m.kobj \in 0..KHEAP
    /\ \A f \in DOMAIN m.ram : Len(m.ram[f].tab) \in {0, ENTRIES}
    /\ \A t \in Tasks :
        /\ task[t].st \in {"none", "live", "dead"}
        /\ \A i \in DOMAIN task[t].blocks : Len(task[t].blocks[i]) \in 1..PAGES_PER_BLOCK

Alive == {t \in Tasks : task[t].st # "none"}

KernelFrames ==
    (TablesUnder(m, kernel_pml4, 1, ENTRIES) \ {kernel_pml4})
    \cup ({vmm_resolve_in(m, kernel_pml4, v) : v \in KernelPages} \ {0})

Owned(t) == UserTables(m, task[t].pd) \cup RecordedFrames(task[t])

OwnedOnce(boot, kernel) ==
    /\ m.used = boot \cup kernel \cup lost.frames \cup UNION {Owned(t) : t \in Alive}
    /\ Cardinality(m.used) = Cardinality(boot) + Cardinality(kernel) + Cardinality(lost.frames)
                             + FoldSet(LAMBDA t, n : n + Cardinality(UserTables(m, task[t].pd)) + Len(Records(task[t])), 0, Alive)

(* Every frame in use has one owner: the system since boot, the kernel's
   tables and heap, the tables or the records of one task, or a load that
   failed; no task records a frame twice, every page it has mapped is in its
   records, and the allocator's count of free frames and the kernel heap's
   objects agree with them.  Nothing leaks and nothing is freed twice however
   often loads, forks and execs run out of memory part-way. *)
FramesOwned ==
    /\ OwnedOnce(pmm_init(map).used, KernelFrames)
    /\ \A t \in Alive : {vmm_resolve_in(m, task[t].pd, v) : v \in UserPages} \ {0} \subseteq RecordedFrames(task[t])
    /\ m.free = m.total - Cardinality(m.used)
    /\ m.kobj = lost.kobj + FoldSet(LAMBDA t, n : n + 1 + Len(task[t].blocks), 0, Alive)

(* A task finds in each page what it, the loader or a copy to it last put
   there, zero in a page it has not written, and in a child what its parent
   had: no other task's stores, and no leftovers of a frame's last owner.
   (Tasks where the native sbrk has mapped a page over a mapped one are set
   apart.) *)
MemoryKept ==
    \A t \in Tasks \ torn : task[t].st = "live" =>
        \A v \in UserPages :
            LET f == vmm_resolve_in(m, task[t].pd, v)
            IN  IF f = 0 THEN v \notin DOMAIN sees[t]
                ELSE v \in DOMAIN sees[t] /\ m.ram[f].val = sees[t][v]

(* The break never covers a page that is not mapped, whichever of sbrk, brk,
   fork and exec moved it and wherever memory ran out. *)
BreakMapped ==
    \A t \in Tasks : task[t].st = "live" =>
        \A v \in HEAP_BASE..(Up(task[t].brk) - 1) : vmm_resolve_in(m, task[t].pd, v) # 0

(* Every address space sees the kernel's mappings, those made after it was
   created included. *)
KernelShared ==
    \A t \in Alive, v \in KernelPages :
        vmm_resolve_in(m, task[t].pd, v) = vmm_resolve_in(m, kernel_pml4, v)

(* The allocator never hands out page 0, a frame that the memory map does not
   give away whole, or one that holds its own bitmap. *)
PoolSafe ==
    /\ {0} \cup Bitmap(map, bitmap_bytes(m.total)) \subseteq m.used
    /\ \A f \in (0..(m.total - 1)) \ m.used, b \in 0..(PAGE - 1) :
            \E i \in DOMAIN map : map[i].type \in {"usable", "loader"} /\ map[i].base <= f * PAGE + b /\ f * PAGE + b < map[i].base + map[i].len
=============================================================================
