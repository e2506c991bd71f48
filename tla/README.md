# Verification of Computer_OS

TLA+ specifications of the parts of this kernel whose correctness depends on the
order of steps, on limits that are reached, or on calls that fail half way: the
three disk file systems, the files, pipes and terminal of Linux programs, memory,
the scheduler, and the network. TLC checks them on small instances; TLAPS proves
the central results for every size. `PROJECT.json` maps every definition to the
lines it models and lists runs, mutants, hazards and findings.

## The system and its models

| Part | Source (`src/`) | Modules |
|---|---|---|
| CFS journal | `cfs.c` 83-278 | `CfsJournal`, `AtomicStore`; proofs `CfsJournal_proofs` |
| CFS operations | `cfs.c` 284-1203 | `CfsVolume`, `Cfs` |
| CFS fsck | `cfs.c` 1205-1408 | `CfsVolume`, `CfsFsck`; proofs `CfsFsck_proofs` |
| ext2 | `ext2.c` | `Ext2` |
| FAT32 | `fat32.c` | `Fat32` |
| VFS, RAM file system | `vfs.c`, `ramfs.c` | `Vfs` |
| Files of Linux programs | `linux_syscall.c` | `Files` |
| Descriptor tables, pipes | `linux_syscall.c` | `Fdt`; proofs `Fdt_proofs` |
| Keyboard, terminal, signals | `keyboard.c`, `linux_syscall.c` | `Tty`, `Signal` |
| Sockets, TCP, DNS, ARP, ping | `tcp.c`, `net.c`, `arp.c`, `linux_syscall.c` | `Net`; proofs `Net_proofs` |
| Network card | `e1000.c` | `E1000`, `Nic`; proofs `E1000_proofs` |
| Kernel heap | `kheap.c` | `Kheap`; proofs `Kheap_proofs` |
| Frames, page tables, programs | `pmm.c`, `vmm.c`, `loader.c`, `uaccess.c` | `Mem` |
| Scheduler, exit, waitpid | `task.c`, `loader.c`, `shell.c` | `Task`; proofs `Task_proofs` |

A program reaches the file systems through `linux_syscall.c` and `vfs.c`; CFS
turns each operation into one transaction of its journal, on a drive that `ata.c`
polls and flushes after every write. Tasks form a ring that `yield`, and after
`preempt on` also the timer, goes around; exited tasks wait on a second list until
a parent collects them and `yield` frees them. System calls run with interrupts
off, except where they yield.

Not modelled: text layout (console, editor, graphics, `printf`, `devfs`, `procfs`),
registers and ports (ATA, PCI, ACPI, GDT, IDT, PIC, PIT), the decoders `tar.c` and
`inflate.c`, and permission checks. `PROJECT.json` says for every part what is
left out.

## Modules

**`CfsJournal`**: one operation's buffered transaction, its commit and the replay
at mount. A step is one block write. `bd_write_block`, `txn_begin`, `txn_abort`
are actions; `txn_commit` is split at its writes (`WriteDescriptor`, `WriteData`,
`WriteRecord`, `Checkpoint`, `Release`, or `WriteThrough` if the journal is too
small), `journal_recover` into `Mount`, `Redo`, `RecoveryClear`. `Crash` may come
anywhere, and `TornWrite` leaves the block being written torn. `IOErrors` chooses
the drive: it never fails, it dies until the next power cycle, or single requests
fail. The checksum is taken to be the content it covers (no collisions). The
journal header is smaller than a sector and is not torn. `acked` is a history
variable: what the last successful operation wrote to a block, or `Unknown` when a
failed one may have written it. **`AtomicStore`** is what the journal promises: a
commit replaces the store by the operation's view of it in one step.

**`Cfs`**, with the operators of **`CfsVolume`**: the operations that change the
volume, on top of an atomic journal, the property `CrashAtomicity` proves of
`CfsJournal`. Metadata goes to `txn`; data and new directory blocks are written in
place before the commit, as the code does. A failing operation that has overwritten
nothing is no step. **`CfsFsck`**: the walk, then each repair pass, in place and
without the journal; power may fail between passes or tear a bitmap write.

**`Ext2`**: bitmaps, groups, block maps with indirect blocks, directories of
variable-length records, symbolic links and every call that writes. A call is one
step; space runs out inside it. **`Fat32`**: the cached table and its copies on
disk, cluster chains, long names; the disk may refuse any one write of a call.

**`Vfs`**: path resolution, routing to a mount, the RAM file system, and the disk as
`Cfs` and `CfsJournal` describe it. **`Files`**: the file calls of one program above
it, with the whole-file write buffers; bytes from memory that nobody has written
are `Junk`. `content` is the history of what the calls put in each file.

**`Fdt`**: descriptor tables and the pipe pool. Every call is a step, and each turn of
the loops of `pipe_read` and `pipe_write` is one. The bytes of a pipe are numbered
in the order they are written.

**`Tty`**, with the operators of **`Signal`**: the keyboard's interrupt and its ring, the
two modes of `tty_read`, its three buffers, ioctl and poll, and the signals that
interrupt them. A step is the code between two yields.

**`Net`**: the socket calls and what they poll for. The peer and a network that loses,
repeats and reorders are external. The card is a queue, which **`E1000`** shows of the
descriptor rings: it implements **`Nic`**.

**`Kheap`**: `kmalloc`, `kfree` and the growth of the heap. **`Mem`**: the frame bitmap
made from the memory map, page tables of every level, load, sbrk, brk, mmap, fork,
exec, exit, each with its failures.

**`Task`**: the ring, the zombie list, `yield`, `scheduler_tick`, task creation, exit,
waitpid, and the shell's `run`. A step is the code between two points where
interrupts are on. Task structures are addresses; freed ones are reused, and keep
their old content until then. `kids`, `adopted`, `collected`, `result` are history.

`MC*` modules give the bounds. Most join parts that do not interact: the variable
`part` says which one a behaviour is about, and the others stay as they were.
Definitions with a suffix after an underscore and a comment "Mutant" are deliberate
bugs used to show that each property can fail.

## Runs

| Run | Parts and bounds | What it shows |
|---|---|---|
| `cfs_disk` | journal: 3 home blocks, 2 contents, 2 blocks per transaction, journal of 4 (3 for write-through), drive may die; fsck: 3 inodes, 3 blocks, any bitmaps, dangling and shared references | the journal implements `AtomicStore`; acknowledged writes survive, also through a journal that is too small; reads see durable state plus own writes; the proof's invariant; a repair cleans, converges after interruptions and never frees what is used |
| `volumes` | CFS: 3 inodes, 5 blocks, 2 names, 3 entries per directory block, 1 extent; ext2: 9 blocks in 2 groups, 6 inodes, 1 direct pointer, 2 pointers per block, 4 calls | after anything the volume is sound, files keep their content, and accounting agrees with the tree |
| `programs` | 2 programs, 18 frames, two memory maps, two-level tables of 4 entries, 5 calls; scheduler: 2 tasks beside the shell, 3 ids, timer anywhere | every frame has one owner, programs keep their memory; lists sound, CPU never idle, no lost wakeup, no exit reported twice, no adopted child missed |
| `services` | heap: 3 pages of 64 bytes, sizes 1, 20, 100; files: 1 descriptor, 4 calls, 4 paths, one slot in `/tmp`; waiting: 2 tasks, 2 ids, fair | the heap tiles, live areas are kept, all is reclaimed; programs read back what they wrote, closed files are durable, paths resolve right; a waiting parent gets its dead child |
| `calls` | terminal: ring of 3, line of 3, 2 tasks, up to 4 keys and 4 calls; pipes: 2 processes, 3 descriptors, 2 pipes of 3 bytes, 5 calls | keys arrive whole and in order, masks are restored, signals are taken; pipe ends are counted exactly, bytes come out in order, an orphaned end returns |
| `devices` | stack: 8 sequence numbers that wrap in a stream of 2 bytes, one socket slot, one frame on the wire; card: 3 and 2 descriptors; FAT32: 4 clusters, 4 calls, any one write fails | streams arrive once, in order and to their end; the rings are queues; the FAT owns each cluster once and files read back, before and after a reboot |

The bounds let every case occur: a transaction that fills the journal and one that
exceeds it, repeated crashes in recovery, a full volume, inode table, directory
block and extent array, a double indirect block, a directory that grows, a heap at
its limit, memory that runs out in the middle of a fork, a ring that wraps, a full
keyboard ring, a pipe filled in parts, a grandchild, a parent with one child after
another, reuse of a freed task address. `MAXDRIFT` bounds how far CFS's superblock
free count drifts, `MAXID` the task ids, `MAXCALLS` the calls. `MCCfs` uses a view
that drops the dead fields of free inodes; with symmetry TLC's count of distinct
states then varies a little from run to run. In `calls` processes may all exit or
wait for ever in a pipe nobody closes, so deadlock is not checked there.

Fairness. `services`: the timer ticks (weak fairness of `scheduler_tick`), and a task
inside the kernel that runs again and again proceeds (strong fairness of its kernel
steps), because a tick is much longer than a step between two interrupt points.
`calls`: `yield` goes round the ring, so a task in a blocking call gets its next turn
(weak fairness of each resumption). `devices`: a call that polls goes on polling, the
program goes on reading, and the network and the peer do not lose every frame
(strong fairness of a delivery). Programs are never assumed to exit, yield or call.

## Proofs

Every theorem holds for all values of the constants that satisfy the named
assumption of its component's module (sizes are positive numbers, special values
are distinct), and for behaviours of any length. All are invariance proofs or
refinements that rest on one: an inductive invariant, a lemma per action that it is
kept, and a last step that reads off the property.

**`CfsJournal_proofs`**: `TypeCorrect`, whatever the drive does, and `DistinctHomes`: a
transaction buffers a block once. The rest assumes a drive that does not work again
before the next power cycle once it has reported an error. `JournalSound`: at every
instant the journal is empty or can be replayed, it then covers every torn home
block if transactions fit it, and each loop has got exactly as far as its index says.
Atomicity alone is not inductive: a torn checkpoint is harmless only because the
journal still holds the block. `Durability` (`AckedSurvives`) and `ReadIsolation`
(`SoundDiskReads`) hold for every size of the journal, so also where `txn_commit` writes
through one that is too small (`ThroughSurvives` is that case on an instance).
`CrashAtomicity` assumes `Fits` as well, that the journal holds a largest transaction:
`mkfs_cfs.c` makes no journal of less than 34 blocks, for a transaction of at most 32
and its descriptor and record. It maps the abstract store to what a mount would
recover now; then `WriteRecord` is the commit, and every other write, crash and redo
is a stutter. The runs `journal_stale` and `journal_retry` show why the assumption about
errors is there.

**`CfsFsck_proofs`** assumes `WellFormed`, that bitmaps and inode table have their sizes;
what they hold is arbitrary. The repair never writes what its walk reads (kinds,
extents, contents of blocks), so that every walk, also one after an interrupted
repair, finds the tree of the damaged volume (`WalkSame`). The invariant adds what
each finished pass has made right and that no bit which is and should be set is
ever cleared. From it: `RepairAlwaysCleans`, `RepairAlwaysConverges`, `RepairNeverLoses`.

**`Kheap_proofs`**: `TypeCorrect`, `HeapAlwaysSound` (the blocks tile the heap, and no
two free ones are neighbours), `LiveAlwaysKept`, and `AlwaysReclaimed`, for every page
size, limit and request. The invariant is the conjunction of the first three: that
no free blocks are neighbours is what makes one merge in each direction enough.

**`Task_proofs`**: `ListsAlwaysSound`, `CpuAlwaysSound`, `WakeupNeverLost`,
`AlwaysCollectedOnce`, `AdoptedAlwaysKept`, for any addresses and ids, with and
without preemption. The invariant says that the shell never blocks, so there is
always a task to switch to; that a task which has marked itself blocked or dead is
switched away from before anything else runs; that ids are unique although addresses
are used again; and that an uncollected child that was told its parent is still on a
list, with that parent.

**`Fdt_proofs`**, for any number of processes, descriptors and pipes and any size of the
ring: `PipeAlwaysFifo`, `PipeCountsExact`, and `NoSlotShared`, that `pipe_alloc` never hands
out a slot a live descriptor names. The invariant relates the ring between head and
tail to the numbers of the bytes sent and received, each count to the set of (process,
descriptor) pairs that name the end, and says that an eventfd is the only descriptor
of both ends. The lemmas follow such a set through the replacement of an entry, of a
table and the birth of a table.

**`E1000_proofs`**: `RingsSound` says which descriptors have their DD bit set: of the receive
ring those from the driver's index up to the card's, of the transmit ring all but the
pending ones from the card's index on. `Refinement`, that the rings implement the
queues of `Nic`, needs it at every step that moves an index around the end of a ring.

**`Net_proofs`**: `Reception`, that a program reads a prefix of what the peer sent on its own
connection, `rcv_nxt` counts exactly what was received, the end is reported after the
last byte, and a datagram socket holds only answers it asked for. It assumes `Sizes`:
sequence numbers tell the bytes of one stream apart, and there are more source ports
than connections, so that no frame of an earlier connection has the ports of a later
one. The invariant says of every frame on the wire and in the card's queue which
piece of which connection's stream it carries, and that what was read, followed by
what is buffered, is the stream up to `rcv_nxt`.

Only model-checked. Liveness (`WaitReturns`, `BlockedReturns`, `Completes` and the others
under fairness) and whatever is about `ENABLED` are outside this prover. `Ext2`, `Fat32`,
`Files`, `Mem` and `Tty` use recursive operators, about which it proves nothing. `Cfs`, `Vfs`
and `Signal` have no proofs. What
`CfsFsck_proofs` and `Net_proofs` prove the runs check under names of their own
(`RepairCleans` and its companions, `ReceivedOwn`), because `MCCfsDisk` and `MCDevices`
instantiate those modules with bounds.

## Where code and text disagree

Each of these is a run that TLC refutes.

- `journal_stale`: a failed `txn_commit` leaves the transaction active, later reads
  return its blocks (`src/cfs.c:217`; the comment at 1151 says aborted).
- `journal_retry`: `journal_recover` ignores a failed redo write and clears the
  journal (`src/cfs.c:270`).
- `cfs_enospc`: a rewrite reuses the file's own freed blocks in place before the
  commit, so a failure, and in the same way a crash, damages the old file.
- `task_reuse`: a dangling `parent` pointer makes waitpid return a stranger.
- `task_race`: with preemption a child can exit before fork records its parent.
- `task_run`: the shell's `run` never finds, so never collects, the exited task.

More are visible in the models, whose properties are stated around them:

- `do_link` does not write CFS's free counts; `FreeCountsSafe` says what is left of them.
- A signal that wakes waitpid does not make it return `EINTR` (`linux_syscall.c:2068`).
- A failed load gives back page tables but neither frames nor records
  (`loader.c:585`; `vmm.c:189` says the caller does).
- `record_page` failing frees a frame that stays mapped (`loader.c:147`).
- `lseek` on a pipe overwrites its index, and an eventfd counts one end only;
  `stray` collects these pipes.
- A file that is created and closed contains one NUL byte; `O_APPEND` is ignored; a
  rename of a file to itself deletes it; `cp` and a cross-mount `mv` cut a file at 64 KB.
- FAT32's `rmdir` ignores entries whose short name begins with a dot (`fat32.c:1728`);
  `mv` onto an existing name leaves two entries.
- ext2's `dir_add` loses the indirect block it took when it fails (`ext2.c:820`).
- `dns_resolve` takes the late answer to an earlier question (`net.c:274`); `sendto`
  after the peer has closed reconnects and drops what was spilled (`linux_syscall.c:2640`).
- Ctrl-C is lost when a kernel task is current; a half-typed line is lost to a signal.
