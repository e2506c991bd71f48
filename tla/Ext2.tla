-------------------------------- MODULE Ext2 --------------------------------
(***************************************************************************)
(* The ext2 driver, src/ext2.c: bitmaps and free counts, inodes with       *)
(* direct and indirect blocks, directories of variable-length records,     *)
(* symbolic links, and the calls of the VFS (write, delete, mkdir, rmdir,  *)
(* cp, mv).                                                                *)
(*                                                                         *)
(* A volume v is a record: the bitmaps ibm and bbm (the sets of used       *)
(* inodes and blocks), the inode table, the blocks blk, the superblock     *)
(* counts sb and the group descriptors gd in memory, the copies dsb and    *)
(* dgd of these on disk, and which of them are dirty.  Everything else is  *)
(* written through.  Disk I/O and kmalloc succeed; what runs out is space. *)
(* A volume has no extended attributes, which this driver never creates.   *)
(*                                                                         *)
(* Blocks are 1..NBLK, with 0 for a hole, and inodes 1..NINO.  The size of *)
(* a directory record is in units of which a block has DCAP.               *)
(***************************************************************************)
EXTENDS Naturals, Sequences, FiniteSets, SequencesExt, FiniteSetsExt

CONSTANTS
    NBLK, BPG,      \* blocks, and blocks per group
    NINO, IPG,      \* inodes, and inodes per group
    FIRST_INO,      \* the first inode that is not reserved, above 2
    NDIR,           \* EXT2_NDIR, direct block pointers (12)
    PPB,            \* block pointers per block
    BS,             \* block_size, in bytes
    RUNMAX,         \* blocks in one request of write_content (128)
    DCAP,           \* units in a directory block
    Name,           \* names, without "." and ".."
    Need,           \* dirent_size of a name, at most DCAP
    MAX_SYMLINKS,
    MAXDEPTH,       \* bound on the depth of the tree
    Contents,       \* what is written: files and links
    Targets,        \* the paths of the calls
    MAXCALLS        \* bound on the calls

Root   == 2
Blocks == 1..NBLK
Inos   == 1..NINO
group_count == (NBLK + BPG - 1) \div BPG
Groups == 0..group_count-1
group_of_ino(i) == (i - 1) \div IPG
group_of_block(b) == (b - 1) \div BPG

AllPaths == UNION {[1..k -> Name] : k \in 1..MAXDEPTH}

VARIABLES
    vol,        \* the volume
    writable,   \* whether ext2_mount found it fit for writing
    tree,       \* history: what each path should hold, by the calls so far
    calls       \* the calls so far, for the bound

vars == <<vol, writable, tree, calls>>

-----------------------------------------------------------------------------
(* Inodes and blocks.  A symbolic link is kept in the inode if it is short. *)

Modes == {"none", "reg", "dir", "lnk"}
NoPtrs == [i \in 0..NDIR+2 |-> 0]
NoLink == [abs |-> FALSE, path |-> <<>>]
Inode(mode, links) ==
    [mode |-> mode, links |-> links, size |-> 0, blocks |-> 0, block |-> NoPtrs, target |-> NoLink]

DataBlk(s) == [t |-> "data", s |-> s]
TabBlk(s)  == [t |-> "tab", s |-> s]
DirBlk(s)  == [t |-> "dir", s |-> s]
Zeros(n)   == SubSeq([i \in 1..n |-> 0], 1, n)

is_fast_symlink(in) == in.mode = "lnk" /\ in.blocks = 0
dirent_size(n) == IF n \in {".", ".."} THEN 1 ELSE Need[n]
Dirent(i, rec, n) == [ino |-> i, rec |-> rec, name |-> n]

-----------------------------------------------------------------------------
(* Allocation.  0 is "full". *)

sync_meta(v) ==
    [v EXCEPT !.dgd = IF v.gdirty = {} THEN @ ELSE v.gd, !.gdirty = {},
              !.dsb = IF v.sdirty THEN v.sb ELSE @, !.sdirty = FALSE]

(* The first group from goal on that satisfies Ok. *)
InTurn(goal, ks) == IF ks = {} THEN group_count ELSE (goal + Min(ks)) % group_count
FirstGroup(goal, Ok(_)) == InTurn(goal, {k \in Groups : Ok((goal + k) % group_count)})

FreeBlocks(v, g) == {b \in Blocks : group_of_block(b) = g} \ v.bbm
FreeInos(v, g) == {i \in Inos : group_of_ino(i) = g} \ v.ibm

ClaimBlock(v, g, b) ==
    [v |-> [v EXCEPT !.bbm = @ \cup {b}, !.gd[g].fb = @ - 1, !.sb.fb = @ - 1,
                     !.gdirty = @ \cup {g}, !.sdirty = TRUE], b |-> b]
BlockOf(v, g) == IF g = group_count THEN [v |-> v, b |-> 0] ELSE ClaimBlock(v, g, Min(FreeBlocks(v, g)))
alloc_block(v, goal) ==
    IF v.sb.fb = 0 THEN [v |-> v, b |-> 0]
    ELSE BlockOf(v, FirstGroup(goal, LAMBDA h : v.gd[h].fb # 0 /\ FreeBlocks(v, h) # {}))

free_block(v, b) ==
    LET g == group_of_block(b)
    IN  IF b \notin v.bbm THEN v
        ELSE [v EXCEPT !.bbm = @ \ {b}, !.gd[g].fb = @ + 1, !.sb.fb = @ + 1,
                       !.gdirty = @ \cup {g}, !.sdirty = TRUE]

One(p) == IF p THEN 1 ELSE 0

ClaimInode(v, g, i, isdir) ==
    [v |-> [v EXCEPT !.ibm = @ \cup {i}, !.gd[g].fi = @ - 1, !.gd[g].dirs = @ + One(isdir),
                     !.sb.fi = @ - 1, !.gdirty = @ \cup {g}, !.sdirty = TRUE], i |-> i]
InodeOf(v, g, isdir) == IF g = group_count THEN [v |-> v, i |-> 0] ELSE ClaimInode(v, g, Min(FreeInos(v, g)), isdir)
alloc_inode(v, goal, isdir) ==
    IF v.sb.fi = 0 THEN [v |-> v, i |-> 0]
    ELSE InodeOf(v, FirstGroup(goal, LAMBDA h : v.gd[h].fi # 0 /\ FreeInos(v, h) # {}), isdir)

free_inode_bit(v, i, isdir) ==
    LET g == group_of_ino(i)
    IN  IF i \notin v.ibm THEN v
        ELSE [v EXCEPT !.ibm = @ \ {i}, !.gd[g].fi = @ + 1, !.sb.fi = @ + 1,
                       !.gd[g].dirs = IF @ = 0 THEN 0 ELSE @ - One(isdir),
                       !.gdirty = @ \cup {g}, !.sdirty = TRUE]

write_inode(v, i, in) == [v EXCEPT !.inode[i] = in]

-----------------------------------------------------------------------------
(* Logical to physical blocks.  The operators that may allocate return the
   volume, the inode, and a block or 0. *)

span(depth) == PPB ^ depth
Depth(rel) == IF rel < span(1) THEN 1 ELSE IF rel < span(1) + span(2) THEN 2 ELSE 3
Before(depth) == (IF depth > 1 THEN span(1) ELSE 0) + (IF depth > 2 THEN span(2) ELSE 0)

Charged(v, in, a, zero) ==
    IF a.b = 0 THEN [v |-> v, in |-> in, b |-> 0]
    ELSE [v |-> IF zero THEN [a.v EXCEPT !.blk[a.b] = TabBlk(Zeros(PPB))] ELSE a.v,
          in |-> [in EXCEPT !.blocks = @ + 1], b |-> a.b]
inode_new_block(v, in, goal, zero) == Charged(v, in, alloc_block(v, goal), zero)

(* The loop down the indirect blocks; a is the result so far. *)
RECURSIVE Descend(_, _, _, _, _)
RECURSIVE Entered(_, _, _, _, _, _)
Entered(n, tab, idx, goal, rel, level) ==
    IF n.b = 0 THEN n ELSE Descend([n EXCEPT !.v.blk[tab].s[idx] = n.b], goal, rel, level - 1, TRUE)

RECURSIVE Step(_, _, _, _, _, _)
Step(a, idx, goal, rel, level, alloc) ==
    IF a.v.blk[a.b].s[idx] # 0 THEN Descend([a EXCEPT !.b = a.v.blk[a.b].s[idx]], goal, rel, level - 1, alloc)
    ELSE IF ~alloc THEN [a EXCEPT !.b = 0]
    ELSE Entered(inode_new_block(a.v, a.in, goal, level > 1), a.b, idx, goal, rel, level)

Descend(a, goal, rel, level, alloc) ==
    IF a.b = 0 \/ level = 0 THEN a ELSE Step(a, ((rel \div span(level - 1)) % PPB) + 1, goal, rel, level, alloc)

(* The pointer in the inode, made if it is missing. *)
Pointed(n, slot) == [n EXCEPT !.in.block[slot] = n.b]
Pointer(v, in, goal, slot, alloc) ==
    IF in.block[slot] # 0 \/ ~alloc THEN [v |-> v, in |-> in, b |-> in.block[slot]]
    ELSE Pointed(inode_new_block(v, in, goal, slot >= NDIR), slot)

bmap(v, in, goal, lblk, alloc) ==
    IF lblk < NDIR THEN Pointer(v, in, goal, lblk, alloc)
    ELSE LET depth == Depth(lblk - NDIR)
         IN  Descend(Pointer(v, in, goal, NDIR + depth - 1, alloc), goal, lblk - NDIR - Before(depth), depth, alloc)

(* The block of a logical block, without allocating. *)
BlockAt(v, in, lblk) == IF lblk < NDIR THEN in.block[lblk] ELSE bmap(v, in, 0, lblk, FALSE).b

(* Frees the blocks of a subtree that lie at or past the cutoff; the caller
   clears the pointer if the whole subtree does.  Returns the volume and the
   inode. *)
RECURSIVE trunc_tree(_, _, _, _, _, _)
Unhooked(x, blk, i, whole) == IF whole THEN x ELSE [x EXCEPT !.v.blk[blk].s[i] = 0]
FreeRoot(a, blk) == [v |-> free_block(a.v, blk), in |-> [a.in EXCEPT !.blocks = @ - 1]]

trunc_tree(v, in, blk, depth, base, cutoff) ==
    LET cs == span(depth - 1)
        Child(a, i) ==
            IF v.blk[blk].s[i] = 0 \/ base + i * cs <= cutoff THEN a
            ELSE Unhooked(trunc_tree(a.v, a.in, v.blk[blk].s[i], depth - 1, base + (i - 1) * cs, cutoff),
                          blk, i, base >= cutoff \/ base + (i - 1) * cs < cutoff)
        Below == IF depth = 0 THEN [v |-> v, in |-> in]
                 ELSE FoldLeft(Child, [v |-> v, in |-> in], [i \in 1..PPB |-> i])
    IN  IF blk = 0 \/ base + span(depth) <= cutoff THEN [v |-> v, in |-> in]
        ELSE IF base >= cutoff THEN FreeRoot(Below, blk) ELSE Below

Blocksize(n) == (n + BS - 1) \div BS

CutDirect(a, i, cutoff) ==
    IF i < cutoff \/ a.in.block[i] = 0 THEN a
    ELSE [v |-> free_block(a.v, a.in.block[i]), in |-> [a.in EXCEPT !.blocks = @ - 1, !.block[i] = 0]]
CutTree(a, slot, d, base, cutoff) ==
    LET x == trunc_tree(a.v, a.in, a.in.block[slot], d, base, cutoff)
    IN  IF base >= cutoff THEN [x EXCEPT !.in.block[slot] = 0] ELSE x

truncate_blocks(v, in, size) ==
    IF is_fast_symlink(in) THEN [v |-> v, in |-> in]
    ELSE FoldLeft(LAMBDA a, d : CutTree(a, NDIR + d - 1, d, NDIR + Before(d), Blocksize(size)),
                  FoldLeft(LAMBDA a, i : CutDirect(a, i - 1, Blocksize(size)), [v |-> v, in |-> in], [i \in 1..NDIR |-> i]),
                  <<1, 2, 3>>)

-----------------------------------------------------------------------------
(* File content. *)

Least(a, b) == IF a < b THEN a ELSE b

(* Block lb of the data, the last one padded with zeros. *)
ChunkOf(data, lb) ==
    LET s == SubSeq(data, lb * BS + 1, Least((lb + 1) * BS, Len(data)))
    IN  DataBlk(s \o Zeros(BS - Len(s)))

BlockText(v, b) == IF b = 0 THEN Zeros(BS) ELSE v.blk[b].s
read_range(v, in) ==
    SubSeq(FlattenSeq([i \in 1..Blocksize(in.size) |-> BlockText(v, BlockAt(v, in, i - 1))]), 1, in.size)

(* A run is a range of physical blocks waiting to be written in one request. *)
RECURSIVE PutRun(_, _, _, _)
PutRun(v, r, data, k) ==
    IF k = r.len THEN v
    ELSE PutRun([v EXCEPT !.blk[r.start + k] = ChunkOf(data, r.lb + k)], r, data, k + 1)
NoRun == [start |-> 0, len |-> 0, lb |-> 0]

(* Block lb has been mapped to m.b: it joins the run, starts another, or, if it
   is the last and not full, is written alone; a run that ends is written. *)
Flushed(a, m, data) ==
    [a EXCEPT !.v = PutRun(m.v, a.run, data, 0), !.in = m.in,
              !.committed = IF a.run.len > 0 THEN a.run.lb + a.run.len ELSE @]
OneBlock(a, m, data, lb) ==
    IF (lb + 1) * BS > Len(data)
    THEN [Flushed(a, m, data) EXCEPT !.v.blk[m.b] = ChunkOf(data, lb), !.committed = lb + 1, !.run = NoRun]
    ELSE IF a.run.len > 0 /\ m.b = a.run.start + a.run.len /\ a.run.len < RUNMAX
    THEN [a EXCEPT !.v = m.v, !.in = m.in, !.run.len = @ + 1]
    ELSE [Flushed(a, m, data) EXCEPT !.run = [start |-> m.b, len |-> 1, lb |-> lb]]

(* The loop over the blocks; a has the volume, the inode, the run, and how
   many leading blocks are committed.  A failed bmap ends it. *)
RECURSIVE WriteBlocks(_, _, _, _)
RECURSIVE WriteOn(_, _, _, _, _)
WriteOn(a, m, goal, data, lb) ==
    IF m.b = 0 THEN [a EXCEPT !.v = m.v, !.in = m.in, !.ok = FALSE]
    ELSE WriteBlocks(OneBlock(a, m, data, lb), goal, data, lb + 1)
WriteBlocks(a, goal, data, lb) ==
    IF lb = Blocksize(Len(data)) THEN [a EXCEPT !.v = PutRun(a.v, a.run, data, 0)]
    ELSE WriteOn(a, bmap(a.v, a.in, goal, lb, TRUE), goal, data, lb)

(* Mutant: blocks that wait to be written count as committed. *)
Kept_Pending(a, data) == Least((a.committed + a.run.len) * BS, Len(data))

(* What is kept of a write that failed. *)
Kept(a, data) == Least(a.committed * BS, Len(data))

Sized(t, i, size, ok) == [v |-> write_inode(t.v, i, [t.in EXCEPT !.size = size]), ok |-> ok]
Settled(a, i, data) ==
    IF a.ok THEN Sized(a, i, Len(data), TRUE)
    ELSE Sized(truncate_blocks(a.v, a.in, Kept(a, data)), i, Kept(a, data), FALSE)
Rewritten(t, i, data) ==
    Settled(WriteBlocks([v |-> t.v, in |-> t.in, run |-> NoRun, committed |-> 0, ok |-> TRUE],
                        group_of_ino(i), data, 0), i, data)
write_content(v, i, in, data) == Rewritten(truncate_blocks(v, in, Len(data)), i, data)

read_symlink(v, in) == IF is_fast_symlink(in) THEN in.target ELSE v.blk[BlockAt(v, in, 0)].target

-----------------------------------------------------------------------------
(* Directories: the records of each block follow one another; ino 0 marks an
   unused one.  A position is a block number and an index in it. *)

DirBlocks(v, in) == {BlockAt(v, in, lb) : lb \in 0..(in.size \div BS)-1} \ {0}
Records(v, in) == UNION {ToSet(v.blk[b].s) : b \in DirBlocks(v, in)}

InoOf(es) == IF es = {} THEN 0 ELSE (CHOOSE e \in es : TRUE).ino
dir_lookup(v, in, n) == InoOf({e \in Records(v, in) : e.ino # 0 /\ e.name = n})

dir_is_empty(v, in) == \A e \in Records(v, in) : e.ino # 0 => e.name \in {".", ".."}

(* The positions of the records with Ok, in the order of the loops. *)
PlacesIn(v, lb, b, Ok(_)) == IF b = 0 THEN {} ELSE {<<lb, k>> : k \in {j \in 1..Len(v.blk[b].s) : Ok(v.blk[b].s[j])}}
Places(v, in, Ok(_)) == UNION {PlacesIn(v, lb, BlockAt(v, in, lb), Ok) : lb \in 0..(in.size \div BS)-1}
First(ps) == CHOOSE p \in ps : \A q \in ps : p[1] < q[1] \/ (p[1] = q[1] /\ p[2] <= q[2])

Used(e) == IF e.ino = 0 THEN 0 ELSE dirent_size(e.name)

(* A record gives its room, or itself if it is unused, to a new one. *)
Split(e, i, n) ==
    IF Used(e) = 0 THEN <<Dirent(i, e.rec, n)>>
    ELSE <<[e EXCEPT !.rec = Used(e)], Dirent(i, e.rec - Used(e), n)>>

Spliced(s, k, t) == SubSeq(s, 1, k - 1) \o t \o SubSeq(s, k + 1, Len(s))

(* in is the caller's copy of the directory's inode: it is returned. *)
AddAt(v, d, in, n, i, b, k) ==
    [v |-> write_inode([v EXCEPT !.blk[b].s = Spliced(@, k, Split(@[k], i, n))], d, in), in |-> in, ok |-> TRUE]
AddBlock(m, d, n, i) ==
    IF m.b = 0 THEN [v |-> m.v, in |-> m.in, ok |-> FALSE]
    ELSE LET grown == [m.in EXCEPT !.size = @ + BS]
         IN  [v |-> write_inode([m.v EXCEPT !.blk[m.b] = DirBlk(<<Dirent(i, DCAP, n)>>)], d, grown),
              in |-> grown, ok |-> TRUE]
AddIn(v, d, in, n, i, ps) ==
    IF ps = {} THEN AddBlock(bmap(v, in, group_of_ino(d), in.size \div BS, TRUE), d, n, i)
    ELSE AddAt(v, d, in, n, i, BlockAt(v, in, First(ps)[1]), First(ps)[2])
dir_add(v, d, in, n, i) == AddIn(v, d, in, n, i, Places(v, in, LAMBDA e : e.rec >= Used(e) + dirent_size(n)))

(* The records without the k-th, merged into the one before it. *)
Without(s, k) ==
    IF k = 1 THEN [s EXCEPT ![1].ino = 0]
    ELSE [RemoveAt(s, k) EXCEPT ![k-1].rec = @ + s[k].rec]

RemoveAmong(v, d, in, ps) ==
    IF ps = {} THEN [v |-> v, ok |-> FALSE]
    ELSE [v |-> write_inode([v EXCEPT !.blk[BlockAt(v, in, First(ps)[1])].s = Without(@, First(ps)[2])], d, in), ok |-> TRUE]
dir_remove(v, d, in, n) == RemoveAmong(v, d, in, Places(v, in, LAMBDA e : e.ino # 0 /\ e.name = n))

dir_set_dotdot(v, i, parent) ==
    [v EXCEPT !.blk[BlockAt(v, v.inode[i], 0)].s[2].ino = parent]

-----------------------------------------------------------------------------
(* Paths.  A path is a sequence of names; 0 is "not found". *)

RECURSIVE Walk(_, _, _, _, _)
RECURSIVE WalkOn(_, _, _, _, _, _)
WalkOn(v, cur, child, rest, links, follow) ==
    IF child = 0 THEN 0
    ELSE IF v.inode[child].mode # "lnk" \/ (rest = <<>> /\ ~follow) THEN Walk(v, child, rest, links, follow)
    ELSE IF links = MAX_SYMLINKS THEN 0
    ELSE LET tgt == read_symlink(v, v.inode[child])
         IN  Walk(v, IF tgt.abs THEN Root ELSE cur, tgt.path \o rest, links + 1, follow)
Walk(v, cur, p, links, follow) ==
    IF p = <<>> THEN cur
    ELSE IF v.inode[cur].mode # "dir" THEN 0
    ELSE WalkOn(v, cur, dir_lookup(v, v.inode[cur], Head(p)), Tail(p), links, follow)

namei(v, p, follow) == Walk(v, Root, p, 0, follow)

(* The inode of the parent directory of a path, or 0. *)
OnlyDir(v, d) == IF d # 0 /\ v.inode[d].mode = "dir" THEN d ELSE 0
split_parent(v, p) == OnlyDir(v, IF p = <<>> THEN 0 ELSE namei(v, Front(p), TRUE))

-----------------------------------------------------------------------------
(* Inodes come and go.  Each operator returns the volume, the copy in of the
   parent's inode where the caller goes on with it, and whether it succeeded. *)

Emptied(t, i, in) ==
    write_inode(t.v, i, [t.in EXCEPT !.links = 0, !.size = 0, !.target = IF is_fast_symlink(in) THEN NoLink ELSE @])
release_inode(v, i, in) == free_inode_bit(Emptied(truncate_blocks(v, in, 0), i, in), i, in.mode = "dir")

DropLink(v, i, in) == IF in.links = 0 THEN release_inode(v, i, in) ELSE write_inode(v, i, in)
Fewer(in, least) == [in EXCEPT !.links = IF @ > least THEN @ - 1 ELSE @]
UnlinkAt(v, d, din, n, want_dir, i) ==
    IF i = 0 \/ (v.inode[i].mode = "dir") # want_dir \/ (want_dir /\ ~dir_is_empty(v, v.inode[i]))
    THEN [v |-> v, in |-> din, ok |-> FALSE]
    ELSE LET d1 == IF want_dir THEN Fewer(din, 2) ELSE din
         IN  [v |-> DropLink(write_inode(dir_remove(v, d, din, n).v, d, d1), i,
                             IF want_dir THEN [v.inode[i] EXCEPT !.links = 0] ELSE Fewer(v.inode[i], 0)),
              in |-> d1, ok |-> TRUE]
do_unlink(v, d, din, n, want_dir) == UnlinkAt(v, d, din, n, want_dir, dir_lookup(v, din, n))

Entry(r, i, isdir) == IF r.ok THEN [v |-> r.v, i |-> i] ELSE [v |-> free_inode_bit(r.v, i, isdir), i |-> 0]
NodeAt(a, d, din, n, mode) ==
    IF a.i = 0 THEN a
    ELSE Entry(dir_add(write_inode(a.v, a.i, Inode(mode, 1)), d, din, n, a.i), a.i, mode = "dir")
create_node(v, d, din, n, mode) == NodeAt(alloc_inode(v, group_of_ino(d), mode = "dir"), d, din, n, mode)

-----------------------------------------------------------------------------
(* The operations, as the volume they leave and whether they succeed. *)

File(s) == [t |-> "file", s |-> s]
(* A link's target; len is "fast" if it fits in the inode, "slow" if it takes
   a block, "bad" if it is empty or longer than a block. *)
Link(target, len) == [t |-> "lnk", target |-> target, len |-> len]

Refused(v) == [v |-> v, ok |-> FALSE]

SlowLink(m, i, target) ==
    IF m.b = 0 THEN Refused(write_inode(m.v, i, m.in))
    ELSE [v |-> write_inode([m.v EXCEPT !.blk[m.b] = [t |-> "lnk", target |-> target, s |-> <<>>]],
                            i, [m.in EXCEPT !.size = 1]), ok |-> TRUE]
LinkAt(a, c) ==
    IF a.i = 0 THEN Refused(a.v)
    ELSE IF c.len = "fast" THEN [v |-> write_inode(a.v, a.i, [a.v.inode[a.i] EXCEPT !.target = c.target, !.size = 1]), ok |-> TRUE]
    ELSE SlowLink(bmap(a.v, a.v.inode[a.i], group_of_ino(a.i), 0, TRUE), a.i, c.target)
write_link(v, d, din, n, c) ==
    IF c.len = "bad" THEN Refused(v) ELSE LinkAt(create_node(v, d, din, n, "lnk"), c)

Save(r) == [v |-> sync_meta(r.v), ok |-> r.ok]
Contain(a, c) == IF a.i = 0 THEN Refused(a.v) ELSE write_content(a.v, a.i, a.v.inode[a.i], c.s)
Recreate(u, d, n, c) ==
    IF c.t = "lnk" THEN write_link(u.v, d, u.in, n, c) ELSE Contain(create_node(u.v, d, u.in, n, "reg"), c)
WriteAt(v, d, n, c, i) ==
    IF i # 0 /\ v.inode[i].mode = "dir" THEN Refused(v)
    ELSE IF i # 0 /\ c.t # "lnk" /\ v.inode[i].mode # "lnk" THEN Save(Contain([v |-> v, i |-> i], c))
    ELSE Save(Recreate(IF i = 0 THEN [v |-> v, in |-> v.inode[d], ok |-> TRUE] ELSE do_unlink(v, d, v.inode[d], n, FALSE), d, n, c))
WriteIn(v, d, n, c) == IF d = 0 THEN Refused(v) ELSE WriteAt(v, d, n, c, dir_lookup(v, v.inode[d], n))
write_file(v, p, c) == WriteIn(v, split_parent(v, p), Last(p), c)

UnlinkIn(v, d, n, want_dir) == IF d = 0 THEN Refused(v) ELSE Save(do_unlink(v, d, v.inode[d], n, want_dir))
unlink(v, p, want_dir) == UnlinkIn(v, split_parent(v, p), Last(p), want_dir)

Joined(r, d, i, in) ==
    IF r.ok THEN [v |-> sync_meta(write_inode(r.v, d, [r.in EXCEPT !.links = @ + 1])), ok |-> TRUE]
    ELSE Refused(sync_meta(free_inode_bit(truncate_blocks(r.v, in, 0).v, i, TRUE)))
DirWith(m, d, din, n, i) ==
    IF m.b = 0 THEN Refused(sync_meta(free_inode_bit(m.v, i, TRUE)))
    ELSE LET in == [m.in EXCEPT !.size = BS]
         IN  Joined(dir_add(write_inode([m.v EXCEPT !.blk[m.b] = DirBlk(<<Dirent(i, 1, "."), Dirent(d, DCAP - 1, "..")>>)], i, in),
                            d, din, n, i), d, i, in)
DirAs(a, d, din, n) ==
    IF a.i = 0 THEN Refused(a.v) ELSE DirWith(bmap(a.v, Inode("dir", 2), group_of_ino(a.i), 0, TRUE), d, din, n, a.i)
DirIn(v, d, n) ==
    IF d = 0 THEN Refused(v)
    ELSE IF dir_lookup(v, v.inode[d], n) # 0 THEN Refused(v)
    ELSE DirAs(alloc_inode(v, group_of_ino(d), TRUE), d, v.inode[d], n)
mkdir(v, p) == DirIn(v, split_parent(v, p), Last(p))

(* A destination that is a directory stands for the source's name in it. *)
Inside(v, i, src, dst) == IF i # 0 /\ v.inode[i].mode = "dir" THEN Append(dst, Last(src)) ELSE dst
target_path(v, src, dst) == Inside(v, namei(v, dst, TRUE), src, dst)

(* What a path reads as: a link reads as itself. *)
read_file(v, i) ==
    LET in == v.inode[i]
    IN  IF in.mode = "reg" THEN File(read_range(v, in))
        ELSE Link(read_symlink(v, in),
                  IF in.size = 0 THEN "bad" ELSE IF is_fast_symlink(in) THEN "fast" ELSE "slow")

CpFrom(v, i, src, dst) ==
    IF i = 0 \/ v.inode[i].mode = "dir" THEN Refused(v)
    ELSE write_file(v, target_path(v, src, dst), read_file(v, i))
cp(v, src, dst) == CpFrom(v, namei(v, src, FALSE), src, dst)

(* Whether a directory is i or lies below it. *)
RECURSIVE InSubtree(_, _, _)
InSubtree(v, walk, i) ==
    walk = i \/ (walk # Root /\ InSubtree(v, dir_lookup(v, v.inode[walk], ".."), i))

(* Mutant: ".." still names the old parent. *)
Moved_NoDotDot(v, i, s, sin, d, din) ==
    write_inode(write_inode(v, d, [din EXCEPT !.links = @ + 1]),
                s, [sin EXCEPT !.links = IF @ > 2 THEN @ - 1 ELSE @])

(* The links of the two parents of a directory that changed parents. *)
Moved(v, i, s, sin, d, din) ==
    write_inode(write_inode(dir_set_dotdot(v, i, d), d, [din EXCEPT !.links = @ + 1]),
                s, [sin EXCEPT !.links = IF @ > 2 THEN @ - 1 ELSE @])

(* x is the move: the source's parent s, its inode i and its name, whether it is
   a directory, and the destination's parent d and name.  The parents' inodes
   are one copy if they are one directory. *)
MvEnd(v, x, a, r) ==
    [v |-> sync_meta(IF x.dir /\ x.d # x.s THEN Moved(r.v, x.i, x.s, v.inode[x.s], x.d, a.in) ELSE r.v), ok |-> r.ok]
MvRemove(v, x, a) ==
    IF ~a.ok THEN Refused(sync_meta(a.v))
    ELSE MvEnd(v, x, a, dir_remove(a.v, x.s, IF x.s = x.d THEN a.in ELSE v.inode[x.s], x.from))
MvAdd(v, x, u) ==
    IF ~u.ok THEN Refused(sync_meta(u.v)) ELSE MvRemove(v, x, dir_add(u.v, x.d, u.in, x.to, x.i))
MvOver(v, x, t) ==
    IF t = x.i THEN [v |-> v, ok |-> TRUE]
    ELSE IF t # 0 /\ (v.inode[t].mode = "dir") # x.dir THEN Refused(v)
    ELSE MvAdd(v, x, IF t = 0 THEN [v |-> v, in |-> v.inode[x.d], ok |-> TRUE]
                     ELSE do_unlink(v, x.d, v.inode[x.d], x.to, x.dir))
MvInto(v, x) ==
    IF x.d = 0 THEN Refused(v)
    ELSE IF x.d = x.s /\ x.from = x.to THEN [v |-> v, ok |-> TRUE]
    ELSE IF x.dir /\ InSubtree(v, x.d, x.i) THEN Refused(v)
    ELSE MvOver(v, x, dir_lookup(v, v.inode[x.d], x.to))
MvTo(v, s, i, src, dp) ==
    MvInto(v, [s |-> s, i |-> i, from |-> Last(src), dir |-> v.inode[i].mode = "dir",
               d |-> split_parent(v, dp), to |-> Last(dp)])
MvOf(v, s, i, src, dst) == IF i = 0 THEN Refused(v) ELSE MvTo(v, s, i, src, target_path(v, src, dst))
MvFrom(v, s, src, dst) == IF s = 0 THEN Refused(v) ELSE MvOf(v, s, dir_lookup(v, v.inode[s], Last(src)), src, dst)
mv(v, src, dst) == MvFrom(v, split_parent(v, src), src, dst)

-----------------------------------------------------------------------------
(* The calls.  tree[p] is the set of what path p may hold: usually one thing,
   but a write that ran out of space may leave a prefix of its data. *)

Absent == [t |-> "none"]
Dir    == [t |-> "dir"]

(* The inode a path leads to when no link is followed, or 0. *)
RECURSIVE InoAt(_, _, _)
InoAt(v, cur, p) ==
    IF p = <<>> \/ cur = 0 THEN cur
    ELSE IF v.inode[cur].mode # "dir" THEN 0
    ELSE InoAt(v, dir_lookup(v, v.inode[cur], Head(p)), Tail(p))

Seen(v, i) == IF i = 0 THEN Absent ELSE IF v.inode[i].mode = "dir" THEN Dir ELSE read_file(v, i)
Found(v, p) == Seen(v, InoAt(v, Root, p))

(* The path of what a call names: its parent's, after links, and its name. *)
PathOf(v, d) == CHOOSE q \in AllPaths \cup {<<>>} : InoAt(v, Root, q) = d
Real(v, p) == IF split_parent(v, p) = 0 THEN <<>> ELSE Append(PathOf(v, split_parent(v, p)), Last(p))

(* What a failed write of c may leave where it found one of old. *)
Leftovers(old, c) ==
    IF Dir \in old THEN old
    ELSE old \cup (IF c.t = "lnk" THEN {Absent, Link(NoLink, "bad")}
                   ELSE {File(SubSeq(c.s, 1, k * BS)) : k \in 0..Len(c.s) \div BS})

Stored(v, p, c, ok) ==
    IF Real(v, p) \notin AllPaths THEN tree
    ELSE [tree EXCEPT ![Real(v, p)] = IF ok THEN {c} ELSE Leftovers(@, c)]

Under(p, q) == IsPrefix(p, q)
Renamed(from, to) ==
    [q \in AllPaths |->
        LET old == from \o SubSeq(q, Len(to) + 1, Len(q))
        IN  IF Under(to, q) THEN IF old \in AllPaths THEN tree[old] ELSE {Absent}
            ELSE IF Under(from, q) THEN {Absent} ELSE tree[q]]

(* Bound: nothing lies deeper than MAXDEPTH. *)
Barren(v, i) == i # 0 /\ v.inode[i].mode = "dir" => dir_is_empty(v, v.inode[i])
Shallow(v) == \A p \in {q \in AllPaths : Len(q) = MAXDEPTH} : Barren(v, InoAt(v, Root, p))

Ready == writable /\ calls < MAXCALLS

Done(r) ==
    /\ Shallow(r.v)
    /\ vol' = r.v
    /\ calls' = calls + 1
    /\ UNCHANGED writable

ext2_write_file(p, c) ==
    /\ Ready
    /\ \E r \in {write_file(vol, p, c)} : Done(r) /\ tree' = Stored(vol, p, c, r.ok)

ext2_delete_file(p) ==
    /\ Ready
    /\ \E r \in {unlink(vol, p, FALSE)} :
        Done(r) /\ tree' = IF r.ok THEN [tree EXCEPT ![Real(vol, p)] = {Absent}] ELSE tree

ext2_mkdir(p) ==
    /\ Ready
    /\ \E r \in {mkdir(vol, p)} :
        Done(r) /\ tree' = IF r.ok THEN [tree EXCEPT ![Real(vol, p)] = {Dir}] ELSE tree

ext2_rmdir(p) ==
    /\ Ready
    /\ \E r \in {unlink(vol, p, TRUE)} :
        Done(r) /\ tree' = IF r.ok THEN [tree EXCEPT ![Real(vol, p)] = {Absent}] ELSE tree

ext2_cp(src, dst) ==
    /\ Ready
    /\ \E r \in {cp(vol, src, dst)}, i \in {namei(vol, src, FALSE)} :
        /\ Done(r)
        /\ tree' = IF i = 0 \/ vol.inode[i].mode = "dir" THEN tree
                   ELSE Stored(vol, target_path(vol, src, dst), read_file(vol, i), r.ok)

ext2_mv(src, dst) ==
    /\ Ready
    /\ \E r \in {mv(vol, src, dst)} :
        /\ Done(r)
        /\ tree' = IF ~r.ok THEN tree
                   ELSE Renamed(Real(vol, src), Real(vol, target_path(vol, src, dst)))

(* The checks of ext2_mount that decide whether the volume is written: the
   features it may not write, and the state it was left in. *)
Writable(unsafe, clean, errors) == ~unsafe /\ clean /\ ~errors

(* The power fails between two calls, and the volume is mounted again: the
   counts are read from the disk.  The driver never changes the state that
   decides whether the volume is written. *)
ext2_mount ==
    /\ vol' = [vol EXCEPT !.sb = vol.dsb, !.gd = vol.dgd, !.gdirty = {}, !.sdirty = FALSE]
    /\ UNCHANGED <<writable, tree, calls>>

Fresh ==
    LET b == Min(Blocks)
        fb == [g \in Groups |-> Cardinality({x \in Blocks \ {b} : group_of_block(x) = g})]
        fi == [g \in Groups |-> Cardinality({x \in Inos : x >= FIRST_INO /\ group_of_ino(x) = g})]
        gd == [g \in Groups |-> [fb |-> fb[g], fi |-> fi[g], dirs |-> One(g = group_of_ino(Root))]]
        sb == [fb |-> NBLK - 1, fi |-> NINO - FIRST_INO + 1]
    IN  [ibm |-> 1..FIRST_INO-1, bbm |-> {b}, sb |-> sb, gd |-> gd, dsb |-> sb, dgd |-> gd,
         gdirty |-> {}, sdirty |-> FALSE,
         inode |-> [i \in Inos |-> IF i = Root THEN [Inode("dir", 2) EXCEPT !.size = BS, !.blocks = 1, !.block[0] = b]
                                   ELSE Inode("none", 0)],
         blk |-> [x \in Blocks |-> IF x = b THEN DirBlk(<<Dirent(Root, 1, "."), Dirent(Root, DCAP - 1, "..")>>)
                                   ELSE DataBlk(Zeros(BS))]]

Init ==
    /\ vol = Fresh
    /\ \E unsafe, clean, errors \in BOOLEAN : writable = Writable(unsafe, clean, errors)
    /\ tree = [p \in AllPaths |-> {Absent}]
    /\ calls = 0

Next ==
    \/ \E p \in Targets :
        \/ \E c \in Contents : ext2_write_file(p, c)
        \/ ext2_delete_file(p)
        \/ ext2_mkdir(p)
        \/ ext2_rmdir(p)
        \/ \E q \in Targets : ext2_cp(p, q) \/ ext2_mv(p, q)
    \/ ext2_mount

Spec == Init /\ [][Next]_vars

-----------------------------------------------------------------------------
(* Properties. *)

(* The inodes a path leads to, and the blocks of an inode with their owner's
   pointer, one per pointer. *)
Live(v) == {Root} \cup ({InoAt(v, Root, p) : p \in AllPaths} \ {0})

RECURSIVE Subtree(_, _, _)
Subtree(v, b, depth) ==
    IF b = 0 THEN <<>>
    ELSE <<b>> \o (IF depth = 0 THEN <<>>
                   ELSE FlattenSeq([i \in 1..PPB |-> Subtree(v, v.blk[b].s[i], depth - 1)]))
BlocksOf(v, i) ==
    FlattenSeq([k \in 1..NDIR+3 |-> Subtree(v, v.inode[i].block[k-1], IF k <= NDIR THEN 0 ELSE k - NDIR)])

(* The volume is well-formed: block numbers and counts are in range, and a
   directory's records fill each of its blocks exactly, which is what the
   loops over rec_len rely on. *)
TypeOK ==
    /\ vol.ibm \subseteq Inos /\ vol.bbm \subseteq Blocks
    /\ \A i \in Inos : vol.inode[i].mode \in Modes /\ vol.inode[i].links \in Nat /\ vol.inode[i].blocks \in Nat
    /\ vol.sb \in [fb : 0..NBLK, fi : 0..NINO]
    /\ \A i \in Live(vol) : vol.inode[i].mode = "dir" =>
        \A b \in DirBlocks(vol, vol.inode[i]) :
            /\ vol.blk[b].t = "dir"
            /\ FoldLeft(LAMBDA n, e : n + e.rec, 0, vol.blk[b].s) = DCAP
            /\ \A k \in 1..Len(vol.blk[b].s) : vol.blk[b].s[k].rec >= Used(vol.blk[b].s[k])
    /\ writable \in BOOLEAN /\ calls \in 0..MAXCALLS

(* Every inode and block in use is marked used and has one owner, i_blocks,
   the link counts, the counts of directories and the free counts agree with
   the bitmaps and the tree, and "." and ".." name the directory and its
   parent.  Only a directory that could not grow into an indirect block loses
   a block: what is marked used and has no owner is an empty table of
   pointers. *)
Accounting ==
    LET v == vol
        owned(i) == BlocksOf(v, i)
        dirs == {i \in Live(v) : v.inode[i].mode = "dir"}
        subdirs(i) == {p \in AllPaths : Found(v, p) = Dir /\ InoAt(v, Root, Front(p)) = i}
    IN  /\ v.ibm = (1..FIRST_INO-1) \cup Live(v)
        /\ \A i \in Live(v) : v.inode[i].blocks = Len(owned(i)) /\ IsInjective(owned(i))
        /\ \A i, j \in Live(v) : i # j => ToSet(owned(i)) \cap ToSet(owned(j)) = {}
        /\ UNION {ToSet(owned(i)) : i \in Live(v)} \subseteq v.bbm
        /\ \A b \in v.bbm \ UNION {ToSet(owned(i)) : i \in Live(v)} : v.blk[b] = TabBlk(Zeros(PPB))
        /\ \A i \in Live(v) \ dirs : v.inode[i].links = 1
        /\ \A i \in dirs : v.inode[i].links = 2 + Cardinality(subdirs(i))
        /\ \A p \in AllPaths : Found(v, p) = Dir =>
            LET in == v.inode[InoAt(v, Root, p)]
            IN  /\ dir_lookup(v, in, ".") = InoAt(v, Root, p)
                /\ dir_lookup(v, in, "..") = InoAt(v, Root, Front(p))
        /\ \A g \in Groups :
            v.gd[g] = [fb |-> Cardinality(FreeBlocks(v, g)), fi |-> Cardinality(FreeInos(v, g)),
                       dirs |-> Cardinality({i \in dirs : group_of_ino(i) = g})]
        /\ v.sb = [fb |-> NBLK - Cardinality(v.bbm), fi |-> NINO - Cardinality(v.ibm)]

(* Each path holds what the calls put there: a call changes only the paths it
   names, whatever links its path goes through and wherever it fails, and a
   write that runs out of space leaves a prefix of its data. *)
TreeKept == \A p \in AllPaths : Found(vol, p) \in tree[p]

(* When a call returns, everything is on disk: the counts in memory are those
   of the disk, on every early return too. *)
Synced == vol.dsb = vol.sb /\ vol.dgd = vol.gd
=============================================================================
