----------------------------- MODULE CfsVolume -----------------------------
(***************************************************************************)
(* The on-disk structures of CFS and the functions of src/cfs.c that work  *)
(* on them: the two bitmaps, inodes with their extents, directories, and   *)
(* the tree walk of fsck.                                                  *)
(*                                                                         *)
(* A volume v is a record: the bitmaps bbm and ibm (the sets of used       *)
(* blocks and inodes), the inode table, and the free counts sfb and sfi of *)
(* the superblock.  Within a transaction t it also has the free counts fb  *)
(* and fi of the mount, the contents blk of the data region, and the       *)
(* directory blocks dirty whose new contents are still in the transaction. *)
(*                                                                         *)
(* Block 0 of the data region stands for "none"; its other blocks are      *)
(* 1..NBLOCKS.  Inode 0 is reserved and inode 1 is the root.  Names have   *)
(* equal length, so that a directory block holds DIRCAP entries.           *)
(***************************************************************************)
EXTENDS Naturals, Sequences, FiniteSets

CONSTANTS
    Name,       \* the names of directory entries, without "." and ".."
    Value,      \* the contents of a data block
    Torn,       \* the contents of a block whose write was interrupted
    NINODES,    \* the usable inodes are 1..NINODES
    NBLOCKS,    \* the blocks of the data region are 1..NBLOCKS
    DIRCAP,     \* entries that fit one directory block
    MAXEXT      \* CFS_INLINE_EXTENTS

ASSUME VolumeAssumption ==
    /\ {NINODES, NBLOCKS, MAXEXT} \subseteq Nat \ {0}
    /\ DIRCAP \in Nat \ {0, 1}
    /\ Torn \notin Value
    /\ {".", ".."} \cap Name = {}

Root == 1
Ino == 1..NINODES
Block == 1..NBLOCKS

(* The contents of a block: file data, or directory entries. *)
DataBlock(x) == [dir |-> FALSE, val |-> x]
DirBlock(f) == [dir |-> TRUE, ent |-> f]
Entries(c) == IF c.dir THEN c.ent ELSE [n \in {} |-> 0]

(* An inode: its type, its link count, the blocks of its extents in file
   order, and the data kept in the inode itself, if any. *)
Inode(kind, links, ext, inl) == [kind |-> kind, links |-> links, ext |-> ext, inl |-> inl]

Elems(s) == {s[k] : k \in 1..Len(s)}
Least(S) == CHOOSE x \in S : \A y \in S : x <= y

-----------------------------------------------------------------------------
(* Bitmaps.  The allocators take the first free bit; 0 is "full". *)

alloc_block(t) == IF t.bbm = Block THEN 0 ELSE Least(Block \ t.bbm)
alloc_inode(t) == IF Ino \subseteq t.ibm \cup {Root} THEN 0 ELSE Least(Ino \ (t.ibm \cup {Root}))

TakeBlock(t, b) == [t EXCEPT !.bbm = @ \cup {b}, !.fb = @ - 1]
TakeInode(t, n) == [t EXCEPT !.ibm = @ \cup {n}, !.fi = @ - 1]
free_inode(t, n) == [t EXCEPT !.ibm = @ \ {n}, !.fi = @ + 1]

(* Mutant: one block too many is counted as freed. *)
inode_free_data_CountsMore(t, ext) == [t EXCEPT !.bbm = @ \ Elems(ext), !.fb = @ + Len(ext) + 1]

(* free_block for every block of an inode; each counts one more free block.
   The inode table keeps its entry until write_dinode. *)
inode_free_data(t, ext) == [t EXCEPT !.bbm = @ \ Elems(ext), !.fb = @ + Len(ext)]

write_dinode(t, n, din) == [t EXCEPT !.inode[n] = din]
sync_super(t) == [t EXCEPT !.sfb = t.fb, !.sfi = t.fi]

(* Extents: a block that continues the last extent joins it. *)
NumExtents(ext) == Cardinality({k \in 1..Len(ext) : k = 1 \/ ext[k] # ext[k - 1] + 1})
CanPush(ext, b) == NumExtents(Append(ext, b)) <= MAXEXT

-----------------------------------------------------------------------------
(* Directories. *)

(* bd_read_block, for a directory block. *)
Dir(t, b) == Entries(IF b \in DOMAIN t.dirty THEN t.dirty[b] ELSE t.blk[b])
bd_write_dir(t, b, f) ==
    [t EXCEPT !.dirty = [x \in DOMAIN t.dirty \cup {b} |-> IF x = b THEN DirBlock(f) ELSE @[x]]]

With(f, n, c) == [x \in DOMAIN f \cup {n} |-> IF x = n THEN c ELSE f[x]]
Without(f, n) == [x \in DOMAIN f \ {n} |-> f[x]]

(* The positions of d's blocks that hold an entry for n. *)
Holding(t, d, n) == {k \in 1..Len(t.inode[d].ext) : n \in DOMAIN Dir(t, t.inode[d].ext[k])}

dir_lookup(t, d, n) ==
    IF Holding(t, d, n) = {} THEN 0
    ELSE Dir(t, t.inode[d].ext[Least(Holding(t, d, n))])[n]

dir_init_block(self, parent) == DirBlock([n \in {".", ".."} |-> IF n = "." THEN self ELSE parent])

Roomy(t, d) ==
    {k \in 1..Len(t.inode[d].ext) : Cardinality(DOMAIN Dir(t, t.inode[d].ext[k])) < DIRCAP}

(* dir_add succeeds when a block has room, or the directory can grow by a
   block.  The new block is written in place, before the commit. *)
CanAdd(t, d) ==
    Roomy(t, d) # {} \/ (alloc_block(t) # 0 /\ CanPush(t.inode[d].ext, alloc_block(t)))

dir_add(t, d, n, c) ==
    IF Roomy(t, d) # {}
    THEN LET b == t.inode[d].ext[Least(Roomy(t, d))] IN bd_write_dir(t, b, With(Dir(t, b), n, c))
    ELSE LET b == alloc_block(t) IN
         [TakeBlock(t, b) EXCEPT !.blk[b] = DirBlock([x \in {n} |-> c]),
                                 !.inode[d].ext = Append(@, b)]

dir_remove(t, d, n) ==
    LET b == t.inode[d].ext[Least(Holding(t, d, n))] IN bd_write_dir(t, b, Without(Dir(t, b), n))

dir_is_empty(t, d) == \A b \in Elems(t.inode[d].ext) : DOMAIN Dir(t, b) \subseteq {".", ".."}

-----------------------------------------------------------------------------
(* fsck.  Its walk reads the volume v and the contents c of the data region
   and starts at the root.  A block or an inode number outside the volume is
   counted and otherwise ignored. *)

EntriesOf(v, c, d) == {e \in (1..Len(v.inode[d].ext)) \X (Name \cup {".", ".."}) :
                            e[2] \in DOMAIN Entries(c[v.inode[d].ext[e[1]]])}
Target(v, c, d, e) == Entries(c[v.inode[d].ext[e[1]]])[e[2]]

Named(v, c, d) ==
    IF v.inode[d].kind = "dir"
    THEN {Target(v, c, d, e) : e \in {x \in EntriesOf(v, c, d) : x[2] \notin {".", ".."}}}
    ELSE {}
Children(v, c, d) == Named(v, c, d) \cap Ino

(* What the walk reaches from the root of a tree, a set of inodes per inode. *)
ReachIn(tree) ==
    LET reach[k \in 0..NINODES] ==
            IF k = 0 THEN {Root}
            ELSE LET seen == reach[k - 1] IN seen \cup UNION {tree[d] : d \in seen}
    IN  reach[NINODES] \cap Ino
Reach(v, c) == ReachIn([d \in Ino |-> Children(v, c, d)])

(* fsck_refs: every entry of every reachable directory, dots included. *)
Refs(v, c, n) ==
    Cardinality({r \in UNION {{d} \X EntriesOf(v, c, d) :
                                  d \in {x \in Reach(v, c) : v.inode[x].kind = "dir"}} :
                    Target(v, c, r[1], r[2]) = n})

(* fsck_mark_blocks over the reachable inodes. *)
Mentioned(v, c) == UNION {Elems(v.inode[n].ext) : n \in Reach(v, c)}
Marked(v, c) == Mentioned(v, c) \cap Block
MarkedTwice(v, c) ==
    \E m, n \in Reach(v, c) : \E j \in 1..Len(v.inode[m].ext), k \in 1..Len(v.inode[n].ext) :
        v.inode[m].ext[j] = v.inode[n].ext[k] /\ v.inode[m].ext[j] \in Block /\ <<m, j>> # <<n, k>>

(* What fsck reports and its repair leaves alone: blocks used twice, and
   numbers outside the volume. *)
Unfixable(v, c) == UNION {
    IF MarkedTwice(v, c) THEN {"block_dup"} ELSE {},
    IF Mentioned(v, c) \subseteq Block THEN {} ELSE {"block_badref"},
    IF \A d \in Reach(v, c) : Named(v, c, d) \subseteq Ino THEN {} ELSE {"inode_badref"}}

(* The problems cfs_fsck reports, by the counters of cfs_fsck_result_t. *)
Problems(v, c) ==
    LET reach == Reach(v, c)
        marked == Marked(v, c)
    IN  UNION {Unfixable(v, c),
        IF marked \subseteq v.bbm THEN {} ELSE {"block_badref"},
        IF v.bbm \subseteq marked THEN {} ELSE {"block_leaks"},
        IF reach \subseteq v.ibm THEN {} ELSE {"inode_badref"},
        IF v.ibm \subseteq reach THEN {} ELSE {"inode_leaks"},
        IF \A n \in reach : v.inode[n].links = Refs(v, c, n) THEN {} ELSE {"linkcount_bad"},
        IF /\ v.sfb = NBLOCKS - Cardinality(marked)
           /\ v.sfi = NINODES - Cardinality(reach)
        THEN {} ELSE {"freecount_bad"}}
=============================================================================
