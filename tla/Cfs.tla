-------------------------------- MODULE Cfs --------------------------------
(***************************************************************************)
(* The mutating operations of CFS (src/cfs.c), over a journal that makes   *)
(* their metadata writes atomic (module CfsJournal), with power loss       *)
(* between any two steps and inside the in-place data writes.              *)
(*                                                                         *)
(* One operation runs at a time.  It collects its metadata changes in txn  *)
(* and writes new data and directory blocks in place, "ordered", before    *)
(* the commit.  An operation that fails without having written a block of  *)
(* an existing file leaves no trace, and is not a step of this module.     *)
(* Permission bits and owners are left out: the caller is root, who may    *)
(* do everything.  A symlink is a file of at most one block: do_write_file *)
(* keeps its target in the inode or in a block as it does a file's data.   *)
(***************************************************************************)
EXTENDS CfsVolume

CONSTANTS
    MAXBLKS,    \* the largest file, in blocks
    MAXDRIFT,   \* bound: how far the superblock's free count may go wrong
    PowerLoss   \* whether power can fail

ASSUME CfsAssumption == {MAXBLKS, MAXDRIFT} \subseteq Nat \ {0} /\ PowerLoss \in BOOLEAN

VARIABLES
    store,  \* on disk: the committed metadata
    blk,    \* on disk: the contents of the data region
    fs,     \* in memory: free_blocks and free_inodes of the mount
    txn,    \* in memory: the metadata the running operation has written
    pc,     \* "idle", "write" in the block loop of do_write_file, "commit"
    op,     \* the operation's locals: the inode and the data still to write
    last,   \* history: per inode, the file contents last committed
    hurt    \* history: files whose rewrite began and did not commit

vars == <<store, blk, fs, txn, pc, op, last, hurt>>

NoOp == [ino |-> 0, links |-> 0, ext |-> <<>>, rest |-> <<>>, data |-> <<>>]
NoDirty == [b \in {} |-> DataBlock(Torn)]

(* txn_begin: the volume as bd_read_block now shows it. *)
txn_begin == [bbm |-> store.bbm, ibm |-> store.ibm, inode |-> store.inode,
              sfb |-> store.sfb, sfi |-> store.sfi, fb |-> fs.fb, fi |-> fs.fi,
              dirty |-> NoDirty, blk |-> blk]
NoTxn == [sfb |-> 0]

(* cfs_format, and the mount that follows it. *)
Format == [bbm |-> {1}, ibm |-> {Root}, sfb |-> NBLOCKS - 1, sfi |-> NINODES - 1,
           inode |-> [n \in Ino |-> IF n = Root THEN Inode("dir", 2, <<1>>, <<>>)
                                                ELSE Inode("free", 0, <<>>, <<>>)]]

Init ==
    /\ store = Format
    /\ blk = [b \in Block |-> IF b = 1 THEN dir_init_block(Root, Root) ELSE DataBlock(Torn)]
    /\ fs = [fb |-> Format.sfb, fi |-> Format.sfi]
    /\ txn = NoTxn
    /\ pc = "idle"
    /\ op = NoOp
    /\ last = [n \in Ino |-> <<>>]
    /\ hurt = {}

(* The directories a path can name when an operation starts.  vfs_resolve
   leaves no "." or ".." in a path, so that a leaf is a plain name. *)
Dirs == IF pc = "idle" THEN {d \in Reach(store, blk) : store.inode[d].kind = "dir"} ELSE {}
Files == {n \in Reach(store, blk) : store.inode[n].kind = "reg"}

(* The operation has succeeded with t: its metadata is ready to commit, its
   in-place writes are on the disk. *)
Finish(t, o) ==
    /\ txn' = t
    /\ blk' = t.blk
    /\ op' = o
    /\ pc' = "commit"
    /\ UNCHANGED <<store, fs, last, hurt>>

-----------------------------------------------------------------------------
(* do_write_file up to its data: an existing file is truncated, a new one
   gets an inode and a directory entry. *)
CanOpen(t, d, n) ==
    LET ino == dir_lookup(t, d, n) IN
    IF ino # 0 THEN t.inode[ino].kind # "dir"
               ELSE alloc_inode(t) # 0 /\ CanAdd(t, d)

OpenIno(t, d, n) == IF dir_lookup(t, d, n) # 0 THEN dir_lookup(t, d, n) ELSE alloc_inode(t)

OpenTxn(t, d, n) ==
    LET ino == OpenIno(t, d, n) IN
    IF dir_lookup(t, d, n) # 0
    THEN inode_free_data(t, t.inode[ino].ext)
    ELSE dir_add(TakeInode(t, ino), d, n, ino)

OpenLinks(t, d, n) ==
    IF dir_lookup(t, d, n) # 0 THEN t.inode[dir_lookup(t, d, n)].links ELSE 1

(* A small file, or a short symlink target, is kept in the inode. *)
WriteSmall(d, n, x) ==
    LET t == txn_begin
        ino == OpenIno(t, d, n)
        din == Inode("reg", OpenLinks(t, d, n), <<>>, <<x>>)
    IN  /\ pc = "idle"
        /\ CanOpen(t, d, n)
        /\ Finish(sync_super(write_dinode(OpenTxn(t, d, n), ino, din)),
                  [NoOp EXCEPT !.ino = ino, !.data = <<x>>])

(* A larger file, or a long target (one block): the blocks follow one by
   one. *)
WriteBegin(d, n, data) ==
    LET t == txn_begin
        ino == OpenIno(t, d, n)
    IN  /\ pc = "idle"
        /\ CanOpen(t, d, n)
        /\ txn' = OpenTxn(t, d, n)
        /\ blk' = txn'.blk
        /\ op' = [ino |-> ino, links |-> OpenLinks(t, d, n), ext |-> <<>>, rest |-> data, data |-> data]
        /\ pc' = "write"
        /\ hurt' = IF dir_lookup(t, d, n) # 0 THEN hurt \cup {ino} ELSE hurt
        /\ UNCHANGED <<store, fs, last>>

(* One turn of the loop: allocate, write in place, extend the inode. *)
WriteBlock ==
    LET b == alloc_block(txn) IN
    /\ pc = "write"
    /\ op.rest # <<>>
    /\ b # 0
    /\ CanPush(op.ext, b)
    /\ txn' = TakeBlock(txn, b)
    /\ blk' = [blk EXCEPT ![b] = DataBlock(Head(op.rest))]
    /\ op' = [op EXCEPT !.rest = Tail(@), !.ext = Append(@, b)]
    /\ UNCHANGED <<store, fs, pc, last, hurt>>

(* No block is left, or the extent array is full: the first ends the
   operation before the write, the second after it.  txn_abort drops the
   transaction and restores the free counts of the mount. *)
WriteFails ==
    LET b == alloc_block(txn) IN
    /\ pc = "write"
    /\ op.rest # <<>>
    /\ \/ b = 0 /\ UNCHANGED blk
       \/ /\ b # 0
          /\ ~CanPush(op.ext, b)
          /\ blk' = [blk EXCEPT ![b] = DataBlock(Head(op.rest))]
    /\ txn' = NoTxn
    /\ op' = NoOp
    /\ pc' = "idle"
    /\ UNCHANGED <<store, fs, last, hurt>>

WriteEnd ==
    /\ pc = "write"
    /\ op.rest = <<>>
    /\ Finish([sync_super(write_dinode(txn, op.ino, Inode("reg", op.links, op.ext, <<>>)))
                 EXCEPT !.blk = blk], op)

-----------------------------------------------------------------------------
do_mkdir(d, n) ==
    LET t == txn_begin
        ino == alloc_inode(t)
        b == alloc_block(t)
        u == [write_dinode(TakeBlock(TakeInode(t, ino), b), ino, Inode("dir", 2, <<b>>, <<>>))
                EXCEPT !.blk[b] = dir_init_block(ino, d)]
    IN  /\ pc = "idle"
        /\ dir_lookup(t, d, n) = 0
        /\ ino # 0
        /\ b # 0
        /\ CanAdd(u, d)
        /\ Finish(sync_super([dir_add(u, d, n, ino) EXCEPT !.inode[d].links = @ + 1]), NoOp)

(* Mutant: the parent keeps the link of the child's "..". *)
do_rmdir_KeepsLink(d, n) ==
    LET t == txn_begin
        ino == dir_lookup(t, d, n)
    IN  /\ pc = "idle"
        /\ ino # 0
        /\ t.inode[ino].kind = "dir"
        /\ dir_is_empty(t, ino)
        /\ Finish(sync_super(free_inode(inode_free_data(dir_remove(t, d, n),
                                                        t.inode[ino].ext), ino)), NoOp)

do_rmdir(d, n) ==
    LET t == txn_begin
        ino == dir_lookup(t, d, n)
        u == [dir_remove(t, d, n) EXCEPT !.inode[d].links = @ - 1]
    IN  /\ pc = "idle"
        /\ ino # 0
        /\ t.inode[ino].kind = "dir"
        /\ dir_is_empty(t, ino)
        /\ Finish(sync_super(free_inode(inode_free_data(u, t.inode[ino].ext), ino)), NoOp)

(* Mutant: the data goes with the first name of several. *)
do_unlink_FreesData(d, n) ==
    LET t == txn_begin
        ino == dir_lookup(t, d, n)
        u == inode_free_data(dir_remove(t, d, n), t.inode[ino].ext)
    IN  /\ pc = "idle"
        /\ ino # 0
        /\ t.inode[ino].kind # "dir"
        /\ Finish(sync_super(IF t.inode[ino].links <= 1
                             THEN free_inode(u, ino)
                             ELSE [u EXCEPT !.inode[ino].links = @ - 1]), NoOp)

do_unlink(d, n) ==
    LET t == txn_begin
        ino == dir_lookup(t, d, n)
        u == dir_remove(t, d, n)
    IN  /\ pc = "idle"
        /\ ino # 0
        /\ t.inode[ino].kind # "dir"
        /\ Finish(sync_super(IF t.inode[ino].links <= 1
                             THEN free_inode(inode_free_data(u, t.inode[ino].ext), ino)
                             ELSE [u EXCEPT !.inode[ino].links = @ - 1]), NoOp)

(* No sync_super: see FreeCountsSafe. *)
do_link(o, d, n) ==
    LET t == txn_begin IN
    /\ pc = "idle"
    /\ dir_lookup(t, d, n) = 0
    /\ CanAdd(t, d)
    /\ store.sfb < NBLOCKS - Cardinality(store.bbm) + MAXDRIFT
    /\ Finish([dir_add(t, d, n, o) EXCEPT !.inode[o].links = @ + 1], NoOp)

-----------------------------------------------------------------------------
(* txn_commit, atomic by the journal: the metadata, the directory blocks and
   the counts of the mount become the new ones. *)
txn_commit ==
    /\ pc = "commit"
    /\ store' = [bbm |-> txn.bbm, ibm |-> txn.ibm, inode |-> txn.inode,
                 sfb |-> txn.sfb, sfi |-> txn.sfi]
    /\ blk' = [b \in Block |-> IF b \in DOMAIN txn.dirty THEN txn.dirty[b] ELSE blk[b]]
    /\ fs' = [fb |-> txn.fb, fi |-> txn.fi]
    /\ last' = [n \in Ino |-> IF n = op.ino THEN op.data
                              ELSE IF n \in txn.ibm THEN last[n] ELSE <<>>]
    /\ hurt' = (hurt \ {op.ino}) \cap txn.ibm
    /\ txn' = NoTxn
    /\ op' = NoOp
    /\ pc' = "idle"

(* Power loss before the commit record, and the next mount.  A data write
   under way is torn. *)
Crash ==
    /\ PowerLoss
    /\ \/ UNCHANGED blk
       \/ /\ pc = "write" /\ op.rest # <<>> /\ alloc_block(txn) # 0
          /\ blk' = [blk EXCEPT ![alloc_block(txn)] = DataBlock(Torn)]
    /\ fs' = [fb |-> store.sfb, fi |-> store.sfi]
    /\ txn' = NoTxn
    /\ op' = NoOp
    /\ pc' = "idle"
    /\ UNCHANGED <<store, last, hurt>>

Contents == UNION {[1..k -> Value] : k \in 1..MAXBLKS}

Next ==
    \/ \E d \in Dirs, n \in Name :
        \/ \E x \in Value : WriteSmall(d, n, x)
        \/ \E data \in Contents : WriteBegin(d, n, data)
        \/ do_mkdir(d, n)
        \/ do_rmdir(d, n)
        \/ do_unlink(d, n)
        \/ \E o \in Files : do_link(o, d, n)
    \/ WriteBlock
    \/ WriteFails
    \/ WriteEnd
    \/ txn_commit
    \/ Crash

Spec == Init /\ [][Next]_vars

-----------------------------------------------------------------------------
(* cfs_read_file of an inode, from the committed state.  A directory read as
   data is no contents of a file. *)
ReadFile(n) ==
    LET bytes(c) == IF c.dir THEN Torn ELSE c.val
    IN  IF store.inode[n].inl # <<>> THEN store.inode[n].inl
        ELSE [k \in 1..Len(store.inode[n].ext) |-> bytes(blk[store.inode[n].ext[k]])]

(* Type invariant. *)
TypeOK ==
    /\ store.bbm \subseteq Block /\ store.ibm \subseteq Ino
    /\ \A n \in Ino : Elems(store.inode[n].ext) \subseteq Block
    /\ DOMAIN blk = Block
    /\ fs.fb \in 0..NBLOCKS + MAXDRIFT /\ fs.fi \in 0..NINODES
    /\ pc \in {"idle", "write", "commit"}
    /\ op.ino \in Ino \cup {0}
    /\ hurt \subseteq Ino

(* After every operation, and after power loss at any instant of one, fsck
   finds a sound volume: the bitmaps are exactly what the tree uses, no two
   files share a block, every link count is right.  Free counts are the
   subject of other properties. *)
VolumeSound == pc = "idle" => Problems(store, blk) \subseteq {"freecount_bad"}

(* The superblock never counts fewer free blocks than there are, and its
   count of free inodes is exact. *)
FreeCountsSafe ==
    /\ store.sfb >= NBLOCKS - Cardinality(store.bbm)
    /\ store.sfi = NINODES - Cardinality(store.ibm)

(* Both: what fsck may find in the volume of a machine that only ran this code. *)
SoundVolume == VolumeSound /\ FreeCountsSafe

(* A file holds what was last written to it, unless an operation on that
   same file was interrupted: allocation, reuse of freed blocks, failed
   writes and crashes never reach into another file. *)
OthersIntact == pc = "idle" => \A n \in Files : n \notin hurt => ReadFile(n) = last[n]

(* The promise of the comment above cfs_write_file and of the crash test: a
   file whose rewrite failed or was interrupted is "exactly as it was". *)
FilesIntact == pc = "idle" => \A n \in Files : ReadFile(n) = last[n]
=============================================================================
