------------------------------ MODULE MCVolumes ------------------------------
(* Two on-disk file systems, as parts that do not interact.

   "cfs": the operations of a mounted CFS volume.
   "ext2": a volume of two groups.  With one direct pointer and two pointers per
   block, a file of four blocks has a double indirect block, and a directory whose
   first block is full an indirect one.  The big file and one directory fill it. *)
EXTENDS MCCfs

VARIABLES
    part,
    vol, writable, tree, calls      \* of "ext2"

ext == <<vol, writable, tree, calls>>

MCName == {"a", "b"}
MCNeed == [n \in MCName |-> IF n = "a" THEN 1 ELSE 2]
MCFile(n) == [t |-> "file", s |-> SubSeq([i \in 1..n |-> i], 1, n)]
MCLink(abs, path, len) == [t |-> "lnk", target |-> [abs |-> abs, path |-> path], len |-> len]
MCContents == {MCFile(1), MCFile(8), MCLink(TRUE, <<"a">>, "slow"), MCLink(FALSE, <<"..", "b">>, "fast")}
MCTargets == {<<"a">>, <<"b">>, <<"a", "a">>, <<"a", "b">>, <<"b", "a">>}

X == INSTANCE Ext2 WITH
        NBLK <- 9, BPG <- 5, NINO <- 6, IPG <- 3, FIRST_INO <- 3, NDIR <- 1, PPB <- 2, BS <- 2, RUNMAX <- 2, DCAP <- 3,
        Name <- MCName, Need <- MCNeed, MAX_SYMLINKS <- 2, MAXDEPTH <- 3, Contents <- MCContents, Targets <- MCTargets,
        MAXCALLS <- 4

PartInit ==
    /\ part \in {"cfs", "ext2"}
    /\ Init
    /\ X!Init /\ (part # "ext2" => writable)

PartNext ==
    /\ \/ part = "cfs" /\ Next /\ UNCHANGED ext
       \/ part = "ext2" /\ X!Next /\ UNCHANGED vars
    /\ UNCHANGED part

PartSpec == PartInit /\ [][PartNext]_<<vars, ext, part>>

PartView == <<MCView, ext, part>>

(* The volumes are well-formed (TypeOK of Cfs and of Ext2). *)
TypesOK == IF part = "cfs" THEN TypeOK ELSE X!TypeOK



(* Ext2!Accounting: bitmaps, link counts, i_blocks and free counts agree with the
   tree, and every block in use has one owner, wherever a call ran out of space.
   Ext2!Synced: when a call returns, the counts in memory are those of the disk. *)
Accounting == part = "ext2" => X!Accounting /\ X!Synced

(* Ext2!TreeKept: a call changes only the paths it names, whatever links its path
   goes through, and a write that fails leaves a prefix of its data. *)
TreeKept == part = "ext2" => X!TreeKept
=============================================================================
