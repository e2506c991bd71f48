----------------------------- MODULE MCCfsDisk -----------------------------
(* What CFS does to its disk, as three parts that do not interact: the journal
   where every transaction fits it ("journal"), one that is too small for the
   largest, which is then written through ("through"), and fsck on small damaged
   volumes ("fsck").

   In the damaged volumes the root has up to two entries, which may name the same
   inode, a free one or one outside the volume.  Inode 2 is a file or a directory
   and inode 3 a file; files may share blocks, and may have one outside the volume.
   Bitmaps and link counts are arbitrary. *)
EXTENDS MCCfsJournal, FiniteSets

CONSTANTS n1, n2, x     \* names and a content of the damaged volumes

VARIABLES
    part,
    home2, jhdr2, jdesc2, jdata2, txn2, txn_active2, pc2, i2, dead2, acked2,    \* of "through"
    v, c, stale, fs, step, at, want, v0                                         \* of "fsck"

through == <<home2, jhdr2, jdesc2, jdata2, txn2, txn_active2, pc2, i2, dead2, acked2>>
fsck == <<v, c, stale, fs, step, at, want, v0>>

T == INSTANCE CfsJournal WITH
        JBLOCKS <- 3, home <- home2, jhdr <- jhdr2, jdesc <- jdesc2, jdata <- jdata2, txn <- txn2,
        txn_active <- txn_active2, pc <- pc2, i <- i2, dead <- dead2, acked <- acked2

V == INSTANCE CfsVolume WITH Name <- {n1, n2}, Value <- {x}, NINODES <- 3, NBLOCKS <- 3, DIRCAP <- 4, MAXEXT <- 2

RootDir(f) == V!DirBlock([n \in {".", ".."} \cup DOMAIN f |-> IF n \in DOMAIN f THEN f[n] ELSE V!Root])
SubDir(p) == V!DirBlock([n \in {".", "..", n1} |-> IF n = "." THEN 2 ELSE IF n = ".." THEN V!Root ELSE p])

RootEntries == UNION {[S -> {2, 3, 4}] : S \in {{n1}, {n1, n2}}}

Second == {[ino |-> V!Inode("reg", l, e, <<>>), b2 |-> V!DataBlock(x)] :
                l \in 0..1, e \in {<<2>>, <<2, 3>>, <<4>>}}
          \cup {[ino |-> V!Inode("dir", l, <<2>>, <<>>), b2 |-> SubDir(p)] : l \in 1..2, p \in 2..3}
Third == {V!Inode("reg", 1, e, <<>>) : e \in {<<>>, <<3>>}}

MCDamaged ==
    {[vol |-> [bbm |-> bbm, ibm |-> ibm, inode |-> <<V!Inode("dir", 2, <<1>>, <<>>), s.ino, t>>,
               sfb |-> 1, sfi |-> 1],
      blk |-> <<RootDir(f), s.b2, V!DataBlock(x)>>,
      stale |-> st] :
        bbm \in SUBSET V!Block, ibm \in {S \in SUBSET V!Ino : V!Root \in S},
        s \in Second, t \in Third, f \in RootEntries, st \in {{}, {0, 2}}}

F == INSTANCE CfsFsck WITH
        Name <- {n1, n2}, Value <- {x}, NINODES <- 3, NBLOCKS <- 3, DIRCAP <- 4, MAXEXT <- 2,
        Damaged <- MCDamaged, pc <- step, i <- at

(* They are what the proofs about CfsFsck assume of a volume. *)
ASSUME DamagedAssumption == F!WellFormed

(* One volume stands for all in the parts that are not about fsck. *)
MCInit ==
    /\ Init /\ T!Init
    /\ \/ part \in {"journal", "through"} /\ \E d \in {CHOOSE e \in MCDamaged : TRUE} :
            /\ v = d.vol /\ c = d.blk /\ stale = d.stale
            /\ fs = [fb |-> 1, fi |-> 1] /\ step = "walk" /\ at = 1 /\ want = F!NoWant /\ v0 = v
       \/ part = "fsck" /\ F!Init

MCNext ==
    /\ \/ part = "journal" /\ Next /\ UNCHANGED <<through, fsck>>
       \/ part = "through" /\ T!Next /\ UNCHANGED <<vars, fsck>>
       \/ part = "fsck" /\ F!Next /\ UNCHANGED <<vars, through>>
    /\ UNCHANGED part

MCSpec == MCInit /\ [][MCNext]_<<vars, through, fsck, part>>

(* CfsJournal!AckedSurvives where the largest transaction does not fit the journal
   and cfs_txn_commit writes it through: what a success reported is found again
   after any crash, until a later operation writes the same block.  The inductive
   invariant that CfsJournal_proofs derives it from holds there too. *)
ThroughSurvives == part = "through" => T!JournalInv /\ T!AckedSurvives

(* CfsFsck!RepairCleans: whatever the damage, and however often it was interrupted,
   a finished cfs_fsck leaves nothing that it would find and could repair, in a
   well-formed volume (CfsFsck!TypeOK). *)
RepairCleans == part = "fsck" => F!TypeOK /\ F!RepairCleans

(* CfsFsck!RepairConverges: "Re-run fsck if it is itself interrupted" (include/cfs.h);
   the interrupted repairs end in the volume that one uninterrupted repair makes. *)
RepairConverges == part = "fsck" => F!RepairConverges

(* CfsFsck!RepairNeverFrees: at no instant of a repair is a block or an inode of a
   reachable file marked free that was marked used before. *)
RepairNeverFrees == part = "fsck" => F!RepairNeverFrees
=============================================================================
