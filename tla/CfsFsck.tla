------------------------------ MODULE CfsFsck ------------------------------
(***************************************************************************)
(* cfs_fsck with repair (src/cfs.c), on a volume whose bitmaps, link       *)
(* counts, free counts and checksums may hold anything.  The walk of the   *)
(* directory tree comes first; the repair then writes in place, not        *)
(* through the journal, and power may fail between and inside its writes.  *)
(* The disk answers every read and write.                                  *)
(***************************************************************************)
EXTENDS CfsVolume

CONSTANT Damaged    \* the volumes fsck may meet: records vol, blk, stale

(* Volumes with link counts from L and free counts from N. *)
Volumes(L, N) ==
    [bbm : SUBSET Block, ibm : SUBSET Ino, sfb : N, sfi : N,
     inode : [Ino -> [kind : {"free", "reg", "dir"}, links : L, ext : Seq(Nat), inl : Seq(Value)]]]

(* What fsck meets is a volume: its bitmaps and its inode table have their
   sizes.  Nothing is said of what they hold. *)
WellFormed ==
    \A d \in Damaged : d.vol \in Volumes(Nat, Nat) /\ DOMAIN d.blk = Block /\ d.stale \subseteq Ino \cup {0}

VARIABLES
    v,      \* on disk: the metadata
    c,      \* on disk: the contents of the data region
    stale,  \* on disk: the inodes whose checksum is wrong; 0 is the superblock
    fs,     \* in memory: free_blocks and free_inodes of the mount
    pc,     \* the part of cfs_fsck that runs next
    i,      \* the loop index of the link count pass
    want,   \* in memory: fsck_bbm, fsck_ibm and fsck_refs
    v0      \* history: the volume before the first repair

vars == <<v, c, stale, fs, pc, i, want, v0>>

NoWant == [blocks |-> {}, inodes |-> {}, refs |-> <<>>]

(* The counts that the tree of w calls for. *)
Counts(w) == [fb |-> NBLOCKS - Cardinality(Marked(w, c)), fi |-> NINODES - Cardinality(Reach(w, c))]

(* The volume has just been mounted, or it is in use and the mount holds
   better counts than the superblock (do_link does not write them). *)
Init ==
    /\ \E d \in Damaged : v = d.vol /\ c = d.blk /\ stale = d.stale
    /\ fs \in {[fb |-> v.sfb, fi |-> v.sfi], Counts(v)}
    /\ pc = "walk"
    /\ i = 1
    /\ want = NoWant
    /\ v0 = v

(* All that the repair needs comes from the tree alone. *)
Walk ==
    /\ pc = "walk"
    /\ want' = [blocks |-> Marked(v, c), inodes |-> Reach(v, c),
                refs |-> [n \in Ino |-> Refs(v, c, n)]]
    /\ pc' = "blocks"
    /\ UNCHANGED <<v, c, stale, fs, i, v0>>

(* Mutant: the old bits are cleared before the new ones are set. *)
Sectors_Cleared(old, new, done) == new \cap done

(* A bitmap whose sectors in done have their new contents, the others still
   their old ones; a bit stands for a sector of bits. *)
Sectors(old, new, done) == (old \ done) \cup (new \cap done)

FixBlocks ==
    /\ pc = "blocks"
    /\ v' = [v EXCEPT !.bbm = Sectors(@, want.blocks, Block)]
    /\ pc' = "inodes"
    /\ UNCHANGED <<c, stale, fs, i, want, v0>>

FixInodes ==
    /\ pc = "inodes"
    /\ v' = [v EXCEPT !.ibm = Sectors(@, want.inodes, Ino)]
    /\ pc' = "links"
    /\ UNCHANGED <<c, stale, fs, i, want, v0>>

(* Mutant: the last inode is left out. *)
FixLinks_OneLess ==
    /\ pc = "links"
    /\ IF i \in want.inodes /\ i < NINODES
       THEN v' = [v EXCEPT !.inode[i].links = want.refs[i]] /\ stale' = stale \ {i}
       ELSE UNCHANGED <<v, stale>>
    /\ IF i < NINODES THEN i' = i + 1 /\ UNCHANGED pc
                      ELSE i' = 1 /\ pc' = "counts"
    /\ UNCHANGED <<c, fs, want, v0>>

(* One turn of the loop over reachable inodes; write_dinode renews the
   checksum. *)
FixLinks ==
    /\ pc = "links"
    /\ IF i \in want.inodes
       THEN v' = [v EXCEPT !.inode[i].links = want.refs[i]] /\ stale' = stale \ {i}
       ELSE UNCHANGED <<v, stale>>
    /\ IF i < NINODES THEN i' = i + 1 /\ UNCHANGED pc
                      ELSE i' = 1 /\ pc' = "counts"
    /\ UNCHANGED <<c, fs, want, v0>>

(* Mutant: the counts of the mount are forgotten. *)
FixCounts_DiskOnly ==
    LET n == [fb |-> NBLOCKS - Cardinality(want.blocks), fi |-> NINODES - Cardinality(want.inodes)]
    IN  /\ pc = "counts"
        /\ v' = [v EXCEPT !.sfb = n.fb, !.sfi = n.fi]
        /\ stale' = stale \ {0}
        /\ pc' = "done"
        /\ UNCHANGED <<c, fs, i, want, v0>>

(* The counts of the mount follow only when the superblock was wrong. *)
FixCounts ==
    LET n == [fb |-> NBLOCKS - Cardinality(want.blocks), fi |-> NINODES - Cardinality(want.inodes)]
    IN  /\ pc = "counts"
        /\ v' = [v EXCEPT !.sfb = n.fb, !.sfi = n.fi]
        /\ fs' = IF <<v.sfb, v.sfi>> # <<n.fb, n.fi>> \/ 0 \in stale THEN n ELSE fs
        /\ stale' = stale \ {0}
        /\ pc' = "done"
        /\ UNCHANGED <<c, i, want, v0>>

(* Power fails.  A bitmap write under way leaves some sectors old; an inode
   and the superblock lie within a sector.  Then the volume is mounted. *)
Crash ==
    /\ \/ pc = "blocks" /\ \E done \in SUBSET Block :
            v' = [v EXCEPT !.bbm = Sectors(@, want.blocks, done)]
       \/ pc = "inodes" /\ \E done \in SUBSET Ino :
            v' = [v EXCEPT !.ibm = Sectors(@, want.inodes, done)]
       \/ pc \notin {"walk", "blocks", "inodes"} /\ UNCHANGED v
    /\ fs' = [fb |-> v.sfb, fi |-> v.sfi]
    /\ pc' = "walk"
    /\ i' = 1
    /\ want' = NoWant
    /\ UNCHANGED <<c, stale, v0>>

(* fsck is run again on the mounted volume. *)
Again ==
    /\ pc = "done"
    /\ pc' = "walk"
    /\ want' = NoWant
    /\ UNCHANGED <<v, c, stale, fs, i, v0>>

Next == Walk \/ FixBlocks \/ FixInodes \/ FixLinks \/ FixCounts \/ Crash \/ Again

Spec == Init /\ [][Next]_vars

-----------------------------------------------------------------------------
(* Type invariant. *)
TypeOK ==
    /\ v.bbm \subseteq Block /\ v.ibm \subseteq Ino /\ DOMAIN v.inode = Ino
    /\ DOMAIN c = Block
    /\ stale \subseteq Ino \cup {0}
    /\ pc \in {"walk", "blocks", "inodes", "links", "counts", "done"}
    /\ i \in Ino

(* Whatever the damage, and however often it was interrupted, a finished
   repair leaves a volume on which cfs_fsck finds nothing more than what it
   cannot repair, checksums included, and a mount whose free counts are those
   of the superblock. *)
RepairCleans == pc = "done" =>
    /\ Problems(v, c) = Unfixable(v0, c)
    /\ stale \cap (Reach(v, c) \cup {0}) = {}
    /\ fs = [fb |-> v.sfb, fi |-> v.sfi]

(* "Re-run fsck if it is itself interrupted" (include/cfs.h): interruptions
   leave no mark, the repair ends in the volume that one uninterrupted repair
   of the damaged volume makes. *)
Repaired(w) ==
    [w EXCEPT !.bbm = Marked(w, c), !.ibm = Reach(w, c),
              !.sfb = Counts(w).fb, !.sfi = Counts(w).fi,
              !.inode = [n \in Ino |-> IF n \in Reach(w, c)
                                       THEN [w.inode[n] EXCEPT !.links = Refs(w, c, n)]
                                       ELSE w.inode[n]]]
RepairConverges == pc = "done" => v = Repaired(v0)

(* At no instant of a repair, torn bitmap writes included, is a block or an
   inode of a reachable file marked free that was marked used before: a
   volume used in spite of an interrupted repair loses nothing to it. *)
RepairNeverFrees ==
    /\ Marked(v, c) \cap v0.bbm \subseteq v.bbm
    /\ Reach(v, c) \cap v0.ibm \subseteq v.ibm
=============================================================================
