--------------------------- MODULE CfsFsck_proofs ---------------------------
(***************************************************************************)
(* The repair of cfs_fsck, for volumes of any size and any damage to their *)
(* bitmaps, link counts, free counts and checksums, interrupted any number *)
(* of times.                                                               *)
(*                                                                         *)
(* The argument is that the repair never writes what its walk reads: the   *)
(* kinds and the extents of the inodes and the contents of the blocks.     *)
(* Every walk therefore finds the tree of the damaged volume again, and    *)
(* what one interrupted repair has written the next one writes too.        *)
(***************************************************************************)
EXTENDS CfsFsck, TLAPS

(* A step is proved by Zenon within 20 seconds, or names another prover. *)
USE ZenonT(20)

-----------------------------------------------------------------------------
(* The walk reads the kinds and the extents. *)
SameTree(w, u) == \A n \in Ino : w.inode[n].kind = u.inode[n].kind /\ w.inode[n].ext = u.inode[n].ext

LEMMA ReachType == \A w, d : Reach(w, d) \subseteq Ino
BY DEF Reach, ReachIn

LEMMA WalkSame ==
    ASSUME NEW w, NEW u, NEW d, SameTree(w, u)
    PROVE  /\ Reach(w, d) = Reach(u, d)
           /\ Marked(w, d) = Marked(u, d)
           /\ \A n : Refs(w, d, n) = Refs(u, d, n)
           /\ Unfixable(w, d) = Unfixable(u, d)
<1>1. ASSUME NEW n \in Ino
      PROVE  /\ EntriesOf(w, d, n) = EntriesOf(u, d, n)
             /\ \A e : Target(w, d, n, e) = Target(u, d, n, e)
  <2>1. w.inode[n].ext = u.inode[n].ext
    BY DEF SameTree
  <2> QED BY <2>1 DEF EntriesOf, Target
<1>2. ASSUME NEW n \in Ino PROVE Named(w, d, n) = Named(u, d, n)
  <2>1. w.inode[n].kind = u.inode[n].kind
    BY DEF SameTree
  <2>2. EntriesOf(w, d, n) = EntriesOf(u, d, n) /\ \A e : Target(w, d, n, e) = Target(u, d, n, e)
    BY <1>1
  <2> QED BY <2>1, <2>2 DEF Named
<1>3. [n \in Ino |-> Children(w, d, n)] = [n \in Ino |-> Children(u, d, n)]
  BY <1>2 DEF Children
<1>4. Reach(w, d) = Reach(u, d) /\ Reach(w, d) \subseteq Ino
  BY <1>3, ReachType DEF Reach
<1> DEFINE R == Reach(w, d)
<1>5. R = Reach(u, d) /\ R \subseteq Ino
  BY <1>4
<1> HIDE DEF R
<1>6. \A n \in R : w.inode[n].ext = u.inode[n].ext /\ w.inode[n].kind = u.inode[n].kind
  BY <1>5 DEF SameTree
<1>7. Mentioned(w, d) = Mentioned(u, d)
  BY <1>5, <1>6 DEF Mentioned, R
<1>8. Marked(w, d) = Marked(u, d)
  BY <1>7 DEF Marked
<1>9. MarkedTwice(w, d) <=> MarkedTwice(u, d)
  <2> DEFINE Clash(x, m, n) ==
                 \E j \in 1..Len(x.inode[m].ext), k \in 1..Len(x.inode[n].ext) :
                     x.inode[m].ext[j] = x.inode[n].ext[k] /\ x.inode[m].ext[j] \in Block /\ <<m, j>> # <<n, k>>
  <2>1. ASSUME NEW m \in R, NEW n \in R PROVE Clash(w, m, n) <=> Clash(u, m, n)
    <3>1. w.inode[m].ext = u.inode[m].ext /\ w.inode[n].ext = u.inode[n].ext
      BY <1>6
    <3> QED BY <3>1, Zenon
  <2>2. /\ MarkedTwice(w, d) <=> \E m, n \in R : Clash(w, m, n)
        /\ MarkedTwice(u, d) <=> \E m, n \in Reach(u, d) : Clash(u, m, n)
    BY Zenon DEF MarkedTwice, R
  <2> HIDE DEF Clash
  <2> QED BY <1>5, <2>1, <2>2
<1>10. (\A n \in R : Named(w, d, n) \subseteq Ino) <=> (\A n \in R : Named(u, d, n) \subseteq Ino)
  BY <1>2, <1>5
<1>11. Unfixable(w, d) = Unfixable(u, d)
  BY <1>5, <1>7, <1>9, <1>10 DEF Unfixable, R
<1>12. ASSUME NEW n PROVE Refs(w, d, n) = Refs(u, d, n)
  <2> DEFINE D(x) == {y \in Reach(x, d) : x.inode[y].kind = "dir"}
             P(x) == UNION {{y} \X EntriesOf(x, d, y) : y \in D(x)}
  <2>1. D(w) = D(u) /\ D(w) \subseteq Ino
    BY <1>5, <1>6 DEF R
  <2> HIDE DEF D
  <2>2. P(w) = P(u)
    BY <1>1, <2>1
  <2>3. \A r \in P(w) : r[1] \in Ino
    BY <2>1, SMT
  <2> HIDE DEF P
  <2>4. {r \in P(w) : Target(w, d, r[1], r[2]) = n} = {r \in P(u) : Target(u, d, r[1], r[2]) = n}
    BY <1>1, <2>2, <2>3
  <2> QED BY <2>4 DEF Refs, P, D
<1> QED BY <1>5, <1>8, <1>11, <1>12 DEF R

-----------------------------------------------------------------------------
(* The link counts and free counts a repair can write. *)
LinkCounts == Nat \cup {Refs(v0, c, n) : n \in Ino}
FreeCounts == Nat \cup {Counts(v0).fb, Counts(v0).fi}

Wanted == [blocks |-> Marked(v0, c), inodes |-> Reach(v0, c), refs |-> [n \in Ino |-> Refs(v0, c, n)]]

Types ==
    /\ TypeOK
    /\ v \in Volumes(LinkCounts, FreeCounts) /\ v0 \in Volumes(Nat, Nat)
    /\ fs = [fb |-> v.sfb, fi |-> v.sfi] \/ fs = Counts(v0)

(* Of an inode, the repair changes only the link count, and only if it is
   reachable. *)
TreeKept ==
    \A n \in Ino :
        /\ v.inode[n].kind = v0.inode[n].kind /\ v.inode[n].ext = v0.inode[n].ext
        /\ v.inode[n].inl = v0.inode[n].inl
        /\ n \notin Reach(v0, c) => v.inode[n].links = v0.inode[n].links

(* A bit that is set, and is to be set, stays set. *)
BitsKept == Marked(v0, c) \cap v0.bbm \subseteq v.bbm /\ Reach(v0, c) \cap v0.ibm \subseteq v.ibm

Linked(n) == n \in Reach(v0, c) => v.inode[n].links = Refs(v0, c, n) /\ n \notin stale

(* What the passes that are over have done. *)
Progress ==
    /\ pc # "walk" => want = Wanted
    /\ pc # "links" => i = 1
    /\ pc \in {"inodes", "links", "counts", "done"} => v.bbm = Marked(v0, c)
    /\ pc \in {"links", "counts", "done"} => v.ibm = Reach(v0, c)
    /\ pc = "links" => \A n \in 1..i-1 : Linked(n)
    /\ pc \in {"counts", "done"} => \A n \in Ino : Linked(n)
    /\ pc = "done" => [fb |-> v.sfb, fi |-> v.sfi] = Counts(v0) /\ 0 \notin stale /\ fs = Counts(v0)

IInv == Types /\ TreeKept /\ BitsKept /\ Progress

LEMMA VolumeTypes ==
    ASSUME NEW L, NEW N, Nat \subseteq L, Nat \subseteq N, NEW w \in Volumes(Nat, Nat)
    PROVE  w \in Volumes(L, N)
<1> DEFINE I(K) == [kind : {"free", "reg", "dir"}, links : K, ext : Seq(Nat), inl : Seq(Value)]
<1>1. I(Nat) \subseteq I(L)
  OBVIOUS
<1> HIDE DEF I
<1>2. [Ino -> I(Nat)] \subseteq [Ino -> I(L)]
  BY <1>1
<1>3. w \in [bbm : SUBSET Block, ibm : SUBSET Ino, sfb : Nat, sfi : Nat, inode : [Ino -> I(Nat)]]
  BY DEF Volumes, I
<1>4. w \in [bbm : SUBSET Block, ibm : SUBSET Ino, sfb : N, sfi : N, inode : [Ino -> I(L)]]
  BY <1>2, <1>3
<1> QED BY <1>4 DEF Volumes, I

LEMMA RootIno == 1 \in Ino /\ NINODES \in Nat \ {0}
BY VolumeAssumption, SMT DEF Ino

LEMMA IInvInit == ASSUME WellFormed, Init PROVE IInv
<1>1. PICK d \in Damaged : v = d.vol /\ c = d.blk /\ stale = d.stale
  BY DEF Init
<1>2. v \in Volumes(Nat, Nat) /\ DOMAIN c = Block /\ stale \subseteq Ino \cup {0}
  BY <1>1 DEF WellFormed
<1>3. v0 = v /\ pc = "walk" /\ i = 1 /\ fs \in {[fb |-> v.sfb, fi |-> v.sfi], Counts(v)}
  BY DEF Init
<1>4. v \in Volumes(LinkCounts, FreeCounts)
  BY <1>2, VolumeTypes DEF LinkCounts, FreeCounts
<1>5. v.bbm \subseteq Block /\ v.ibm \subseteq Ino /\ DOMAIN v.inode = Ino
  BY <1>2 DEF Volumes
<1>6. TypeOK
  BY <1>2, <1>3, <1>5, RootIno DEF TypeOK
<1>7. fs = [fb |-> v.sfb, fi |-> v.sfi] \/ fs = Counts(v0)
  BY <1>3
<1>8. Types
  BY <1>2, <1>3, <1>4, <1>6, <1>7 DEF Types
<1>9. TreeKept /\ BitsKept /\ Progress
  BY <1>3 DEF TreeKept, BitsKept, Progress
<1> QED BY <1>8, <1>9 DEF IInv

LEMMA WalkedAgain ==
    ASSUME IInv
    PROVE  /\ Reach(v, c) = Reach(v0, c) /\ Marked(v, c) = Marked(v0, c)
           /\ \A n : Refs(v, c, n) = Refs(v0, c, n)
           /\ Unfixable(v, c) = Unfixable(v0, c)
           /\ Marked(v0, c) \subseteq Block /\ Reach(v0, c) \subseteq Ino
<1>1. SameTree(v, v0)
  BY DEF IInv, TreeKept, SameTree
<1>2. /\ Reach(v, c) = Reach(v0, c) /\ Marked(v, c) = Marked(v0, c)
      /\ \A n : Refs(v, c, n) = Refs(v0, c, n)
      /\ Unfixable(v, c) = Unfixable(v0, c)
  BY <1>1, WalkSame, SMT
<1>3. Marked(v0, c) \subseteq Block /\ Reach(v0, c) \subseteq Ino
  BY ReachType DEF Marked
<1> QED BY <1>2, <1>3

LEMMA WalkKeeps == ASSUME IInv, Walk PROVE IInv'
<1>1. /\ want' = [blocks |-> Marked(v, c), inodes |-> Reach(v, c), refs |-> [n \in Ino |-> Refs(v, c, n)]]
      /\ pc = "walk" /\ pc' = "blocks" /\ UNCHANGED <<v, c, stale, fs, i, v0>>
  BY DEF Walk
<1>2. want' = Wanted
  BY <1>1, WalkedAgain DEF Wanted
<1>3. Types'
  BY <1>1 DEF IInv, Types, TypeOK, LinkCounts, FreeCounts, Counts
<1>4. TreeKept' /\ BitsKept'
  BY <1>1 DEF IInv, TreeKept, BitsKept
<1>5. Progress'
  BY <1>1, <1>2 DEF IInv, Progress, Wanted
<1> QED BY <1>3, <1>4, <1>5 DEF IInv

(* A step that sets the block bitmap or the inode bitmap, in full or in part. *)
SetsBits(B, I) ==
    /\ v' \in Volumes(LinkCounts, FreeCounts) /\ v'.bbm = B /\ v'.ibm = I
    /\ v'.inode = v.inode /\ v'.sfb = v.sfb /\ v'.sfi = v.sfi
    /\ B \subseteq Block /\ v.bbm \cap Marked(v0, c) \subseteq B
    /\ I \subseteq Ino /\ v.ibm \cap Reach(v0, c) \subseteq I
    /\ UNCHANGED <<c, stale, v0>>

LEMMA BitsKeep ==
    ASSUME IInv, NEW B, NEW I, SetsBits(B, I),
           pc' \in {"walk", "blocks", "inodes", "links", "counts", "done"}, i' \in Ino,
           fs' = [fb |-> v.sfb, fi |-> v.sfi] \/ fs' = fs
    PROVE  Types' /\ TreeKept' /\ BitsKept'
<1> USE DEF SetsBits
<1>1. v' \in Volumes(LinkCounts, FreeCounts)' /\ v0' \in Volumes(Nat, Nat)
  BY DEF IInv, Types, LinkCounts, FreeCounts, Counts
<1>2. DOMAIN v'.inode = Ino
  BY DEF IInv, Types, TypeOK
<1>3. TypeOK'
  BY <1>2 DEF IInv, Types, TypeOK
<1>4. fs' = [fb |-> v'.sfb, fi |-> v'.sfi] \/ fs' = Counts(v0)'
  BY DEF IInv, Types, Counts
<1>5. Types'
  BY <1>1, <1>3, <1>4 DEF Types
<1>6. TreeKept'
  BY DEF IInv, TreeKept
<1>7. BitsKept'
  BY DEF IInv, BitsKept
<1> QED BY <1>5, <1>6, <1>7

LEMMA FixBlocksKeeps == ASSUME IInv, FixBlocks PROVE IInv'
<1> DEFINE S == Sectors(v.bbm, want.blocks, Block)
<1>1. pc = "blocks" /\ pc' = "inodes" /\ v' = [v EXCEPT !.bbm = S] /\ UNCHANGED <<c, stale, fs, i, want, v0>>
  BY DEF FixBlocks
<1>2. want = Wanted /\ i = 1
  BY <1>1 DEF IInv, Progress
<1>3. want.blocks = Marked(v0, c)
  BY <1>2 DEF Wanted
<1>4. v \in Volumes(LinkCounts, FreeCounts) /\ v.bbm \subseteq Block /\ v.ibm \subseteq Ino /\ i \in Ino
  BY DEF IInv, Types, TypeOK
<1>5. S = Marked(v0, c) /\ S \subseteq Block /\ v.bbm \cap Marked(v0, c) \subseteq S
  BY <1>3, <1>4, WalkedAgain DEF Sectors
<1> HIDE DEF S
<1>6. /\ v' \in Volumes(LinkCounts, FreeCounts)
      /\ v'.bbm = S /\ v'.ibm = v.ibm /\ v'.inode = v.inode /\ v'.sfb = v.sfb /\ v'.sfi = v.sfi
  BY <1>1, <1>4, <1>5 DEF Volumes
<1>7. SetsBits(S, v.ibm)
  BY <1>1, <1>4, <1>5, <1>6 DEF SetsBits
<1>8. Types' /\ TreeKept' /\ BitsKept'
  BY <1>1, <1>4, <1>7, BitsKeep
<1>9. Progress'
  BY <1>1, <1>2, <1>5, <1>6 DEF Progress, Wanted
<1> QED BY <1>8, <1>9 DEF IInv

LEMMA FixInodesKeeps == ASSUME IInv, FixInodes PROVE IInv'
<1> DEFINE S == Sectors(v.ibm, want.inodes, Ino)
<1>1. pc = "inodes" /\ pc' = "links" /\ v' = [v EXCEPT !.ibm = S] /\ UNCHANGED <<c, stale, fs, i, want, v0>>
  BY DEF FixInodes
<1>2. want = Wanted /\ i = 1 /\ v.bbm = Marked(v0, c)
  BY <1>1 DEF IInv, Progress
<1>3. want.inodes = Reach(v0, c)
  BY <1>2 DEF Wanted
<1>4. v \in Volumes(LinkCounts, FreeCounts) /\ v.bbm \subseteq Block /\ v.ibm \subseteq Ino /\ i \in Ino
  BY DEF IInv, Types, TypeOK
<1>5. S = Reach(v0, c) /\ S \subseteq Ino /\ v.ibm \cap Reach(v0, c) \subseteq S
  BY <1>3, <1>4, WalkedAgain DEF Sectors
<1> HIDE DEF S
<1>6. /\ v' \in Volumes(LinkCounts, FreeCounts)
      /\ v'.ibm = S /\ v'.bbm = v.bbm /\ v'.inode = v.inode /\ v'.sfb = v.sfb /\ v'.sfi = v.sfi
  BY <1>1, <1>4, <1>5 DEF Volumes
<1>7. SetsBits(v.bbm, S)
  BY <1>1, <1>4, <1>5, <1>6 DEF SetsBits
<1>8. Types' /\ TreeKept' /\ BitsKept'
  BY <1>1, <1>4, <1>7, BitsKeep
<1>9. 1..i'-1 = {}
  BY <1>1, <1>2, SMT
<1>10. Progress'
  BY <1>1, <1>2, <1>5, <1>6, <1>9 DEF Progress, Wanted
<1> QED BY <1>8, <1>10 DEF IInv

LEMMA CrashKeeps == ASSUME IInv, Crash PROVE IInv'
<1>1. /\ fs' = [fb |-> v.sfb, fi |-> v.sfi] /\ pc' = "walk" /\ i' = 1 /\ UNCHANGED <<c, stale, v0>>
  BY DEF Crash
<1>2. v \in Volumes(LinkCounts, FreeCounts) /\ v.bbm \subseteq Block /\ v.ibm \subseteq Ino
  BY DEF IInv, Types, TypeOK
<1>3. pc # "walk" => want.blocks = Marked(v0, c) /\ want.inodes = Reach(v0, c)
  BY SMT DEF IInv, Progress, Wanted
<1>4. \E B, I : SetsBits(B, I)
  <2>1. CASE UNCHANGED v
    <3>1. SetsBits(v.bbm, v.ibm)
      BY <1>1, <1>2, <2>1 DEF SetsBits
    <3> QED BY <3>1
  <2>2. CASE pc = "blocks" /\ \E done \in SUBSET Block : v' = [v EXCEPT !.bbm = Sectors(@, want.blocks, done)]
    <3>1. PICK done \in SUBSET Block : v' = [v EXCEPT !.bbm = Sectors(@, want.blocks, done)]
      BY <2>2
    <3> DEFINE S == Sectors(v.bbm, want.blocks, done)
    <3>2. v' = [v EXCEPT !.bbm = S]
      BY <3>1
    <3>3. S \subseteq Block /\ v.bbm \cap Marked(v0, c) \subseteq S
      BY <1>2, <1>3, <2>2, WalkedAgain DEF Sectors
    <3> HIDE DEF S
    <3>4. /\ v' \in Volumes(LinkCounts, FreeCounts)
          /\ v'.bbm = S /\ v'.ibm = v.ibm /\ v'.inode = v.inode /\ v'.sfb = v.sfb /\ v'.sfi = v.sfi
      BY <1>2, <3>2, <3>3 DEF Volumes
    <3>5. SetsBits(S, v.ibm)
      BY <1>1, <1>2, <3>3, <3>4 DEF SetsBits
    <3> QED BY <3>5
  <2>3. CASE pc = "inodes" /\ \E done \in SUBSET Ino : v' = [v EXCEPT !.ibm = Sectors(@, want.inodes, done)]
    <3>1. PICK done \in SUBSET Ino : v' = [v EXCEPT !.ibm = Sectors(@, want.inodes, done)]
      BY <2>3
    <3> DEFINE S == Sectors(v.ibm, want.inodes, done)
    <3>2. v' = [v EXCEPT !.ibm = S]
      BY <3>1
    <3>3. S \subseteq Ino /\ v.ibm \cap Reach(v0, c) \subseteq S
      BY <1>2, <1>3, <2>3, WalkedAgain DEF Sectors
    <3> HIDE DEF S
    <3>4. /\ v' \in Volumes(LinkCounts, FreeCounts)
          /\ v'.ibm = S /\ v'.bbm = v.bbm /\ v'.inode = v.inode /\ v'.sfb = v.sfb /\ v'.sfi = v.sfi
      BY <1>2, <3>2, <3>3 DEF Volumes
    <3>5. SetsBits(v.bbm, S)
      BY <1>1, <1>2, <3>3, <3>4 DEF SetsBits
    <3> QED BY <3>5
  <2> QED BY <2>1, <2>2, <2>3 DEF Crash
<1>5. PICK B, I : SetsBits(B, I)
  BY <1>4
<1>6. Types' /\ TreeKept' /\ BitsKept'
  BY <1>1, <1>5, RootIno, BitsKeep
<1>7. Progress'
  BY <1>1 DEF Progress
<1> QED BY <1>6, <1>7 DEF IInv

LEMMA AgainKeeps == ASSUME IInv, Again PROVE IInv'
<1>1. pc = "done" /\ pc' = "walk" /\ UNCHANGED <<v, c, stale, fs, i, v0>>
  BY DEF Again
<1>2. Types'
  BY <1>1 DEF IInv, Types, TypeOK, LinkCounts, FreeCounts, Counts
<1>3. TreeKept' /\ BitsKept'
  BY <1>1 DEF IInv, TreeKept, BitsKept
<1>4. Progress'
  BY <1>1 DEF IInv, Progress
<1> QED BY <1>2, <1>3, <1>4 DEF IInv

LEMMA FixLinksKeeps == ASSUME IInv, FixLinks PROVE IInv'
<1>1. /\ pc = "links" /\ UNCHANGED <<c, fs, want, v0>>
      /\ IF i < NINODES THEN i' = i + 1 /\ pc' = "links" ELSE i' = 1 /\ pc' = "counts"
  BY DEF FixLinks
<1>2. /\ want = Wanted /\ v.bbm = Marked(v0, c) /\ v.ibm = Reach(v0, c)
      /\ \A n \in 1..i-1 : Linked(n)
  BY <1>1 DEF IInv, Progress
<1>3. want.inodes = Reach(v0, c) /\ \A n \in Ino : want.refs[n] = Refs(v0, c, n)
  BY <1>2 DEF Wanted
<1>4. /\ v \in Volumes(LinkCounts, FreeCounts) /\ i \in Ino /\ Reach(v0, c) \subseteq Ino
      /\ stale \subseteq Ino \cup {0}
  BY WalkedAgain DEF IInv, Types, TypeOK
<1>5. /\ v' \in Volumes(LinkCounts, FreeCounts)
      /\ v'.bbm = v.bbm /\ v'.ibm = v.ibm /\ v'.sfb = v.sfb /\ v'.sfi = v.sfi
      /\ \A n \in Ino \ {i} : v'.inode[n] = v.inode[n]
      /\ v'.inode[i].kind = v.inode[i].kind /\ v'.inode[i].ext = v.inode[i].ext
      /\ v'.inode[i].inl = v.inode[i].inl
      /\ v'.inode[i].links = IF i \in Reach(v0, c) THEN Refs(v0, c, i) ELSE v.inode[i].links
      /\ stale' = IF i \in Reach(v0, c) THEN stale \ {i} ELSE stale
  <2>1. CASE i \in Reach(v0, c)
    <3> DEFINE r == Refs(v0, c, i)
               D == [kind : {"free", "reg", "dir"}, links : LinkCounts, ext : Seq(Nat), inl : Seq(Value)]
               e == [v.inode[i] EXCEPT !.links = r]
    <3>1. v' = [v EXCEPT !.inode[i].links = r] /\ stale' = stale \ {i}
      BY <1>3, <1>4, <2>1 DEF FixLinks
    <3>2. r \in LinkCounts
      BY <1>4 DEF LinkCounts
    <3> HIDE DEF r
    <3>3. v.inode \in [Ino -> D] /\ v.inode[i] \in D
      BY <1>4 DEF Volumes
    <3>4. e \in D /\ e.links = r /\ e.kind = v.inode[i].kind /\ e.ext = v.inode[i].ext /\ e.inl = v.inode[i].inl
      BY <3>2, <3>3
    <3> DEFINE tab == [v.inode EXCEPT ![i] = e]
    <3>5. v' = [v EXCEPT !.inode = tab]
      BY <3>1
    <3> HIDE DEF e
    <3>6. tab \in [Ino -> D] /\ tab[i] = e /\ \A n \in Ino \ {i} : tab[n] = v.inode[n]
      BY <1>4, <3>3, <3>4
    <3> HIDE DEF tab
    <3>7. /\ v' \in Volumes(LinkCounts, FreeCounts) /\ v'.inode = tab
          /\ v'.bbm = v.bbm /\ v'.ibm = v.ibm /\ v'.sfb = v.sfb /\ v'.sfi = v.sfi
      BY <1>4, <3>5, <3>6 DEF Volumes
    <3> QED BY <2>1, <3>1, <3>4, <3>6, <3>7 DEF r
  <2>2. CASE i \notin Reach(v0, c)
    <3>1. v' = v /\ stale' = stale
      BY <1>3, <2>2 DEF FixLinks
    <3> QED BY <1>4, <2>2, <3>1
  <2> QED BY <2>1, <2>2
<1>6. i' \in Ino /\ pc' \in {"links", "counts"}
  BY <1>1, <1>4, RootIno, SMT DEF Ino
<1>7. Types'
  <2>1. v'.bbm \subseteq Block /\ v'.ibm \subseteq Ino /\ DOMAIN v'.inode = Ino /\ stale' \subseteq Ino \cup {0}
    BY <1>4, <1>5 DEF Volumes
  <2>2. TypeOK'
    BY <1>1, <1>6, <2>1 DEF IInv, Types, TypeOK
  <2>3. v' \in Volumes(LinkCounts, FreeCounts)' /\ v0' \in Volumes(Nat, Nat)
    BY <1>1, <1>5 DEF IInv, Types, LinkCounts, FreeCounts, Counts
  <2>4. fs' = [fb |-> v'.sfb, fi |-> v'.sfi] \/ fs' = Counts(v0)'
    BY <1>1, <1>5 DEF IInv, Types, Counts
  <2> QED BY <2>2, <2>3, <2>4 DEF Types
<1>8. TreeKept'
  <2> SUFFICES ASSUME NEW n \in Ino
               PROVE  /\ v'.inode[n].kind = v0.inode[n].kind /\ v'.inode[n].ext = v0.inode[n].ext
                      /\ v'.inode[n].inl = v0.inode[n].inl
                      /\ n \notin Reach(v0, c) => v'.inode[n].links = v0.inode[n].links
    BY <1>1 DEF TreeKept
  <2>1. /\ v.inode[n].kind = v0.inode[n].kind /\ v.inode[n].ext = v0.inode[n].ext
        /\ v.inode[n].inl = v0.inode[n].inl
        /\ n \notin Reach(v0, c) => v.inode[n].links = v0.inode[n].links
    BY DEF IInv, TreeKept
  <2>2. CASE n = i
    BY <1>5, <2>1, <2>2
  <2>3. CASE n # i
    BY <1>5, <2>1, <2>3
  <2> QED BY <2>2, <2>3
<1>9. BitsKept'
  BY <1>1, <1>5 DEF IInv, BitsKept
<1>10. \A n \in 1..i : Linked(n)'
  <2> SUFFICES ASSUME NEW n \in 1..i, n \in Reach(v0, c)
               PROVE  v'.inode[n].links = Refs(v0, c, n) /\ n \notin stale'
    BY <1>1 DEF Linked
  <2>1. CASE n = i
    BY <1>5, <2>1
  <2>2. CASE n # i
    <3>1. n \in 1..i-1 /\ n \in Ino
      BY <1>4, <2>2, SMT DEF Ino
    <3> QED BY <1>2, <1>5, <2>2, <3>1 DEF Linked
  <2> QED BY <2>1, <2>2
<1>11. Progress'
  <2>1. CASE i < NINODES
    <3>1. i' = i + 1 /\ pc' = "links" /\ i \in Nat
      BY <1>1, <1>4, <2>1, SMT DEF Ino
    <3>2. i' - 1 = i
      BY <3>1, SMT
    <3> QED BY <1>1, <1>2, <1>5, <1>10, <3>1, <3>2 DEF Progress, Wanted
  <2>2. CASE ~(i < NINODES)
    <3>1. i' = 1 /\ pc' = "counts" /\ Ino = 1..i
      BY <1>1, <1>4, <2>2, RootIno, SMT DEF Ino
    <3> QED BY <1>1, <1>2, <1>5, <1>10, <3>1 DEF Progress, Wanted
  <2> QED BY <2>1, <2>2
<1> QED BY <1>7, <1>8, <1>9, <1>11 DEF IInv

LEMMA FixCountsKeeps == ASSUME IInv, FixCounts PROVE IInv'
<1> DEFINE n == [fb |-> NBLOCKS - Cardinality(want.blocks), fi |-> NINODES - Cardinality(want.inodes)]
<1>1. /\ pc = "counts" /\ pc' = "done" /\ UNCHANGED <<c, i, want, v0>>
      /\ v' = [v EXCEPT !.sfb = n.fb, !.sfi = n.fi] /\ stale' = stale \ {0}
      /\ fs' = IF <<v.sfb, v.sfi>> # <<n.fb, n.fi>> \/ 0 \in stale THEN n ELSE fs
  BY DEF FixCounts
<1>2. /\ want = Wanted /\ i = 1 /\ v.bbm = Marked(v0, c) /\ v.ibm = Reach(v0, c)
      /\ \A k \in Ino : Linked(k)
  BY <1>1 DEF IInv, Progress
<1>3. n = Counts(v0)
  BY <1>2 DEF Wanted, Counts
<1>4. n = [fb |-> n.fb, fi |-> n.fi]
  OBVIOUS
<1> HIDE DEF n
<1>5. v \in Volumes(LinkCounts, FreeCounts) /\ n.fb \in FreeCounts /\ n.fi \in FreeCounts
  BY <1>3 DEF IInv, Types, FreeCounts
<1>6. /\ v' \in Volumes(LinkCounts, FreeCounts) /\ v'.sfb = n.fb /\ v'.sfi = n.fi
      /\ v'.bbm = v.bbm /\ v'.ibm = v.ibm /\ v'.inode = v.inode
  BY <1>1, <1>5 DEF Volumes
<1>7. fs' = n
  <2>1. fs = [fb |-> v.sfb, fi |-> v.sfi] \/ fs = n
    BY <1>3 DEF IInv, Types
  <2>2. CASE <<v.sfb, v.sfi>> # <<n.fb, n.fi>> \/ 0 \in stale
    BY <1>1, <2>2
  <2>3. CASE v.sfb = n.fb /\ v.sfi = n.fi /\ 0 \notin stale
    BY <1>1, <1>4, <2>1, <2>3
  <2> QED BY <2>2, <2>3
<1>8. Types'
  <2>1. TypeOK'
    BY <1>1, <1>6 DEF IInv, Types, TypeOK
  <2>2. v' \in Volumes(LinkCounts, FreeCounts)' /\ v0' \in Volumes(Nat, Nat)
    BY <1>1, <1>6 DEF IInv, Types, LinkCounts, FreeCounts, Counts
  <2>3. fs' = Counts(v0)'
    BY <1>1, <1>3, <1>7 DEF Counts
  <2> QED BY <2>1, <2>2, <2>3 DEF Types
<1>9. TreeKept' /\ BitsKept'
  BY <1>1, <1>6 DEF IInv, TreeKept, BitsKept
<1>10. \A k \in Ino : Linked(k)'
  BY <1>1, <1>2, <1>6 DEF Linked
<1>11. [fb |-> v'.sfb, fi |-> v'.sfi] = Counts(v0)' /\ 0 \notin stale' /\ fs' = Counts(v0)'
  BY <1>1, <1>3, <1>4, <1>6, <1>7 DEF Counts
<1>12. Progress'
  BY <1>1, <1>2, <1>6, <1>10, <1>11 DEF Progress, Wanted
<1> QED BY <1>8, <1>9, <1>12 DEF IInv

LEMMA StepKeeps == IInv /\ [Next]_vars => IInv'
<1> SUFFICES ASSUME IInv, [Next]_vars PROVE IInv'
  OBVIOUS
<1>1. CASE UNCHANGED vars
  BY <1>1, SMT DEF vars, IInv, Types, TypeOK, LinkCounts, FreeCounts, Counts, TreeKept, BitsKept, Progress, Linked, Wanted
<1> QED BY <1>1, WalkKeeps, FixBlocksKeeps, FixInodesKeeps, FixLinksKeeps, FixCountsKeeps,
           CrashKeeps, AgainKeeps DEF Next

LEMMA Invariance == ASSUME WellFormed PROVE Spec => []IInv
<1>1. Init => IInv
  BY IInvInit
<1> QED BY <1>1, StepKeeps, PTL DEF Spec

-----------------------------------------------------------------------------
(* A walk of the volume finds, at any instant, what a walk of the damaged
   volume would have found. *)
LEMMA TreeFound ==
    ASSUME IInv
    PROVE  /\ Reach(v, c) = Reach(v0, c) /\ Marked(v, c) = Marked(v0, c)
           /\ \A n : Refs(v, c, n) = Refs(v0, c, n)
           /\ Unfixable(v, c) = Unfixable(v0, c)
<1>1. SameTree(v, v0)
  BY DEF IInv, TreeKept, SameTree
<1> QED BY <1>1, WalkSame, SMTT(60)

LEMMA DoneCleans == ASSUME IInv PROVE RepairCleans
<1> SUFFICES ASSUME pc = "done"
             PROVE  /\ Problems(v, c) = Unfixable(v0, c)
                    /\ stale \cap (Reach(v, c) \cup {0}) = {}
                    /\ fs = [fb |-> v.sfb, fi |-> v.sfi]
  BY DEF RepairCleans
<1>1. /\ v.bbm = Marked(v0, c) /\ v.ibm = Reach(v0, c) /\ \A n \in Ino : Linked(n)
      /\ [fb |-> v.sfb, fi |-> v.sfi] = Counts(v0) /\ 0 \notin stale /\ fs = Counts(v0)
  BY DEF IInv, Progress
<1>2. v.sfb = NBLOCKS - Cardinality(Marked(v0, c)) /\ v.sfi = NINODES - Cardinality(Reach(v0, c))
  BY <1>1 DEF Counts
<1>3. \A n \in Reach(v0, c) : v.inode[n].links = Refs(v0, c, n) /\ n \notin stale
  BY <1>1, ReachType DEF Linked
<1>4. /\ Marked(v, c) = v.bbm /\ Reach(v, c) = v.ibm
      /\ \A n \in Reach(v, c) : v.inode[n].links = Refs(v, c, n)
      /\ v.sfb = NBLOCKS - Cardinality(Marked(v, c)) /\ v.sfi = NINODES - Cardinality(Reach(v, c))
      /\ Unfixable(v, c) = Unfixable(v0, c)
  BY <1>1, <1>2, <1>3, TreeFound
<1>5. Problems(v, c) = UNION {Unfixable(v, c), {}}
  BY <1>4, SMT DEF Problems
<1>6. Problems(v, c) = Unfixable(v0, c)
  BY <1>4, <1>5
<1>7. stale \cap (Reach(v, c) \cup {0}) = {}
  BY <1>1, <1>3, TreeFound
<1> QED BY <1>1, <1>6, <1>7

LEMMA DoneConverges == ASSUME IInv PROVE RepairConverges
<1> SUFFICES ASSUME pc = "done" PROVE v = Repaired(v0)
  BY DEF RepairConverges
<1> DEFINE I == [kind : {"free", "reg", "dir"}, links : LinkCounts, ext : Seq(Nat), inl : Seq(Value)]
           tab == [n \in Ino |-> IF n \in Reach(v0, c)
                                 THEN [v0.inode[n] EXCEPT !.links = Refs(v0, c, n)]
                                 ELSE v0.inode[n]]
<1>1. /\ v.bbm = Marked(v0, c) /\ v.ibm = Reach(v0, c) /\ \A n \in Ino : Linked(n)
      /\ v.sfb = Counts(v0).fb /\ v.sfi = Counts(v0).fi
  BY DEF IInv, Progress, Counts
<1>2. v \in Volumes(LinkCounts, FreeCounts) /\ v0 \in Volumes(LinkCounts, FreeCounts)
  BY VolumeTypes DEF IInv, Types, LinkCounts, FreeCounts
<1>3. v.inode \in [Ino -> I] /\ v0.inode \in [Ino -> I]
  BY <1>2 DEF Volumes
<1>4. ASSUME NEW n \in Ino PROVE v.inode[n] = tab[n]
  <2> DEFINE new == IF n \in Reach(v0, c) THEN Refs(v0, c, n) ELSE v0.inode[n].links
  <2>1. v.inode[n] \in I /\ v0.inode[n] \in I
    BY <1>3
  <2>2. /\ v.inode[n].kind = v0.inode[n].kind /\ v.inode[n].ext = v0.inode[n].ext
        /\ v.inode[n].inl = v0.inode[n].inl /\ v.inode[n].links = new
    BY <1>1 DEF IInv, TreeKept, Linked
  <2>3. v.inode[n] = [v0.inode[n] EXCEPT !.links = new]
    <3> HIDE DEF new
    <3> QED BY <2>1, <2>2
  <2>4. n \notin Reach(v0, c) => [v0.inode[n] EXCEPT !.links = new] = v0.inode[n]
    BY <2>1
  <2> QED BY <2>3, <2>4
<1>5. v.inode = tab
  BY <1>3, <1>4
<1>6. Repaired(v0) = [v0 EXCEPT !.bbm = Marked(v0, c), !.ibm = Reach(v0, c),
                                !.sfb = Counts(v0).fb, !.sfi = Counts(v0).fi, !.inode = tab]
  BY DEF Repaired
<1> HIDE DEF tab, I
<1> DEFINE B == Marked(v0, c)
           R == Reach(v0, c)
           f == Counts(v0).fb
           g == Counts(v0).fi
<1>7. /\ Repaired(v0) = [v0 EXCEPT !.bbm = B, !.ibm = R, !.sfb = f, !.sfi = g, !.inode = tab]
      /\ v.bbm = B /\ v.ibm = R /\ v.sfb = f /\ v.sfi = g /\ v.inode = tab
  BY <1>1, <1>5, <1>6
<1> HIDE DEF B, R, f, g
<1> DEFINE V == [bbm : SUBSET Block, ibm : SUBSET Ino, sfb : FreeCounts, sfi : FreeCounts, inode : [Ino -> I]]
<1>8. v \in V /\ v0 \in V
  BY <1>2 DEF Volumes, I
<1>9. v = [bbm |-> B, ibm |-> R, sfb |-> f, sfi |-> g, inode |-> tab]
  BY <1>7, <1>8
<1>10. [v0 EXCEPT !.bbm = B, !.ibm = R, !.sfb = f, !.sfi = g, !.inode = tab]
           = [bbm |-> B, ibm |-> R, sfb |-> f, sfi |-> g, inode |-> tab]
  <2> DEFINE w1 == [v0 EXCEPT !.bbm = B]
             w2 == [w1 EXCEPT !.ibm = R]
             w3 == [w2 EXCEPT !.sfb = f]
             w4 == [w3 EXCEPT !.sfi = g]
             w5 == [w4 EXCEPT !.inode = tab]
  <2>1. w1 = [bbm |-> B, ibm |-> v0.ibm, sfb |-> v0.sfb, sfi |-> v0.sfi, inode |-> v0.inode]
    BY <1>8, SMT
  <2> HIDE DEF w1
  <2>2. w2 = [bbm |-> B, ibm |-> R, sfb |-> v0.sfb, sfi |-> v0.sfi, inode |-> v0.inode]
    BY <2>1, SMT
  <2> HIDE DEF w2
  <2>3. w3 = [bbm |-> B, ibm |-> R, sfb |-> f, sfi |-> v0.sfi, inode |-> v0.inode]
    BY <2>2, SMT
  <2> HIDE DEF w3
  <2>4. w4 = [bbm |-> B, ibm |-> R, sfb |-> f, sfi |-> g, inode |-> v0.inode]
    BY <2>3, SMT
  <2> HIDE DEF w4
  <2>5. w5 = [bbm |-> B, ibm |-> R, sfb |-> f, sfi |-> g, inode |-> tab]
    BY <2>4, SMT
  <2> QED BY <2>5, Zenon DEF w1, w2, w3, w4
<1> QED BY <1>7, <1>9, <1>10

(* The repair of cfs_fsck keeps the sizes of the bitmaps and of the inode
   table, and its loop over the inodes stays within the table. *)
THEOREM TypeCorrect == ASSUME WellFormed PROVE Spec => []TypeOK
<1>1. IInv => TypeOK
  BY DEF IInv, Types
<1> QED BY <1>1, Invariance, PTL

(* Whatever cfs_fsck found in the bitmaps, the link counts, the free counts
   and the checksums, and however often power failed during the repair, when
   it is done a second cfs_fsck reports only what the repair does not
   attempt: blocks named twice and references out of range. *)
THEOREM RepairAlwaysCleans == ASSUME WellFormed PROVE Spec => []RepairCleans
<1>1. IInv => RepairCleans
  BY DoneCleans
<1> QED BY <1>1, Invariance, PTL

(* However often it was interrupted and run again, a finished cfs_fsck has
   made the volume that a single repair of the damaged one makes. *)
THEOREM RepairAlwaysConverges == ASSUME WellFormed PROVE Spec => []RepairConverges
<1>1. IInv => RepairConverges
  BY DoneConverges
<1> QED BY <1>1, Invariance, PTL

(* At no instant of the repair, not even between two sectors of a bitmap, is
   something in use marked free that was marked used when cfs_fsck began. *)
THEOREM RepairNeverLoses == ASSUME WellFormed PROVE Spec => []RepairNeverFrees
<1>1. IInv => RepairNeverFrees
  BY TreeFound DEF IInv, BitsKept, RepairNeverFrees
<1> QED BY <1>1, Invariance, PTL
=============================================================================
