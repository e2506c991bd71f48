------------------------------- MODULE MCCfs -------------------------------
EXTENDS Cfs, TLC

MCSymmetry == Permutations(Name) \cup Permutations(Value)

(* States that differ only in what free blocks and free inodes still hold
   are one state: the code overwrites both before it reads them.  While a
   file is written its new inode is still a local of do_write_file.
   TLC chooses the representative of a symmetry class before it applies the
   view, so the number of states it counts varies a little between runs. *)
Known(t, S) == [t EXCEPT !.inode = [n \in Ino |-> IF n \in S THEN @[n] ELSE 0]]
Used == store.bbm \cup (IF pc = "idle" THEN {} ELSE txn.bbm)
MCView ==
    <<Known(store, store.ibm), [b \in Used |-> blk[b]], fs, pc, op, last, hurt,
      IF pc = "idle" THEN NoTxn
      ELSE [Known(txn, IF pc = "write" THEN store.ibm ELSE txn.ibm) EXCEPT !.blk = 0]>>
=============================================================================
