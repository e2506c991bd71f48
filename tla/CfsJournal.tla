----------------------------- MODULE CfsJournal -----------------------------
(***************************************************************************)
(* The write-ahead journal of CFS (src/cfs.c, "Journaling"), from the      *)
(* buffered transaction of one operation to its replay at the next mount.  *)
(*                                                                         *)
(* A step of this module is one block write of the code.  Power can fail   *)
(* between any two of them and in the middle of one, which leaves the      *)
(* block torn; the journal header fits one sector and is never torn.       *)
(* ata_write flushes the drive's cache before it returns, so writes reach  *)
(* the disk in program order.                                              *)
(*                                                                         *)
(* Block contents are opaque, and the checksum of the journal is its       *)
(* content: two different journals never have the same checksum.  The      *)
(* sequence number is left out, since no decision of the code reads it.    *)
(***************************************************************************)
EXTENDS Integers, Sequences

CONSTANTS
    Home,       \* metadata blocks: superblock, bitmaps, inode table, directories
    Data,       \* the contents a block can have
    Torn,       \* what a block holds when power failed in the middle of a write
    Unknown,    \* history: no successful operation vouches for the block
    MAX_TXN,    \* CFS_MAX_TXN, the blocks one transaction can buffer
    JBLOCKS,    \* journal_blocks of the superblock, 0 without a journal
    IOErrors,   \* "none", "failstop" (after one error all fail), "transient"
    Formatted   \* the contents mkfs left in every home block

ASSUME DataAssumption == Torn \notin Data /\ Unknown \notin Data /\ Torn \notin Home
ASSUME SizeAssumption == MAX_TXN \in Nat \ {0} /\ JBLOCKS \in Nat
ASSUME ErrorAssumption == IOErrors \in {"none", "failstop", "transient"}
ASSUME FormatAssumption == Formatted \in [Home -> Data]

VARIABLES
    home,       \* on disk: the home blocks
    jhdr,       \* on disk: the journal's header
    jdesc,      \* on disk: its descriptor, the home of each logged block
    jdata,      \* on disk: its data blocks
    txn,        \* the buffered writes, in the order of their first write
    txn_active, \* bd_read_block and bd_write_block go through the buffer
    pc,         \* where the code is; "down" while the machine is off
    i,          \* the loop index of the phases that write block by block
    dead,       \* a failed request made the disk refuse all others
    acked       \* history: per home, the last value a success reported

disk == <<home, jhdr, jdesc, jdata>>
vars == <<disk, txn, txn_active, pc, i, dead, acked>>

JNONE == "none"
JCOMMITTED == "committed"

Entry == [home : Home, data : Data]
Header == [state : {JNONE, JCOMMITTED}, nblocks : 0..MAX_TXN,
           csum : [desc : Seq(Home \cup {Torn}), data : Seq(Data \cup {Torn})]]
Released == [state |-> JNONE, nblocks |-> 0, csum |-> [desc |-> <<>>, data |-> <<>>]]

homes == [k \in 1..Len(txn) |-> txn[k].home]
datas == [k \in 1..Len(txn) |-> txn[k].data]

(* crc32 over the descriptor and the first n data blocks of the journal. *)
crc(desc, data, n) == [desc |-> desc, data |-> [k \in 1..n |-> data[k]]]

-----------------------------------------------------------------------------
(* The transaction buffer. *)

txn_find(h) == {k \in 1..Len(txn) : txn[k].home = h}

bd_read_block(h) ==
    IF txn_active /\ txn_find(h) # {}
    THEN txn[CHOOSE k \in txn_find(h) : TRUE].data
    ELSE home[h]

Buffered(h, d) ==
    IF txn_find(h) # {}
    THEN [txn EXCEPT ![CHOOSE k \in txn_find(h) : TRUE].data = d]
    ELSE Append(txn, [home |-> h, data |-> d])

(* acked after the operation returned success, and after it did not. *)
Vouched == [h \in Home |->
    IF txn_find(h) # {} THEN txn[CHOOSE k \in txn_find(h) : TRUE].data ELSE acked[h]]
Unvouched == [h \in Home |-> IF txn_find(h) # {} THEN Unknown ELSE acked[h]]

(* raw_write_block, by the part of the disk it addresses. *)
PutHome(h, b) == home' = [home EXCEPT ![h] = b] /\ UNCHANGED <<jhdr, jdesc, jdata>>
PutHeader(b) == jhdr' = b /\ UNCHANGED <<home, jdesc, jdata>>
PutDesc(b) == jdesc' = b /\ UNCHANGED <<home, jhdr, jdata>>
PutData(k, b) == jdata' = [jdata EXCEPT ![k] = b] /\ UNCHANGED <<home, jhdr, jdesc>>

CommitRecord ==
    [state |-> JCOMMITTED, nblocks |-> Len(txn), csum |-> crc(homes, datas, Len(txn))]

(* The write the code is now in completes ... *)
Written ==
    \/ pc = "desc" /\ PutDesc(homes)
    \/ pc = "data" /\ PutData(i, txn[i].data)
    \/ pc = "record" /\ PutHeader(CommitRecord)
    \/ pc \in {"checkpoint", "through"} /\ PutHome(txn[i].home, txn[i].data)
    \/ pc \in {"release", "clear"} /\ PutHeader(Released)
    \/ pc = "redo" /\ PutHome(jdesc[i], jdata[i])

(* ... or stops half way. *)
TornWrite ==
    \/ pc = "desc" /\ PutDesc(<<Torn>>)
    \/ pc = "data" /\ PutData(i, Torn)
    \/ pc \in {"checkpoint", "through"} /\ PutHome(txn[i].home, Torn)
    \/ pc = "redo" /\ PutHome(jdesc[i], Torn)

(* A drive that reports an error may have written nothing, part of the block
   or, when it is the flush that fails, all of it.  A dead one writes nothing. *)
FailedWrite ==
    /\ IOErrors # "none"
    /\ \/ UNCHANGED disk
       \/ ~dead /\ TornWrite
       \/ ~dead /\ Written
    /\ dead' = (IOErrors = "failstop")

Committing == pc \in {"desc", "data", "record", "checkpoint", "release", "through"}

-----------------------------------------------------------------------------
Init ==
    /\ home = Formatted
    /\ jhdr = Released
    /\ jdesc = <<>>
    /\ jdata = [k \in 1..MAX_TXN |-> Torn]
    /\ txn = <<>>
    /\ txn_active = FALSE
    /\ pc = "idle"
    /\ i = 1
    /\ dead = FALSE
    /\ acked = Formatted

(* A mutating operation starts: cfs_write_file, cfs_mkdir, ... *)
txn_begin ==
    /\ pc = "idle"
    /\ pc' = "op"
    /\ txn_active' = TRUE
    /\ txn' = <<>>
    /\ UNCHANGED <<disk, i, dead, acked>>

(* A write that does not fit the buffer changes nothing; the operation sees
   -1 and aborts. *)
bd_write_block(h, d) ==
    /\ pc = "op"
    /\ txn_find(h) # {} \/ Len(txn) < MAX_TXN
    /\ txn' = Buffered(h, d)
    /\ UNCHANGED <<disk, txn_active, pc, i, dead, acked>>

txn_abort ==
    /\ pc = "op"
    /\ pc' = "idle"
    /\ txn_active' = FALSE
    /\ txn' = <<>>
    /\ UNCHANGED <<disk, i, dead, acked>>

(* txn_commit up to its first write. *)
CommitEmpty ==
    /\ pc = "op"
    /\ txn = <<>>
    /\ pc' = "idle"
    /\ txn_active' = FALSE
    /\ UNCHANGED <<disk, txn, i, dead, acked>>

CommitJournaled ==
    /\ pc = "op"
    /\ txn # <<>>
    /\ Len(txn) + 2 <= JBLOCKS
    /\ pc' = "desc"
    /\ UNCHANGED <<disk, txn, txn_active, i, dead, acked>>

CommitThrough ==
    /\ pc = "op"
    /\ txn # <<>>
    /\ Len(txn) + 2 > JBLOCKS
    /\ pc' = "through"
    /\ i' = 1
    /\ UNCHANGED <<disk, txn, txn_active, dead, acked>>

-----------------------------------------------------------------------------
(* The writes of txn_commit, each of which returned 0. *)

(* Mutant: the commit record does not wait for the data. *)
WriteDescriptor_RecordNext ==
    /\ pc = "desc" /\ ~dead
    /\ Written
    /\ pc' = "record"
    /\ i' = 1
    /\ UNCHANGED <<txn, txn_active, dead, acked>>

WriteDescriptor ==
    /\ pc = "desc" /\ ~dead
    /\ Written
    /\ pc' = "data"
    /\ i' = 1
    /\ UNCHANGED <<txn, txn_active, dead, acked>>

WriteData ==
    /\ pc = "data" /\ ~dead
    /\ Written
    /\ IF i < Len(txn) THEN i' = i + 1 /\ UNCHANGED pc
                       ELSE i' = 1 /\ pc' = "record"
    /\ UNCHANGED <<txn, txn_active, dead, acked>>

WriteRecord ==
    /\ pc = "record" /\ ~dead
    /\ Written
    /\ pc' = "checkpoint"
    /\ i' = 1
    /\ UNCHANGED <<txn, txn_active, dead, acked>>

(* Mutant: the loop leaves out the last block. *)
Checkpoint_OneLess ==
    /\ pc = "checkpoint" /\ ~dead
    /\ Written
    /\ IF i + 1 < Len(txn) THEN i' = i + 1 /\ UNCHANGED pc
                           ELSE i' = 1 /\ pc' = "release"
    /\ UNCHANGED <<txn, txn_active, dead, acked>>

Checkpoint ==
    /\ pc = "checkpoint" /\ ~dead
    /\ Written
    /\ IF i < Len(txn) THEN i' = i + 1 /\ UNCHANGED pc
                       ELSE i' = 1 /\ pc' = "release"
    /\ UNCHANGED <<txn, txn_active, dead, acked>>

Release ==
    /\ pc = "release" /\ ~dead
    /\ Written
    /\ pc' = "idle"
    /\ txn_active' = FALSE
    /\ txn' = <<>>
    /\ acked' = Vouched
    /\ UNCHANGED <<i, dead>>

(* Mutant: the operation returns after the first block. *)
WriteThrough_FirstOnly ==
    /\ pc = "through" /\ ~dead
    /\ Written
    /\ i' = 1
    /\ pc' = "idle"
    /\ txn_active' = FALSE
    /\ txn' = <<>>
    /\ acked' = Vouched
    /\ UNCHANGED dead

WriteThrough ==
    /\ pc = "through" /\ ~dead
    /\ Written
    /\ \/ /\ i < Len(txn)
          /\ i' = i + 1
          /\ UNCHANGED <<txn, txn_active, pc, acked>>
       \/ /\ i = Len(txn)
          /\ i' = 1
          /\ pc' = "idle"
          /\ txn_active' = FALSE
          /\ txn' = <<>>
          /\ acked' = Vouched
    /\ UNCHANGED dead

(* A write of txn_commit returned an error: the operation returns -1.  Only
   the write-through path leaves the transaction. *)
CommitFails ==
    /\ Committing
    /\ FailedWrite
    /\ txn_active' = (pc # "through")
    /\ acked' = Unvouched
    /\ pc' = "idle"
    /\ i' = 1
    /\ UNCHANGED txn

-----------------------------------------------------------------------------
(* Power loss, and the journal_recover of the next mount. *)

Crash ==
    /\ pc # "down"
    /\ UNCHANGED disk \/ (~dead /\ TornWrite)
    /\ pc' = "down"
    /\ txn' = <<>>
    /\ txn_active' = FALSE
    /\ i' = 1
    /\ dead' = FALSE
    /\ acked' = IF Committing THEN Unvouched ELSE acked

(* Mutant: a transaction that fills the journal is not recognised. *)
Redoable_NotFull(hdr, desc, data) ==
    /\ hdr.state = JCOMMITTED
    /\ hdr.nblocks > 0
    /\ hdr.nblocks + 2 < JBLOCKS
    /\ hdr.csum = crc(desc, data, hdr.nblocks)

(* A journal made of these blocks holds a whole committed transaction. *)
Redoable(hdr, desc, data) ==
    /\ hdr.state = JCOMMITTED
    /\ hdr.nblocks > 0
    /\ hdr.nblocks + 2 <= JBLOCKS
    /\ hdr.csum = crc(desc, data, hdr.nblocks)

(* Mutant: the mount forgets journal_recover. *)
Mount_NoRecovery ==
    /\ pc = "down"
    /\ pc' = "idle"
    /\ UNCHANGED <<disk, txn, txn_active, i, dead, acked>>

Mount ==
    /\ pc = "down"
    /\ pc' = IF Redoable(jhdr, jdesc, jdata) THEN "redo" ELSE "idle"
    /\ UNCHANGED <<disk, txn, txn_active, i, dead, acked>>

(* A journal block that cannot be read ends the recovery, not the mount. *)
RecoveryReadFails ==
    /\ pc \in {"down", "redo"}
    /\ IOErrors # "none"
    /\ dead' = (IOErrors = "failstop")
    /\ pc' = "idle"
    /\ i' = 1
    /\ UNCHANGED <<disk, txn, txn_active, acked>>

(* journal_recover ignores the result of its writes. *)
RecoveryWrite ==
    \/ ~dead /\ Written /\ UNCHANGED dead
    \/ FailedWrite

Redo ==
    /\ pc = "redo" /\ ~dead
    /\ RecoveryWrite
    /\ IF i < jhdr.nblocks THEN i' = i + 1 /\ UNCHANGED pc
                           ELSE i' = 1 /\ pc' = "clear"
    /\ UNCHANGED <<txn, txn_active, acked>>

RecoveryClear ==
    /\ pc = "clear"
    /\ RecoveryWrite
    /\ pc' = "idle"
    /\ UNCHANGED <<txn, txn_active, i, acked>>

Next ==
    \/ txn_begin
    \/ \E h \in Home, d \in Data : bd_write_block(h, d)
    \/ txn_abort
    \/ CommitEmpty
    \/ CommitJournaled
    \/ CommitThrough
    \/ WriteDescriptor
    \/ WriteData
    \/ WriteRecord
    \/ Checkpoint
    \/ Release
    \/ WriteThrough
    \/ CommitFails
    \/ Crash
    \/ Mount
    \/ RecoveryReadFails
    \/ Redo
    \/ RecoveryClear

Spec == Init /\ [][Next]_vars

-----------------------------------------------------------------------------
(* What a mount would find in the home blocks of a disk, ... *)
Logged(hdr, desc, h) == {k \in 1..hdr.nblocks : desc[k] = h}

RecoveredFrom(hm, hdr, desc, data) == [h \in Home |->
    IF Redoable(hdr, desc, data) /\ Logged(hdr, desc, h) # {}
    THEN data[CHOOSE k \in Logged(hdr, desc, h) : TRUE]
    ELSE hm[h]]

(* ... if the power failed now. *)
Recovered == RecoveredFrom(home, jhdr, jdesc, jdata)

(* The transaction is open: its commit record is not yet on the disk. *)
Open == pc \in {"op", "desc", "data", "record"}

(* What the operation now running has written, over what is durable. *)
View == [h \in Home |->
    IF Open /\ txn_find(h) # {}
    THEN txn[CHOOSE k \in txn_find(h) : TRUE].data
    ELSE Recovered[h]]

(* Type invariant.  It also bounds the loop index by the loop it drives, so
   that no phase reads past the transaction or past the journal. *)
TypeOK ==
    /\ home \in [Home -> Data \cup {Torn}]
    /\ jhdr \in Header
    /\ jdesc \in Seq(Home \cup {Torn})
    /\ jdata \in [1..MAX_TXN -> Data \cup {Torn}]
    /\ txn \in Seq(Entry)
    /\ Len(txn) <= MAX_TXN
    /\ txn_active \in BOOLEAN
    /\ pc \in {"idle", "op", "desc", "data", "record", "checkpoint", "release",
               "through", "down", "redo", "clear"}
    /\ i \in 1..MAX_TXN
    /\ pc \in {"data", "checkpoint", "through"} => i <= Len(txn)
    /\ pc = "redo" => i <= jhdr.nblocks
    /\ dead \in BOOLEAN
    /\ acked \in [Home -> Data \cup {Unknown}]

(* txn_find has at most one answer: no block is buffered, and so none is
   journaled, twice (bd_write_block reuses the slot of a block it finds). *)
TxnHomesDistinct ==
    \A j, k \in 1..Len(txn) : txn[j].home = txn[k].home => j = k

-----------------------------------------------------------------------------
(* The inductive invariant behind durability and, for a journal that holds the
   largest transaction, behind crash atomicity, on a disk that does not work
   again after an error. *)

Fits == MAX_TXN + 2 <= JBLOCKS

(* While no commit record is needed, there is none on a working disk. *)
Quiet ==
    pc \in {"idle", "op", "desc", "data", "record", "through"} /\ ~dead => jhdr.state = JNONE

(* A disk found dead is noticed by the first write of a commit. *)
DeadPhases == dead => pc \in {"idle", "op", "desc", "through", "redo", "clear"}

(* A commit record on the disk describes a whole journal. *)
Replayable ==
    /\ Redoable(jhdr, jdesc, jdata)
    /\ \A k \in 1..jhdr.nblocks : jdesc[k] \in Home /\ jdata[k] \in Data
    /\ \A j, k \in 1..jhdr.nblocks : jdesc[j] = jdesc[k] => j = k

(* The journal covers every torn block. *)
Covered ==
    \A h \in Home : home[h] = Torn =>
        jhdr.state = JCOMMITTED /\ \E k \in 1..jhdr.nblocks : jdesc[k] = h

(* How far the loops of txn_commit and of journal_recover have got. *)
LoggedUpTo(n) == jdesc = homes /\ \A k \in 1..n : jdata[k] = txn[k].data
HomeUpTo(n) == \A k \in 1..n : home[txn[k].home] = txn[k].data
RedoneUpTo(n) == \A k \in 1..n : home[jdesc[k]] = jdata[k]

Progress ==
    /\ pc \in {"desc", "data", "record"} => Len(txn) + 2 <= JBLOCKS
    /\ pc = "data" => LoggedUpTo(i - 1)
    /\ pc = "record" => LoggedUpTo(Len(txn))
    /\ pc \in {"checkpoint", "release"} =>
            /\ jhdr.state = JCOMMITTED
            /\ jhdr.nblocks = Len(txn)
            /\ LoggedUpTo(Len(txn))
    /\ pc \in {"checkpoint", "through"} => HomeUpTo(i - 1)
    /\ pc = "release" => HomeUpTo(Len(txn))
    /\ pc \in {"redo", "clear"} => jhdr.state = JCOMMITTED
    /\ pc = "redo" /\ ~dead => RedoneUpTo(i - 1)
    /\ pc = "clear" /\ ~dead => RedoneUpTo(jhdr.nblocks)

(* At every instant the journal is empty or can be replayed, and each phase of
   txn_commit and journal_recover has done exactly what the next ones rely on.
   Where every transaction fits the journal, none is written through it and
   nothing is torn that a replay does not mend. *)
JournalInv ==
    /\ Quiet
    /\ DeadPhases
    /\ jhdr.state = JNONE \/ Replayable
    /\ Progress
    /\ Fits => pc # "through" /\ Covered

-----------------------------------------------------------------------------
(* Crash atomicity, "the operation's result is atomic" in the words of
   tests/cfs/test_journal.c: at every instant, what a mount would recover is
   the store before the operation or the store after it, and it changes from
   one to the other in one step.  The journal implements an atomic store. *)
Abstract == INSTANCE AtomicStore WITH store <- Recovered, view <- View
ImplementsAtomicStore == Abstract!Spec

(* Between two block writes of an operation, and when none runs,
   bd_read_block returns what the abstract store holds for the caller: no
   uncommitted, half-checkpointed or half-replayed block is ever read.  The
   comment above cfs_write_file asks for this after every failure ... *)
ReadsMatchStore ==
    pc \in {"idle", "op"} => \A h \in Home : bd_read_block(h) = View[h]

(* ... and it holds as long as the disk has reported no error. *)
SoundDiskReads == ~dead => ReadsMatchStore

(* A value that a successful operation wrote is what recovery finds, until
   a later operation that writes the same block: neither errors nor crashes
   of other operations, nor the replay of an old journal, can undo it. *)
AckedSurvives ==
    \A h \in Home :
        acked[h] # Unknown /\ ~(Committing /\ txn_find(h) # {})
            => Recovered[h] = acked[h]
=============================================================================
