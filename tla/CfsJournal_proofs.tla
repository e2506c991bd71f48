-------------------------- MODULE CfsJournal_proofs --------------------------
(***************************************************************************)
(* Proofs about the CFS journal, for every number of blocks, every         *)
(* transaction size and every journal length: its types, whatever the      *)
(* drive does; then, on a disk that works until it fails or loses power,   *)
(* that what was reported as written is found again and, where the journal *)
(* holds the largest transaction, that it implements AtomicStore.          *)
(***************************************************************************)
EXTENDS CfsJournal, SequenceTheorems, TLAPS

(* A step is proved by Zenon within 20 seconds, or names another prover. *)
USE ZenonT(20)

(* A function over an initial segment of the naturals is a sequence. *)
LEMMA FunctionIsSeq ==
    ASSUME NEW S, NEW n \in Nat, NEW f \in [1..n -> S]
    PROVE  f \in Seq(S)
  BY SeqDef

(***************************************************************************)
(* Type correctness.                                                       *)
(***************************************************************************)

(* TypeOK is inductive together with two facts about the control state: a
   commit never writes an empty transaction, and the machine goes down with
   the loop index reset. *)
TypeInv ==
    /\ TypeOK
    /\ Committing => txn # <<>>
    /\ pc = "down" => i = 1

DiskOK ==
    /\ home \in [Home -> Data \cup {Torn}]
    /\ jhdr \in Header
    /\ jdesc \in Seq(Home \cup {Torn})
    /\ jdata \in [1..MAX_TXN -> Data \cup {Torn}]

(* What the type invariant says of the buffered transaction. *)
LEMMA TxnType ==
    ASSUME TypeInv
    PROVE  /\ Len(txn) \in 0..MAX_TXN
           /\ \A k \in 1..Len(txn) : txn[k] \in Entry /\ txn[k].home \in Home /\ txn[k].data \in Data
           /\ Committing => Len(txn) >= 1
           /\ homes \in [1..Len(txn) -> Home]
           /\ datas \in [1..Len(txn) -> Data]
           /\ homes \in Seq(Home \cup {Torn})
           /\ datas \in Seq(Data \cup {Torn})
           /\ crc(homes, datas, Len(txn)) = [desc |-> homes, data |-> datas]
           /\ CommitRecord \in Header
           /\ Released \in Header
           /\ <<Torn>> \in Seq(Home \cup {Torn})
<1>1. txn \in Seq(Entry) /\ Len(txn) \in 0..MAX_TXN
  BY SizeAssumption, SMT DEF TypeInv, TypeOK
<1>2. \A k \in 1..Len(txn) : txn[k] \in Entry
  BY <1>1, ElementOfSeq
<1>3. \A k \in 1..Len(txn) : txn[k].home \in Home /\ txn[k].data \in Data
  BY <1>2 DEF Entry
<1>4. Committing => Len(txn) >= 1
  BY <1>1, EmptySeq, SMT DEF TypeInv
<1>5. homes \in [1..Len(txn) -> Home] /\ datas \in [1..Len(txn) -> Data]
  BY <1>1, <1>3 DEF homes, datas
<1>6. homes \in Seq(Home \cup {Torn}) /\ datas \in Seq(Data \cup {Torn})
  <2>1. homes \in [1..Len(txn) -> Home \cup {Torn}] /\ datas \in [1..Len(txn) -> Data \cup {Torn}]
    BY <1>1, <1>3 DEF homes, datas
  <2>2. Len(txn) \in Nat
    BY <1>1, SizeAssumption, SMT
  <2>3. homes \in Seq(Home \cup {Torn})
    BY <2>1, <2>2, FunctionIsSeq
  <2>4. datas \in Seq(Data \cup {Torn})
    BY <2>1, <2>2, FunctionIsSeq
  <2> QED
    BY <2>3, <2>4
<1>7. crc(homes, datas, Len(txn)) = [desc |-> homes, data |-> datas]
  BY <1>1 DEF crc, datas
<1>8. CommitRecord \in Header
  BY <1>1, <1>6, <1>7, SMT DEF CommitRecord, Header
<1>9. Released \in Header
  BY SizeAssumption, EmptySeq, SMT DEF Released, Header
<1>10. <<Torn>> \in Seq(Home \cup {Torn})
  BY SMT
<1> QED
  BY <1>1, <1>2, <1>3, <1>4, <1>5, <1>6, <1>7, <1>8, <1>9, <1>10

(* A write, whole or torn, leaves a well-typed disk, and only the writes of
   the commit record and of the released header change the header. *)
LEMMA WriteType ==
    ASSUME TypeInv, Written \/ TornWrite \/ UNCHANGED disk
    PROVE  DiskOK' /\ (pc = "redo" => jhdr' = jhdr)
<1>1. DiskOK
  BY DEF TypeInv, TypeOK, DiskOK
<1>2. i \in 1..MAX_TXN /\ (pc \in {"data", "checkpoint", "through"} => i \in 1..Len(txn))
  BY TxnType, SizeAssumption, SMT DEF TypeInv, TypeOK
<1>3. /\ \A k \in 1..Len(txn) : txn[k].home \in Home /\ txn[k].data \in Data
      /\ homes \in Seq(Home \cup {Torn}) /\ <<Torn>> \in Seq(Home \cup {Torn})
      /\ CommitRecord \in Header /\ Released \in Header
  BY TxnType
<1>4. ASSUME Written PROVE DiskOK' /\ (pc = "redo" => jhdr' = jhdr)
  <2>1. ASSUME NEW b \in Seq(Home \cup {Torn}), PutDesc(b) PROVE DiskOK'
    BY <1>1, <2>1 DEF DiskOK, PutDesc
  <2>2. ASSUME NEW k \in 1..MAX_TXN, NEW b \in Data \cup {Torn}, PutData(k, b) PROVE DiskOK'
    BY <1>1, <2>2 DEF DiskOK, PutData
  <2>3. ASSUME NEW b \in Header, PutHeader(b) PROVE DiskOK'
    BY <1>1, <2>3 DEF DiskOK, PutHeader
  <2>4. ASSUME NEW h, NEW b \in Data \cup {Torn}, PutHome(h, b) PROVE DiskOK' /\ jhdr' = jhdr
    BY <1>1, <2>4 DEF DiskOK, PutHome
  <2>5. jdata[i] \in Data \cup {Torn}
    BY <1>1, <1>2 DEF DiskOK
  <2> QED
    BY <1>2, <1>3, <1>4, <2>1, <2>2, <2>3, <2>4, <2>5 DEF Written
<1>5. ASSUME TornWrite PROVE DiskOK' /\ (pc = "redo" => jhdr' = jhdr)
  BY <1>1, <1>2, <1>3, <1>5 DEF TornWrite, DiskOK, PutDesc, PutData, PutHome
<1>6. ASSUME UNCHANGED disk PROVE DiskOK' /\ jhdr' = jhdr
  BY <1>1, <1>6 DEF DiskOK, disk
<1> QED
  BY <1>4, <1>5, <1>6

(* bd_write_block keeps the buffer a sequence of entries within its limit,
   adds no block it already holds, and changes what is buffered for h only. *)
LEMMA BufferFacts ==
    ASSUME TypeInv, TxnHomesDistinct, NEW h \in Home, NEW d \in Data,
           txn_find(h) # {} \/ Len(txn) < MAX_TXN
    PROVE  /\ Buffered(h, d) \in Seq(Entry)
           /\ Len(Buffered(h, d)) <= MAX_TXN
           /\ \A j, k \in 1..Len(Buffered(h, d)) :
                Buffered(h, d)[j].home = Buffered(h, d)[k].home => j = k
           /\ \E k \in 1..Len(Buffered(h, d)) :
                Buffered(h, d)[k].home = h /\ Buffered(h, d)[k].data = d
           /\ \A g \in Home \ {h} : \A e \in Data :
                (\E k \in 1..Len(txn) : txn[k].home = g /\ txn[k].data = e)
                <=> (\E k \in 1..Len(Buffered(h, d)) :
                        Buffered(h, d)[k].home = g /\ Buffered(h, d)[k].data = e)
<1>1. txn \in Seq(Entry) /\ Len(txn) \in Nat /\ Len(txn) <= MAX_TXN
  BY TxnType, SizeAssumption, SMT DEF TypeInv, TypeOK
<1>2. \A k \in 1..Len(txn) : txn[k] \in Entry /\ txn[k].home \in Home /\ txn[k].data \in Data
  BY TxnType
<1>3. CASE txn_find(h) # {}
  <2>1. PICK m \in 1..Len(txn) : m = CHOOSE k \in txn_find(h) : TRUE
    BY <1>3 DEF txn_find
  <2>2. m \in txn_find(h) /\ txn[m].home = h
    BY <1>3, <2>1 DEF txn_find
  <2>3. [txn[m] EXCEPT !.data = d] \in Entry
    BY <1>2 DEF Entry
  <2>4. Buffered(h, d) = [txn EXCEPT ![m] = [txn[m] EXCEPT !.data = d]]
    BY <1>3, <2>1 DEF Buffered
  <2>5. /\ Buffered(h, d) \in Seq(Entry)
        /\ Len(Buffered(h, d)) = Len(txn)
        /\ \A k \in 1..Len(txn) : Buffered(h, d)[k] =
                IF k = m THEN [txn[m] EXCEPT !.data = d] ELSE txn[k]
    BY <1>1, <2>3, <2>4, ExceptSeq, SMT
  <2>6. [txn[m] EXCEPT !.data = d].home = h /\ [txn[m] EXCEPT !.data = d].data = d
    BY <1>2, <2>2 DEF Entry
  <2>7. \A k \in 1..Len(txn) : Buffered(h, d)[k].home = txn[k].home
    BY <2>2, <2>5, <2>6
  <2>8. \A k \in 1..Len(txn) : k # m => Buffered(h, d)[k].data = txn[k].data
    BY <2>5
  <2>9. \A k \in 1..Len(txn) : txn[k].home = h => k = m
    BY <2>2 DEF TxnHomesDistinct
  <2>10. \A j, k \in 1..Len(Buffered(h, d)) :
            Buffered(h, d)[j].home = Buffered(h, d)[k].home => j = k
    BY <2>5, <2>7 DEF TxnHomesDistinct
  <2>11. Buffered(h, d)[m].home = h /\ Buffered(h, d)[m].data = d
    BY <2>5, <2>6
  <2> QED
    BY <1>1, <2>5, <2>7, <2>8, <2>9, <2>10, <2>11
<1>4. CASE txn_find(h) = {}
  <2>1. Len(txn) < MAX_TXN
    BY <1>4
  <2> DEFINE e == [home |-> h, data |-> d]
  <2>2. e \in Entry /\ e.home = h /\ e.data = d
    BY DEF Entry
  <2>3. Buffered(h, d) = Append(txn, e)
    BY <1>4 DEF Buffered
  <2> HIDE DEF e
  <2>4. /\ Buffered(h, d) \in Seq(Entry)
        /\ Len(Buffered(h, d)) = Len(txn) + 1
        /\ \A k \in 1..Len(txn) : Buffered(h, d)[k] = txn[k]
        /\ Buffered(h, d)[Len(txn) + 1] = e
    BY <1>1, <2>2, <2>3, AppendProperties, SMT
  <2>5. \A k \in 1..Len(txn) : txn[k].home # h
    BY <1>4 DEF txn_find
  <2>6. \A k \in 1..Len(Buffered(h, d)) : k \in 1..Len(txn) \/ k = Len(txn) + 1
    BY <1>1, <2>4, SMT
  <2>7. \A j, k \in 1..Len(Buffered(h, d)) :
            Buffered(h, d)[j].home = Buffered(h, d)[k].home => j = k
    BY <2>2, <2>4, <2>5, <2>6, SMT DEF TxnHomesDistinct
  <2>8. Len(txn) + 1 \in 1..Len(Buffered(h, d)) /\ \A k \in 1..Len(txn) : k \in 1..Len(Buffered(h, d))
    BY <1>1, <2>4, SMT
  <2>9. Len(Buffered(h, d)) <= MAX_TXN
    BY <1>1, <2>1, <2>4, SizeAssumption, SMT
  <2> QED
    BY <2>2, <2>4, <2>6, <2>7, <2>8, <2>9, SMT
<1> QED
  BY <1>3, <1>4

(* Types and distinct homes are preserved together by every step. *)
BufferInv == TypeInv /\ TxnHomesDistinct

(* A step after which the buffer is empty and no commit is running. *)
LEMMA EmptyTxnStep ==
    ASSUME txn' = <<>>, DiskOK', txn_active' \in BOOLEAN, i' \in 1..MAX_TXN,
           pc' \in {"idle", "op", "down"}, dead' \in BOOLEAN, pc' = "down" => i' = 1,
           acked' \in [Home -> Data \cup {Unknown}]
    PROVE  BufferInv'
<1>1. txn' \in Seq(Entry) /\ Len(txn') = 0
  BY EmptySeq
<1>2. TxnHomesDistinct'
  BY <1>1, SMT DEF TxnHomesDistinct
<1>3. TypeOK'
  BY <1>1, SizeAssumption, SMT DEF TypeOK, DiskOK
<1>4. ~Committing'
  BY DEF Committing
<1> QED
  BY <1>2, <1>3, <1>4 DEF BufferInv, TypeInv

(* A step that leaves the buffer alone. *)
LEMMA SameTxnStep ==
    ASSUME BufferInv, txn' = txn, DiskOK', txn_active' \in BOOLEAN, i' \in 1..MAX_TXN,
           pc' \in {"idle", "op", "desc", "data", "record", "checkpoint", "release",
                   "through", "down", "redo", "clear"},
           pc' \in {"data", "checkpoint", "through"} => i' <= Len(txn),
           pc' = "redo" => i' <= jhdr'.nblocks,
           pc' = "down" => i' = 1,
           Committing' => txn # <<>>,
           dead' \in BOOLEAN, acked' \in [Home -> Data \cup {Unknown}]
    PROVE  BufferInv'
<1>1. txn \in Seq(Entry) /\ Len(txn) <= MAX_TXN
  BY DEF BufferInv, TypeInv, TypeOK
<1>2. TypeOK'
  BY <1>1 DEF TypeOK, DiskOK
<1>3. TxnHomesDistinct'
  BY DEF BufferInv, TxnHomesDistinct
<1> QED
  BY <1>2, <1>3 DEF BufferInv, TypeInv

LEMMA BufferInvInit ==
    Init => BufferInv
<1> SUFFICES ASSUME Init PROVE BufferInv
  OBVIOUS
<1>1. Released \in Header
  BY SizeAssumption, EmptySeq, SMT DEF Released, Header
<1>2. DiskOK
  BY <1>1, FormatAssumption, EmptySeq DEF Init, DiskOK
<1>3. txn \in Seq(Entry) /\ Len(txn) = 0
  BY EmptySeq DEF Init
<1>4. TxnHomesDistinct
  BY <1>3, SMT DEF TxnHomesDistinct
<1>5. /\ txn_active \in BOOLEAN /\ pc = "idle" /\ i = 1 /\ dead \in BOOLEAN
      /\ acked \in [Home -> Data \cup {Unknown}]
  BY FormatAssumption DEF Init
<1> QED
  BY <1>2, <1>3, <1>4, <1>5, SizeAssumption, SMT DEF BufferInv, TypeInv, TypeOK, DiskOK, Committing

LEMMA BufferInvStep ==
    BufferInv /\ [Next]_vars => BufferInv'
<1> SUFFICES ASSUME BufferInv, [Next]_vars PROVE BufferInv'
  OBVIOUS
<1>1. /\ DiskOK /\ txn \in Seq(Entry) /\ Len(txn) \in 0..MAX_TXN /\ i \in 1..MAX_TXN
      /\ 1 \in 1..MAX_TXN
      /\ acked \in [Home -> Data \cup {Unknown}]
      /\ dead \in BOOLEAN /\ txn_active \in BOOLEAN
      /\ jhdr.nblocks \in 0..MAX_TXN
      /\ (pc = "down" => i = 1)
  BY TxnType, SizeAssumption, SMTT(60) DEF BufferInv, TypeInv, TypeOK, DiskOK, Header
<1>2. ASSUME Written \/ TornWrite \/ UNCHANGED disk
      PROVE  DiskOK' /\ (pc = "redo" => jhdr' = jhdr)
  BY <1>2, WriteType DEF BufferInv
<1>3. UNCHANGED disk => jhdr' = jhdr
  BY DEF disk
<1>4. (Committing => txn # <<>>) /\ (txn # <<>> => Len(txn) >= 1)
  BY <1>1, EmptySeq, SMT DEF BufferInv, TypeInv
<1>5. Unvouched \in [Home -> Data \cup {Unknown}]
  BY <1>1 DEF Unvouched
<1>6. Vouched \in [Home -> Data \cup {Unknown}]
  <2>1. \A h \in Home : txn_find(h) # {} =>
            txn[CHOOSE k \in txn_find(h) : TRUE].data \in Data
    BY TxnType DEF BufferInv, txn_find
  <2> QED
    BY <1>1, <2>1 DEF Vouched
<1>7. CASE txn_begin
  BY <1>1, <1>2, <1>7, EmptyTxnStep DEF txn_begin
<1>8. ASSUME NEW h \in Home, NEW d \in Data, bd_write_block(h, d)
      PROVE  BufferInv'
  <2>1. txn' = Buffered(h, d) /\ (txn_find(h) # {} \/ Len(txn) < MAX_TXN)
    BY <1>8 DEF bd_write_block
  <2>2. /\ txn' \in Seq(Entry)
        /\ Len(txn') <= MAX_TXN
        /\ \A j, k \in 1..Len(txn') : txn'[j].home = txn'[k].home => j = k
    BY <2>1, BufferFacts, SMT DEF BufferInv
  <2>3. DiskOK' /\ pc = "op" /\ pc' = "op" /\ UNCHANGED <<txn_active, i, dead, acked>>
    BY <1>2, <1>8 DEF bd_write_block
  <2> QED
    BY <1>1, <2>2, <2>3 DEF BufferInv, TypeInv, TypeOK, TxnHomesDistinct, DiskOK, Committing
<1>9. CASE txn_abort
  BY <1>1, <1>2, <1>9, EmptyTxnStep DEF txn_abort
<1>10. CASE CommitEmpty
  BY <1>1, <1>2, <1>10, SameTxnStep DEF CommitEmpty, Committing
<1>11. CASE CommitJournaled
  BY <1>1, <1>2, <1>11, SameTxnStep DEF CommitJournaled, Committing
<1>12. CASE CommitThrough
  BY <1>1, <1>2, <1>4, <1>12, SameTxnStep DEF CommitThrough, Committing
<1>13. CASE WriteDescriptor
  BY <1>1, <1>2, <1>4, <1>13, SameTxnStep DEF WriteDescriptor, Committing
<1>14. CASE WriteData
  <2>1. DiskOK' /\ Committing /\ UNCHANGED <<txn, txn_active, dead, acked>>
    BY <1>2, <1>14 DEF WriteData, Committing
  <2>2. i' \in 1..MAX_TXN /\ pc' \in {"data", "record"} /\ (pc' = "data" => i' <= Len(txn))
    BY <1>1, <1>14, SizeAssumption, SMT DEF WriteData
  <2>3. /\ pc' \in {"idle", "op", "desc", "data", "record", "checkpoint", "release",
                     "through", "down", "redo", "clear"}
        /\ (pc' \in {"data", "checkpoint", "through"} => i' <= Len(txn))
        /\ (pc' = "redo" => i' <= jhdr'.nblocks)
        /\ (pc' = "down" => i' = 1)
    BY <2>2
  <2>4. txn # <<>> /\ txn_active' \in BOOLEAN /\ dead' \in BOOLEAN
        /\ acked' \in [Home -> Data \cup {Unknown}]
    BY <1>1, <1>4, <2>1
  <2> QED
    BY <2>1, <2>2, <2>3, <2>4, SameTxnStep
<1>15. CASE WriteRecord
  BY <1>1, <1>2, <1>4, <1>15, SameTxnStep DEF WriteRecord, Committing
<1>16. CASE Checkpoint
  <2>1. DiskOK' /\ Committing /\ UNCHANGED <<txn, txn_active, dead, acked>>
    BY <1>2, <1>16 DEF Checkpoint, Committing
  <2>2. i' \in 1..MAX_TXN /\ pc' \in {"checkpoint", "release"} /\ (pc' = "checkpoint" => i' <= Len(txn))
    BY <1>1, <1>16, SizeAssumption, SMT DEF Checkpoint
  <2>3. /\ pc' \in {"idle", "op", "desc", "data", "record", "checkpoint", "release",
                     "through", "down", "redo", "clear"}
        /\ (pc' \in {"data", "checkpoint", "through"} => i' <= Len(txn))
        /\ (pc' = "redo" => i' <= jhdr'.nblocks)
        /\ (pc' = "down" => i' = 1)
    BY <2>2
  <2>4. txn # <<>> /\ txn_active' \in BOOLEAN /\ dead' \in BOOLEAN
        /\ acked' \in [Home -> Data \cup {Unknown}]
    BY <1>1, <1>4, <2>1
  <2> QED
    BY <2>1, <2>2, <2>3, <2>4, SameTxnStep
<1>17. CASE Release
  BY <1>1, <1>2, <1>6, <1>17, EmptyTxnStep DEF Release
<1>18. CASE WriteThrough
  <2>1. CASE i < Len(txn)
    <3>1. /\ DiskOK' /\ Committing /\ UNCHANGED <<txn, txn_active, dead, acked>>
          /\ pc' = "through"
      BY <1>1, <1>2, <1>18, <2>1, SMT DEF WriteThrough, Committing
    <3>2. i' \in 1..MAX_TXN /\ i' <= Len(txn)
      BY <1>1, <1>18, <2>1, SizeAssumption, SMT DEF WriteThrough
    <3>3. /\ pc' \in {"idle", "op", "desc", "data", "record", "checkpoint", "release",
                       "through", "down", "redo", "clear"}
          /\ (pc' \in {"data", "checkpoint", "through"} => i' <= Len(txn))
          /\ (pc' = "redo" => i' <= jhdr'.nblocks)
          /\ (pc' = "down" => i' = 1)
      BY <3>1, <3>2
    <3>4. txn # <<>> /\ txn_active' \in BOOLEAN /\ dead' \in BOOLEAN
          /\ acked' \in [Home -> Data \cup {Unknown}]
      BY <1>1, <1>4, <3>1
    <3> QED
      BY <3>1, <3>2, <3>3, <3>4, SameTxnStep
  <2>2. CASE i = Len(txn)
    <3>1. /\ DiskOK' /\ txn' = <<>> /\ txn_active' = FALSE /\ i' = 1 /\ pc' = "idle"
          /\ dead' = dead /\ acked' = Vouched
      BY <1>1, <1>2, <1>18, <2>2, SMT DEF WriteThrough
    <3> QED
      BY <1>1, <1>6, <3>1, EmptyTxnStep
  <2> QED
    BY <1>18, <2>1, <2>2 DEF WriteThrough
<1>19. CASE CommitFails
  BY <1>1, <1>2, <1>5, <1>19, SameTxnStep DEF CommitFails, FailedWrite, Committing
<1>20. CASE Crash
  <2>1. DiskOK'
    BY <1>2, <1>20 DEF Crash
  <2>2. acked' \in [Home -> Data \cup {Unknown}]
    BY <1>1, <1>5, <1>20 DEF Crash
  <2> QED
    BY <1>1, <1>20, <2>1, <2>2, EmptyTxnStep DEF Crash
<1>21. CASE Mount
  BY <1>1, <1>2, <1>3, <1>21, SameTxnStep, SMT DEF Mount, Redoable, Committing
<1>22. CASE RecoveryReadFails
  BY <1>1, <1>2, <1>22, SameTxnStep DEF RecoveryReadFails, Committing
<1>23. ASSUME RecoveryWrite
       PROVE  DiskOK' /\ dead' \in BOOLEAN /\ (pc = "redo" => jhdr' = jhdr)
  BY <1>1, <1>2, <1>23 DEF RecoveryWrite, FailedWrite
<1>24. CASE Redo
  <2>1. DiskOK' /\ dead' \in BOOLEAN /\ jhdr' = jhdr /\ UNCHANGED <<txn, txn_active, acked>>
    BY <1>23, <1>24 DEF Redo
  <2>2. i' \in 1..MAX_TXN /\ pc' \in {"redo", "clear"} /\ (pc' = "redo" => i' <= jhdr.nblocks)
    BY <1>1, <1>24, SizeAssumption, SMT DEF Redo
  <2>3. ~Committing'
    BY <2>2 DEF Committing
  <2>4. /\ pc' \in {"idle", "op", "desc", "data", "record", "checkpoint", "release",
                     "through", "down", "redo", "clear"}
        /\ (pc' \in {"data", "checkpoint", "through"} => i' <= Len(txn))
        /\ (pc' = "redo" => i' <= jhdr'.nblocks)
        /\ (pc' = "down" => i' = 1)
    BY <2>1, <2>2
  <2>5. txn_active' \in BOOLEAN /\ acked' \in [Home -> Data \cup {Unknown}]
    BY <1>1, <2>1
  <2> QED
    BY <2>1, <2>2, <2>3, <2>4, <2>5, SameTxnStep
<1>25. CASE RecoveryClear
  BY <1>1, <1>23, <1>25, SameTxnStep DEF RecoveryClear, Committing
<1>26. CASE UNCHANGED vars
  BY <1>26 DEF vars, disk, BufferInv, TypeInv, TypeOK, TxnHomesDistinct, Committing
<1> QED
  BY <1>7, <1>8, <1>9, <1>10, <1>11, <1>12, <1>13, <1>14, <1>15, <1>16, <1>17, <1>18,
     <1>19, <1>20, <1>21, <1>22, <1>24, <1>25, <1>26 DEF Next

(* Every reachable state is well-typed, whatever disk errors occur: no loop
   of txn_commit or journal_recover indexes past its array. *)
THEOREM TypeCorrect ==
    Spec => []TypeOK
<1>1. BufferInv => TypeOK
  BY DEF BufferInv, TypeInv
<1> QED
  BY BufferInvInit, BufferInvStep, <1>1, PTL DEF Spec

(* No block is buffered twice in one transaction. *)
THEOREM DistinctHomes ==
    Spec => []TxnHomesDistinct
<1>1. BufferInv => TxnHomesDistinct
  BY DEF BufferInv
<1> QED
  BY BufferInvInit, BufferInvStep, <1>1, PTL DEF Spec

-----------------------------------------------------------------------------
(* The types the proofs below use, in the form the provers need them. *)
LEMMA Types ==
    ASSUME BufferInv
    PROVE  /\ DiskOK
           /\ jhdr.nblocks \in 0..MAX_TXN
           /\ jhdr.state \in {JNONE, JCOMMITTED}
           /\ \A h \in Home : home[h] \in Data \cup {Torn}
           /\ \A k \in 1..MAX_TXN : jdata[k] \in Data \cup {Torn}
           /\ Len(txn) \in 0..MAX_TXN
           /\ i \in 1..MAX_TXN
           /\ pc \in {"data", "checkpoint", "through"} => i \in 1..Len(txn)
           /\ pc = "redo" => i \in 1..jhdr.nblocks
           /\ Committing => Len(txn) >= 1
           /\ \A k \in 1..Len(txn) : txn[k].home \in Home /\ txn[k].data \in Data
           /\ \A k \in 1..Len(txn) : homes[k] = txn[k].home /\ datas[k] = txn[k].data
<1>1. DiskOK
  BY DEF BufferInv, TypeInv, TypeOK, DiskOK
<1>2. jhdr.nblocks \in 0..MAX_TXN /\ jhdr.state \in {JNONE, JCOMMITTED}
  BY <1>1 DEF DiskOK, Header
<1>3. /\ \A h \in Home : home[h] \in Data \cup {Torn}
      /\ \A k \in 1..MAX_TXN : jdata[k] \in Data \cup {Torn}
  BY <1>1 DEF DiskOK
<1>4. /\ Len(txn) \in 0..MAX_TXN
      /\ Committing => Len(txn) >= 1
      /\ \A k \in 1..Len(txn) : txn[k].home \in Home /\ txn[k].data \in Data
  BY TxnType DEF BufferInv
<1>5. /\ i \in 1..MAX_TXN
      /\ pc \in {"data", "checkpoint", "through"} => i \in 1..Len(txn)
      /\ pc = "redo" => i \in 1..jhdr.nblocks
  BY <1>2, <1>4, SizeAssumption, SMT DEF BufferInv, TypeInv, TypeOK
<1>6. \A k \in 1..Len(txn) : homes[k] = txn[k].home /\ datas[k] = txn[k].data
  BY DEF homes, datas
<1> QED
  BY <1>1, <1>2, <1>3, <1>4, <1>5, <1>6

(* The commit record is valid for a fully logged transaction. *)
LEMMA RecordValid ==
    ASSUME BufferInv, JournalInv, pc = "record"
    PROVE  Redoable(CommitRecord, jdesc, jdata) /\ LoggedUpTo(Len(txn))
<1>1. Len(txn) \in 1..MAX_TXN /\ LoggedUpTo(Len(txn)) /\ Len(txn) + 2 <= JBLOCKS
  BY Types, SizeAssumption, SMT DEF Committing, JournalInv, Progress
<1>2. [k \in 1..Len(txn) |-> jdata[k]] = [k \in 1..Len(txn) |-> datas[k]]
  BY <1>1, Types DEF LoggedUpTo
<1>3. crc(homes, datas, Len(txn)) = crc(jdesc, jdata, Len(txn))
  BY <1>1, <1>2 DEF crc, LoggedUpTo
<1> QED
  BY <1>1, <1>3, SizeAssumption, SMT DEF Redoable, CommitRecord

(* What JournalInv says of the disk alone. *)
Whole == jhdr.state = JNONE \/ Replayable
Mended == Fits => Covered

(* After any write, completed, torn or not made, the journal is empty or can
   be replayed, and if transactions fit it covers every torn block. *)
LEMMA DiskStep ==
    ASSUME BufferInv, JournalInv,
           UNCHANGED disk \/ (~dead /\ TornWrite) \/ (~dead /\ Written)
    PROVE  Whole' /\ Mended'
<1>a. /\ jhdr.state = JNONE /\ Fits => \A h \in Home : home[h] # Torn
      /\ jhdr.state # JNONE => Replayable
      /\ Fits => \A h \in Home : home[h] = Torn => \E k \in 1..jhdr.nblocks : jdesc[k] = h
  BY DEF JournalInv, Covered, JNONE, JCOMMITTED
<1>1. CASE UNCHANGED disk
  BY <1>1 DEF disk, JournalInv, Whole, Mended, Replayable, Covered
<1>2. CASE ~dead /\ pc \in {"desc", "data"} /\ (TornWrite \/ Written)
  <2>1. jhdr.state = JNONE /\ jhdr' = jhdr /\ home' = home
    BY <1>2 DEF JournalInv, Quiet, TornWrite, Written, PutDesc, PutData
  <2> QED
    BY <1>a, <2>1 DEF Whole, Mended, Covered
<1>3. CASE ~dead /\ pc = "record" /\ Written
  <2>1. jhdr.state = JNONE
    BY <1>3 DEF JournalInv, Quiet
  <2>2. jhdr' = CommitRecord /\ home' = home /\ jdesc' = jdesc /\ jdata' = jdata
    BY <1>3 DEF Written, PutHeader
  <2>3. Redoable(jhdr', jdesc', jdata') /\ LoggedUpTo(Len(txn))
    BY <1>3, <2>2, RecordValid
  <2>4. jhdr'.nblocks = Len(txn)
    BY <2>2 DEF CommitRecord
  <2>5. \A k \in 1..Len(txn) : jdesc[k] = txn[k].home /\ jdata[k] = txn[k].data
    BY <2>3, Types DEF LoggedUpTo
  <2>6. Replayable'
    BY <2>2, <2>3, <2>4, <2>5, Types, SMT DEF Replayable, BufferInv, TxnHomesDistinct
  <2> QED
    BY <1>a, <2>1, <2>2, <2>6 DEF Whole, Mended, Covered
<1>4. CASE ~dead /\ pc = "checkpoint" /\ (TornWrite \/ Written)
  <2>1. Replayable /\ jdesc = homes /\ jhdr.nblocks = Len(txn) /\ jhdr.state = JCOMMITTED
    BY <1>4 DEF JournalInv, Progress, LoggedUpTo, JNONE, JCOMMITTED
  <2>2. PICK b \in Data \cup {Torn} : PutHome(txn[i].home, b)
    BY <1>4, Types DEF TornWrite, Written
  <2>3. jhdr' = jhdr /\ jdesc' = jdesc /\ jdata' = jdata
    BY <2>2 DEF PutHome
  <2>4. \A h \in Home : h # txn[i].home => home'[h] = home[h]
    BY <2>2, Types DEF PutHome, DiskOK
  <2>5. i \in 1..jhdr.nblocks /\ jdesc[i] = txn[i].home
    BY <1>4, <2>1, Types
  <2> QED
    BY <1>a, <2>1, <2>3, <2>4, <2>5, SMT DEF Whole, Mended, Covered, Replayable
<1>5. CASE ~dead /\ pc = "release" /\ Written
  <2>1. jdesc = homes /\ jhdr.nblocks = Len(txn) /\ HomeUpTo(Len(txn))
    BY <1>5 DEF JournalInv, Progress, LoggedUpTo
  <2>2. jhdr'.state = JNONE /\ home' = home
    BY <1>5, SMT DEF Written, PutHeader, Released
  <2>3. Fits => \A h \in Home : home[h] # Torn
    BY <1>a, <2>1, Types, DataAssumption, SMT DEF HomeUpTo
  <2> QED
    BY <2>2, <2>3 DEF Whole, Mended, Covered
<1>6. CASE ~dead /\ pc = "through" /\ (TornWrite \/ Written)
  <2>1. jhdr.state = JNONE /\ ~Fits /\ jhdr' = jhdr
    BY <1>6 DEF JournalInv, Quiet, TornWrite, Written, PutHome
  <2> QED
    BY <2>1 DEF Whole, Mended, Fits
<1>7. CASE ~dead /\ pc = "redo" /\ (TornWrite \/ Written)
  <2>1. Replayable /\ jhdr.state = JCOMMITTED
    BY <1>7 DEF JournalInv, Progress, JNONE, JCOMMITTED
  <2>2. i \in 1..jhdr.nblocks
    BY <1>7, Types
  <2>3. PICK b \in Data \cup {Torn} : PutHome(jdesc[i], b)
    BY <1>7, <2>1, <2>2 DEF TornWrite, Written, Replayable
  <2>4. jhdr' = jhdr /\ jdesc' = jdesc /\ jdata' = jdata
    BY <2>3 DEF PutHome
  <2>5. \A h \in Home : h # jdesc[i] => home'[h] = home[h]
    BY <2>3, Types DEF PutHome, DiskOK
  <2> QED
    BY <1>a, <2>1, <2>2, <2>4, <2>5 DEF Whole, Mended, Covered, Replayable
<1>8. CASE ~dead /\ pc = "clear" /\ Written
  <2>1. Replayable /\ RedoneUpTo(jhdr.nblocks)
    BY <1>8 DEF JournalInv, Progress, JNONE, JCOMMITTED
  <2>2. jhdr'.state = JNONE /\ home' = home
    BY <1>8, SMT DEF Written, PutHeader, Released
  <2>3. Fits => \A h \in Home : home[h] # Torn
    BY <1>a, <2>1, DataAssumption, SMT DEF Replayable, RedoneUpTo
  <2> QED
    BY <2>2, <2>3 DEF Whole, Mended, Covered
<1> QED
  BY <1>1, <1>2, <1>3, <1>4, <1>5, <1>6, <1>7, <1>8 DEF Written, TornWrite

(* JournalInv is inductive, relative to the types. *)
LEMMA JournalInvInit ==
    Init => JournalInv
  BY FormatAssumption, DataAssumption, SMT
  DEF Init, JournalInv, Whole, Mended, Quiet, DeadPhases, Covered, Progress, Released, JNONE

(* One more block of the transaction is at home. *)
LEMMA HomeMore ==
    ASSUME BufferInv, i \in 1..Len(txn), HomeUpTo(i - 1),
           home' = [home EXCEPT ![txn[i].home] = txn[i].data]
    PROVE  \A k \in 1..i : home'[txn[k].home] = txn[k].data
<1> SUFFICES ASSUME NEW k \in 1..i PROVE home'[txn[k].home] = txn[k].data
  OBVIOUS
<1>1. k \in 1..Len(txn) /\ txn[k].home \in Home /\ txn[i].home \in Home
  BY Types, SMT
<1>2. CASE k = i
  BY <1>1, <1>2, Types DEF DiskOK
<1>3. CASE k # i
  <2>1. k \in 1..i - 1 /\ txn[k].home # txn[i].home
    BY <1>1, <1>3, Types, SMT DEF BufferInv, TxnHomesDistinct
  <2> QED
    BY <1>1, <2>1, Types DEF HomeUpTo, DiskOK
<1> QED
  BY <1>2, <1>3

LEMMA JournalInvStep ==
    ASSUME IOErrors # "transient", BufferInv, JournalInv, [Next]_vars
    PROVE  JournalInv'
<1>1. jhdr.state = JNONE \/ Replayable
  BY DEF JournalInv
<1>2. UNCHANGED disk => Whole' /\ Mended' /\ jhdr' = jhdr /\ jdesc' = jdesc /\ home' = home /\ jdata' = jdata
  BY DiskStep DEF disk
<1>3. ASSUME ~dead, Written
      PROVE  Whole' /\ Mended'
  BY <1>3, DiskStep
<1>4. (Fits => pc # "through") /\ Quiet /\ DeadPhases /\ Progress
  BY DEF JournalInv
<1>5. CASE txn_begin
  BY <1>2, <1>4, <1>5 DEF txn_begin, JournalInv, Whole, Mended, Quiet, DeadPhases, Progress
<1>6. ASSUME NEW h \in Home, NEW d \in Data, bd_write_block(h, d)
      PROVE  JournalInv'
  BY <1>2, <1>4, <1>6 DEF bd_write_block, JournalInv, Whole, Mended, Quiet, DeadPhases, Progress
<1>7. CASE txn_abort
  BY <1>2, <1>4, <1>7 DEF txn_abort, JournalInv, Whole, Mended, Quiet, DeadPhases, Progress
<1>8. CASE CommitEmpty
  BY <1>2, <1>4, <1>8 DEF CommitEmpty, JournalInv, Whole, Mended, Quiet, DeadPhases, Progress
<1>9. CASE CommitJournaled
  BY <1>2, <1>4, <1>9 DEF CommitJournaled, JournalInv, Whole, Mended, Quiet, DeadPhases, Progress
<1>10. CASE CommitThrough
  <2>1. ~Fits
    BY <1>10, Types, SizeAssumption, SMT DEF CommitThrough, Fits
  <2>2. pc' = "through" /\ i' = 1 /\ HomeUpTo(0)' /\ dead' = dead /\ UNCHANGED disk /\ pc = "op"
    BY <1>10, SMT DEF CommitThrough, HomeUpTo
  <2>3. Quiet' /\ DeadPhases'
    BY <1>2, <1>4, <2>2 DEF Quiet, DeadPhases
  <2>4. Progress'
    BY <2>2, SMT DEF Progress
  <2> QED
    BY <1>2, <2>1, <2>2, <2>3, <2>4 DEF JournalInv, Whole, Fits
<1>11. CASE WriteDescriptor
  <2>1. jdesc' = homes /\ jhdr' = jhdr /\ i' = 1 /\ txn' = txn /\ pc' = "data"
    BY <1>11 DEF WriteDescriptor, Written, PutDesc
  <2>2. LoggedUpTo(0)'
    BY <2>1, SMT DEF LoggedUpTo, homes
  <2> QED
    BY <1>3, <1>4, <1>11, <2>1, <2>2, SMT DEF WriteDescriptor, JournalInv, Whole, Mended, Quiet, DeadPhases, Progress
<1>12. CASE WriteData
  <2>1. /\ jdata' = [jdata EXCEPT ![i] = txn[i].data]
        /\ jdesc' = jdesc /\ jhdr' = jhdr /\ txn' = txn /\ dead' = dead /\ ~dead
    BY <1>12 DEF WriteData, Written, PutData
  <2>2. /\ LoggedUpTo(i - 1) /\ i \in 1..Len(txn) /\ Len(txn) \in 0..MAX_TXN
        /\ Len(txn) + 2 <= JBLOCKS
    BY <1>4, <1>12, Types DEF WriteData, Progress
  <2>3. \A k \in 1..i : jdata'[k] = txn[k].data
    BY <2>1, <2>2, Types, SizeAssumption, SMT DEF LoggedUpTo, DiskOK
  <2>4. jdesc' = homes'
    BY <2>1, <2>2 DEF LoggedUpTo, homes
  <2>5. \/ pc' = "data" /\ i' = i + 1
        \/ pc' = "record" /\ i = Len(txn)
    BY <1>12, <2>2, SizeAssumption, SMT DEF WriteData
  <2>6. Progress'
    <3>1. CASE pc' = "data" /\ i' = i + 1
      <4>1. LoggedUpTo(i - 1)'
        BY <2>1, <2>2, <2>3, <2>4, <3>1, SMT DEF LoggedUpTo
      <4> QED
        BY <2>1, <2>2, <3>1, <4>1 DEF Progress
    <3>2. CASE pc' = "record" /\ i = Len(txn)
      <4>1. LoggedUpTo(Len(txn))'
        BY <2>1, <2>3, <2>4, <3>2 DEF LoggedUpTo
      <4> QED
        BY <2>1, <2>2, <3>2, <4>1 DEF Progress
    <3> QED
      BY <2>5, <3>1, <3>2
  <2> QED
    BY <1>3, <1>4, <1>12, <2>1, <2>5, <2>6, SMT DEF WriteData, JournalInv, Whole, Mended, Quiet, DeadPhases
<1>13. CASE WriteRecord
  <2>1. /\ jhdr' = CommitRecord /\ jdesc' = jdesc /\ jdata' = jdata /\ txn' = txn
        /\ pc' = "checkpoint" /\ i' = 1 /\ dead' = dead /\ ~dead
    BY <1>13 DEF WriteRecord, Written, PutHeader
  <2>2. jhdr'.state = JCOMMITTED /\ jhdr'.nblocks = Len(txn)
    BY <2>1 DEF CommitRecord
  <2>3. LoggedUpTo(Len(txn))' /\ HomeUpTo(0)'
    BY <1>4, <1>13, <2>1, SMT DEF WriteRecord, Progress, LoggedUpTo, HomeUpTo, homes
  <2> QED
    BY <1>3, <1>13, <2>1, <2>2, <2>3, SMT DEF WriteRecord, JournalInv, Whole, Mended, Quiet, DeadPhases, Progress
<1>14. CASE Checkpoint
  <2>1. /\ home' = [home EXCEPT ![txn[i].home] = txn[i].data]
        /\ jdesc' = jdesc /\ jdata' = jdata /\ jhdr' = jhdr /\ txn' = txn /\ dead' = dead /\ ~dead
    BY <1>14 DEF Checkpoint, Written, PutHome
  <2>2. /\ HomeUpTo(i - 1) /\ i \in 1..Len(txn) /\ Len(txn) \in 0..MAX_TXN
        /\ jhdr.state = JCOMMITTED /\ jhdr.nblocks = Len(txn) /\ LoggedUpTo(Len(txn))
    BY <1>4, <1>14, Types DEF Checkpoint, Progress
  <2>3. \A k \in 1..i : home'[txn[k].home] = txn[k].data
    BY <2>1, <2>2, HomeMore
  <2>4. LoggedUpTo(Len(txn))'
    BY <2>1, <2>2 DEF LoggedUpTo, homes
  <2>5. \/ pc' = "checkpoint" /\ i' = i + 1
        \/ pc' = "release" /\ i = Len(txn)
    BY <1>14, <2>2, SizeAssumption, SMT DEF Checkpoint
  <2>6. Progress'
    <3>1. CASE pc' = "checkpoint" /\ i' = i + 1
      <4>1. HomeUpTo(i - 1)'
        BY <2>1, <2>2, <2>3, <3>1, SMT DEF HomeUpTo
      <4> QED
        BY <2>1, <2>2, <2>4, <3>1, <4>1 DEF Progress
    <3>2. CASE pc' = "release" /\ i = Len(txn)
      <4>1. HomeUpTo(Len(txn))'
        BY <2>1, <2>3, <3>2 DEF HomeUpTo
      <4> QED
        BY <2>1, <2>2, <2>4, <3>2, <4>1 DEF Progress
    <3> QED
      BY <2>5, <3>1, <3>2
  <2> QED
    BY <1>3, <1>14, <2>1, <2>5, <2>6, SMT DEF Checkpoint, JournalInv, Whole, Mended, Quiet, DeadPhases
<1>15. CASE Release
  <2>1. jhdr'.state = JNONE /\ pc' = "idle" /\ ~dead'
    BY <1>15, SMT DEF Release, Written, PutHeader, Released
  <2> QED
    BY <1>3, <1>15, <2>1 DEF Release, JournalInv, Whole, Mended, Quiet, DeadPhases, Progress
<1>16. CASE WriteThrough
  <2>1. /\ home' = [home EXCEPT ![txn[i].home] = txn[i].data] /\ jhdr' = jhdr
        /\ dead' = dead /\ ~dead /\ pc = "through" /\ ~Fits
    BY <1>4, <1>16 DEF WriteThrough, Written, PutHome
  <2>2. HomeUpTo(i - 1) /\ i \in 1..Len(txn) /\ Len(txn) \in 0..MAX_TXN /\ jhdr.state = JNONE
    BY <1>4, <2>1, Types DEF Progress, Quiet
  <2>3. \A k \in 1..i : home'[txn[k].home] = txn[k].data
    BY <2>1, <2>2, HomeMore
  <2>4. \/ pc' = "through" /\ i' = i + 1 /\ txn' = txn
        \/ pc' = "idle"
    BY <1>16, <2>1 DEF WriteThrough
  <2>5. Progress'
    <3>1. CASE pc' = "through" /\ i' = i + 1 /\ txn' = txn
      <4>1. HomeUpTo(i - 1)'
        BY <2>2, <2>3, <3>1, SMT DEF HomeUpTo
      <4> QED
        BY <3>1, <4>1 DEF Progress
    <3>2. CASE pc' = "idle"
      BY <3>2 DEF Progress
    <3> QED
      BY <2>4, <3>1, <3>2
  <2> QED
    BY <2>1, <2>2, <2>4, <2>5 DEF JournalInv, Quiet, DeadPhases, Fits
<1>17. CASE CommitFails
  <2>1. dead' /\ pc' = "idle"
    BY <1>17, ErrorAssumption DEF CommitFails, FailedWrite
  <2>2. Whole' /\ Mended'
    BY <1>17, DiskStep DEF CommitFails, FailedWrite
  <2> QED
    BY <2>1, <2>2 DEF JournalInv, Whole, Mended, Quiet, DeadPhases, Progress
<1>18. CASE Crash
  <2>1. Whole' /\ Mended'
    BY <1>18, DiskStep DEF Crash
  <2> QED
    BY <1>18, <2>1 DEF Crash, JournalInv, Whole, Mended, Quiet, DeadPhases, Progress
<1>19. CASE Mount
  <2>1. CASE Redoable(jhdr, jdesc, jdata)
    <3>1. pc' = "redo" /\ i' = 1 /\ jhdr'.state = JCOMMITTED /\ dead' = dead
      BY <1>2, <1>19, <2>1 DEF Mount, Redoable, BufferInv, TypeInv
    <3>2. RedoneUpTo(0)'
      BY SMT DEF RedoneUpTo
    <3> QED
      BY <1>2, <1>4, <1>19, <3>1, <3>2, SMT DEF Mount, JournalInv, Whole, Mended, Quiet, DeadPhases, Progress
  <2>2. CASE ~Redoable(jhdr, jdesc, jdata)
    BY <1>1, <1>2, <1>4, <1>19, <2>2
    DEF Mount, JournalInv, Whole, Mended, Quiet, DeadPhases, Progress, Replayable
  <2> QED
    BY <2>1, <2>2
<1>20. CASE RecoveryReadFails
  <2>1. dead' /\ pc' = "idle" /\ UNCHANGED disk
    BY <1>20, ErrorAssumption DEF RecoveryReadFails
  <2> QED
    BY <1>2, <2>1 DEF JournalInv, Whole, Mended, Quiet, DeadPhases, Progress
<1>21. ASSUME RecoveryWrite
       PROVE  /\ Whole' /\ Mended'
              /\ ~dead' => ~dead /\ Written
  BY <1>21, DiskStep, ErrorAssumption DEF RecoveryWrite, FailedWrite
<1>22. CASE Redo
  <2>1. Replayable /\ i \in 1..jhdr.nblocks /\ jhdr.nblocks \in 0..MAX_TXN /\ jhdr' = jhdr
    BY <1>1, <1>4, <1>22, Types, WriteType
    DEF Redo, RecoveryWrite, FailedWrite, Progress, JNONE, JCOMMITTED, BufferInv
  <2>2. jhdr.state = JCOMMITTED
    BY <2>1 DEF Replayable, Redoable
  <2>3. \/ pc' = "redo" /\ i' = i + 1
        \/ pc' = "clear" /\ i = jhdr.nblocks
    BY <1>22, <2>1, SizeAssumption, SMT DEF Redo
  <2>4. ASSUME ~dead'
        PROVE  jdesc' = jdesc /\ jdata' = jdata /\ \A k \in 1..i : home'[jdesc[k]] = jdata[k]
    <3>1. ~dead /\ PutHome(jdesc[i], jdata[i])
      BY <1>21, <1>22, <2>4 DEF Redo, Written
    <3>2. RedoneUpTo(i - 1)
      BY <1>4, <1>22, <3>1 DEF Redo, Progress
    <3> QED
      BY <2>1, <3>1, <3>2, Types, SizeAssumption, SMTT(60) DEF PutHome, RedoneUpTo, Replayable, DiskOK
  <2>5. Progress'
    <3>1. CASE pc' = "redo" /\ i' = i + 1
      <4>1. ~dead' => RedoneUpTo(i - 1)'
        BY <2>1, <2>4, <3>1, SizeAssumption, SMTT(60) DEF RedoneUpTo
      <4> QED
        BY <2>1, <2>2, <3>1, <4>1 DEF Progress
    <3>2. CASE pc' = "clear" /\ i = jhdr.nblocks
      <4>1. ~dead' => RedoneUpTo(jhdr.nblocks)'
        BY <2>1, <2>4, <3>2 DEF RedoneUpTo
      <4> QED
        BY <2>1, <2>2, <3>2, <4>1 DEF Progress
    <3> QED
      BY <2>3, <3>1, <3>2
  <2> QED
    BY <1>21, <1>22, <2>3, <2>5 DEF Redo, JournalInv, Whole, Mended, Quiet, DeadPhases
<1>23. CASE RecoveryClear
  <2>1. ~dead' => jhdr'.state = JNONE
    BY <1>21, <1>23, SMTT(60) DEF RecoveryClear, Written, PutHeader, Released
  <2> QED
    BY <1>21, <1>23, <2>1 DEF RecoveryClear, JournalInv, Whole, Mended, Quiet, DeadPhases, Progress
<1>24. CASE UNCHANGED vars
  BY <1>24, SMT DEF vars, disk, JournalInv, Whole, Mended, Quiet, DeadPhases, Replayable, Covered, Progress, Fits,
               LoggedUpTo, HomeUpTo, RedoneUpTo, homes
<1> QED
  BY <1>5, <1>6, <1>7, <1>8, <1>9, <1>10, <1>11, <1>12, <1>13, <1>14, <1>15, <1>16, <1>17,
     <1>18, <1>19, <1>20, <1>22, <1>23, <1>24 DEF Next

-----------------------------------------------------------------------------
(* What a mount finds on a clean disk, and on one with a whole journal. *)
LEMMA RecoveredClean ==
    ASSUME NEW hm, NEW hdr, NEW desc, NEW data, hdr.state = JNONE
    PROVE  \A h \in Home : RecoveredFrom(hm, hdr, desc, data)[h] = hm[h]
  BY DEF RecoveredFrom, Redoable, JNONE, JCOMMITTED

LEMMA RecoveredReplay ==
    ASSUME NEW hm, NEW hdr, NEW desc, NEW data, NEW n \in Nat,
           hdr.nblocks = n, Redoable(hdr, desc, data),
           \A k \in 1..n : desc[k] \in Home,
           \A j, k \in 1..n : desc[j] = desc[k] => j = k
    PROVE  /\ \A k \in 1..n : RecoveredFrom(hm, hdr, desc, data)[desc[k]] = data[k]
           /\ \A h \in Home : (\A k \in 1..n : desc[k] # h)
                    => RecoveredFrom(hm, hdr, desc, data)[h] = hm[h]
<1>1. ASSUME NEW k \in 1..n
      PROVE  RecoveredFrom(hm, hdr, desc, data)[desc[k]] = data[k]
  <2>1. k \in Logged(hdr, desc, desc[k])
    BY DEF Logged
  <2>2. (CHOOSE j \in Logged(hdr, desc, desc[k]) : TRUE) = k
    BY <2>1 DEF Logged
  <2> QED
    BY <2>1, <2>2 DEF RecoveredFrom
<1>2. ASSUME NEW h \in Home, \A k \in 1..n : desc[k] # h
      PROVE  RecoveredFrom(hm, hdr, desc, data)[h] = hm[h]
  <2>1. Logged(hdr, desc, h) = {}
    BY <1>2 DEF Logged
  <2> QED
    BY <2>1 DEF RecoveredFrom
<1> QED
  BY <1>1, <1>2

LEMMA SameRecovered ==
    ASSUME NEW hm, NEW hdr, NEW desc, NEW data,
           NEW hm2, NEW hdr2, NEW desc2, NEW data2,
           \A h \in Home : RecoveredFrom(hm, hdr, desc, data)[h]
                         = RecoveredFrom(hm2, hdr2, desc2, data2)[h]
    PROVE  RecoveredFrom(hm, hdr, desc, data) = RecoveredFrom(hm2, hdr2, desc2, data2)
  BY DEF RecoveredFrom

(* A replayable disk keeps its meaning while blocks that the journal covers
   are overwritten or torn, and when the journal is released after all of
   them have been written. *)
LEMMA RecoveredRewrite ==
    ASSUME BufferInv, Replayable, NEW l \in 1..jhdr.nblocks, NEW b, PutHome(jdesc[l], b)
    PROVE  Recovered' = Recovered
<1>1. jhdr' = jhdr /\ jdesc' = jdesc /\ jdata' = jdata
  BY DEF PutHome
<1>2. /\ jhdr.nblocks \in Nat
      /\ \A k \in 1..jhdr.nblocks : jdesc[k] \in Home
      /\ \A j, k \in 1..jhdr.nblocks : jdesc[j] = jdesc[k] => j = k
      /\ Redoable(jhdr, jdesc, jdata)
  BY Types, SMT DEF Replayable
<1>3. \A h \in Home : (\A k \in 1..jhdr.nblocks : jdesc[k] # h) => home'[h] = home[h]
  BY Types DEF PutHome, DiskOK
<1>4. ASSUME NEW h \in Home
      PROVE  RecoveredFrom(home', jhdr, jdesc, jdata)[h] = RecoveredFrom(home, jhdr, jdesc, jdata)[h]
  <2>1. CASE \E k \in 1..jhdr.nblocks : jdesc[k] = h
    BY <1>2, <2>1, RecoveredReplay, SMT
  <2>2. CASE \A k \in 1..jhdr.nblocks : jdesc[k] # h
    BY <1>2, <1>3, <2>2, RecoveredReplay, SMT
  <2> QED
    BY <2>1, <2>2
<1> QED
  BY <1>1, <1>4, SameRecovered, SMT DEF Recovered

LEMMA RecoveredRelease ==
    ASSUME BufferInv, Replayable, PutHeader(Released),
           \A k \in 1..jhdr.nblocks : home[jdesc[k]] = jdata[k]
    PROVE  Recovered' = Recovered
<1>1. jhdr'.state = JNONE /\ home' = home /\ jdesc' = jdesc /\ jdata' = jdata
  BY DEF PutHeader, Released
<1>2. /\ jhdr.nblocks \in Nat
      /\ \A k \in 1..jhdr.nblocks : jdesc[k] \in Home
      /\ \A j, k \in 1..jhdr.nblocks : jdesc[j] = jdesc[k] => j = k
      /\ Redoable(jhdr, jdesc, jdata)
  BY Types, SMT DEF Replayable
<1>3. ASSUME NEW h \in Home
      PROVE  RecoveredFrom(home, jhdr', jdesc, jdata)[h] = RecoveredFrom(home, jhdr, jdesc, jdata)[h]
  <2>1. CASE \E k \in 1..jhdr.nblocks : jdesc[k] = h
    BY <1>1, <1>2, <2>1, RecoveredReplay, RecoveredClean, SMT
  <2>2. CASE \A k \in 1..jhdr.nblocks : jdesc[k] # h
    BY <1>1, <1>2, <2>2, RecoveredReplay, RecoveredClean, SMT
  <2> QED
    BY <2>1, <2>2
<1> QED
  BY <1>1, <1>3, SameRecovered, SMT DEF Recovered

(* The commit record is the one write that changes what a mount finds, and
   it changes it to what the operation has written. *)
LEMMA RecoveredRecord ==
    ASSUME BufferInv, JournalInv, pc = "record", ~dead, Written
    PROVE  Recovered' = View
<1>1. jhdr.state = JNONE /\ LoggedUpTo(Len(txn))
  BY RecordValid DEF JournalInv, Quiet
<1>2. jhdr' = CommitRecord /\ home' = home /\ jdesc' = jdesc /\ jdata' = jdata
  BY DEF Written, PutHeader
<1>3. Redoable(CommitRecord, jdesc, jdata)
  BY RecordValid
<1>4. CommitRecord.nblocks = Len(txn) /\ Len(txn) \in Nat
  BY Types, SMT DEF CommitRecord
<1>5. \A k \in 1..Len(txn) : jdesc[k] = txn[k].home /\ jdata[k] = txn[k].data /\ jdesc[k] \in Home
  BY <1>1, Types DEF LoggedUpTo
<1>6. \A j, k \in 1..Len(txn) : jdesc[j] = jdesc[k] => j = k
  BY <1>5 DEF BufferInv, TxnHomesDistinct
<1>7. ASSUME NEW h \in Home
      PROVE  RecoveredFrom(home, CommitRecord, jdesc, jdata)[h] = View[h]
  <2>1. CASE \E k \in 1..Len(txn) : jdesc[k] = h
    <3>1. PICK k \in 1..Len(txn) : jdesc[k] = h
      BY <2>1
    <3>2. RecoveredFrom(home, CommitRecord, jdesc, jdata)[h] = txn[k].data
      BY <1>3, <1>4, <1>5, <1>6, <3>1, RecoveredReplay, SMT
    <3>3. k \in txn_find(h) /\ (CHOOSE j \in txn_find(h) : TRUE) = k
      BY <1>5, <3>1 DEF txn_find, BufferInv, TxnHomesDistinct
    <3> QED
      BY <3>2, <3>3 DEF View, Open
  <2>2. CASE \A k \in 1..Len(txn) : jdesc[k] # h
    <3>1. RecoveredFrom(home, CommitRecord, jdesc, jdata)[h] = home[h]
      BY <1>3, <1>4, <1>5, <1>6, <2>2, RecoveredReplay, SMT
    <3>2. txn_find(h) = {}
      BY <1>5, <2>2 DEF txn_find
    <3>3. Recovered[h] = home[h]
      BY <1>1, RecoveredClean, SMTT(60) DEF Recovered
    <3> QED
      BY <3>1, <3>2, <3>3 DEF View
  <2> QED
    BY <2>1, <2>2
<1> QED
  BY <1>2, <1>7 DEF Recovered, RecoveredFrom, View

LEMMA RecoveredStep ==
    ASSUME BufferInv, JournalInv, pc # "through" \/ dead,
           UNCHANGED disk \/ (~dead /\ TornWrite) \/ (~dead /\ Written)
    PROVE  \/ Recovered' = Recovered
           \/ pc = "record" /\ Recovered' = View
<1>1. jhdr.state # JNONE => Replayable
  BY DEF JournalInv
<1>2. CASE UNCHANGED disk
  BY <1>2 DEF disk, Recovered
<1>3. CASE ~dead /\ pc \in {"desc", "data"} /\ (TornWrite \/ Written)
  <2>1. jhdr.state = JNONE /\ jhdr' = jhdr /\ home' = home
    BY <1>3 DEF JournalInv, Quiet, TornWrite, Written, PutDesc, PutData
  <2>2. \A h \in Home : RecoveredFrom(home, jhdr, jdesc', jdata')[h]
                      = RecoveredFrom(home, jhdr, jdesc, jdata)[h]
    BY <2>1, RecoveredClean, SMT
  <2> QED
    BY <2>1, <2>2, SameRecovered, SMT DEF Recovered
<1>4. CASE ~dead /\ pc = "record" /\ Written
  BY <1>4, RecoveredRecord
<1>5. CASE ~dead /\ pc = "checkpoint" /\ (TornWrite \/ Written)
  <2>1. Replayable /\ jdesc = homes /\ jhdr.nblocks = Len(txn)
    BY <1>1, <1>5 DEF JournalInv, Progress, LoggedUpTo, JNONE, JCOMMITTED
  <2>2. i \in 1..jhdr.nblocks /\ jdesc[i] = txn[i].home
    BY <1>5, <2>1, Types
  <2>3. \E b \in Data \cup {Torn} : PutHome(txn[i].home, b)
    BY <1>5, Types DEF TornWrite, Written
  <2> QED
    BY <2>1, <2>2, <2>3, RecoveredRewrite
<1>6. CASE ~dead /\ pc = "release" /\ Written
  <2>1. Replayable /\ jdesc = homes /\ jhdr.nblocks = Len(txn) /\ HomeUpTo(Len(txn))
        /\ LoggedUpTo(Len(txn))
    BY <1>1, <1>6 DEF JournalInv, Progress, LoggedUpTo, JNONE, JCOMMITTED
  <2>2. \A k \in 1..jhdr.nblocks : home[jdesc[k]] = jdata[k]
    BY <2>1, Types, SMT DEF HomeUpTo, LoggedUpTo
  <2>3. PutHeader(Released)
    BY <1>6 DEF Written
  <2> QED
    BY <2>1, <2>2, <2>3, RecoveredRelease
<1>7. CASE ~dead /\ pc = "redo" /\ (TornWrite \/ Written)
  <2>1. Replayable
    BY <1>1, <1>7 DEF JournalInv, Progress, JNONE, JCOMMITTED
  <2>2. i \in 1..jhdr.nblocks
    BY <1>7, Types
  <2>3. \E b : PutHome(jdesc[i], b)
    BY <1>7 DEF TornWrite, Written
  <2> QED
    BY <2>1, <2>2, <2>3, RecoveredRewrite
<1>8. CASE ~dead /\ pc = "clear" /\ Written
  <2>1. Replayable /\ RedoneUpTo(jhdr.nblocks)
    BY <1>1, <1>8 DEF JournalInv, Progress, JNONE, JCOMMITTED
  <2>2. PutHeader(Released)
    BY <1>8 DEF Written
  <2> QED
    BY <2>1, <2>2, RecoveredRelease DEF RedoneUpTo
<1> QED
  BY <1>2, <1>3, <1>4, <1>5, <1>6, <1>7, <1>8 DEF JournalInv, TornWrite, Written

-----------------------------------------------------------------------------
(* The view of the running operation. *)
LEMMA ViewClosed ==
    ASSUME ~Open \/ txn = <<>>
    PROVE  View = Recovered
<1>1. txn = <<>> => \A h \in Home : txn_find(h) = {}
  BY SMT DEF txn_find
<1> QED
  BY <1>1 DEF View, Recovered, RecoveredFrom

LEMMA ViewClosedNext ==
    ASSUME (~Open)' \/ txn' = <<>>
    PROVE  View' = Recovered'
<1>1. txn' = <<>> => \A h \in Home : txn_find(h)' = {}
  BY SMT DEF txn_find
<1> QED
  BY <1>1 DEF View, Recovered, RecoveredFrom

LEMMA ViewSame ==
    ASSUME Open, Open', txn' = txn, Recovered' = Recovered
    PROVE  View' = View
  BY SMT DEF View, txn_find

LEMMA ViewWrite ==
    ASSUME BufferInv, NEW h \in Home, NEW d \in Data, bd_write_block(h, d)
    PROVE  View' = [View EXCEPT ![h] = d]
<1>1. /\ Recovered' = Recovered /\ Open /\ Open' /\ txn' = Buffered(h, d)
      /\ txn_find(h) # {} \/ Len(txn) < MAX_TXN
  BY DEF bd_write_block, Recovered, disk, Open
<1>2. PICK t : t = Buffered(h, d)
  OBVIOUS
<1>3. /\ t \in Seq(Entry)
      /\ \A j, k \in 1..Len(t) : t[j].home = t[k].home => j = k
      /\ \E k \in 1..Len(t) : t[k].home = h /\ t[k].data = d
      /\ \A g \in Home \ {h} : \A e \in Data :
            (\E k \in 1..Len(txn) : txn[k].home = g /\ txn[k].data = e)
            <=> (\E k \in 1..Len(t) : t[k].home = g /\ t[k].data = e)
  <2>1. TypeInv /\ TxnHomesDistinct /\ (txn_find(h) # {} \/ Len(txn) < MAX_TXN)
    BY <1>1 DEF BufferInv
  <2>2. /\ Buffered(h, d) \in Seq(Entry)
        /\ \A j, k \in 1..Len(Buffered(h, d)) :
              Buffered(h, d)[j].home = Buffered(h, d)[k].home => j = k
        /\ \E k \in 1..Len(Buffered(h, d)) :
              Buffered(h, d)[k].home = h /\ Buffered(h, d)[k].data = d
        /\ \A g \in Home \ {h} : \A e \in Data :
              (\E k \in 1..Len(txn) : txn[k].home = g /\ txn[k].data = e)
              <=> (\E k \in 1..Len(Buffered(h, d)) :
                      Buffered(h, d)[k].home = g /\ Buffered(h, d)[k].data = e)
    BY ONLY <2>1, BufferFacts, h \in Home, d \in Data
  <2> QED
    BY ONLY <1>2, <2>2, SMTT(60)
<1>4. \A k \in 1..Len(t) : t[k].data \in Data
  <2> SUFFICES ASSUME NEW k \in 1..Len(t) PROVE t[k] \in Entry
    BY DEF Entry
  <2> QED
    BY <1>3, ElementOfSeq
<1>5. txn' = t /\ \A g \in Home : txn_find(g)' = {k \in 1..Len(t) : t[k].home = g}
  BY <1>1, <1>2 DEF txn_find
<1>6. View'[h] = d
  <2>1. PICK k \in 1..Len(t) : t[k].home = h /\ t[k].data = d
    BY <1>3
  <2>2. txn_find(h)' # {} /\ (CHOOSE j \in txn_find(h)' : TRUE) = k
    BY <1>3, <1>5, <2>1, SMT
  <2> QED
    BY <1>1, <1>5, <2>1, <2>2 DEF View
<1>7. ASSUME NEW g \in Home, g # h
      PROVE  View'[g] = View[g]
  <2>1. CASE \E k \in 1..Len(txn) : txn[k].home = g
    <3>1. PICK k \in 1..Len(txn) : txn[k].home = g
      BY <2>1
    <3>2. PICK l \in 1..Len(t) : t[l].home = g /\ t[l].data = txn[k].data
      <4>1. txn[k].data \in Data /\ g \in Home \ {h}
        BY <1>7, Types
      <4>2. \E j \in 1..Len(txn) : txn[j].home = g /\ txn[j].data = txn[k].data
        BY <3>1
      <4> QED
        BY ONLY <1>3, <4>1, <4>2, SMT
    <3>3. txn_find(g) # {} /\ (CHOOSE j \in txn_find(g) : TRUE) = k
      BY <3>1 DEF txn_find, BufferInv, TxnHomesDistinct
    <3>4. txn_find(g)' # {} /\ (CHOOSE j \in txn_find(g)' : TRUE) = l
      BY <1>3, <1>5, <3>2, SMTT(60)
    <3> QED
      BY <1>1, <1>5, <3>2, <3>3, <3>4 DEF View
  <2>2. CASE \A k \in 1..Len(txn) : txn[k].home # g
    <3>1. txn_find(g) = {} /\ txn_find(g)' = {}
      BY <1>3, <1>4, <1>5, <1>7, <2>2, SMTT(60) DEF txn_find
    <3> QED
      BY <1>1, <3>1 DEF View
  <2> QED
    BY <2>1, <2>2
<1>8. View = [g \in Home |-> View[g]] /\ View' = [g \in Home |-> View'[g]]
  BY SMTT(60) DEF View
<1> QED
  BY <1>6, <1>7, <1>8

-----------------------------------------------------------------------------
LEMMA RefinesInit ==
    Init => Abstract!Init
<1> SUFFICES ASSUME Init PROVE Abstract!Init
  OBVIOUS
<1>1. View = Recovered
  BY ViewClosed DEF Init
<1>2. jhdr.state = JNONE /\ home = Formatted
  BY DEF Init, Released
<1>3. \A h \in Home : Recovered[h] = Formatted[h]
  BY <1>2, RecoveredClean, SMT DEF Recovered
<1>4. Recovered = Formatted
  BY <1>3, FormatAssumption DEF Recovered, RecoveredFrom
<1> QED
  BY <1>1, <1>4 DEF Abstract!Init

LEMMA RefinesStep ==
    ASSUME Fits, IOErrors # "transient", BufferInv, JournalInv, [Next]_vars
    PROVE  [Abstract!Next]_(Abstract!vars)
<1> DEFINE Stutter == Recovered' = Recovered /\ View' = View
<1>1. Stutter => [Abstract!Next]_(Abstract!vars)
  BY DEF Abstract!vars
<1>2. ASSUME View' = Recovered', Recovered' = Recovered \/ Recovered' = View
      PROVE  [Abstract!Next]_(Abstract!vars)
  BY <1>2 DEF Abstract!Next, Abstract!Commit, Abstract!Abort
<1>3. pc # "through" /\ (UNCHANGED disk => Recovered' = Recovered)
  BY DEF JournalInv, disk, Recovered
<1>4. ~dead /\ Written => Recovered' = Recovered \/ (pc = "record" /\ Recovered' = View)
  BY <1>3, RecoveredStep
<1>5. FailedWrite => Recovered' = Recovered \/ (pc = "record" /\ Recovered' = View)
  BY <1>3, RecoveredStep DEF FailedWrite
<1>6. CASE txn_begin \/ txn_abort
  BY <1>2, <1>3, <1>6, ViewClosedNext DEF txn_begin, txn_abort
<1>7. ASSUME NEW h \in Home, NEW d \in Data, bd_write_block(h, d)
      PROVE  [Abstract!Next]_(Abstract!vars)
  <2>1. View' = [View EXCEPT ![h] = d] /\ Recovered' = Recovered
    BY <1>3, <1>7, ViewWrite DEF bd_write_block
  <2> QED
    BY <2>1 DEF Abstract!Next, Abstract!Write
<1>8. CASE CommitEmpty
  BY <1>2, <1>3, <1>8, ViewClosedNext DEF CommitEmpty, Open
<1>9. CASE CommitJournaled
  BY <1>1, <1>3, <1>9, ViewSame DEF CommitJournaled, Open
<1>10. CASE CommitThrough
  BY <1>10, Types, SizeAssumption, SMT DEF CommitThrough, Fits
<1>11. CASE WriteDescriptor \/ WriteData
  <2>1. Open /\ Open' /\ txn' = txn /\ pc # "record" /\ ~dead /\ Written
    BY <1>11 DEF WriteDescriptor, WriteData, Open
  <2> QED
    BY <1>1, <1>4, <2>1, ViewSame
<1>12. CASE WriteRecord \/ Checkpoint \/ Release
  <2>1. ~dead /\ Written /\ (~Open)'
    BY <1>12 DEF WriteRecord, Checkpoint, Release, Open
  <2> QED
    BY <1>2, <1>4, <2>1, ViewClosedNext
<1>13. CASE WriteThrough
  BY <1>3, <1>13 DEF WriteThrough
<1>14. CASE CommitFails
  <2>1. FailedWrite /\ (~Open)'
    BY <1>14 DEF CommitFails, Open
  <2> QED
    BY <1>2, <1>5, <2>1, ViewClosedNext
<1>15. CASE Crash
  <2>1. (~Open)' /\ (UNCHANGED disk \/ (~dead /\ TornWrite))
    BY <1>15 DEF Crash, Open
  <2> QED
    BY <1>2, <1>3, <2>1, RecoveredStep, ViewClosedNext
<1>16. CASE Mount
  <2>1. (~Open)' /\ UNCHANGED disk
    BY <1>16 DEF Mount, Open
  <2> QED
    BY <1>2, <1>3, <2>1, ViewClosedNext
<1>17. CASE RecoveryReadFails
  <2>1. (~Open)' /\ UNCHANGED disk
    BY <1>17 DEF RecoveryReadFails, Open
  <2> QED
    BY <1>2, <1>3, <2>1, ViewClosedNext
<1>18. CASE Redo \/ RecoveryClear
  <2>1. (~Open)' /\ ((~dead /\ Written) \/ FailedWrite)
    BY <1>18 DEF Redo, RecoveryClear, RecoveryWrite, Open
  <2> QED
    BY <1>2, <1>4, <1>5, <2>1, ViewClosedNext
<1>19. CASE UNCHANGED vars
  BY <1>1, <1>19, SMT DEF vars, disk, Recovered, View, Open, txn_find
<1> QED
  BY <1>6, <1>7, <1>8, <1>9, <1>10, <1>11, <1>12, <1>13, <1>14, <1>15, <1>16, <1>17, <1>18,
     <1>19 DEF Next

(* txn_commit and journal_recover keep the disk clean or replayable at every
   instant, through errors, torn writes, crashes and crashes of recovery. *)
THEOREM JournalSound ==
    ASSUME IOErrors # "transient"
    PROVE  Spec => []JournalInv
<1>1. Init => BufferInv /\ JournalInv
  BY BufferInvInit, JournalInvInit
<1>2. BufferInv /\ JournalInv /\ [Next]_vars => (BufferInv /\ JournalInv)'
  BY BufferInvStep, JournalInvStep
<1> QED
  BY <1>1, <1>2, PTL DEF Spec

(* Crash atomicity: seen through a mount, an operation's metadata writes
   happen in one step, its commit record, or not at all. *)
THEOREM CrashAtomicity ==
    ASSUME Fits, IOErrors # "transient"
    PROVE  Spec => ImplementsAtomicStore
<1>1. Init => BufferInv /\ JournalInv
  BY BufferInvInit, JournalInvInit
<1>2. BufferInv /\ JournalInv /\ [Next]_vars => (BufferInv /\ JournalInv)'
  BY BufferInvStep, JournalInvStep
<1>3. BufferInv /\ JournalInv /\ [Next]_vars => [Abstract!Next]_(Abstract!vars)
  BY RefinesStep
<1> QED
  BY <1>1, <1>2, <1>3, RefinesInit, PTL DEF Spec, ImplementsAtomicStore, Abstract!Spec

-----------------------------------------------------------------------------
(* What an operation reported as done stays done. *)
LEMMA AckedStep ==
    ASSUME IOErrors # "transient", BufferInv, JournalInv, AckedSurvives, [Next]_vars
    PROVE  AckedSurvives'
<1> SUFFICES ASSUME NEW h \in Home, acked'[h] # Unknown,
                    ~(Committing' /\ txn_find(h)' # {})
             PROVE  Recovered'[h] = acked'[h]
  BY DEF AckedSurvives
<1>1. acked[h] # Unknown /\ ~(Committing /\ txn_find(h) # {}) => Recovered[h] = acked[h]
  BY DEF AckedSurvives
<1>2. UNCHANGED disk => Recovered' = Recovered
  BY DEF disk, Recovered
<1>3. ASSUME txn_find(h) = {}, (~dead /\ Written) \/ FailedWrite \/ UNCHANGED disk
                               \/ (~dead /\ TornWrite)
      PROVE  Recovered'[h] = Recovered[h]
  <2>1. UNCHANGED disk \/ (~dead /\ TornWrite) \/ (~dead /\ Written)
    BY <1>3 DEF FailedWrite
  <2>2. CASE pc # "through" \/ dead
    <3>1. Recovered' = Recovered \/ Recovered' = View
      BY <2>1, <2>2, RecoveredStep
    <3>2. View[h] = Recovered[h]
      BY <1>3 DEF View
    <3> QED
      BY <3>1, <3>2
  <2>3. CASE pc = "through" /\ ~dead
    <3>1. CASE UNCHANGED disk
      BY <1>2, <3>1
    <3>2. CASE TornWrite \/ Written
      <4>1. i \in 1..Len(txn) /\ txn[i].home # h
        BY <1>3, <2>3, Types DEF txn_find
      <4>2. jhdr.state = JNONE /\ jhdr' = jhdr /\ home'[h] = home[h]
        BY <2>3, <3>2, <4>1, Types DEF JournalInv, Quiet, TornWrite, Written, PutHome, DiskOK
      <4> QED
        BY <4>2, RecoveredClean, SMT DEF Recovered
    <3> QED
      BY <2>1, <3>1, <3>2
  <2> QED
    BY <2>2, <2>3
<1>4. ASSUME ~Committing, UNCHANGED <<disk, acked>>
      PROVE  Recovered'[h] = acked'[h]
  BY <1>1, <1>2, <1>4
<1>5. CASE \/ txn_begin \/ txn_abort \/ CommitEmpty \/ CommitJournaled \/ CommitThrough
           \/ Mount \/ \E g \in Home, d \in Data : bd_write_block(g, d)
  <2>1. ~Committing /\ UNCHANGED <<disk, acked>>
    BY <1>5 DEF txn_begin, txn_abort, CommitEmpty, CommitJournaled, CommitThrough, Mount,
                bd_write_block, Committing
  <2> QED
    BY <1>4, <2>1
<1>6. CASE WriteDescriptor \/ WriteData \/ WriteRecord \/ Checkpoint
  <2>1. Committing' /\ txn' = txn /\ acked' = acked /\ ~dead /\ Written
    BY <1>6 DEF WriteDescriptor, WriteData, WriteRecord, Checkpoint, Committing
  <2>2. txn_find(h) = {}
    BY <2>1 DEF txn_find
  <2> QED
    BY <1>1, <1>3, <2>1, <2>2
<1>7. CASE Release
  <2>1. acked' = Vouched /\ ~dead /\ Written /\ PutHeader(Released)
    BY <1>7 DEF Release, Written
  <2>2. CASE txn_find(h) = {}
    BY <1>1, <1>3, <2>1, <2>2 DEF Vouched
  <2>3. CASE txn_find(h) # {}
    <3>1. PICK k \in 1..Len(txn) : txn[k].home = h /\ k = CHOOSE j \in txn_find(h) : TRUE
      BY <2>3 DEF txn_find
    <3>2. acked'[h] = txn[k].data
      BY <2>1, <2>3, <3>1 DEF Vouched
    <3>3. home[h] = txn[k].data
      BY <1>7, <3>1 DEF Release, JournalInv, Progress, HomeUpTo
    <3>4. Recovered'[h] = home[h]
      BY <2>1, RecoveredClean, SMT DEF PutHeader, Released, Recovered
    <3> QED
      BY <3>2, <3>3, <3>4
  <2> QED
    BY <2>2, <2>3
<1>8. CASE WriteThrough
  <2>1. ~dead /\ Written /\ pc = "through" /\ PutHome(txn[i].home, txn[i].data)
    BY <1>8 DEF WriteThrough, Written
  <2>2. \/ Committing' /\ txn' = txn /\ acked' = acked
        \/ i = Len(txn) /\ acked' = Vouched
    BY <1>8 DEF WriteThrough, Committing
  <2>3. CASE txn_find(h) = {}
    BY <1>1, <1>3, <2>1, <2>2, <2>3 DEF Vouched
  <2>4. CASE txn_find(h) # {}
    <3>1. i = Len(txn) /\ acked' = Vouched
      BY <2>2, <2>4 DEF txn_find
    <3>2. PICK k \in 1..Len(txn) : txn[k].home = h /\ k = CHOOSE j \in txn_find(h) : TRUE
      BY <2>4 DEF txn_find
    <3>3. acked'[h] = txn[k].data
      BY <2>4, <3>1, <3>2 DEF Vouched
    <3>4. home'[h] = txn[k].data
      <4>1. HomeUpTo(i - 1) /\ i \in 1..Len(txn)
        BY <2>1, Types DEF JournalInv, Progress
      <4>2. home' = [home EXCEPT ![txn[i].home] = txn[i].data]
        BY <2>1 DEF PutHome
      <4> QED
        BY <3>1, <3>2, <4>1, <4>2, HomeMore
    <3>5. jhdr'.state = JNONE
      BY <2>1 DEF JournalInv, Quiet, PutHome
    <3> QED
      BY <3>3, <3>4, <3>5, RecoveredClean, SMT DEF Recovered
  <2> QED
    BY <2>3, <2>4
<1>9. CASE Committing /\ acked' = Unvouched /\ (CommitFails \/ Crash)
  <2>1. txn_find(h) = {} /\ acked'[h] = acked[h]
    BY <1>9 DEF Unvouched
  <2>2. FailedWrite \/ UNCHANGED disk \/ (~dead /\ TornWrite)
    BY <1>9 DEF CommitFails, Crash
  <2> QED
    BY <1>1, <1>3, <2>1, <2>2
<1>10. CASE ~Committing /\ acked' = acked /\ (Crash \/ Redo \/ RecoveryClear)
  <2>1. pc # "record" /\ pc # "through"
    BY <1>10 DEF Committing
  <2>2. (~dead /\ Written) \/ UNCHANGED disk \/ (~dead /\ TornWrite)
    BY <1>10 DEF Crash, Redo, RecoveryClear, RecoveryWrite, FailedWrite
  <2> QED
    BY <1>1, <1>10, <2>1, <2>2, RecoveredStep
<1>11. CASE RecoveryReadFails
  BY <1>4, <1>11 DEF RecoveryReadFails, Committing
<1>12. CASE CommitFails \/ Crash \/ Redo \/ RecoveryClear
  <2>1. \/ Committing /\ acked' = Unvouched /\ (CommitFails \/ Crash)
        \/ ~Committing /\ acked' = acked /\ (Crash \/ Redo \/ RecoveryClear)
    BY <1>12 DEF CommitFails, Crash, Redo, RecoveryClear, Committing
  <2> QED
    BY <1>9, <1>10, <2>1
<1>13. CASE UNCHANGED vars
  BY <1>1, <1>2, <1>13 DEF vars, Committing, txn_find
<1> QED
  BY <1>5, <1>6, <1>7, <1>8, <1>11, <1>12, <1>13 DEF Next

(* Durability: a metadata block whose write an operation reported as done is
   what the next mount finds, whatever fails afterwards, and however small the
   journal is: txn_commit reports a transaction it wrote through it only after
   the last block. *)
THEOREM Durability ==
    ASSUME IOErrors # "transient"
    PROVE  Spec => []AckedSurvives
<1>1. Init => BufferInv /\ JournalInv /\ AckedSurvives
  <2>1. Init => \A h \in Home : Recovered[h] = acked[h]
    BY RecoveredClean, SMT DEF Init, Released, Recovered
  <2> QED
    BY <2>1, BufferInvInit, JournalInvInit DEF AckedSurvives
<1>2. BufferInv /\ JournalInv /\ AckedSurvives /\ [Next]_vars
        => (BufferInv /\ JournalInv /\ AckedSurvives)'
  BY BufferInvStep, JournalInvStep, AckedStep
<1> QED
  BY <1>1, <1>2, PTL DEF Spec

-----------------------------------------------------------------------------
(* As long as the disk has reported no error, the transaction is active exactly
   while an operation runs. *)
ActiveInv ==
    /\ pc \in {"op", "desc", "data", "record", "checkpoint", "release", "through"} => txn_active
    /\ pc \in {"idle", "redo", "clear"} /\ ~dead => ~txn_active
    /\ pc = "down" => ~txn_active

LEMMA ActiveStep ==
    ASSUME IOErrors # "transient", ActiveInv, [Next]_vars
    PROVE  ActiveInv'
<1>1. FailedWrite => dead'
  BY ErrorAssumption DEF FailedWrite
<1>2. CASE \E h \in Home, d \in Data : bd_write_block(h, d)
  BY <1>2, SMT DEF ActiveInv, bd_write_block
<1>3. CASE txn_begin \/ txn_abort \/ CommitEmpty \/ CommitJournaled \/ CommitThrough
  BY <1>3 DEF ActiveInv, txn_begin, txn_abort, CommitEmpty, CommitJournaled, CommitThrough
<1>4. CASE \/ WriteDescriptor \/ WriteData \/ WriteRecord \/ Checkpoint \/ Release
           \/ WriteThrough
  BY <1>4 DEF ActiveInv, WriteDescriptor, WriteData, WriteRecord, Checkpoint, Release,
              WriteThrough
<1>5. CASE CommitFails
  BY <1>1, <1>5 DEF ActiveInv, CommitFails
<1>6. CASE Redo \/ RecoveryClear
  BY <1>1, <1>6, SMT DEF ActiveInv, Redo, RecoveryClear, RecoveryWrite
<1>7. CASE RecoveryReadFails
  BY <1>7, ErrorAssumption DEF ActiveInv, RecoveryReadFails
<1>8. CASE Crash \/ Mount
  BY <1>8, SMT DEF ActiveInv, Crash, Mount
<1>9. CASE UNCHANGED vars
  BY <1>9 DEF ActiveInv, vars
<1> QED
  BY <1>2, <1>3, <1>4, <1>5, <1>6, <1>7, <1>8, <1>9 DEF Next

(* Isolation: until the disk reports an error, and again after the next power
   cycle, bd_read_block returns the committed contents between operations, and
   within one the committed contents overlaid with its own writes. *)
THEOREM ReadIsolation ==
    ASSUME IOErrors # "transient"
    PROVE  Spec => []SoundDiskReads
<1>1. Init => BufferInv /\ JournalInv /\ ActiveInv
  BY BufferInvInit, JournalInvInit DEF Init, ActiveInv
<1>2. BufferInv /\ JournalInv /\ ActiveInv /\ [Next]_vars => (BufferInv /\ JournalInv /\ ActiveInv)'
  BY BufferInvStep, JournalInvStep, ActiveStep
<1>3. ASSUME JournalInv, ActiveInv
      PROVE  SoundDiskReads
  <2> SUFFICES ASSUME ~dead, pc \in {"idle", "op"}, NEW h \in Home
               PROVE  bd_read_block(h) = View[h]
    BY DEF SoundDiskReads, ReadsMatchStore
  <2>1. Recovered[h] = home[h]
    BY <1>3, RecoveredClean, SMT DEF JournalInv, Quiet, Recovered
  <2>2. txn_active <=> Open
    BY <1>3 DEF ActiveInv, Open
  <2> QED
    BY <2>1, <2>2, SMT DEF bd_read_block, View
<1> QED
  BY <1>1, <1>2, <1>3, PTL DEF Spec
=============================================================================
