---------------------------- MODULE E1000_proofs ----------------------------
(***************************************************************************)
(* The descriptor rings implement the queues of Nic, for rings of any size *)
(* and any frames.                                                         *)
(*                                                                         *)
(* A ring is a queue only because the DD bits agree with the indices: on   *)
(* the receive side the descriptors with DD set are those from rx_cur up   *)
(* to rdh, on the transmit side those without DD are the Pending ones from *)
(* tdh on, and the tail registers follow the driver's indices.  RxInv and  *)
(* TxInv say so.                                                           *)
(***************************************************************************)
EXTENDS E1000, TLAPS, FiniteSetTheorems, SequenceTheorems

(* A step is proved by Zenon within 20 seconds, or names another prover. *)
USE ZenonT(20)

(* How far b is ahead of a on a ring of n, and the place a, once past the end. *)
Dist(a, b, n) == IF a <= b THEN b - a ELSE b + n - a
Wrap(a, n) == IF a < n THEN a ELSE a - n

Content == Frames \cup {None}
Descs == [dd : {0, 1}, frame : Content]

Held == Dist(rx_cur, rdh, NUM_RX_DESC)

RxInv ==
    /\ rx \in [RxDesc -> Descs]
    /\ rdh \in RxDesc /\ rdt \in RxDesc /\ rx_cur \in RxDesc
    /\ rdt = Wrap(rx_cur + NUM_RX_DESC - 1, NUM_RX_DESC)
    /\ \A i \in RxDesc : rx[i].dd = 1 <=> Dist(rx_cur, i, NUM_RX_DESC) < Held

TxInv ==
    /\ tx \in [TxDesc -> Descs]
    /\ tdh \in TxDesc /\ tdt \in TxDesc /\ tx_cur \in TxDesc
    /\ Pending \in 0..NUM_TX_DESC
    /\ tdt = tx_cur /\ tx_cur = Wrap(tdh + Pending, NUM_TX_DESC)
    /\ \A i \in TxDesc : tx[i].dd = 0 <=> Dist(tdh, i, NUM_TX_DESC) < Pending

RingInv == RxInv /\ TxInv

-----------------------------------------------------------------------------
(* The indices of e1000.c, which go around with %. *)
LEMMA WrapMod ==
    ASSUME NEW n \in Nat \ {0}, NEW a \in 0..(2 * n - 1)
    PROVE  a % n = Wrap(a, n)
<1>1. CASE a < n
  BY <1>1, SMT DEF Wrap
<1>2. CASE a >= n
  <2>1. a = n * 1 + (a - n) /\ a - n \in 0..(n - 1)
    BY <1>2, SMT
  <2> QED BY <1>2, <2>1, SMT DEF Wrap
<1> QED BY <1>1, <1>2, SMT

(* A sequence is determined by its length and elements. *)
LEMMA FunIsSeq ==
    ASSUME NEW S, NEW n \in Nat, NEW q \in [1..n -> S]
    PROVE  q \in Seq(S) /\ Len(q) = n
BY SMT

LEMMA IsAppend ==
    ASSUME NEW S, NEW q \in Seq(S), NEW r \in Seq(S), NEW x \in S,
           Len(r) = Len(q) + 1, \A i \in 1..Len(q) : r[i] = q[i], r[Len(r)] = x
    PROVE  r = Append(q, x)
<1>1. Append(q, x) \in Seq(S) /\ Len(Append(q, x)) = Len(q) + 1
  BY AppendProperties
<1>2. \A i \in 1..Len(r) : r[i] = Append(q, x)[i]
  BY AppendProperties, SMT
<1> QED BY <1>1, <1>2, SeqEqual

LEMMA IsTail ==
    ASSUME NEW S, NEW q \in Seq(S), NEW r \in Seq(S),
           Len(q) = Len(r) + 1, \A i \in 1..Len(r) : r[i] = q[i + 1]
    PROVE  q # <<>> /\ r = Tail(q) /\ Head(q) = q[1]
<1>1. q # <<>> /\ Head(q) = q[1]
  BY EmptySeq, SMT
<1>2. Tail(q) \in Seq(S) /\ Len(Tail(q)) = Len(r) /\ \A i \in 1..Len(r) : Tail(q)[i] = q[i + 1]
  BY <1>1, HeadTailProperties, SMT
<1> QED BY <1>1, <1>2, SeqEqual

-----------------------------------------------------------------------------
LEMMA PendingType ==
    IsFiniteSet({i \in TxDesc : tx[i].dd = 0}) /\ Pending \in Nat
<1>1. IsFiniteSet(TxDesc)
  BY FS_Interval, RingAssumption, SMT DEF TxDesc
<1> QED BY <1>1, FS_Subset, FS_CardinalityType DEF Pending

(* e1000_send makes the next descriptor pending, the card takes one back. *)
LEMMA PendingMore ==
    ASSUME tx \in [TxDesc -> Descs], NEW i \in TxDesc, tx[i].dd = 1,
           tx' \in [TxDesc -> Descs], tx'[i].dd = 0,
           \A j \in TxDesc \ {i} : tx'[j] = tx[j]
    PROVE  Pending' = Pending + 1
<1> DEFINE P == {j \in TxDesc : tx[j].dd = 0}
<1>1. P' = P \cup {i} /\ i \notin P
  BY SMT DEF Descs, TxDesc
<1>2. IsFiniteSet(P) /\ Pending = Cardinality(P) /\ Pending' = Cardinality(P')
  BY PendingType DEF Pending
<1>3. Cardinality(P \cup {i}) = Cardinality(P) + 1
  BY <1>1, <1>2, FS_AddElement
<1> QED BY <1>1, <1>2, <1>3

LEMMA PendingLess ==
    ASSUME tx \in [TxDesc -> Descs], NEW i \in TxDesc, tx[i].dd = 0,
           tx' \in [TxDesc -> Descs], tx'[i].dd = 1,
           \A j \in TxDesc \ {i} : tx'[j] = tx[j]
    PROVE  Pending' = Pending - 1
<1> DEFINE P == {j \in TxDesc : tx[j].dd = 0}
<1>1. P' = P \ {i} /\ i \in P
  BY SMT DEF Descs, TxDesc
<1>2. IsFiniteSet(P) /\ Pending = Cardinality(P) /\ Pending' = Cardinality(P')
  BY PendingType DEF Pending
<1>3. Cardinality(P \ {i}) = Cardinality(P) - 1
  BY <1>1, <1>2, FS_RemoveElement
<1> QED BY <1>1, <1>2, <1>3

(* The driver finds its next descriptor done unless the ring is full. *)
LEMMA FullRing ==
    ASSUME TxInv
    PROVE  /\ tx[tx_cur].dd = 1 <=> Pending < NUM_TX_DESC
           /\ tdh # tdt => Pending > 0
<1>1. tx[tx_cur].dd \in {0, 1}
  BY DEF TxInv, Descs
<1>2. Dist(tdh, tx_cur, NUM_TX_DESC) = IF Pending < NUM_TX_DESC THEN Pending ELSE 0
  BY RingAssumption, SMT DEF TxInv, TxDesc, Dist, Wrap
<1>3. tx[tx_cur].dd = 0 <=> Dist(tdh, tx_cur, NUM_TX_DESC) < Pending
  BY DEF TxInv
<1>4. Pending \in 0..NUM_TX_DESC
  BY DEF TxInv
<1>5. tx[tx_cur].dd = 1 <=> Pending < NUM_TX_DESC
  BY <1>1, <1>2, <1>3, <1>4, RingAssumption, SMT
<1>6. tdh # tdt => Pending > 0
  BY RingAssumption, SMT DEF TxInv, TxDesc, Wrap
<1> QED BY <1>5, <1>6

LEMMA RingInit == Init => RingInv
<1> SUFFICES ASSUME Init PROVE RxInv /\ TxInv
  BY DEF RingInv
<1> USE RingAssumption DEF Init, e1000_init, e1000_setup_rx, e1000_setup_tx, Desc
<1>1. RxInv
  BY SMT DEF RxInv, RxDesc, Descs, Content, Held, Dist, Wrap
<1>2. {i \in TxDesc : tx[i].dd = 0} = {}
  BY SMT DEF TxDesc
<1>3. Pending = 0
  BY <1>2, FS_EmptySet DEF Pending
<1>4. TxInv
  BY <1>3, SMT DEF TxInv, TxDesc, Descs, Content, Dist, Wrap
<1> QED BY <1>1, <1>4

LEMMA SendKeeps ==
    ASSUME RingInv, NEW f \in Frames, e1000_send(f) PROVE RingInv'
<1> USE RingAssumption
<1>1. RxInv'
  BY DEF RingInv, RxInv, Held, e1000_send
<1>2. CASE tx[tx_cur].dd = 0
  <2>1. UNCHANGED <<tx, tdh, tdt, tx_cur>>
    BY <1>2, SMT DEF e1000_send
  <2> QED BY <1>1, <2>1 DEF RingInv, TxInv, Pending
<1>3. CASE tx[tx_cur].dd = 1
  <2>1. /\ tx' = [tx EXCEPT ![tx_cur] = Desc(0, f)]
        /\ tx_cur' = (tx_cur + 1) % NUM_TX_DESC
        /\ tdt' = tx_cur' /\ tdh' = tdh
    BY <1>3, SMT DEF e1000_send
  <2>2. tx' \in [TxDesc -> Descs] /\ tx'[tx_cur].dd = 0
    BY <2>1 DEF RingInv, TxInv, Descs, Content, Desc
  <2>3. Pending' = Pending + 1
    BY <1>3, <2>1, <2>2, PendingMore DEF RingInv, TxInv
  <2>4. tx_cur' = Wrap(tx_cur + 1, NUM_TX_DESC)
    <3>1. tx_cur \in TxDesc /\ tx_cur' = (tx_cur + 1) % NUM_TX_DESC
      BY <2>1 DEF RingInv, TxInv
    <3>2. tx_cur + 1 \in 0..(2 * NUM_TX_DESC - 1)
      BY <3>1, SMT DEF TxDesc
    <3> QED BY <3>1, <3>2, WrapMod
  <2>5. Pending < NUM_TX_DESC
    BY <1>3, FullRing DEF RingInv
  <2>6. /\ tx_cur' \in TxDesc /\ Pending' \in 0..NUM_TX_DESC
        /\ tx_cur' = Wrap(tdh + Pending', NUM_TX_DESC)
    BY <2>3, <2>4, <2>5, SMT DEF RingInv, TxInv, TxDesc, Wrap
  <2>7. ASSUME NEW i \in TxDesc
        PROVE  tx'[i].dd = 0 <=> Dist(tdh, i, NUM_TX_DESC) < Pending'
    <3>1. i = tx_cur <=> Dist(tdh, i, NUM_TX_DESC) = Pending
      BY <2>5, SMT DEF RingInv, TxInv, TxDesc, Dist, Wrap
    <3>2. tx'[i].dd = 0 <=> i = tx_cur \/ Dist(tdh, i, NUM_TX_DESC) < Pending
      BY <2>1, <2>2 DEF RingInv, TxInv
    <3>3. Dist(tdh, i, NUM_TX_DESC) \in Int /\ Pending \in Int
      BY SMT DEF RingInv, TxInv, TxDesc, Dist
    <3> QED BY <2>3, <3>1, <3>2, <3>3, SMT
  <2> QED BY <1>1, <2>1, <2>2, <2>6, <2>7 DEF RingInv, TxInv
<1> QED BY <1>2, <1>3 DEF e1000_send

LEMMA TransmitKeeps ==
    ASSUME RingInv, Transmit PROVE RingInv'
<1> USE RingAssumption
<1>1. RxInv'
  BY DEF RingInv, RxInv, Held, Transmit
<1>2. Pending > 0 /\ tx[tdh].dd = 0
  BY FullRing, SMT DEF RingInv, TxInv, Transmit, TxDesc, Dist
<1>3. tx' \in [TxDesc -> Descs] /\ tx'[tdh].dd = 1 /\ \A j \in TxDesc \ {tdh} : tx'[j] = tx[j]
  BY DEF RingInv, TxInv, Transmit, Descs
<1>4. Pending' = Pending - 1
  BY <1>2, <1>3, PendingLess DEF RingInv, TxInv
<1>5. tdh' = Wrap(tdh + 1, NUM_TX_DESC)
  <2>1. tdh \in TxDesc /\ tdh' = (tdh + 1) % NUM_TX_DESC
    BY DEF RingInv, TxInv, Transmit
  <2>2. tdh + 1 \in 0..(2 * NUM_TX_DESC - 1)
    BY <2>1, SMT DEF TxDesc
  <2> QED BY <2>1, <2>2, WrapMod
<1>6. /\ tdh' \in TxDesc /\ Pending' \in 0..NUM_TX_DESC
      /\ tx_cur = Wrap(tdh' + Pending', NUM_TX_DESC)
  BY <1>2, <1>4, <1>5, SMT DEF RingInv, TxInv, TxDesc, Wrap
<1>7. ASSUME NEW i \in TxDesc
      PROVE  tx'[i].dd = 0 <=> Dist(tdh', i, NUM_TX_DESC) < Pending'
  <2>1. Dist(tdh', i, NUM_TX_DESC) =
            IF i = tdh THEN NUM_TX_DESC - 1 ELSE Dist(tdh, i, NUM_TX_DESC) - 1
    BY <1>5, SMT DEF RingInv, TxInv, TxDesc, Dist, Wrap
  <2>2. tx'[i].dd = 0 <=> i # tdh /\ Dist(tdh, i, NUM_TX_DESC) < Pending
    BY <1>3, SMT DEF RingInv, TxInv
  <2>3. Dist(tdh, i, NUM_TX_DESC) \in Int /\ Pending \in 0..NUM_TX_DESC
    BY SMT DEF RingInv, TxInv, TxDesc, Dist
  <2> QED BY <1>4, <2>1, <2>2, <2>3, SMT
<1>8. tdt' = tdt /\ tx_cur' = tx_cur
  BY DEF Transmit
<1> QED BY <1>1, <1>3, <1>6, <1>7, <1>8 DEF RingInv, TxInv

LEMMA PollKeeps ==
    ASSUME RingInv, e1000_receive_poll PROVE RingInv'
<1> USE RingAssumption
<1>1. TxInv'
  BY DEF RingInv, TxInv, Pending, e1000_receive_poll
<1>2. CASE rx[rx_cur].dd = 0
  BY <1>1, <1>2, SMT DEF RingInv, RxInv, Held, e1000_receive_poll
<1>3. CASE rx[rx_cur].dd = 1
  <2>1. /\ rx' = [rx EXCEPT ![rx_cur].dd = 0]
        /\ rdt' = rx_cur /\ rx_cur' = (rx_cur + 1) % NUM_RX_DESC /\ rdh' = rdh
    BY <1>3, SMT DEF e1000_receive_poll
  <2>2. rx' \in [RxDesc -> Descs] /\ rx'[rx_cur].dd = 0
    BY <2>1 DEF RingInv, RxInv, Descs
  <2>3. rx_cur' = Wrap(rx_cur + 1, NUM_RX_DESC)
    <3>1. rx_cur \in RxDesc /\ rx_cur' = (rx_cur + 1) % NUM_RX_DESC
      BY <2>1 DEF RingInv, RxInv
    <3>2. rx_cur + 1 \in 0..(2 * NUM_RX_DESC - 1)
      BY <3>1, SMT DEF RxDesc
    <3> QED BY <3>1, <3>2, WrapMod
  <2>4. Held > 0 /\ rx_cur # rdh
    <3>1. rx_cur \in RxDesc /\ rdh \in RxDesc /\ Dist(rx_cur, rx_cur, NUM_RX_DESC) < Held
      BY <1>3 DEF RingInv, RxInv
    <3>2. Dist(rx_cur, rx_cur, NUM_RX_DESC) = 0
      BY <3>1, SMT DEF Dist, RxDesc
    <3> QED BY <3>1, <3>2, SMT DEF Held
  <2>5. rx_cur' \in RxDesc /\ rdt' = Wrap(rx_cur' + NUM_RX_DESC - 1, NUM_RX_DESC)
    <3>1. rx_cur \in RxDesc
      BY DEF RingInv, RxInv
    <3>2. CASE rx_cur + 1 < NUM_RX_DESC
      BY <2>1, <2>3, <3>1, <3>2, SMT DEF RxDesc, Wrap
    <3>3. CASE rx_cur + 1 = NUM_RX_DESC
      BY <2>1, <2>3, <3>1, <3>3, SMT DEF RxDesc, Wrap
    <3> QED BY <3>1, <3>2, <3>3, SMT DEF RxDesc
  <2>6. ASSUME NEW i \in RxDesc
        PROVE  rx'[i].dd = 1 <=> Dist(rx_cur', i, NUM_RX_DESC) < Held'
    <3>1. Dist(rx_cur', i, NUM_RX_DESC) =
            IF i = rx_cur THEN NUM_RX_DESC - 1 ELSE Dist(rx_cur, i, NUM_RX_DESC) - 1
      BY <2>3, SMT DEF RingInv, RxInv, RxDesc, Dist, Wrap
    <3>2. Held' = Held - 1
      <4>1. rx_cur \in RxDesc /\ rdh \in RxDesc
        BY DEF RingInv, RxInv
      <4>2. Held' = Dist(rx_cur', rdh, NUM_RX_DESC)
        BY <2>1 DEF Held
      <4> QED BY <2>3, <2>4, <4>1, <4>2, SMT DEF RxDesc, Held, Dist, Wrap
    <3>3. rx'[i].dd = 1 <=> i # rx_cur /\ Dist(rx_cur, i, NUM_RX_DESC) < Held
      BY <2>1, <2>2, SMT DEF RingInv, RxInv
    <3>4. Dist(rx_cur, i, NUM_RX_DESC) \in Int /\ Held \in 0..(NUM_RX_DESC - 1)
      BY SMT DEF RingInv, RxInv, RxDesc, Dist, Held
    <3> QED BY <3>1, <3>2, <3>3, <3>4, SMT
  <2> QED BY <1>1, <2>1, <2>2, <2>5, <2>6 DEF RingInv, RxInv
<1> QED BY <1>2, <1>3 DEF e1000_receive_poll

LEMMA ReceiveKeeps ==
    ASSUME RingInv, NEW f \in Frames, Receive(f) PROVE RingInv'
<1> USE RingAssumption
<1>1. TxInv'
  BY DEF RingInv, TxInv, Pending, Receive
<1>2. CASE rdh = rdt
  BY <1>1, <1>2, SMT DEF RingInv, RxInv, Held, Receive
<1>3. CASE rdh # rdt
  <2>1. /\ rx' = [rx EXCEPT ![rdh] = Desc(1, f)]
        /\ rdh' = (rdh + 1) % NUM_RX_DESC /\ rdt' = rdt /\ rx_cur' = rx_cur
    BY <1>3 DEF Receive
  <2>2. rx' \in [RxDesc -> Descs] /\ rx'[rdh].dd = 1
    BY <2>1 DEF RingInv, RxInv, Descs, Content, Desc
  <2>3. rdh' = Wrap(rdh + 1, NUM_RX_DESC)
    <3>1. rdh \in RxDesc /\ rdh' = (rdh + 1) % NUM_RX_DESC
      BY <2>1 DEF RingInv, RxInv
    <3>2. rdh + 1 \in 0..(2 * NUM_RX_DESC - 1)
      BY <3>1, SMT DEF RxDesc
    <3> QED BY <3>1, <3>2, WrapMod
  <2>4. rdh' \in RxDesc /\ Held' = Held + 1
    <3>1. rx_cur \in RxDesc /\ rdh \in RxDesc /\ rdh # Wrap(rx_cur + NUM_RX_DESC - 1, NUM_RX_DESC)
      BY <1>3 DEF RingInv, RxInv
    <3>2. Held' = Dist(rx_cur, rdh', NUM_RX_DESC)
      BY <2>1 DEF Held
    <3> QED BY <2>3, <3>1, <3>2, SMT DEF RxDesc, Held, Dist, Wrap
  <2>5. ASSUME NEW i \in RxDesc
        PROVE  rx'[i].dd = 1 <=> Dist(rx_cur, i, NUM_RX_DESC) < Held'
    <3>1. i = rdh <=> Dist(rx_cur, i, NUM_RX_DESC) = Held
      BY SMT DEF RingInv, RxInv, RxDesc, Held, Dist
    <3>2. rx'[i].dd = 1 <=> i = rdh \/ Dist(rx_cur, i, NUM_RX_DESC) < Held
      BY <2>1, <2>2 DEF RingInv, RxInv
    <3>3. Dist(rx_cur, i, NUM_RX_DESC) \in Int /\ Held \in Int
      BY SMT DEF RingInv, RxInv, RxDesc, Dist, Held
    <3> QED BY <2>4, <3>1, <3>2, <3>3, SMT
  <2> QED BY <1>1, <2>1, <2>2, <2>4, <2>5 DEF RingInv, RxInv
<1> QED BY <1>2, <1>3

LEMMA RingStep == RingInv /\ [Next]_vars => RingInv'
<1> SUFFICES ASSUME RingInv, [Next]_vars PROVE RingInv'
  OBVIOUS
<1>1. CASE UNCHANGED vars
  BY <1>1 DEF RingInv, RxInv, TxInv, Held, Pending, vars
<1> QED BY <1>1, SendKeeps, TransmitKeeps, PollKeeps, ReceiveKeeps DEF Next

-----------------------------------------------------------------------------
(* The frames of the len descriptors of a ring of n from lo on. *)
Queue(ring, lo, len, n) == [i \in 1..len |-> ring[(lo + i - 1) % n].frame]

Rq == Queue(rx, rx_cur, Held, NUM_RX_DESC)
Tq == Queue(tx, tdh, Pending, NUM_TX_DESC)

(* The i-th descriptor from lo on. *)
Slot(lo, i, n) == Wrap(lo + i - 1, n)

(* The sequences of the refinement mapping, as N is given them. *)
MappedRq == [i \in 1..((rdh + NUM_RX_DESC - rx_cur) % NUM_RX_DESC)
                    |-> rx[(rx_cur + i - 1) % NUM_RX_DESC].frame]
MappedTq == [i \in 1..Pending |-> tx[(tdh + i - 1) % NUM_TX_DESC].frame]

LEMMA HeldMod ==
    ASSUME NEW n \in Nat \ {0}, NEW a \in 0..(n - 1), NEW b \in 0..(n - 1)
    PROVE  (b + n - a) % n = Dist(a, b, n)
<1>1. b + n - a \in 0..(2 * n - 1)
  BY SMT
<1>2. (b + n - a) % n = Wrap(b + n - a, n)
  BY <1>1, WrapMod
<1> QED BY <1>2, SMT DEF Wrap, Dist

LEMMA DistType ==
    ASSUME NEW n \in Nat \ {0}, NEW a \in 0..(n - 1), NEW b \in 0..(n - 1)
    PROVE  Dist(a, b, n) \in 0..(n - 1) /\ Wrap(a + Dist(a, b, n), n) = b
BY SMT DEF Dist, Wrap

LEMMA QueueAt ==
    ASSUME NEW n \in Nat \ {0}, NEW ring, NEW lo \in 0..(n - 1), NEW len \in 0..n, NEW i \in 1..len
    PROVE  /\ Queue(ring, lo, len, n)[i] = ring[Slot(lo, i, n)].frame
           /\ Slot(lo, i, n) \in 0..(n - 1)
<1>1. lo + i - 1 \in 0..(2 * n - 1)
  BY SMT
<1>2. (lo + i - 1) % n = Slot(lo, i, n)
  BY <1>1, WrapMod DEF Slot
<1>3. Slot(lo, i, n) \in 0..(n - 1)
  BY <1>1, SMT DEF Slot, Wrap
<1> QED BY <1>2, <1>3 DEF Queue

LEMMA QueueIsSeq ==
    ASSUME NEW n \in Nat \ {0}, NEW ring \in [0..(n - 1) -> Descs],
           NEW lo \in 0..(n - 1), NEW len \in 0..n
    PROVE  Queue(ring, lo, len, n) \in Seq(Content) /\ Len(Queue(ring, lo, len, n)) = len
<1>1. ASSUME NEW i \in 1..len PROVE Queue(ring, lo, len, n)[i] \in Content
  <2>1. Queue(ring, lo, len, n)[i] = ring[Slot(lo, i, n)].frame /\ Slot(lo, i, n) \in 0..(n - 1)
    BY QueueAt
  <2> QED BY <2>1 DEF Descs
<1>2. Queue(ring, lo, len, n) \in [1..len -> Content]
  BY <1>1 DEF Queue
<1>3. len \in Nat
  BY SMT
<1> QED BY <1>2, <1>3, FunIsSeq

Appended(n, ring, new, lo, len, more, f, d, end) ==
    more = len + 1 /\ end = Slot(lo, more, n) /\ new = [ring EXCEPT ![end] = Desc(d, f)]

(* Sending and receiving put a frame at the end of a queue, *)
LEMMA QueueAppend ==
    ASSUME NEW n \in Nat \ {0}, NEW ring \in [0..(n - 1) -> Descs], NEW new \in [0..(n - 1) -> Descs],
           NEW lo \in 0..(n - 1), NEW len \in 0..n, NEW more \in 0..n,
           NEW f \in Content, NEW d, NEW end \in 0..(n - 1)
    PROVE  Appended(n, ring, new, lo, len, more, f, d, end)
            => Queue(new, lo, more, n) = Append(Queue(ring, lo, len, n), f)
<1> DEFINE q == Queue(ring, lo, len, n)
           r == Queue(new, lo, more, n)
<1>1. /\ q \in Seq(Content) /\ Len(q) = len
      /\ r \in Seq(Content) /\ Len(r) = more
  BY QueueIsSeq
<1>2. \A i \in 1..len : q[i] = ring[Slot(lo, i, n)].frame
  BY QueueAt
<1>3. \A i \in 1..more : r[i] = new[Slot(lo, i, n)].frame /\ Slot(lo, i, n) \in 0..(n - 1)
  BY QueueAt
<1> HIDE DEF q, r
<1>4. SUFFICES ASSUME more = len + 1, end = Slot(lo, more, n), new = [ring EXCEPT ![end] = Desc(d, f)]
               PROVE  r = Append(q, f)
  BY DEF q, r, Appended
<1>5. ASSUME NEW i \in 1..len PROVE r[i] = q[i]
  <2>1. i \in 1..more
    BY <1>4, SMT
  <2>2. Slot(lo, i, n) # end
    BY <1>4, SMT DEF Slot, Wrap
  <2>3. r[i] = new[Slot(lo, i, n)].frame /\ Slot(lo, i, n) \in 0..(n - 1)
    BY <1>3, <2>1
  <2>4. new[Slot(lo, i, n)] = ring[Slot(lo, i, n)]
    BY <1>4, <2>2, <2>3
  <2> QED BY <1>2, <2>3, <2>4
<1>6. r[more] = f
  <2>1. more \in 1..more
    BY <1>4, SMT
  <2>2. r[more] = new[end].frame
    BY <1>3, <1>4, <2>1
  <2> QED BY <1>4, <2>2 DEF Desc
<1>7. Len(r) = Len(q) + 1 /\ \A i \in 1..Len(q) : r[i] = q[i]
  BY <1>1, <1>4, <1>5
<1>8. r[Len(r)] = f
  BY <1>1, <1>6
<1> QED BY <1>1, <1>7, <1>8, IsAppend, SMT

Taken(n, ring, new, lo, next, len, less, d) ==
    len = less + 1 /\ next = Wrap(lo + 1, n) /\ new = [ring EXCEPT ![lo].dd = d]

(* polling and transmitting take the first one, leaving the frames alone. *)
LEMMA QueueTail ==
    ASSUME NEW n \in Nat \ {0}, NEW ring \in [0..(n - 1) -> Descs], NEW new \in [0..(n - 1) -> Descs],
           NEW lo \in 0..(n - 1), NEW next \in 0..(n - 1), NEW len \in 0..n, NEW less \in 0..n, NEW d
    PROVE  Taken(n, ring, new, lo, next, len, less, d)
            => /\ Queue(ring, lo, len, n) # <<>>
               /\ Head(Queue(ring, lo, len, n)) = ring[lo].frame
               /\ Queue(new, next, less, n) = Tail(Queue(ring, lo, len, n))
<1> DEFINE q == Queue(ring, lo, len, n)
           r == Queue(new, next, less, n)
<1>1. /\ q \in Seq(Content) /\ Len(q) = len
      /\ r \in Seq(Content) /\ Len(r) = less
  BY QueueIsSeq
<1>2. \A i \in 1..len : q[i] = ring[Slot(lo, i, n)].frame
  BY QueueAt
<1>3. \A i \in 1..less : r[i] = new[Slot(next, i, n)].frame /\ Slot(next, i, n) \in 0..(n - 1)
  BY QueueAt
<1> HIDE DEF q, r
<1>4. SUFFICES ASSUME len = less + 1, next = Wrap(lo + 1, n), new = [ring EXCEPT ![lo].dd = d]
               PROVE  q # <<>> /\ Head(q) = ring[lo].frame /\ r = Tail(q)
  BY DEF q, r, Taken
<1>5. \A i \in 0..(n - 1) : new[i].frame = ring[i].frame
  BY <1>4 DEF Descs
<1>6. ASSUME NEW i \in 1..less PROVE r[i] = q[i + 1]
  <2> DEFINE j == i + 1
  <2>1. j \in 1..len
    BY <1>4, SMT
  <2>2. Slot(next, i, n) = Slot(lo, j, n)
    BY <1>4, SMT DEF Slot, Wrap
  <2> HIDE DEF j
  <2>3. q[j] = ring[Slot(lo, j, n)].frame
    BY <1>2, <2>1
  <2>4. r[i] = new[Slot(next, i, n)].frame /\ Slot(next, i, n) \in 0..(n - 1)
    BY <1>3
  <2>5. r[i] = q[j]
    BY <1>5, <2>2, <2>3, <2>4
  <2> QED BY <2>5 DEF j
<1>7. q # <<>> /\ r = Tail(q) /\ Head(q) = q[1]
  <2>1. Len(q) = Len(r) + 1 /\ \A i \in 1..Len(r) : r[i] = q[i + 1]
    BY <1>1, <1>4, <1>6
  <2> QED BY <1>1, <2>1, IsTail
<1>8. q[1] = ring[lo].frame
  <2>1. 1 \in 1..len
    BY <1>4, SMT
  <2>2. Slot(lo, 1, n) = lo
    BY SMT DEF Slot, Wrap
  <2>3. q[1] = ring[Slot(lo, 1, n)].frame
    BY <1>2, <2>1
  <2> QED BY <2>2, <2>3
<1> QED BY <1>7, <1>8

(* The queues before and after a step. *)
LEMMA Queues ==
    ASSUME RingInv, RingInv'
    PROVE  /\ MappedRq = Rq /\ MappedTq = Tq /\ MappedRq' = Rq' /\ MappedTq' = Tq'
           /\ Held \in 0..(NUM_RX_DESC - 1) /\ Rq \in Seq(Content) /\ Len(Rq) = Held
           /\ Pending \in 0..NUM_TX_DESC /\ Tq \in Seq(Content) /\ Len(Tq) = Pending
<1> USE RingAssumption
<1>1. /\ rx \in [0..(NUM_RX_DESC - 1) -> Descs]
      /\ rx_cur \in 0..(NUM_RX_DESC - 1) /\ rx_cur' \in 0..(NUM_RX_DESC - 1)
      /\ rdh \in 0..(NUM_RX_DESC - 1) /\ rdh' \in 0..(NUM_RX_DESC - 1)
  BY DEF RingInv, RxInv, RxDesc
<1>2. /\ tx \in [0..(NUM_TX_DESC - 1) -> Descs]
      /\ tdh \in 0..(NUM_TX_DESC - 1) /\ Pending \in 0..NUM_TX_DESC
  BY DEF RingInv, TxInv, TxDesc
<1>3. MappedRq = Rq /\ MappedRq' = Rq'
  BY <1>1, HeldMod DEF MappedRq, Rq, Queue, Held
<1>4. MappedTq = Tq /\ MappedTq' = Tq'
  BY DEF MappedTq, Tq, Queue
<1>5. Held \in 0..(NUM_RX_DESC - 1)
  BY <1>1, DistType DEF Held
<1>6. Held \in 0..NUM_RX_DESC
  BY <1>5, SMT
<1>7. Rq \in Seq(Content) /\ Len(Rq) = Held
  BY <1>1, <1>6, QueueIsSeq DEF Rq
<1>8. Tq \in Seq(Content) /\ Len(Tq) = Pending
  BY <1>2, QueueIsSeq DEF Tq
<1> QED BY <1>2, <1>3, <1>4, <1>5, <1>7, <1>8

(* Receive(f) is Arrive(f): the frame is queued, or dropped by a full ring. *)
LEMMA ReceiveMaps ==
    ASSUME RingInv, RingInv', NEW f \in Frames, Receive(f)
    PROVE  N!Arrive(f)
<1> USE RingAssumption
<1>1. /\ rx \in [0..(NUM_RX_DESC - 1) -> Descs] /\ rx' \in [0..(NUM_RX_DESC - 1) -> Descs]
      /\ rx_cur \in 0..(NUM_RX_DESC - 1) /\ rdh \in 0..(NUM_RX_DESC - 1)
      /\ rdt = Wrap(rx_cur + NUM_RX_DESC - 1, NUM_RX_DESC)
  BY DEF RingInv, RxInv, RxDesc
<1>2. Tq' = Tq /\ io' = io
  BY DEF Receive, Tq, Pending
<1>3. Rq' = IF Len(Rq) < NUM_RX_DESC - 1 THEN Append(Rq, f) ELSE Rq
  <2>1. CASE rdh = rdt
    <3>1. Held = NUM_RX_DESC - 1
      BY <1>1, <2>1, SMT DEF Held, Dist, Wrap
    <3>2. Rq' = Rq
      BY <2>1 DEF Receive, Rq, Held
    <3> QED BY <3>1, <3>2, Queues, SMT
  <2>2. CASE rdh # rdt
    <3>1. /\ rx' = [rx EXCEPT ![rdh] = Desc(1, f)] /\ rx_cur' = rx_cur
          /\ rdh' = (rdh + 1) % NUM_RX_DESC
      BY <2>2 DEF Receive
    <3>2. rdh' = Wrap(rdh + 1, NUM_RX_DESC)
      <4>1. rdh + 1 \in 0..(2 * NUM_RX_DESC - 1)
        BY <1>1, SMT
      <4> QED BY <3>1, <4>1, WrapMod
    <3>3. Held < NUM_RX_DESC - 1 /\ Held' = Held + 1 /\ rdh = Slot(rx_cur, Held', NUM_RX_DESC)
      <4>1. Held' = Dist(rx_cur, rdh', NUM_RX_DESC)
        BY <3>1 DEF Held
      <4> QED BY <1>1, <2>2, <3>2, <4>1, SMTT(60) DEF Held, Dist, Slot, Wrap
    <3>4. Rq' = Queue(rx', rx_cur, Held', NUM_RX_DESC)
      BY <3>1, <3>3 DEF Rq
    <3>5. f \in Content /\ Held \in 0..(NUM_RX_DESC - 1) /\ Held' \in 0..NUM_RX_DESC
      BY <3>3, Queues, SMT DEF Content
    <3>6. Queue(rx', rx_cur, Held', NUM_RX_DESC) = Append(Queue(rx, rx_cur, Held, NUM_RX_DESC), f)
      <4>1. Held \in 0..NUM_RX_DESC
        BY <3>5, SMT
      <4>2. Appended(NUM_RX_DESC, rx, rx', rx_cur, Held, Held', f, 1, rdh)
        BY <3>1, <3>3 DEF Appended
      <4> QED BY <1>1, <3>5, <4>1, <4>2, QueueAppend, SMTT(60)
    <3>7. Rq' = Append(Rq, f)
      BY <3>4, <3>6 DEF Rq
    <3> QED BY <3>3, <3>7, Queues
  <2> QED BY <2>1, <2>2
<1>4. MappedRq' = (IF Len(MappedRq) < NUM_RX_DESC - 1 THEN Append(MappedRq, f) ELSE MappedRq)
      /\ MappedTq' = MappedTq
  BY <1>2, <1>3, Queues
<1> QED BY <1>2, <1>4 DEF N!Arrive, MappedRq, MappedTq

(* e1000_receive_poll is Poll: it hands out the oldest frame, if any. *)
LEMMA PollMaps ==
    ASSUME RingInv, RingInv', e1000_receive_poll
    PROVE  N!Poll
<1> USE RingAssumption
<1>1. /\ rx \in [0..(NUM_RX_DESC - 1) -> Descs] /\ rx' \in [0..(NUM_RX_DESC - 1) -> Descs]
      /\ rx_cur \in 0..(NUM_RX_DESC - 1) /\ rdh \in 0..(NUM_RX_DESC - 1)
      /\ rx_cur' \in 0..(NUM_RX_DESC - 1)
  BY DEF RingInv, RxInv, RxDesc
<1>2. Tq' = Tq
  BY DEF e1000_receive_poll, Tq, Pending
<1>3. rx[rx_cur].dd = 1 <=> Held > 0
  <2>1. rx[rx_cur].dd = 1 <=> Dist(rx_cur, rx_cur, NUM_RX_DESC) < Held
    BY DEF RingInv, RxInv
  <2>2. Dist(rx_cur, rx_cur, NUM_RX_DESC) = 0
    BY <1>1, SMT DEF Dist
  <2> QED BY <2>1, <2>2, Queues
<1>4. /\ io' = <<"polled", IF Rq = <<>> THEN None ELSE Head(Rq)>>
      /\ Rq' = IF Rq = <<>> THEN Rq ELSE Tail(Rq)
  <2>1. CASE rx[rx_cur].dd = 0
    <3>1. Held = 0
      BY <1>3, <2>1, Queues, SMT
    <3>2. Rq = <<>>
      BY <3>1, Queues, EmptySeq
    <3>3. Rq' = Rq /\ io' = <<"polled", None>>
      BY <2>1, SMT DEF e1000_receive_poll, Rq, Held
    <3> QED BY <3>2, <3>3
  <2>2. CASE rx[rx_cur].dd = 1
    <3>1. /\ rx' = [rx EXCEPT ![rx_cur].dd = 0] /\ rdh' = rdh
          /\ rx_cur' = (rx_cur + 1) % NUM_RX_DESC
          /\ io' = <<"polled", rx[rx_cur].frame>>
      BY <2>2, SMT DEF e1000_receive_poll
    <3>2. rx_cur' = Wrap(rx_cur + 1, NUM_RX_DESC)
      <4>1. rx_cur + 1 \in 0..(2 * NUM_RX_DESC - 1)
        BY <1>1, SMT
      <4> QED BY <3>1, <4>1, WrapMod
    <3>3. Held = Held' + 1
      <4>1. Held' = Dist(rx_cur', rdh, NUM_RX_DESC)
        BY <3>1 DEF Held
      <4>2. Held > 0
        BY <1>3, <2>2
      <4> QED BY <1>1, <3>2, <4>1, <4>2, SMTT(60) DEF Held, Dist, Wrap
    <3>4. Held \in 0..NUM_RX_DESC /\ Held' \in 0..NUM_RX_DESC
      <4>1. Held' = Dist(rx_cur', rdh, NUM_RX_DESC)
        BY <3>1 DEF Held
      <4>2. Held \in 0..(NUM_RX_DESC - 1) /\ Held' \in 0..(NUM_RX_DESC - 1)
        BY <1>1, <4>1, DistType DEF Held
      <4> QED BY <4>2, SMTT(60)
    <3>5. Taken(NUM_RX_DESC, rx, rx', rx_cur, rx_cur', Held, Held', 0)
      BY <3>1, <3>2, <3>3 DEF Taken
    <3>6. Rq # <<>> /\ Head(Rq) = rx[rx_cur].frame /\ Rq' = Tail(Rq)
      BY <1>1, <3>4, <3>5, QueueTail, SMTT(60) DEF Rq
    <3> QED BY <3>1, <3>6
  <2>3. rx[rx_cur].dd \in {0, 1}
    BY <1>1 DEF Descs
  <2> QED BY <2>1, <2>2, <2>3
<1>5. /\ io' = <<"polled", IF MappedRq = <<>> THEN None ELSE Head(MappedRq)>>
      /\ MappedRq' = (IF MappedRq = <<>> THEN MappedRq ELSE Tail(MappedRq))
      /\ MappedTq' = MappedTq
  BY <1>2, <1>4, Queues
<1> QED BY <1>5 DEF N!Poll, MappedRq, MappedTq

(* e1000_send(f) is Send(f): the frame is queued, or refused by a full ring. *)
LEMMA SendMaps ==
    ASSUME RingInv, RingInv', NEW f \in Frames, e1000_send(f)
    PROVE  N!Send(f)
<1> USE RingAssumption
<1>1. /\ tx \in [0..(NUM_TX_DESC - 1) -> Descs] /\ tx' \in [0..(NUM_TX_DESC - 1) -> Descs]
      /\ tx_cur \in 0..(NUM_TX_DESC - 1) /\ tdh \in 0..(NUM_TX_DESC - 1)
      /\ Pending \in 0..NUM_TX_DESC /\ Pending' \in 0..NUM_TX_DESC
  BY DEF RingInv, TxInv, TxDesc
<1>2. Rq' = Rq
  BY DEF e1000_send, Rq, Held
<1>3. /\ io' = <<IF Len(Tq) < NUM_TX_DESC THEN "queued" ELSE "refused", f>>
      /\ Tq' = IF Len(Tq) < NUM_TX_DESC THEN Append(Tq, f) ELSE Tq
  <2>1. CASE tx[tx_cur].dd = 0
    <3>1. ~ (Len(Tq) < NUM_TX_DESC)
      BY <2>1, FullRing, Queues, SMT DEF RingInv
    <3>2. Tq' = Tq /\ io' = <<"refused", f>>
      BY <2>1, SMT DEF e1000_send, Tq, Pending
    <3> QED BY <3>1, <3>2
  <2>2. CASE tx[tx_cur].dd = 1
    <3>1. /\ tx' = [tx EXCEPT ![tx_cur] = Desc(0, f)] /\ tdh' = tdh
          /\ io' = <<"queued", f>>
      BY <2>2, SMT DEF e1000_send
    <3>2. Len(Tq) < NUM_TX_DESC /\ Pending < NUM_TX_DESC
      BY <2>2, FullRing, Queues DEF RingInv
    <3>3. Pending' = Pending + 1
      <4>1. tx \in [TxDesc -> Descs] /\ tx' \in [TxDesc -> Descs] /\ tx_cur \in TxDesc
        BY DEF RingInv, RingInv, TxInv
      <4>2. tx'[tx_cur].dd = 0 /\ \A j \in TxDesc \ {tx_cur} : tx'[j] = tx[j]
        BY <3>1, <4>1 DEF Desc
      <4> QED BY <2>2, <4>1, <4>2, PendingMore
    <3>4. tx_cur = Slot(tdh, Pending', NUM_TX_DESC)
      <4>1. tx_cur = Wrap(tdh + Pending, NUM_TX_DESC)
        BY DEF RingInv, TxInv
      <4> QED BY <1>1, <3>3, <4>1, SMT DEF Slot, Wrap
    <3>5. Appended(NUM_TX_DESC, tx, tx', tdh, Pending, Pending', f, 0, tx_cur)
      BY <3>1, <3>3, <3>4 DEF Appended
    <3>6. f \in Content
      BY DEF Content
    <3>7. Queue(tx', tdh, Pending', NUM_TX_DESC) = Append(Queue(tx, tdh, Pending, NUM_TX_DESC), f)
      BY <1>1, <3>5, <3>6, QueueAppend, SMTT(60)
    <3>8. Tq' = Queue(tx', tdh, Pending', NUM_TX_DESC)
      BY <3>1 DEF Tq
    <3>9. Tq' = Append(Tq, f)
      BY <3>7, <3>8 DEF Tq
    <3> QED BY <3>1, <3>2, <3>9
  <2>3. tx[tx_cur].dd \in {0, 1}
    BY <1>1 DEF Descs
  <2> QED BY <2>1, <2>2, <2>3
<1>4. /\ io' = <<IF Len(MappedTq) < NUM_TX_DESC THEN "queued" ELSE "refused", f>>
      /\ MappedTq' = (IF Len(MappedTq) < NUM_TX_DESC THEN Append(MappedTq, f) ELSE MappedTq)
      /\ MappedRq' = MappedRq
  BY <1>2, <1>3, Queues
<1> QED BY <1>4 DEF N!Send, MappedRq, MappedTq

(* The card's Transmit puts the oldest accepted frame on the cable. *)
LEMMA TransmitMaps ==
    ASSUME RingInv, RingInv', Transmit
    PROVE  N!Transmit
<1> USE RingAssumption
<1>1. /\ tx \in [0..(NUM_TX_DESC - 1) -> Descs] /\ tx' \in [0..(NUM_TX_DESC - 1) -> Descs]
      /\ tdh \in 0..(NUM_TX_DESC - 1) /\ tdh' \in 0..(NUM_TX_DESC - 1)
      /\ Pending \in 0..NUM_TX_DESC /\ Pending' \in 0..NUM_TX_DESC
  BY DEF RingInv, TxInv, TxDesc
<1>2. Rq' = Rq
  BY DEF Transmit, Rq, Held
<1>3. /\ tx' = [tx EXCEPT ![tdh].dd = 1] /\ tdh' = (tdh + 1) % NUM_TX_DESC
      /\ io' = <<"out", tx[tdh].frame>>
  BY DEF Transmit
<1>4. tdh' = Wrap(tdh + 1, NUM_TX_DESC)
  <2>1. tdh + 1 \in 0..(2 * NUM_TX_DESC - 1)
    BY <1>1, SMT
  <2> QED BY <1>3, <2>1, WrapMod
<1>5. Pending = Pending' + 1
  <2>1. tx \in [TxDesc -> Descs] /\ tx' \in [TxDesc -> Descs] /\ tdh \in TxDesc
    BY DEF RingInv, TxInv
  <2>2. Pending > 0
    BY FullRing DEF RingInv, Transmit
  <2>3. tx[tdh].dd = 0
    <3>1. tx[tdh].dd = 0 <=> Dist(tdh, tdh, NUM_TX_DESC) < Pending
      BY DEF RingInv, TxInv
    <3> QED BY <1>1, <2>2, <3>1, SMT DEF Dist
  <2>4. tx'[tdh].dd = 1 /\ \A j \in TxDesc \ {tdh} : tx'[j] = tx[j]
    BY <1>3, <2>1 DEF Descs
  <2>5. Pending' = Pending - 1
    BY <2>1, <2>3, <2>4, PendingLess
  <2> QED BY <1>1, <2>5, SMT
<1>6. Taken(NUM_TX_DESC, tx, tx', tdh, tdh', Pending, Pending', 1)
  BY <1>3, <1>4, <1>5 DEF Taken
<1>7. Tq # <<>> /\ Head(Tq) = tx[tdh].frame /\ Tq' = Tail(Tq)
  BY <1>1, <1>6, QueueTail, SMTT(60) DEF Tq
<1>8. MappedTq # <<>> /\ io' = <<"out", Head(MappedTq)>> /\ MappedTq' = Tail(MappedTq)
      /\ MappedRq' = MappedRq
  BY <1>2, <1>3, <1>7, Queues
<1> QED BY <1>8 DEF N!Transmit, MappedRq, MappedTq

-----------------------------------------------------------------------------
(* The DD bits of e1000.c agree with the ring indices in every reachable
   state: neither the driver nor the card ever takes a descriptor the other
   one still owns. *)
THEOREM RingsSound == Spec => []RingInv
<1>1. Init => RingInv
  BY RingInit
<1>2. RingInv /\ [Next]_vars => RingInv'
  BY RingStep
<1> QED BY <1>1, <1>2, PTL DEF Spec

(* e1000_send, e1000_receive_poll and the card implement the queues of Nic,
   with NUM_RX_DESC - 1 places to receive and NUM_TX_DESC to send. *)
THEOREM Refinement == Spec => RingsAreQueues
<1>1. Init => N!Init
  <2> SUFFICES ASSUME Init PROVE N!Init
    OBVIOUS
  <2> USE RingAssumption
  <2>1. {i \in TxDesc : tx[i].dd = 0} = {}
    BY SMT DEF Init, e1000_init, e1000_setup_tx, Desc, TxDesc
  <2>2. Pending = 0
    BY <2>1, FS_EmptySet DEF Pending
  <2>3. rdh = 0 /\ rx_cur = 0 /\ io = <<"up", None>>
    BY DEF Init, e1000_init, e1000_setup_rx
  <2>4. (rdh + NUM_RX_DESC - rx_cur) % NUM_RX_DESC = 0
    <3>1. 0 \in 0..(NUM_RX_DESC - 1)
      BY SMT
    <3>2. (0 + NUM_RX_DESC - 0) % NUM_RX_DESC = Dist(0, 0, NUM_RX_DESC)
      BY <3>1, HeldMod
    <3> QED BY <2>3, <3>2, SMT DEF Dist
  <2>5. MappedRq = <<>> /\ MappedTq = <<>>
    BY <2>2, <2>4, SMT DEF MappedRq, MappedTq
  <2> QED BY <2>3, <2>5 DEF N!Init, MappedRq, MappedTq
<1>2. RingInv /\ RingInv' /\ [Next]_vars => [N!Next]_<<MappedRq, MappedTq, io>>
  <2> SUFFICES ASSUME RingInv, RingInv', [Next]_vars PROVE [N!Next]_<<MappedRq, MappedTq, io>>
    OBVIOUS
  <2>1. CASE UNCHANGED vars
    BY <2>1 DEF vars, MappedRq, MappedTq, Pending
  <2>2. CASE e1000_receive_poll
    BY <2>2, PollMaps DEF N!Next
  <2>3. CASE Transmit
    BY <2>3, TransmitMaps DEF N!Next
  <2>4. ASSUME NEW f \in Frames, e1000_send(f) PROVE N!Next
    BY <2>4, SendMaps DEF N!Next
  <2>5. ASSUME NEW f \in Frames, Receive(f) PROVE N!Next
    BY <2>5, ReceiveMaps DEF N!Next
  <2> QED BY <2>1, <2>2, <2>3, <2>4, <2>5 DEF Next
<1>3. Spec => N!Spec
  BY <1>1, <1>2, RingsSound, PTL DEF Spec, N!Spec, MappedRq, MappedTq
<1> QED BY <1>3 DEF RingsAreQueues
=============================================================================
