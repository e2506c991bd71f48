------------------------------- MODULE E1000 -------------------------------
(***************************************************************************)
(* The descriptor rings of src/e1000.c.  The driver and the card share the *)
(* rings: the driver owns rx_cur, tx_cur and the tail registers, the card  *)
(* (external) the head registers, and the DD bit of a descriptor says that *)
(* the card is done with it.                                               *)
(***************************************************************************)
EXTENDS Integers, FiniteSets

CONSTANTS Frames, None,
    NUM_RX_DESC, NUM_TX_DESC    \* 32 each

ASSUME RingAssumption == NUM_RX_DESC \in Nat \ {0} /\ NUM_TX_DESC \in Nat \ {0}

VARIABLES
    rx,     \* rx_ring and its buffers: per descriptor, DD and the frame
    rdh, rdt, rx_cur,
    tx, tdh, tdt, tx_cur,
    io      \* what the last call returned, or the card put on the cable

vars == <<rx, rdh, rdt, rx_cur, tx, tdh, tdt, tx_cur, io>>

RxDesc == 0..(NUM_RX_DESC - 1)
TxDesc == 0..(NUM_TX_DESC - 1)
Desc(dd, f) == [dd |-> dd, frame |-> f]

\* The card gets all receive descriptors but one; all transmit descriptors
\* are done.
e1000_setup_rx ==
    /\ rx = [i \in RxDesc |-> Desc(0, None)]
    /\ rdh = 0 /\ rdt = NUM_RX_DESC - 1 /\ rx_cur = 0

e1000_setup_tx ==
    /\ tx = [i \in TxDesc |-> Desc(1, None)]
    /\ tdh = 0 /\ tdt = 0 /\ tx_cur = 0

e1000_init == e1000_setup_rx /\ e1000_setup_tx /\ io = <<"up", None>>

e1000_send(f) ==
    /\ \/ /\ tx[tx_cur].dd = 0
          /\ io' = <<"refused", f>>
          /\ UNCHANGED <<tx, tx_cur, tdt>>
       \/ /\ tx[tx_cur].dd = 1
          /\ tx' = [tx EXCEPT ![tx_cur] = Desc(0, f)]
          /\ tx_cur' = (tx_cur + 1) % NUM_TX_DESC
          /\ tdt' = tx_cur'
          /\ io' = <<"queued", f>>
    /\ UNCHANGED <<rx, rdh, rdt, rx_cur, tdh>>

\* Mutant: giving back the next descriptor instead of the one just read.
e1000_receive_poll_Next ==
    /\ \/ /\ rx[rx_cur].dd = 0
          /\ io' = <<"polled", None>>
          /\ UNCHANGED <<rx, rdt, rx_cur>>
       \/ /\ rx[rx_cur].dd = 1
          /\ io' = <<"polled", rx[rx_cur].frame>>
          /\ rx' = [rx EXCEPT ![rx_cur].dd = 0]
          /\ rx_cur' = (rx_cur + 1) % NUM_RX_DESC
          /\ rdt' = rx_cur'
    /\ UNCHANGED <<rdh, tx, tdh, tdt, tx_cur>>

\* The descriptor read goes back to the card before rx_cur moves on.
e1000_receive_poll ==
    /\ \/ /\ rx[rx_cur].dd = 0
          /\ io' = <<"polled", None>>
          /\ UNCHANGED <<rx, rdt, rx_cur>>
       \/ /\ rx[rx_cur].dd = 1
          /\ io' = <<"polled", rx[rx_cur].frame>>
          /\ rx' = [rx EXCEPT ![rx_cur].dd = 0]
          /\ rdt' = rx_cur
          /\ rx_cur' = (rx_cur + 1) % NUM_RX_DESC
    /\ UNCHANGED <<rdh, tx, tdh, tdt, tx_cur>>

\* The card: a frame comes in, and is dropped when the card owns no
\* descriptor; a frame goes out when head and tail differ.
Receive(f) ==
    /\ IF rdh # rdt
       THEN /\ rx' = [rx EXCEPT ![rdh] = Desc(1, f)]
            /\ rdh' = (rdh + 1) % NUM_RX_DESC
       ELSE UNCHANGED <<rx, rdh>>
    /\ UNCHANGED <<rdt, rx_cur, tx, tdh, tdt, tx_cur, io>>

Transmit ==
    /\ tdh # tdt
    /\ io' = <<"out", tx[tdh].frame>>
    /\ tx' = [tx EXCEPT ![tdh].dd = 1]
    /\ tdh' = (tdh + 1) % NUM_TX_DESC
    /\ UNCHANGED <<rx, rdh, rdt, rx_cur, tdt, tx_cur>>

Init == e1000_init

Next == e1000_receive_poll \/ Transmit
        \/ \E f \in Frames : e1000_send(f) \/ Receive(f)

Spec == Init /\ [][Next]_vars

-----------------------------------------------------------------------------
Pending == Cardinality({i \in TxDesc : tx[i].dd = 0})

(* The frames between the indices of each ring. *)
N == INSTANCE Nic WITH
        RXCAP <- NUM_RX_DESC - 1, TXCAP <- NUM_TX_DESC,
        rxq <- [i \in 1..((rdh + NUM_RX_DESC - rx_cur) % NUM_RX_DESC)
                    |-> rx[(rx_cur + i - 1) % NUM_RX_DESC].frame],
        txq <- [i \in 1..Pending |-> tx[(tdh + i - 1) % NUM_TX_DESC].frame]

(* e1000_send and e1000_receive_poll make of the rings the two queues of Nic:
   a frame is polled once, in the order of arrival, and only a full ring loses
   one; a frame that was accepted goes out once, in order, and a descriptor is
   not used again before. *)
RingsAreQueues == N!Spec
=============================================================================
