-------------------------------- MODULE Nic --------------------------------
(***************************************************************************)
(* What the network stack takes the card to be: a bounded queue of         *)
(* received frames, which loses a frame that finds it full, and a bounded  *)
(* queue of frames to send, which refuses one.  io is what a call returned *)
(* or what the card put on the cable.                                      *)
(***************************************************************************)
EXTENDS Naturals, Sequences

CONSTANTS Frames, None, RXCAP, TXCAP

VARIABLES rxq, txq, io

Arrive(f) ==
    /\ rxq' = IF Len(rxq) < RXCAP THEN Append(rxq, f) ELSE rxq
    /\ UNCHANGED <<txq, io>>

Poll ==
    /\ io'  = <<"polled", IF rxq = <<>> THEN None ELSE Head(rxq)>>
    /\ rxq' = IF rxq = <<>> THEN rxq ELSE Tail(rxq)
    /\ txq' = txq

Send(f) ==
    /\ io'  = <<IF Len(txq) < TXCAP THEN "queued" ELSE "refused", f>>
    /\ txq' = IF Len(txq) < TXCAP THEN Append(txq, f) ELSE txq
    /\ rxq' = rxq

Transmit ==
    /\ txq # <<>>
    /\ io' = <<"out", Head(txq)>> /\ txq' = Tail(txq)
    /\ rxq' = rxq

Init == rxq = <<>> /\ txq = <<>> /\ io = <<"up", None>>

Next == Poll \/ Transmit \/ \E f \in Frames : Arrive(f) \/ Send(f)

Spec == Init /\ [][Next]_<<rxq, txq, io>>
=============================================================================
