---------------------------- MODULE MCCfsJournal ----------------------------
(* Small instances of CfsJournal.  The home blocks are interchangeable.    *)
EXTENDS CfsJournal, TLC

MCFormatted == [h \in Home |-> CHOOSE d \in Data : TRUE]
MCSymmetry == Permutations(Home)
=============================================================================
