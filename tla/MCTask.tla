------------------------------ MODULE MCTask ------------------------------
EXTENDS Task, TLC

MCSymmetry == Permutations(Addr \ {kmain})
=============================================================================
