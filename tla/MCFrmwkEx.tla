----------------------------- MODULE MCFrmwkEx -----------------------------
EXTENDS FrmwkEx, TLC

\* The names of IO queues are interchangeable.
Symmetry == Permutations(IOQs)
=============================================================================
