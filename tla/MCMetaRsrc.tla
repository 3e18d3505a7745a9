----------------------------- MODULE MCMetaRsrc -----------------------------
(***************************************************************************)
(* Instances of MetaRsrc for TLC.                                          *)
(***************************************************************************)
EXTENDS MetaRsrc, TLC

CmdSymmetry == Permutations(TestCmds) \cup Permutations(LoopCmds)
=============================================================================
