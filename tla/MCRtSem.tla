------------------------------ MODULE MCRtSem ------------------------------
(* Constants for the model-checking runs of RtSem.  The threads are alike *)
(* (their priorities are state), so the safety run takes them as a        *)
(* symmetry set.                                                          *)
EXTENDS RtSem, TLC
CONSTANTS t1, t2, t3
MCThread3 == {t1, t2, t3}
MCThread2 == {t1, t2}
MCSymmetry == Permutations(MCThread3)
=============================================================================
