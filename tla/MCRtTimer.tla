------------------------------ MODULE MCRtTimer ------------------------------
(* Instances of RtTimer for TLC.                                           *)
EXTENDS RtTimer

CONSTANTS h1, s1, s2

\* One soft timer has both times, so that the two soft timers meet in either
\* order and at the same tick.
MCTimes == [t \in {h1, s1, s2} |-> IF t = s1 THEN {1, 2} ELSE {2}]
=============================================================================
