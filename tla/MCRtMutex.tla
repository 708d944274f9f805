----------------------------- MODULE MCRtMutex -----------------------------
(* Constants for the model-checking runs of RtMutex. *)
EXTENDS RtMutex, TLC
CONSTANTS t1, t2, t3
MCThread == {t1, t2, t3}
MCPrio == (t1 :> 1) @@ (t2 :> 2) @@ (t3 :> 3)
=============================================================================
