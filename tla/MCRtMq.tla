------------------------------- MODULE MCRtMq -------------------------------
(* Constants for the model-checking runs of RtMq. *)
EXTENDS RtMq
CONSTANTS t1, t2, t3
MCThread == {t1, t2, t3}
=============================================================================
