----------------------------- MODULE MCUsbhPoll -----------------------------
(* Instances of UsbhPoll for TLC.                                          *)
EXTENDS UsbhPoll

CONSTANTS s1

MCTimes == [t \in {s1} |-> {1, 2}]
=============================================================================
