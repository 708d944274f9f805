------------------------------ MODULE MCUsbhHub ------------------------------
(* Instances of UsbhHub for TLC.                                           *)
EXTENDS UsbhHub
=============================================================================
