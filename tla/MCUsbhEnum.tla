----------------------------- MODULE MCUsbhEnum -----------------------------
(* Instances of UsbhEnum for TLC.                                          *)
EXTENDS UsbhEnum

\* A hub, a serial device with two ports, and a network adapter one of whose
\* interfaces has no driver.
MCDevices == {<<"hub">>, <<"acm", "data", "acm", "data">>, <<"rndis", "none">>}
=============================================================================
