------------------------------ MODULE MCUsbHub ------------------------------
(* Small instances of UsbHub for TLC.                                      *)
EXTENDS UsbHub, TLC
=============================================================================
