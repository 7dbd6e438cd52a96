----------------------------- MODULE MCUsbOhci -----------------------------
(* Small instances of UsbOhci for TLC.                                     *)
EXTENDS UsbOhci, TLC

CONSTANTS s1, s2, i1, i2   \* the requests

\* A device that two requests at a time wait for, one with an interrupt pipe, and
\* one with two.
MCBuses == {[pipes |-> {0}, req |-> {s1, s2}, spare |-> 1],
            [pipes |-> {0, 1}, req |-> {s1, i1}, spare |-> 1],
            [pipes |-> {0, 1, 2}, req |-> {i1, i2}, spare |-> 0]}

\* Two devices with an interrupt pipe each.
MCTwoDevices == {[pipes |-> {0, 1}, req |-> {i1, i2}, spare |-> 0]}
=============================================================================
