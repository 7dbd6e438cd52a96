---------------------------- MODULE MCHwThreads ----------------------------
(* Small instances of HwThreads for TLC.                                   *)
EXTENDS HwThreads, TLC

\* A program that waits for its tasks.
Waits(n) == [api |-> {"startup", "post", "faster"}, joins |-> TRUE, most |-> n]

\* One that does not, and calls everything.
Hurries == [api |-> {"startup", "post", "sleep", "single", "faster"}, joins |-> FALSE, most |-> 3]

MCPrograms == {Waits(4), Hurries}
MCStartup == {Waits(2)}
=============================================================================
