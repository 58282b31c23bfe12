---------------------------- MODULE MCCappedWriter ----------------------------
(* Capacities 2, 3 and 4, from requests below, between and above the       *)
(* limits; writes shorter than, equal to and longer than the capacity.     *)
EXTENDS CappedWriter

MCByte == {0, 1}
MCRequested == {1, 3, 9}
===============================================================================
