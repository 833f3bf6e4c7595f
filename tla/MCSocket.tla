------------------------------- MODULE MCSocket -------------------------------
(* Values of the constants of SocketInterface for TLC.                       *)
EXTENDS SocketInterface

LockAndBeep == {<<68, 0>>, <<69, 1>>}
===============================================================================
