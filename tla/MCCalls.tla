-------------------------------- MODULE MCCalls --------------------------------
(* The handlers of module HandlerCalls are interchangeable, for TLC.        *)
EXTENDS HandlerCalls, TLC

HandlerSymmetry == Permutations(Handlers)
================================================================================
