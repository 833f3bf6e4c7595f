------------------------------ MODULE Controller ------------------------------
(***************************************************************************)
(* What receive_get and receive_thread_handler of receive_interface.c       *)
(* promise to someone who gives one command at a time: the command is       *)
(* answered, by setting one pin or by refusing the face, and a door that    *)
(* was opened is closed again before the next command is taken.             *)
(***************************************************************************)
EXTENDS Gdevice

CONSTANT Commands     \* records with a key and a status st

VARIABLES
    phase,     \* "idle", "pending", "closing" or "down"
    command,   \* the last command given
    pin        \* the level on each GPIO pin

vars == <<phase, command, pin>>

NoCommand == [key |-> 0, st |-> 0]

Init ==
    /\ phase = "idle"
    /\ command = NoCommand
    /\ pin = [p \in Pins |-> HIGH]

Asked == find_gdevice_by_key(command.key)
Set(d, level) == pin' = [pin EXCEPT ![gdevices[d].gpio_pin] = level]

Give(c) ==
    /\ phase = "idle"
    /\ phase' = "pending"
    /\ command' = [key |-> c.key, st |-> c.st]
    /\ UNCHANGED pin

(* The device is set; one that needs a face is to be closed afterwards.     *)
Apply ==
    /\ phase = "pending"
    /\ Asked # NULL
    /\ phase' = IF ChecksFace(Asked) THEN "closing" ELSE "idle"
    /\ Set(Asked, IF command.st = 0 THEN LOW ELSE HIGH)
    /\ UNCHANGED command

(* No face is recognised, or the command is the one that does nothing.      *)
Refuse ==
    /\ phase = "pending"
    /\ \/ command.key = KEY_IGNORED
       \/ Asked # NULL /\ ChecksFace(Asked)
    /\ phase' = "idle"
    /\ UNCHANGED <<command, pin>>

CloseAgain ==
    /\ phase = "closing"
    /\ phase' = "idle"
    /\ Set(Asked, HIGH)
    /\ UNCHANGED command

(* A key that no device has is the end of the process, and nothing else is. *)
Die ==
    /\ phase = "pending"
    /\ Asked = NULL /\ command.key # KEY_IGNORED
    /\ phase' = "down"
    /\ UNCHANGED <<command, pin>>

Revive ==
    /\ phase = "down"
    /\ phase' = "idle"
    /\ UNCHANGED <<command, pin>>

Answer == Apply \/ Refuse \/ Die

Next == (\E c \in Commands : Give(c)) \/ Answer \/ CloseAgain \/ Revive

Spec == Init /\ [][Next]_vars

FairSpec == Spec /\ WF_vars(Answer) /\ WF_vars(CloseAgain)
===============================================================================
