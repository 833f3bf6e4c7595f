------------------------------ MODULE MCReceive ------------------------------
(* Values of the constants of ReceiveInterface for TLC.                     *)
EXTENDS ReceiveProperties, TLC

CONSTANTS h1, h2

(* Three of the five sections of ini/gdevice.ini, in the order of the list: *)
(* each section is put in front of those before it.                         *)
Lock   == [key |-> 68, gpio_pin |-> 7, gpio_status |-> HIGH,
           check_face_status |-> 1, voice_set_status |-> 1]
Beep   == [key |-> 69, gpio_pin |-> 9, gpio_status |-> HIGH,
           check_face_status |-> 0, voice_set_status |-> 1]
BdrLed == [key |-> 66, gpio_pin |-> 5, gpio_status |-> HIGH,
           check_face_status |-> 0, voice_set_status |-> 0]
IniTable == <<BdrLed, Beep, Lock>>

Frame(k, s) == [len |-> 6, key |-> k, st |-> s]
Cut(n, k, s) == [len |-> n, key |-> k, st |-> s]

LockOpen  == Frame(68, 0)
LockClose == Frame(68, 1)
FireOn    == Frame(69, 0)
FireOff   == Frame(69, 1)
LedOn     == Frame(66, 0)
LedOff    == Frame(66, 1)
Ignored   == Frame(64, 0)
Unknown   == Frame(80, 0)

TwoCommands   == {LockOpen, FireOff}
CutCommands   == {LockOpen, LedOff, Ignored, Cut(3, 69, 0), Cut(1, 0, 0)}
AllCommands   == {LockOpen, LockClose, FireOn, FireOff, LedOn, LedOff,
                  Ignored, Unknown}
KnownCommands == {LockOpen, LedOn}
LockCommands  == {LockOpen}

HandlerSymmetry == Permutations({h1, h2})
==============================================================================
