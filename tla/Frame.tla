-------------------------------- MODULE Frame --------------------------------
(***************************************************************************)
(* The six-byte frame 0xAA 0x55 key status 0x55 0xAA and the buffers it is  *)
(* read into, as voice_get, socket_control_get and receive_get handle them. *)
(***************************************************************************)
EXTENDS Naturals, Sequences

Byte == 0 .. 255

FrameOf(p) == <<170, 85, p[1], p[2], 85, 170>>

(* The first Len(m) bytes of b replaced by m.                               *)
Overlay(b, m) == [i \in 1 .. 6 |-> IF i <= Len(m) THEN m[i] ELSE b[i]]

Cleared == [i \in 1 .. 6 |-> 0]      \* a buffer after memset

(* Mutant: the test without the last two bytes.                             *)
IsFrame_HeadOnly(b) == b[1] = 170 /\ b[2] = 85

(* The test that all three threads make on their buffer.                    *)
IsFrame(b) == b[1] = 170 /\ b[2] = 85 /\ b[5] = 85 /\ b[6] = 170
=============================================================================
