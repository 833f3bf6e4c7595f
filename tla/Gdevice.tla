------------------------------- MODULE Gdevice -------------------------------
(***************************************************************************)
(* The device table of src/src/gdevice.c: the linked list pdevhead as a     *)
(* sequence, its head first, and the lookup a command goes through.  Only   *)
(* the fields that a command handler tests are kept; gpio_mode is OUTPUT    *)
(* for every device of ini/gdevice.ini and dev_name is only printed.        *)
(***************************************************************************)
EXTENDS Integers, Sequences

CONSTANT gdevices    \* the list pdevhead, head first, as receive_init left it

LOW  == 0
HIGH == 1
Levels == {LOW, HIGH}

Byte == 0 .. 255

(* The pointer value find_gdevice_by_key returns when no device matches.   *)
NULL == 0

Devices == DOMAIN gdevices

GdeviceRecord ==
    [key               : Byte,
     gpio_pin          : Nat,
     gpio_status       : Levels,
     check_face_status : {0, 1},
     voice_set_status  : {0, 1}]

(***************************************************************************)
(* What ini/gdevice.ini guarantees of the table: pins are real pins, and no *)
(* device uses the key of the ignored command (0x40) or one of the two keys *)
(* by which a handler marks a face recognition in the message buffer.       *)
(***************************************************************************)
KEY_IGNORED   == 64   \* 0x40, receive_interface.c:141
KEY_SMOKE     == 69   \* 0x45, the beeper
KEY_FACE_FAIL == 70   \* 0x46, receive_interface.c:183
KEY_FACE_OK   == 71   \* 0x47, receive_interface.c:178

ASSUME GdevicesAssumption ==
    /\ gdevices \in Seq(GdeviceRecord)
    /\ \A d \in Devices :
          gdevices[d].key \notin {KEY_IGNORED, KEY_FACE_FAIL, KEY_FACE_OK}

Pins == {gdevices[d].gpio_pin : d \in Devices}

ChecksFace(d) == gdevices[d].check_face_status = 1
Announced(d)  == gdevices[d].voice_set_status = 1

(* Devices whose key is k; the walk of the list stops at the first.        *)
Matching(k) == {d \in Devices : gdevices[d].key = k}

find_gdevice_by_key(k) ==
    IF Matching(k) = {}
    THEN NULL
    ELSE CHOOSE d \in Matching(k) : \A e \in Matching(k) : d <= e

==============================================================================
