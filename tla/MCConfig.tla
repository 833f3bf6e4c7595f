------------------------------- MODULE MCConfig -------------------------------
(* Values of the constants of DeviceConfig for TLC.                         *)
EXTENDS ConfigProperties, TLC

CONSTANTS
    MaxLines,     \* bound: lines of the files made from SomeLines
    MaxBlocks     \* bound: blocks of the files made from SomeBlocks

(* ini/gdevice.ini, line by line.                                           *)
IniSection(name, key, pin, face, voice) ==
    << <<"[", name, "]">>,
       <<"key", "=", key>>,
       <<"gpio_pin", "=", pin>>,
       <<"gpio_mode", "=", "OUTPUT">>,
       <<"gpio_status", "=", "HIGH">>,
       <<"check_face_status", "=", face>>,
       <<"voice_set_status", "=", voice>>,
       <<>> >>

GdeviceIni ==
       IniSection("lock", "0x44", "7", "1", "1")
    \o IniSection("beep", "0x45", "9", "0", "1")
    \o IniSection("bdrLed", "0x42", "5", "0", "0")
    \o IniSection("livRmLed", "0x41", "2", "0", "0")
    \o IniSection("fan", "0x43", "8", "0", "0")

(* Lines as people write them, and every way the parser has to read one: a  *)
(* header, a header whose name is too long, pairs with : and spaces and a   *)
(* comment, an indented line, an empty name, a name too long, a line too    *)
(* long for the buffer, a comment, a blank, a header and a pair that end    *)
(* too early.                                                               *)
SomeLines ==
    { <<"[", "lock", "]">>,
      <<"[", "lock", "2", "]">>,
      <<"[", "fan", "]">>,
      <<"key", "=", "0x44">>,
      <<"gpio_pin", ":", "7", " ", ";">>,
      <<" ", "gpio_pin", "=", "9">>,
      <<" ", "2">>,
      <<"gpio_pin", "2", "=", "x", ";">>,
      <<"gpio_status", "=", "HIGH", " ", " ", "key", "=", "0x45">>,
      <<"=", "7">>,
      <<"BOM", " ", ";", "key", "=", "7">>,
      <<"[", "fan", " ", ";", "]">>,
      <<"voice_set_status", " ">> }

(* Sections that come back, are left empty or continue a value.            *)
SomeBlocks ==
    { << <<"[", "lock", "]">>, <<"key", "=", "0x44">> >>,
      << <<"[", "lock", "]">>, <<"gpio_pin", "=", "7">>,
         <<" ", "check_face_status", "=", "1">> >>,
      << <<"[", "fan", "]">>, <<"key", "=", "0x43">>,
         <<"gpio_mode", "=", "OUTPUT">> >>,
      << <<"[", "fan", "]">> >>,
      << <<"key", "=", "0x45">>, <<"key", "=", "OUTPUT">>,
         <<"voice_set_status", "=", "1">>, <<"voice_set_status", "=", "x">> >>,
      << <<"gpio_status", "=", "HIGH">>, <<" ", "LOW">> >> }

MCFiles ==
    {GdeviceIni}
    \cup UNION {[1 .. n -> SomeLines] : n \in 0 .. MaxLines}
    \cup {FlattenSeq(f) : f \in UNION {[1 .. n -> SomeBlocks] :
                                           n \in 1 .. MaxBlocks}}

MCLines == UNION {{f[i] : i \in DOMAIN f} : f \in {GdeviceIni} \cup SomeBlocks}
           \cup SomeLines
MCChar  == {Space} \cup UNION {{l[i] : i \in DOMAIN l} : l \in MCLines}

MCHexOf == [w \in {"0", "1", "2", "5", "7", "8", "9"} |->
               CASE w = "0" -> 0 [] w = "1" -> 1 [] w = "2" -> 2 [] w = "5" -> 5
                 [] w = "7" -> 7 [] w = "8" -> 8 [] w = "9" -> 9]
           @@ ("0x41" :> 65) @@ ("0x42" :> 66) @@ ("0x43" :> 67)
           @@ ("0x44" :> 68) @@ ("0x45" :> 69)
MCDecOf == [w \in DOMAIN MCHexOf |-> IF MCHexOf[w] > 9 THEN 0 ELSE MCHexOf[w]]

-----------------------------------------------------------------------------
Table == INSTANCE Gdevice WITH gdevices <- pdevhead

(* What the voice module and the network clients rely on: with              *)
(* ini/gdevice.ini each command key finds its device, with the pin, the     *)
(* face check and the announcement that the file gives it, and no device    *)
(* takes a key that a handler writes into the message buffer.               *)
IniFileServesCommands ==
    status = "parsed" /\ reads = Reads(GdeviceIni, MaxLine) =>
        /\ error = 0
        /\ pdevhead \in Seq(Device)
        /\ \A i \in DOMAIN pdevhead :
              pdevhead[i].key \notin {Table!KEY_IGNORED, Table!KEY_FACE_OK,
                                      Table!KEY_FACE_FAIL}
        /\ \A c \in {<<68, 7, 1, 1>>, <<69, 9, 0, 1>>, <<66, 5, 0, 0>>,
                     <<65, 2, 0, 0>>, <<67, 8, 0, 0>>} :
              LET i == Table!find_gdevice_by_key(c[1])
              IN  /\ i # Table!NULL
                  /\ pdevhead[i].gpio_pin = c[2]
                  /\ pdevhead[i].check_face_status = c[3]
                  /\ pdevhead[i].voice_set_status = c[4]
                  /\ pdevhead[i].gpio_status = Table!HIGH
==============================================================================
