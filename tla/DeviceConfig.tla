----------------------------- MODULE DeviceConfig -----------------------------
(***************************************************************************)
(* How the device table comes to be: receive_init of                        *)
(* src/src/receive_interface.c lets ini_parse of src/src/ini.c read the     *)
(* configuration file line by line, and gdevice_ini_handler builds the list *)
(* pdevhead from the names and values it is called with.                    *)
(***************************************************************************)
EXTENDS IniText, Sequences

CONSTANTS
    Char,          \* characters (and words, see IniText)
    Files,         \* the contents the configuration file may have
    MaxLine,       \* ini_max_line: size of the line buffer
    MAX_SECTION,   \* size of the buffers of parse_stream for a section's
    MAX_NAME,      \*   and for a name's characters
    HexOf,         \* what sscanf "%x" reads, for the words that it can read
    DecOf          \* what sscanf "%d" and atoi read

ASSUME ConfigAssumption ==
    /\ Space \in Char
    /\ Files \subseteq Seq(Seq(Char))
    /\ MaxLine \in Nat /\ MaxLine > 1
    /\ MAX_SECTION \in Nat \ {0} /\ MAX_NAME \in Nat \ {0, 1}
    /\ \A w \in DOMAIN HexOf : HexOf[w] \in Nat
    /\ \A w \in DOMAIN DecOf : DecOf[w] \in Nat

VARIABLES
    reads,       \* what the calls of fgets on the file return, in order
    status,      \* where receive_init is
    lineno,      \* calls of fgets so far
    section,     \* the section the parser is in
    prev_name,   \* the name of the last pair in this section, or empty
    error,       \* the lineno of the first bad line, 0 while there is none
    pdevhead     \* the list of devices, head first

vars  == <<reads, status, lineno, section, prev_name, error, pdevhead>>

Device == [dev_name          : Seq(Char),
           key               : Nat,
           gpio_pin          : Nat,
           gpio_mode         : {0, 1},
           gpio_status       : {0, 1},
           check_face_status : Nat,
           voice_set_status  : Nat]

TypeOK ==
    /\ reads \in Seq(Seq(Char))
    /\ status \in {"closed", "reading", "parsed", "failed"}
    /\ lineno \in Nat
    /\ section \in Seq(Char)
    /\ prev_name \in Seq(Char)
    /\ error \in 0 .. lineno
    /\ pdevhead \in Seq(Device)

Init ==
    /\ \E file \in Files : reads = Reads(file, MaxLine)
    /\ status = "closed"
    /\ lineno = 0
    /\ section = <<>>
    /\ prev_name = <<>>
    /\ error = 0
    /\ pdevhead = <<>>

-----------------------------------------------------------------------------
(* gdevice_ini_handler.                                                     *)

(* malloc, memset to 0 and the name.                                        *)
NewDevice(name) ==
    [dev_name |-> name, key |-> 0, gpio_pin |-> 0, gpio_mode |-> 0,
     gpio_status |-> 0, check_face_status |-> 0, voice_set_status |-> 0]

(* sscanf leaves the field alone when it can read no number, atoi gives 0.  *)
sscanf(value, table, field) ==
    IF value # <<>> /\ value[1] \in DOMAIN table THEN table[value[1]] ELSE field

atoi(value) == sscanf(value, DecOf, 0)

(* The two words a field can be compared with.                              *)
OneOf(value, zero, one, field) ==
    IF value = <<one>> THEN 1 ELSE IF value = <<zero>> THEN 0 ELSE field

SetField(d, name, value) ==
    CASE name = <<"key">> ->
            [d EXCEPT !.key = sscanf(value, HexOf, @)]
      [] name = <<"gpio_pin">> ->
            [d EXCEPT !.gpio_pin = sscanf(value, DecOf, @)]
      [] name = <<"gpio_mode">> ->
            [d EXCEPT !.gpio_mode = OneOf(value, "INPUT", "OUTPUT", @)]
      [] name = <<"gpio_status">> ->
            [d EXCEPT !.gpio_status = OneOf(value, "LOW", "HIGH", @)]
      [] name = <<"check_face_status">> ->
            [d EXCEPT !.check_face_status = atoi(value)]
      [] name = <<"voice_set_status">> ->
            [d EXCEPT !.voice_set_status = atoi(value)]
      [] OTHER -> d

(* Mutant: only the first section gets a node.                              *)
WithNode_FirstOnly(devs, sec) ==
    IF devs = <<>> THEN <<NewDevice(sec)>> ELSE devs

(* The list with a node for the section in front: only the name of the head *)
(* is compared, so a section that comes a second time later on gets a       *)
(* second node.                                                             *)
WithNode(devs, sec) ==
    IF devs = <<>> \/ Head(devs).dev_name # sec
    THEN <<NewDevice(sec)>> \o devs ELSE devs

gdevice_ini_handler(sec, name, value) ==
    LET devs == WithNode(pdevhead, sec)
    IN  pdevhead' = [devs EXCEPT ![1] = SetField(@, name, value)]

-----------------------------------------------------------------------------
(* ini_parse_stream, one turn of its loop per action.                       *)

(* A byte order mark before the first line is skipped.                      *)
WithoutBOM(k) ==
    IF k = 1 /\ reads[k] # <<>> /\ Head(reads[k]) = "BOM"
    THEN Tail(reads[k]) ELSE reads[k]

Start(k) == lskip(rstrip(WithoutBOM(k)))

Indented(k) == reads[k] # <<>> /\ Head(reads[k]) = Space

(* The branches of the loop in their order; a bad line is one whose closing *)
(* bracket, or whose = or :, is missing.                                    *)
IsComment(k)      == Start(k) # <<>> => Head(Start(k)) \in StartComment
MayContinue(k)    == ~IsComment(k) /\ Indented(k)
IsHeader(k)       == ~IsComment(k) /\ Head(Start(k)) = "["
HeaderEnd(k)      == find_chars_or_comment(Tail(Start(k)), {"]"})
NameEnd(k)        == find_chars_or_comment(Start(k), {"=", ":"})
IsSectionLine(k)  == IsHeader(k) /\ HeaderEnd(k) <= Len(Tail(Start(k)))
                     /\ Tail(Start(k))[HeaderEnd(k)] = "]"
IsPairLine(k)     == ~IsComment(k) /\ ~IsHeader(k)
                     /\ NameEnd(k) <= Len(Start(k))
                     /\ Start(k)[NameEnd(k)] \in {"=", ":"}

SectionOf(k) == strncpy0(Before(Tail(Start(k)), HeaderEnd(k)), MAX_SECTION)
NameOf(k)    == rstrip(Before(Start(k), NameEnd(k)))
ValueOf(k)   ==
    LET rest == After(Start(k), NameEnd(k))
    IN  rstrip(lskip(Before(rest, find_chars_or_comment(rest, {}))))

Open ==
    /\ status = "closed"
    /\ status' = "reading"
    /\ UNCHANGED <<reads, lineno, section, prev_name, error, pdevhead>>

(* fopen fails: ini_parse returns -1 and receive_init gives up, the list    *)
(* stays empty.                                                             *)
OpenFails ==
    /\ status = "closed"
    /\ status' = "failed"
    /\ UNCHANGED <<reads, lineno, section, prev_name, error, pdevhead>>

ReadPiece ==
    /\ status = "reading"
    /\ lineno < Len(reads)
    /\ lineno' = lineno + 1
    /\ UNCHANGED <<reads, status>>

Comment ==
    /\ ReadPiece
    /\ IsComment(lineno')
    /\ UNCHANGED <<section, prev_name, error, pdevhead>>

(* A line with space before it continues the value of the last name.        *)
Continuation ==
    /\ ReadPiece
    /\ MayContinue(lineno') /\ prev_name # <<>>
    /\ gdevice_ini_handler(section, prev_name, Start(lineno'))
    /\ UNCHANGED <<section, prev_name, error>>

NotContinued(k) == ~(MayContinue(k) /\ prev_name # <<>>)

(* Mutant: the name of the last pair survives the new section.              *)
Section_KeepName ==
    /\ ReadPiece
    /\ NotContinued(lineno') /\ IsSectionLine(lineno')
    /\ section' = SectionOf(lineno')
    /\ UNCHANGED <<prev_name, error, pdevhead>>

Section ==
    /\ ReadPiece
    /\ NotContinued(lineno') /\ IsSectionLine(lineno')
    /\ section' = SectionOf(lineno')
    /\ prev_name' = <<>>
    /\ UNCHANGED <<error, pdevhead>>

Pair ==
    /\ ReadPiece
    /\ NotContinued(lineno') /\ IsPairLine(lineno')
    /\ prev_name' = strncpy0(NameOf(lineno'), MAX_NAME)
    /\ gdevice_ini_handler(section, NameOf(lineno'), ValueOf(lineno'))
    /\ UNCHANGED <<section, error>>

(* Mutant: the number of the last bad line.                                 *)
BadLine_Last ==
    /\ ReadPiece
    /\ NotContinued(lineno') /\ ~IsComment(lineno')
    /\ ~IsSectionLine(lineno') /\ ~IsPairLine(lineno')
    /\ error' = lineno'
    /\ UNCHANGED <<section, prev_name, pdevhead>>

(* A section without its bracket or a pair without its sign: the first is   *)
(* remembered, and parsing goes on in the old section.                      *)
BadLine ==
    /\ ReadPiece
    /\ NotContinued(lineno') /\ ~IsComment(lineno')
    /\ ~IsSectionLine(lineno') /\ ~IsPairLine(lineno')
    /\ error' = IF error = 0 THEN lineno' ELSE error
    /\ UNCHANGED <<section, prev_name, pdevhead>>

(* The end of the file.  receive_init looks only for a negative result, so  *)
(* the list is used whatever error says.                                    *)
EndOfFile ==
    /\ status = "reading"
    /\ lineno = Len(reads)
    /\ status' = "parsed"
    /\ UNCHANGED <<reads, lineno, section, prev_name, error, pdevhead>>

Next ==
    \/ Open \/ OpenFails
    \/ Comment \/ Continuation \/ Section \/ Pair \/ BadLine
    \/ EndOfFile

Spec == Init /\ [][Next]_vars
===============================================================================
