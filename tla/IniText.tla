-------------------------------- MODULE IniText --------------------------------
(***************************************************************************)
(* The operations of src/src/ini.c on the characters of one line.  A text   *)
(* is a sequence of characters; a whole word counts as one character, since *)
(* only the characters below mean anything to the parser.                   *)
(***************************************************************************)
EXTENDS Integers, SequencesExt

Space == " "                  \* isspace(): blanks, tabs and the line end
StartComment  == {";", "#"}   \* ini_start_comment_prefixes
InlineComment == {";"}        \* ini_inline_comment_prefixes

Printed(s) == {i \in DOMAIN s : s[i] # Space}

rstrip(s) == SubSeq(s, 1, Max({0} \cup Printed(s)))

lskip(s) == SubSeq(s, Min({Len(s) + 1} \cup Printed(s)), Len(s))

(* The first position of s with one of chars or with a comment, which needs *)
(* a space before it; the position after the end when there is neither.     *)
find_chars_or_comment(s, chars) ==
    Min({i \in 1 .. Len(s) :
            \/ s[i] \in chars
            \/ s[i] \in InlineComment /\ i > 1 /\ s[i - 1] = Space}
           \cup {Len(s) + 1})

Before(s, i) == SubSeq(s, 1, i - 1)
After(s, i)  == SubSeq(s, i + 1, Len(s))

(* strncpy0 into a buffer of size characters.                              *)
strncpy0(s, size) == IF Len(s) < size THEN s ELSE SubSeq(s, 1, size - 1)

(* What fgets returns for one line, call by call, with a buffer of size    *)
(* characters: a longer line comes in pieces.                              *)
fgets(line, size) ==
    [i \in 1 .. Len(line) \div (size - 1) + 1 |->
        SubSeq(line, (i - 1) * (size - 1) + 1,
                     Min({Len(line), i * (size - 1)}))]

(* All calls of fgets on a file.                                           *)
Reads(file, size) ==
    FlattenSeq([i \in DOMAIN file |-> fgets(file[i], size)])
=============================================================================
