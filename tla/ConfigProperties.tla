---------------------------- MODULE ConfigProperties ----------------------------
(***************************************************************************)
(* What the lines of a configuration file mean, defined without a parser,   *)
(* and that the list of devices is what they mean.                          *)
(***************************************************************************)
EXTENDS DeviceConfig, FiniteSets

-----------------------------------------------------------------------------
(* What the sizes of the buffers do: the characters that fgets returns are  *)
(* those of the file, in as many calls as it takes, and what is copied      *)
(* into the line, the section and the name has room for its final 0.        *)
TextIsRead ==
    /\ \E file \in Files : FlattenSeq(reads) = FlattenSeq(file)
    /\ \A k \in DOMAIN reads : Len(reads[k]) < MaxLine
    /\ Len(section) < MAX_SECTION
    /\ Len(prev_name) < MAX_NAME

-----------------------------------------------------------------------------
(* A reference definition of the list, by what the lines of a file mean,    *)
(* with no state.                                                           *)

(* A name is in force at line k: some pair before gave one, and no line in  *)
(* between ended it, by a new section or by an empty name, at its margin.   *)
EndsName(i) == ~Indented(i) /\ (\/ IsSectionLine(i)
                                \/ IsPairLine(i) /\ NameOf(i) = <<>>)
Named(k) ==
    \E j \in 1 .. k - 1 : /\ IsPairLine(j) /\ NameOf(j) # <<>>
                          /\ \A i \in j + 1 .. k - 1 : ~EndsName(i)

Continues(k)  == MayContinue(k) /\ Named(k)
NewSection(k) == IsSectionLine(k) /\ ~Continues(k)
NewPair(k)    == IsPairLine(k) /\ ~Continues(k)
Bad(k)        == ~(IsComment(k) \/ Continues(k) \/ NewSection(k) \/ NewPair(k))

LastOf(S) == CHOOSE k \in S : \A j \in S : j <= k

SectionAt(k) ==
    LET S == {j \in 1 .. k : NewSection(j)}
    IN  IF S = {} THEN <<>> ELSE SectionOf(LastOf(S))

NameSaid(k) ==
    IF NewPair(k) THEN NameOf(k)
    ELSE strncpy0(NameOf(LastOf({j \in 1 .. k : NewPair(j)})), MAX_NAME)

ValueSaid(k) == IF NewPair(k) THEN ValueOf(k) ELSE Start(k)

(* The lines that say something about a device; those among them that are   *)
(* the first after a change of section, each of which makes a device; and   *)
(* the lines about that device.                                             *)
Statements == {k \in 1 .. lineno : NewPair(k) \/ Continues(k)}

FirstsOf(statements) ==
    {k \in statements :
        LET before == {j \in statements : j < k}
        IN  before # {} => SectionAt(LastOf(before)) # SectionAt(k)}

About(first, firsts, statements) ==
    {k \in statements : k >= first /\ ~\E f \in firsts : first < f /\ f <= k}

Said(lines, name) == {k \in lines : NameSaid(k) = name}

Number(lines, name, table) ==
    LET S == {k \in Said(lines, name) : /\ ValueSaid(k) # <<>>
                                       /\ ValueSaid(k)[1] \in DOMAIN table}
    IN  IF S = {} THEN 0 ELSE table[ValueSaid(LastOf(S))[1]]

Word(lines, name, zero, one) ==
    LET S == {k \in Said(lines, name) : ValueSaid(k) \in {<<zero>>, <<one>>}}
    IN  IF S # {} /\ ValueSaid(LastOf(S)) = <<one>> THEN 1 ELSE 0

Flag(lines, name) ==
    LET S == Said(lines, name)
    IN  IF S = {} THEN 0 ELSE atoi(ValueSaid(LastOf(S)))

DeviceFrom(first, lines) ==
    [dev_name    |-> SectionAt(first),
     key         |-> Number(lines, <<"key">>, HexOf),
     gpio_pin    |-> Number(lines, <<"gpio_pin">>, DecOf),
     gpio_mode   |-> Word(lines, <<"gpio_mode">>, "INPUT", "OUTPUT"),
     gpio_status |-> Word(lines, <<"gpio_status">>, "LOW", "HIGH"),
     check_face_status |-> Flag(lines, <<"check_face_status">>),
     voice_set_status  |-> Flag(lines, <<"voice_set_status">>)]

(* The list: one device per run of lines of one section, the last in front, *)
(* each field from the last line of the run that gives it a value.  A name  *)
(* of a section that comes back, an indented line, a line too long for the  *)
(* buffer or a name too long for its own are all read as that says, and a   *)
(* bad line changes nothing.  Holds after every line, not only at the end.  *)
ListIsReference ==
    LET statements == Statements
        firsts     == FirstsOf(statements)
        n          == Cardinality(firsts)
        Nth(i)     == CHOOSE f \in firsts :
                          Cardinality({g \in firsts : g >= f}) = i
    IN  pdevhead = [i \in 1 .. n |->
            DeviceFrom(Nth(i), About(Nth(i), firsts, statements))]

(* The number that ini_parse returns is the first bad line: one that is     *)
(* neither a comment, a section, a pair nor the continuation of a value.    *)
(* receive_init does not look at it.                                        *)
ErrorIsFirstBadLine ==
    LET bad == {k \in 1 .. lineno : Bad(k)}
    IN  error = IF bad = {} THEN 0 ELSE CHOOSE k \in bad : \A j \in bad : k <= j
=================================================================================
