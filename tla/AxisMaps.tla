------------------------------ MODULE AxisMaps ------------------------------
(***************************************************************************)
(* The getters that return one value per axis or per spindle               *)
(* (GetAbsolutePositions ... GetSpindleLoad): what they make of the buffer *)
(* the library fills.                                                      *)
(*                                                                         *)
(* A buffer is a sequence of elements; name is the sequence of the         *)
(* characters of an element, Nul where it ends or where the library wrote  *)
(* nothing, data and dec are its value, flag its flags.  The library fills *)
(* as many elements as there are axes; the others are Unused.  Numbers are *)
(* counted in units of 1 / Unit, as in AddressSpace.                       *)
(*                                                                         *)
(* UntilUnused, which nothing uses, is a faulty variant of the definition  *)
(* below it that a property is tried against.                              *)
(***************************************************************************)
EXTENDS Integers, SequencesExt

CONSTANTS Unit, \* a multiple of every 10^dec
          Nul   \* the character 0

\* make(): what the library has not filled is zero.
Unused == [name |-> <<Nul, Nul, Nul>>, data |-> 0, dec |-> 0, flag |-> 0]

\* Tags of the getters that take the axis from the one character of POSELM or LOADELM,
\* from two characters of LOADELM, and from the string of ODBAXDT.
LetterTags == {"absolute_positions", "machine_positions", "relative_positions", "servo_loads"}
PairTags   == {"spindle_motor_speed", "spindle_load"}
StringTags == {"feedrate_prg", "feedrate_note", "jog_speed", "current_load",
               "current_load_percent", "spindle_param_speed"}
AxisTags   == LetterTags \union PairTags \union StringTags

\* The getters that return float64 honour the decimals; those that return int64
\* take the data as they are.
ScaledTags == {"absolute_positions", "machine_positions", "relative_positions",
               "feedrate_prg", "feedrate_note", "jog_speed", "current_load"}

\* The name as the CNC has it: up to the first Nul.
FullName(el) ==
    LET ends == {i \in DOMAIN el.name : el.name[i] = Nul}
    IN IF ends = {} THEN el.name ELSE SubSeq(el.name, 1, Min(ends) - 1)

\* The key the getter makes of it.
NameOf(tag, el) ==
    CASE tag \in LetterTags -> SubSeq(el.name, 1, 1)
      [] tag \in PairTags   -> SubSeq(el.name, 1, 2)
      [] OTHER              -> FullName(el)

\* The loop passes over elements without a name; GetJogSpeed also over those with bit 1 set.
Taken(tag, el) ==
    /\ NameOf(tag, el) # <<>> /\ ~Contains(NameOf(tag, el), Nul)
    /\ tag = "jog_speed" => (el.flag \div 2) % 2 = 0

ValueOf(tag, el) ==
    IF tag \in ScaledTags THEN el.data * (Unit \div 10 ^ el.dec) ELSE el.data * Unit

UntilUnused(tag, buf) ==
    LET taken == {i \in DOMAIN buf : \A j \in 1 .. i : Taken(tag, buf[j])}
        last(name) == Max({i \in taken : NameOf(tag, buf[i]) = name})
    IN [name \in {NameOf(tag, buf[i]) : i \in taken} |-> ValueOf(tag, buf[last(name)])]

\* Of two elements with the same key the later one stays in the map.
MapOf(tag, buf) ==
    LET taken == {i \in DOMAIN buf : Taken(tag, buf[i])}
        last(name) == Max({i \in taken : NameOf(tag, buf[i]) = name})
    IN [name \in {NameOf(tag, buf[i]) : i \in taken} |-> ValueOf(tag, buf[last(name)])]
=============================================================================
