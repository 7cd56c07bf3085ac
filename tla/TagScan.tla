------------------------------- MODULE TagScan -------------------------------
(***************************************************************************)
(* GetFanucJsonData: one scan of a device after the other, tag by tag of   *)
(* its tags_pack, with the errors that the library reports on the way, and *)
(* the record that a scan ends with.                                       *)
(*                                                                         *)
(* A value is not modelled, only whether the record has one for the tag.   *)
(* protocol_error is a variable of DataCollector that outlives the scan;   *)
(* Collector models what its loop does with it.                            *)
(*                                                                         *)
(* ClearNothing and the like, which no action uses, are faulty variants of *)
(* the definition below them that the properties are tried against.        *)
(***************************************************************************)
EXTENDS Integers, SequencesExt

CONSTANTS Known,    \* tags that the switch has a case for
          Other,    \* tags that it has none for, such as "name"
          Errors,   \* the tag "errors"
          Missing,  \* the record has no such entry
          MaxPack   \* bound: the length of a tags_pack

ASSUME TagScanAssumption ==
    /\ Errors \notin Known
    /\ Missing \notin Int
    /\ MaxPack \in Nat

VARIABLES pack,     \* device.TagsPack, in which a tag may stand twice
          place,    \* where GetFanucJsonData stands
          pos,      \* the loop variable
          tag_map,  \* the tags the record has a value for so far
          errors,   \* the last code per tag
          protocol_error,
          calls,    \* history: the calls of this scan with the codes they returned
          record    \* the record printed last

vars == <<pack, place, pos, tag_map, errors, protocol_error, calls, record>>

Tags == Known \union Other \union {Errors}

\* Codes of the library: EW_OK, an error of the tag alone, EW_HANDLE, EW_SOCKET.
ProtocolCodes == {-8, -16}
Codes == {0, 1} \union ProtocolCodes

NoTags == [t \in {} |-> 0]

Init ==
    /\ pack \in BoundedSeq(Tags, MaxPack)
    /\ place = "idle"
    /\ pos = 1
    /\ tag_map = {}
    /\ errors = NoTags
    /\ protocol_error = FALSE
    /\ calls = <<>>
    /\ record = [power_on |-> 0, tags |-> {}, codes |-> Missing]

\* GetPowerOffData, before and after a session.
PowerOff ==
    /\ place = "idle"
    /\ record' = [power_on |-> 0, tags |-> {}, codes |-> Missing]
    /\ UNCHANGED <<pack, place, pos, tag_map, errors, protocol_error, calls>>

BeginKeepsFlag ==
    /\ place = "idle"
    /\ place' = "scan"
    /\ pos' = 1
    /\ tag_map' = {}
    /\ errors' = NoTags
    /\ calls' = <<>>
    /\ UNCHANGED <<pack, record, protocol_error>>

Begin ==
    /\ place = "idle"
    /\ place' = "scan"
    /\ pos' = 1
    /\ tag_map' = {}
    /\ errors' = NoTags
    /\ protocol_error' = FALSE
    /\ calls' = <<>>
    /\ UNCHANGED <<pack, record>>

\* A protocol error breaks the loop, any other code does not.
Break(code) ==
    IF code \in ProtocolCodes
    THEN protocol_error' = TRUE /\ place' = "clear" /\ UNCHANGED pos
    ELSE pos' = pos + 1 /\ UNCHANGED <<protocol_error, place>>

\* A getter of fanuc.go makes its call and returns a value and 0, or the zero
\* value and the code: either way the tag is in the map.
Get(tag, code) ==
    /\ tag_map' = tag_map \union {tag}
    /\ errors' = [t \in DOMAIN errors \union {tag} |-> IF t = tag THEN code ELSE errors[t]]
    /\ calls' = Append(calls, [tag |-> tag, code |-> code])

ReadTag ==
    /\ place = "scan"
    /\ pos <= Len(pack)
    /\ \/ /\ pack[pos] \in Known
          /\ \E code \in Codes : Get(pack[pos], code) /\ Break(code)
       \/ /\ pack[pos] \notin Known
          /\ pos' = pos + 1
          /\ UNCHANGED <<place, tag_map, errors, protocol_error, calls>>
    /\ UNCHANGED <<pack, record>>

EndOfPackEarly ==
    /\ place = "scan"
    /\ pos >= Len(pack)
    /\ place' = "clear"
    /\ UNCHANGED <<pack, pos, tag_map, errors, protocol_error, calls, record>>

EndOfPack ==
    /\ place = "scan"
    /\ pos > Len(pack)
    /\ place' = "clear"
    /\ UNCHANGED <<pack, pos, tag_map, errors, protocol_error, calls, record>>

ClearNothing ==
    /\ place = "clear"
    /\ place' = "output"
    /\ UNCHANGED <<pack, pos, tag_map, errors, protocol_error, calls, record>>

\* The tags whose last code is an error lose their value.
ClearErrors ==
    /\ place = "clear"
    /\ place' = "output"
    /\ tag_map' = tag_map \ {t \in DOMAIN errors : errors[t] # 0}
    /\ UNCHANGED <<pack, pos, errors, protocol_error, calls, record>>

\* The record is "{}" when it cannot be marshalled, as with a float64 that is infinite:
\* then it has not even the tag power_on.
Output ==
    /\ place = "output"
    /\ place' = "idle"
    /\ \/ record' = [power_on |-> 1,
                     tags     |-> tag_map,
                     codes    |-> IF Contains(pack, Errors) THEN errors ELSE Missing]
       \/ /\ tag_map # {}
          /\ record' = [power_on |-> Missing, tags |-> {}, codes |-> Missing]
    /\ UNCHANGED <<pack, pos, tag_map, errors, protocol_error, calls>>

Next == PowerOff \/ Begin \/ ReadTag \/ EndOfPack \/ ClearErrors \/ Output

Spec == Init /\ [][Next]_vars

-----------------------------------------------------------------------------
(* Correctness.                                                            *)

\* Which call of this scan was the last one for a tag, 0 if there was none.
LastCall(tag) == SelectLastInSeq(calls, LAMBDA c : c.tag = tag)
Answered(tag) == LastCall(tag) # 0 /\ calls[LastCall(tag)].code = 0
Called == {t \in Known : LastCall(t) # 0}
LastCodes == [t \in Called |-> calls[LastCall(t)].code]

\* A record of a scan has a value for a tag exactly when the library's last
\* answer for it in that very scan was good, also for a tag that stands twice in
\* the pack; and the codes it carries are the last ones of every tag that this
\* scan has called for.
RecordIsHonest ==
    [][record' # record /\ record'.power_on = 1
          => /\ record'.tags = {t \in Known : Answered(t)}
             /\ record'.codes # Missing => record'.codes = LastCodes]_vars

\* What DataCollector counts as a failed attempt is what happened in the scan
\* that has just ended: its last call, and no earlier one, broke the protocol.
FlagIsFresh ==
    /\ place \in {"clear", "output"}
          => (protocol_error <=> calls # <<>> /\ Last(calls).code \in ProtocolCodes)
    /\ \A i \in 1 .. Len(calls) - 1 : calls[i].code \notin ProtocolCodes

\* How many of the first i tags of the pack have a getter.
KnownUpTo(i) == Cardinality({j \in 1 .. i : pack[j] \in Known})

\* A scan that the protocol did not break has asked for every known tag of the
\* pack and for nothing else, in its order: the n-th call was for the n-th of them.
ScanIsComplete ==
    place \in {"clear", "output"} /\ ~protocol_error
        => /\ Len(calls) = KnownUpTo(Len(pack))
           /\ \A i \in DOMAIN pack :
                 pack[i] \in Known => calls[KnownUpTo(i)].tag = pack[i]
=============================================================================
