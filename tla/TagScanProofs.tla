--------------------------- MODULE TagScanProofs ---------------------------
(***************************************************************************)
(* Proofs about the tag scan, for any sets of tags and packs of any length.*)
(***************************************************************************)
EXTENDS TagScan, FiniteSetTheorems, TLAPS

CallType == [tag : Known, code : Codes]

\* While the loop runs, no call of this scan has broken the protocol.
ScanInv ==
    /\ calls \in Seq(CallType)
    /\ protocol_error \in BOOLEAN
    /\ place = "scan" => /\ ~protocol_error
                         /\ \A i \in 1 .. Len(calls) : calls[i].code \notin ProtocolCodes
    /\ FlagIsFresh

LEMMA NothingCalled ==
    ASSUME calls = <<>>
    PROVE  /\ calls \in Seq(CallType)
           /\ \A i \in 1 .. Len(calls) : calls[i].code \notin ProtocolCodes
           /\ \A i \in 1 .. Len(calls) - 1 : calls[i].code \notin ProtocolCodes
OBVIOUS

LEMMA ScanInvInit == Init => ScanInv
BY NothingCalled DEF Init, ScanInv, FlagIsFresh

\* The only step that adds to the calls, and the only one that raises the flag.
LEMMA ReadTagKeeps == ScanInv /\ ReadTag => ScanInv'
<1> SUFFICES ASSUME ScanInv, ReadTag PROVE ScanInv'
  OBVIOUS
<1>1. CASE /\ pack[pos] \notin Known
           /\ UNCHANGED <<place, calls, protocol_error>>
  BY <1>1 DEF ScanInv, FlagIsFresh
<1>2. ASSUME NEW tag \in Known, NEW code \in Codes, Get(tag, code), Break(code)
      PROVE  ScanInv'
  <2> DEFINE call == [tag |-> tag, code |-> code]
  <2>1. /\ call \in CallType
        /\ call.code = code
    BY <1>2 DEF CallType
  <2>2. /\ calls' = Append(calls, call)
        /\ calls \in Seq(CallType)
        /\ place = "scan"
        /\ ~protocol_error
        /\ \A i \in 1 .. Len(calls) : calls[i].code \notin ProtocolCodes
    BY <1>2 DEF Get, ScanInv, ReadTag
  <2> HIDE DEF call
  <2>3. /\ calls' \in Seq(CallType)
        /\ Len(calls') = Len(calls) + 1
        /\ calls'[Len(calls')] = call
        /\ \A i \in 1 .. Len(calls) : calls'[i] = calls[i]
    BY <2>1, <2>2
  <2>4. \A i \in 1 .. Len(calls') - 1 : calls'[i].code \notin ProtocolCodes
    BY <2>2, <2>3
  <2>5. calls' # <<>> /\ Last(calls') = call
    BY <2>3 DEF Last
  <2>6. CASE code \in ProtocolCodes
    <3>1. protocol_error' = TRUE /\ place' = "clear"
      BY <1>2, <2>6 DEF Break
    <3> QED
      BY <2>1, <2>3, <2>4, <2>5, <2>6, <3>1 DEF ScanInv, FlagIsFresh
  <2>7. CASE code \notin ProtocolCodes
    <3>1. protocol_error' = protocol_error /\ place' = place
      BY <1>2, <2>7 DEF Break
    <3>2. \A i \in 1 .. Len(calls') : calls'[i].code \notin ProtocolCodes
      BY <2>1, <2>2, <2>3, <2>4, <2>7
    <3> QED
      BY <2>2, <2>3, <2>4, <3>1, <3>2 DEF ScanInv, FlagIsFresh
  <2> QED
    BY <2>6, <2>7
<1> QED
  BY <1>1, <1>2 DEF ReadTag

LEMMA ScanInvNext == ScanInv /\ [Next]_vars => ScanInv'
<1> SUFFICES ASSUME ScanInv, [Next]_vars PROVE ScanInv'
  OBVIOUS
<1>1. CASE PowerOff
  BY <1>1 DEF PowerOff, ScanInv, FlagIsFresh
<1>2. CASE Begin
  <2>1. calls' = <<>> /\ protocol_error' = FALSE /\ place' = "scan"
    BY <1>2 DEF Begin
  <2>2. /\ calls' \in Seq(CallType)
        /\ \A i \in 1 .. Len(calls') : calls'[i].code \notin ProtocolCodes
        /\ \A i \in 1 .. Len(calls') - 1 : calls'[i].code \notin ProtocolCodes
    BY <2>1
  <2> QED
    BY <2>1, <2>2 DEF ScanInv, FlagIsFresh
<1>3. CASE ReadTag
  BY <1>3, ReadTagKeeps
<1>4. CASE EndOfPack
  <2>1. /\ UNCHANGED <<protocol_error, calls>>
        /\ place' = "clear" /\ place = "scan"
    BY <1>4 DEF EndOfPack
  <2>2. calls # <<>> => Len(calls) \in 1 .. Len(calls)
    BY DEF ScanInv
  <2>3. ~(calls # <<>> /\ Last(calls).code \in ProtocolCodes)
    BY <2>1, <2>2 DEF ScanInv, Last
  <2> QED
    BY <2>1, <2>3 DEF ScanInv, FlagIsFresh
<1>5. CASE ClearErrors
  BY <1>5 DEF ClearErrors, ScanInv, FlagIsFresh
<1>6. CASE Output
  BY <1>6 DEF Output, ScanInv, FlagIsFresh
<1>7. CASE UNCHANGED vars
  BY <1>7 DEF vars, ScanInv, FlagIsFresh
<1> QED
  BY <1>1, <1>2, <1>3, <1>4, <1>5, <1>6, <1>7 DEF Next

\* Whatever the pack, a scan that counts as a failed attempt is one whose last call,
\* and no earlier one, broke the protocol.
THEOREM FlagAlwaysFresh == Spec => []FlagIsFresh
<1>1. ScanInv => FlagIsFresh
  BY DEF ScanInv
<1> QED
  BY <1>1, ScanInvInit, ScanInvNext, PTL DEF Spec

-----------------------------------------------------------------------------
(* What a scan asks for.                                                   *)

\* The counter of known tags, one position at a time.
LEMMA KnownStep ==
    ASSUME NEW i \in Nat
    PROVE  /\ KnownUpTo(i) \in Nat /\ KnownUpTo(0) = 0
           /\ KnownUpTo(i + 1) = KnownUpTo(i) + (IF pack[i + 1] \in Known THEN 1 ELSE 0)
<1> DEFINE S(k) == {j \in 1 .. k : pack[j] \in Known}
<1>1. IsFiniteSet(1 .. i)
  BY FS_Interval
<1>2. IsFiniteSet(S(i))
  BY <1>1, FS_Subset
<1>3. Cardinality(S(i)) \in Nat
  BY <1>2, FS_CardinalityType
<1>4. S(0) = {}
  OBVIOUS
<1>5. CASE pack[i + 1] \in Known
  <2>1. S(i + 1) = S(i) \union {i + 1} /\ i + 1 \notin S(i)
    BY <1>5
  <2>2. Cardinality(S(i) \union {i + 1}) = Cardinality(S(i)) + 1
    BY <1>2, <2>1, FS_AddElement
  <2> QED
    BY <1>3, <1>4, <1>5, <2>1, <2>2, FS_EmptySet DEF KnownUpTo
<1>6. CASE pack[i + 1] \notin Known
  <2>1. S(i + 1) = S(i)
    BY <1>6
  <2> QED
    BY <1>3, <1>4, <1>6, <2>1, FS_EmptySet DEF KnownUpTo
<1> QED
  BY <1>5, <1>6

\* What holds when the loop has come to position p: the calls so far are for the
\* known tags before p.
AskedUpTo(p) ==
    /\ Len(calls) = KnownUpTo(p - 1)
    /\ \A i \in 1 .. p - 1 :
          pack[i] \in Known => /\ KnownUpTo(i) \in 1 .. Len(calls)
                               /\ calls[KnownUpTo(i)].tag = pack[i]

AskInv ==
    /\ pack \in Seq(Tags)
    /\ calls \in Seq(CallType)
    /\ place = "scan" => pos \in 1 .. Len(pack) + 1 /\ ~protocol_error /\ AskedUpTo(pos)
    /\ place \in {"clear", "output"} /\ ~protocol_error => AskedUpTo(Len(pack) + 1)

LEMMA AskInit == Init => AskInv
<1> SUFFICES ASSUME Init PROVE AskInv
  OBVIOUS
<1>1. pack \in Seq(Tags)
  <2>1. PICK m \in 0 .. MaxPack : pack \in [1 .. m -> Tags]
    BY DEF Init, BoundedSeq, SeqOf
  <2> QED
    BY <2>1, TagScanAssumption
<1> QED
  BY <1>1 DEF Init, AskInv

\* The step of the loop that makes a call or passes over a tag without a getter.
LEMMA AskTag == AskInv /\ ReadTag => AskInv'
<1> SUFFICES ASSUME AskInv, ReadTag PROVE AskInv'
  OBVIOUS
<1>1. /\ place = "scan" /\ pos \in 1 .. Len(pack) /\ UNCHANGED pack
      /\ pack \in Seq(Tags) /\ calls \in Seq(CallType) /\ ~protocol_error
      /\ AskedUpTo(pos) /\ pos - 1 \in Nat /\ (pos - 1) + 1 = pos
  BY DEF AskInv, ReadTag
<1>2. /\ KnownUpTo(pos - 1) \in Nat
      /\ KnownUpTo(pos) = KnownUpTo(pos - 1) + (IF pack[pos] \in Known THEN 1 ELSE 0)
  BY <1>1, KnownStep
<1>3. \A i \in Nat : KnownUpTo(i)' = KnownUpTo(i)
  BY <1>1 DEF KnownUpTo
<1>4. CASE /\ pack[pos] \notin Known
           /\ pos' = pos + 1 /\ UNCHANGED <<place, calls, protocol_error>>
  <2>1. \A i \in 1 .. pos : i = pos \/ i \in 1 .. pos - 1
    BY <1>1
  <2>2. pos' - 1 = pos
    BY <1>1, <1>4
  <2>3. AskedUpTo(pos)'
    BY <1>1, <1>2, <1>3, <1>4, <2>1, <2>2 DEF AskedUpTo
  <2> QED
    BY <1>1, <1>4, <2>3 DEF AskInv
<1>5. ASSUME pack[pos] \in Known, NEW code \in Codes, Get(pack[pos], code), Break(code)
      PROVE  AskInv'
  <2> DEFINE call == [tag |-> pack[pos], code |-> code]
  <2>1. calls' = Append(calls, call) /\ call \in CallType /\ call.tag = pack[pos]
    BY <1>5 DEF Get, CallType
  <2> HIDE DEF call
  <2>2. /\ calls' \in Seq(CallType) /\ Len(calls') = Len(calls) + 1
        /\ calls'[Len(calls) + 1] = call
        /\ \A i \in 1 .. Len(calls) : calls'[i] = calls[i]
    BY <1>1, <2>1
  <2>3. Len(calls') = KnownUpTo(pos)
    BY <1>1, <1>2, <1>5, <2>2 DEF AskedUpTo
  <2>4. ASSUME NEW i \in 1 .. pos, pack[i] \in Known
        PROVE  KnownUpTo(i) \in 1 .. Len(calls') /\ calls'[KnownUpTo(i)].tag = pack[i]
    <3>1. CASE i = pos
      BY <1>1, <1>2, <1>5, <2>1, <2>2, <2>3, <3>1
    <3>2. CASE i # pos
      <4>1. i \in 1 .. pos - 1
        BY <1>1, <3>2
      <4>2. KnownUpTo(i) \in 1 .. Len(calls) /\ calls[KnownUpTo(i)].tag = pack[i]
        BY <1>1, <2>4, <4>1 DEF AskedUpTo
      <4> QED
        BY <1>1, <2>2, <4>2
    <3> QED
      BY <3>1, <3>2
  <2>5. CASE code \in ProtocolCodes
    <3>1. protocol_error' = TRUE /\ place' = "clear"
      BY <1>5, <2>5 DEF Break
    <3> QED
      BY <1>1, <2>2, <3>1 DEF AskInv
  <2>6. CASE code \notin ProtocolCodes
    <3>1. pos' = pos + 1 /\ UNCHANGED <<protocol_error, place>> /\ pos' - 1 = pos
      BY <1>1, <1>5, <2>6 DEF Break
    <3>2. AskedUpTo(pos)'
      BY <1>1, <1>3, <2>3, <2>4, <3>1 DEF AskedUpTo
    <3> QED
      BY <1>1, <2>2, <3>1, <3>2 DEF AskInv
  <2> QED
    BY <2>5, <2>6
<1> QED
  BY <1>1, <1>4, <1>5 DEF ReadTag

LEMMA AskNext == AskInv /\ [Next]_vars => AskInv'
<1> SUFFICES ASSUME AskInv, [Next]_vars PROVE AskInv'
  OBVIOUS
<1>1. ASSUME UNCHANGED <<pack, calls>> PROVE \A p : AskedUpTo(p)' = AskedUpTo(p)
  BY <1>1 DEF AskedUpTo, KnownUpTo
<1>2. CASE PowerOff
  BY <1>1, <1>2 DEF PowerOff, AskInv
<1>3. CASE Begin
  <2>1. calls' = <<>> /\ protocol_error' = FALSE /\ place' = "scan" /\ pos' = 1 /\ UNCHANGED pack
    BY <1>3 DEF Begin
  <2>2. KnownUpTo(0)' = 0
    BY <2>1, KnownStep DEF KnownUpTo
  <2>3. AskedUpTo(1)'
    BY <2>1, <2>2 DEF AskedUpTo
  <2> QED
    BY <2>1, <2>3 DEF AskInv
<1>4. CASE EndOfPack
  <2>1. pos = Len(pack) + 1
    BY <1>4 DEF EndOfPack, AskInv
  <2> QED
    BY <1>1, <1>4, <2>1 DEF EndOfPack, AskInv
<1>5. CASE ClearErrors
  BY <1>1, <1>5 DEF ClearErrors, AskInv
<1>6. CASE Output
  BY <1>1, <1>6 DEF Output, AskInv
<1>7. CASE UNCHANGED vars
  BY <1>1, <1>7 DEF vars, AskInv
<1> QED
  BY <1>2, <1>3, <1>4, <1>5, <1>6, <1>7, AskTag DEF Next

\* A scan that the protocol did not break has asked for every known tag of the pack,
\* in its order, for packs of any length.
THEOREM ScanAsksForAll == Spec => []ScanIsComplete
<1>1. AskInv => ScanIsComplete
  <2> SUFFICES ASSUME AskInv, place \in {"clear", "output"}, ~protocol_error
               PROVE  ScanIsComplete
    BY DEF ScanIsComplete
  <2>1. AskedUpTo(Len(pack) + 1) /\ Len(pack) \in Nat /\ DOMAIN pack = 1 .. Len(pack)
    BY DEF AskInv
  <2> QED
    BY <2>1 DEF AskedUpTo, ScanIsComplete
<1> QED
  BY <1>1, AskInit, AskNext, PTL DEF Spec

-----------------------------------------------------------------------------
(* What a record says.                                                     *)

\* The map of errors has the last code of every tag called for, and the map of tags
\* an entry for each of them until those with an error are taken out.
HonestInv ==
    /\ calls \in Seq(CallType)
    /\ \A t \in Known : LastCall(t) \in 0 .. Len(calls)
    /\ place \in {"scan", "clear", "output"} => errors = LastCodes
    /\ place \in {"scan", "clear"} => tag_map = Called
    /\ place = "output" => tag_map = {t \in Known : Answered(t)}

LEMMA LastCallIs ==
    ASSUME NEW t
    PROVE  LET at == {i \in 1 .. Len(calls) : calls[i].tag = t}
           IN  LastCall(t) = IF at # {} THEN Max(at) ELSE 0
BY DEF LastCall, SelectLastInSeq

\* Without a call there is no last one.
LEMMA NoLastCall == ASSUME calls = <<>> PROVE \A t : LastCall(t) = 0
BY LastCallIs

\* The last element of a set of positions that ends at n is n.
LEMMA MaxIs ==
    ASSUME NEW n \in Nat, NEW S \in SUBSET (1 .. n), n \in S
    PROVE  Max(S) = n
<1>1. \A y \in S : n >= y
  OBVIOUS
<1>2. \A x \in S : (\A y \in S : x >= y) => x = n
  OBVIOUS
<1>3. \E x \in S : \A y \in S : x >= y
  BY <1>1
<1> QED
  BY <1>1, <1>2, <1>3, Zenon DEF Max

\* A call is the last one for its tag, and for no other.
LEMMA LastCallStep ==
    ASSUME calls \in Seq(CallType), NEW call \in CallType, calls' = Append(calls, call)
    PROVE  /\ LastCall(call.tag)' = Len(calls) + 1
           /\ \A t : t # call.tag => LastCall(t)' = LastCall(t)
<1> DEFINE at(t) == {i \in 1 .. Len(calls) : calls[i].tag = t}
           at2(t) == {i \in 1 .. Len(calls') : calls'[i].tag = t}
<1>1. /\ Len(calls') = Len(calls) + 1 /\ Len(calls) \in Nat
      /\ calls'[Len(calls) + 1] = call
      /\ \A i \in 1 .. Len(calls) : calls'[i] = calls[i]
  OBVIOUS
<1>2. \A t : LastCall(t)' = IF at2(t) # {} THEN Max(at2(t)) ELSE 0
  BY DEF LastCall, SelectLastInSeq
<1>3. LastCall(call.tag)' = Len(calls) + 1
  <2>1. /\ Len(calls) + 1 \in at2(call.tag)
        /\ at2(call.tag) \in SUBSET (1 .. Len(calls) + 1)
    BY <1>1
  <2>2. Max(at2(call.tag)) = Len(calls) + 1
    <3> HIDE DEF at2
    <3> QED
      BY <1>1, <2>1, MaxIs
  <2> QED
    BY <1>2, <2>1, <2>2
<1>4. ASSUME NEW t, t # call.tag PROVE LastCall(t)' = LastCall(t)
  <2>1. at2(t) = at(t)
    BY <1>1, <1>4
  <2> QED
    BY <1>2, <2>1, LastCallIs
<1> QED
  BY <1>3, <1>4

LEMMA CallsStay ==
    ASSUME UNCHANGED calls
    PROVE  /\ Called' = Called /\ LastCodes' = LastCodes
           /\ \A t : LastCall(t)' = LastCall(t) /\ Answered(t)' = Answered(t)
BY DEF Called, LastCodes, Answered, LastCall, SelectLastInSeq

LEMMA HonestInit == Init => HonestInv
BY NoLastCall DEF Init, HonestInv

LEMMA HonestTag == HonestInv /\ ReadTag => HonestInv'
<1> SUFFICES ASSUME HonestInv, ReadTag PROVE HonestInv'
  OBVIOUS
<1>1. CASE UNCHANGED <<place, tag_map, errors, calls>>
  BY <1>1, CallsStay DEF HonestInv
<1>2. ASSUME NEW tag \in Known, NEW code \in Codes, Get(tag, code), Break(code)
      PROVE  HonestInv'
  <2>1. PICK call \in CallType :
        /\ calls' = Append(calls, call)
        /\ call.tag = tag /\ call.code = code
        /\ tag_map' = tag_map \union {tag}
        /\ errors' = [t \in DOMAIN errors \union {tag} |-> IF t = tag THEN code ELSE errors[t]]
    BY <1>2 DEF Get, CallType
  <2>2. /\ calls \in Seq(CallType) /\ \A t \in Known : LastCall(t) \in 0 .. Len(calls)
        /\ errors = LastCodes /\ tag_map = Called /\ place' \in {"scan", "clear"}
    BY <1>2 DEF HonestInv, ReadTag, Break
  <2>3. /\ calls' \in Seq(CallType) /\ Len(calls') = Len(calls) + 1 /\ Len(calls) \in Nat
        /\ calls'[Len(calls) + 1] = call
        /\ \A i \in 1 .. Len(calls) : calls'[i] = calls[i]
    BY <2>1, <2>2
  <2>4. /\ LastCall(tag)' = Len(calls) + 1
        /\ \A t : t # tag => LastCall(t)' = LastCall(t)
    BY <2>1, <2>2, LastCallStep
  <2>5. \A t \in Known : LastCall(t)' \in 0 .. Len(calls')
    BY <2>2, <2>3, <2>4
  <2>6. Called' = Called \union {tag}
    BY <2>1, <2>3, <2>4 DEF Called
  <2>7. errors' = LastCodes'
    <3>1. DOMAIN errors = Called
      BY <2>2 DEF LastCodes
    <3>2. ASSUME NEW t \in Called'
          PROVE  calls'[LastCall(t)'].code = IF t = tag THEN code ELSE errors[t]
      <4>1. CASE t = tag
        BY <2>1, <2>3, <2>4, <4>1
      <4>2. CASE t # tag
        <5>1. t \in Called /\ LastCall(t) \in 1 .. Len(calls) /\ LastCall(t)' = LastCall(t)
          BY <2>2, <2>3, <2>4, <2>6, <4>2 DEF Called
        <5>2. errors[t] = calls[LastCall(t)].code
          BY <2>2, <5>1 DEF LastCodes
        <5> QED
          BY <2>3, <4>2, <5>1, <5>2
      <4> QED
        BY <4>1, <4>2
    <3> QED
      BY <2>1, <2>6, <3>1, <3>2 DEF LastCodes
  <2> QED
    BY <2>1, <2>2, <2>3, <2>5, <2>6, <2>7 DEF HonestInv
<1> QED
  BY <1>1, <1>2 DEF ReadTag

LEMMA HonestNext == HonestInv /\ [Next]_vars => HonestInv'
<1> SUFFICES ASSUME HonestInv, [Next]_vars PROVE HonestInv'
  OBVIOUS
<1> USE DEF HonestInv
<1>1. CASE PowerOff
  BY <1>1, CallsStay DEF PowerOff
<1>2. CASE Begin
  <2>1. calls' = <<>> /\ tag_map' = {} /\ errors' = NoTags /\ place' = "scan"
    BY <1>2 DEF Begin
  <2>2. \A t : LastCall(t)' = 0
    BY <2>1 DEF LastCall, SelectLastInSeq
  <2>3. Called' = {} /\ LastCodes' = NoTags
    BY <2>2 DEF Called, LastCodes, NoTags
  <2> QED
    BY <2>1, <2>2, <2>3
<1>3. CASE EndOfPack
  BY <1>3, CallsStay DEF EndOfPack
<1>4. CASE ClearErrors
  <2>1. /\ place = "clear" /\ place' = "output" /\ UNCHANGED <<calls, errors>>
        /\ tag_map' = tag_map \ {t \in DOMAIN errors : errors[t] # 0}
    BY <1>4 DEF ClearErrors
  <2>2. tag_map' = {t \in Known : Answered(t)}
    BY <2>1 DEF Called, LastCodes, Answered
  <2> QED
    BY <2>1, <2>2, CallsStay
<1>5. CASE Output
  BY <1>5, CallsStay DEF Output
<1>6. CASE UNCHANGED vars
  BY <1>6, CallsStay DEF vars
<1> QED
  BY <1>1, <1>2, <1>3, <1>4, <1>5, <1>6, HonestTag DEF Next

SaysWhatWasAnswered(r) ==
    /\ r.tags = {t \in Known : Answered(t)}
    /\ r.codes # Missing => r.codes = LastCodes

\* A record of a scan has a value for exactly the tags whose last answer in that scan
\* was good, and the last code of every tag asked for, for packs of any length.
THEOREM RecordIsAlwaysHonest == Spec => RecordIsHonest
<1>1. ASSUME HonestInv, [Next]_vars, record' # record, record'.power_on = 1
      PROVE  SaysWhatWasAnswered(record')
  <2>1. Output
    BY <1>1 DEF Next, PowerOff, Begin, ReadTag, EndOfPack, ClearErrors, vars
  <2>2. Missing # 1
    BY TagScanAssumption
  <2> QED
    BY <1>1, <2>1, <2>2 DEF Output, HonestInv, SaysWhatWasAnswered
<1>2. HonestInv /\ [Next]_vars =>
         [record' # record /\ record'.power_on = 1 => SaysWhatWasAnswered(record')]_vars
  <2> SUFFICES ASSUME HonestInv, [Next]_vars, record' # record, record'.power_on = 1
               PROVE  SaysWhatWasAnswered(record')
    OBVIOUS
  <2> QED
    BY <1>1
<1> QED
  BY <1>2, HonestInit, HonestNext, PTL
     DEF Spec, RecordIsHonest, SaysWhatWasAnswered
=============================================================================
