---------------------------- MODULE AddressSpace ----------------------------
(***************************************************************************)
(* The OPC UA address space: LoadTagPacks, CreateDeviceNodes, and what     *)
(* OutputFanucData does with a record when the server is on.               *)
(*                                                                         *)
(* A tag name of the configuration is the sequence of its parts, so        *)
(* "jog_speed.x" is <<"jog_speed", "x">>.  Clients only read (access level *)
(* 0x05): they may look between any two steps and are no part of the model.*)
(* Values are pairs of a kind or type and a content; numbers are counted   *)
(* in units of 1/Unit.  Which tags a record has is the subject of TagScan. *)
(*                                                                         *)
(* A map of AxisMaps has names of axes, which are sequences of characters; *)
(* so Forms[key] is a set of such names.  In the map of the error codes the *)
(* tag t has the name <<t>>.                                                *)
(*                                                                         *)
(* SharedPack and the like, which no action uses, are faulty variants of   *)
(* the definition below them that the properties are tried against.        *)
(***************************************************************************)
EXTENDS AxisMaps

CONSTANTS NumDevices,
          PackName,  \* tags_pack_name per device
          NoName,    \* it is empty
          OwnTags,   \* tags_pack as the device has it in the configuration
          TagPacks,  \* pack -> tag name -> type
          Identity,  \* name, address and port of each device, as JSON values
          Answers,   \* tag of a getter of one value -> the JSON values it may return
          Buffers,   \* tag of a getter of AxisMaps -> what the CNC may report
          ErrorCodes,\* what a failing getter may return
          Forms,     \* key of a tag name -> names equal to it in upper or lower case
          Limit      \* int16 and int32 -> largest value of the type

Devices == 1 .. NumDevices
Narrow == {"int16", "int32"}

\* A value of a getter of one value, or of a default tag.
IsPlain(value) == /\ Len(value) = 2
                  /\ \/ value[1] = "string"
                     \/ value[1] = "number" /\ value[2] \in Int

ASSUME AddressSpaceAssumption ==
    /\ NumDevices \in Nat \ {0}
    /\ DOMAIN OwnTags = Devices
    /\ Unit \in Nat \ {0}
    /\ \A type \in Narrow : Limit[type] \in Nat
    \* LoadTagPacks would panic on an empty tag name.
    /\ \A p \in DOMAIN TagPacks : \A t \in DOMAIN TagPacks[p] : Len(t) \in Nat \ {0}
    /\ DOMAIN Buffers \subseteq AxisTags
    /\ DOMAIN Answers \cap AxisTags = {}
    /\ ErrorCodes \subseteq Int \ {0}
    \* No getter stands for a default tag or for "errors".
    /\ \A d \in Devices : (DOMAIN Identity[d] \union {"power_on", "errors"})
                             \cap (DOMAIN Answers \union AxisTags) = {}
    /\ \A d \in Devices : \A t \in DOMAIN Identity[d] : IsPlain(Identity[d][t])
    /\ \A t \in DOMAIN Answers : \A value \in Answers[t] : IsPlain(value)
    /\ \A t \in DOMAIN Buffers : \A buf \in Buffers[t] :
          /\ Len(buf) \in Nat /\ DOMAIN buf = 1 .. Len(buf)
          /\ \A i \in DOMAIN buf :
                /\ buf[i].data \in Int /\ 10 ^ buf[i].dec \in Nat \ {0}
                \* The fields the getters read a name from have room for two characters.
                /\ buf[i].name \in Seq(ToSet(buf[i].name)) /\ Len(buf[i].name) >= 2

VARIABLES phase,      \* "load", "create", then "serve" while the collectors run
          device,     \* LoadTagPacks: index of its outer loop
          packs_left, \*   packs the iteration over the map has still to come to
          tags_left,  \*   tag names left of the pack it is at
          tags_pack,  \*   the local slice
          TagsPack,   \* config.Devices[d].TagsPack
          nodes,      \* <<device, tag name>> -> value of the node
          record,     \* the record UpdateCollector puts into the nodes
          reported,   \* history: tag -> buffer that the CNC filled for that record
          todo,       \* tag names its loop has still to come to
          before      \* history: the nodes when the last line was written to stdout

loadVars == <<device, packs_left, tags_left, tags_pack, TagsPack>>
vars == <<phase, loadVars, nodes, record, reported, todo, before>>

NoTags == [t \in {} |-> ""]
NoRecord == [t \in {} |-> <<>>]
Nil == <<>>

\* config.Server.TagPacks[config.Devices[d].TagsPackName], empty without such a pack.
TagsOf(d) == IF PackName[d] \in DOMAIN TagPacks THEN TagPacks[PackName[d]] ELSE NoTags

Init ==
    /\ phase = "load"
    /\ device = 1
    /\ packs_left = DOMAIN TagPacks
    /\ tags_left = {}
    /\ tags_pack = <<>>
    /\ TagsPack = OwnTags
    /\ nodes = [n \in {} |-> Nil]
    /\ record = [d \in Devices |-> NoRecord]
    /\ reported = [d \in Devices |-> NoRecord]
    /\ todo = [d \in Devices |-> {}]
    /\ before = nodes

-----------------------------------------------------------------------------
(* LoadTagPacks.  Both loops over maps go in any order.                    *)

\* The assignment at the end of the body, after every pack.
StorePack == TagsPack' = [TagsPack EXCEPT ![device] = tags_pack']

\* The body for one pack: the loop over its tag names begins when it is the
\* pack of the device, otherwise the slice is stored as it is.
VisitPack(p) ==
    /\ UNCHANGED tags_pack
    /\ IF p = PackName[device] /\ DOMAIN TagPacks[p] # {}
       THEN tags_left' = DOMAIN TagPacks[p] /\ UNCHANGED TagsPack
       ELSE StorePack /\ UNCHANGED tags_left

NextPack ==
    /\ phase = "load" /\ tags_left = {}
    /\ \E p \in packs_left : VisitPack(p) /\ packs_left' = packs_left \ {p}
    /\ UNCHANGED <<phase, device, nodes, record, reported, todo, before>>

\* Of each tag name the first part, once.
AddTag(tag) ==
    tags_pack' = IF Contains(tags_pack, tag) THEN tags_pack ELSE Append(tags_pack, tag)

NextTag ==
    /\ phase = "load"
    /\ \E t \in tags_left :
          /\ AddTag(Head(t))
          /\ tags_left' = tags_left \ {t}
          /\ IF tags_left = {t} THEN StorePack ELSE UNCHANGED TagsPack
    /\ UNCHANGED <<phase, device, packs_left, nodes, record, reported, todo, before>>

SharedPack ==
    /\ phase = "load" /\ tags_left = {} /\ packs_left = {}
    /\ IF device < NumDevices
       THEN device' = device + 1 /\ packs_left' = DOMAIN TagPacks /\ UNCHANGED phase
       ELSE phase' = "create" /\ UNCHANGED <<device, packs_left>>
    /\ UNCHANGED <<tags_pack, tags_left, TagsPack, nodes, record, reported, todo, before>>

\* The next device starts with an empty slice; after the last one the nodes follow.
NextDevice ==
    /\ phase = "load" /\ tags_left = {} /\ packs_left = {}
    /\ IF device < NumDevices
       THEN device' = device + 1 /\ packs_left' = DOMAIN TagPacks /\ UNCHANGED phase
       ELSE phase' = "create" /\ UNCHANGED <<device, packs_left>>
    /\ tags_pack' = <<>>
    /\ UNCHANGED <<tags_left, TagsPack, nodes, record, reported, todo, before>>

-----------------------------------------------------------------------------
(* CreateDeviceNodes, before any collector runs.                           *)

\* GetZeroValueByTagType: nil for a type it does not know.
ZeroValue(type) ==
    CASE type = "string" -> <<type, "">>
      [] type = "bool" -> <<type, FALSE>>
      [] type \in Narrow \union {"int64", "float64"} -> <<type, 0>>
      [] type \in {"[]int64", "[]float64"} -> <<type, <<>>>>
      [] OTHER -> Nil

\* Nodes for tag names of at most two parts, of devices that name a pack.
NodeIds == UNION {{<<d, t>> : t \in {u \in DOMAIN TagsOf(d) : Len(u) <= 2}} :
                     d \in {e \in Devices : PackName[e] # NoName}}

CreateDeviceNodes ==
    /\ phase = "create"
    /\ phase' = "serve"
    /\ nodes' = [n \in NodeIds |-> ZeroValue(TagsOf(n[1])[n[2]])]
    /\ before' = nodes'
    /\ UNCHANGED <<loadVars, record, reported, todo>>

-----------------------------------------------------------------------------
(* Conversions.  Each gives the set of possible results.                   *)

Trunc(n) == IF n >= 0 THEN n \div Unit ELSE -((-n) \div Unit)
Fits(n, type) == Trunc(n) \in (-Limit[type] - 1) .. Limit[type]

\* Go leaves open what the conversion of a float64 gives outside of the type.
ToInteger(n, type) ==
    IF type \in Narrow /\ ~Fits(n, type)
    THEN {<<type, i>> : i \in (-Limit[type] - 1) .. Limit[type]}
    ELSE {<<type, Trunc(n)>>}

\* ConvertValueByType: nil unless the JSON value is of the kind the type asks
\* for.  No getter returns what becomes a JSON boolean or list.
ConvertValueByType(value, type) ==
    CASE value = Nil -> {Nil}
      [] value # Nil /\ value[1] = "number" /\ type \in Narrow \union {"int64"} ->
            ToInteger(value[2], type)
      [] value # Nil /\ value[1] = "number" /\ type = "float64" -> {<<type, value[2]>>}
      [] value # Nil /\ value[1] = "string" /\ type = "string" -> {<<type, value[2]>>}
      [] OTHER -> {Nil}

SkipMissingKey(key, value, type) ==
    IF value # Nil /\ value[1] = "map" /\ type \in {"int64", "float64"}
    THEN LET found == Forms[key] \cap DOMAIN value[2]
         IN IF found = {} THEN {Nil}
            ELSE {<<type, IF type = "int64" THEN Trunc(value[2][a]) ELSE value[2][a]>> : a \in found}
    ELSE {Nil}

\* ConvertMapValueAtKey: of two axes that match the key either one, 0 if none does.
ConvertMapValueAtKey(key, value, type) ==
    IF value # Nil /\ value[1] = "map" /\ type \in {"int64", "float64"}
    THEN LET found == Forms[key] \cap DOMAIN value[2]
         IN IF found = {} THEN {<<type, 0>>}
            ELSE {<<type, IF type = "int64" THEN Trunc(value[2][a]) ELSE value[2][a]>> : a \in found}
    ELSE {Nil}

ValueAt(rec, tag) == IF tag \in DOMAIN rec THEN rec[tag] ELSE Nil

\* The switch on the number of parts.
Converted(rec, t, type) ==
    CASE Len(t) = 1 -> ConvertValueByType(ValueAt(rec, t[1]), type)
      [] Len(t) = 2 -> ConvertMapValueAtKey(t[2], ValueAt(rec, t[1]), type)
      [] OTHER -> {Nil}

-----------------------------------------------------------------------------
(* OutputFanucData in the collector of each device.                        *)

PowerOffRecord(d) ==
    [t \in DOMAIN Identity[d] \union {"power_on"} |->
        IF t = "power_on" THEN <<"number", 0>> ELSE Identity[d][t]]

\* The error code of each getter that was called, for a pack with the tag "errors".
ErrorsOf(d, errors) ==
    [t \in {"errors"} \cap ToSet(TagsPack[d]) |->
        <<"map", [a \in {<<u>> : u \in DOMAIN errors} |-> errors[a[1]] * Unit]>>]

\* What GetFanucJsonData returns when the getters of the tags in DOMAIN errors were
\* called: the values of those with code 0; buf holds the buffers of AxisMaps.
ScanRecord(d, single, buf, errors) ==
    [t \in DOMAIN Identity[d] \union {"power_on"} \union DOMAIN single \union DOMAIN buf
              \union DOMAIN ErrorsOf(d, errors) |->
        CASE t \in DOMAIN single -> single[t]
          [] t \in DOMAIN buf -> <<"map", MapOf(t, buf[t])>>
          [] t = "power_on" -> <<"number", Unit>>
          [] t \in DOMAIN ErrorsOf(d, errors) -> ErrorsOf(d, errors)[t]
          [] OTHER -> Identity[d][t]]

\* For each of the tags one of its choices.
Selections(tags, choices) ==
    {f \in [tags -> UNION {choices[t] : t \in tags}] : \A t \in tags : f[t] \in choices[t]}

\* UpdateCollector gets a record, while the one before it is out.
Update(d) ==
    /\ phase = "serve" /\ record[d] = NoRecord
    /\ \/ /\ record' = [record EXCEPT ![d] = PowerOffRecord(d)]
          /\ UNCHANGED reported
       \/ \E called \in SUBSET (ToSet(TagsPack[d]) \cap (DOMAIN Answers \union DOMAIN Buffers)) :
             \E errors \in [called -> {0} \union ErrorCodes] :
             LET good == {t \in called : errors[t] = 0}
             IN \E single \in Selections(good \cap DOMAIN Answers, Answers),
                   buf \in Selections(good \cap DOMAIN Buffers, Buffers) :
                   /\ record' = [record EXCEPT ![d] = ScanRecord(d, single, buf, errors)]
                   /\ reported' = [reported EXCEPT ![d] = buf]
    /\ todo' = [todo EXCEPT ![d] = DOMAIN TagsOf(d)]
    /\ UNCHANGED <<phase, loadVars, nodes, before>>

WriteNode(n, value) == nodes' = [nodes EXCEPT ![n] = value]

\* UpdateNodeValueAtAddress: without a value or a node nothing happens.
UpdateNode(n, value) ==
    nodes' = IF value = Nil \/ n \notin DOMAIN nodes
             THEN nodes
             ELSE [nodes EXCEPT ![n] = value]

UpdateTag(d) ==
    /\ \E t \in todo[d] :
          /\ todo' = [todo EXCEPT ![d] = @ \ {t}]
          /\ \E value \in Converted(record[d], t, TagsOf(d)[t]) : UpdateNode(<<d, t>>, value)
    /\ UNCHANGED <<phase, loadVars, record, reported, before>>

\* The line on the standard output follows the update.
Fprintln(d) ==
    /\ record[d] # NoRecord /\ todo[d] = {}
    /\ record' = [record EXCEPT ![d] = NoRecord]
    /\ reported' = [reported EXCEPT ![d] = NoRecord]
    /\ before' = [n \in DOMAIN nodes |-> IF n[1] = d THEN nodes[n] ELSE before[n]]
    /\ UNCHANGED <<phase, loadVars, nodes, todo>>

Next ==
    \/ NextPack \/ NextTag \/ NextDevice \/ CreateDeviceNodes
    \/ \E d \in Devices : Update(d) \/ UpdateTag(d) \/ Fprintln(d)

Spec == Init /\ [][Next]_vars

-----------------------------------------------------------------------------
(* Correctness.                                                            *)

\* Of which type a node's value is never changes: clients read the variable
\* with the type that CreateDeviceNodes gave it.
TypeOK ==
    /\ phase \in {"load", "create", "serve"}
    /\ device \in Devices
    /\ packs_left \subseteq DOMAIN TagPacks
    /\ tags_left \subseteq DOMAIN TagsOf(device)
    /\ DOMAIN nodes = IF phase = "serve" THEN NodeIds ELSE {}
    /\ DOMAIN before = DOMAIN nodes
    /\ \A n \in DOMAIN nodes :
          IF ZeroValue(TagsOf(n[1])[n[2]]) = Nil
          THEN nodes[n] = Nil
          ELSE Len(nodes[n]) = 2 /\ nodes[n][1] = TagsOf(n[1])[n[2]]
    /\ \A d \in Devices : todo[d] \subseteq DOMAIN TagsOf(d)

\* A device that leaves the choice of its tags to a pack reads the tags of its own pack,
\* each once, in whatever order LoadTagPacks comes to the packs and their tag names; it
\* reads none without such a pack.
PacksAreLoaded ==
    phase # "load" =>
        \A d \in Devices : OwnTags[d] = <<>> =>
            /\ ToSet(TagsPack[d]) = {Head(t) : t \in DOMAIN TagsOf(d)}
            /\ IsInjective(TagsPack[d])

\* "to select telegraf tags / use next device parameter / tags_pack:" (plugin.conf:167-170):
\* a device that has this parameter reads the tags it names.
TelegrafTagsAreSelected ==
    phase # "load" => \A d \in Devices : ToSet(OwnTags[d]) \subseteq ToSet(TagsPack[d])

\* What a record has to say of the tag name t: its value, or that of an axis that
\* matches the key, or 0 when the record has the map and no axis matches.
Said(rec, t) ==
    LET value == ValueAt(rec, t[1])
        axes == IF Len(t) = 2 /\ value # Nil /\ value[1] = "map"
                THEN Forms[t[2]] \cap DOMAIN value[2] ELSE {}
    IN CASE value = Nil -> {}
         [] value # Nil /\ Len(t) = 1 -> {value}
         [] axes # {} -> {<<"number", value[2][a]>> : a \in axes}
         [] OTHER -> IF value[1] = "map" THEN {<<"number", 0>>} ELSE {}

\* Which kind of JSON value a node of this type takes.
Takes(t, type) ==
    CASE type = "string" /\ Len(t) = 1 -> "string"
      [] type \in {"int64", "float64"} -> "number"
      [] type \in Narrow /\ Len(t) = 1 -> "number"
      [] OTHER -> "nothing"

\* An integer is at most a fraction away from the number; one that does not fit
\* into its type may show anything.
Shows(value, said) ==
    \/ value[1] \in {"string", "float64"} /\ value[2] = said[2]
    \/ value[1] \in Narrow /\ ~Fits(said[2], value[1])
    \/ /\ value[1] \in Narrow \union {"int64"}
       /\ value[2] * Unit - said[2] \in (1 - Unit) .. (Unit - 1)

\* When a record is printed, every node of the device agrees with it, whatever
\* the other collectors write meanwhile: it shows what the record says of its tag,
\* or, when the record says nothing that its type takes, what it showed before.
PrintedIsShown ==
    [][\A n \in DOMAIN nodes :
         LET d == n[1]
             type == TagsOf(d)[n[2]]
             said == {s \in Said(record[d], n[2]) : s[1] = Takes(n[2], type)}
         IN Fprintln(d) =>
               IF said = {} THEN nodes[n] = before[n]
               ELSE \E s \in said : Shows(nodes[n], s)]_vars

\* The elements that the CNC reported for the tag of node n and that carry, in its
\* own spelling, the name that the key of the node asks for.
Asked(n) ==
    LET tag == n[2][1]
        buf == reported[n[1]][tag]
    IN IF Len(n[2]) = 2 /\ tag \in DOMAIN reported[n[1]]
       THEN {buf[i] : i \in {j \in DOMAIN buf : FullName(buf[j]) \in Forms[n[2][2]] \ {<<>>}}}
       ELSE {}

\* The node shows the value of the element as the CNC means it, with its decimals.
ShowsElement(n, el) == Shows(nodes[n], <<"number", el.data * (Unit \div 10 ^ el.dec)>>)

\* Names of a length that the getter of the tag can tell from others.
NameSizes(tag) == CASE tag \in LetterTags -> {1} [] tag \in PairTags -> {2} [] OTHER -> 1 .. 3
ToldApart(tag, buf) == \A el \in ToSet(buf) : Len(FullName(el)) \in {0} \union NameSizes(tag)

\* When a record is printed, a node for an axis shows what the CNC reported of that
\* axis, wherever it stands in the buffer.  The names must be such as the getter can
\* tell apart, the CNC must have one axis of the name only and not have flagged it, and
\* a getter of integers must not get decimals.  The node must be of one of the two types
\* that ConvertMapValueAtKey knows and plugin.conf gives such nodes; any other keeps its zero.
AxisIsShown ==
    [][\A n \in DOMAIN nodes : Fprintln(n[1]) =>
         \A el \in Asked(n) :
            /\ Asked(n) = {el} /\ el.flag = 0
            /\ ToldApart(n[2][1], reported[n[1]][n[2][1]])
            /\ n[2][1] \in ScaledTags \/ el.dec = 0
            /\ TagsOf(n[1])[n[2]] \in {"int64", "float64"}
            => ShowsElement(n, el)]_vars

\* plugin.conf:70 and 71 configure a node for each of two spindles, spindle_load.s6
\* and spindle_load.s11: when a record is printed, such a node shows the load of the
\* spindle with that name.
SpindleIsShown ==
    [][\A n \in DOMAIN nodes : Fprintln(n[1]) /\ n[2][1] = "spindle_load" =>
         \A el \in Asked(n) : ShowsElement(n, el)]_vars
=============================================================================
