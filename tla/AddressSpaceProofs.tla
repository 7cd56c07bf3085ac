------------------------- MODULE AddressSpaceProofs -------------------------
(***************************************************************************)
(* Proofs about the OPC UA address space, for any number of devices, packs *)
(* and tag names.                                                          *)
(***************************************************************************)
EXTENDS AddressSpace, WellFoundedInduction, TLAPS

(* The inductive invariant of LoadTagPacks.  The slice of the device at     *)
(* hand has the first parts of the tag names the loops have come to; it is  *)
(* stored whenever the inner loop is at its end, so that nothing is lost by *)
(* the pack of the device not being the last of the iteration.              *)

Firsts(names) == {Head(t) : t \in names}
AllFirsts == Firsts(UNION {DOMAIN TagPacks[p] : p \in DOMAIN TagPacks})

\* The pack of device d that the iteration has come to, tag name by tag name.
Visited ==
    IF PackName[device] \in packs_left THEN {} ELSE DOMAIN TagsOf(device) \ tags_left

Loaded(d) ==
    IF DOMAIN TagPacks = {}
    THEN TagsPack[d] = OwnTags[d]
    ELSE ToSet(TagsPack[d]) = Firsts(DOMAIN TagsOf(d)) /\ IsInjective(TagsPack[d])

LoadTypes ==
    /\ phase \in {"load", "create", "serve"}
    /\ device \in Devices
    /\ packs_left \subseteq DOMAIN TagPacks
    /\ tags_left \subseteq DOMAIN TagsOf(device)
    /\ tags_left # {} => PackName[device] \in DOMAIN TagPacks \ packs_left
    /\ tags_pack \in Seq(AllFirsts)
    /\ DOMAIN TagsPack = Devices

LoadInv ==
    /\ LoadTypes
    /\ phase = "load" => /\ ToSet(tags_pack) = Firsts(Visited)
                         /\ IsInjective(tags_pack)
                         /\ tags_left = {} /\ packs_left # DOMAIN TagPacks
                               => TagsPack[device] = tags_pack
                         /\ DOMAIN TagPacks = {} => TagsPack = OwnTags
                         /\ \A d \in Devices : d < device => Loaded(d)
    /\ phase # "load" => \A d \in Devices : Loaded(d)

\* A name is appended to the slice when it is not there yet.
LEMMA AddOnce ==
    ASSUME NEW S, NEW s \in Seq(S), NEW x \in S, IsInjective(s)
    PROVE  LET r == IF Contains(s, x) THEN s ELSE Append(s, x)
           IN  r \in Seq(S) /\ ToSet(r) = ToSet(s) \union {x} /\ IsInjective(r)
<1>1. CASE Contains(s, x)
  BY <1>1 DEF Contains, ToSet
<1>2. CASE ~Contains(s, x)
  <2> DEFINE r == Append(s, x)
  <2>1. /\ r \in Seq(S) /\ Len(r) = Len(s) + 1 /\ r[Len(r)] = x
        /\ DOMAIN r = 1 .. Len(r) /\ DOMAIN s = 1 .. Len(s)
        /\ \A i \in 1 .. Len(s) : r[i] = s[i] /\ s[i] # x
    BY <1>2 DEF Contains
  <2> HIDE DEF r
  <2>2. ToSet(r) = ToSet(s) \union {x}
    BY <2>1 DEF ToSet
  <2>3. IsInjective(r)
    BY <2>1 DEF IsInjective
  <2> QED
    BY <1>2, <2>1, <2>2, <2>3 DEF r
<1> QED
  BY <1>1, <1>2

LEMMA EmptySlice == <<>> \in Seq(AllFirsts) /\ ToSet(<<>>) = {} /\ IsInjective(<<>>)
BY DEF ToSet, IsInjective

LEMMA LoadInit == Init => LoadInv
<1> SUFFICES ASSUME Init PROVE LoadInv
  OBVIOUS
<1>1. 1 \in Devices
  BY AddressSpaceAssumption DEF Devices
<1>2. Visited = {}
  BY DEF Init, Visited, TagsOf, NoTags
<1> QED
  BY <1>1, <1>2, EmptySlice, AddressSpaceAssumption
     DEF Init, LoadInv, LoadTypes, Firsts, Devices

LEMMA PackKeeps == LoadInv /\ NextPack => LoadInv'
<1> SUFFICES ASSUME LoadInv, NextPack PROVE LoadInv'
  OBVIOUS
<1>1. PICK p \in packs_left : VisitPack(p) /\ packs_left' = packs_left \ {p}
  BY DEF NextPack
<1>2. /\ UNCHANGED <<phase, device, tags_pack>> /\ phase = "load" /\ tags_left = {}
      /\ DOMAIN TagPacks # {}
  BY <1>1 DEF NextPack, VisitPack, LoadInv, LoadTypes
<1>3. CASE p = PackName[device] /\ DOMAIN TagPacks[p] # {}
  <2>1. tags_left' = DOMAIN TagsOf(device) /\ UNCHANGED TagsPack /\ tags_left' # {}
    BY <1>1, <1>3 DEF VisitPack, TagsOf, LoadInv, LoadTypes
  <2>2. Visited = {} /\ Visited' = {}
    BY <1>1, <1>2, <1>3, <2>1 DEF Visited, TagsOf
  <2> QED
    BY <1>1, <1>2, <1>3, <2>1, <2>2 DEF LoadInv, LoadTypes, Loaded, TagsOf
<1>4. CASE ~(p = PackName[device] /\ DOMAIN TagPacks[p] # {})
  <2>1. tags_left' = {} /\ TagsPack' = [TagsPack EXCEPT ![device] = tags_pack]
    BY <1>1, <1>2, <1>4 DEF VisitPack, StorePack
  <2>2. Visited' = Visited
    BY <1>1, <1>2, <1>4, <2>1 DEF Visited, TagsOf, LoadInv, LoadTypes
  <2>3. \A d \in Devices : d < device => Loaded(d)'
    BY <1>2, <2>1 DEF LoadInv, LoadTypes, Loaded, TagsOf, Devices
  <2> QED
    BY <1>1, <1>2, <2>1, <2>2, <2>3 DEF LoadInv, LoadTypes, TagsOf
<1> QED
  BY <1>3, <1>4

LEMMA TagKeeps == LoadInv /\ NextTag => LoadInv'
<1> SUFFICES ASSUME LoadInv, NextTag PROVE LoadInv'
  OBVIOUS
<1>1. PICK t \in tags_left :
          /\ AddTag(Head(t)) /\ tags_left' = tags_left \ {t}
          /\ IF tags_left = {t} THEN StorePack ELSE UNCHANGED TagsPack
  BY DEF NextTag
<1>2. /\ UNCHANGED <<phase, device, packs_left>> /\ phase = "load"
      /\ PackName[device] \in DOMAIN TagPacks \ packs_left
      /\ TagsOf(device) = TagPacks[PackName[device]] /\ TagsOf(device)' = TagsOf(device)
  BY <1>1 DEF NextTag, LoadInv, LoadTypes, TagsOf
<1>3. Head(t) \in AllFirsts
  BY <1>1, <1>2 DEF AllFirsts, Firsts, LoadInv, LoadTypes
<1>4. /\ tags_pack' \in Seq(AllFirsts) /\ IsInjective(tags_pack')
      /\ ToSet(tags_pack') = ToSet(tags_pack) \union {Head(t)}
  BY <1>1, <1>2, <1>3, AddOnce DEF AddTag, LoadInv, LoadTypes
<1>5. Visited' = Visited \union {t}
  BY <1>1, <1>2 DEF Visited, LoadInv, LoadTypes
<1>6. Firsts(Visited') = Firsts(Visited) \union {Head(t)}
  BY <1>5 DEF Firsts
<1>7. /\ DOMAIN TagsPack' = Devices
      /\ \A d \in Devices : d # device => TagsPack'[d] = TagsPack[d]
      /\ tags_left' = {} => TagsPack'[device] = tags_pack'
  BY <1>1 DEF StorePack, LoadInv, LoadTypes
<1>8. \A d \in Devices : d < device => Loaded(d)'
  BY <1>2, <1>7 DEF LoadInv, LoadTypes, Loaded, TagsOf, Devices
<1> QED
  BY <1>1, <1>2, <1>4, <1>6, <1>7, <1>8 DEF LoadInv, LoadTypes

LEMMA DeviceKeeps == LoadInv /\ NextDevice => LoadInv'
<1> SUFFICES ASSUME LoadInv, NextDevice PROVE LoadInv'
  OBVIOUS
<1>1. /\ phase = "load" /\ tags_left = {} /\ packs_left = {}
      /\ tags_pack' = <<>> /\ UNCHANGED <<tags_left, TagsPack>>
  BY DEF NextDevice
<1>2. Loaded(device)
  <2>1. Visited = DOMAIN TagsOf(device)
    BY <1>1 DEF Visited
  <2> QED
    BY <1>1, <2>1 DEF LoadInv, LoadTypes, Loaded
<1>3. \A d \in Devices : Loaded(d)' = Loaded(d)
  BY <1>1 DEF Loaded, TagsOf
<1>4. CASE device < NumDevices
  <2>1. device' = device + 1 /\ packs_left' = DOMAIN TagPacks /\ phase' = "load"
    BY <1>1, <1>4 DEF NextDevice
  <2>2. device' \in Devices /\ \A d \in Devices : d < device' => Loaded(d)
    BY <1>1, <1>2, <1>4, <2>1, AddressSpaceAssumption DEF LoadInv, LoadTypes, Devices
  <2>3. Visited' = {}
    BY <1>1, <2>1 DEF Visited, TagsOf, NoTags
  <2>4. Firsts(Visited)' = {}
    BY <2>3 DEF Firsts
  <2>5. LoadTypes'
    BY <1>1, <2>1, <2>2, EmptySlice DEF LoadInv, LoadTypes
  <2>6. \A d \in Devices : d < device' => Loaded(d)'
    BY <1>3, <2>2
  <2> QED
    BY <1>1, <2>1, <2>4, <2>5, <2>6, EmptySlice DEF LoadInv
<1>5. CASE ~(device < NumDevices)
  <2>1. phase' = "create" /\ UNCHANGED <<device, packs_left>>
    BY <1>1, <1>5 DEF NextDevice
  <2>2. \A d \in Devices : Loaded(d)
    BY <1>1, <1>2, <1>5, AddressSpaceAssumption DEF LoadInv, LoadTypes, Devices
  <2> QED
    BY <1>1, <1>3, <2>1, <2>2, EmptySlice DEF LoadInv, LoadTypes, TagsOf
<1> QED
  BY <1>4, <1>5

LEMMA LoadNext == LoadInv /\ [Next]_vars => LoadInv'
<1> SUFFICES ASSUME LoadInv, [Next]_vars PROVE LoadInv'
  OBVIOUS
<1>1. CASE CreateDeviceNodes
  BY <1>1 DEF CreateDeviceNodes, loadVars, LoadInv, LoadTypes, Loaded, TagsOf
<1>2. CASE \E d \in Devices : Update(d) \/ UpdateTag(d) \/ Fprintln(d)
  <2>1. UNCHANGED <<phase, loadVars>>
    BY <1>2 DEF Update, UpdateTag, Fprintln
  <2> QED
    BY <2>1 DEF loadVars, LoadInv, LoadTypes, Loaded, TagsOf, Visited
<1>3. CASE UNCHANGED vars
  BY <1>3 DEF vars, loadVars, LoadInv, LoadTypes, Loaded, TagsOf, Visited
<1> QED
  BY <1>1, <1>2, <1>3, PackKeeps, TagKeeps, DeviceKeeps DEF Next

LEMMA LoadAlways == Spec => []LoadInv
BY LoadInit, LoadNext, PTL DEF Spec

\* In whatever order the maps are iterated, a device without a tags_pack of its own ends
\* with the tags of its pack, each once.
THEOREM EveryPackIsLoaded == Spec => []PacksAreLoaded
<1>1. ASSUME NEW d \in Devices, Loaded(d), OwnTags[d] = <<>>
      PROVE  ToSet(TagsPack[d]) = Firsts(DOMAIN TagsOf(d)) /\ IsInjective(TagsPack[d])
  <2>1. CASE DOMAIN TagPacks = {}
    <3>1. Firsts(DOMAIN TagsOf(d)) = {}
      BY <2>1 DEF TagsOf, NoTags, Firsts
    <3> QED
      BY <1>1, <2>1, <3>1, EmptySlice DEF Loaded
  <2> QED
    BY <1>1, <2>1 DEF Loaded
<1>2. LoadInv => PacksAreLoaded
  BY <1>1 DEF LoadInv, Firsts, PacksAreLoaded
<1> QED
  BY <1>2, LoadAlways, PTL

-----------------------------------------------------------------------------
(* Types of the nodes.                                                     *)

\* Types that CreateDeviceNodes makes a node with a value for.
Known == Narrow \union {"string", "bool", "int64", "float64", "[]int64", "[]float64"}

Typed(value, type) == Len(value) = 2 /\ value[1] = type

LEMMA Pairs == ASSUME NEW a, NEW b PROVE Typed(<<a, b>>, a) /\ <<a, b>> # Nil
BY DEF Typed, Nil

LEMMA ZeroTyped ==
    ASSUME NEW type
    PROVE  IF type \in Known THEN Typed(ZeroValue(type), type) /\ ZeroValue(type) # Nil
                             ELSE ZeroValue(type) = Nil
<1>1. CASE type = "string"
  BY <1>1, Pairs DEF ZeroValue, Known, Narrow
<1>2. CASE type = "bool"
  BY <1>2, Pairs DEF ZeroValue, Known, Narrow
<1>3. CASE type \in Narrow \union {"int64", "float64"}
  <2>1. ZeroValue(type) = <<type, 0>>
    BY <1>3 DEF ZeroValue, Narrow
  <2> QED
    BY <1>3, <2>1, Pairs DEF Known
<1>4. CASE type \in {"[]int64", "[]float64"}
  <2>1. ZeroValue(type) = <<type, <<>>>>
    BY <1>4 DEF ZeroValue, Narrow
  <2> QED
    BY <1>4, <2>1, Pairs DEF Known
<1>5. CASE type \notin Known
  BY <1>5 DEF ZeroValue, Known, Narrow
<1> QED
  BY <1>1, <1>2, <1>3, <1>4, <1>5 DEF Known

\* A conversion gives nothing or a value of the type it was asked for.
LEMMA ConvertedTyped ==
    ASSUME NEW rec, NEW t, NEW type, NEW value \in Converted(rec, t, type), value # Nil
    PROVE  type \in Known /\ Typed(value, type)
<1>1. ASSUME NEW said, value \in ConvertValueByType(said, type)
      PROVE  type \in Known /\ \E x : value = <<type, x>>
  <2>1. type \in Narrow \union {"int64", "float64", "string"}
    BY <1>1 DEF ConvertValueByType
  <2>2. \/ value \in ToInteger(said[2], type)
        \/ value = <<type, said[2]>>
    BY <1>1 DEF ConvertValueByType
  <2> QED
    BY <2>1, <2>2 DEF ToInteger, Known
<1>2. ASSUME NEW said, NEW key, value \in ConvertMapValueAtKey(key, said, type)
      PROVE  type \in Known /\ \E x : value = <<type, x>>
  <2>1. type \in {"int64", "float64"}
    BY <1>2 DEF ConvertMapValueAtKey
  <2> QED
    BY <1>2, <2>1 DEF ConvertMapValueAtKey, Known
<1>3. type \in Known /\ \E x : value = <<type, x>>
  BY <1>1, <1>2 DEF Converted
<1> QED
  BY <1>3, Pairs

NodeTypes ==
    /\ DOMAIN nodes = IF phase = "serve" THEN NodeIds ELSE {}
    /\ DOMAIN before = DOMAIN nodes
    /\ \A n \in DOMAIN nodes :
          LET type == TagsOf(n[1])[n[2]]
          IN IF type \in Known THEN Typed(nodes[n], type) ELSE nodes[n] = Nil
    /\ DOMAIN todo = Devices
    /\ \A d \in Devices : todo[d] \subseteq DOMAIN TagsOf(d)
    /\ phase # "serve" => \A d \in Devices : todo[d] = {} /\ record[d] = NoRecord

LEMMA NodesInit == Init => NodeTypes
BY DEF Init, NodeTypes

LEMMA NodesNext == LoadInv /\ NodeTypes /\ [Next]_vars => NodeTypes'
<1> SUFFICES ASSUME LoadInv, NodeTypes, [Next]_vars PROVE NodeTypes'
  OBVIOUS
<1> USE DEF NodeTypes, TagsOf
<1>1. CASE NextPack \/ NextTag \/ NextDevice
  <2>1. UNCHANGED <<nodes, before, todo, record>> /\ phase # "serve" /\ phase' # "serve"
    BY <1>1 DEF NextPack, NextTag, NextDevice
  <2> QED
    BY <2>1
<1>2. CASE CreateDeviceNodes
  <2>1. /\ phase' = "serve" /\ before' = nodes' /\ UNCHANGED todo
        /\ nodes' = [n \in NodeIds |-> ZeroValue(TagsOf(n[1])[n[2]])]
    BY <1>2 DEF CreateDeviceNodes
  <2> QED
    BY <2>1, ZeroTyped
<1>3. ASSUME NEW d \in Devices, Update(d) PROVE NodeTypes'
  <2>1. UNCHANGED <<phase, nodes, before>> /\ todo' = [todo EXCEPT ![d] = DOMAIN TagsOf(d)] /\ phase = "serve"
    BY <1>3 DEF Update
  <2> QED
    BY <2>1
<1>4. ASSUME NEW d \in Devices, UpdateTag(d) PROVE NodeTypes'
  <2>0. PICK t \in todo[d] :
           /\ todo' = [todo EXCEPT ![d] = @ \ {t}]
           /\ \E value \in Converted(record[d], t, TagsOf(d)[t]) : UpdateNode(<<d, t>>, value)
    BY <1>4 DEF UpdateTag
  <2>1. PICK value \in Converted(record[d], t, TagsOf(d)[t]) :
           /\ todo' = [todo EXCEPT ![d] = @ \ {t}]
           /\ UpdateNode(<<d, t>>, value)
           /\ UNCHANGED <<phase, record, before>>
    BY <1>4, <2>0 DEF UpdateTag
  <2>2. CASE value = Nil \/ <<d, t>> \notin DOMAIN nodes
    BY <2>1, <2>2 DEF UpdateNode
  <2>3. CASE value # Nil /\ <<d, t>> \in DOMAIN nodes
    <3>1. nodes' = [nodes EXCEPT ![<<d, t>>] = value]
      BY <2>1, <2>3 DEF UpdateNode
    <3>2. TagsOf(d)[t] \in Known /\ Typed(value, TagsOf(d)[t])
      BY <2>1, <2>3, ConvertedTyped
    <3> QED
      BY <2>1, <2>3, <3>1, <3>2
  <2> QED
    BY <2>2, <2>3
<1>5. ASSUME NEW d \in Devices, Fprintln(d) PROVE NodeTypes'
  <2>1. /\ UNCHANGED <<phase, nodes, todo>> /\ DOMAIN before' = DOMAIN nodes
        /\ phase = "serve"
    BY <1>5 DEF Fprintln
  <2> QED
    BY <2>1
<1>6. CASE UNCHANGED vars
  BY <1>6 DEF vars
<1> QED
  BY <1>1, <1>2, <1>3, <1>4, <1>5, <1>6 DEF Next

LEMMA NodesAlways == Spec => [](LoadInv /\ NodeTypes)
BY LoadAlways, NodesInit, NodesNext, PTL DEF Spec

\* The nodes are there as long as the collectors run, and each keeps its type whatever
\* the records say.
THEOREM NodesKeepTheirTypes == Spec => []TypeOK
<1>1. LoadInv /\ NodeTypes => TypeOK
  BY ZeroTyped DEF LoadInv, LoadTypes, NodeTypes, Typed, TypeOK
<1> QED
  BY <1>1, NodesAlways, PTL

-----------------------------------------------------------------------------
(* What a record says: the values of the getters, the maps of AxisMaps.     *)

IsValue(value) ==
    \/ IsPlain(value)
    \/ /\ Len(value) = 2 /\ value[1] = "map"
       /\ \A a \in DOMAIN value[2] : value[2][a] \in Int

\* A set of positions has a first and a last one.
LEMMA HasMin ==
    ASSUME NEW n \in Nat, NEW T \in SUBSET (1 .. n), T # {}
    PROVE  Min(T) \in T /\ \A y \in T : Min(T) <= y
<1>1. T \subseteq Nat
  OBVIOUS
<1>2. PICK m \in T : \A y \in T : ~(<<y, m>> \in OpToRel(<, Nat))
  BY <1>1, NatLessThanWellFounded, WFMin
<1>3. \A y \in T : ~(y < m)
  BY <1>1, <1>2 DEF OpToRel
<1>4. \A y \in T : m <= y
  <2>1. \A y \in T : y \in Nat /\ m \in Nat
    BY <1>1
  <2> QED
    BY <1>3, <2>1
<1> QED
  BY <1>4, Zenon DEF Min

LEMMA HasMax ==
    ASSUME NEW n \in Nat, NEW T \in SUBSET (1 .. n), T # {}
    PROVE  Max(T) \in T
<1> DEFINE S == {n - x : x \in T}
<1>1. S \subseteq Nat /\ S # {}
  <2>1. \A x \in T : x \in 1 .. n /\ n - x \in Nat
    OBVIOUS
  <2> QED
    BY <2>1
<1>2. PICK m \in S : \A y \in S : ~(<<y, m>> \in OpToRel(<, Nat))
  <2> HIDE DEF S
  <2> QED
  BY <1>1, NatLessThanWellFounded, WFMin
<1>3. \A y \in S : ~(y < m)
  BY <1>1, <1>2 DEF OpToRel
<1>4. PICK x \in T : m = n - x
  OBVIOUS
<1>5. ASSUME NEW y \in T PROVE x >= y
  <2>1. x \in 1 .. n /\ y \in 1 .. n
    OBVIOUS
  <2>2. n - y \in S
    OBVIOUS
  <2>3. ~(n - y < n - x)
    BY <1>3, <1>4, <2>2
  <2> QED
    BY <2>1, <2>3
<1>6. \E z \in T : \A y \in T : z >= y
  BY <1>5
<1> QED
  BY <1>6, Zenon DEF Max

LEMMA ScaleIsInteger ==
    ASSUME NEW x \in Int, NEW k \in Nat \ {0}
    PROVE  x * (Unit \div k) \in Int /\ x * Unit \in Int
<1>1. Unit \div k \in Int
  BY AddressSpaceAssumption, Z3
<1> QED
  BY <1>1, AddressSpaceAssumption

\* Whatever the CNC reports, the values of the map are numbers.
LEMMA MapsHaveNumbers ==
    ASSUME NEW tag \in DOMAIN Buffers, NEW buf \in Buffers[tag], NEW a \in DOMAIN MapOf(tag, buf)
    PROVE  MapOf(tag, buf)[a] \in Int
<1> DEFINE taken == {i \in DOMAIN buf : Taken(tag, buf[i])}
           named == {i \in taken : NameOf(tag, buf[i]) = a}
           k == Max(named)
<1>1. a \in {NameOf(tag, buf[i]) : i \in taken} /\ MapOf(tag, buf)[a] = ValueOf(tag, buf[k])
  BY DEF MapOf
<1>2. named # {} /\ named \subseteq 1 .. Len(buf) /\ Len(buf) \in Nat
  BY <1>1, AddressSpaceAssumption
<1>3. k \in DOMAIN buf
  <2>1. k \in named
    <3> HIDE DEF named
    <3> QED
      BY <1>2, HasMax
  <2> QED
    BY <2>1
<1>4. buf[k].data \in Int /\ 10 ^ buf[k].dec \in Nat \ {0}
  <2> HIDE DEF k
  <2> QED
    BY <1>3, AddressSpaceAssumption
<1>5. ValueOf(tag, buf[k]) \in Int
  <2> HIDE DEF k
  <2> QED
    BY <1>4, ScaleIsInteger DEF ValueOf
<1> QED
  BY <1>1, <1>5

\* What the actions of a selection are chosen from.
LEMMA SelectionIs ==
    ASSUME NEW tags, NEW choices, NEW f \in Selections(tags, choices)
    PROVE  DOMAIN f = tags /\ \A t \in tags : f[t] \in choices[t]
BY DEF Selections

\* The tag power_on is in every record.
LEMMA PowerIsRecorded ==
    ASSUME NEW d \in Devices, NEW single, NEW buf, NEW errors
    PROVE  /\ "power_on" \in DOMAIN PowerOffRecord(d)
           /\ "power_on" \in DOMAIN ScanRecord(d, single, buf, errors)
BY DEF PowerOffRecord, ScanRecord

\* The record of a scan has each value under its own tag: the value of a getter, the
\* map of every getter that was given a buffer, the error codes and the default tags.
LEMMA RecordIs ==
    ASSUME NEW d \in Devices, NEW single, NEW errors, NEW buf,
           DOMAIN single \subseteq DOMAIN Answers, DOMAIN buf \subseteq DOMAIN Buffers,
           NEW tag \in DOMAIN ScanRecord(d, single, buf, errors)
    PROVE  LET value == ScanRecord(d, single, buf, errors)[tag]
               E == ErrorsOf(d, errors)
           IN  /\ tag \in DOMAIN single => value = single[tag]
               /\ tag \in DOMAIN buf => value = <<"map", MapOf(tag, buf[tag])>>
               /\ tag = "power_on" => value = <<"number", Unit>>
               /\ tag \in DOMAIN E => value = E[tag]
               /\ tag \notin DOMAIN single \union DOMAIN buf \union {"power_on"} \union DOMAIN E
                     => tag \in DOMAIN Identity[d] /\ value = Identity[d][tag]
<1> DEFINE E == ErrorsOf(d, errors)
<1>1. tag \in DOMAIN Identity[d] \union {"power_on"} \union DOMAIN single \union DOMAIN buf
                \union DOMAIN E
  BY DEF ScanRecord
<1>2. ScanRecord(d, single, buf, errors)[tag] =
         CASE tag \in DOMAIN single -> single[tag]
           [] tag \in DOMAIN buf -> <<"map", MapOf(tag, buf[tag])>>
           [] tag = "power_on" -> <<"number", Unit>>
           [] tag \in DOMAIN E -> E[tag]
           [] OTHER -> Identity[d][tag]
  BY <1>1, Zenon DEF ScanRecord
<1>3. DOMAIN E \subseteq {"errors"}
  BY DEF ErrorsOf
<1>4. /\ DOMAIN single \cap (DOMAIN buf \union {"power_on", "errors"}) = {}
      /\ DOMAIN buf \cap {"power_on", "errors"} = {}
  BY AddressSpaceAssumption
<1> HIDE DEF E
<1>5. CASE tag \in DOMAIN single
  BY <1>2, <1>3, <1>4, <1>5 DEF E
<1>6. CASE tag \in DOMAIN buf
  BY <1>2, <1>3, <1>4, <1>6 DEF E
<1>7. CASE tag = "power_on"
  BY <1>2, <1>3, <1>4, <1>7 DEF E
<1>8. CASE tag \in DOMAIN E
  BY <1>2, <1>3, <1>4, <1>8 DEF E
<1>9. CASE tag \notin DOMAIN single \union DOMAIN buf \union {"power_on"} \union DOMAIN E
  BY <1>1, <1>2, <1>9 DEF E
<1> QED
  BY <1>5, <1>6, <1>7, <1>8, <1>9 DEF E

\* The record of a scan has the map of every getter that was given a buffer.
LEMMA MapsAreRecorded ==
    ASSUME NEW d \in Devices, NEW single, NEW errors, NEW buf, NEW tag \in DOMAIN buf,
           DOMAIN single \subseteq DOMAIN Answers, DOMAIN buf \subseteq DOMAIN Buffers
    PROVE  /\ tag \in DOMAIN ScanRecord(d, single, buf, errors)
           /\ ScanRecord(d, single, buf, errors)[tag] = <<"map", MapOf(tag, buf[tag])>>
<1>1. tag \in DOMAIN ScanRecord(d, single, buf, errors)
  BY DEF ScanRecord
<1> QED
  BY <1>1, RecordIs

\* So are those of the map of the error codes.
LEMMA ErrorsHaveNumbers ==
    ASSUME NEW d \in Devices, NEW called, NEW errors \in [called -> {0} \union ErrorCodes],
           NEW tag \in DOMAIN ErrorsOf(d, errors)
    PROVE  IsValue(ErrorsOf(d, errors)[tag])
<1> DEFINE m == [a \in {<<u>> : u \in DOMAIN errors} |-> errors[a[1]] * Unit]
<1>1. ErrorsOf(d, errors)[tag] = <<"map", m>>
  BY DEF ErrorsOf
<1>2. ASSUME NEW a \in DOMAIN m PROVE m[a] \in Int
  <2>1. PICK u \in DOMAIN errors : a = <<u>>
    BY <1>2
  <2>2. errors[u] \in Int
    <3>1. errors[u] \in {0} \union ErrorCodes
      BY <2>1
    <3>2. {0} \union ErrorCodes \subseteq Int
      BY AddressSpaceAssumption
    <3> QED
      BY <3>1, <3>2, Zenon
  <2>3. m[a] = errors[u] * Unit
    BY <2>1
  <2>4. errors[u] * Unit \in Int
    BY <2>2, AddressSpaceAssumption
  <2> QED
    BY <2>3, <2>4
<1> HIDE DEF m
<1> QED
  BY <1>1, <1>2 DEF IsValue

LEMMA RecordsHaveValues ==
    ASSUME DOMAIN record = Devices, NEW d \in Devices, Update(d), NEW tag \in DOMAIN record'[d]
    PROVE  IsValue(record'[d][tag])
<1>1. IsPlain(<<"number", 0>>) /\ IsPlain(<<"number", Unit>>)
  BY AddressSpaceAssumption DEF IsPlain
<1>2. CASE record' = [record EXCEPT ![d] = PowerOffRecord(d)]
  BY <1>1, <1>2, AddressSpaceAssumption DEF PowerOffRecord, IsValue
<1>3. ASSUME NEW called, NEW errors \in [called -> {0} \union ErrorCodes], NEW good,
             NEW single \in Selections(good \cap DOMAIN Answers, Answers),
             NEW buf \in Selections(good \cap DOMAIN Buffers, Buffers),
             record' = [record EXCEPT ![d] = ScanRecord(d, single, buf, errors)]
      PROVE  IsValue(record'[d][tag])
  <2>1. /\ DOMAIN single = good \cap DOMAIN Answers /\ \A t \in DOMAIN single : single[t] \in Answers[t]
        /\ DOMAIN buf = good \cap DOMAIN Buffers /\ \A t \in DOMAIN buf : buf[t] \in Buffers[t]
    BY <1>3 DEF Selections
  <2>2. record'[d] = ScanRecord(d, single, buf, errors)
    BY <1>3
  <2>3. CASE tag \in DOMAIN single
    <3>1. record'[d][tag] = single[tag] /\ tag \in DOMAIN Answers /\ single[tag] \in Answers[tag]
      BY <2>1, <2>2, <2>3, RecordIs
    <3> QED
      BY <3>1, AddressSpaceAssumption DEF IsValue
  <2>4. CASE tag \notin DOMAIN single /\ tag \in DOMAIN buf
    <3> DEFINE m == MapOf(tag, buf[tag])
    <3>1. record'[d][tag] = <<"map", m>>
      <4>1. DOMAIN single \subseteq DOMAIN Answers /\ DOMAIN buf \subseteq DOMAIN Buffers
        BY <2>1
      <4>2. ScanRecord(d, single, buf, errors)[tag] = <<"map", MapOf(tag, buf[tag])>>
        BY <2>4, <4>1, MapsAreRecorded
      <4> QED
        BY <2>2, <4>2
    <3>2. \A a \in DOMAIN m : m[a] \in Int
      BY <2>1, <2>4, MapsHaveNumbers
    <3> HIDE DEF m
    <3> QED
      BY <3>1, <3>2 DEF IsValue
  <2>5. CASE tag \notin DOMAIN single /\ tag \notin DOMAIN buf /\ tag = "power_on"
    BY <1>1, <2>1, <2>2, <2>5, RecordIs DEF IsValue
  <2>6. CASE /\ tag \notin DOMAIN single /\ tag \notin DOMAIN buf /\ tag # "power_on"
             /\ tag \in DOMAIN ErrorsOf(d, errors)
    <3>1. record'[d][tag] = ErrorsOf(d, errors)[tag]
      BY <2>1, <2>2, <2>6, RecordIs
    <3> QED
      BY <1>3, <2>6, <3>1, ErrorsHaveNumbers
  <2>7. CASE /\ tag \notin DOMAIN single /\ tag \notin DOMAIN buf /\ tag # "power_on"
             /\ tag \notin DOMAIN ErrorsOf(d, errors)
    <3>1. tag \in DOMAIN Identity[d] /\ record'[d][tag] = Identity[d][tag]
      BY <2>1, <2>2, <2>7, RecordIs
    <3> QED
      BY <3>1, AddressSpaceAssumption DEF IsValue
  <2> QED
    BY <2>3, <2>4, <2>5, <2>6, <2>7
<1> QED
  BY <1>2, <1>3 DEF Update

-----------------------------------------------------------------------------
(* What a node shows.                                                       *)

\* A number without its fraction is less than one away.
LEMMA TruncNear ==
    ASSUME NEW n \in Int, Unit \in Nat \ {0}
    PROVE  Trunc(n) \in Int /\ Trunc(n) * Unit - n \in (1 - Unit) .. (Unit - 1)
<1>1. ASSUME NEW m \in Nat PROVE /\ m \div Unit \in Int
                                 /\ (m \div Unit) * Unit - m \in (1 - Unit) .. 0
  BY Z3
<1>2. CASE n >= 0
  BY <1>1, <1>2 DEF Trunc
<1>3. CASE n < 0
  <2> DEFINE q == (-n) \div Unit
  <2>1. q \in Int /\ q * Unit - (-n) \in (1 - Unit) .. 0
    BY <1>1, <1>3
  <2>2. Trunc(n) = -q
    BY <1>3 DEF Trunc
  <2> HIDE DEF q
  <2>3. (-q) * Unit = -(q * Unit)
    BY <2>1
  <2> QED
    BY <2>1, <2>2, <2>3
<1> QED
  BY <1>2, <1>3


\* The statements of a record that a node of the type takes.
Taking(rec, t, type) == {s \in Said(rec, t) : s[1] = Takes(t, type)}

\* A conversion gives nothing exactly when the record says nothing that the node takes,
\* and otherwise a value that shows it.
LEMMA PlainIsShown ==
    ASSUME NEW rec, NEW t, NEW type, NEW value \in Converted(rec, t, type), Len(t) = 1,
           \A tag \in DOMAIN rec : IsValue(rec[tag])
    PROVE  IF value = Nil THEN Taking(rec, t, type) = {}
           ELSE \E s \in Taking(rec, t, type) : Shows(value, s)
<1> DEFINE from == ValueAt(rec, t[1])
<1>1. value \in ConvertValueByType(from, type)
  BY DEF Converted
<1>2. CASE from = Nil
  BY <1>1, <1>2 DEF ConvertValueByType, Taking, Said
<1>3. CASE from # Nil
  <2>1. Said(rec, t) = {from}
    BY <1>3 DEF Said
  <2>2. IsValue(from)
    BY <1>3 DEF ValueAt
  <2> HIDE DEF from
  <2>3. CASE from[1] = "number" /\ type \in Narrow \union {"int64"}
    <3>1. Takes(t, type) = "number"
      BY <2>3 DEF Takes, Narrow
    <3>2. from[2] \in Int
      BY <2>2, <2>3 DEF IsValue, IsPlain
    <3>3. value \in ToInteger(from[2], type)
      BY <1>1, <1>3, <2>3 DEF ConvertValueByType, Narrow
    <3>4. value # Nil /\ value[1] = type
      BY <3>3, Pairs DEF ToInteger
    <3>5. CASE type \in Narrow /\ ~Fits(from[2], type)
      BY <2>1, <2>3, <3>1, <3>4, <3>5 DEF Taking, Shows
    <3>6. CASE ~(type \in Narrow /\ ~Fits(from[2], type))
      <4>1. value[2] = Trunc(from[2])
        BY <3>3, <3>6 DEF ToInteger
      <4> QED
        BY <2>1, <2>3, <3>1, <3>2, <3>4, <4>1, TruncNear, AddressSpaceAssumption
           DEF Taking, Shows
    <3> QED
      BY <3>5, <3>6
  <2>4. CASE from[1] = "number" /\ type = "float64"
    <3>1. Takes(t, type) = "number"
      BY <2>4 DEF Takes, Narrow
    <3>2. value = <<type, from[2]>>
      BY <1>1, <1>3, <2>4 DEF ConvertValueByType, Narrow
    <3> QED
      BY <2>1, <2>4, <3>1, <3>2, Pairs DEF Taking, Shows
  <2>5. CASE from[1] = "string" /\ type = "string"
    <3>1. Takes(t, type) = "string"
      BY <2>5 DEF Takes, Narrow
    <3>2. value = <<type, from[2]>>
      BY <1>1, <1>3, <2>5 DEF ConvertValueByType, Narrow
    <3> QED
      BY <2>1, <2>5, <3>1, <3>2, Pairs DEF Taking, Shows
  <2>6. CASE /\ ~(from[1] = "number" /\ type \in Narrow \union {"int64", "float64"})
             /\ ~(from[1] = "string" /\ type = "string")
    <3>1. value = Nil
      BY <1>1, <1>3, <2>6 DEF ConvertValueByType
    <3>2. from[1] # Takes(t, type)
      BY <2>2, <2>6 DEF Takes, IsValue, IsPlain
    <3> QED
      BY <2>1, <3>1, <3>2 DEF Taking
  <2> QED
    BY <2>3, <2>4, <2>5, <2>6
<1> QED
  BY <1>2, <1>3

LEMMA AxisValueIsShown ==
    ASSUME NEW rec, NEW t, NEW type, NEW value \in Converted(rec, t, type), Len(t) = 2,
           \A tag \in DOMAIN rec : IsValue(rec[tag])
    PROVE  IF value = Nil THEN Taking(rec, t, type) = {}
           ELSE \E s \in Taking(rec, t, type) : Shows(value, s)
<1> DEFINE from == ValueAt(rec, t[1])
           axes == Forms[t[2]] \cap DOMAIN from[2]
<1>1. value \in ConvertMapValueAtKey(t[2], from, type)
  BY DEF Converted
<1>2. CASE ~(from # Nil /\ from[1] = "map")
  <2>1. Said(rec, t) = {}
    BY <1>2 DEF Said
  <2>2. value = Nil
    BY <1>1, <1>2 DEF ConvertMapValueAtKey
  <2> QED
    BY <2>1, <2>2 DEF Taking
<1>3. CASE from # Nil /\ from[1] = "map" /\ type \notin {"int64", "float64"}
  <2>1. value = Nil
    BY <1>1, <1>3 DEF ConvertMapValueAtKey
  <2>2. Takes(t, type) = "nothing"
    BY <1>3 DEF Takes
  <2>3. Said(rec, t) \subseteq {<<"number", from[2][a]>> : a \in axes} \union {<<"number", 0>>}
    BY <1>3 DEF Said
  <2> QED
    BY <2>1, <2>2, <2>3 DEF Taking
<1>4. CASE from # Nil /\ from[1] = "map" /\ type \in {"int64", "float64"}
  <2>1. Takes(t, type) = "number"
    BY <1>4 DEF Takes, Narrow
  <2>2. \A a \in DOMAIN from[2] : from[2][a] \in Int
    BY <1>4 DEF ValueAt, IsValue, IsPlain
  <2>3. PICK x \in Int : /\ <<"number", x>> \in Said(rec, t)
                         /\ value = <<type, IF type = "int64" THEN Trunc(x) ELSE x>>
    <3>1. CASE axes = {}
      <4>1. Said(rec, t) = {<<"number", 0>>} /\ value = <<type, 0>>
        BY <1>1, <1>4, <3>1 DEF Said, ConvertMapValueAtKey
      <4>2. Trunc(0) = 0
        BY AddressSpaceAssumption, Z3 DEF Trunc
      <4> QED
        BY <4>1, <4>2
    <3>2. CASE axes # {}
      <4>1. PICK a \in axes : value = <<type, IF type = "int64" THEN Trunc(from[2][a]) ELSE from[2][a]>>
        BY <1>1, <1>4, <3>2 DEF ConvertMapValueAtKey
      <4>2. <<"number", from[2][a]>> \in Said(rec, t)
        BY <1>4, <3>2 DEF Said
      <4> QED
        BY <2>2, <4>1, <4>2
    <3> QED
      BY <3>1, <3>2
  <2>4. value # Nil /\ value[1] = type
    BY <2>3, Pairs
  <2>5. Shows(value, <<"number", x>>)
    BY <1>4, <2>3, <2>4, TruncNear, AddressSpaceAssumption DEF Shows, Narrow
  <2> QED
    BY <2>1, <2>3, <2>4, <2>5 DEF Taking
<1> QED
  BY <1>2, <1>3, <1>4

\* What PrintedIsShown asks of a node.
Agrees(n) ==
    LET said == Taking(record[n[1]], n[2], TagsOf(n[1])[n[2]])
    IN  IF said = {} THEN nodes[n] = before[n] ELSE \E s \in said : Shows(nodes[n], s)

\* A node is as it was at the last line of its device until the loop of the update
\* comes to it; from then on it agrees with the record.
Settled ==
    /\ DOMAIN record = Devices
    /\ \A d \in Devices : \A tag \in DOMAIN record[d] : IsValue(record[d][tag])
    /\ \A d \in Devices : record[d] = NoRecord => todo[d] = {}
    /\ \A n \in DOMAIN nodes :
          IF record[n[1]] = NoRecord \/ n[2] \in todo[n[1]]
          THEN nodes[n] = before[n] ELSE Agrees(n)

\* A node has a device, and a tag name of one or two parts.
LEMMA NodesAreTags ==
    ASSUME NEW n \in NodeIds
    PROVE  /\ n = <<n[1], n[2]>> /\ n[1] \in Devices
           /\ n[2] \in DOMAIN TagsOf(n[1]) /\ Len(n[2]) \in {1, 2}
<1>1. PICK d \in Devices : \E t \in DOMAIN TagsOf(d) : n = <<d, t>> /\ Len(t) <= 2
  BY DEF NodeIds
<1>2. PICK t \in DOMAIN TagsOf(d) : n = <<d, t>> /\ Len(t) <= 2
  BY <1>1
<1>3. \E p \in DOMAIN TagPacks : t \in DOMAIN TagPacks[p]
  BY <1>2 DEF TagsOf, NoTags
<1>4. Len(t) \in Nat \ {0}
  BY <1>3, AddressSpaceAssumption
<1>5. Len(t) \in {1, 2}
  <2>1. \A k \in Nat \ {0} : k <= 2 => k \in {1, 2}
    OBVIOUS
  <2> QED
    BY <1>2, <1>4, <2>1, Zenon
<1>6. n[1] = d /\ n[2] = t /\ n = <<n[1], n[2]>>
  BY <1>2
<1> QED
  BY <1>2, <1>5, <1>6

LEMMA SettledInit == Init => Settled
BY DEF Init, Settled, NoRecord

LEMMA SettledUpdate ==
    ASSUME NodeTypes, Settled, NEW d \in Devices, Update(d)
    PROVE  Settled'
<1>1. /\ phase = "serve" /\ record[d] = NoRecord /\ UNCHANGED <<nodes, before>>
      /\ todo' = [todo EXCEPT ![d] = DOMAIN TagsOf(d)] /\ DOMAIN nodes = NodeIds
  BY DEF Update, NodeTypes
<1>2. PICK r : record' = [record EXCEPT ![d] = r] /\ "power_on" \in DOMAIN r
  BY PowerIsRecorded DEF Update
<1>3. record'[d] # NoRecord
  BY <1>2 DEF NoRecord, Settled
<1>4. \A e \in Devices : \A tag \in DOMAIN record'[e] : IsValue(record'[e][tag])
  <2>1. ASSUME NEW e \in Devices, e # d PROVE record'[e] = record[e]
    BY <1>2, <2>1 DEF Settled
  <2>2. \A tag \in DOMAIN record'[d] : IsValue(record'[d][tag])
    BY RecordsHaveValues DEF Settled
  <2> QED
    BY <2>1, <2>2 DEF Settled
<1>5. ASSUME NEW n \in DOMAIN nodes'
      PROVE  IF record'[n[1]] = NoRecord \/ n[2] \in todo'[n[1]]
             THEN nodes'[n] = before'[n] ELSE Agrees(n)'
  <2>1. n \in NodeIds /\ n[1] \in Devices /\ n[2] \in DOMAIN TagsOf(n[1])
    BY <1>1, <1>5, NodesAreTags
  <2>2. CASE n[1] = d
    BY <1>1, <2>1, <2>2 DEF Settled, NodeTypes
  <2>3. CASE n[1] # d
    <3>1. record'[n[1]] = record[n[1]] /\ todo'[n[1]] = todo[n[1]]
      BY <1>1, <1>2, <2>1, <2>3 DEF Settled, NodeTypes
    <3> QED
      BY <1>1, <3>1 DEF Settled, Agrees, TagsOf
  <2> QED
    BY <2>2, <2>3
<1>6. DOMAIN record' = Devices
  BY <1>2 DEF Settled
<1>7. \A e \in Devices : record'[e] = NoRecord => todo'[e] = {}
  BY <1>1, <1>2, <1>3 DEF Settled, NodeTypes
<1> QED
  BY <1>4, <1>5, <1>6, <1>7 DEF Settled

LEMMA SettledTag ==
    ASSUME NodeTypes, Settled, NEW d \in Devices, UpdateTag(d)
    PROVE  Settled'
<1>0. PICK t \in todo[d] :
         /\ todo' = [todo EXCEPT ![d] = @ \ {t}]
         /\ \E value \in Converted(record[d], t, TagsOf(d)[t]) : UpdateNode(<<d, t>>, value)
  BY DEF UpdateTag
<1>1. PICK value \in Converted(record[d], t, TagsOf(d)[t]) :
         todo' = [todo EXCEPT ![d] = @ \ {t}] /\ UpdateNode(<<d, t>>, value)
  BY <1>0
<1>2. UNCHANGED <<record, before>> /\ DOMAIN nodes' = DOMAIN nodes
  BY <1>1 DEF UpdateTag, UpdateNode
<1>3. record[d] # NoRecord /\ phase = "serve" /\ DOMAIN nodes = NodeIds
  BY <1>1 DEF Settled, NodeTypes
<1>4. ASSUME NEW n \in DOMAIN nodes
      PROVE  IF record'[n[1]] = NoRecord \/ n[2] \in todo'[n[1]]
             THEN nodes'[n] = before'[n] ELSE Agrees(n)'
  <2>1. n = <<n[1], n[2]>> /\ n[1] \in Devices /\ Len(n[2]) \in {1, 2}
    BY <1>3, NodesAreTags
  <2>2. CASE n = <<d, t>>
    <3>1. t \notin todo'[d] /\ n[1] = d /\ n[2] = t /\ nodes[n] = before[n]
      BY <1>1, <2>2 DEF Settled, NodeTypes
    <3>2. nodes'[n] = IF value = Nil THEN nodes[n] ELSE value
      BY <1>1, <2>2 DEF UpdateNode
    <3>3. IF value = Nil THEN Taking(record[d], t, TagsOf(d)[t]) = {}
          ELSE \E s \in Taking(record[d], t, TagsOf(d)[t]) : Shows(value, s)
      BY <1>1, <2>1, <3>1, PlainIsShown, AxisValueIsShown DEF Settled
    <3>4. Agrees(n)'
      BY <1>2, <3>1, <3>2, <3>3 DEF Agrees, TagsOf
    <3> QED
      BY <1>2, <1>3, <3>1, <3>4
  <2>3. CASE n # <<d, t>>
    <3>1. nodes'[n] = nodes[n]
      BY <1>1, <2>3 DEF UpdateNode
    <3>2. n[2] \in todo'[n[1]] <=> n[2] \in todo[n[1]]
      BY <1>1, <2>1, <2>3 DEF NodeTypes
    <3> QED
      BY <1>2, <3>1, <3>2 DEF Settled, Agrees, TagsOf
  <2> QED
    BY <2>2, <2>3
<1>5. \A e \in Devices : record'[e] = NoRecord => todo'[e] = {}
  BY <1>1, <1>2, <1>3 DEF Settled, NodeTypes
<1> QED
  BY <1>2, <1>4, <1>5 DEF Settled

LEMMA SettledPrint ==
    ASSUME NodeTypes, Settled, NEW d \in Devices, Fprintln(d)
    PROVE  Settled'
<1>1. /\ todo[d] = {} /\ UNCHANGED <<nodes, todo>>
      /\ record' = [record EXCEPT ![d] = NoRecord]
      /\ before' = [n \in DOMAIN nodes |-> IF n[1] = d THEN nodes[n] ELSE before[n]]
  BY DEF Fprintln
<1>2. \A e \in Devices : record'[e] = IF e = d THEN NoRecord ELSE record[e]
  BY <1>1 DEF Settled
<1>3. ASSUME NEW n \in DOMAIN nodes, n[1] \in Devices
      PROVE  IF record'[n[1]] = NoRecord \/ n[2] \in todo'[n[1]]
             THEN nodes'[n] = before'[n] ELSE Agrees(n)'
  <2>1. CASE n[1] = d
    BY <1>1, <1>2, <2>1
  <2>2. CASE n[1] # d
    BY <1>1, <1>2, <1>3, <2>2 DEF Settled, Agrees, TagsOf
  <2> QED
    BY <2>1, <2>2
<1>4. \A n \in DOMAIN nodes : n[1] \in Devices
  BY NodesAreTags DEF NodeTypes
<1>5. \A e \in Devices : \A tag \in DOMAIN record'[e] : IsValue(record'[e][tag])
  BY <1>2 DEF Settled, NoRecord
<1>6. \A e \in Devices : record'[e] = NoRecord => todo'[e] = {}
  BY <1>1, <1>2 DEF Settled
<1>7. DOMAIN record' = Devices
  BY <1>1 DEF Settled
<1> QED
  BY <1>1, <1>3, <1>4, <1>5, <1>6, <1>7 DEF Settled

LEMMA SettledNext == LoadInv /\ NodeTypes /\ Settled /\ [Next]_vars => Settled'
<1> SUFFICES ASSUME LoadInv, NodeTypes, Settled, [Next]_vars PROVE Settled'
  OBVIOUS
<1>1. CASE NextPack \/ NextTag \/ NextDevice
  <2>1. UNCHANGED <<nodes, before, todo, record>>
    BY <1>1 DEF NextPack, NextTag, NextDevice
  <2> QED
    BY <2>1 DEF Settled, Agrees, TagsOf
<1>2. CASE CreateDeviceNodes
  <2>1. before' = nodes' /\ UNCHANGED <<todo, record>> /\ DOMAIN nodes' = NodeIds
        /\ phase # "serve"
    BY <1>2 DEF CreateDeviceNodes
  <2>2. \A n \in NodeIds : n[1] \in Devices /\ record[n[1]] = NoRecord
    BY <2>1, NodesAreTags DEF NodeTypes
  <2> QED
    BY <2>1, <2>2 DEF Settled
<1>3. CASE UNCHANGED vars
  BY <1>3 DEF vars, Settled, Agrees, TagsOf
<1> QED
  BY <1>1, <1>2, <1>3, SettledUpdate, SettledTag, SettledPrint DEF Next

LEMMA SettledAlways == Spec => [](LoadInv /\ NodeTypes /\ Settled)
BY LoadAlways, NodesAlways, SettledInit, SettledNext, PTL DEF Spec

\* Whenever a record is printed, every node of the device agrees with it, for any
\* number of devices whose updates interleave in any way.
THEOREM NodesShowWhatIsPrinted == Spec => PrintedIsShown
<1>1. ASSUME NodeTypes, Settled, [Next]_vars, NEW n \in DOMAIN nodes, Fprintln(n[1])
      PROVE  Agrees(n)
  BY <1>1 DEF Settled, Fprintln
<1>2. LoadInv /\ NodeTypes /\ Settled /\ [Next]_vars =>
         [\A n \in DOMAIN nodes : Fprintln(n[1]) => Agrees(n)]_vars
  BY <1>1
<1> QED
  BY <1>2, SettledAlways, PTL DEF Spec, PrintedIsShown, Agrees, Taking

-----------------------------------------------------------------------------
(* From the buffer of the CNC to the node.                                  *)

\* The name is what stands before the first Nul.
LEMMA FullNameIs ==
    ASSUME NEW el, NEW S, el.name \in Seq(S)
    PROVE  LET k == Len(FullName(el))
           IN  /\ k \in 0 .. Len(el.name)
               /\ FullName(el) = SubSeq(el.name, 1, k)
               /\ FullName(el) \in Seq(S)
               /\ \A i \in 1 .. k : el.name[i] # Nul
               /\ k < Len(el.name) => el.name[k + 1] = Nul
<1> DEFINE ends == {i \in DOMAIN el.name : el.name[i] = Nul}
<1>1. Len(el.name) \in Nat /\ DOMAIN el.name = 1 .. Len(el.name)
  OBVIOUS
<1>2. CASE ends = {}
  <2>1. FullName(el) = el.name
    BY <1>2 DEF FullName
  <2>2. SubSeq(el.name, 1, Len(el.name)) = el.name
    OBVIOUS
  <2> QED
    BY <1>1, <1>2, <2>1, <2>2
<1>3. CASE ends # {}
  <2> DEFINE m == Min(ends)
  <2>1. m \in ends /\ \A y \in ends : m <= y
    <3>1. ends \in SUBSET (1 .. Len(el.name))
      BY <1>1
    <3> HIDE DEF ends
    <3> QED
      BY <1>1, <1>3, <3>1, HasMin
  <2>2. FullName(el) = SubSeq(el.name, 1, m - 1)
    BY <1>3 DEF FullName
  <2> HIDE DEF m
  <2>3. m \in 1 .. Len(el.name) /\ el.name[m] = Nul
    BY <1>1, <2>1
  <2>4. \A i \in 1 .. m - 1 : el.name[i] # Nul
    <3>1. ASSUME NEW i \in 1 .. m - 1, el.name[i] = Nul PROVE FALSE
      <4>1. i \in ends
        BY <1>1, <2>3, <3>1
      <4> QED
        BY <2>1, <2>3, <4>1
    <3> QED
      BY <3>1
  <2>5. FullName(el) \in Seq(S) /\ Len(FullName(el)) = m - 1
    BY <1>1, <2>2, <2>3
  <2> QED
    BY <1>1, <2>2, <2>3, <2>4, <2>5
<1> QED
  BY <1>2, <1>3

\* A name that the getter can tell apart is its key; an element without one is passed over.
LEMMA KeyIsName ==
    ASSUME NEW tag, NEW el, NEW S, el.name \in Seq(S), Len(el.name) >= 2,
           Len(FullName(el)) \in {0} \union NameSizes(tag)
    PROVE  IF FullName(el) = <<>> THEN ~Taken(tag, el)
           ELSE NameOf(tag, el) = FullName(el) /\ (el.flag = 0 => Taken(tag, el))
<1> DEFINE k == Len(FullName(el))
<1>1. /\ k \in 0 .. Len(el.name) /\ FullName(el) = SubSeq(el.name, 1, k)
      /\ FullName(el) \in Seq(S) /\ \A i \in 1 .. k : el.name[i] # Nul
      /\ k < Len(el.name) => el.name[k + 1] = Nul
  BY FullNameIs
<1>2. FullName(el) = <<>> <=> k = 0
  BY <1>1
<1>3. CASE FullName(el) = <<>>
  <2>1. el.name[1] = Nul
    BY <1>1, <1>2, <1>3
  <2>2. NameOf(tag, el) = <<>> \/ Contains(NameOf(tag, el), Nul)
    <3>1. /\ Contains(SubSeq(el.name, 1, 1), Nul)
          /\ Contains(SubSeq(el.name, 1, 2), Nul)
      BY <2>1 DEF Contains
    <3> QED
      BY <1>3, <3>1 DEF NameOf
  <2> QED
    BY <1>3, <2>2 DEF Taken
<1>4. CASE FullName(el) # <<>>
  <2>1. k # 0 /\ k \in NameSizes(tag)
    BY <1>2, <1>4
  <2>2. NameOf(tag, el) = FullName(el)
    <3>1. CASE tag \in LetterTags
      BY <1>1, <2>1, <3>1 DEF NameOf, NameSizes, LetterTags
    <3>2. CASE tag \notin LetterTags /\ tag \in PairTags
      BY <1>1, <2>1, <3>2 DEF NameOf, NameSizes, LetterTags, PairTags
    <3>3. CASE tag \notin LetterTags /\ tag \notin PairTags
      BY <3>3 DEF NameOf
    <3> QED
      BY <3>1, <3>2, <3>3
  <2>3. ~Contains(FullName(el), Nul)
    BY <1>1 DEF Contains
  <2>4. (0 \div 2) % 2 = 0
    BY Z3
  <2> QED
    BY <1>4, <2>2, <2>3, <2>4 DEF Taken
<1> QED
  BY <1>3, <1>4

\* Of one element with a name the map has the value, under that name, whatever the
\* other elements are and in whatever order they stand.
LEMMA MapShows ==
    ASSUME NEW tag \in DOMAIN Buffers, NEW buf \in Buffers[tag], ToldApart(tag, buf),
           NEW names, NEW el, el.flag = 0,
           NEW e \in DOMAIN buf, buf[e] = el, FullName(el) \in names \ {<<>>},
           \A i \in DOMAIN buf : FullName(buf[i]) \in names \ {<<>>} => buf[i] = el
    PROVE  /\ names \cap DOMAIN MapOf(tag, buf) = {FullName(el)}
           /\ MapOf(tag, buf)[FullName(el)] = ValueOf(tag, el)
<1> DEFINE taken == {i \in DOMAIN buf : Taken(tag, buf[i])}
           named(a) == {i \in taken : NameOf(tag, buf[i]) = a}
<1>1. buf[e] = el /\ FullName(el) \in names \ {<<>>}
  OBVIOUS
<1>2. Len(buf) \in Nat /\ DOMAIN buf = 1 .. Len(buf)
  BY AddressSpaceAssumption
<1>3. ASSUME NEW i \in DOMAIN buf
      PROVE  IF FullName(buf[i]) = <<>> THEN ~Taken(tag, buf[i])
             ELSE /\ NameOf(tag, buf[i]) = FullName(buf[i])
                  /\ buf[i].flag = 0 => Taken(tag, buf[i])
  <2>1. buf[i].name \in Seq(ToSet(buf[i].name)) /\ Len(buf[i].name) >= 2
    BY AddressSpaceAssumption
  <2>2. buf[i] \in ToSet(buf)
    BY DEF ToSet
  <2>3. Len(FullName(buf[i])) \in {0} \union NameSizes(tag)
    BY <2>2 DEF ToldApart
  <2> QED
    BY <2>1, <2>3, KeyIsName
<1>4. \A i \in taken : NameOf(tag, buf[i]) \in names => buf[i] = el /\ NameOf(tag, buf[i]) = FullName(el)
  BY <1>3
<1>5. e \in named(FullName(el))
  BY <1>1, <1>3
<1>6. DOMAIN MapOf(tag, buf) = {NameOf(tag, buf[i]) : i \in taken}
  BY DEF MapOf
<1>7. names \cap DOMAIN MapOf(tag, buf) = {FullName(el)}
  BY <1>1, <1>4, <1>5, <1>6
<1>8. MapOf(tag, buf)[FullName(el)] = ValueOf(tag, buf[Max(named(FullName(el)))])
  BY <1>5 DEF MapOf
<1>9. Max(named(FullName(el))) \in named(FullName(el))
  <2> DEFINE T == named(FullName(el))
  <2>1. T \in SUBSET (1 .. Len(buf)) /\ T # {}
    BY <1>2, <1>5
  <2> HIDE DEF T
  <2>2. Max(T) \in T
    BY <1>2, <2>1, HasMax
  <2> QED
    BY <2>2 DEF T
<1>10. buf[Max(named(FullName(el)))] = el
  BY <1>1, <1>4, <1>9
<1> QED
  BY <1>7, <1>8, <1>10

\* The record that is out has the map of every buffer that was reported for it.
Recorded ==
    /\ DOMAIN reported = Devices
    /\ \A d \in Devices : record[d] = NoRecord => reported[d] = NoRecord
    /\ \A d \in Devices : \A tag \in DOMAIN reported[d] :
          /\ tag \in DOMAIN Buffers /\ reported[d][tag] \in Buffers[tag]
          /\ tag \in DOMAIN record[d]
          /\ record[d][tag] = <<"map", MapOf(tag, reported[d][tag])>>

LEMMA RecordedInit == Init => Recorded
BY DEF Init, Recorded, NoRecord

LEMMA RecordedUpdate ==
    ASSUME Settled, Recorded, NEW d \in Devices, Update(d)
    PROVE  Recorded'
<1>1. record[d] = NoRecord /\ reported[d] = NoRecord /\ DOMAIN record = Devices
  BY DEF Update, Recorded, Settled
<1>2. CASE record' = [record EXCEPT ![d] = PowerOffRecord(d)] /\ UNCHANGED reported
  <2>1. \A e \in Devices : e # d => record'[e] = record[e]
    BY <1>1, <1>2
  <2>2. DOMAIN reported[d] = {}
    BY <1>1 DEF NoRecord
  <2> QED
    BY <1>1, <1>2, <2>1, <2>2 DEF Recorded
<1>3. ASSUME NEW called, NEW errors \in [called -> {0} \union ErrorCodes], NEW good,
             NEW single \in Selections(good \cap DOMAIN Answers, Answers),
             NEW buf \in Selections(good \cap DOMAIN Buffers, Buffers),
             record' = [record EXCEPT ![d] = ScanRecord(d, single, buf, errors)],
             reported' = [reported EXCEPT ![d] = buf]
      PROVE  Recorded'
  <2>1. /\ DOMAIN single \subseteq DOMAIN Answers /\ DOMAIN buf \subseteq DOMAIN Buffers
        /\ \A t \in DOMAIN buf : buf[t] \in Buffers[t]
    BY SelectionIs
  <2>2. /\ DOMAIN reported' = Devices /\ record'[d] = ScanRecord(d, single, buf, errors) /\ reported'[d] = buf
        /\ \A e \in Devices : e # d => record'[e] = record[e] /\ reported'[e] = reported[e]
    BY <1>1, <1>3 DEF Recorded
  <2>3. record'[d] # NoRecord
    <3>1. "power_on" \in DOMAIN record'[d]
      BY <2>2 DEF ScanRecord
    <3> QED
      BY <3>1 DEF NoRecord
  <2>4. \A tag \in DOMAIN buf : /\ tag \in DOMAIN record'[d]
                                /\ record'[d][tag] = <<"map", MapOf(tag, buf[tag])>>
    BY <2>1, <2>2, MapsAreRecorded
  <2> QED
    BY <2>1, <2>2, <2>3, <2>4 DEF Recorded
<1> QED
  BY <1>2, <1>3 DEF Update

LEMMA RecordedNext == Settled /\ Recorded /\ [Next]_vars => Recorded'
<1> SUFFICES ASSUME Settled, Recorded, [Next]_vars PROVE Recorded'
  OBVIOUS
<1>1. ASSUME UNCHANGED <<record, reported>> PROVE Recorded'
  BY <1>1 DEF Recorded
<1>2. CASE NextPack \/ NextTag \/ NextDevice \/ CreateDeviceNodes
  BY <1>1, <1>2 DEF NextPack, NextTag, NextDevice, CreateDeviceNodes
<1>3. ASSUME NEW d \in Devices, UpdateTag(d) PROVE Recorded'
  BY <1>1, <1>3 DEF UpdateTag
<1>4. ASSUME NEW d \in Devices, Fprintln(d) PROVE Recorded'
  <2>1. /\ record' = [record EXCEPT ![d] = NoRecord]
        /\ reported' = [reported EXCEPT ![d] = NoRecord]
    BY <1>4 DEF Fprintln
  <2>2. \A e \in Devices : /\ record'[e] = IF e = d THEN NoRecord ELSE record[e]
                           /\ reported'[e] = IF e = d THEN NoRecord ELSE reported[e]
    BY <2>1 DEF Recorded, Settled
  <2>3. DOMAIN NoRecord = {}
    BY DEF NoRecord
  <2> QED
    BY <2>1, <2>2, <2>3 DEF Recorded
<1>5. CASE UNCHANGED vars
  BY <1>1, <1>5 DEF vars
<1> QED
  BY <1>2, <1>3, <1>4, <1>5, RecordedUpdate DEF Next

LEMMA RecordedAlways == Spec => [](NodeTypes /\ Settled /\ Recorded)
BY SettledAlways, RecordedInit, RecordedNext, PTL DEF Spec

\* What AxisIsShown asks of the element and its node.
Distinct(n, el) ==
    /\ Asked(n) = {el} /\ el.flag = 0
    /\ ToldApart(n[2][1], reported[n[1]][n[2][1]])
    /\ n[2][1] \in ScaledTags \/ el.dec = 0
    /\ TagsOf(n[1])[n[2]] \in {"int64", "float64"}

LEMMA ElementShown ==
    ASSUME NodeTypes, Settled, Recorded, NEW n \in DOMAIN nodes, Fprintln(n[1]),
           NEW el \in Asked(n), Distinct(n, el)
    PROVE  ShowsElement(n, el)
<1> DEFINE d == n[1]
           t == n[2]
           tag == t[1]
           buf == reported[d][tag]
           m == MapOf(tag, buf)
           number == el.data * (Unit \div 10 ^ el.dec)
<1>1. /\ Len(t) = 2 /\ tag \in DOMAIN reported[d]
      /\ Asked(n) = {buf[i] : i \in {j \in DOMAIN buf : FullName(buf[j]) \in Forms[t[2]] \ {<<>>}}}
  BY DEF Asked
<1>2. d \in Devices /\ Agrees(n)
  BY NodesAreTags DEF NodeTypes, Settled, Fprintln
<1>3. /\ tag \in DOMAIN Buffers /\ buf \in Buffers[tag]
      /\ tag \in DOMAIN record[d] /\ record[d][tag] = <<"map", m>>
  BY <1>1, <1>2 DEF Recorded
<1>4. /\ Forms[t[2]] \cap DOMAIN m = {FullName(el)}
      /\ m[FullName(el)] = ValueOf(tag, el)
  <2>1. PICK e \in DOMAIN buf : buf[e] = el /\ FullName(el) \in Forms[t[2]] \ {<<>>}
    BY <1>1
  <2>2. \A i \in DOMAIN buf : FullName(buf[i]) \in Forms[t[2]] \ {<<>>} => buf[i] = el
    BY <1>1 DEF Distinct
  <2>3. ToldApart(tag, buf) /\ el.flag = 0
    BY DEF Distinct
  <2> HIDE DEF tag, buf
  <2> QED
    BY <1>3, <2>1, <2>2, <2>3, MapShows
<1>5. ValueOf(tag, el) = number
  <2>1. 10 ^ 0 = 1
    BY Z3
  <2>2. Unit \div 1 = Unit
    BY AddressSpaceAssumption, Z3
  <2> QED
    BY <2>1, <2>2 DEF ValueOf, Distinct
<1>6. Said(record[d], t) = {<<"number", number>>}
  <2> HIDE DEF m, number
  <2>1. ValueAt(record[d], t[1]) = <<"map", m>>
    BY <1>3 DEF ValueAt
  <2>2. <<"map", m>> # Nil
    BY Pairs
  <2> QED
    BY <1>1, <1>4, <1>5, <2>1, <2>2 DEF Said
<1>7. Takes(t, TagsOf(d)[t]) = "number"
  BY DEF Distinct, Takes
<1>8. Taking(record[d], t, TagsOf(d)[t]) = {<<"number", number>>}
  <2> HIDE DEF number
  <2> QED
    BY <1>6, <1>7 DEF Taking
<1> QED
  BY <1>2, <1>8 DEF Agrees, ShowsElement

\* Whenever a record is printed, a node for an axis shows what the CNC reported of that
\* axis, for buffers of any length with the axes in any order.
THEOREM AxesShowWhatWasReported == Spec => AxisIsShown
<1>1. NodeTypes /\ Settled /\ Recorded /\ [Next]_vars =>
         [\A n \in DOMAIN nodes : Fprintln(n[1]) =>
             \A el \in Asked(n) : Distinct(n, el) => ShowsElement(n, el)]_vars
  BY ElementShown
<1> QED
  BY <1>1, RecordedAlways, PTL DEF Spec, AxisIsShown, Distinct
=============================================================================
