------------------------- MODULE FlashLayoutProofs -------------------------
(***************************************************************************)
(* Proofs about the flash layout, for every flash size, content, command   *)
(* line and set of alignments that the assumptions allow.                  *)
(***************************************************************************)
EXTENDS FlashLayout, DataLemmas

-----------------------------------------------------------------------------
(* The invariant                                                           *)

\* The content is a list of well-formed descriptions, and every section that
\* exists is of a known template.
ContentGood ==
  /\ IsList(content)
  /\ \A i \in 1 .. Len(content) : WellFormed(content[i])
  /\ sections \in Seq(Section)
  /\ Len(sections) <= Len(content)
  /\ \A i \in 1 .. Len(sections) : content[i].template \in Templates

\* Where the loops are: what exists and what is laid out.
Progress ==
  /\ pc \in {"command", "create", "override", "content", "alloc", "finalize",
             "execute", "image", "error", "crash"}
  /\ next \in Nat \ {0}
  /\ ~content_parsed => pc = "command" /\ Filled = {} /\ Len(sections) = 0 /\ flash_offset = 0
  /\ pc \in {"create", "override"} => Filled = {} /\ flash_offset = 0
  /\ pc = "create" => Len(sections) = next - 1
  /\ pc \in {"override", "content", "alloc"} => Len(sections) = Len(content)
  /\ pc \in {"content", "alloc"} => next <= Len(content)
  /\ pc = "content" => Filled = 1 .. next - 1
  /\ pc = "alloc" => Filled = 1 .. next

\* The section being laid out lies behind the others and holds its fields.
Growing ==
  pc = "alloc" =>
    /\ todo \in Seq([kind : Kinds, size : Nat])
    /\ flash_offset <= sections[next].offset
    /\ sections[next].offset <= sections[next].current_offset
    /\ \A f \in Range(sections[next].fields) :
         /\ sections[next].offset <= f.offset
         /\ f.size >= 0
         /\ f.offset + f.size <= sections[next].current_offset

\* The closed sections end before the next one may start.
Placed == \A i \in Closed : get_size(i) \in Nat /\ EndOf(i) <= flash_offset

\* The layout is inside the flash as long as its overflow matters.
Bounded ==
  /\ flash_offset \in Nat
  /\ check_overflow \/ pc \in {"content", "alloc"} => flash_offset <= FlashSize

Inv ==
  /\ attributes \in Attributes /\ overrides \in Overrides
  /\ ContentGood /\ Progress /\ Growing /\ Placed /\ Bounded
  /\ Disjoint /\ FieldsInSection

-----------------------------------------------------------------------------
(* Alignment and sizes                                                     *)

AlignmentOf(a) == a = None \/ (a \in Nat \ {0} /\ FlashSize % a = 0)

\* What the assumption says of the alignments.
LEMMA AlignmentsGood ==
  ASSUME attributes \in Attributes
  PROVE  /\ AlignmentOf(attributes.start_align) /\ AlignmentOf(attributes.size_align)
         /\ AlignmentOf(attributes.littlefs_align)
BY FlashConstants DEF Alignments, AlignmentOf

\* Aligning goes up, to less than one step further.
LEMMA AlignUp ==
  ASSUME NEW x \in Nat, NEW a, AlignmentOf(a)
  PROVE  Align(x, a) \in Nat /\ x <= Align(x, a)
<1>1. CASE a = None
  BY <1>1 DEF Align
<1>2. CASE a \in Nat \ {0} /\ a # None
  <2>1. (-x) % a \in 0 .. a - 1
    BY <1>2
  <2> QED BY <1>2, <2>1 DEF Align
<1> QED BY <1>1, <1>2 DEF AlignmentOf, None

\* Aligning stays in the flash: its end is aligned too.
LEMMA AlignInFlash ==
  ASSUME NEW x \in Nat, NEW a, AlignmentOf(a), x <= FlashSize
  PROVE  Align(x, a) <= FlashSize
<1>1. CASE a = None
  BY <1>1 DEF Align
<1>2. CASE a \in Nat \ {0} /\ FlashSize % a = 0 /\ a # None
  <2>1. PICK n \in Nat \ {0} : n = a
    BY <1>2
  <2>2. PICK r \in 0 .. n - 1 : r = (-x) % n
    OBVIOUS
  <2>3. PICK f \in Nat : FlashSize = n * f
    <3>1. FlashSize \in Nat /\ FlashSize % n = 0
      BY <1>2, <2>1, FlashConstants
    <3>2. FlashSize \div n \in Nat /\ FlashSize = n * (FlashSize \div n)
      BY <3>1, DivMod
    <3> QED BY <3>2
  <2>4. PICK u \in Nat : n * u <= x /\ x < n * u + n
    <3>1. x \div n \in Nat /\ x % n \in 0 .. n - 1 /\ x = n * (x \div n) + (x % n)
      BY DivMod
    <3>2. n * (x \div n) <= x /\ x < n * (x \div n) + n
      <4>1. PICK w \in Nat : w = n * (x \div n)
        BY <3>1
      <4>2. PICK y \in 0 .. n - 1 : y = x % n
        BY <3>1
      <4> QED BY <3>1, <4>1, <4>2
    <3> QED BY <3>1, <3>2
  <2>5. x + r = n * u \/ x + r = n * u + n
    <3>1. PICK q \in Int : -x = n * q + r
      <4>1. (-x) \div n \in Int /\ -x = n * ((-x) \div n) + ((-x) % n)
        OBVIOUS
      <4> QED BY <4>1, <2>2
    <3>2. x + r = n * (-q)
      BY <3>1
    <3>3. n * u <= n * (-q) /\ n * (-q) < n * u + n + n
      BY <2>2, <2>4, <3>2
    <3>4. -q = u \/ -q = u + 1
      BY <3>3
    <3> QED BY <3>2, <3>4
  <2>6. CASE x + r = n * u
    BY <1>2, <2>1, <2>2, <2>4, <2>6 DEF Align
  <2>7. CASE x + r = n * u + n /\ x # n * u
    <3>1. n * u < n * f
      BY <2>3, <2>4, <2>7
    <3>2. n * u + n <= n * f
      BY <3>1, MulStep
    <3> QED BY <1>2, <2>1, <2>2, <2>3, <2>7, <3>2 DEF Align
  <2>8. x # n * u \/ x + r = n * u
    <3>1. SUFFICES ASSUME x = n * u, x + r = n * u + n PROVE FALSE
      BY <2>5
    <3> QED BY <2>2, <3>1
  <2> QED BY <2>5, <2>6, <2>7, <2>8
<1> QED BY <1>1, <1>2 DEF AlignmentOf, None

\* The size property of a well-formed section.
LEMMA SizePropertyType ==
  ASSUME NEW c, WellFormed(c)
  PROVE  /\ SizeProperty(c) \in Nat \cup {Rest, None}
         /\ Forced(c) => SizeProperty(c) \in Nat
         /\ IsSet(c, "size") => SizeProperty(c) # None
BY DEF WellFormed, SizeProperty, Forced, IsSize, Rest, None

\* The structures of a section that starts inside the flash have sizes.
LEMMA StructsGood ==
  ASSUME NEW c, WellFormed(c), Complete(c), AllDeclared(c), c.template \in Templates,
         NEW offset \in Nat, offset <= FlashSize, NEW following \in Nat
  PROVE  Structs(c, offset, following) \in Seq([kind : Kinds, size : Nat])
<1> DEFINE S == Seq([kind : Kinds, size : Nat])
<1>1. ASSUME NEW kind \in Kinds, NEW sizes \in Seq(Nat)
      PROVE  Of(kind, sizes) \in S
  <2>1. PICK n \in Nat : DOMAIN sizes = 1 .. n /\ \A i \in 1 .. n : sizes[i] \in Nat
    <3>1. Len(sizes) \in Nat /\ DOMAIN sizes = 1 .. Len(sizes)
      OBVIOUS
    <3>2. \A i \in 1 .. Len(sizes) : sizes[i] \in Nat
      OBVIOUS
    <3> QED BY <3>1, <3>2
  <2>2. [i \in 1 .. n |-> [kind |-> kind, size |-> sizes[i]]] \in S
    BY <2>1
  <2> QED BY <2>1, <2>2 DEF Of
<1>2. ASSUME NEW size \in Nat PROVE Header(size) \in S
  <2>1. <<size>> \in Seq(Nat)
    OBVIOUS
  <2> QED BY <1>1, <2>1 DEF Header, Kinds
<1>3. ASSUME NEW s \in S, NEW t \in S PROVE s \o t \in S
  OBVIOUS
<1>4. CASE c.template = "rom"
  <2>1. CASE IsSet(c, "binary")
    <3>1. c.properties.binary \in Seq(Nat)
      BY <2>1 DEF WellFormed
    <3>2. [i \in DOMAIN c.properties.binary |-> 16] \in Seq(Nat)
      BY <3>1
    <3>3. /\ Header(16) \in S
          /\ Of("entry", [i \in DOMAIN c.properties.binary |-> 16]) \in S
          /\ Of("data", c.properties.binary) \in S
      BY <1>1, <1>2, <3>1, <3>2 DEF Kinds
    <3>4. RomStructs(c) \in S
      BY <1>3, <2>1, <3>3 DEF RomStructs
    <3> QED BY <1>4, <3>4 DEF Structs
  <2>2. CASE ~IsSet(c, "binary")
    BY <1>2, <1>4, <2>2 DEF Structs, RomStructs
  <2> QED BY <2>1, <2>2
<1>5. CASE c.template = "partition table"
  <2>1. [i \in 1 .. following |-> 32] \in Seq(Nat)
    OBVIOUS
  <2>2. [i \in 1 .. following |-> [kind |-> "entry", size |-> 32]] \in S
    BY DEF Kinds
  <2>3. Header(32) \in S /\ Of("entry", [i \in 1 .. following |-> 32]) \in S
    BY <1>1, <1>2, <2>1 DEF Kinds
  <2>4. TableStructs(following) \in S
    BY <1>3, <2>3 DEF TableStructs
  <2> QED BY <1>5, <2>4 DEF Structs
<1>6. CASE c.template = "readfs"
  <2>1. IsSet(c, "files") /\ "files" \in Declared(c.template)
    BY <1>6 DEF Complete, Declared
  <2>2. c.properties.files \in Seq(FileT)
    BY <2>1 DEF WellFormed
  <2>3. PICK files \in Seq(FileT) : files = c.properties.files
    BY <2>2
  <2>4. /\ [i \in DOMAIN files |-> 12 + files[i].name_len] \in Seq(Nat)
        /\ [i \in DOMAIN files |-> files[i].size] \in Seq(Nat)
    <3>1. PICK n \in Nat : DOMAIN files = 1 .. n /\ \A i \in 1 .. n : files[i] \in FileT
      <4>1. Len(files) \in Nat /\ DOMAIN files = 1 .. Len(files)
        OBVIOUS
      <4>2. \A i \in 1 .. Len(files) : files[i] \in FileT
        OBVIOUS
      <4> QED BY <4>1, <4>2
    <3>2. \A i \in 1 .. n : 12 + files[i].name_len \in Nat /\ files[i].size \in Nat
      BY <3>1 DEF FileT
    <3>3. /\ [i \in 1 .. n |-> 12 + files[i].name_len] \in Seq(Nat)
          /\ [i \in 1 .. n |-> files[i].size] \in Seq(Nat)
      BY <3>2
    <3> QED BY <3>1, <3>3
  <2>5. /\ Header(12) \in S
        /\ Of("entry", [i \in DOMAIN files |-> 12 + files[i].name_len]) \in S
        /\ Of("data", [i \in DOMAIN files |-> files[i].size]) \in S
    BY <1>1, <1>2, <2>4 DEF Kinds
  <2>6. ReadfsStructs(c) \in S
    BY <1>3, <2>3, <2>5 DEF ReadfsStructs
  <2> QED BY <1>6, <2>6 DEF Structs
<1>7. CASE c.template \in {"raw", "lfs"}
  <2>1. SizeProperty(c) \in Nat \cup {Rest}
    BY <1>7, SizePropertyType DEF Complete
  <2>2. Requested(c, offset) \in Nat
    BY <2>1, FlashConstants DEF Requested, Rest
  <2>3. Of("data", <<Requested(c, offset)>>) \in S
    <3>1. <<Requested(c, offset)>> \in Seq(Nat)
      BY <2>2
    <3> QED BY <1>1, <3>1 DEF Kinds
  <2>4. << >> \in S
    OBVIOUS
  <2>5. RawStructs(c, offset) \in S /\ LfsStructs(c, offset) \in S
    BY <2>3, <2>4 DEF RawStructs, LfsStructs
  <2> QED BY <1>7, <2>5 DEF Structs
<1>8. CASE c.template = "hostfs"
  BY <1>8 DEF Structs
<1> QED BY <1>4, <1>5, <1>6, <1>7, <1>8 DEF Templates

-----------------------------------------------------------------------------
(* Sizes of sections                                                       *)

\* A section whose size is not refused has a size that holds its fields.
LEMMA GetSize ==
  ASSUME attributes \in Attributes, ContentGood, NEW i \in 1 .. Len(sections),
         sections[i].offset <= sections[i].current_offset, ~BadSize(i)
  PROVE  get_size(i) \in Nat /\ (sections[i].filled => Allocated(i) <= get_size(i))
<1>1. sections[i] \in Section /\ WellFormed(content[i])
  BY DEF ContentGood
<1>2. Allocated(i) \in Nat
  BY <1>1 DEF Allocated, Section
<1>3. CASE ~sections[i].filled
  BY <1>3 DEF get_size
<1>4. CASE sections[i].filled /\ Forced(content[i])
  <2>1. SizeProperty(content[i]) \in Nat /\ Allocated(i) <= SizeProperty(content[i])
    BY <1>1, <1>2, <1>4, SizePropertyType DEF BadSize
  <2>2. /\ Align(SizeProperty(content[i]), attributes.size_align) \in Nat
        /\ SizeProperty(content[i]) <= Align(SizeProperty(content[i]), attributes.size_align)
    BY <2>1, AlignUp, AlignmentsGood
  <2> QED BY <1>2, <1>4, <2>1, <2>2 DEF get_size
<1>5. CASE sections[i].filled /\ ~Forced(content[i])
  BY <1>2, <1>5, AlignUp, AlignmentsGood DEF get_size
<1> QED BY <1>3, <1>4, <1>5

\* A section keeps its size as long as its description and place stay.
LEMMA SizeKept ==
  ASSUME NEW i, attributes' = attributes, content'[i] = content[i],
         sections'[i].filled = sections[i].filled,
         sections'[i].offset = sections[i].offset,
         sections'[i].current_offset = sections[i].current_offset
  PROVE  get_size(i)' = get_size(i) /\ EndOf(i)' = EndOf(i)
BY DEF get_size, EndOf, Allocated

-----------------------------------------------------------------------------
(* Steps                                                                   *)

\* A step that leaves the layout alone, with nothing more to lay out.
LEMMA QuietStep ==
  ASSUME Inv, UNCHANGED <<attributes, overrides, parsing, layout>>, content_parsed,
         next' \in Nat \ {0},
         pc' \in {"command", "finalize", "execute", "image", "error", "crash"},
         pc' \in {"error", "crash"} \/ pc \notin {"content", "alloc", "error", "crash"}
  PROVE  Inv'
<1> USE DEF Inv, parsing, layout
<1>1. Filled' = Filled /\ Closed' \subseteq Closed
  BY DEF Filled, Closed
<1>2. \A i : get_size(i)' = get_size(i) /\ EndOf(i)' = EndOf(i)
  BY SizeKept
<1>3. ContentGood'
  BY DEF ContentGood
<1>4. Progress' /\ Growing'
  BY DEF Progress, Growing
<1>5. Placed' /\ Bounded'
  BY <1>1, <1>2 DEF Placed, Bounded
<1>6. Disjoint' /\ FieldsInSection'
  BY <1>1, <1>2 DEF Disjoint, FieldsInSection
<1> QED BY <1>3, <1>4, <1>5, <1>6

\* A step before anything is laid out.
LEMMA EmptyStep ==
  ASSUME Inv, UNCHANGED <<attributes, overrides>>, ContentGood', Progress',
         pc' \in {"create", "override", "content", "finalize", "error"},
         Filled' = {}, flash_offset' = 0
  PROVE  Inv'
<1>1. Closed' = {}
  BY DEF Closed
<1>2. Growing' /\ Placed' /\ Bounded'
  BY <1>1, FlashConstants DEF Growing, Placed, Bounded
<1>3. Disjoint' /\ FieldsInSection'
  BY <1>1 DEF Disjoint, FieldsInSection
<1> QED BY <1>2, <1>3 DEF Inv

\* The invariant holds before anything is parsed.
LEMMA InitInv == Init => Inv
<1> SUFFICES ASSUME Init PROVE Inv
  OBVIOUS
<1>1. Filled = {} /\ Closed = {}
  BY DEF Init, Filled, Closed
<1>2. ContentGood
  BY FlashConstants DEF Init, ContentGood, IsList
<1>3. Progress /\ Growing /\ Placed /\ Bounded
  BY <1>1, FlashConstants DEF Init, Progress, Growing, Placed, Bounded
<1>4. Disjoint /\ FieldsInSection
  BY <1>1 DEF Disjoint, FieldsInSection
<1> QED BY <1>2, <1>3, <1>4 DEF Inv, Init

\* StartParse keeps the invariant.
LEMMA StartParseInv == ASSUME Inv, StartParse PROVE Inv'
<1> USE DEF Inv, StartParse, setup, layout
<1>1. ContentGood'
  BY DEF ContentGood
<1>2. Filled' = {} /\ flash_offset' = 0 /\ Len(sections) = 0
  BY DEF Progress, Filled
<1>3. Progress'
  BY <1>2 DEF Progress
<1> QED BY <1>1, <1>2, <1>3, EmptyStep

\* Raise keeps the invariant.
LEMMA RaiseInv ==
  ASSUME Inv, content_parsed, NEW kind \in {"error", "crash"}, Raise(kind) PROVE Inv'
<1>1. UNCHANGED <<attributes, overrides, parsing, layout>> /\ next' \in Nat \ {0} /\ pc' = kind
  BY DEF Inv, Progress, Raise, setup
<1> QED BY <1>1, QuietStep

\* Create keeps the invariant.
LEMMA CreateInv == ASSUME Inv, Create PROVE Inv'
<1> USE DEF Inv, Create, setup, parsing
<1>1. CASE content[next].template \in Templates
  <2>1. /\ sections' = Append(sections, Unset) /\ Unset \in Section
        /\ next = Len(sections) + 1 /\ next <= Len(content) /\ Filled = {}
    BY <1>1 DEF Unset, Section, Progress
  <2>2. /\ sections' \in Seq(Section) /\ Len(sections') = next
        /\ \A i \in 1 .. Len(sections) : sections'[i] = sections[i]
        /\ sections'[next] = Unset
    BY <2>1 DEF ContentGood
  <2>3. ContentGood'
    BY <1>1, <2>1, <2>2 DEF ContentGood
  <2>4. Filled' = {}
    BY <2>1, <2>2 DEF ContentGood, Filled, Unset
  <2>5. Progress'
    BY <1>1, <2>1, <2>2, <2>4 DEF Progress
  <2> QED BY <1>1, <2>3, <2>4, <2>5, EmptyStep DEF Progress
<1>2. CASE content[next].template \notin Templates
  BY <1>2, RaiseInv DEF Progress
<1> QED BY <1>1, <1>2

\* CreateDone keeps the invariant.
LEMMA CreateDoneInv == ASSUME Inv, CreateDone PROVE Inv'
<1> USE DEF Inv, CreateDone, setup, parsing, layout
<1>1. ContentGood' /\ Filled' = {} /\ flash_offset' = 0
  BY DEF ContentGood, Progress, Filled
<1>2. Progress'
  BY <1>1 DEF Progress, ContentGood, IsList
<1> QED BY <1>1, <1>2, EmptyStep

\* Overriding a property keeps a description well-formed.
LEMMA OverwrittenWellFormed ==
  ASSUME NEW c, WellFormed(c), NEW o, WellFormedOverride(o)
  PROVE  WellFormed(Overwritten(c, o)) /\ Overwritten(c, o).template = c.template
<1> DEFINE p == Overwritten(c, o).properties
<1>1. /\ Overwritten(c, o) = [name |-> c.name, template |-> c.template, properties |-> p]
      /\ p = IF o.key = "files" /\ "files" \in Declared(c.template)
             THEN Put(c.properties, "files",
                      Append(IF IsSet(c, "files") THEN c.properties.files ELSE <<>>, o.value))
             ELSE Put(c.properties, o.key, o.value)
  BY DEF WellFormed, Overwritten
<1>2. \A key : /\ key \in DOMAIN p => key \in DOMAIN c.properties \/ key = o.key
               /\ key \in DOMAIN p /\ key # o.key => p[key] = c.properties[key]
  BY <1>1 DEF Put
<1>3. o.key \in {"size", "binary"} => p[o.key] = o.value
  BY <1>1 DEF Put
<1>4. o.key = "files" /\ "files" \in Declared(c.template) => p["files"] \in Seq(FileT)
  <2>1. SUFFICES ASSUME o.key = "files", "files" \in Declared(c.template)
                 PROVE  p["files"] \in Seq(FileT)
    OBVIOUS
  <2>2. (IF IsSet(c, "files") THEN c.properties.files ELSE <<>>) \in Seq(FileT)
    BY <2>1 DEF WellFormed
  <2> QED BY <1>1, <2>1, <2>2 DEF Put, WellFormedOverride
<1> HIDE DEF p
<1>5. "size" \in DOMAIN p => IsSize(p["size"])
  BY <1>2, <1>3 DEF WellFormed, WellFormedOverride, IsSet
<1>6. "binary" \in DOMAIN p => p["binary"] \in Seq(Nat)
  BY <1>2, <1>3 DEF WellFormed, WellFormedOverride, IsSet
<1>7. "files" \in DOMAIN p /\ "files" \in Declared(c.template) => p["files"] \in Seq(FileT)
  BY <1>2, <1>4 DEF WellFormed, IsSet
<1> QED BY <1>1, <1>5, <1>6, <1>7 DEF WellFormed, IsSet

\* HandleProperty keeps the invariant.
LEMMA HandlePropertyInv == ASSUME Inv, HandleProperty PROVE Inv'
<1> USE DEF Inv, HandleProperty, setup, layout
<1>1. CASE \E i \in DOMAIN content : content[i].name = overrides[next].section
  <2>1. content' = [i \in DOMAIN content |->
                      IF content[i].name = overrides[next].section
                      THEN Overwritten(content[i], overrides[next]) ELSE content[i]]
    BY <1>1 DEF Overwrite
  <2>2. DOMAIN content = 1 .. Len(content) /\ Len(content) \in Nat
    BY DEF ContentGood, IsList
  <2>3. WellFormedOverride(overrides[next])
    BY FlashConstants DEF Progress, IsList
  <2>4. IsList(content') /\ Len(content') = Len(content)
    <3>1. DOMAIN content' = 1 .. Len(content)
      BY <2>1, <2>2
    <3>2. Len(content') = Len(content)
      BY <2>2, <3>1
    <3> QED BY <2>1, <2>2, <3>1, <3>2 DEF IsList
  <2>5. \A i \in 1 .. Len(content) :
          WellFormed(content'[i]) /\ content'[i].template = content[i].template
    <3>1. TAKE i \in 1 .. Len(content)
    <3>2. WellFormed(content[i])
      BY DEF ContentGood
    <3>3. content'[i] = IF content[i].name = overrides[next].section
                        THEN Overwritten(content[i], overrides[next]) ELSE content[i]
      BY <2>1, <2>2
    <3> QED BY <2>3, <3>2, <3>3, OverwrittenWellFormed
  <2>6. ContentGood'
    BY <1>1, <2>4, <2>5 DEF ContentGood
  <2>7. Filled' = {} /\ flash_offset' = 0
    BY <1>1 DEF Progress, Filled
  <2>8. Progress'
    BY <1>1, <2>4, <2>7 DEF Progress
  <2> QED BY <1>1, <2>6, <2>7, <2>8, EmptyStep
<1>2. CASE ~ \E i \in DOMAIN content : content[i].name = overrides[next].section
  BY <1>2, RaiseInv DEF Progress
<1> QED BY <1>1, <1>2

\* StartLayout keeps the invariant.
LEMMA StartLayoutInv == ASSUME Inv, StartLayout PROVE Inv'
<1> USE DEF Inv, StartLayout, setup, parsing
<1>1. ContentGood' /\ Filled' = {} /\ flash_offset' = 0
  BY DEF ContentGood, Progress, Filled
<1>2. content # <<>> => 1 <= Len(content)
  <2>1. SUFFICES ASSUME Len(content) = 0 PROVE content = <<>>
    BY DEF ContentGood, IsList
  <2> QED BY <2>1 DEF ContentGood, IsList
<1>3. Progress'
  BY <1>1, <1>2 DEF Progress
<1>4. pc' \in {"finalize", "content"}
  OBVIOUS
<1> QED BY <1>1, <1>3, <1>4, EmptyStep

\* A step of laying out one section: the sections in front of it stay.
LEMMA SectionStep ==
  ASSUME Inv, pc \in {"content", "alloc"}, pc' = "alloc",
         attributes' = attributes, overrides' = overrides, content' = content,
         content_parsed' = content_parsed, check_overflow' = check_overflow,
         flash_offset' = flash_offset, next' = next,
         NEW s \in Section, sections' = [sections EXCEPT ![next] = s],
         s.filled, flash_offset <= s.offset, Growing'
  PROVE  Inv'
<1>1. /\ next \in 1 .. Len(sections) /\ Len(sections) = Len(content)
      /\ sections \in Seq(Section) /\ flash_offset \in Nat
      /\ Filled = 1 .. next - 1 \/ Filled = 1 .. next
  BY DEF Inv, Progress, ContentGood, Bounded
<1>2. /\ sections' \in Seq(Section) /\ Len(sections') = Len(sections)
      /\ DOMAIN sections' = 1 .. Len(sections) /\ DOMAIN sections = 1 .. Len(sections)
      /\ sections'[next] = s
      /\ \A i \in 1 .. Len(sections) : i # next => sections'[i] = sections[i]
  BY <1>1
<1>3. ContentGood'
  BY <1>2 DEF ContentGood, Inv
<1>4. Filled' = 1 .. next
  BY <1>1, <1>2 DEF Filled
<1>5. Closed = 1 .. next - 1 /\ Closed' = 1 .. next - 1
  BY <1>1, <1>4 DEF Closed
<1>6. \A i \in 1 .. next - 1 : get_size(i)' = get_size(i) /\ EndOf(i)' = EndOf(i)
  <2>1. TAKE i \in 1 .. next - 1
  <2>2. sections'[i] = sections[i]
    BY <1>1, <1>2
  <2> QED BY <2>2, SizeKept
<1>7. Progress'
  BY <1>1, <1>2, <1>4 DEF Progress, Inv
<1>8. Placed' /\ Bounded'
  BY <1>5, <1>6 DEF Placed, Bounded, Inv
<1>9. Disjoint'
  <2>1. SUFFICES ASSUME NEW i \in 1 .. next - 1, NEW j \in 1 .. next, i < j
                 PROVE  EndOf(i) <= sections'[j].offset
    BY <1>1, <1>4, <1>5, <1>6 DEF Disjoint
  <2>2. EndOf(i) <= flash_offset /\ EndOf(i) \in Int
    <3>1. get_size(i) \in Nat /\ EndOf(i) <= flash_offset
      BY <1>5 DEF Inv, Placed
    <3>2. sections[i] \in Section
      BY <1>1
    <3>3. sections[i].offset \in Nat
      BY <3>2 DEF Section
    <3> QED BY <3>1, <3>3 DEF EndOf
  <2>3. CASE j = next
    <3>1. sections'[j] = s /\ s.offset \in Nat /\ flash_offset \in Nat
      BY <1>1, <1>2, <2>3 DEF Section
    <3> QED BY <2>2, <3>1
  <2>4. CASE j # next
    <3>1. sections'[j] = sections[j] /\ i \in Closed /\ i \in Filled /\ j \in Filled
      <4>1. j \in 1 .. next - 1
        BY <1>1, <2>4
      <4> QED BY <1>1, <1>2, <1>5, <2>4, <4>1
    <3>2. Disjoint
      BY DEF Inv
    <3> QED BY <2>1, <3>1, <3>2 DEF Disjoint
  <2> QED BY <2>3, <2>4
<1>10. FieldsInSection'
  BY <1>1, <1>2, <1>5, <1>6 DEF FieldsInSection, Inv
<1> QED BY <1>3, <1>7, <1>8, <1>9, <1>10 DEF Inv

\* SetContent keeps the invariant.
LEMMA SetContentInv == ASSUME Inv, SetContent PROVE Inv'
<1> DEFINE offset == start_offset(next)
           s == [Unset EXCEPT !.filled = TRUE, !.offset = offset, !.current_offset = offset]
<1>1. /\ next \in 1 .. Len(sections) /\ Len(sections) = Len(content)
      /\ sections \in Seq(Section)
      /\ WellFormed(content[next]) /\ content[next].template \in Templates
      /\ Complete(content[next]) /\ AllDeclared(content[next])
  BY DEF Inv, Progress, ContentGood, SetContent
<1>2. /\ attributes \in Attributes
      /\ flash_offset \in Nat /\ flash_offset <= FlashSize
  BY DEF Inv, Bounded, SetContent
<1>3. offset \in Nat /\ flash_offset <= offset /\ offset <= FlashSize
  BY <1>2, AlignUp, AlignInFlash, AlignmentsGood DEF start_offset
<1>4. /\ todo' = Structs(content[next], offset, Len(content) - next)
      /\ sections' = [sections EXCEPT ![next] = s]
      /\ attributes' = attributes /\ overrides' = overrides /\ content' = content
      /\ content_parsed' = content_parsed /\ check_overflow' = check_overflow
      /\ flash_offset' = flash_offset /\ next' = next
      /\ pc = "content" /\ pc' = "alloc"
  BY DEF SetContent, setup, parsing
<1> HIDE DEF offset
<1>5. Len(content) - next \in Nat
  BY <1>1
<1>6. todo' \in Seq([kind : Kinds, size : Nat])
  BY <1>1, <1>3, <1>4, <1>5, StructsGood
<1>7. /\ s \in Section /\ s.filled /\ s.offset = offset /\ s.current_offset = offset
      /\ Range(s.fields) = {}
  <2>1. Unset \in Section /\ Unset.fields = <<>>
    BY DEF Unset, Section
  <2>2. offset \in Nat /\ offset \in Int /\ TRUE \in BOOLEAN
    BY <1>3
  <2>3. s \in Section
    BY <2>1, <2>2 DEF Section
  <2>4. s.filled /\ s.offset = offset /\ s.current_offset = offset /\ s.fields = Unset.fields
    BY <2>1 DEF Section
  <2> QED BY <2>1, <2>3, <2>4 DEF Range
<1> HIDE DEF s
<1>8. sections'[next] = s
  BY <1>1, <1>4
<1>9. Growing'
  BY <1>3, <1>4, <1>6, <1>7, <1>8 DEF Growing
<1> QED BY <1>3, <1>4, <1>7, <1>9, SectionStep

\* AllocOffset keeps the invariant.
LEMMA AllocOffsetInv == ASSUME Inv, AllocOffset PROVE Inv'
<1> DEFINE old == sections[next]
           f == [kind |-> Head(todo).kind, offset |-> old.current_offset,
                 size |-> Head(todo).size]
           headers == old.headers + IF Head(todo).kind = "data" THEN 0 ELSE Head(todo).size
           s == [old EXCEPT !.current_offset = @ + Head(todo).size,
                            !.headers = headers,
                            !.fields = Append(@, f)]
<1>1. /\ next \in 1 .. Len(sections) /\ Len(sections) = Len(content)
      /\ sections \in Seq(Section) /\ Filled = 1 .. next
  BY DEF Inv, Progress, ContentGood, AllocOffset
<1>2. /\ todo \in Seq([kind : Kinds, size : Nat]) /\ todo # <<>>
      /\ flash_offset \in Nat
      /\ flash_offset <= old.offset /\ old.offset <= old.current_offset
      /\ \A g \in Range(old.fields) :
           /\ old.offset <= g.offset /\ g.size >= 0
           /\ g.offset + g.size <= old.current_offset
  BY DEF Inv, Growing, Bounded, AllocOffset
<1>3. /\ Head(todo).kind \in Kinds /\ Head(todo).size \in Nat
      /\ Tail(todo) \in Seq([kind : Kinds, size : Nat])
  <2>1. Head(todo) \in [kind : Kinds, size : Nat]
    BY <1>2, HeadTailProperties
  <2>2. Tail(todo) \in Seq([kind : Kinds, size : Nat])
    BY <1>2
  <2> QED BY <2>1, <2>2
<1>4. /\ todo' = Tail(todo)
      /\ sections' = [sections EXCEPT ![next] = s]
      /\ attributes' = attributes /\ overrides' = overrides /\ content' = content
      /\ content_parsed' = content_parsed /\ check_overflow' = check_overflow
      /\ flash_offset' = flash_offset /\ next' = next
      /\ pc = "alloc" /\ pc' = "alloc"
  BY DEF AllocOffset, setup, parsing
<1>5. old \in Section /\ old.filled
  BY <1>1 DEF Filled
<1> HIDE DEF old
<1>6. f \in Field /\ headers \in Int
  BY <1>3, <1>5 DEF Section, Field
<1>7. f.offset = old.current_offset /\ f.size = Head(todo).size
  OBVIOUS
<1> HIDE DEF f, headers
<1>8. /\ s.filled /\ s.offset = old.offset
      /\ s.current_offset = old.current_offset + Head(todo).size
      /\ s.fields = Append(old.fields, f)
      /\ s \in Section
  <2>1. /\ Append(old.fields, f) \in Seq(Field)
        /\ old.current_offset + Head(todo).size \in Int
    BY <1>3, <1>5, <1>6 DEF Section
  <2> QED BY <1>5, <1>6, <2>1 DEF Section
<1>9. /\ old.offset \in Nat /\ old.current_offset \in Int
      /\ old.fields \in Seq(Field)
      /\ \A g \in Range(old.fields) : g.offset \in Int /\ g.size \in Int
  <2>1. old.offset \in Nat /\ old.current_offset \in Int /\ old.fields \in Seq(Field)
    BY <1>5 DEF Section
  <2>2. \A g \in Range(old.fields) : g \in Field
    BY <2>1 DEF Range
  <2> QED BY <2>1, <2>2 DEF Field
<1> HIDE DEF s
<1>10. Range(s.fields) \subseteq Range(old.fields) \cup {f}
  BY <1>6, <1>8, <1>9 DEF Range
<1>11. \A g \in Range(s.fields) :
         /\ s.offset <= g.offset /\ g.size >= 0
         /\ g.offset + g.size <= s.current_offset
  <2>1. TAKE g \in Range(s.fields)
  <2>2. CASE g \in Range(old.fields)
    <3>1. g.offset \in Int /\ g.size \in Int /\ old.current_offset \in Int
      BY <1>9, <2>2
    <3>2. old.offset <= g.offset /\ g.size >= 0 /\ g.offset + g.size <= old.current_offset
      BY <1>2, <2>2
    <3> QED BY <1>3, <1>8, <3>1, <3>2
  <2>3. CASE g = f
    BY <1>2, <1>3, <1>7, <1>8, <1>9, <2>3
  <2> QED BY <1>10, <2>2, <2>3
<1>12. sections'[next] = s
  BY <1>1, <1>4
<1>13. flash_offset' <= s.offset /\ s.offset <= s.current_offset
  BY <1>2, <1>3, <1>4, <1>8, <1>9
<1>14. todo' \in Seq([kind : Kinds, size : Nat])
  BY <1>3, <1>4
<1>15. sections'[next'] = s
  BY <1>4, <1>12
<1>16. Growing'
  BY <1>11, <1>13, <1>14, <1>15 DEF Growing
<1> QED BY <1>2, <1>4, <1>8, <1>16, SectionStep

\* CloseSection keeps the invariant.
LEMMA CloseSectionInv == ASSUME Inv, CloseSection PROVE Inv'
<1> USE DEF Inv
<1>1. CASE BadSize(next) \/ (Overflows(next) /\ check_overflow)
  BY <1>1, RaiseInv DEF CloseSection, Progress
<1>2. CASE ~BadSize(next) /\ ~(Overflows(next) /\ check_overflow)
  <2> DEFINE old == sections[next]
             s == [old EXCEPT !.recorded_size = recorded_size(next)]
  <2>1. /\ sections' = [sections EXCEPT ![next] = s]
        /\ flash_offset' = EndOf(next)
        /\ attributes' = attributes /\ overrides' = overrides /\ content' = content
        /\ content_parsed' = content_parsed /\ check_overflow' = check_overflow
        /\ pc = "alloc"
        /\ \/ pc' = "finalize" /\ next' = 1
           \/ pc' = "content" /\ next' = next + 1 /\ ~Overflows(next) /\ next # Len(content)
    BY <1>2 DEF CloseSection, setup, parsing
  <2>2. /\ next \in 1 .. Len(sections) /\ Len(sections) = Len(content)
        /\ sections \in Seq(Section) /\ content_parsed
        /\ Filled = 1 .. next /\ flash_offset \in Nat
    BY <2>1 DEF Progress, ContentGood, Bounded
  <2>3. /\ old \in Section /\ old.filled
    BY <2>2 DEF Filled
  <2>4. /\ flash_offset <= old.offset /\ old.offset <= old.current_offset
        /\ \A g \in Range(old.fields) :
             /\ old.offset <= g.offset /\ g.size >= 0
             /\ g.offset + g.size <= old.current_offset
    BY <2>1 DEF Growing
  <2>5. get_size(next) \in Nat /\ Allocated(next) <= get_size(next)
    BY <1>2, <2>2, <2>3, <2>4, GetSize
  <2>6. /\ old.offset \in Nat /\ old.current_offset \in Int /\ old.headers \in Int
        /\ \A g \in Range(old.fields) : g.offset \in Int /\ g.size \in Int
    <3>1. old.offset \in Nat /\ old.current_offset \in Int /\ old.headers \in Int
          /\ old.fields \in Seq(Field)
      BY <2>3 DEF Section
    <3>2. \A g \in Range(old.fields) : g \in Field
      BY <3>1 DEF Range
    <3> QED BY <3>1, <3>2 DEF Field
  <2>7. /\ EndOf(next) = old.offset + get_size(next) /\ EndOf(next) \in Nat
        /\ old.current_offset <= EndOf(next) /\ flash_offset <= EndOf(next)
    BY <2>2, <2>4, <2>5, <2>6 DEF EndOf, Allocated
  <2>8. recorded_size(next) \in Int
    BY <2>5, <2>6 DEF recorded_size
  <2>9. /\ s \in Section /\ s.filled = old.filled /\ s.offset = old.offset
        /\ s.current_offset = old.current_offset /\ s.fields = old.fields
    BY <2>3, <2>8 DEF Section
  <2> HIDE DEF s
  <2>10. /\ sections' \in Seq(Section) /\ Len(sections') = Len(sections)
         /\ DOMAIN sections' = 1 .. Len(sections) /\ DOMAIN sections = 1 .. Len(sections)
         /\ \A i \in 1 .. Len(sections) :
              /\ sections'[i].filled = sections[i].filled
              /\ sections'[i].offset = sections[i].offset
              /\ sections'[i].current_offset = sections[i].current_offset
              /\ sections'[i].fields = sections[i].fields
    BY <2>1, <2>2, <2>9
  <2>11. ContentGood'
    BY <2>1, <2>10 DEF ContentGood
  <2>12. Filled' = 1 .. next
    BY <2>2, <2>10 DEF Filled
  <2>13. Closed = 1 .. next - 1 /\ Closed' = 1 .. next
    <3>1. Closed = 1 .. next - 1
      BY <2>1, <2>2 DEF Closed
    <3>2. CASE pc' = "finalize"
      BY <2>12, <3>1, <3>2 DEF Closed
    <3>3. CASE pc' = "content" /\ next' = next + 1
      <4>1. Closed' = (1 .. next) \ {next + 1}
        BY <2>12, <3>3 DEF Closed
      <4> QED BY <2>2, <3>1, <4>1
    <3> QED BY <2>1, <3>2, <3>3
  <2>14. \A i \in 1 .. next : get_size(i)' = get_size(i) /\ EndOf(i)' = EndOf(i)
    <3>1. TAKE i \in 1 .. next
    <3>2. i \in 1 .. Len(sections)
      BY <2>2
    <3> QED BY <2>1, <2>10, <3>2, SizeKept
  <2>15. \A i \in 1 .. next - 1 : get_size(i) \in Nat /\ EndOf(i) <= flash_offset
    BY <2>13 DEF Placed
  <2>16. Progress'
    <3>1. next' \in Nat \ {0} /\ content_parsed' /\ Len(sections') = Len(content')
      <4>1. content_parsed'
        BY <2>1, <2>2, Zenon
      <4>2. next' \in Nat \ {0}
        BY <2>1, <2>2
      <4> QED BY <2>1, <2>2, <2>10, <4>1, <4>2
    <3>2. pc' = "content" => next' <= Len(content') /\ Filled' = 1 .. next' - 1
      BY <2>1, <2>2, <2>12
    <3>3. pc' \in {"content", "finalize"}
      BY <2>1
    <3> QED BY <3>1, <3>2, <3>3 DEF Progress
  <2>17. Growing'
    BY <2>1 DEF Growing
  <2>18. Placed'
    <3>1. SUFFICES ASSUME NEW i \in 1 .. next
                   PROVE  get_size(i) \in Nat /\ EndOf(i) <= EndOf(next)
      BY <2>1, <2>13, <2>14 DEF Placed
    <3>2. CASE i = next
      BY <2>5, <2>7, <3>2
    <3>3. CASE i # next
      <4>1. sections[i] \in Section
        BY <2>2
      <4>2. get_size(i) \in Nat /\ EndOf(i) <= flash_offset /\ sections[i].offset \in Nat
        <5>1. i \in 1 .. next - 1
          BY <2>2, <3>3
        <5> QED BY <2>15, <4>1, <5>1 DEF Section
      <4>3. EndOf(i) \in Int
        BY <4>2 DEF EndOf
      <4> QED BY <2>2, <2>7, <4>2, <4>3
    <3> QED BY <3>2, <3>3
  <2>19. Bounded'
    BY <1>2, <2>1, <2>7, FlashConstants DEF Bounded, Overflows
  <2>20. Disjoint'
    <3>1. SUFFICES ASSUME NEW i \in 1 .. next, NEW j \in 1 .. next, i < j
                   PROVE  EndOf(i) <= sections[j].offset
      BY <2>2, <2>10, <2>12, <2>13, <2>14 DEF Disjoint
    <3> QED BY <2>2, <2>13, <3>1 DEF Disjoint
  <2>21. FieldsInSection'
    <3>1. SUFFICES ASSUME NEW i \in 1 .. next, NEW f \in Range(sections[i].fields)
                   PROVE  /\ sections[i].offset <= f.offset /\ f.size >= 0
                          /\ f.offset + f.size <= EndOf(i)
      BY <2>2, <2>10, <2>13, <2>14 DEF FieldsInSection
    <3>2. CASE i = next
      <4>1. /\ old.offset <= f.offset /\ f.size >= 0
            /\ f.offset + f.size <= old.current_offset
            /\ f.offset \in Int /\ f.size \in Int
        BY <2>4, <2>6, <3>1, <3>2
      <4> QED BY <2>6, <2>7, <3>2, <4>1
    <3>3. CASE i # next
      BY <2>2, <2>13, <3>1, <3>3 DEF FieldsInSection
    <3> QED BY <3>2, <3>3
  <2> QED BY <2>1, <2>11, <2>16, <2>17, <2>18, <2>19, <2>20, <2>21
<1> QED BY <1>1, <1>2

\* Finalize keeps the invariant.
LEMMA FinalizeInv == ASSUME Inv, Finalize PROVE Inv'
<1>1. CASE content[next].template = "partition table" /\ ~sections[next].filled
  BY <1>1, RaiseInv DEF Inv, Finalize, Progress
<1>2. CASE ~ (content[next].template = "partition table" /\ ~sections[next].filled)
  <2> DEFINE old == sections[next]
             table == IF content[next].template = "partition table"
                      THEN TableEntries(next) ELSE old.table
             s == [old EXCEPT !.table = table]
  <2>1. /\ sections' = [sections EXCEPT ![next] = s] /\ next' = next + 1
        /\ attributes' = attributes /\ overrides' = overrides /\ content' = content
        /\ content_parsed' = content_parsed /\ check_overflow' = check_overflow
        /\ flash_offset' = flash_offset
        /\ pc = "finalize" /\ pc' = "finalize"
    BY <1>2 DEF Finalize, setup, parsing
  <2>2. /\ next \in 1 .. Len(sections) /\ sections \in Seq(Section) /\ content_parsed
        /\ Len(sections) \in Nat
    <3>1. sections \in Seq(Section) /\ next \in Nat \ {0} /\ next <= Len(sections)
      BY DEF Inv, Progress, ContentGood, Finalize
    <3>2. content_parsed
      BY <2>1 DEF Inv, Progress
    <3> QED BY <3>1, <3>2
  <2>3. old \in Section
    BY <2>2
  <2>4. Closed = Filled
    BY <2>1 DEF Closed
  <2>5. \A i \in 1 .. Len(sections) : [offset |-> sections[i].offset, size |-> get_size(i)] \in Entry
    <3>1. TAKE i \in 1 .. Len(sections)
    <3>2. sections[i] \in Section
      BY <2>2
    <3>3. get_size(i) \in Nat
      <4>1. CASE sections[i].filled
        <5>1. i \in Closed
          BY <2>2, <2>4, <4>1 DEF Filled
        <5> QED BY <5>1 DEF Inv, Placed
      <4>2. CASE ~sections[i].filled
        BY <4>2 DEF get_size
      <4> QED BY <4>1, <4>2
    <3> QED BY <3>2, <3>3 DEF Section, Entry
  <2>6. table \in Seq(Entry)
    <3>1. TableEntries(next) \in Seq(Entry)
      <4>1. PICK n \in Nat : n = Len(sections) - next
        BY <2>2
      <4>2. \A j \in 1 .. n : [offset |-> sections[next + j].offset,
                                size |-> get_size(next + j)] \in Entry
        <5>1. TAKE j \in 1 .. n
        <5>2. next + j \in 1 .. Len(sections)
          BY <2>2, <4>1
        <5> QED BY <2>5, <5>2
      <4>3. [j \in 1 .. n |-> [offset |-> sections[next + j].offset,
                               size |-> get_size(next + j)]] \in Seq(Entry)
        BY <4>2
      <4> QED BY <4>1, <4>3 DEF TableEntries
    <3>2. old.table \in Seq(Entry)
      BY <2>3 DEF Section
    <3> QED BY <3>1, <3>2
  <2> HIDE DEF table
  <2>7. /\ s \in Section /\ s.filled = old.filled /\ s.offset = old.offset
        /\ s.current_offset = old.current_offset /\ s.fields = old.fields
    BY <2>3, <2>6 DEF Section
  <2> HIDE DEF s
  <2>8. /\ sections' \in Seq(Section) /\ Len(sections') = Len(sections)
        /\ DOMAIN sections' = 1 .. Len(sections) /\ DOMAIN sections = 1 .. Len(sections)
        /\ \A i \in 1 .. Len(sections) :
             /\ sections'[i].filled = sections[i].filled
             /\ sections'[i].offset = sections[i].offset
             /\ sections'[i].current_offset = sections[i].current_offset
             /\ sections'[i].fields = sections[i].fields
    BY <2>1, <2>2, <2>7
  <2>9. ContentGood'
    BY <2>1, <2>8 DEF Inv, ContentGood
  <2>10. Filled' = Filled /\ Filled \subseteq 1 .. Len(sections)
    BY <2>8 DEF Filled
  <2>11. Closed' = Filled
    BY <2>1, <2>10 DEF Closed
  <2>12. \A i \in 1 .. Len(sections) : get_size(i)' = get_size(i) /\ EndOf(i)' = EndOf(i)
    BY <2>1, <2>8, SizeKept
  <2>13. Progress' /\ Growing'
    BY <2>1, <2>2 DEF Progress, Growing
  <2>14. Placed'
    BY <2>1, <2>4, <2>10, <2>11, <2>12 DEF Inv, Placed
  <2>15. Bounded'
    BY <2>1 DEF Inv, Bounded
  <2>16. Disjoint' /\ FieldsInSection'
    BY <2>4, <2>8, <2>10, <2>11, <2>12 DEF Inv, Disjoint, FieldsInSection
  <2> QED BY <2>1, <2>9, <2>13, <2>14, <2>15, <2>16 DEF Inv
<1> QED BY <1>1, <1>2

\* The steps that leave the layout alone, of the parser and of the commands.
LEMMA OtherStepsInv ==
  ASSUME Inv,
         \/ SkipParse \/ UndefinedProperty \/ MissingProperty \/ UnreadableContent
         \/ ParseDone \/ PrintLayout \/ DumpSections \/ NoImage
         \/ OpenImage \/ AppendSection \/ WriteImage
  PROVE  Inv'
<1>1. content_parsed /\ next \in Nat \ {0}
  BY DEF Inv, Progress, SkipParse, UndefinedProperty, MissingProperty, UnreadableContent,
         ParseDone, PrintLayout, DumpSections, NoImage, OpenImage, AppendSection, WriteImage
<1>2. CASE UndefinedProperty \/ MissingProperty \/ UnreadableContent
  <2>1. Raise("error") \/ Raise("crash")
    BY <1>2 DEF UndefinedProperty, MissingProperty, UnreadableContent
  <2> QED BY <1>1, <2>1, RaiseInv
<1>3. CASE \/ SkipParse \/ ParseDone \/ PrintLayout \/ DumpSections \/ NoImage
           \/ OpenImage \/ AppendSection \/ WriteImage
  <2>1. /\ UNCHANGED <<attributes, overrides, parsing, layout>>
        /\ next' = next \/ next' = 1 \/ next' = next + 1
        /\ pc' \in {"command", "finalize", "execute", "image", "error", "crash"}
        /\ pc \notin {"content", "alloc", "error", "crash"}
    BY <1>3 DEF SkipParse, ParseDone, PrintLayout, DumpSections, NoImage, OpenImage,
                AppendSection, WriteImage, NextCommand, setup
  <2> QED BY <1>1, <2>1, QuietStep
<1> QED BY <1>2, <1>3

\* Every action keeps the invariant.
LEMMA NextInv == Inv /\ [Next]_vars => Inv'
<1> SUFFICES ASSUME Inv, [Next]_vars PROVE Inv'
  OBVIOUS
<1>1. CASE StartParse       BY <1>1, StartParseInv
<1>2. CASE Create           BY <1>2, CreateInv
<1>3. CASE CreateDone       BY <1>3, CreateDoneInv
<1>4. CASE HandleProperty   BY <1>4, HandlePropertyInv
<1>5. CASE StartLayout      BY <1>5, StartLayoutInv
<1>6. CASE SetContent       BY <1>6, SetContentInv
<1>7. CASE AllocOffset      BY <1>7, AllocOffsetInv
<1>8. CASE CloseSection     BY <1>8, CloseSectionInv
<1>9. CASE Finalize         BY <1>9, FinalizeInv
<1>10. CASE UNCHANGED vars
  <2>1. /\ attributes' = attributes /\ overrides' = overrides /\ content' = content
        /\ content_parsed' = content_parsed /\ check_overflow' = check_overflow
        /\ sections' = sections /\ flash_offset' = flash_offset /\ todo' = todo
        /\ next' = next /\ pc' = pc
    BY <1>10 DEF vars, setup, parsing, layout
  <2>2. Filled' = Filled /\ Closed' = Closed
    BY <2>1 DEF Filled, Closed
  <2>3. \A i : get_size(i)' = get_size(i) /\ EndOf(i)' = EndOf(i)
    BY <2>1, SizeKept
  <2>4. ContentGood' /\ Progress' /\ Growing'
    BY <2>1, <2>2 DEF Inv, ContentGood, Progress, Growing
  <2>5. Placed' /\ Bounded' /\ Disjoint' /\ FieldsInSection'
    BY <2>1, <2>2, <2>3 DEF Inv, Placed, Bounded, Disjoint, FieldsInSection
  <2> QED BY <2>1, <2>4, <2>5 DEF Inv
<1> QED BY <1>1, <1>2, <1>3, <1>4, <1>5, <1>6, <1>7, <1>8, <1>9, <1>10, OtherStepsInv
        DEF Next

-----------------------------------------------------------------------------
(* What the outputs rest on: the second half of the invariant              *)

\* The sections are laid out from the front, each one at the first place
\* its alignment allows behind the end of the one in front of it.
StartAfter(i, x) ==
  IF content[i].template = "lfs" /\ attributes.littlefs_align # None
  THEN Align(x, attributes.littlefs_align)
  ELSE Align(x, attributes.start_align)

FrontOf(i) == IF i = 1 THEN 0 ELSE EndOf(i - 1)

Chained ==
  /\ \A i \in Filled : \A j \in 1 .. i : j \in Filled
  /\ content_parsed /\ pc \notin {"create", "error", "crash"} => Len(sections) = Len(content)
  /\ \A i \in Filled : sections[i].offset = StartAfter(i, FrontOf(i))
  /\ pc = "content" => flash_offset = FrontOf(next)
  /\ \A i \in Closed : content[i].template = "rom" => sections[i].recorded_size = get_size(i)

\* A partition table allocates its header, then an entry for every section
\* behind it.
IsTable(i) == content[i].template = "partition table"
TableKind(k) == IF k = 1 THEN "header" ELSE "entry"
TableFields(i) == \A k \in 1 .. Len(sections[i].fields) : sections[i].fields[k].kind = TableKind(k)

Counted ==
  /\ todo \in Seq(Struct)
  /\ pc = "alloc" /\ IsTable(next) =>
       /\ TableFields(next)
       /\ Len(sections[next].fields) + Len(todo) = 1 + Len(content) - next
       /\ \A k \in 1 .. Len(todo) : todo[k].kind = TableKind(Len(sections[next].fields) + k)
  /\ \A i \in Closed : IsTable(i) =>
       TableFields(i) /\ Len(sections[i].fields) = 1 + Len(content) - i

\* The tables that are finalized say where the sections behind them are.
Tabled ==
  pc \notin {"error", "crash"} => \A i \in 1 .. Len(sections) :
    sections[i].table = IF IsTable(i) /\ (Parsed \/ (pc = "finalize" /\ i < next))
                        THEN TableEntries(i) ELSE <<>>

\* The outputs are those of the layout, once there is one.
Dump == [i \in DOMAIN sections |-> [offset |-> sections[i].offset, size |-> get_size(i)]]
Pieces(n) == [i \in 1 .. n |-> [section |-> i, at |-> sections[i].offset, size |-> get_size(i)]]

Written ==
  /\ ~Parsed => image = <<>> /\ image_file = <<>> /\ descriptions = <<>>
  /\ \E n \in 0 .. LastUsed : image = Pieces(n) /\ (pc = "image" => next = n + 1)
  /\ image_file \in {<<>>, Pieces(LastUsed)}
  /\ descriptions \in {<<>>, Dump}

OutInv == Chained /\ Counted /\ Tabled /\ Written

-----------------------------------------------------------------------------
(* Steps of the second half                                                *)

\* What the image holds ends with the last section in use.
LastIn ==
  /\ LastUsed \in 0 .. Len(sections)
  /\ LastUsed # 0 => LastUsed \in Filled
  /\ \A i \in 1 .. Len(sections) : ~is_empty(i) => i <= LastUsed

\* Where the last section in use is; it is laid out.
LEMMA LastUsedGood ==
  ASSUME sections \in Seq(Section)
  PROVE  LastIn
<1> DEFINE I == {i \in 1 .. Len(sections) : ~is_empty(i)}
<1>1. DOMAIN sections = 1 .. Len(sections) /\ Len(sections) \in Nat
  OBVIOUS
<1>2. LastUsed = IF I # {} THEN Max(I) ELSE 0
  <2> DEFINE u == [i \in DOMAIN sections |-> ~is_empty(i)]
  <2>1. Len(u) = Len(sections) /\ \A i \in 1 .. Len(sections) : u[i] = ~is_empty(i)
    BY <1>1
  <2>2. {i \in 1 .. Len(u) : u[i]} = I
    BY <2>1
  <2>3. LastUsed = LET J == {i \in 1 .. Len(u) : u[i]} IN IF J # {} THEN Max(J) ELSE 0
    BY Zenon DEF LastUsed, SelectLastInSeq
  <2> QED BY <2>2, <2>3
<1>3. I \in SUBSET (1 .. Len(sections))
  OBVIOUS
<1>4. \A i \in I : i \in 1 .. Len(sections) /\ ~is_empty(i)
  OBVIOUS
<1>5. /\ LastUsed \in 0 .. Len(sections)
      /\ LastUsed # 0 => LastUsed \in I
      /\ \A i \in I : i <= LastUsed
  <2> HIDE DEF I
  <2> QED BY <1>1, <1>2, <1>3, LastPlace
<1>6. LastUsed # 0 => LastUsed \in 1 .. Len(sections) /\ ~is_empty(LastUsed)
  BY <1>4, <1>5
<1>7. \A i : ~is_empty(i) => sections[i].filled
  BY DEF is_empty
<1>8. LastUsed # 0 => LastUsed \in Filled
  BY <1>1, <1>6, <1>7 DEF Filled
<1> QED BY <1>5, <1>8 DEF LastIn

\* What depends on the layout only stays as long as it does.
LEMMA LayoutKept ==
  ASSUME attributes' = attributes, content' = content, sections' = sections
  PROVE  /\ Filled' = Filled /\ LastUsed' = LastUsed /\ Dump' = Dump
         /\ \A i : /\ get_size(i)' = get_size(i) /\ EndOf(i)' = EndOf(i)
                   /\ FrontOf(i)' = FrontOf(i) /\ TableEntries(i)' = TableEntries(i)
                   /\ Pieces(i)' = Pieces(i) /\ is_empty(i)' = is_empty(i)
                   /\ \A x : StartAfter(i, x)' = StartAfter(i, x)
<1>1. \A i : get_size(i)' = get_size(i) /\ EndOf(i)' = EndOf(i)
  BY SizeKept
<1>2. Filled' = Filled
  BY DEF Filled
<1>3. \A i : is_empty(i)' = is_empty(i)
  BY DEF is_empty
<1>4. LastUsed' = LastUsed
  BY <1>3 DEF LastUsed, SelectLastInSeq
<1>5. Dump' = Dump
  BY <1>1 DEF Dump
<1>6. \A i : FrontOf(i)' = FrontOf(i) /\ TableEntries(i)' = TableEntries(i)
  BY <1>1 DEF FrontOf, TableEntries
<1>7. \A i : Pieces(i)' = Pieces(i)
  BY <1>1 DEF Pieces
<1>8. \A i, x : StartAfter(i, x)' = StartAfter(i, x)
  BY DEF StartAfter
<1> QED BY <1>1, <1>2, <1>3, <1>4, <1>5, <1>6, <1>7, <1>8

\* Nothing is written before the content is laid out.
LEMMA NothingWritten ==
  ASSUME LastIn', Written, ~Parsed, ~Parsed', outputs' = outputs, pc' # "image"
  PROVE  Written'
<1>1. image' = <<>> /\ image_file' = <<>> /\ descriptions' = <<>>
  BY DEF Written, outputs
<1>2. 0 \in 0 .. LastUsed'
  BY DEF LastIn
<1>3. Pieces(0)' = <<>>
  BY DEF Pieces
<1> QED BY <1>1, <1>2, <1>3 DEF Written

\* What a partition table allocates.
LEMMA TableStructsKinds ==
  ASSUME NEW n \in Nat
  PROVE  /\ Len(TableStructs(n)) = 1 + n
         /\ \A k \in 1 .. Len(TableStructs(n)) : TableStructs(n)[k].kind = TableKind(k)
<1> DEFINE h == <<[kind |-> "header", size |-> 32]>>
           e == [i \in 1 .. n |-> [kind |-> "entry", size |-> 32]]
<1>1. TableStructs(n) = h \o e
  <2>1. Header(32) = h
    <3>1. DOMAIN <<32>> = 1 .. 1 /\ <<32>>[1] = 32
      OBVIOUS
    <3>2. [i \in 1 .. 1 |-> [kind |-> "header", size |-> <<32>>[i]]] = h
      BY <3>1
    <3> QED BY <3>1, <3>2 DEF Header, Of
  <2>2. Of("entry", [i \in 1 .. n |-> 32]) = e
    BY DEF Of
  <2> QED BY <2>1, <2>2 DEF TableStructs
<1>2. /\ h \in Seq([kind : Kinds, size : Nat]) /\ Len(h) = 1 /\ h[1].kind = "header"
      /\ e \in Seq([kind : Kinds, size : Nat]) /\ Len(e) = n
      /\ \A i \in 1 .. n : e[i].kind = "entry"
  BY DEF Kinds
<1> HIDE DEF h, e
<1>3. /\ Len(h \o e) = 1 + n
      /\ \A k \in 1 .. 1 + n : (h \o e)[k] = IF k <= 1 THEN h[k] ELSE e[k - 1]
  <2>1. PICK S : S = [kind : Kinds, size : Nat]
    OBVIOUS
  <2>2. h \in Seq(S) /\ e \in Seq(S)
    BY <1>2, <2>1
  <2>3. /\ Len(h \o e) = Len(h) + Len(e)
        /\ \A k \in 1 .. Len(h) + Len(e) :
             (h \o e)[k] = IF k <= Len(h) THEN h[k] ELSE e[k - Len(h)]
    BY <2>2, ConcatProperties
  <2> QED BY <1>2, <2>3
<1>4. \A k \in 1 .. 1 + n : (h \o e)[k].kind = TableKind(k)
  <2>1. TAKE k \in 1 .. 1 + n
  <2>2. CASE k = 1
    BY <1>2, <1>3, <2>2 DEF TableKind
  <2>3. CASE k # 1
    <3>1. k - 1 \in 1 .. n /\ (h \o e)[k] = e[k - 1]
      BY <1>3, <2>3
    <3> QED BY <1>2, <2>3, <3>1 DEF TableKind
  <2> QED BY <2>2, <2>3
<1> QED BY <1>1, <1>3, <1>4

\* The steps before the layout.
LEMMA EarlyOut ==
  ASSUME Inv, Inv', LastIn', OutInv,
         StartParse \/ Create \/ CreateDone \/ HandleProperty \/ StartLayout
  PROVE  OutInv'
<1>1. /\ outputs' = outputs /\ todo' = todo
      /\ pc \in {"command", "create", "override"} /\ (pc = "command" => ~content_parsed)
      /\ pc' \in {"create", "override", "content", "finalize", "error"}
      /\ pc' = "content" => next' = 1
      /\ pc' = "finalize" => next' = 1
      /\ content_parsed'
  BY DEF StartParse, Create, CreateDone, HandleProperty, StartLayout, Raise, parsing, layout,
         outputs, Inv, Progress
<1>2. Filled' = {} /\ Closed' = {} /\ (pc' \in {"create", "override", "content"} => flash_offset' = 0)
  <2>1. Filled = {} /\ flash_offset = 0
    BY <1>1 DEF Inv, Progress
  <2>2. Filled' = {}
    <3>1. CASE pc' \in {"create", "override"}
      BY <3>1 DEF Inv, Progress
    <3>2. CASE pc' = "content"
      BY <1>1, <3>2 DEF Inv, Progress
    <3>3. CASE pc' \in {"finalize", "error"}
      <4>1. sections' = sections
        BY <3>3 DEF StartParse, Create, CreateDone, HandleProperty, StartLayout, Raise, layout
      <4> QED BY <2>1, <4>1 DEF Filled
    <3> QED BY <1>1, <3>1, <3>2, <3>3
  <2>3. Closed' = {}
    BY <2>2 DEF Closed
  <2>4. flash_offset' = 0
    BY <2>1 DEF StartParse, Create, CreateDone, HandleProperty, StartLayout, Raise, layout
  <2> QED BY <2>2, <2>3, <2>4
<1>3. Chained'
  <2>1. pc' = "finalize" => Len(sections') = Len(content')
    BY DEF StartParse, Create, CreateDone, HandleProperty, StartLayout, Raise, layout, parsing,
           Inv, Progress
  <2>2. pc' \in {"override", "content"} => Len(sections') = Len(content')
    BY DEF Inv, Progress
  <2>3. pc' = "content" => flash_offset' = FrontOf(next)'
    BY <1>1, <1>2 DEF FrontOf
  <2> QED BY <1>1, <1>2, <2>1, <2>2, <2>3 DEF Chained
<1>4. Counted'
  BY <1>1, <1>2 DEF OutInv, Counted
<1>5. Tabled'
  <2>1. SUFFICES ASSUME pc' # "error" PROVE \A i \in 1 .. Len(sections') : sections'[i].table = <<>>
    <3>1. ~Parsed' /\ (pc' = "finalize" => next' = 1)
      BY <1>1 DEF Parsed
    <3> QED BY <2>1, <3>1 DEF Tabled
  <2>2. \A i \in 1 .. Len(sections) : sections[i].table = <<>>
    <3>1. ~Parsed /\ pc \notin {"error", "crash", "finalize"}
      BY <1>1 DEF Parsed
    <3> QED BY <3>1 DEF OutInv, Tabled
  <2>3. sections' = sections \/ sections' = Append(sections, Unset)
    BY DEF StartParse, Create, CreateDone, HandleProperty, StartLayout, Raise, layout
  <2>4. CASE sections' = sections
    BY <2>2, <2>4
  <2>5. CASE sections' = Append(sections, Unset)
    <3>1. sections \in Seq(Section)
      BY DEF Inv, ContentGood
    <3>2. /\ Len(sections') = Len(sections) + 1
          /\ sections'[Len(sections) + 1] = Unset
          /\ \A i \in 1 .. Len(sections) : sections'[i] = sections[i]
      BY <2>5, <3>1, AppendProperties
    <3>3. Unset.table = <<>>
      BY DEF Unset
    <3>4. Len(sections) \in Nat
      BY <3>1
    <3> QED BY <2>2, <3>2, <3>3, <3>4
  <2> QED BY <2>3, <2>4, <2>5
<1>6. Written'
  <2>1. ~Parsed /\ ~Parsed' /\ pc' # "image" /\ Written
    BY <1>1 DEF Parsed, OutInv
  <2> QED BY <1>1, <2>1, NothingWritten
<1> QED BY <1>3, <1>4, <1>5, <1>6 DEF OutInv

\* The steps that leave the layout alone keep what it rests on; those that
\* stay in the parser write nothing either.
LEMMA QuietOut ==
  ASSUME Inv, OutInv, UNCHANGED <<attributes, content, content_parsed, sections, todo>>,
         content_parsed,
         \/ pc' \in {"error", "crash"}
         \/ /\ pc \in {"command", "finalize", "execute", "image"}
            /\ pc' \in {"command", "execute", "image"}
            /\ pc = "finalize" => next > Len(sections)
  PROVE  Chained' /\ Counted' /\ Tabled'
<1>1. Filled' = Filled /\ Closed' \subseteq Closed
  BY LayoutKept DEF Closed
<1>2. Chained'
  BY <1>1, LayoutKept DEF OutInv, Chained
<1>3. Counted'
  BY <1>1, LayoutKept DEF OutInv, Counted, IsTable, TableFields
<1>4. Tabled'
  <2>1. SUFFICES ASSUME pc' \notin {"error", "crash"}, NEW i \in 1 .. Len(sections)
                 PROVE  sections[i].table = IF IsTable(i) /\ Parsed' THEN TableEntries(i) ELSE <<>>
    BY LayoutKept DEF Tabled, IsTable
  <2>2. Parsed' /\ (Parsed \/ (pc = "finalize" /\ i < next))
    <3>1. Len(sections) \in Nat /\ next \in Nat
      BY DEF Inv, ContentGood, Progress
    <3> QED BY <2>1, <3>1 DEF Parsed
  <2>3. pc \notin {"error", "crash"}
    BY <2>1
  <2> QED BY <2>2, <2>3 DEF OutInv, Tabled
<1> QED BY <1>2, <1>3, <1>4

\* SetContent places the section behind the end of the one in front of it.
LEMMA SetContentOut == ASSUME Inv, Inv', LastIn', OutInv, SetContent PROVE OutInv'
<1> DEFINE offset == start_offset(next)
           s == [Unset EXCEPT !.filled = TRUE, !.offset = offset, !.current_offset = offset]
<1>1. /\ next \in 1 .. Len(sections) /\ Len(sections) = Len(content)
      /\ sections \in Seq(Section) /\ Len(sections) \in Nat
      /\ WellFormed(content[next]) /\ content[next].template \in Templates
      /\ Complete(content[next]) /\ AllDeclared(content[next])
      /\ Filled = 1 .. next - 1
  BY DEF Inv, Progress, ContentGood, SetContent
<1>2. offset = StartAfter(next, FrontOf(next))
  BY DEF OutInv, Chained, SetContent, StartAfter, start_offset
<1>3. /\ attributes \in Attributes
      /\ flash_offset \in Nat /\ flash_offset <= FlashSize
  BY DEF Inv, Bounded, SetContent
<1>4. offset \in Nat /\ offset <= FlashSize
  BY <1>3, AlignUp, AlignInFlash, AlignmentsGood DEF start_offset
<1>5. /\ todo' = Structs(content[next], offset, Len(content) - next)
      /\ sections' = [sections EXCEPT ![next] = s]
      /\ attributes' = attributes /\ content' = content
      /\ content_parsed' = content_parsed /\ next' = next /\ outputs' = outputs
      /\ pc = "content" /\ pc' = "alloc"
  BY DEF SetContent, setup, parsing
<1>6. s.filled /\ s.offset = offset /\ s.fields = <<>> /\ s.table = <<>>
  BY DEF Unset
<1> HIDE DEF offset, s
<1>7. /\ Len(sections') = Len(sections) /\ sections'[next] = s
      /\ \A i \in 1 .. Len(sections) : i # next => sections'[i] = sections[i]
  BY <1>1, <1>5
<1>8. Filled' = 1 .. next /\ Closed = 1 .. next - 1 /\ Closed' = 1 .. next - 1
  <2>1. Filled' = 1 .. next
    BY <1>1, <1>5 DEF Inv, Progress
  <2> QED BY <1>1, <1>5, <2>1 DEF Closed
<1>9. \A i \in 1 .. next - 1 : get_size(i)' = get_size(i) /\ EndOf(i)' = EndOf(i)
  <2>1. TAKE i \in 1 .. next - 1
  <2>2. sections'[i] = sections[i]
    BY <1>1, <1>7
  <2> QED BY <1>5, <2>2, SizeKept
<1>10. \A i \in 1 .. next : FrontOf(i)' = FrontOf(i)
  BY <1>1, <1>9 DEF FrontOf
<1>11. \A i, x : StartAfter(i, x)' = StartAfter(i, x)
  BY <1>5 DEF StartAfter
<1>12. Chained'
  <2>1. \A i \in 1 .. next : sections'[i].offset = StartAfter(i, FrontOf(i))'
    <3>1. TAKE i \in 1 .. next
    <3>2. StartAfter(i, FrontOf(i))' = StartAfter(i, FrontOf(i))
      BY <1>5, <1>10 DEF StartAfter
    <3>3. CASE i = next
      BY <1>2, <1>6, <1>7, <3>2, <3>3
    <3>4. CASE i # next
      <4>1. i \in Filled /\ sections'[i] = sections[i]
        BY <1>1, <1>7, <3>4
      <4> QED BY <3>2, <4>1 DEF OutInv, Chained
    <3> QED BY <3>3, <3>4
  <2>2. \A i \in 1 .. next - 1 :
          content'[i].template = "rom" => sections'[i].recorded_size = get_size(i)'
    <3>1. \A i \in 1 .. next - 1 : sections'[i] = sections[i]
      BY <1>1, <1>7
    <3> QED BY <1>5, <1>8, <1>9, <3>1 DEF OutInv, Chained
  <2>3. Len(sections') = Len(content')
    BY <1>1, <1>5, <1>7
  <2>4. \A i \in 1 .. next : \A j \in 1 .. i : j \in 1 .. next
    BY <1>1
  <2>5. (\A i \in Filled : \A j \in 1 .. i : j \in Filled)'
    BY <1>8, <2>4
  <2>6. (\A i \in Filled : sections[i].offset = StartAfter(i, FrontOf(i)))'
    BY <1>8, <2>1
  <2>7. (\A i \in Closed : content[i].template = "rom" => sections[i].recorded_size = get_size(i))'
    BY <1>8, <2>2
  <2>8. pc' # "content"
    BY <1>5
  <2> QED BY <2>3, <2>5, <2>6, <2>7, <2>8 DEF Chained
<1>13. Counted'
  <2>1. todo' \in Seq([kind : Kinds, size : Nat])
    <3>1. Len(content) - next \in Nat
      BY <1>1
    <3> QED BY <1>1, <1>4, <1>5, <3>1, StructsGood
  <2>2. todo' \in Seq(Struct)
    <3>1. [kind : Kinds, size : Nat] \subseteq Struct
      BY DEF Struct
    <3> QED BY <2>1, <3>1, SeqMono
  <2>3. IsTable(next) => /\ Len(todo') = 1 + Len(content) - next
                         /\ \A k \in 1 .. Len(todo') : todo'[k].kind = TableKind(k)
    <3>1. SUFFICES ASSUME IsTable(next)
                   PROVE  /\ Len(todo') = 1 + (Len(content) - next)
                          /\ \A k \in 1 .. Len(todo') : todo'[k].kind = TableKind(k)
      BY <1>1
    <3>2. PICK n \in Nat : n = Len(content) - next
      BY <1>1
    <3>3. todo' = TableStructs(n)
      BY <1>5, <3>1, <3>2 DEF Structs, IsTable
    <3> QED BY <3>2, <3>3, TableStructsKinds
  <2>4. Len(sections'[next'].fields) = 0
    BY <1>5, <1>6, <1>7
  <2>5. \A k \in 1 .. Len(todo') : 0 + k = k
    BY <2>2
  <2>6. pc' = "alloc" /\ IsTable(next)' =>
          /\ TableFields(next)'
          /\ Len(sections'[next'].fields) + Len(todo') = 1 + Len(content') - next'
          /\ \A k \in 1 .. Len(todo') : todo'[k].kind = TableKind(Len(sections'[next'].fields) + k)
    <3>1. IsTable(next)' = IsTable(next)
      BY <1>5 DEF IsTable
    <3>2. TableFields(next)'
      BY <2>4 DEF TableFields
    <3>3. Len(todo') \in Nat /\ next \in Nat /\ Len(content) \in Nat
      BY <1>1, <2>2
    <3>4. Len(sections'[next'].fields) + Len(todo') = Len(todo')
      BY <2>4, <3>3
    <3>5. \A k \in 1 .. Len(todo') : Len(sections'[next'].fields) + k = k
      BY <2>4, <2>5
    <3> QED BY <1>5, <2>3, <3>1, <3>2, <3>4, <3>5
  <2>7. \A i \in 1 .. next - 1 : IsTable(i)' =>
          TableFields(i)' /\ Len(sections'[i].fields) = 1 + Len(content') - i
    <3>1. TAKE i \in 1 .. next - 1
    <3>2. sections'[i] = sections[i] /\ i \in Closed
      BY <1>1, <1>7, <1>8
    <3>3. IsTable(i)' = IsTable(i) /\ TableFields(i)' = TableFields(i)
      BY <1>5, <3>2 DEF IsTable, TableFields
    <3> QED BY <1>5, <3>2, <3>3 DEF OutInv, Counted
  <2> QED BY <1>8, <2>2, <2>6, <2>7 DEF Counted
<1>14. Tabled'
  <2>1. \A i \in 1 .. Len(sections) : sections[i].table = <<>>
    BY <1>5 DEF OutInv, Tabled, Parsed
  <2>2. \A i \in 1 .. Len(sections') : sections'[i].table = <<>>
    BY <1>6, <1>7, <2>1
  <2> QED BY <1>5, <2>2 DEF Tabled, Parsed
<1>15. Written'
  BY <1>5, NothingWritten DEF OutInv, Parsed
<1> QED BY <1>12, <1>13, <1>14, <1>15 DEF OutInv

\* AllocOffset moves a structure from those left to those allocated.
LEMMA AllocOffsetOut == ASSUME Inv, Inv', LastIn', OutInv, AllocOffset PROVE OutInv'
<1> DEFINE old == sections[next]
           f == [kind |-> Head(todo).kind, offset |-> old.current_offset,
                 size |-> Head(todo).size]
           headers == old.headers + IF Head(todo).kind = "data" THEN 0 ELSE Head(todo).size
           s == sections'[next]
<1>1. /\ next \in 1 .. Len(sections) /\ Len(sections) = Len(content)
      /\ sections \in Seq(Section) /\ Len(sections) \in Nat
      /\ Filled = 1 .. next
  BY DEF Inv, Progress, ContentGood, AllocOffset
<1>2. /\ todo' = Tail(todo) /\ todo # <<>>
      /\ attributes' = attributes /\ content' = content
      /\ content_parsed' = content_parsed /\ next' = next /\ outputs' = outputs
      /\ pc = "alloc" /\ pc' = "alloc"
  BY DEF AllocOffset, setup, parsing
<1>3. /\ Len(sections') = Len(sections)
      /\ \A i \in 1 .. Len(sections) : i # next => sections'[i] = sections[i]
  BY <1>1 DEF AllocOffset
<1>4. old \in Section
  BY <1>1
<1>5. /\ s.filled = old.filled /\ s.offset = old.offset /\ s.table = old.table
      /\ s.fields = Append(old.fields, f)
  <2>1. s = [old EXCEPT !.current_offset = @ + Head(todo).size,
                        !.headers = headers,
                        !.fields = Append(@, f)]
    <3>1. next \in DOMAIN sections
      BY <1>1
    <3> QED BY <3>1 DEF AllocOffset
  <2> HIDE DEF s, f, headers, old
  <2> QED BY <1>4, <2>1 DEF Section
<1> HIDE DEF headers
<1>6. old.fields \in Seq(Field) /\ todo \in Seq(Struct)
  BY <1>4 DEF Section, OutInv, Counted
<1>7. /\ Tail(todo) \in Seq(Struct) /\ Len(Tail(todo)) = Len(todo) - 1 /\ Len(todo) \in Nat \ {0}
      /\ \A k \in 1 .. Len(todo) - 1 : Tail(todo)[k] = todo[k + 1]
      /\ Head(todo) = todo[1]
  BY <1>2, <1>6, HeadTailProperties
<1>8. /\ Len(s.fields) = Len(old.fields) + 1 /\ Len(old.fields) \in Nat
      /\ s.fields[Len(old.fields) + 1] = f
      /\ \A k \in 1 .. Len(old.fields) : s.fields[k] = old.fields[k]
  <2>1. f \in Field
    <3>1. Head(todo) \in Struct
      BY <1>6, <1>7
    <3> QED BY <1>4, <3>1 DEF Struct, Field, Section
  <2> HIDE DEF f
  <2> QED BY <1>5, <1>6, <2>1, AppendProperties
<1>9. f.kind = todo[1].kind
  BY <1>7
<1> HIDE DEF f, s
<1>10. Filled' = 1 .. next /\ Closed = 1 .. next - 1 /\ Closed' = 1 .. next - 1
  <2>1. Filled' = 1 .. next
    BY <1>1, <1>2 DEF Inv, Progress
  <2> QED BY <1>1, <1>2, <2>1 DEF Closed
<1>11. \A i \in 1 .. next - 1 : get_size(i)' = get_size(i) /\ EndOf(i)' = EndOf(i)
  <2>1. TAKE i \in 1 .. next - 1
  <2>2. sections'[i] = sections[i]
    BY <1>1, <1>3
  <2> QED BY <1>2, <2>2, SizeKept
<1>12. \A i \in 1 .. next : FrontOf(i)' = FrontOf(i)
  BY <1>1, <1>11 DEF FrontOf
<1>13. Chained'
  <2>1. (\A i \in Filled : sections[i].offset = StartAfter(i, FrontOf(i)))'
    <3>1. SUFFICES ASSUME NEW i \in 1 .. next PROVE sections'[i].offset = StartAfter(i, FrontOf(i))'
      BY <1>10
    <3>2. StartAfter(i, FrontOf(i))' = StartAfter(i, FrontOf(i))
      BY <1>2, <1>12 DEF StartAfter
    <3>3. sections'[i].offset = sections[i].offset
      BY <1>1, <1>3, <1>5 DEF s
    <3> QED BY <1>1, <3>2, <3>3 DEF OutInv, Chained
  <2>2. (\A i \in Closed : content[i].template = "rom" => sections[i].recorded_size = get_size(i))'
    <3>1. \A i \in 1 .. next - 1 : sections'[i] = sections[i]
      BY <1>1, <1>3
    <3> QED BY <1>2, <1>10, <1>11, <3>1 DEF OutInv, Chained
  <2>3. Len(sections') = Len(content')
    BY <1>1, <1>2, <1>3
  <2>4. (\A i \in Filled : \A j \in 1 .. i : j \in Filled)'
    BY <1>1, <1>10
  <2>5. pc' # "content"
    BY <1>2
  <2> QED BY <2>1, <2>2, <2>3, <2>4, <2>5 DEF Chained
<1>14. Counted'
  <2>1. todo' \in Seq(Struct)
    BY <1>2, <1>7
  <2>2. ASSUME IsTable(next)
        PROVE  /\ \A k \in 1 .. Len(s.fields) : s.fields[k].kind = TableKind(k)
               /\ Len(s.fields) + Len(todo') = 1 + Len(content) - next
               /\ \A k \in 1 .. Len(todo') : todo'[k].kind = TableKind(Len(s.fields) + k)
    <3>1. /\ \A k \in 1 .. Len(old.fields) : old.fields[k].kind = TableKind(k)
          /\ Len(old.fields) + Len(todo) = 1 + Len(content) - next
          /\ \A k \in 1 .. Len(todo) : todo[k].kind = TableKind(Len(old.fields) + k)
      BY <1>2, <2>2 DEF OutInv, Counted, TableFields
    <3> HIDE DEF old
    <3>2. \A k \in 1 .. Len(s.fields) : s.fields[k].kind = TableKind(k)
      <4>1. TAKE k \in 1 .. Len(s.fields)
      <4>2. CASE k \in 1 .. Len(old.fields)
        BY <1>8, <3>1, <4>2
      <4>3. CASE k = Len(old.fields) + 1
        <5>1. todo[1].kind = TableKind(Len(old.fields) + 1)
          BY <1>7, <3>1
        <5> QED BY <1>8, <1>9, <4>3, <5>1
      <4>4. k \in 1 .. Len(old.fields) \/ k = Len(old.fields) + 1
        BY <1>8
      <4> QED BY <4>2, <4>3, <4>4
    <3>3. Len(s.fields) + Len(todo') = 1 + Len(content) - next
      <4>1. Len(todo') = Len(todo) - 1
        BY <1>2, <1>7
      <4>2. Len(content) \in Nat /\ next \in Nat
        BY <1>1
      <4> QED BY <1>7, <1>8, <3>1, <4>1, <4>2
    <3>4. \A k \in 1 .. Len(todo') : todo'[k].kind = TableKind(Len(s.fields) + k)
      <4>1. TAKE k \in 1 .. Len(todo')
      <4>2. k \in Nat /\ k + 1 \in 1 .. Len(todo) /\ todo'[k] = todo[k + 1]
        BY <1>2, <1>7
      <4>3. Len(old.fields) + (k + 1) = Len(s.fields) + k
        <5>1. k \in Nat
          BY <4>2
        <5>2. Len(old.fields) \in Nat
          BY <1>8
        <5>3. Len(s.fields) = Len(old.fields) + 1
          BY <1>8
        <5>4. \A m \in Nat : m + (k + 1) = (m + 1) + k
          BY <5>1
        <5> QED BY <5>2, <5>3, <5>4
      <4>4. todo[k + 1].kind = TableKind(Len(old.fields) + (k + 1))
        BY <3>1, <4>2
      <4> QED BY <4>2, <4>3, <4>4
    <3> QED BY <3>2, <3>3, <3>4
  <2>3. IsTable(next)' = IsTable(next) /\ s = sections'[next']
    BY <1>2 DEF IsTable, s
  <2>4. (\A i \in Closed : IsTable(i) =>
           TableFields(i) /\ Len(sections[i].fields) = 1 + Len(content) - i)'
    <3>1. SUFFICES ASSUME NEW i \in 1 .. next - 1, IsTable(i)'
                   PROVE  TableFields(i)' /\ Len(sections'[i].fields) = 1 + Len(content') - i
      BY <1>10
    <3>2. sections'[i] = sections[i] /\ i \in Closed
      BY <1>1, <1>3, <1>10
    <3>3. IsTable(i) /\ TableFields(i)' = TableFields(i)
      BY <1>2, <3>1, <3>2 DEF IsTable, TableFields
    <3> QED BY <1>2, <3>2, <3>3 DEF OutInv, Counted
  <2>5. (pc = "alloc" /\ IsTable(next) =>
           /\ TableFields(next)
           /\ Len(sections[next].fields) + Len(todo) = 1 + Len(content) - next
           /\ \A k \in 1 .. Len(todo) : todo[k].kind = TableKind(Len(sections[next].fields) + k))'
    <3>1. SUFFICES ASSUME IsTable(next)
                   PROVE  /\ TableFields(next)'
                          /\ Len(s.fields) + Len(todo') = 1 + Len(content) - next
                          /\ \A k \in 1 .. Len(todo') : todo'[k].kind = TableKind(Len(s.fields) + k)
      BY <1>2, <2>3
    <3>2. TableFields(next)'
      BY <1>2, <2>2, <2>3, <3>1 DEF TableFields
    <3> QED BY <2>2, <3>1, <3>2
  <2> QED BY <2>1, <2>4, <2>5 DEF Counted
<1>15. Tabled'
  <2>1. \A i \in 1 .. Len(sections) : sections[i].table = <<>>
    BY <1>2 DEF OutInv, Tabled, Parsed
  <2>2. \A i \in 1 .. Len(sections') : sections'[i].table = <<>>
    BY <1>1, <1>3, <1>5, <2>1 DEF s
  <2> QED BY <1>2, <2>2 DEF Tabled, Parsed
<1>16. Written'
  BY <1>2, NothingWritten DEF OutInv, Parsed
<1> QED BY <1>13, <1>14, <1>15, <1>16 DEF OutInv

\* A step inside the parser that raises.
LEMMA RaiseOut ==
  ASSUME Inv, LastIn', OutInv, content_parsed, ~Parsed,
         NEW kind \in {"error", "crash"}, Raise(kind)
  PROVE  OutInv'
<1>1. /\ UNCHANGED <<attributes, content, content_parsed, sections, todo>>
      /\ outputs' = outputs /\ pc' = kind
  BY DEF Raise, setup, parsing, layout
<1>2. Chained' /\ Counted' /\ Tabled'
  BY <1>1, QuietOut
<1>3. ~Parsed' /\ pc' # "image"
  BY <1>1 DEF Parsed
<1>4. Written'
  BY <1>1, <1>3, NothingWritten DEF OutInv
<1> QED BY <1>2, <1>4 DEF OutInv

\* CloseSection records a ROM's size, and the next section starts there.
LEMMA CloseSectionOut == ASSUME Inv, Inv', LastIn', OutInv, CloseSection PROVE OutInv'
<1>1. CASE BadSize(next) \/ (Overflows(next) /\ check_overflow)
  <2>1. Raise("error") /\ ~Parsed /\ content_parsed
    BY <1>1 DEF CloseSection, Parsed, Inv, Progress
  <2> QED BY <2>1, RaiseOut
<1>2. CASE ~BadSize(next) /\ ~(Overflows(next) /\ check_overflow)
  <2> DEFINE old == sections[next]
             s == [old EXCEPT !.recorded_size = recorded_size(next)]
  <2>1. /\ sections' = [sections EXCEPT ![next] = s]
        /\ flash_offset' = EndOf(next) /\ todo = <<>> /\ todo' = todo
        /\ attributes' = attributes /\ content' = content
        /\ content_parsed' = content_parsed /\ outputs' = outputs
        /\ pc = "alloc"
        /\ \/ pc' = "finalize" /\ next' = 1
           \/ pc' = "content" /\ next' = next + 1
    BY <1>2 DEF CloseSection, setup, parsing
  <2>2. /\ next \in 1 .. Len(sections) /\ Len(sections) = Len(content) /\ Len(sections) \in Nat
        /\ sections \in Seq(Section) /\ Filled = 1 .. next
    BY <2>1 DEF Inv, Progress, ContentGood
  <2>3. old \in Section
    BY <2>2
  <2>4. /\ s.filled = old.filled /\ s.offset = old.offset /\ s.table = old.table
        /\ s.current_offset = old.current_offset /\ s.fields = old.fields
        /\ s.recorded_size = recorded_size(next)
    BY <2>3 DEF Section
  <2> HIDE DEF s
  <2>5. /\ Len(sections') = Len(sections)
        /\ sections'[next] = s
        /\ \A i \in 1 .. Len(sections) :
             /\ sections'[i].filled = sections[i].filled
             /\ sections'[i].offset = sections[i].offset
             /\ sections'[i].current_offset = sections[i].current_offset
             /\ sections'[i].fields = sections[i].fields
             /\ sections'[i].table = sections[i].table
             /\ i # next => sections'[i] = sections[i]
    BY <2>1, <2>2, <2>4
  <2>6. Filled' = 1 .. next /\ Closed = 1 .. next - 1 /\ Closed' = 1 .. next
    <3>1. Filled' = 1 .. next
      BY <2>2, <2>5 DEF Filled
    <3>2. Closed = 1 .. next - 1
      BY <2>1, <2>2 DEF Closed
    <3>3. CASE pc' = "finalize"
      BY <3>1, <3>2, <3>3 DEF Closed
    <3>4. CASE pc' = "content" /\ next' = next + 1
      <4>1. Closed' = (1 .. next) \ {next + 1}
        BY <3>1, <3>4 DEF Closed
      <4>2. (1 .. next) \ {next + 1} = 1 .. next
        BY <2>2
      <4> QED BY <3>1, <3>2, <4>1, <4>2
    <3> QED BY <2>1, <3>1, <3>2, <3>3, <3>4
  <2>7. \A i \in 1 .. next : get_size(i)' = get_size(i) /\ EndOf(i)' = EndOf(i)
    <3>1. TAKE i \in 1 .. next
    <3>2. i \in 1 .. Len(sections)
      BY <2>2
    <3> QED BY <2>1, <2>5, <3>2, SizeKept
  <2>8. \A i \in 1 .. next : FrontOf(i)' = FrontOf(i)
    BY <2>2, <2>7 DEF FrontOf
  <2>9. Chained'
    <3>1. (\A i \in Filled : sections[i].offset = StartAfter(i, FrontOf(i)))'
      <4>1. SUFFICES ASSUME NEW i \in 1 .. next PROVE sections'[i].offset = StartAfter(i, FrontOf(i))'
        BY <2>6
      <4>2. StartAfter(i, FrontOf(i))' = StartAfter(i, FrontOf(i))
        BY <2>1, <2>8 DEF StartAfter
      <4>3. sections'[i].offset = sections[i].offset
        BY <2>2, <2>5
      <4> QED BY <2>2, <4>2, <4>3 DEF OutInv, Chained
    <3>2. (\A i \in Closed : content[i].template = "rom" => sections[i].recorded_size = get_size(i))'
      <4>1. SUFFICES ASSUME NEW i \in 1 .. next, content[i].template = "rom"
                     PROVE  sections'[i].recorded_size = get_size(i)
        BY <2>1, <2>6, <2>7
      <4>2. CASE i = next
        BY <2>4, <2>5, <4>1, <4>2 DEF recorded_size
      <4>3. CASE i # next
        <5>1. i \in Closed /\ sections'[i] = sections[i]
          BY <2>2, <2>5, <2>6, <4>3
        <5> QED BY <4>1, <5>1 DEF OutInv, Chained
      <4> QED BY <4>2, <4>3
    <3>3. Len(sections') = Len(content')
      BY <2>1, <2>2, <2>5
    <3>4. (\A i \in Filled : \A j \in 1 .. i : j \in Filled)'
      BY <2>2, <2>6
    <3>5. pc' = "content" => flash_offset' = FrontOf(next)'
      <4>1. SUFFICES ASSUME pc' = "content" PROVE flash_offset' = FrontOf(next)'
        OBVIOUS
      <4>2. next' = next + 1 /\ next' # 1 /\ next' - 1 = next
        BY <2>1, <2>2, <4>1
      <4>3. flash_offset' = EndOf(next) /\ FrontOf(next)' = EndOf(next - 1)'
        BY <2>1, <4>2 DEF FrontOf
      <4>4. EndOf(next - 1)' = EndOf(next)
        <5>1. PICK n \in 1 .. next : n = next
          BY <2>2
        <5>2. EndOf(n)' = EndOf(n) /\ next' - 1 = n
          BY <2>7, <4>2, <5>1
        <5>3. EndOf(next - 1)' = EndOf(n)'
          BY <5>2 DEF EndOf, get_size, Allocated
        <5> QED BY <5>1, <5>2, <5>3
      <4> QED BY <4>3, <4>4
    <3> QED BY <3>1, <3>2, <3>3, <3>4, <3>5 DEF Chained
  <2>10. Counted'
    <3>1. todo' \in Seq(Struct) /\ pc' # "alloc"
      BY <2>1 DEF OutInv, Counted
    <3>2. (\A i \in Closed : IsTable(i) =>
             TableFields(i) /\ Len(sections[i].fields) = 1 + Len(content) - i)'
      <4>1. SUFFICES ASSUME NEW i \in 1 .. next, IsTable(i)'
                     PROVE  TableFields(i)' /\ Len(sections'[i].fields) = 1 + Len(content') - i
        BY <2>6
      <4>2. sections'[i].fields = sections[i].fields
        BY <2>2, <2>5
      <4>3. IsTable(i) /\ TableFields(i)' = TableFields(i)
        BY <2>1, <4>1, <4>2 DEF IsTable, TableFields
      <4>4. TableFields(i) /\ Len(sections[i].fields) = 1 + Len(content) - i
        <5>1. CASE i = next
          <6>1. TableFields(i) /\ Len(sections[i].fields) + Len(todo) = 1 + Len(content) - i
            BY <2>1, <4>3, <5>1 DEF OutInv, Counted
          <6>2. Len(todo) = 0 /\ Len(sections[i].fields) \in Nat
            BY <2>1, <2>3, <5>1 DEF Section
          <6> QED BY <6>1, <6>2
        <5>2. CASE i # next
          <6>1. i \in Closed
            BY <2>2, <2>6, <5>2
          <6> QED BY <4>3, <6>1 DEF OutInv, Counted
        <5> QED BY <5>1, <5>2
      <4> QED BY <2>1, <4>2, <4>3, <4>4
    <3> QED BY <3>1, <3>2 DEF Counted
  <2>11. Tabled'
    <3>1. \A i \in 1 .. Len(sections) : sections[i].table = <<>>
      BY <2>1 DEF OutInv, Tabled, Parsed
    <3>2. \A i \in 1 .. Len(sections') : sections'[i].table = <<>>
      BY <2>5, <3>1
    <3>3. ~Parsed' /\ (pc' = "finalize" => next' = 1)
      BY <2>1 DEF Parsed
    <3> QED BY <3>2, <3>3 DEF Tabled
  <2>12. Written'
    <3>1. ~Parsed /\ ~Parsed' /\ pc' # "image"
      BY <2>1 DEF Parsed
    <3> QED BY <2>1, <3>1, NothingWritten DEF OutInv
  <2> QED BY <2>9, <2>10, <2>11, <2>12 DEF OutInv
<1> QED BY <1>1, <1>2

\* Finalize fills one table, of a layout that no longer changes.
LEMMA FinalizeOut == ASSUME Inv, Inv', LastIn', OutInv, Finalize PROVE OutInv'
<1>1. CASE content[next].template = "partition table" /\ ~sections[next].filled
  <2>1. Raise("crash") /\ ~Parsed /\ content_parsed
    BY <1>1 DEF Finalize, Parsed, Inv, Progress
  <2> QED BY <2>1, RaiseOut
<1>2. CASE ~ (content[next].template = "partition table" /\ ~sections[next].filled)
  <2> DEFINE old == sections[next]
             table == IF content[next].template = "partition table"
                      THEN TableEntries(next) ELSE old.table
             s == [old EXCEPT !.table = table]
  <2>1. /\ sections' = [sections EXCEPT ![next] = s] /\ next' = next + 1
        /\ attributes' = attributes /\ content' = content
        /\ content_parsed' = content_parsed /\ outputs' = outputs /\ todo' = todo
        /\ pc = "finalize" /\ pc' = "finalize"
    <3>1. sections' = [sections EXCEPT ![next] = s]
      BY <1>2 DEF Finalize
    <3>2. /\ next' = next + 1 /\ attributes' = attributes /\ content' = content
          /\ content_parsed' = content_parsed /\ outputs' = outputs /\ todo' = todo
          /\ pc = "finalize" /\ pc' = "finalize"
      BY <1>2 DEF Finalize, setup, parsing
    <3> QED BY <3>1, <3>2
  <2>2. /\ next \in 1 .. Len(sections) /\ sections \in Seq(Section) /\ Len(sections) \in Nat
    <3>1. sections \in Seq(Section) /\ next \in Nat \ {0} /\ next <= Len(sections)
      BY DEF Inv, Progress, ContentGood, Finalize
    <3> QED BY <3>1
  <2>3. old \in Section
    BY <2>2
  <2> HIDE DEF table
  <2>4. /\ s.filled = old.filled /\ s.offset = old.offset /\ s.table = table
        /\ s.current_offset = old.current_offset /\ s.fields = old.fields
        /\ s.recorded_size = old.recorded_size
    BY <2>3 DEF Section
  <2> HIDE DEF s
  <2>5. /\ Len(sections') = Len(sections)
        /\ DOMAIN sections = 1 .. Len(sections) /\ DOMAIN sections' = 1 .. Len(sections)
        /\ sections'[next].table = table
        /\ \A i \in 1 .. Len(sections) :
             /\ sections'[i].filled = sections[i].filled
             /\ sections'[i].offset = sections[i].offset
             /\ sections'[i].current_offset = sections[i].current_offset
             /\ sections'[i].fields = sections[i].fields
             /\ sections'[i].recorded_size = sections[i].recorded_size
             /\ i # next => sections'[i].table = sections[i].table
    BY <2>1, <2>2, <2>4
  <2>6. Filled' = Filled /\ Closed = Filled /\ Closed' = Filled /\ Filled \subseteq 1 .. Len(sections)
    <3>1. Filled' = Filled /\ Filled \subseteq 1 .. Len(sections)
      BY <2>5 DEF Filled
    <3> QED BY <2>1, <3>1 DEF Closed
  <2>7. \A i \in 1 .. Len(sections) : get_size(i)' = get_size(i) /\ EndOf(i)' = EndOf(i)
    BY <2>1, <2>5, SizeKept
  <2>8. \A i \in 1 .. Len(sections) : FrontOf(i)' = FrontOf(i)
    BY <2>2, <2>7 DEF FrontOf
  <2>9. Chained'
    <3>1. (\A i \in Filled : sections[i].offset = StartAfter(i, FrontOf(i)))'
      <4>1. SUFFICES ASSUME NEW i \in Filled PROVE sections'[i].offset = StartAfter(i, FrontOf(i))'
        BY <2>6
      <4>2. i \in 1 .. Len(sections)
        BY <2>6
      <4>3. StartAfter(i, FrontOf(i))' = StartAfter(i, FrontOf(i))
        BY <2>1, <2>8, <4>2 DEF StartAfter
      <4> QED BY <2>5, <4>2, <4>3 DEF OutInv, Chained
    <3>2. (\A i \in Closed : content[i].template = "rom" => sections[i].recorded_size = get_size(i))'
      <4>1. SUFFICES ASSUME NEW i \in Filled, content[i].template = "rom"
                     PROVE  sections'[i].recorded_size = get_size(i)
        BY <2>1, <2>6, <2>7
      <4> QED BY <2>5, <2>6, <4>1 DEF OutInv, Chained
    <3>3. Len(sections') = Len(content')
      BY <2>1, <2>5 DEF OutInv, Chained, Inv, Progress
    <3>4. (\A i \in Filled : \A j \in 1 .. i : j \in Filled)'
      BY <2>6 DEF OutInv, Chained
    <3> QED BY <2>1, <3>1, <3>2, <3>3, <3>4 DEF Chained
  <2>10. Counted'
    <3>1. (\A i \in Closed : IsTable(i) =>
             TableFields(i) /\ Len(sections[i].fields) = 1 + Len(content) - i)'
      <4>1. SUFFICES ASSUME NEW i \in Filled, IsTable(i)'
                     PROVE  TableFields(i)' /\ Len(sections'[i].fields) = 1 + Len(content') - i
        BY <2>6
      <4>2. sections'[i].fields = sections[i].fields
        BY <2>5, <2>6
      <4>3. IsTable(i) /\ TableFields(i)' = TableFields(i)
        BY <2>1, <4>1, <4>2 DEF IsTable, TableFields
      <4> QED BY <2>1, <2>6, <4>2, <4>3 DEF OutInv, Counted
    <3> QED BY <2>1, <3>1 DEF OutInv, Counted
  <2>11. Tabled'
    <3> SUFFICES \A i \in 1 .. Len(sections) :
                   sections'[i].table = IF IsTable(i) /\ i < next + 1 THEN TableEntries(i) ELSE <<>>
      <4>1. \A i \in 1 .. Len(sections) : TableEntries(i)' = TableEntries(i)
        <5>1. TAKE i \in 1 .. Len(sections)
        <5>2. \A j \in 1 .. Len(sections) - i :
                sections'[i + j].offset = sections[i + j].offset /\ get_size(i + j)' = get_size(i + j)
          <6>1. TAKE j \in 1 .. Len(sections) - i
          <6>2. PICK k \in 1 .. Len(sections) : k = i + j
            BY <2>2
          <6> QED BY <2>5, <2>7, <6>2
        <5> QED BY <2>5, <5>2 DEF TableEntries
      <4>2. ~Parsed' /\ pc' = "finalize" /\ next' = next + 1
        BY <2>1 DEF Parsed
      <4>3. \A i \in 1 .. Len(sections) : IsTable(i)' = IsTable(i)
        BY <2>1 DEF IsTable
      <4>4. \A i \in 1 .. Len(sections') :
              sections'[i].table = IF IsTable(i)' /\ i < next' THEN TableEntries(i)' ELSE <<>>
        BY <2>1, <2>5, <4>1, <4>3
      <4> QED BY <4>2, <4>4 DEF Tabled
    <3>1. TAKE i \in 1 .. Len(sections)
    <3>2. sections[i].table = IF IsTable(i) /\ i < next THEN TableEntries(i) ELSE <<>>
      BY <2>1 DEF OutInv, Tabled, Parsed
    <3>3. CASE i = next
      <4>1. sections'[i].table = table /\ i < next + 1 /\ ~ (i < next)
        BY <2>2, <2>5, <3>3
      <4>2. table = IF IsTable(i) THEN TableEntries(i) ELSE old.table
        BY <3>3 DEF table, IsTable
      <4>3. old.table = <<>>
        BY <3>2, <3>3, <4>1
      <4> QED BY <4>1, <4>2, <4>3
    <3>4. CASE i # next
      BY <2>2, <2>5, <3>2, <3>4
    <3> QED BY <3>3, <3>4
  <2>12. Written'
    <3>1. ~Parsed /\ ~Parsed' /\ pc' # "image"
      BY <2>1 DEF Parsed
    <3> QED BY <2>1, <3>1, NothingWritten DEF OutInv
  <2> QED BY <2>9, <2>10, <2>11, <2>12 DEF OutInv
<1> QED BY <1>1, <1>2

\* The commands write what the layout is.
LEMMA CommandOut ==
  ASSUME Inv, Inv', LastIn, LastIn', OutInv,
         \/ SkipParse \/ ParseDone \/ PrintLayout \/ DumpSections \/ NoImage
         \/ OpenImage \/ AppendSection \/ WriteImage
  PROVE  OutInv'
<1>1. /\ attributes' = attributes /\ content' = content /\ content_parsed' = content_parsed
      /\ sections' = sections /\ todo' = todo
      /\ pc \in {"command", "finalize", "execute", "image"}
      /\ pc' \in {"command", "execute", "image"}
      /\ pc = "finalize" => next > Len(sections)
      /\ pc = "command" => content_parsed
  BY DEF SkipParse, ParseDone, PrintLayout, DumpSections, NoImage, OpenImage, AppendSection,
         WriteImage, NextCommand, setup, parsing, layout
<1>2. content_parsed /\ Parsed'
  BY <1>1 DEF Inv, Progress, Parsed
<1>3. Chained' /\ Counted' /\ Tabled'
  BY <1>1, <1>2, QuietOut
<1>4. LastUsed \in Nat /\ LastUsed' = LastUsed /\ Dump' = Dump /\ \A n : Pieces(n)' = Pieces(n)
  <2>1. Len(sections) \in Nat
    BY DEF Inv, ContentGood
  <2> QED BY <1>1, <2>1, LayoutKept DEF LastIn
<1>5. PICK n \in 0 .. LastUsed : image = Pieces(n) /\ (pc = "image" => next = n + 1)
  BY DEF OutInv, Written
<1>6. image_file \in {<<>>, Pieces(LastUsed)} /\ descriptions \in {<<>>, Dump}
  BY DEF OutInv, Written
<1>7. SUFFICES /\ \E m \in 0 .. LastUsed : image' = Pieces(m) /\ (pc' = "image" => next' = m + 1)
               /\ image_file' \in {<<>>, Pieces(LastUsed)}
               /\ descriptions' \in {<<>>, Dump}
  BY <1>2, <1>3, <1>4 DEF OutInv, Written
<1>8. CASE SkipParse \/ ParseDone \/ PrintLayout \/ NoImage
  <2>1. outputs' = outputs /\ pc' # "image"
    BY <1>8 DEF SkipParse, ParseDone, PrintLayout, NoImage, NextCommand
  <2> QED BY <1>5, <1>6, <2>1 DEF outputs
<1>9. CASE DumpSections
  <2>1. /\ image' = image /\ image_file' = image_file /\ descriptions' = Dump
        /\ pc' = "command"
    BY <1>9 DEF DumpSections, NextCommand, Dump
  <2> QED BY <1>5, <1>6, <2>1
<1>10. CASE OpenImage
  <2>1. image' = <<>> /\ image_file' = <<>> /\ descriptions' = descriptions /\ next' = 1
    BY <1>10 DEF OpenImage
  <2>2. Pieces(0) = <<>> /\ 0 \in 0 .. LastUsed /\ 1 = 0 + 1
    BY <1>4 DEF Pieces
  <2> QED BY <1>6, <2>1, <2>2
<1>11. CASE AppendSection
  <2> DEFINE p == [section |-> next, at |-> ImageLength(image) + Padding(next),
                   size |-> get_size(next)]
  <2>1. /\ image' = Append(image, p) /\ image_file' = image_file
        /\ descriptions' = descriptions /\ next' = next + 1 /\ next <= LastUsed /\ pc = "image"
    BY <1>11 DEF AppendSection
  <2>2. next = n + 1 /\ next \in 1 .. LastUsed
    BY <1>4, <1>5, <2>1
  <2>3. /\ LastUsed \in 1 .. Len(sections) /\ LastUsed \in Filled /\ Filled = Closed
        /\ Len(sections) \in Nat /\ \A i \in 1 .. LastUsed : i \in Filled
    <3>1. LastUsed \in 1 .. Len(sections) /\ LastUsed \in Filled /\ Len(sections) \in Nat
      BY <1>4, <2>2 DEF LastIn, Inv, ContentGood
    <3>2. Filled = Closed
      BY <2>1 DEF Closed
    <3> QED BY <3>1, <3>2 DEF OutInv, Chained
  <2>4. \A i \in 1 .. LastUsed : get_size(i) \in Nat /\ sections[i].offset \in Nat
    <3>1. TAKE i \in 1 .. LastUsed
    <3>2. i \in Closed /\ i \in 1 .. Len(sections)
      BY <2>3
    <3>3. sections[i] \in Section
      BY <3>2 DEF Inv, ContentGood
    <3> QED BY <3>2, <3>3 DEF Inv, Placed, Section
  <2>5. ImageLength(image) + Padding(next) = sections[next].offset
    <3>1. CASE n = 0
      <4>1. next = 1 /\ image = <<>>
        BY <1>5, <2>2, <3>1 DEF Pieces
      <4>2. sections[1].offset = StartAfter(1, 0)
        BY <2>2, <2>3, <4>1 DEF OutInv, Chained, FrontOf
      <4>3. StartAfter(1, 0) = 0
        <5>1. \A a : AlignmentOf(a) => Align(0, a) = 0
          <6>1. SUFFICES ASSUME NEW a, a \in Nat \ {0} PROVE (-0) % a = 0
            BY DEF Align, AlignmentOf
          <6> QED BY <6>1
        <5> QED BY <5>1, AlignmentsGood DEF StartAfter, Inv
      <4> QED BY <4>1, <4>2, <4>3 DEF ImageLength, Padding
    <3>2. CASE n # 0
      <4>1. /\ n \in 1 .. LastUsed /\ next \in 1 .. LastUsed /\ next - 1 = n /\ next # 1
        BY <1>4, <2>2, <3>2
      <4>2. image # <<>> /\ Last(image) = [section |-> n, at |-> sections[n].offset, size |-> get_size(n)]
        <5>1. PICK k \in Nat \ {0} : k = n
          BY <4>1
        <5>2. Len(Pieces(k)) = k /\ Pieces(k)[k] = [section |-> k, at |-> sections[k].offset, size |-> get_size(k)]
          BY <5>1 DEF Pieces
        <5>3. Pieces(k) # <<>> /\ Last(Pieces(k)) = Pieces(k)[k]
          BY <5>1, <5>2 DEF Last
        <5> QED BY <1>5, <5>1, <5>2, <5>3
      <4>3. ImageLength(image) = sections[n].offset + get_size(n)
        BY <4>2 DEF ImageLength
      <4>4. Padding(next) = sections[next].offset - sections[n].offset - get_size(n)
        BY <4>1 DEF Padding
      <4>5. /\ sections[n].offset \in Nat /\ get_size(n) \in Nat
            /\ sections[next].offset \in Nat
        BY <2>4, <4>1
      <4> QED BY <4>3, <4>4, <4>5
    <3> QED BY <3>1, <3>2
  <2>6. image' = Pieces(next)
    <3>1. p = [section |-> next, at |-> sections[next].offset, size |-> get_size(next)]
      BY <2>5
    <3>2. PICK k \in Nat : k = n /\ next = k + 1
      BY <2>2
    <3> HIDE DEF p
    <3>3. \A m \in 0 .. LastUsed : Pieces(m) \in Seq(Piece) /\ Len(Pieces(m)) = m
      <4>1. TAKE m \in 0 .. LastUsed
      <4>2. m \in Nat
        BY <1>4
      <4>3. \A i \in 1 .. m : [section |-> i, at |-> sections[i].offset, size |-> get_size(i)] \in Piece
        <5>1. \A i \in 1 .. m : i \in 1 .. LastUsed
          BY <1>4, <4>2
        <5> QED BY <2>4, <5>1 DEF Piece
      <4> QED BY <4>2, <4>3 DEF Pieces
    <3>4. p \in Piece
      BY <2>2, <2>4, <3>1 DEF Piece
    <3>5. Append(Pieces(k), p) = Pieces(k + 1)
      <4>1. /\ Pieces(k) \in Seq(Piece) /\ Len(Pieces(k)) = k
            /\ Pieces(k + 1) \in Seq(Piece) /\ Len(Pieces(k + 1)) = k + 1
        BY <2>2, <3>2, <3>3
      <4>2. /\ Append(Pieces(k), p) \in Seq(Piece) /\ Len(Append(Pieces(k), p)) = k + 1
            /\ \A i \in 1 .. k : Append(Pieces(k), p)[i] = Pieces(k)[i]
            /\ Append(Pieces(k), p)[k + 1] = p
        BY <3>4, <4>1, AppendProperties
      <4>3. \A i \in 1 .. k + 1 : Append(Pieces(k), p)[i] = Pieces(k + 1)[i]
        <5>1. TAKE i \in 1 .. k + 1
        <5>2. CASE i = k + 1
          BY <3>1, <3>2, <4>2, <5>2 DEF Pieces
        <5>3. CASE i # k + 1
          <6>1. i \in 1 .. k
            BY <5>3
          <6> QED BY <4>2, <6>1 DEF Pieces
        <5> QED BY <5>2, <5>3
      <4> QED BY <4>1, <4>2, <4>3, SeqEqual
    <3> QED BY <1>5, <2>1, <2>2, <3>2, <3>5
  <2>7. next \in 0 .. LastUsed /\ next' = next + 1
    BY <2>1, <2>2
  <2> QED BY <1>6, <2>1, <2>6, <2>7
<1>12. CASE WriteImage
  <2>1. /\ image_file' = image /\ image' = image /\ descriptions' = descriptions
        /\ pc = "image" /\ pc' = "command" /\ next > LastUsed
    BY <1>12 DEF WriteImage, NextCommand
  <2>2. n = LastUsed
    BY <1>4, <1>5, <2>1
  <2> QED BY <1>5, <1>6, <2>1, <2>2
<1> QED BY <1>8, <1>9, <1>10, <1>11, <1>12

\* The second half holds before anything is parsed, and every step keeps it.
LEMMA InitOut == Init => OutInv
<1> SUFFICES ASSUME Init PROVE OutInv
  OBVIOUS
<1>1. /\ Filled = {} /\ Closed = {} /\ ~Parsed /\ sections = <<>> /\ todo = <<>>
      /\ ~content_parsed /\ pc = "command"
      /\ image = <<>> /\ image_file = <<>> /\ descriptions = <<>>
  BY DEF Init, Filled, Closed, Parsed
<1>2. Chained /\ Counted /\ Tabled
  BY <1>1 DEF Chained, Counted, Tabled
<1>3. 0 \in 0 .. LastUsed
  <2>1. LastIn
    BY <1>1, LastUsedGood
  <2> QED BY <1>1, <2>1 DEF LastIn
<1>4. Pieces(0) = <<>>
  BY DEF Pieces
<1> QED BY <1>1, <1>2, <1>3, <1>4 DEF OutInv, Written

LEMMA NextOut == Inv /\ Inv' /\ LastIn /\ LastIn' /\ OutInv /\ [Next]_vars => OutInv'
<1> SUFFICES ASSUME Inv, Inv', LastIn, LastIn', OutInv, [Next]_vars PROVE OutInv'
  OBVIOUS
<1>1. CASE StartParse \/ Create \/ CreateDone \/ HandleProperty \/ StartLayout
  BY <1>1, EarlyOut
<1>2. CASE SetContent
  BY <1>2, SetContentOut
<1>3. CASE UndefinedProperty \/ MissingProperty \/ UnreadableContent
  <2>1. (Raise("error") \/ Raise("crash")) /\ content_parsed /\ ~Parsed
    BY <1>3 DEF UndefinedProperty, MissingProperty, UnreadableContent, Parsed, Inv, Progress
  <2> QED BY <2>1, RaiseOut
<1>4. CASE AllocOffset
  BY <1>4, AllocOffsetOut
<1>5. CASE CloseSection
  BY <1>5, CloseSectionOut
<1>6. CASE Finalize
  BY <1>6, FinalizeOut
<1>7. CASE \/ SkipParse \/ ParseDone \/ PrintLayout \/ DumpSections \/ NoImage
           \/ OpenImage \/ AppendSection \/ WriteImage
  BY <1>7, CommandOut
<1>8. CASE UNCHANGED vars
  <2>1. /\ attributes' = attributes /\ content' = content
        /\ content_parsed' = content_parsed /\ flash_offset' = flash_offset
        /\ sections' = sections /\ todo' = todo /\ next' = next /\ pc' = pc
        /\ image' = image /\ image_file' = image_file /\ descriptions' = descriptions
    BY <1>8 DEF vars, setup, parsing, layout, outputs
  <2>2. /\ Filled' = Filled /\ Closed' = Closed /\ Parsed' = Parsed
        /\ LastUsed' = LastUsed /\ Dump' = Dump
        /\ \A i : /\ get_size(i)' = get_size(i)
                  /\ FrontOf(i)' = FrontOf(i) /\ TableEntries(i)' = TableEntries(i)
                  /\ Pieces(i)' = Pieces(i) /\ \A x : StartAfter(i, x)' = StartAfter(i, x)
    BY <2>1, LayoutKept DEF Closed, Parsed
  <2>3. Chained'
    <3>1. FrontOf(next)' = FrontOf(next)
      BY <2>1, <2>2 DEF FrontOf, EndOf, get_size, Allocated
    <3> QED BY <2>1, <2>2, <3>1 DEF OutInv, Chained
  <2>4. Counted'
    BY <2>1, <2>2 DEF OutInv, Counted, IsTable, TableFields
  <2>5. Tabled'
    BY <2>1, <2>2 DEF OutInv, Tabled, IsTable
  <2>6. Written'
    <3>1. Pieces(LastUsed)' = Pieces(LastUsed)
      BY <2>2 DEF Pieces, get_size, Allocated
    <3> QED BY <2>1, <2>2, <3>1 DEF OutInv, Written
  <2> QED BY <2>3, <2>4, <2>5, <2>6 DEF OutInv
<1> QED BY <1>1, <1>2, <1>3, <1>4, <1>5, <1>6, <1>7, <1>8 DEF Next


-----------------------------------------------------------------------------
(* The theorems                                                            *)

\* The invariant holds in every state.
THEOREM LayoutInvariance == Spec => []Inv
BY InitInv, NextInv, PTL DEF Spec

\* No section starts before the end of one in front of it, for every flash
\* and content: the padding get_image computes is never negative.
THEOREM SectionsDisjoint == Spec => []Disjoint
<1>1. Inv => Disjoint
  BY DEF Inv
<1> QED BY <1>1, LayoutInvariance, PTL

\* Every structure a section has allocated lies within its size.
THEOREM SectionsHoldFields == Spec => []FieldsInSection
<1>1. Inv => FieldsInSection
  BY DEF Inv
<1> QED BY <1>1, LayoutInvariance, PTL

\* A content that is parsed with the overflow check ends within the flash.
THEOREM LayoutInFlash == Spec => []InFlash
<1>1. Inv => InFlash
  <2>1. SUFFICES ASSUME Inv, Parsed, check_overflow, NEW i \in Filled
                 PROVE  EndOf(i) <= FlashSize
    BY DEF InFlash
  <2>2. Closed = Filled
    BY <2>1 DEF Closed, Parsed
  <2>3. /\ EndOf(i) <= flash_offset /\ flash_offset <= FlashSize
        /\ flash_offset \in Nat /\ get_size(i) \in Nat
    BY <2>1, <2>2 DEF Inv, Placed, Bounded
  <2>4. EndOf(i) \in Nat
    <3>1. sections[i] \in Section
      BY <2>1 DEF Inv, ContentGood, Filled
    <3> QED BY <2>3, <3>1 DEF Section, EndOf
  <2> QED BY <2>3, <2>4, FlashConstants
<1> QED BY <1>1, LayoutInvariance, PTL

\* What the outputs rest on holds in every state.
THEOREM OutputsInvariance == Spec => [](Inv /\ LastIn /\ OutInv)
<1>1. Inv => LastIn
  <2>1. Inv => sections \in Seq(Section)
    BY DEF Inv, ContentGood
  <2> QED BY <2>1, LastUsedGood
<1> QED BY <1>1, InitOut, NextOut, LayoutInvariance, PTL DEF Spec

\* Where the parsed sections are: all closed, one after the other, each of
\* a size that is known.
LEMMA ParsedLayout ==
  ASSUME Inv, LastIn, OutInv, Parsed
  PROVE  /\ Closed = Filled /\ Len(sections) = Len(content) /\ Len(sections) \in Nat
         /\ DOMAIN sections = 1 .. Len(sections) /\ Filled \subseteq 1 .. Len(sections)
         /\ \A i \in 1 .. Len(sections) :
              sections[i] \in Section /\ get_size(i) \in Nat /\ sections[i].offset \in Nat
         /\ LastUsed \in 0 .. Len(sections) /\ 1 .. LastUsed \subseteq Filled
<1>1. Closed = Filled
  BY DEF Parsed, Closed
<1>2. sections \in Seq(Section)
  BY DEF Inv, ContentGood
<1>3. Len(sections) \in Nat /\ DOMAIN sections = 1 .. Len(sections)
  BY <1>2
<1>4. Len(sections) = Len(content)
  BY DEF OutInv, Chained, Parsed
<1>5. \A i \in 1 .. Len(sections) :
        sections[i] \in Section /\ get_size(i) \in Nat /\ sections[i].offset \in Nat
  <2>1. TAKE i \in 1 .. Len(sections)
  <2>2. sections[i] \in Section
    BY <1>2
  <2>3. get_size(i) \in Nat
    <3>1. CASE i \in Closed
      BY <3>1 DEF Inv, Placed
    <3>2. CASE i \notin Closed
      <4>1. ~sections[i].filled
        BY <1>1, <1>3, <3>2 DEF Filled
      <4> QED BY <4>1 DEF get_size
    <3> QED BY <3>1, <3>2
  <2> QED BY <2>2, <2>3 DEF Section
<1>6. LastUsed \in 0 .. Len(sections) /\ 1 .. LastUsed \subseteq Filled
  <2>1. CASE LastUsed = 0
    BY <1>3, <2>1
  <2>2. CASE LastUsed # 0
    BY <2>2 DEF LastIn, OutInv, Chained
  <2> QED BY <2>1, <2>2 DEF LastIn
<1> QED BY <1>1, <1>3, <1>4, <1>5, <1>6 DEF Filled

\* The flags are truth values.
LEMMA Flags == Spec => [](content_parsed \in BOOLEAN /\ check_overflow \in BOOLEAN)
<1> DEFINE F == content_parsed \in BOOLEAN /\ check_overflow \in BOOLEAN
<1>1. Init => F
  BY DEF Init
<1>2. F /\ [Next]_vars => F'
  <2> SUFFICES ASSUME F, [Next]_vars PROVE F'
    OBVIOUS
  <2>1. CASE StartParse
    BY <2>1 DEF StartParse
  <2>2. CASE HandleProperty
    BY <2>2 DEF HandleProperty, Raise, parsing
  <2>3. CASE Create
    BY <2>3 DEF Create, Raise, parsing
  <2>4. CASE CloseSection
    BY <2>4 DEF CloseSection, Raise, parsing
  <2>5. CASE Finalize
    BY <2>5 DEF Finalize, Raise, parsing
  <2>6. CASE UNCHANGED vars
    BY <2>6 DEF vars, parsing
  <2>7. CASE \/ SkipParse \/ CreateDone \/ StartLayout \/ SetContent \/ UndefinedProperty
             \/ MissingProperty \/ UnreadableContent \/ AllocOffset \/ ParseDone
             \/ PrintLayout \/ DumpSections \/ NoImage \/ OpenImage \/ AppendSection \/ WriteImage
    <3>1. parsing' = parsing
      BY <2>7 DEF SkipParse, CreateDone, StartLayout, SetContent, UndefinedProperty,
                  MissingProperty, UnreadableContent, AllocOffset, ParseDone, PrintLayout,
                  DumpSections, NoImage, OpenImage, AppendSection, WriteImage, NextCommand, Raise
    <3> QED BY <3>1 DEF parsing
  <2> QED BY <2>1, <2>2, <2>3, <2>4, <2>5, <2>6, <2>7 DEF Next
<1> QED BY <1>1, <1>2, PTL DEF Spec

\* Every variable keeps its type, whatever the content and the commands are.
THEOREM FlashTypes == Spec => []TypeOK
<1>1. ASSUME Inv, LastIn, OutInv, content_parsed \in BOOLEAN, check_overflow \in BOOLEAN
      PROVE  TypeOK
  <2>1. /\ attributes \in Attributes /\ overrides \in Overrides
        /\ sections \in Seq(Section) /\ Len(sections) <= Len(content)
        /\ flash_offset \in Nat /\ todo \in Seq(Struct)
        /\ next \in Nat \ {0}
        /\ pc \in {"command", "create", "override", "content", "alloc", "finalize", "execute",
                   "image", "error", "crash"}
    BY <1>1 DEF Inv, ContentGood, Bounded, Progress, OutInv, Counted
  <2>2. image \in Seq(Piece) /\ image_file \in Seq(Piece) /\ descriptions \in Seq(Entry)
    <3>1. CASE ~Parsed
      BY <1>1, <3>1 DEF OutInv, Written
    <3>2. CASE Parsed
      <4>1. /\ Len(sections) \in Nat /\ DOMAIN sections = 1 .. Len(sections)
            /\ LastUsed \in 0 .. Len(sections)
            /\ \A i \in 1 .. Len(sections) : get_size(i) \in Nat /\ sections[i].offset \in Nat
        BY <1>1, <3>2, ParsedLayout
      <4>2. \A n \in 0 .. LastUsed : Pieces(n) \in Seq(Piece)
        <5>1. TAKE n \in 0 .. LastUsed
        <5>2. n \in Nat /\ \A i \in 1 .. n : i \in 1 .. Len(sections)
          BY <4>1
        <5>3. \A i \in 1 .. n : [section |-> i, at |-> sections[i].offset, size |-> get_size(i)] \in Piece
          BY <4>1, <5>2 DEF Piece
        <5> QED BY <5>2, <5>3 DEF Pieces
      <4>3. Dump \in Seq(Entry)
        <5>1. \A i \in 1 .. Len(sections) : [offset |-> sections[i].offset, size |-> get_size(i)] \in Entry
          BY <4>1 DEF Entry
        <5> QED BY <4>1, <5>1 DEF Dump
      <4>4. LastUsed \in 0 .. LastUsed
        BY <4>1
      <4>5. /\ \E n \in 0 .. LastUsed : image = Pieces(n)
            /\ image_file = <<>> \/ image_file = Pieces(LastUsed)
            /\ descriptions = <<>> \/ descriptions = Dump
        BY <1>1 DEF OutInv, Written
      <4>6. image \in Seq(Piece)
        BY <4>2, <4>5
      <4>7. image_file \in Seq(Piece)
        <5>1. <<>> \in Seq(Piece) /\ Pieces(LastUsed) \in Seq(Piece)
          BY <4>2, <4>4
        <5> QED BY <4>5, <5>1, Zenon
      <4>8. descriptions \in Seq(Entry)
        <5>1. <<>> \in Seq(Entry)
          OBVIOUS
        <5> QED BY <4>3, <4>5, <5>1, Zenon
      <4> QED BY <4>6, <4>7, <4>8
    <3> QED BY <3>1, <3>2
  <2> QED BY <1>1, <2>1, <2>2 DEF TypeOK
<1> QED BY <1>1, OutputsInvariance, Flags, PTL

\* A boot loader finds the sections behind a partition table, whatever their
\* sizes and alignments are: one entry each, in order, around its structures.
THEOREM TablesFindSections == Spec => []TableFindsSections
<1>1. ASSUME Inv, LastIn, OutInv PROVE TableFindsSections
  <2>1. SUFFICES ASSUME Parsed, NEW i \in Filled, IsTable(i)
        PROVE /\ Len(sections[i].table) = Cardinality({f \in DOMAIN sections[i].fields :
                                                          sections[i].fields[f].kind = "entry"})
              /\ \A j \in DOMAIN sections[i].table :
                   LET e == sections[i].table[j]
                   IN i + j \in Filled =>
                        /\ EndOf(i) <= e.offset
                        /\ j > 1 => LET d == sections[i].table[j-1] IN d.offset + d.size <= e.offset
                        /\ \A f \in Range(sections[i+j].fields) :
                             e.offset <= f.offset /\ f.offset + f.size <= e.offset + e.size
    BY DEF TableFindsSections, IsTable
  <2>2. /\ Closed = Filled /\ Len(sections) = Len(content) /\ Len(sections) \in Nat
        /\ Filled \subseteq 1 .. Len(sections)
        /\ \A k \in 1 .. Len(sections) :
             sections[k] \in Section /\ get_size(k) \in Nat /\ sections[k].offset \in Nat
    BY <1>1, <2>1, ParsedLayout
  <2>3. i \in 1 .. Len(sections) /\ Len(sections) \in Nat
    BY <2>2
  <2>4. PICK n \in Nat : n = Len(sections) - i
    BY <2>3
  <2>5. sections[i].table = TableEntries(i) /\ DOMAIN TableEntries(i) = 1 .. n
    <3>1. pc \notin {"error", "crash"}
      BY <2>1 DEF Parsed
    <3>2. sections[i].table = TableEntries(i)
      BY <1>1, <2>1, <2>3, <3>1 DEF OutInv, Tabled
    <3> QED BY <2>4, <3>2 DEF TableEntries
  <2>6. \A j \in 1 .. n : TableEntries(i)[j] = [offset |-> sections[i + j].offset, size |-> get_size(i + j)]
    BY <2>4 DEF TableEntries
  <2>7. Len(sections[i].table) = Cardinality({f \in DOMAIN sections[i].fields :
                                                sections[i].fields[f].kind = "entry"})
    <3>1. TableFields(i) /\ Len(sections[i].fields) = 1 + n
      <4>1. TableFields(i) /\ Len(sections[i].fields) = 1 + Len(content) - i
        BY <1>1, <2>1, <2>2 DEF OutInv, Counted
      <4> QED BY <2>2, <2>3, <2>4, <4>1
    <3>2. DOMAIN sections[i].fields = 1 .. 1 + n
      <4>1. sections[i].fields \in Seq(Field)
        BY <2>2, <2>3 DEF Section
      <4> QED BY <3>1, <4>1
    <3>3. {f \in DOMAIN sections[i].fields : sections[i].fields[f].kind = "entry"} = 2 .. 1 + n
      BY <3>1, <3>2 DEF TableFields, TableKind
    <3>4. Cardinality(2 .. 1 + n) = n
      BY FS_Interval
    <3>5. Len(TableEntries(i)) = n
      BY <2>4 DEF TableEntries
    <3> QED BY <2>5, <3>3, <3>4, <3>5
  <2>8. ASSUME NEW j \in DOMAIN sections[i].table, i + j \in Filled
        PROVE  LET e == sections[i].table[j]
               IN /\ EndOf(i) <= e.offset
                  /\ j > 1 => LET d == sections[i].table[j-1] IN d.offset + d.size <= e.offset
                  /\ \A f \in Range(sections[i+j].fields) :
                       e.offset <= f.offset /\ f.offset + f.size <= e.offset + e.size
    <3> DEFINE e == sections[i].table[j]
    <3>1. j \in 1 .. n /\ e.offset = sections[i + j].offset /\ e.size = get_size(i + j)
      BY <2>5, <2>6, <2>8
    <3>2. PICK k \in Filled : k = i + j
      BY <2>8
    <3>3. k \in 1 .. Len(sections) /\ i < k
      BY <2>2, <2>3, <3>1, <3>2
    <3>4. EndOf(i) <= e.offset
      BY <1>1, <2>1, <2>2, <3>1, <3>2, <3>3 DEF Inv, Disjoint
    <3>5. ASSUME j > 1
          PROVE  sections[i].table[j-1].offset + sections[i].table[j-1].size <= e.offset
      <4>1. j - 1 \in 1 .. n
        BY <3>1, <3>5
      <4>2. PICK l \in 1 .. Len(sections) : l = k - 1 /\ l = i + (j - 1)
        <5>1. i \in Nat \ {0} /\ k \in Nat /\ k <= Len(sections)
          BY <2>3, <3>3
        <5>2. j \in Nat
          BY <2>4, <3>1
        <5>3. PICK l \in Int : l = k - 1
          BY <5>1
        <5>4. l = i + (j - 1) /\ l >= 1 /\ l <= Len(sections)
          BY <2>3, <3>2, <3>5, <5>1, <5>2, <5>3
        <5> QED BY <2>3, <5>3, <5>4
      <4>3. sections[i].table[j-1] = [offset |-> sections[l].offset, size |-> get_size(l)]
        BY <2>5, <2>6, <4>1, <4>2
      <4>4. l \in Filled
        <5>1. l \in 1 .. k
          BY <3>3, <4>2
        <5> QED BY <1>1, <3>2, <5>1 DEF OutInv, Chained
      <4>5. EndOf(l) <= sections[k].offset
        BY <1>1, <2>2, <3>2, <3>3, <4>2, <4>4 DEF Inv, Disjoint
      <4> QED BY <3>1, <3>2, <4>3, <4>5 DEF EndOf
    <3>6. ASSUME NEW f \in Range(sections[i+j].fields)
          PROVE  e.offset <= f.offset /\ f.offset + f.size <= e.offset + e.size
      <4>1. sections[k].offset <= f.offset /\ f.offset + f.size <= EndOf(k)
        BY <1>1, <2>2, <3>2, <3>6 DEF Inv, FieldsInSection
      <4> QED BY <3>1, <3>2, <4>1 DEF EndOf
    <3> QED BY <3>4, <3>5, <3>6
  <2> QED BY <2>7, <2>8
<1> QED BY <1>1, OutputsInvariance, PTL

\* The size in a ROM's header leads to the section behind it.
THEOREM RomsFindNext == Spec => []RomFindsNext
<1>1. ASSUME Inv, LastIn, OutInv PROVE RomFindsNext
  <2>1. SUFFICES ASSUME Parsed, NEW i \in Filled, content[i].template = "rom", i + 1 \in Filled,
                        content[i+1].template = "lfs" => attributes.littlefs_align = None
                 PROVE  sections[i+1].offset = Align(sections[i].offset + sections[i].recorded_size,
                                                     attributes.start_align)
    BY DEF RomFindsNext, NextFound
  <2>2. i \in Nat \ {0} /\ i \in Closed
    BY <1>1, <2>1, ParsedLayout
  <2>3. PICK k \in Filled : k = i + 1 /\ k # 1 /\ k - 1 = i
    BY <2>1, <2>2
  <2>4. sections[k].offset = StartAfter(k, EndOf(i))
    BY <1>1, <2>3 DEF OutInv, Chained, FrontOf
  <2>5. sections[i].recorded_size = get_size(i)
    BY <1>1, <2>1, <2>2 DEF OutInv, Chained
  <2> QED BY <2>1, <2>3, <2>4, <2>5 DEF StartAfter, EndOf
<1> QED BY <1>1, OutputsInvariance, PTL

\* The image holds every section in use at its flash offset.
THEOREM ImagesInPlace == Spec => []ImageInPlace
<1>1. ASSUME Inv, LastIn, OutInv PROVE ImageInPlace
  <2>1. SUFFICES ASSUME image_file # <<>>
                 PROVE  /\ \A i \in DOMAIN sections : ~is_empty(i) => i \in DOMAIN image_file
                        /\ \A i \in DOMAIN image_file :
                             /\ image_file[i].section = i
                             /\ image_file[i].at = sections[i].offset
                             /\ \A f \in Range(sections[i].fields) :
                                  f.offset + f.size <= image_file[i].at + image_file[i].size
    BY DEF ImageInPlace
  <2>2. Parsed /\ image_file = Pieces(LastUsed)
    BY <1>1, <2>1 DEF OutInv, Written
  <2>3. /\ Closed = Filled /\ DOMAIN sections = 1 .. Len(sections) /\ Len(sections) \in Nat
        /\ LastUsed \in 0 .. Len(sections) /\ 1 .. LastUsed \subseteq Filled
    BY <1>1, <2>2, ParsedLayout
  <2>4. DOMAIN image_file = 1 .. LastUsed
    BY <2>2 DEF Pieces
  <2>5. \A i \in DOMAIN sections : ~is_empty(i) => i \in DOMAIN image_file
    BY <1>1, <2>3, <2>4 DEF LastIn
  <2>6. ASSUME NEW i \in DOMAIN image_file
        PROVE  /\ image_file[i].section = i
               /\ image_file[i].at = sections[i].offset
               /\ \A f \in Range(sections[i].fields) :
                    f.offset + f.size <= image_file[i].at + image_file[i].size
    <3>1. image_file[i] = [section |-> i, at |-> sections[i].offset, size |-> get_size(i)]
      BY <2>2, <2>4 DEF Pieces
    <3>2. i \in Closed
      BY <2>3, <2>4
    <3>3. \A f \in Range(sections[i].fields) : f.offset + f.size <= EndOf(i)
      BY <1>1, <3>2 DEF Inv, FieldsInSection
    <3> QED BY <3>1, <3>3 DEF EndOf
  <2> QED BY <2>5, <2>6
<1> QED BY <1>1, OutputsInvariance, PTL

\* The image, the descriptions and the partition tables give a section the
\* same place, in whatever order the commands ran.
THEOREM AllOutputsAgree == Spec => []OutputsAgree
<1>1. ASSUME Inv, LastIn, OutInv PROVE OutputsAgree
  <2>1. SUFFICES ASSUME Parsed, descriptions # <<>>
                 PROVE  /\ \A p \in Range(image_file) :
                             descriptions[p.section] = [offset |-> p.at, size |-> p.size]
                        /\ \A i \in Filled : \A j \in DOMAIN sections[i].table :
                             descriptions[i+j] = sections[i].table[j]
    BY DEF OutputsAgree
  <2>2. descriptions = Dump
    BY <1>1, <2>1 DEF OutInv, Written
  <2>3. /\ DOMAIN sections = 1 .. Len(sections) /\ Len(sections) \in Nat
        /\ LastUsed \in 0 .. Len(sections) /\ Filled \subseteq 1 .. Len(sections)
    BY <1>1, <2>1, ParsedLayout
  <2>4. ASSUME NEW p \in Range(image_file)
        PROVE  descriptions[p.section] = [offset |-> p.at, size |-> p.size]
    <3>1. PICK k \in DOMAIN image_file : p = image_file[k]
      BY <2>4 DEF Range
    <3>2. image_file = Pieces(LastUsed)
      BY <1>1, <3>1 DEF OutInv, Written
    <3>3. k \in 1 .. LastUsed
          /\ p = [section |-> k, at |-> sections[k].offset, size |-> get_size(k)]
      BY <3>1, <3>2 DEF Pieces
    <3>4. k \in DOMAIN sections
      BY <2>3, <3>3
    <3> QED BY <2>2, <3>3, <3>4 DEF Dump
  <2>5. ASSUME NEW i \in Filled, NEW j \in DOMAIN sections[i].table
        PROVE  descriptions[i+j] = sections[i].table[j]
    <3>1. i \in 1 .. Len(sections) /\ pc \notin {"error", "crash"}
      BY <2>1, <2>3 DEF Parsed
    <3>2. sections[i].table = TableEntries(i)
      BY <1>1, <2>5, <3>1 DEF OutInv, Tabled
    <3>3. j \in 1 .. Len(sections) - i
          /\ sections[i].table[j] = [offset |-> sections[i + j].offset, size |-> get_size(i + j)]
      BY <2>5, <3>2 DEF TableEntries
    <3>4. i + j \in DOMAIN sections
      BY <2>3, <3>1, <3>3
    <3> QED BY <2>2, <3>3, <3>4 DEF Dump
  <2> QED BY <2>4, <2>5
<1> QED BY <1>1, OutputsInvariance, PTL
=============================================================================
