---------------------------- MODULE FlashLayout ----------------------------
(***************************************************************************)
(* gapy's flash: the content (a list of section descriptions, overridden   *)
(* by command-line properties) is parsed the first time a command needs    *)
(* it.  Parsing creates the sections, gives each one its offset and lets   *)
(* it allocate its structures, and finally lets every section fill what    *)
(* depends on the others.  The commands then print the layout, dump the    *)
(* sections with their descriptions, or write the flash image.             *)
(*                                                                         *)
(* One step is one section created, one structure allocated, one section   *)
(* closed, finalized or appended to the image.  pc says where the program  *)
(* is; "error" is a RuntimeError (gapy prints it and exits), "crash" any   *)
(* other Python exception.                                                 *)
(***************************************************************************)
EXTENDS FlashSections, FiniteSets

CONSTANTS
  Contents,      \* section lists a JSON file may hold
  Overrides,     \* sequences of --flash-property values for this flash
  Scripts,       \* sequences of commands of a gapy command line
  Attributes     \* start_align, size_align and littlefs_align of the flash

Alignments(a) == {a.start_align, a.size_align, a.littlefs_align}

ASSUME FlashConstants ==
  /\ FlashSize \in Nat
  /\ \A a \in Attributes :
       /\ \A n \in Alignments(a) : n = None \/ (n \in Nat \ {0} /\ FlashSize % n = 0)
       /\ a.size_align # None => a.start_align # None
  /\ \A list \in Contents :
       /\ IsList(list)
       /\ \A i \in DOMAIN list : WellFormed(list[i])
       /\ \A i, j \in DOMAIN list : list[i].name = list[j].name => i = j
  /\ \A o \in Overrides : IsList(o) /\ \A i \in DOMAIN o : WellFormedOverride(o[i])

VARIABLES
  attributes,        \* flash_attributes
  overrides,         \* Flash.properties
  content,           \* content_dict["sections"]
  content_parsed,
  check_overflow,    \* parameter of __parse_content
  sections,          \* Flash.sections
  flash_offset,      \* where the next section may start
  todo,              \* structures the current section still allocates
  image,             \* image being built: [section, at, size] pieces
  image_file,        \* the image file, pieces as in image
  descriptions,      \* the description file: [offset, size] per section
  commands,          \* commands left, the current one first
  next,              \* section the current loop is at
  pc

setup == <<attributes, overrides, commands>>
parsing == <<content, content_parsed, check_overflow>>
layout == <<sections, flash_offset, todo>>
outputs == <<image, image_file, descriptions>>
vars == <<setup, parsing, layout, outputs, next, pc>>

-----------------------------------------------------------------------------
(* FlashSection                                                            *)

\* A section between its creation and set_content: its offset, where the
\* next structure goes, the structures allocated, the bytes of those that are
\* headers, the size written in its own header, and its partition table.
Unset == [filled |-> FALSE, offset |-> 0, current_offset |-> 0,
          fields |-> <<>>, headers |-> 0, recorded_size |-> 0, table |-> <<>>]

Allocated(i) == sections[i].current_offset - sections[i].offset

\* Mutant: the allocated structures are not compared with a forced size.
BadSizeUnaligned(i) ==
  LET c == content[i]
  IN /\ Forced(c)
     /\ attributes.size_align # None
     /\ Align(SizeProperty(c), attributes.start_align) # SizeProperty(c)

\* The RuntimeError of get_size: a forced size the allocated structures do
\* not fit in, or one that is not aligned (with start_align, as in the code).
BadSize(i) ==
  LET c == content[i]
  IN /\ Forced(c)
     /\ \/ Allocated(i) > SizeProperty(c)
        \/ /\ attributes.size_align # None
           /\ Align(SizeProperty(c), attributes.start_align) # SizeProperty(c)

get_size(i) ==
  IF ~sections[i].filled
  THEN 0
  ELSE Align(IF Forced(content[i]) THEN SizeProperty(content[i]) ELSE Allocated(i),
             attributes.size_align)

EndOf(i) == sections[i].offset + get_size(i)

\* Mutant: the overflow test takes the section's start for its end.
OverflowsStart(i) == sections[i].offset > FlashSize

Overflows(i) == EndOf(i) > FlashSize

\* FlashSection.set_content and the offset of LfsSection.set_content.
start_offset(i) ==
  IF content[i].template = "lfs" /\ attributes.littlefs_align # None
  THEN Align(flash_offset, attributes.littlefs_align)
  ELSE Align(flash_offset, attributes.start_align)

AllDeclared(c) == DOMAIN c.properties \subseteq Declared(c.template)

\* PartitionTableSection.is_empty looks at the sections behind it: a table
\* among them is empty when the ones behind it are, so it adds nothing.
is_empty(i) ==
  CASE content[i].template = "rom" ->
         ~sections[i].filled \/ ~IsSet(content[i], "binary")
           \/ ~IsSet(content[i], "boot") \/ ~content[i].properties.boot
    [] content[i].template = "readfs" ->
         ~sections[i].filled \/ content[i].properties.files = <<>>
    [] content[i].template = "lfs" ->
         ~sections[i].filled
           \/ (~IsSet(content[i], "root_dir") /\ ~IsSet(content[i], "img_path"))
    [] OTHER -> TRUE

\* The index of the last non-empty section, 0 if the flash is empty.
LastUsed == SelectLastInSeq([i \in DOMAIN sections |-> ~is_empty(i)], LAMBDA used : used)

-----------------------------------------------------------------------------
Init ==
  /\ attributes \in Attributes /\ overrides \in Overrides
  /\ content \in Contents /\ commands \in Scripts
  /\ content_parsed = FALSE /\ check_overflow = TRUE
  /\ sections = <<>> /\ flash_offset = 0 /\ todo = <<>>
  /\ image = <<>> /\ image_file = <<>> /\ descriptions = <<>>
  /\ next = 1 /\ pc = "command"

Raise(kind) == pc' = kind /\ UNCHANGED <<setup, parsing, layout, outputs, next>>

\* Mutant: the content is parsed again for every command.
StartParseAgain ==
  /\ pc = "command" /\ commands # <<>>
  /\ content_parsed' = TRUE
  /\ check_overflow' = (Head(commands) # "flash_layout")
  /\ sections' = <<>> /\ next' = 1 /\ pc' = "create"
  /\ UNCHANGED <<setup, content, flash_offset, todo, outputs>>

\* Every command begins with __parse_content, which does nothing but the
\* first time; flash_layout lets the content overflow the flash.
StartParse ==
  /\ pc = "command" /\ commands # <<>> /\ ~content_parsed
  /\ content_parsed' = TRUE
  /\ check_overflow' = (Head(commands) # "flash_layout")
  /\ next' = 1 /\ pc' = "create"
  /\ UNCHANGED <<setup, content, layout, outputs>>

SkipParse ==
  /\ pc = "command" /\ commands # <<>> /\ content_parsed
  /\ pc' = "execute"
  /\ UNCHANGED <<setup, parsing, layout, outputs, next>>

Create ==
  /\ pc = "create" /\ next <= Len(content)
  /\ IF content[next].template \in Templates
     THEN /\ sections' = Append(sections, Unset)
          /\ next' = next + 1
          /\ UNCHANGED <<setup, parsing, flash_offset, todo, outputs, pc>>
     ELSE Raise("error")

CreateDone ==
  /\ pc = "create" /\ next > Len(content)
  /\ next' = 1 /\ pc' = "override"
  /\ UNCHANGED <<setup, parsing, layout, outputs>>

\* __handle_section_properties: one command-line property after the other.
HandleProperty ==
  /\ pc = "override" /\ next <= Len(overrides)
  /\ IF \E i \in DOMAIN content : content[i].name = overrides[next].section
     THEN /\ content' = Overwrite(content, overrides[next])
          /\ next' = next + 1
          /\ UNCHANGED <<setup, content_parsed, check_overflow, layout, outputs, pc>>
     ELSE Raise("error")

\* Then the loop that lays the sections out starts.
StartLayout ==
  /\ pc = "override" /\ next > Len(overrides)
  /\ flash_offset' = 0
  /\ next' = 1
  /\ pc' = IF content = <<>> THEN "finalize" ELSE "content"
  /\ UNCHANGED <<setup, parsing, sections, todo, outputs>>

\* set_alignments and set_content, up to the first structure.
SetContent ==
  /\ pc = "content"
  /\ AllDeclared(content[next]) /\ Complete(content[next])
  /\ LET offset == start_offset(next)
     IN /\ sections' = [sections EXCEPT ![next] =
             [Unset EXCEPT !.filled = TRUE, !.offset = offset, !.current_offset = offset]]
        /\ todo' = Structs(content[next], offset, Len(content) - next)
  /\ pc' = "alloc"
  /\ UNCHANGED <<setup, parsing, flash_offset, outputs, next>>

UndefinedProperty ==
  /\ pc = "content"
  /\ ~AllDeclared(content[next])
  /\ Raise("error")

MissingProperty ==
  /\ pc = "content"
  /\ AllDeclared(content[next]) /\ ~Complete(content[next])
  /\ Raise("crash")

\* A file that cannot be read: a ROM binary or an mklfs that fails is a
\* RuntimeError, any other file the OSError of open.
UnreadableContent ==
  /\ pc = "content"
  /\ AllDeclared(content[next]) /\ Complete(content[next])
  /\ \/ /\ IsSet(content[next], "binary") \/ IsSet(content[next], "root_dir")
        /\ Raise("error")
     \/ /\ \/ IsSet(content[next], "files") /\ content[next].properties.files # <<>>
           \/ IsSet(content[next], "img_path")
        /\ Raise("crash")

\* alloc_offset for one structure of the section.
AllocOffset ==
  /\ pc = "alloc" /\ todo # <<>>
  /\ LET s == sections[next]
     IN sections' = [sections EXCEPT ![next] =
          [s EXCEPT !.current_offset = @ + Head(todo).size,
                    !.headers = @ + IF Head(todo).kind = "data" THEN 0 ELSE Head(todo).size,
                    !.fields = Append(@, [kind |-> Head(todo).kind,
                                          offset |-> s.current_offset,
                                          size |-> Head(todo).size])]]
  /\ todo' = Tail(todo)
  /\ UNCHANGED <<setup, parsing, flash_offset, outputs, next, pc>>

\* Mutant: the ROM header records what the ROM allocates, without padding.
recorded_sizeUnpadded(i) ==
  IF content[i].template = "rom" THEN Allocated(i) ELSE 0

\* The sizes the section writes in its own header: the whole section for a
\* ROM, the headers without the files for a readfs.
recorded_size(i) ==
  CASE content[i].template = "rom" -> get_size(i)
    [] content[i].template = "readfs" -> sections[i].headers
    [] OTHER -> 0

\* All structures allocated: the section's size is known.  When the content
\* overflows the flash, parsing fails, or stops here if asked not to check.
CloseSection ==
  /\ pc = "alloc" /\ todo = <<>>
  /\ IF BadSize(next) \/ (Overflows(next) /\ check_overflow)
     THEN Raise("error")
     ELSE /\ sections' = [sections EXCEPT ![next].recorded_size = recorded_size(next)]
          /\ flash_offset' = EndOf(next)
          /\ IF Overflows(next) \/ next = Len(content)
             THEN pc' = "finalize" /\ next' = 1
             ELSE pc' = "content" /\ next' = next + 1
          /\ UNCHANGED <<setup, parsing, todo, outputs>>

\* Mutant: get_sections()[get_id():], with the table itself.
TableEntriesFromTable(i) ==
  [j \in 1 .. Len(sections) - i |->
     [offset |-> sections[i + j - 1].offset, size |-> get_size(i + j - 1)]]

\* What PartitionTableSection.finalize writes of the sections behind it.
TableEntries(i) ==
  [j \in 1 .. Len(sections) - i |->
     [offset |-> sections[i + j].offset, size |-> get_size(i + j)]]

\* The table of a content that overflowed before it has no header to fill.
Finalize ==
  /\ pc = "finalize" /\ next <= Len(sections)
  /\ IF content[next].template = "partition table" /\ ~sections[next].filled
     THEN Raise("crash")
     ELSE /\ sections' = [sections EXCEPT ![next].table =
               IF content[next].template = "partition table" THEN TableEntries(next) ELSE @]
          /\ next' = next + 1
          /\ UNCHANGED <<setup, parsing, flash_offset, todo, outputs, pc>>

ParseDone ==
  /\ pc = "finalize" /\ next > Len(sections)
  /\ pc' = "execute"
  /\ UNCHANGED <<setup, parsing, layout, outputs, next>>

-----------------------------------------------------------------------------
(* Commands                                                                *)

NextCommand ==
  /\ commands' = Tail(commands) /\ pc' = "command"
  /\ UNCHANGED <<attributes, overrides, parsing, layout, next>>

\* flash_layout and flash_properties only print.
PrintLayout ==
  /\ pc = "execute" /\ Head(commands) \in {"flash_layout", "flash_properties"}
  /\ NextCommand /\ UNCHANGED outputs

\* flash_dump_sections, and flash_dump_app_sections, whose filter (partition
\* type 2) no section matches.
DumpSections ==
  /\ pc = "execute" /\ Head(commands) = "flash_dump_sections"
  /\ descriptions' = [i \in DOMAIN sections |->
                        [offset |-> sections[i].offset, size |-> get_size(i)]]
  /\ NextCommand /\ UNCHANGED <<image, image_file>>

\* The flash is empty: handle_command_image leaves the image file alone.
NoImage ==
  /\ pc = "execute" /\ Head(commands) = "image" /\ LastUsed = 0
  /\ NextCommand /\ UNCHANGED outputs

\* dump_image opens, and so empties, the file before the image is built.
OpenImage ==
  /\ pc = "execute" /\ Head(commands) = "image" /\ LastUsed # 0
  /\ image' = <<>> /\ image_file' = <<>>
  /\ next' = 1 /\ pc' = "image"
  /\ UNCHANGED <<setup, parsing, layout, descriptions>>

ImageLength(pieces) == IF pieces = <<>> THEN 0 ELSE Last(pieces).at + Last(pieces).size

\* Mutant: no padding is inserted between two sections.
PaddingNone(i) == 0

\* get_image: padding up to the section, then the section itself, whose
\* structures are padded up to its size.
Padding(i) == IF i = 1 THEN 0
              ELSE sections[i].offset - sections[i-1].offset - get_size(i-1)

AppendSection ==
  /\ pc = "image" /\ next <= LastUsed
  /\ image' = Append(image, [section |-> next,
                             at |-> ImageLength(image) + Padding(next),
                             size |-> get_size(next)])
  /\ next' = next + 1
  /\ UNCHANGED <<setup, parsing, layout, image_file, descriptions, pc>>

WriteImage ==
  /\ pc = "image" /\ next > LastUsed
  /\ image_file' = image
  /\ NextCommand /\ UNCHANGED <<image, descriptions>>

Next ==
  \/ StartParse \/ SkipParse \/ Create \/ CreateDone \/ HandleProperty \/ StartLayout
  \/ SetContent \/ UndefinedProperty \/ MissingProperty \/ UnreadableContent
  \/ AllocOffset \/ CloseSection \/ Finalize \/ ParseDone
  \/ PrintLayout \/ DumpSections \/ NoImage
  \/ OpenImage \/ AppendSection \/ WriteImage

Spec == Init /\ [][Next]_vars

-----------------------------------------------------------------------------
(* Properties                                                              *)

Field == [kind : Kinds, offset : Int, size : Int]
Entry == [offset : Int, size : Int]
Section == [filled : BOOLEAN, offset : Nat, current_offset : Int,
            fields : Seq(Field), headers : Int, recorded_size : Int,
            table : Seq(Entry)]
Piece == [section : Nat, at : Int, size : Int]

\* Every variable has the type the Python attributes are used with.
TypeOK ==
  /\ attributes \in Attributes /\ overrides \in Overrides
  /\ content_parsed \in BOOLEAN /\ check_overflow \in BOOLEAN
  /\ sections \in Seq(Section) /\ Len(sections) <= Len(content)
  /\ flash_offset \in Nat /\ todo \in Seq(Struct)
  /\ image \in Seq(Piece) /\ image_file \in Seq(Piece) /\ descriptions \in Seq(Entry)
  /\ next \in Nat \ {0}
  /\ pc \in {"command", "create", "override", "content", "alloc", "finalize", "execute", "image",
             "error", "crash"}

\* Parsing has given the sections their final place.
Parsed == content_parsed /\ pc \in {"command", "execute", "image"}
Filled == {i \in DOMAIN sections : sections[i].filled}
Closed == IF pc \in {"content", "alloc"} THEN Filled \ {next}
          ELSE IF pc \in {"error", "crash"} THEN {} ELSE Filled
\* No section starts before the end of one in front of it, whatever the
\* alignments, forced sizes and the littlefs's own alignment are: get_image
\* would otherwise compute a negative padding (flash.py:get_image).
Disjoint == \A i, j \in Filled : i < j /\ i \in Closed => EndOf(i) <= sections[j].offset

\* What a section has allocated lies within its size: get_image never raises
\* "Section image is too big".
FieldsInSection ==
  \A i \in Closed : \A f \in Range(sections[i].fields) :
    /\ sections[i].offset <= f.offset
    /\ f.size >= 0
    /\ f.offset + f.size <= EndOf(i)

\* A content parsed with the overflow check ends within the flash, also when
\* sections take the rest of the flash, are rounded up or are overridden.
InFlash == Parsed /\ check_overflow => \A i \in Filled : EndOf(i) <= FlashSize

\* A boot loader that follows a partition table finds all of every section
\* laid out behind it: the entries are in flash order, behind the table, and
\* each spans its section's structures (partition.py:finalize).
TableFindsSections ==
  Parsed => \A i \in Filled : content[i].template = "partition table" =>
    /\ Len(sections[i].table) = Cardinality({f \in DOMAIN sections[i].fields :
                                              sections[i].fields[f].kind = "entry"})
    /\ \A j \in DOMAIN sections[i].table :
         LET e == sections[i].table[j]
         IN i + j \in Filled =>
              /\ EndOf(i) <= e.offset
              /\ j > 1 => LET d == sections[i].table[j-1] IN d.offset + d.size <= e.offset
              /\ \A f \in Range(sections[i+j].fields) :
                   e.offset <= f.offset /\ f.offset + f.size <= e.offset + e.size

\* "used by the runtime to find the next section" (rom_v2.py): behind a
\* section of the template, the next one starts at the recorded size rounded
\* up to the start alignment (a littlefs has an alignment of its own).
NextFound(template) ==
  Parsed => \A i \in Filled :
    content[i].template = template /\ i + 1 \in Filled
      /\ (content[i+1].template = "lfs" => attributes.littlefs_align = None)
      => sections[i+1].offset = Align(sections[i].offset + sections[i].recorded_size,
                                      attributes.start_align)

\* The size in a ROM's header, taken before the later sections exist, leads
\* to the section behind the ROM.
RomFindsNext == NextFound("rom")

\* The image written holds every section that is not empty, and every
\* section it holds is at its flash offset with all its structures: an image
\* copied to the start of the flash is what the offsets describe.
ImageInPlace ==
  image_file # <<>> =>
    /\ \A i \in DOMAIN sections : ~is_empty(i) => i \in DOMAIN image_file
    /\ \A i \in DOMAIN image_file :
         /\ image_file[i].section = i
         /\ image_file[i].at = sections[i].offset
         /\ \A f \in Range(sections[i].fields) :
              f.offset + f.size <= image_file[i].at + image_file[i].size

\* Commands of one gapy call agree: the description file, the image file and
\* the partition tables give a section the same offset and size, in whatever
\* order the commands ran (content_parsed makes parsing happen once, although
\* it changes the content it reads).
OutputsAgree ==
  Parsed /\ descriptions # <<>> =>
    /\ \A p \in Range(image_file) :
         descriptions[p.section] = [offset |-> p.at, size |-> p.size]
    /\ \A i \in Filled : \A j \in DOMAIN sections[i].table :
         descriptions[i+j] = sections[i].table[j]

-----------------------------------------------------------------------------
(* What the source says and the program does not do                        *)

\* A content that overflows the flash is refused with 'Section ... overflowed
\* flash' (flash.py), so no image is larger than its flash.
ImageFitsFlash == ImageLength(image_file) <= FlashSize
=============================================================================
