--------------------------- MODULE FlashSections ---------------------------
(***************************************************************************)
(* The sections of a flash image, as gapy lays them out: for every section *)
(* template, the properties it declares, the structures it allocates (in   *)
(* allocation order), its partition type and when it counts as empty.      *)
(*                                                                         *)
(* Sizes are in bytes.  A structure is a size and a kind: "header" and     *)
(* "entry" structures are written by gapy, "data" ones hold file contents, *)
(* binary segments or blank space.  Bytes themselves are left out.         *)
(***************************************************************************)
EXTENDS Integers, Sequences, SequencesExt

CONSTANT FlashSize        \* Flash.size

\* An attribute or a size property that is None, and the size that asks for
\* the rest of the flash (the -1 of the source).
None == -2
Rest == -1

Kinds == {"header", "entry", "data"}
Struct == [kind : Kinds, size : Int]
Templates == {"rom", "partition table", "readfs", "hostfs", "lfs", "raw"}
Keys == {"size", "files", "binary", "boot", "root_dir", "img_path"}

\* Mutant: x & ~(a - 1), which rounds down.
AlignDown(x, a) == IF a = None THEN x ELSE x - (x % a)

\* (x + a - 1) & ~(a - 1) for a power of two a, skipped when a is None.
Align(x, a) == IF a = None THEN x ELSE x + ((-x) % a)

\* The properties a section of the template declares.
Declared(template) ==
  {"size"} \cup CASE template = "rom" -> {"binary", "boot"}
                  [] template \in {"readfs", "hostfs"} -> {"files"}
                  [] template = "lfs" -> {"root_dir", "img_path"}
                  [] OTHER -> {}

IsSet(c, key) == key \in DOMAIN c.properties
SizeProperty(c) == IF IsSet(c, "size") THEN c.properties.size ELSE None

\* The values of the properties are of the types the sections use them with.
IsSize(n) == n \in Nat \cup {Rest}
FileT == [name_len : Nat, size : Nat]
WellFormed(c) ==
  /\ c = [name |-> c.name, template |-> c.template, properties |-> c.properties]
  /\ IsSet(c, "size") => IsSize(c.properties.size)
  /\ IsSet(c, "binary") => c.properties.binary \in Seq(Nat)
  /\ IsSet(c, "files") /\ "files" \in Declared(c.template) =>
       c.properties.files \in Seq(FileT)
WellFormedOverride(o) ==
  /\ o.key = "size" => IsSize(o.value)
  /\ o.key = "binary" => o.value \in Seq(Nat)
  /\ o.key = "files" => o.value \in FileT

\* A sequence whose elements need not be of one type.
IsList(s) == s = [i \in 1 .. Len(s) |-> s[i]] /\ Len(s) \in Nat

\* The content gives set_content the properties it uses without a default:
\* otherwise Python raises a TypeError (None compared, added or iterated).
Complete(c) ==
  /\ c.template \in {"raw", "lfs"} => IsSet(c, "size")
  /\ c.template \in {"readfs", "hostfs"} => IsSet(c, "files")

\* Mutant: a size of -1 is not replaced by the rest of the flash.
RequestedUnresolved(c, offset) == SizeProperty(c)

Requested(c, offset) ==
  IF SizeProperty(c) = Rest THEN FlashSize - offset ELSE SizeProperty(c)

Of(kind, sizes) == [i \in DOMAIN sizes |-> [kind |-> kind, size |-> sizes[i]]]
Header(size) == Of("header", <<size>>)

RomStructs(c) ==
  IF IsSet(c, "binary")
  THEN LET segments == c.properties.binary
       IN Header(16) \o Of("entry", [i \in DOMAIN segments |-> 16]) \o Of("data", segments)
  ELSE Header(4)

\* One file header with the file's name, then the contents in the same order.
ReadfsStructs(c) ==
  LET files == c.properties.files
  IN Header(12) \o Of("entry", [i \in DOMAIN files |-> 12 + files[i].name_len])
                \o Of("data", [i \in DOMAIN files |-> files[i].size])

\* The table has an entry for every section behind it.
TableStructs(following) == Header(32) \o Of("entry", [i \in 1 .. following |-> 32])

RawStructs(c, offset) == Of("data", <<Requested(c, offset)>>)

LfsStructs(c, offset) ==
  IF Requested(c, offset) > 0 THEN Of("data", <<Requested(c, offset)>>) ELSE <<>>

Structs(c, offset, following) ==
  CASE c.template = "rom" -> RomStructs(c)
    [] c.template = "partition table" -> TableStructs(following)
    [] c.template = "readfs" -> ReadfsStructs(c)
    [] c.template = "lfs" -> LfsStructs(c, offset)
    [] c.template = "raw" -> RawStructs(c, offset)
    [] c.template = "hostfs" -> <<>>

\* What the size property takes: its own value when it is forced, None when
\* the section is as large as what it allocates.
Forced(c) == SizeProperty(c) \notin {None, Rest}

-----------------------------------------------------------------------------
(* Overriding the content from the command line (--flash-property)         *)

Put(f, key, value) == [k \in DOMAIN f \cup {key} |-> IF k = key THEN value ELSE f[k]]

\* A list property gets the value appended, any other is replaced.
Overwritten(c, o) ==
  [c EXCEPT !.properties =
     IF o.key = "files" /\ "files" \in Declared(c.template)
     THEN Put(@, "files", Append(IF IsSet(c, "files") THEN @.files ELSE <<>>, o.value))
     ELSE Put(@, o.key, o.value)]

Overwrite(content, o) ==
  [i \in DOMAIN content |->
     IF content[i].name = o.section THEN Overwritten(content[i], o) ELSE content[i]]
=============================================================================
