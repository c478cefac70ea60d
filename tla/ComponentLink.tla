----------------------------- MODULE ComponentLink -----------------------------
(***************************************************************************)
(* Linking of a PULP component: what PULP's back end (elf32-riscv.c) adds  *)
(* to the relaxation of the section.  A component leaves the symbols of    *)
(* its imports to a loader.  The linker collects the references to them    *)
(* before it relaxes (check_relocs), reserves the import sections, then    *)
(* lists the references again as it relocates the relaxed section, writes  *)
(* them to .pulp.import.names and .pulp.import.relocs, and the values of   *)
(* the exported symbols to .pulp.export.                                   *)
(*                                                                         *)
(* A section is shown as its words, a word as the record of its bit        *)
(* fields; a string is shown at the place of its first byte.               *)
(***************************************************************************)
EXTENDS RelaxSection, SequencesExt

CONSTANTS
  HASH_IMPORT_E,   \* buckets of a hash table of names
  hash_sdbm,       \* the bucket of a name
  strlen,          \* the length of a name
  ExportLists,     \* names the linker script exports, in order
  TextLma,         \* load address of the output section .text
  output_offset    \* of the section in .text

ASSUME LinkConstants ==
  /\ HASH_IMPORT_E \in Nat \ {0}
  /\ hash_sdbm \in [DOMAIN strlen -> 0 .. HASH_IMPORT_E - 1]
  /\ strlen \in [DOMAIN strlen -> Nat]
  /\ ExportLists \subseteq Seq(DOMAIN strlen)
  /\ \A ob \in Objects : \A s \in DOMAIN ob.syms :
       ob.syms[s].import => ob.syms[s].name \in DOMAIN strlen
  /\ TextLma \in Nat /\ TextLma % 2 = 0
  /\ output_offset \in Nat

VARIABLES
  ImportEntries, ExportEntries,   \* per bucket a list of entries
  reserved,                       \* sizes the linker gave the import sections
  names, reimports, exports       \* the three sections written

tableVars == <<ImportEntries, ExportEntries>>
outVars == <<names, reimports, exports>>
linkVars == <<tableVars, reserved, outVars>>
vars == <<relaxVars, linkVars>>

Buckets == 0 .. HASH_IMPORT_E - 1
NoEntries == [b \in Buckets |-> << >>]

\* The entries in the order the code goes through them.
InOrder(table) == FlattenSeq([b \in 1 .. HASH_IMPORT_E |-> table[b - 1]])

Pad4(size) == ((size + 3) \div 4) * 4

-----------------------------------------------------------------------------
(* The tables                                                              *)

\* The entry of a name in the list of its bucket, or 0.
EntryOf(list, name) == SelectInSeq(list, LAMBDA e : e.name = name)

\* The table with an entry for the name, new at the end of its bucket.
WithEntry(table, entry) ==
  [table EXCEPT ![hash_sdbm[entry.name]] =
     IF EntryOf(@, entry.name) # 0 THEN @ ELSE Append(@, entry)]

InsertExportEntry(table, name) == WithEntry(table, [name |-> name])

WithImport(table, name) ==
  WithEntry(table, [name |-> name, RelocCount |-> 0, Ref |-> << >>])

\* A relocation that refers to an import: the symbol is weak and defined in
\* .pulp.import.
Imports(r) == syms[r.sym].global /\ syms[r.sym].weak /\ syms[r.sym].import
Imported(r) == syms[r.sym].name

\* The entry that counts more references and lists more.
More(e, count, refs) == [e EXCEPT !.RelocCount = @ + count, !.Ref = @ \o refs]

\* The table in which the entry of the name does, new if need be.
WithMore(table, name, count, refs) ==
  [WithImport(table, name) EXCEPT ![hash_sdbm[name]] =
     [k \in DOMAIN @ |-> IF @[k].name = name THEN More(@[k], count, refs) ELSE @[k]]]

\* Mutant: the first half of a pair is never counted.
CollectEntryHalf(table, r, last) ==
  WithMore(table, Imported(r), IF r.type = "LO12_I" THEN 0 ELSE 1, << >>)

\* InsertImportEntry, collecting: the second of two relocations that look
\* like LUI and ADDI is not counted.  LastEntry has just been set when it is
\* compared, so that the pair may be of two names.
PairsWith(last, r) ==
  r.type = "LO12_I" /\ last.type = "HI20" /\ r.offset - last.offset = 4

CollectEntry(table, r, last) ==
  WithMore(table, Imported(r), IF PairsWith(last, r) THEN 0 ELSE 1, << >>)

\* InsertImportEntry, listing: append the reference as it is linked.
ListEntry(table, r) ==
  WithMore(table, Imported(r), 0,
           <<[type |-> r.type, offset |-> r.offset + output_offset]>>)

\* The references collected before relocation k, and the last of them: the
\* LastRel that k is compared with.  The first one has no LUI to pair with.
Before(k) == {l \in 1 .. k - 1 : Imports(relocs[l])}
LastRel(k) == IF Before(k) = {} THEN relocs[k] ELSE relocs[Max(Before(k))]

Collected(table, k) ==
  IF Imports(relocs[k]) THEN CollectEntry(table, relocs[k], LastRel(k)) ELSE table

\* riscv_elf_check_relocs: collect every reference.  LastRel is a null
\* pointer when the first one is already a low part.
check_relocs ==
  /\ state = "collect"
  /\ IF \E k \in DOMAIN relocs :
          Imports(relocs[k]) /\ Before(k) = {} /\ relocs[k].type = "LO12_I"
     THEN state' = "crashed" /\ UNCHANGED ImportEntries
     ELSE /\ state' = "reserve"
          /\ ImportEntries' = FoldLeftDomain(Collected, NoEntries, relocs)
  /\ UNCHANGED <<obj, opt, secVars, sec_flg0, reserve_size, i, relax_pass,
                 again, ExportEntries, reserved, outVars>>

-----------------------------------------------------------------------------
(* Sizes and sections                                                      *)

Sum(s) == FoldLeft(LAMBDA a, b : a + b, 0, s)

\* Is reference k of a list a LUI whose ADDI is the next one?
LuiAddi(refs, k) == k < Len(refs) /\ PairsWith(refs[k], refs[k + 1])

\* The references that get a relocation word, as indices.
Heads(refs) == {k \in DOMAIN refs : k = 1 \/ ~ LuiAddi(refs, k - 1)}

\* What an entry adds to the sizes, if it is used.
EntrySize(e, Collect) ==
  LET used == IF Collect THEN e.RelocCount # 0 ELSE e.Ref # << >>
      words == IF Collect THEN e.RelocCount ELSE Cardinality(Heads(e.Ref))
  IN IF used THEN [n |-> 1, chars |-> strlen[e.name] + 1, words |-> words]
     ELSE [n |-> 0, chars |-> 0, words |-> 0]

\* One of these numbers for all entries, list by list.
Total(Collect, part) ==
  Sum([b \in 1 .. HASH_IMPORT_E |->
         LET list == ImportEntries[b - 1]
         IN Sum([k \in DOMAIN list |-> EntrySize(list[k], Collect)[part]])])

\* PulpImportSectionsSize, in its mode 0 that writes the names.
PulpImportSectionsSize(Collect) ==
  LET n == Total(Collect, "n")
      chars == Total(Collect, "chars")
      words == Total(Collect, "words")
  IN [n |-> n, names |-> Pad4(4 + 4 * n + chars), relocs |-> 4 + 4 * n + 4 * words]

\* The linker asks for the sizes before it relaxes (external).
Reserve_sections ==
  /\ state = "reserve"
  /\ reserved' = PulpImportSectionsSize(TRUE)
  /\ state' = "relax"
  /\ UNCHANGED <<obj, opt, secVars, sec_flg0, reserve_size, i, relax_pass,
                 again, tableVars, outVars>>

\* RegisterImportReloc
Listed(table, r) == IF Imports(r) THEN ListEntry(table, r) ELSE table

\* Every low part relative to the pc has a high part where its symbol stands
\* (riscv_record_pcrel_hi_reloc, riscv_resolve_pcrel_lo_relocs).
Address(s) ==
  CASE s.def = "null" -> 0
    [] s.def = "sec" -> SecAddr + s.value
    [] OTHER -> s.value
LowPartsResolve ==
  \A k \in DOMAIN relocs :
    relocs[k].type = "PCREL_LO12_I" =>
      \E l \in DOMAIN relocs :
        /\ relocs[l].type \in {"PCREL_HI20", "GOT_HI20"}
        /\ SecAddr + relocs[l].offset = Address(syms[relocs[k].sym])

\* riscv_elf_relocate_section lists every reference.  A low part without a
\* high part is reported as an overflow, and the link fails.
relocate_section ==
  /\ state = "relaxed"
  /\ ImportEntries' = FoldLeft(Listed, ImportEntries, relocs)
  /\ state' = IF LowPartsResolve THEN "relocated" ELSE "failed"
  /\ UNCHANGED <<obj, opt, secVars, sec_flg0, reserve_size, i, relax_pass,
                 again, ExportEntries, reserved, outVars>>

\* The types a relocation word can hold.
ImportTypes == {"JAL", "HI20", "LO12_I", "LO12_S"}

\* AdjustRelocsImport: the resident program holds absolute addresses.
Adjusted(offset) ==
  IF opt.ComponentMode THEN offset ELSE (2 * offset + TextLma) \div 2

RelocWord(refs, k) ==
  [rel |-> IF LuiAddi(refs, k) THEN "HI20_LO12_I" ELSE refs[k].type,
   offset |-> Adjusted(refs[k].offset \div 2) % 2 ^ 28]

\* Mutant: the pair is written as two words.
RelocWordsSplit(refs) == [k \in DOMAIN refs |-> RelocWord(refs, k)]

RelocWords(refs) ==
  LET heads == SetToSortSeq(Heads(refs), <)
  IN [k \in DOMAIN heads |-> RelocWord(refs, heads[k])]

\* PulpImportCreateNameAndRelocSections.
ImportSections ==
  LET used == SelectSeq(InOrder(ImportEntries), LAMBDA e : e.Ref # << >>)
      size == PulpImportSectionsSize(FALSE)
      n == size.n
      HeadName(k) == 4 * (1 + n) + Sum([l \in 1 .. k - 1 |-> strlen[used[l].name] + 1])
      Entry(k) == <<[name |-> (4 * k) % 2 ^ 16,
                     count |-> Cardinality(Heads(used[k].Ref)) % 2 ^ 16]>>
                    \o RelocWords(used[k].Ref)
  IN [names |-> [n |-> n % 2 ^ 12, words |-> size.names \div 4,
                 index |-> [k \in 1 .. n |-> HeadName(k)],
                 string |-> [p \in {HeadName(k) : k \in 1 .. n} |->
                               used[CHOOSE k \in 1 .. n : HeadName(k) = p].name]],
      relocs |-> [n |-> n % 2 ^ 12, words |-> size.relocs \div 4,
                  entries |-> FlattenSeq([k \in 1 .. n |-> Entry(k)])]]

\* The sections of a program without imports: one empty word each.
EmptySections ==
  [names |-> [n |-> 0, words |-> 0, index |-> << >>, string |-> << >>],
   relocs |-> [n |-> 0, words |-> 0, entries |-> << >>]]

\* PulpExportCreateSection; a component gives offsets in its section.
SymbolNamed(name) ==
  CHOOSE s \in DOMAIN syms : syms[s].name = name /\ syms[s].global
ExportedValue(name) ==
  syms[SymbolNamed(name)].value
    + (IF opt.ComponentMode THEN output_offset ELSE SecAddr)

ExportSection ==
  LET used == InOrder(ExportEntries)
      n == Len(used)
      Base(k) == 4 + Sum([l \in 1 .. k - 1 |-> strlen[used[l].name] + 2])
  IN [component |-> opt.ComponentMode, n |-> n % 2 ^ 15,
      values |-> (Pad4(Base(n + 1)) \div 4) % 2 ^ 16,
      strings |-> [k \in 1 .. n |-> [at |-> Base(k), name |-> used[k].name]],
      value |-> [k \in 1 .. n |-> ExportedValue(used[k].name)]]

\* _bfd_riscv_elf32_final_link; the tables are released.
final_link ==
  LET used == SelectSeq(InOrder(ImportEntries), LAMBDA e : e.Ref # << >>)
      known == \A k \in DOMAIN used : \A r \in DOMAIN used[k].Ref :
                 used[k].Ref[r].type \in ImportTypes
      sections == IF used = << >> THEN EmptySections ELSE ImportSections
  IN /\ state = "relocated"
     /\ IF ~ known
        THEN state' = "failed" /\ UNCHANGED <<tableVars, outVars>>
        ELSE /\ state' = "linked"
             /\ names' = sections.names
             /\ reimports' = sections.relocs
             /\ exports' = ExportSection
             /\ ImportEntries' = IF used = << >> THEN ImportEntries ELSE NoEntries
             /\ ExportEntries' = NoEntries
     /\ UNCHANGED <<obj, opt, secVars, sec_flg0, reserve_size, i, relax_pass,
                    again, reserved>>

-----------------------------------------------------------------------------

\* The linker script has named the exports.
Init ==
  /\ RelaxInit
  /\ state = "collect"
  /\ ImportEntries = NoEntries
  /\ \E list \in ExportLists :
       ExportEntries = FoldLeft(InsertExportEntry, NoEntries, list)
  /\ reserved = [n |-> 0, names |-> 0, relocs |-> 0]
  /\ names = EmptySections.names
  /\ reimports = EmptySections.relocs
  /\ exports = [component |-> FALSE, n |-> 0, values |-> 0, strings |-> << >>,
                value |-> << >>]

Next ==
  \/ check_relocs
  \/ Reserve_sections
  \/ Relaxing /\ UNCHANGED linkVars
  \/ relocate_section
  \/ final_link

Spec == Init /\ [][Next]_vars

\* The linker runs on: one thread, no waiting.
LiveSpec == Spec /\ WF_vars(Next)

-----------------------------------------------------------------------------
(* Correctness properties                                                  *)

Table == [Buckets -> Seq([name : DOMAIN strlen, RelocCount : Nat,
                          Ref : Seq([type : RelocType, offset : Nat])])]

\* The types of the variables, and that an entry stands in its bucket, once.
TypeOK ==
  /\ RelaxTypeOK
  /\ state \in {"collect", "reserve", "relax", "sweep", "swept", "relaxed",
                "relocated", "linked", "failed", "crashed"}
  /\ ImportEntries \in Table
  /\ ExportEntries \in [Buckets -> Seq([name : DOMAIN strlen])]
  /\ \A t \in {ImportEntries, ExportEntries}, b \in Buckets :
       \A k \in DOMAIN t[b] :
         /\ hash_sdbm[t[b][k].name] = b
         /\ \A l \in DOMAIN t[b] : t[b][k].name = t[b][l].name => k = l

\* The documented layout of .pulp.import.relocs, read word by word: a name
\* and a count, then as many relocations.
NoWord == [left |-> 0, name |-> "", entries |-> 0, patches |-> {}, ok |-> TRUE]
Patches(word, name) ==
  IF word.rel = "HI20_LO12_I"
  THEN {[at |-> 2 * word.offset, type |-> "HI20", name |-> name],
        [at |-> 2 * word.offset + 4, type |-> "LO12_I", name |-> name]}
  ELSE {[at |-> 2 * word.offset, type |-> word.rel, name |-> name]}
Read(acc, word) ==
  CASE acc.left = 0 /\ DOMAIN word = {"name", "count"} ->
         [acc EXCEPT !.left = word.count, !.entries = @ + 1,
                     !.name = names.string[names.index[word.name \div 4]]]
    [] acc.left > 0 /\ DOMAIN word = {"rel", "offset"} ->
         [acc EXCEPT !.left = @ - 1, !.patches = @ \cup Patches(word, acc.name)]
    [] OTHER -> [acc EXCEPT !.ok = FALSE]
Decoded == FoldLeft(Read, NoWord, reimports.entries)

\* An instruction of the assembler that refers to an import, and what a
\* loader has to do to it: at its place now, a jump where it was a call.
Place(x) == Cardinality({j \in DOMAIN contents : contents[j] < x})
Patch(r, base) == [at |-> base + Place(r.offset), name |-> Imported(r),
                   type |-> IF r.type = "CALL" THEN "JAL" ELSE r.type]

\* A loader that reads the import sections the way they are documented finds
\* exactly the instructions the assembler made refer to an import, each where
\* relaxing has moved it, with its kind and name; an exported name has the
\* value of its symbol after relaxation (PulpImportCreateNameAndRelocSections,
\* PulpExportCreateSection, InsertImportEntry).  References relative to the
\* pc end the link and have no table (PartsTogether).
TablesDecode ==
  state = "linked" =>
    LET base == output_offset + (IF opt.ComponentMode THEN 0 ELSE TextLma)
    IN /\ Decoded.ok /\ Decoded.left = 0
       /\ Decoded.entries = reimports.n /\ names.n = reimports.n
       /\ Decoded.patches =
            {Patch(r, base) : r \in {q \in ToSet(obj.relocs) : Imports(q)}}
       /\ reimports.n > 0 => reimports.words = 1 + Len(reimports.entries)
       /\ \A k \in 1 .. exports.n :
            LET s == SymbolNamed(exports.strings[k].name)
            IN At(exports.value[k] - (IF opt.ComponentMode THEN output_offset ELSE SecAddr),
                  obj.syms[s].value)

\* What the linker reserved before it relaxed is enough for what is written
\* after it, unless a reference relative to the pc became an absolute one or
\* a pair was counted over two names (check_relocs, PulpImportSectionsSize).
Regular ==
  /\ \A k \in DOMAIN relocs : Imports(relocs[k]) => obj.relocs[k].type \notin PcrelTypes
  /\ \A k \in DOMAIN relocs, l \in DOMAIN relocs :
       /\ Imports(relocs[k]) /\ Imports(relocs[l])
       /\ PairsWith(obj.relocs[k], obj.relocs[l])
       => relocs[k].sym = relocs[l].sym
ReservedEnough ==
  state = "linked" /\ Regular =>
    /\ reimports.words * 4 <= reserved.relocs
    /\ names.words * 4 <= reserved.names

\* The link ends: the sweeps over the section, that go on while one of them
\* shortens something, come to an end (_bfd_riscv_relax_section, again).
Terminates == <>(state \in {"linked", "failed", "crashed"})
=============================================================================
