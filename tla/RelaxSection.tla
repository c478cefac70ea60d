----------------------------- MODULE RelaxSection -----------------------------
(***************************************************************************)
(* Linker relaxation of one RISC-V code section as PULP's back end of the  *)
(* binary file library does it (elf32-riscv.c).  The linker sweeps over    *)
(* the relocations of the section.  Pass 0 replaces code sequences by      *)
(* shorter ones while a sweep still shortens something, pass 1 deletes the *)
(* excess padding of alignment directives.  Every shortening deletes bytes *)
(* from the middle of the section and moves what stands behind them.       *)
(*                                                                         *)
(* A byte of the section is the position the assembler gave it, so that    *)
(* contents shows which bytes are left; the code of an instruction is      *)
(* shown by the type of its relocation.  The linker's loop around the      *)
(* sweeps is external.                                                     *)
(***************************************************************************)
EXTENDS Integers, Sequences

CONSTANTS
  Objects,       \* the sections the assembler may have made
  Options,       \* command line of the linker and flags of the object file
  SecAddr,       \* sec_addr of the section
  Gp,            \* riscv_global_pointer_value, 0 when there is none
  TlsBase,       \* address of the thread-local section
  MaxAlign,      \* _bfd_riscv_get_max_alignment
  GpAlign,       \* alignment of the output section gp points into
  JReach, CReach, IReach, CLuiReach   \* reach of JAL, C.J, ADDI and C.LUI

VARIABLES
  obj, opt,      \* what this run of the linker was given
  contents,      \* per byte left: its position in obj
  relocs, syms,  \* with their present places, types and sizes
  sec_flg0,      \* an alignment was handled: no relaxing any more
  reserve_size,  \* bytes of the symbol behind the addend, kept over the loop
  i,             \* the loop over the relocations
  relax_pass,
  again,
  state          \* where the linker is

secVars == <<contents, relocs, syms>>
relaxVars == <<obj, opt, secVars, sec_flg0, reserve_size, i, relax_pass,
               again, state>>

-----------------------------------------------------------------------------
(* Data types                                                              *)

LuiTypes == {"HI20", "LO12_I", "LO12_S"}
TlsTypes == {"TPREL_HI20", "TPREL_ADD", "TPREL_LO12_I", "TPREL_LO12_S"}
PcrelTypes == {"PCREL_HI20", "PCREL_LO12_I"}

\* What the assembler writes, and what relaxing makes of it.
AsmTypes == {"CALL", "GOT_HI20", "RELAX", "ALIGN"} \cup LuiTypes \cup TlsTypes
              \cup PcrelTypes
RelocType == AsmTypes \cup {"NONE", "JAL", "RVC_JUMP", "RVC_LUI", "GPREL_I",
                            "GPREL_S", "TPREL_I", "TPREL_S"}

\* rd: the register the instruction writes (ra stands for x0 too, in a call);
\* addi: the linker has put an ADDI in the place of the instruction.
Reloc == [offset : Nat, type : RelocType, sym : Nat, addend : Nat,
          rd : {"ra", "sp", "other"}, addi : BOOLEAN]

\* A symbol is the null symbol, defined in this section (value: an offset),
\* in another one (value: an address), locally in a section without an
\* address, or nowhere.  size is st_size, one that fell below zero as the
\* negative number it is congruent to.
SymDef == {"null", "sec", "other", "zero", "undef"}
Symbol == [name : STRING, def : SymDef, value : Nat, size : Int,
           global : BOOLEAN, weak : BOOLEAN, func : BOOLEAN,
           fixed : BOOLEAN,     \* its section has SEC_MERGE or SEC_CODE
           gpsec : BOOLEAN,     \* its section is the one gp points into
           import : BOOLEAN]    \* its section is .pulp.import

Object == [size : Nat, relocs : Seq(Reloc), syms : Seq(Symbol)]
Option == [rvc : BOOLEAN, ComponentMode : BOOLEAN, norelax : BOOLEAN,
           pic : BOOLEAN]    \* bfd_link_pic

\* The bytes a relocation of the assembler stands for, from its place: an
\* instruction, the two of a call, or a padding.
Footprint(r) ==
  CASE r.type = "CALL" -> 8
    [] r.type = "ALIGN" -> r.addend
    [] r.type = "RELAX" -> 0
    [] OTHER -> 4

End(r) == r.offset + Footprint(r)

\* The longest padding that the relaxation finds an alignment for.
MaxPadding == 4095

\* What the assembler guarantees: an instruction has one relocation and
\* perhaps its R_RISCV_RELAX, a padding has one without a symbol, a call goes
\* to a label, and labels stand between instructions.
Placed(ob, r) ==
  /\ r.type \in AsmTypes
  /\ r.sym \in DOMAIN ob.syms
  /\ r.offset < ob.size /\ End(r) <= ob.size
  /\ r.type = "ALIGN" => r.addend \in 1 .. MaxPadding /\ r.sym = 1
  /\ r.type = "CALL" => r.addend = 0
  /\ ~ r.addi
Outside(p, r) == p <= r.offset \/ p >= End(r)
Beside(q, r) ==
  /\ Outside(q.offset, r)
  /\ q.offset # r.offset \/ q.type = "RELAX" \/ r.type = "RELAX"
Label(ob, sym) ==
  /\ sym.value <= ob.size
  /\ \A k \in DOMAIN ob.relocs : Outside(sym.value, ob.relocs[k])

WellFormed(ob) ==
  /\ ob.syms # << >> /\ ob.syms[1].def = "null" /\ ~ ob.syms[1].global
  /\ \A k \in DOMAIN ob.relocs : Placed(ob, ob.relocs[k])
  /\ \A k \in DOMAIN ob.relocs, l \in DOMAIN ob.relocs :
       k # l => Beside(ob.relocs[l], ob.relocs[k])
  /\ \A s \in DOMAIN ob.syms : ob.syms[s].def = "sec" => Label(ob, ob.syms[s])

ASSUME RelaxConstants ==
  /\ Objects \subseteq Object
  /\ \A ob \in Objects : WellFormed(ob)
  /\ Options \subseteq Option
  /\ {SecAddr, Gp, TlsBase, MaxAlign, GpAlign, JReach, CReach, IReach,
      CLuiReach} \subseteq Nat

\* Code stands at even addresses, and so do paddings, of even length.
ASSUME Halfwords ==
  /\ SecAddr % 2 = 0
  /\ \A ob \in Objects : \A k \in DOMAIN ob.relocs :
       ob.relocs[k].type = "ALIGN" =>
         ob.relocs[k].offset % 2 = 0 /\ ob.relocs[k].addend % 2 = 0

\* The assembler writes the relocations of paddings in the order of the code.
ASSUME PaddingsInOrder ==
  \A ob \in Objects : \A k \in DOMAIN ob.relocs, l \in DOMAIN ob.relocs :
    /\ k < l
    /\ ob.relocs[k].type = "ALIGN" /\ ob.relocs[l].type = "ALIGN"
    => ob.relocs[k].offset < ob.relocs[l].offset

\* The section itself and other code may move: their symbols are fixed.
ASSUME CodeIsFixed ==
  \A ob \in Objects : \A s \in DOMAIN ob.syms :
    LET sym == ob.syms[s]
    IN sym.def \in {"null", "sec"} \/ (sym.def = "other" /\ sym.func) => sym.fixed

\* The relocation behind one of an instruction says whether it may be relaxed.
Marked(ob, k) == k < Len(ob.relocs) /\ ob.relocs[k + 1].type = "RELAX"

\* The assembler lets the linker relax all parts of an address or none.
ASSUME LowPartsMarked ==
  \A ob \in Objects : \A k \in DOMAIN ob.relocs, l \in DOMAIN ob.relocs :
    /\ ob.relocs[k].type = "HI20" /\ Marked(ob, k)
    /\ ob.relocs[l].type \in {"LO12_I", "LO12_S"}
    /\ ob.relocs[l].sym = ob.relocs[k].sym /\ ob.syms[ob.relocs[k].sym].size > 0
    => Marked(ob, l) /\ ob.relocs[l + 1].offset = ob.relocs[l].offset

RelaxTypeOK ==
  /\ obj \in Object
  /\ opt \in Options
  /\ contents \in Seq(Nat)
  /\ relocs \in Seq(Reloc)
  /\ Len(relocs) = Len(obj.relocs)
  /\ syms \in Seq(Symbol)
  /\ Len(syms) = Len(obj.syms)
  /\ sec_flg0 \in BOOLEAN
  /\ reserve_size \in Int
  /\ i \in Nat
  /\ relax_pass \in {0, 1}
  /\ again \in BOOLEAN

RelaxInit ==
  /\ obj \in Objects
  /\ opt \in Options
  /\ contents = [k \in 1 .. obj.size |-> k - 1]
  /\ relocs = obj.relocs
  /\ syms = obj.syms
  /\ sec_flg0 = FALSE
  /\ reserve_size = 0
  /\ i = 1
  /\ relax_pass = 0
  /\ again = FALSE

-----------------------------------------------------------------------------
(* riscv_relax_delete_bytes                                                *)

\* Mutant: a symbol at the end of the section is left behind.
MovedSymbolShort(sym, addr, count, toaddr) ==
  IF sym.def = "sec" /\ sym.value > addr /\ sym.value < toaddr
  THEN [sym EXCEPT !.value = @ - count] ELSE sym

\* Move a symbol of the section, then adjust its size.  The code tests the
\* size with the value it has just moved.
MovedSymbol(sym, addr, count, toaddr) ==
  LET value == IF sym.value > addr /\ sym.value <= toaddr
               THEN sym.value - count ELSE sym.value
      spans == /\ value <= addr
               /\ value + sym.size > addr
               /\ value + sym.size <= toaddr
  IN IF sym.def # "sec" THEN sym
     ELSE [sym EXCEPT !.value = value, !.size = IF spans THEN @ - count ELSE @]

\* Mutant: a relocation at the place of the deletion moves as well.
MovedRelocHere(r, addr, count, toaddr) ==
  IF r.offset >= addr /\ r.offset < toaddr
  THEN [r EXCEPT !.offset = @ - count] ELSE r

MovedReloc(r, addr, count, toaddr) ==
  IF r.offset > addr /\ r.offset < toaddr
  THEN [r EXCEPT !.offset = @ - count] ELSE r

\* Delete count bytes at addr from the section, whose relocations are rs.
riscv_relax_delete_bytes(rs, addr, count) ==
  LET toaddr == Len(contents)
  IN /\ contents' = SubSeq(contents, 1, addr)
                      \o SubSeq(contents, addr + count + 1, toaddr)
     /\ relocs' = [k \in DOMAIN rs |-> MovedReloc(rs[k], addr, count, toaddr)]
     /\ syms' = [s \in DOMAIN syms |-> MovedSymbol(syms[s], addr, count, toaddr)]

-----------------------------------------------------------------------------
(* _bfd_riscv_relax_section: the relocation the loop is at                 *)

rel == relocs[i]
sym == syms[rel.sym]

\* The relocations a pass looks at, in pass 0 only if R_RISCV_RELAX follows.
Shortened ==
  {"CALL"} \cup LuiTypes \cup TlsTypes \cup PcrelTypes
    \cup (IF opt.ComponentMode THEN {"GOT_HI20"} ELSE {})

Paired ==
  /\ i < Len(relocs)
  /\ relocs[i + 1].type = "RELAX"
  /\ relocs[i + 1].offset = rel.offset

Considered ==
  IF relax_pass = 0 THEN rel.type \in Shortened /\ Paired
  ELSE rel.type = "ALIGN"

\* Pass 0 skips over the R_RISCV_RELAX.
Next_i == IF Considered /\ relax_pass = 0 THEN i + 2 ELSE i + 1

\* A symbol without a section that is linked ends the turn of the loop.
HasValue == sym.def \notin {"zero", "undef"}

symval ==
  rel.addend + (CASE sym.def = "null" -> SecAddr + rel.offset
                  [] sym.def = "sec" -> SecAddr + sym.value
                  [] OTHER -> sym.value)

\* Mutant: the rest of the symbol is not considered.
ReserveNothing == 0

\* What is left of the symbol behind the addend; a global function and an
\* undefined symbol leave the value of the relocation before.
Reserve ==
  CASE sym.def = "undef" \/ (sym.global /\ sym.func) -> reserve_size
    [] sym.size < 0 \/ rel.addend <= sym.size -> sym.size - rel.addend
    [] OTHER -> 0

\* The test compares the name of the section being relaxed, never that of
\* the symbol's section, and takes every name but one: any weak symbol is
\* an import here.
Is_Import == sym.global /\ sym.weak

Within(value, reach) == value \in -reach .. reach - 1
VALID_UJTYPE_IMM(value) == value % 2 = 0 /\ Within(value, JReach)
VALID_RVC_J_IMM(value) == value % 2 = 0 /\ Within(value, CReach)
VALID_ITYPE_IMM(value) == Within(value, IReach)
RISCV_CONST_HIGH_PART(value) == (value + IReach) \div (2 * IReach)
VALID_RVC_LUI_IMM(high) == high # 0 /\ Within(high, CLuiReach)

Retyped(type) == [relocs EXCEPT ![i].type = type]
Dropped == [relocs EXCEPT ![i].type = "NONE", ![i].sym = 1]

\* The relaxation function returns TRUE and has deleted nothing.
Leave(rs) ==
  /\ relocs' = rs
  /\ UNCHANGED <<contents, syms, sec_flg0, again>>

Shorten(rs, addr, count) ==
  /\ riscv_relax_delete_bytes(rs, addr, count)
  /\ again' = TRUE
  /\ UNCHANGED sec_flg0

-----------------------------------------------------------------------------
(* The relaxation functions                                                *)

\* _bfd_riscv_relax_call: AUIPC + JALR become one jump.
foff ==
  LET d == symval - (SecAddr + rel.offset)
  IN IF ~ VALID_UJTYPE_IMM(d) \/ sym.def \in {"sec", "null"} THEN d
     ELSE IF d < 0 THEN d - MaxAlign ELSE d + MaxAlign
near_zero == ~ opt.pic /\ symval < IReach

\* Mutant: a compressed jump is chosen without looking at its reach.
JumpFar ==
  CASE opt.rvc /\ ~ Is_Import /\ rel.rd = "ra" -> [type |-> "RVC_JUMP", len |-> 2]
    [] VALID_UJTYPE_IMM(foff) \/ Is_Import -> [type |-> "JAL", len |-> 4]
    [] OTHER -> [type |-> "LO12_I", len |-> 4]

\* The jump that replaces a call, and how many bytes it takes.
Jump ==
  CASE opt.rvc /\ VALID_RVC_J_IMM(foff) /\ ~ Is_Import /\ rel.rd = "ra" ->
         [type |-> "RVC_JUMP", len |-> 2]
    [] VALID_UJTYPE_IMM(foff) \/ Is_Import -> [type |-> "JAL", len |-> 4]
    [] OTHER -> [type |-> "LO12_I", len |-> 4]

_bfd_riscv_relax_call ==
  /\ rel.type = "CALL"
  /\ IF VALID_UJTYPE_IMM(foff) \/ near_zero
     THEN Shorten(Retyped(Jump.type), rel.offset + Jump.len, 8 - Jump.len)
     ELSE Leave(relocs)

\* _bfd_riscv_relax_lui: an address near zero or gp needs no LUI.
NearBase ==
  LET align == IF Gp # 0 /\ sym.gpsec THEN GpAlign ELSE MaxAlign
  IN \/ VALID_ITYPE_IMM(symval)
     \/ symval >= Gp /\ VALID_ITYPE_IMM(symval - Gp + align + Reserve)
     \/ symval < Gp /\ VALID_ITYPE_IMM(symval - Gp - align - Reserve)

\* A LUI becomes a C.LUI, even if alignment moves its symbol by a page.
ShortLui ==
  /\ opt.rvc
  /\ rel.type = "HI20"
  /\ VALID_RVC_LUI_IMM(RISCV_CONST_HIGH_PART(symval))
  /\ VALID_RVC_LUI_IMM(RISCV_CONST_HIGH_PART(symval + 2 * IReach))
  /\ rel.rd # "sp"

_bfd_riscv_relax_lui ==
  /\ rel.type \in LuiTypes
  /\ CASE Is_Import \/ sym.fixed -> Leave(relocs)
       [] ~ (Is_Import \/ sym.fixed) /\ NearBase ->
            CASE rel.type = "LO12_I" -> Leave(Retyped("GPREL_I"))
              [] rel.type = "LO12_S" -> Leave(Retyped("GPREL_S"))
              [] OTHER -> Shorten(Dropped, rel.offset, 4)
       [] ~ (Is_Import \/ sym.fixed) /\ ~ NearBase /\ ShortLui ->
            Shorten(Retyped("RVC_LUI"), rel.offset + 2, 2)
       [] OTHER -> Leave(relocs)

\* _bfd_riscv_relax_tls_le: an offset from tp that fits needs no LUI and ADD.
_bfd_riscv_relax_tls_le ==
  /\ rel.type \in TlsTypes
  /\ CASE RISCV_CONST_HIGH_PART(symval - TlsBase) # 0 \/ Is_Import -> Leave(relocs)
       [] OTHER ->
            CASE rel.type = "TPREL_LO12_I" -> Leave(Retyped("TPREL_I"))
              [] rel.type = "TPREL_LO12_S" -> Leave(Retyped("TPREL_S"))
              [] OTHER -> Shorten(Dropped, rel.offset, 4)

\* _bfd_riscv_relax_import_pcrel: a reference to an import becomes absolute,
\* with the relocation behind it taken for its low part.  For any other
\* symbol the function clears again, whatever the sweep has done before.
_bfd_riscv_relax_import_pcrel ==
  /\ rel.type \in PcrelTypes
  /\ IF Is_Import
     THEN Leave(IF rel.type = "PCREL_LO12_I" THEN Retyped("LO12_I")
                ELSE [Retyped("HI20") EXCEPT ![i + 1].type = "LO12_I",
                                             ![i + 1].sym = rel.sym])
     ELSE again' = FALSE /\ UNCHANGED <<secVars, sec_flg0>>

\* _bfd_riscv_relax_got_ref: a load from the GOT becomes a pc-relative
\* address, again with the relocation behind it as the low part.  An ADDI is
\* written at the place of that one, which is the place of rel (Paired).
_bfd_riscv_relax_got_ref ==
  /\ rel.type = "GOT_HI20"
  /\ Leave([Retyped("PCREL_HI20") EXCEPT ![i].addi = TRUE,
                                         ![i + 1].type = "PCREL_LO12_I",
                                         ![i + 1].addi = TRUE])

\* _bfd_riscv_relax_align: delete the padding that is not needed.
Powers == {1, 2, 4, 8, 16, 32, 64, 128, 256, 512, 1024, 2048, 4096}
Alignment(addend) == CHOOSE p \in Powers : p > addend /\ p \div 2 <= addend

\* Mutant: the padding is measured from its end.
nop_bytesBehind ==
  LET alignment == Alignment(rel.addend)
  IN ((symval - 1) \div alignment) * alignment + alignment - symval

nop_bytes ==
  LET alignment == Alignment(rel.addend)
      start == symval - rel.addend
  IN ((start - 1) \div alignment) * alignment + alignment - start

_bfd_riscv_relax_align ==
  /\ sec_flg0' = TRUE
  /\ UNCHANGED again
  /\ CASE rel.addend < nop_bytes -> state' = "failed" /\ UNCHANGED secVars
       [] rel.addend = nop_bytes ->
            state' = state /\ relocs' = Dropped /\ UNCHANGED <<contents, syms>>
       [] OTHER ->
            /\ state' = state
            /\ riscv_relax_delete_bytes(Dropped, rel.offset + nop_bytes,
                                        rel.addend - nop_bytes)

-----------------------------------------------------------------------------
(* The sweeps                                                              *)

\* Mutant: what the sweep before has shortened is not forgotten.
BeginSweepAgain ==
  /\ state = "relax"
  /\ reserve_size' = 0
  /\ i' = 1
  /\ state' = IF sec_flg0 \/ relocs = << >> \/ (opt.norelax /\ relax_pass = 0)
              THEN "swept" ELSE "sweep"
  /\ UNCHANGED <<obj, opt, secVars, sec_flg0, relax_pass, again>>

\* A sweep begins; nothing is done in a section whose alignments are handled.
BeginSweep ==
  /\ state = "relax"
  /\ again' = FALSE
  /\ reserve_size' = 0
  /\ i' = 1
  /\ state' = IF sec_flg0 \/ relocs = << >> \/ (opt.norelax /\ relax_pass = 0)
              THEN "swept" ELSE "sweep"
  /\ UNCHANGED <<obj, opt, secVars, sec_flg0, relax_pass>>

InLoop == state = "sweep" /\ i <= Len(relocs)

\* A relocation this pass does not look at, or one without a value.
Skip ==
  /\ InLoop
  /\ ~ (Considered /\ HasValue)
  /\ i' = Next_i
  /\ reserve_size' = IF Considered THEN Reserve ELSE reserve_size
  /\ UNCHANGED <<obj, opt, secVars, sec_flg0, relax_pass, again, state>>

\* Pass 0 relaxes a reference.
RelaxRef ==
  /\ InLoop
  /\ relax_pass = 0
  /\ Considered /\ HasValue
  /\ reserve_size' = Reserve
  /\ \/ _bfd_riscv_relax_call
     \/ _bfd_riscv_relax_lui
     \/ _bfd_riscv_relax_tls_le
     \/ _bfd_riscv_relax_import_pcrel
     \/ _bfd_riscv_relax_got_ref
  /\ i' = Next_i
  /\ UNCHANGED <<obj, opt, relax_pass, state>>

\* Pass 1 handles an alignment.
RelaxAlign ==
  /\ InLoop
  /\ relax_pass = 1
  /\ Considered /\ HasValue
  /\ reserve_size' = Reserve
  /\ _bfd_riscv_relax_align
  /\ i' = Next_i
  /\ UNCHANGED <<obj, opt, relax_pass>>

EndSweep ==
  /\ state = "sweep"
  /\ i > Len(relocs)
  /\ state' = "swept"
  /\ UNCHANGED <<obj, opt, secVars, sec_flg0, reserve_size, i, relax_pass, again>>

\* The linker sweeps while a sweep shortens something, then enters pass 1.
NextSweep ==
  /\ state = "swept"
  /\ IF again \/ relax_pass = 0
     THEN /\ state' = "relax"
          /\ relax_pass' = IF again THEN relax_pass ELSE 1
     ELSE state' = "relaxed" /\ UNCHANGED relax_pass
  /\ UNCHANGED <<obj, opt, secVars, sec_flg0, reserve_size, i, again>>

Relaxing == BeginSweep \/ Skip \/ RelaxRef \/ RelaxAlign \/ EndSweep \/ NextSweep

-----------------------------------------------------------------------------
(* What the relaxed section has to be                                      *)

\* p bytes of the section that are left stood before byte x.
At(p, x) ==
  /\ p \in 0 .. Len(contents)
  /\ \A j \in 1 .. Len(contents) : contents[j] < x <=> j <= p

Left(x) == \E j \in 1 .. Len(contents) : contents[j] = x

\* The bytes a relocation stands for now.
KeptLen(k) ==
  CASE relocs[k].type = "NONE" -> 0
    [] relocs[k].type \in {"RVC_LUI", "RVC_JUMP"} -> 2
    [] obj.relocs[k].type = "CALL" /\ relocs[k].type \in {"JAL", "LO12_I", "GPREL_I"} -> 4
    [] OTHER -> Footprint(obj.relocs[k])

\* The bytes its shortening may have deleted.
Excess(k) == obj.relocs[k].offset + KeptLen(k) .. End(obj.relocs[k]) - 1

InOrderLeft ==
  \A j \in 1 .. Len(contents), l \in 1 .. Len(contents) :
    j < l => contents[j] < contents[l]

\* What a relocation stands for is still there in one piece, at its place.
Intact(k) ==
  LET q == relocs[k].offset
  IN \A j \in q + 1 .. q + KeptLen(k) :
       j <= Len(contents) /\ contents[j] = obj.relocs[k].offset + (j - q - 1)

\* Only what a shortening made superfluous is gone, and all of it.
OnlyExcessGone ==
  /\ \A x \in 0 .. obj.size - 1 :
       Left(x) \/ \E k \in DOMAIN relocs : x \in Excess(k)
  /\ \A k \in DOMAIN relocs :
       obj.relocs[k].type # "ALIGN" => \A x \in Excess(k) : ~ Left(x)

\* However many sequences are shortened and paddings deleted, in whatever
\* order, the section holds what the assembler put there except the excess,
\* every relocation stands at its instruction and every symbol at its label
\* (riscv_relax_delete_bytes, the callers' addr and count).
CodeKept ==
  /\ InOrderLeft
  /\ OnlyExcessGone
  /\ \A k \in DOMAIN relocs :
       /\ Intact(k)
       /\ Left(obj.relocs[k].offset) => At(relocs[k].offset, obj.relocs[k].offset)
  /\ \A s \in DOMAIN syms :
       obj.syms[s].def = "sec" => At(syms[s].value, obj.syms[s].value)

\* A jump reaches its target in the section, although the distance was
\* measured when bytes behind and before it were still to be deleted
\* (_bfd_riscv_relax_call).  A weak symbol is taken for an import, whose
\* jump the loader completes.
Reach ==
  \A k \in DOMAIN relocs :
    LET r == relocs[k]
        s == syms[r.sym]
        d == s.value + r.addend - r.offset
    IN s.def = "sec" /\ ~ (s.global /\ s.weak) =>
         /\ r.type = "JAL" => VALID_UJTYPE_IMM(d)
         /\ r.type = "RVC_JUMP" => VALID_RVC_J_IMM(d)

\* When a LUI is deleted, all instructions that add the low part to its
\* register are based on gp or zero instead, the ones for later bytes of the
\* symbol too (_bfd_riscv_relax_lui, reserve_size).  A symbol aligned to its
\* size crosses no multiple of the reach.
AlignedSymbol(s) ==
  s.size > 0 /\ s.value \div IReach = (s.value + s.size - 1) \div IReach
LowPartsFollow ==
  state # "sweep" =>
    \A k \in DOMAIN relocs, l \in DOMAIN relocs :
      LET hi == obj.relocs[k]
          lo == obj.relocs[l]
      IN /\ hi.type = "HI20" /\ relocs[k].type = "NONE"
         /\ lo.type \in {"LO12_I", "LO12_S"} /\ lo.sym = hi.sym
         /\ AlignedSymbol(obj.syms[hi.sym])
         /\ lo.addend \in hi.addend .. obj.syms[hi.sym].size - 1
         => relocs[l].type \in {"GPREL_I", "GPREL_S"}

\* When the section is relaxed, the code behind each padding is aligned,
\* whatever was deleted before it (_bfd_riscv_relax_align).
Aligned ==
  state \notin {"relax", "sweep", "swept", "failed"} /\ relax_pass = 1 =>
    \A k \in DOMAIN relocs, p \in 0 .. Len(contents) :
      obj.relocs[k].type = "ALIGN" /\ At(p, End(obj.relocs[k])) =>
        (SecAddr + p) % Alignment(obj.relocs[k].addend) = 0

\* The second instruction of a pc-relative access k: its relocation refers to
\* a label at the first one.
SecondPart(k, l) ==
  LET low == obj.relocs[l]
  IN /\ low.type = "PCREL_LO12_I"
     /\ obj.syms[low.sym].def = "sec"
     /\ obj.syms[low.sym].value = obj.relocs[k].offset

\* The two parts of an access are rewritten together.  An import made
\* absolute has absolute parts: "PCREL_HI20 is always followed by a reloc on
\* the lsp part of the symbol, we use this assumption to force the reloc to
\* pseudo absolute" (_bfd_riscv_relax_import_pcrel).  A load from the GOT that
\* is none any more keeps its first instruction: "Force second part of the
\* access to be an addi" (_bfd_riscv_relax_got_ref).
PartsTogether ==
  state = "relaxed" =>
    \A k \in DOMAIN relocs, l \in DOMAIN relocs :
      SecondPart(k, l) =>
        /\ obj.relocs[k].type = "PCREL_HI20" /\ relocs[k].type = "HI20"
             => relocs[l].type = "LO12_I"
        /\ obj.relocs[k].type = "GOT_HI20" /\ relocs[k].type = "PCREL_HI20"
             => relocs[l].addi /\ ~ relocs[k].addi

\* A symbol ends where its code ended: the comment in
\* riscv_relax_delete_bytes adjusts the size of a symbol that spans the
\* bytes deleted, whose end is moved and whose start is not.
SymbolExtents ==
  \A s \in DOMAIN syms :
    obj.syms[s].def = "sec" =>
      At(syms[s].value + syms[s].size, obj.syms[s].value + obj.syms[s].size)
=============================================================================
