--------------------------- MODULE MCComponentLink ---------------------------
(***************************************************************************)
(* Small sections for the linker: three code sequences around a padding,   *)
(* of every kind the relaxation knows, with the reaches scaled down so     *)
(* that a section of 40 bytes has targets in and out of reach.             *)
(***************************************************************************)
EXTENDS ComponentLink

\* Symbols: a section symbol spans items, the others have an address.
NullSym == [name |-> "", def |-> "null", value |-> 0, size |-> 0, global |-> FALSE,
            weak |-> FALSE, func |-> FALSE, fixed |-> TRUE, gpsec |-> FALSE,
            import |-> FALSE]
Code(name, value, size) ==
  [NullSym EXCEPT !.name = name, !.def = "sec", !.value = value, !.size = size,
                  !.global = TRUE, !.func = TRUE]
Data(name, value, size) ==
  [NullSym EXCEPT !.name = name, !.def = "other", !.value = value, !.size = size,
                  !.global = TRUE, !.fixed = FALSE, !.gpsec = value >= Gp]
Import(name, value) ==
  [NullSym EXCEPT !.name = name, !.def = "other", !.value = value, !.global = TRUE,
                  !.weak = TRUE, !.fixed = FALSE, !.import = TRUE]

F == 2  G == 3  A == 4  B == 5  Near == 6  Zero == 7  Far == 8  Tls == 9  Off == 10  L == 11  TlsFar == 12
First == 0   \* the label of the item itself
Rest ==
  <<Import("a", 0), Import("b", 4), Data("near", 208, 8), Data("zero", 8, 8),
    Data("far", 72, 4), Data("tls", 304, 4), Data("wide", 208, 16),
    [Data("sbss", 0, 4) EXCEPT !.def = "zero", !.global = FALSE],
    Data("tfar", 340, 4)>>

\* An item: its bytes and its relocations, placed from its start.
Rel(at, type, target, addend) ==
  [offset |-> at, type |-> type, sym |-> target, addend |-> addend, rd |-> "ra",
   addi |-> FALSE]
Relaxed(at, type, target, addend) == <<Rel(at, type, target, addend), Rel(at, "RELAX", 1, 0)>>
Item(len, rels) == [len |-> len, rels |-> rels]
Call(target) == Item(8, Relaxed(0, "CALL", target, 0))
Plain == Item(4, << >>)
Lui(target, addend) == Item(8, Relaxed(0, "HI20", target, 0) \o Relaxed(4, "LO12_I", target, addend))
Store(target) == Item(8, Relaxed(0, "HI20", target, 0) \o Relaxed(4, "LO12_S", target, 0))
Pcrel(target) == Item(8, Relaxed(0, "PCREL_HI20", target, 0) \o Relaxed(4, "PCREL_LO12_I", First, 0))
Got(target) == Item(8, Relaxed(0, "GOT_HI20", target, 0) \o Relaxed(4, "PCREL_LO12_I", First, 0))
TlsAccess(target, low) ==
  Item(12, Relaxed(0, "TPREL_HI20", target, 0) \o Relaxed(4, "TPREL_ADD", target, 0)
             \o Relaxed(8, low, target, 0))
ToSp == Item(4, <<[Rel(0, "HI20", Far, 0) EXCEPT !.rd = "sp"], Rel(0, "RELAX", 1, 0)>>)
TailCall == Item(8, <<[Rel(0, "CALL", F, 0) EXCEPT !.rd = "other"], Rel(0, "RELAX", 1, 0)>>)
CrossPair == Item(8, <<Rel(0, "HI20", A, 0), Rel(4, "LO12_I", B, 0)>>)
Shared == Item(12, <<Rel(0, "HI20", A, 0), Rel(4, "LO12_I", A, 0), Rel(8, "LO12_I", A, 0)>>)
LowFirst == Item(4, <<Rel(0, "LO12_I", A, 0)>>)
Padding(addend) == Item(addend, <<Rel(0, "ALIGN", 1, addend)>>)

Start(items, k) == Sum([l \in 1 .. k - 1 |-> items[l].len])
Build(items) ==
  LET n == Len(items)
      size == Start(items, n + 1)
      placed(k) == [r \in DOMAIN items[k].rels |->
                      [items[k].rels[r] EXCEPT !.offset = @ + Start(items, k),
                                               !.sym = IF @ = First THEN 13 + k ELSE @]]
      label(k) == [NullSym EXCEPT !.def = "sec", !.value = Start(items, k)]
  IN [size |-> size,
      relocs |-> FlattenSeq([k \in 1 .. n |-> placed(k)]),
      syms |-> <<NullSym, Code("f", 0, Start(items, 3)),
                 Code("g", Start(items, 4), size - Start(items, 4))>>
                 \o Rest \o <<Code("end", size, 0)>> \o [k \in 1 .. n |-> label(k)]]

\* Two items, a padding that aligns to 8, a function of one item and a return.
Items ==
  {Call(G), Call(A), Call(Zero), Lui(Near, 4), Lui(Off, 12), Lui(Far, 0),
   Lui(A, 0), Pcrel(B), Got(G), TlsAccess(Tls, "TPREL_LO12_S")}
After == {Call(F), TailCall, Store(Near), Lui(B, 0), Pcrel(G)}
Special == {TlsAccess(Tls, "TPREL_LO12_I"), TlsAccess(TlsFar, "TPREL_LO12_I"),
            Lui(F, 0), CrossPair, LowFirst, Shared, ToSp, Lui(L, 0), Store(Zero)}
Sources ==
  {<<x, y, Padding(6), z, Plain>> : x \in Items, y \in Items, z \in After}
    \cup {<<x, Plain, Padding(6), Plain, y>> : x \in Special, y \in {Plain, Lui(B, 0)}}
    \* two paddings
    \cup {<<x, Padding(6), y, Padding(2), Plain>> : x \in Items, y \in Items}
    \* assembled in parts without compressed instructions
    \cup {<<Call(F), Padding(4), Plain, Plain>>}
MCObjects == {Build(items) : items \in Sources}

MCOptions ==
  {[rvc |-> TRUE, ComponentMode |-> c, norelax |-> FALSE, pic |-> FALSE] : c \in BOOLEAN}
    \cup {[rvc |-> FALSE, ComponentMode |-> FALSE, norelax |-> b, pic |-> ~ b] : b \in BOOLEAN}

MCHash == [n \in {"a", "b", "f", "g"} |-> IF n \in {"a", "b", "f"} THEN 1 ELSE 0]
MCStrlen == [n \in {"a", "b", "f", "g"} |-> IF n = "b" THEN 4 ELSE 1]
MCExportLists == {<<"f", "g", "f">>}
=============================================================================
