----------------------------- MODULE LinkProofs -----------------------------
(***************************************************************************)
(* Proof that relaxing keeps the code of a section (CodeKept): whatever    *)
(* the sections, options, addresses and reaches are, what the linker       *)
(* deletes is the excess of shortened sequences and nothing else, and      *)
(* relocations and symbols follow the code they belong to.                 *)
(*                                                                         *)
(* The lemmas are about the section, its bytes c, its relocations rs and   *)
(* its symbols ss as values, so that a step only has to name the new ones. *)
(*                                                                         *)
(* And proof that a jump that replaced a call reaches its target (Reach),  *)
(* whatever is deleted after the distance was measured: a deletion takes   *)
(* bytes between code that stays, so that the jump and its target are      *)
(* before or behind it.  Either both move, or the distance shrinks without *)
(* changing its sign, by an even number.                                   *)
(*                                                                         *)
(* And proof that paddings align (Aligned): pass 1 handles them in the     *)
(* order of the code, so that what it deletes at one of them is behind the *)
(* ones it has handled.                                                    *)
(*                                                                         *)
(* And proof that the low parts of an address follow its LUI               *)
(* (LowPartsFollow): the symbols an address near zero or gp may have do    *)
(* not move, so that a sweep decides the same for every reference to one   *)
(* and has come to all of them when it ends.                               *)
(*                                                                         *)
(* And proof of the types of the linker's variables (TypeOK), with the     *)
(* tables of the imports and exports: a name is in a table once, in the    *)
(* bucket of its hash.                                                     *)
(*                                                                         *)
(* And proof that what the linker reserves for the import sections before  *)
(* it relaxes is enough for what it writes after it (ReservedEnough): name *)
(* by name no more words are listed than were counted, because a pair that *)
(* was counted once is still a pair when it is listed.                     *)
(***************************************************************************)
EXTENDS ComponentLink, DataLemmas

-----------------------------------------------------------------------------
(* The invariant                                                           *)

\* What relaxing may make of a relocation of type t.
TypesOf(t) ==
  CASE t = "CALL" -> {"CALL", "JAL", "LO12_I", "GPREL_I", "RVC_JUMP"}
    [] t = "ALIGN" -> {"ALIGN", "NONE"}
    [] t = "RELAX" -> {"RELAX", "LO12_I", "PCREL_LO12_I", "GPREL_I"}
    [] OTHER -> RelocType \ {"CALL", "ALIGN", "RELAX", "JAL", "RVC_JUMP"}

\* KeptLen of a relocation that the assembler wrote as r and that has type t.
KeptBytes(r, t) ==
  CASE t = "NONE" -> 0
    [] t \in {"RVC_LUI", "RVC_JUMP"} -> 2
    [] r.type = "CALL" /\ t \in {"JAL", "LO12_I", "GPREL_I"} -> 4
    [] OTHER -> Footprint(r)

\* r may be what relaxing has made of relocation q of the assembler.
Follows(r, q) ==
  /\ r \in Reloc
  /\ r.type \in TypesOf(q.type)
  /\ r.addend = q.addend
  /\ r.type = "ALIGN" => r.sym = 1

Shaped(ob, c, rs, ss) ==
  /\ ob \in Object /\ WellFormed(ob)
  /\ c \in Seq(Nat)
  /\ rs \in Seq(Reloc) /\ Len(rs) = Len(ob.relocs)
  /\ ss \in Seq(Symbol) /\ Len(ss) = Len(ob.syms)
  /\ \A k \in 1 .. Len(rs) : Follows(rs[k], ob.relocs[k])
  /\ \A s \in 1 .. Len(ss) : ss[s].def = ob.syms[s].def

\* The bytes behind what a relocation q with type t still stands for.
ExcessOf(q, t) == q.offset + KeptBytes(q, t) .. End(q) - 1

CodeIn(ob, c, rs) ==
  /\ Increasing(c)
  /\ \A k \in 1 .. Len(rs) :
       /\ BlockIn(c, rs[k].offset, ob.relocs[k].offset,
                  KeptBytes(ob.relocs[k], rs[k].type))
       /\ PlaceIn(c, rs[k].offset, ob.relocs[k].offset)

SymbolsIn(ob, c, ss) ==
  \A s \in 1 .. Len(ss) :
    ob.syms[s].def = "sec" => AtIn(c, ss[s].value, ob.syms[s].value)

ExcessIn(ob, c, rs) ==
  /\ \A x \in 0 .. ob.size - 1 :
       \/ LeftIn(c, x)
       \/ \E k \in 1 .. Len(rs) : x \in ExcessOf(ob.relocs[k], rs[k].type)
  /\ \A k \in 1 .. Len(rs) :
       ob.relocs[k].type # "ALIGN" =>
         \A x \in ExcessOf(ob.relocs[k], rs[k].type) : ~ LeftIn(c, x)

Kept(ob, c, rs, ss) ==
  CodeIn(ob, c, rs) /\ SymbolsIn(ob, c, ss) /\ ExcessIn(ob, c, rs)

\* The inductive invariant.  CodeKept alone is not inductive: that a deletion
\* takes exactly the excess of its own sequence needs the types relaxing may
\* have given a relocation, and that places without a byte are behind the end.
LinkInv ==
  /\ Shaped(obj, contents, relocs, syms)
  /\ Kept(obj, contents, relocs, syms)
  /\ i \in Nat \ {0}

-----------------------------------------------------------------------------
(* Relocations of the assembler                                            *)

\* What a relocation of the assembler is, on its own.
AsmRelocOf(ob, r) ==
  /\ r \in Reloc /\ r.offset \in Nat
  /\ r.type \in AsmTypes
  /\ Footprint(r) \in Nat
  /\ r.offset < ob.size /\ End(r) <= ob.size
  /\ r.type = "ALIGN" => r.addend \in 1 .. MaxPadding

LEMMA AsmRelocIs ==
  ASSUME NEW ob, NEW r, AsmRelocOf(ob, r)
  PROVE  /\ r \in Reloc /\ r.type \in AsmTypes
         /\ r.offset \in Nat /\ Footprint(r) \in Nat
BY DEF AsmRelocOf

LEMMA AsmReloc ==
  ASSUME NEW ob \in Object, WellFormed(ob), NEW k \in 1 .. Len(ob.relocs)
  PROVE  /\ k \in DOMAIN ob.relocs
         /\ AsmRelocOf(ob, ob.relocs[k])
         /\ ob.relocs[k].type = "ALIGN" => ob.relocs[k].sym = 1
<1>1. ob.relocs \in Seq(Reloc)
  BY DEF Object
<1>2. k \in DOMAIN ob.relocs /\ ob.relocs[k] \in Reloc
  BY <1>1, LenProperties
<1>3. Placed(ob, ob.relocs[k])
  BY <1>2 DEF WellFormed
<1>4. ASSUME NEW r \in Reloc, Placed(ob, r) PROVE AsmRelocOf(ob, r)
  <2>1. r.offset \in Nat /\ Footprint(r) \in Nat
    BY DEF Footprint, Reloc
  <2> QED
    BY <1>4, <2>1 DEF Placed, AsmRelocOf
<1>5. ASSUME NEW r, Placed(ob, r) PROVE r.type = "ALIGN" => r.sym = 1
  BY <1>5 DEF Placed
<1> QED
  BY <1>2, <1>3, <1>4, <1>5

LEMMA KeptBytesRange ==
  ASSUME NEW q \in Reloc, q.type \in AsmTypes, NEW t \in TypesOf(q.type)
  PROVE  KeptBytes(q, t) \in 0 .. Footprint(q)
<1>1. q.addend \in Nat
  BY DEF Reloc
<1>2. CASE q.type = "CALL"
  BY <1>2 DEF KeptBytes, TypesOf, Footprint
<1>3. CASE q.type = "ALIGN"
  BY <1>1, <1>3 DEF KeptBytes, TypesOf, Footprint
<1>4. CASE q.type = "RELAX"
  BY <1>4 DEF KeptBytes, TypesOf, Footprint
<1>5. CASE q.type \notin {"CALL", "ALIGN", "RELAX"}
  <2>1. t \notin {"RVC_JUMP", "JAL"} /\ Footprint(q) = 4
    BY <1>5 DEF TypesOf, Footprint
  <2> QED
    BY <1>5, <2>1 DEF KeptBytes
<1> QED
  BY <1>2, <1>3, <1>4, <1>5

\* Nothing changes before a relocation is relaxed.
LEMMA AsmKeeps ==
  ASSUME NEW q \in Reloc, q.type \in AsmTypes
  PROVE  q.type \in TypesOf(q.type) /\ KeptBytes(q, q.type) = Footprint(q)
<1>1. q.type \notin {"NONE", "RVC_LUI", "RVC_JUMP", "JAL", "GPREL_I"}
  BY DEF AsmTypes, LuiTypes, TlsTypes, PcrelTypes
<1>2. q.type \in RelocType
  BY DEF RelocType
<1> QED
  BY <1>1, <1>2 DEF TypesOf, KeptBytes, Footprint, LuiTypes

\* The code of two relocations is apart.
LEMMA Apart ==
  ASSUME NEW ob \in Object, WellFormed(ob), NEW k \in 1 .. Len(ob.relocs),
         NEW l \in 1 .. Len(ob.relocs), k # l, Footprint(ob.relocs[k]) > 0
  PROVE  LET r == ob.relocs[k]
             q == ob.relocs[l]
         IN \/ q.offset + Footprint(q) <= r.offset /\ q.offset <= r.offset
            \/ q.offset >= End(r)
<1>1. ASSUME NEW r, AsmRelocOf(ob, r), NEW q, AsmRelocOf(ob, q),
             Beside(q, r), Beside(r, q), Footprint(r) > 0
      PROVE  \/ q.offset + Footprint(q) <= r.offset /\ q.offset <= r.offset
             \/ q.offset >= End(r)
  <2>1. /\ r.offset \in Nat /\ Footprint(r) \in Nat
        /\ q.offset \in Nat /\ Footprint(q) \in Nat
    BY <1>1 DEF AsmRelocOf
  <2>2. r.type # "RELAX" /\ (q.type = "RELAX" => Footprint(q) = 0)
    BY <1>1 DEF Footprint
  <2>3. CASE q.offset = r.offset
    <3>1. Footprint(q) = 0
      BY <1>1, <2>2, <2>3 DEF Beside
    <3> QED
      BY <2>1, <2>3, <3>1
  <2>4. CASE q.offset # r.offset
    BY <1>1, <2>1, <2>4 DEF Beside, Outside, End
  <2> QED
    BY <2>3, <2>4
<1>2. /\ k \in DOMAIN ob.relocs /\ AsmRelocOf(ob, ob.relocs[k])
      /\ l \in DOMAIN ob.relocs /\ AsmRelocOf(ob, ob.relocs[l])
  BY AsmReloc
<1>3. Beside(ob.relocs[l], ob.relocs[k]) /\ Beside(ob.relocs[k], ob.relocs[l])
  BY <1>2 DEF WellFormed
<1> QED
  BY <1>1, <1>2, <1>3

-----------------------------------------------------------------------------
(* One deletion                                                            *)

\* What moving a relocation changes.
LEMMA MovedRelocIs ==
  ASSUME NEW r \in Reloc, NEW a \in Nat, NEW n \in Nat, NEW l \in Nat,
         (IF r.offset > a /\ r.offset < l THEN r.offset - n ELSE r.offset) \in Nat
  PROVE  LET t == MovedReloc(r, a, n, l)
         IN /\ t \in Reloc
            /\ t.offset = IF r.offset > a /\ r.offset < l THEN r.offset - n
                          ELSE r.offset
            /\ t.type = r.type /\ t.addend = r.addend /\ t.sym = r.sym
BY DEF MovedReloc, Reloc

\* d is the code c without n bytes, the ones from byte b on, at place a.
CodeCut(d, c, a, n, b) ==
  /\ c \in Seq(Nat) /\ Increasing(c)
  /\ a \in Nat /\ n \in Nat /\ b \in Nat
  /\ a + n <= Len(c) /\ BlockIn(c, a, b, n)
  /\ IsCut(d, c, a, n)

\* A relocation, written as q, outside of what is deleted follows its code.
LEMMA RelocFollowsCut ==
  ASSUME NEW c, NEW a, NEW n, NEW b, NEW d, CodeCut(d, c, a, n, b),
         NEW r \in Reloc, NEW o \in Nat, NEW m \in Nat,
         BlockIn(c, r.offset, o, m), PlaceIn(c, r.offset, o),
         o + m <= b \/ o >= b + n, o <= b \/ o >= b + n
  PROVE  LET t == MovedReloc(r, a, n, Len(c))
         IN /\ t \in Reloc /\ t.type = r.type /\ t.addend = r.addend
            /\ t.sym = r.sym
            /\ BlockIn(d, t.offset, o, m) /\ PlaceIn(d, t.offset, o)
<1>c. /\ c \in Seq(Nat) /\ Increasing(c)
      /\ a \in Nat /\ n \in Nat /\ b \in Nat
      /\ a + n <= Len(c) /\ BlockIn(c, a, b, n)
      /\ IsCut(d, c, a, n)
  BY DEF CodeCut
<1> DEFINE p == IF r.offset > a /\ r.offset < Len(c) THEN r.offset - n
                ELSE r.offset
<1>0. r.offset \in Nat /\ Len(c) \in Nat
  BY <1>c, LenProperties DEF Reloc
<1>1. p \in Nat /\ PlaceIn(d, p, o)
  BY <1>c, <1>0, CutReloc
<1>2. BlockIn(d, p, o, m)
  BY <1>c, <1>0, CutBlock
<1> QED
  BY <1>c, <1>0, <1>1, <1>2, MovedRelocIs

\* A symbol, written with value x, outside of what is deleted follows too.
LEMMA SymbolFollowsCut ==
  ASSUME NEW c, NEW a, NEW n, NEW b, NEW d, CodeCut(d, c, a, n, b),
         NEW y \in Symbol, NEW x \in Nat,
         y.def = "sec" => AtIn(c, y.value, x) /\ (x <= b \/ x >= b + n)
  PROVE  LET t == MovedSymbol(y, a, n, Len(c))
         IN /\ t \in Symbol /\ t.def = y.def
            /\ t.def = "sec" => AtIn(d, t.value, x)
<1>c. /\ c \in Seq(Nat) /\ Increasing(c)
      /\ a \in Nat /\ n \in Nat /\ b \in Nat
      /\ a + n <= Len(c) /\ BlockIn(c, a, b, n)
      /\ IsCut(d, c, a, n)
  BY DEF CodeCut
<1> DEFINE t == MovedSymbol(y, a, n, Len(c))
<1>0. y.value \in Nat /\ y.size \in Int /\ Len(c) \in Nat
  BY <1>c, LenProperties DEF Symbol
<1>1. CASE y.def # "sec"
  BY <1>1 DEF MovedSymbol
<1>2. CASE y.def = "sec"
  <2> DEFINE v == IF y.value > a THEN y.value - n ELSE y.value
             z == IF /\ v <= a
                     /\ v + y.size > a
                     /\ v + y.size <= Len(c) THEN y.size - n ELSE y.size
  <2>1. y.value <= a \/ y.value >= a + n
    BY <1>c, <1>0, <1>2, CutPlace
  <2>2. AtIn(d, v, x)
    BY <1>c, <1>0, <1>2, <2>1, CutAt
  <2>3. v \in Nat /\ z \in Int
    BY <1>c, <1>0, <2>1
  <2>4. y.value <= Len(c)
    BY <1>c, <1>0, <1>2 DEF AtIn
  <2>5. t = [y EXCEPT !.value = v, !.size = z]
    BY <1>2, <2>4 DEF MovedSymbol
  <2> HIDE DEF v, z, t
  <2>6. t \in Symbol /\ t.def = y.def /\ t.value = v
    BY <2>3, <2>5 DEF Symbol
  <2> QED
    BY <2>2, <2>6 DEF t
<1> QED
  BY <1>1, <1>2

\* Relocation k, not shortened so far, becomes r and keeps len bytes.
Shortening(ob, rs, k, len, r) ==
  LET q == ob.relocs[k]
  IN /\ k \in 1 .. Len(rs)
     /\ len \in Nat /\ len < Footprint(q)
     /\ KeptBytes(q, rs[k].type) = Footprint(q)
     /\ Follows(r, q) /\ r.offset = rs[k].offset
     /\ \/ KeptBytes(q, r.type) = len
        \/ q.type = "ALIGN" /\ KeptBytes(q, r.type) = 0

LEMMA BlockPart ==
  ASSUME NEW c \in Seq(Nat), NEW p \in Nat, NEW o \in Nat, NEW m \in Nat,
         BlockIn(c, p, o, m), NEW len \in Nat, len < m
  PROVE  /\ p + len + (m - len) <= Len(c)
         /\ BlockIn(c, p + len, o + len, m - len)
<1>0. Len(c) \in Nat
  BY LenProperties
<1>1. p + m \in p + 1 .. p + m
  OBVIOUS
<1>2. p + m <= Len(c)
  BY <1>1 DEF BlockIn
<1>3. ASSUME NEW j \in p + len + 1 .. p + len + (m - len)
      PROVE  j <= Len(c) /\ c[j] = o + len + (j - (p + len) - 1)
  <2>1. j \in p + 1 .. p + m /\ o + len + (j - (p + len) - 1) = o + (j - p - 1)
    OBVIOUS
  <2>2. j <= Len(c) /\ c[j] = o + (j - p - 1)
    BY <2>1 DEF BlockIn
  <2> QED
    BY <2>1, <2>2
<1> QED
  BY <1>0, <1>2, <1>3 DEF BlockIn

\* What the deletion takes is the end of the code of relocation k.
LEMMA Deleted ==
  ASSUME NEW ob, NEW c, NEW rs, NEW ss, Shaped(ob, c, rs, ss),
         CodeIn(ob, c, rs), NEW k, NEW len, NEW r, Shortening(ob, rs, k, len, r)
  PROVE  LET q == ob.relocs[k]
             a == r.offset + len
             b == q.offset + len
             n == Footprint(q) - len
         IN /\ k \in 1 .. Len(ob.relocs) /\ AsmRelocOf(ob, q) /\ r \in Reloc
            /\ r.offset \in Nat /\ len \in Nat
            /\ a \in Nat /\ n \in Nat /\ n > 0 /\ b \in Nat
            /\ b + n = End(q)
            /\ a + n <= Len(c) /\ BlockIn(c, a, b, n)
            /\ BlockIn(c, r.offset, q.offset, Footprint(q))
            /\ PlaceIn(c, r.offset, q.offset)
<1> DEFINE q == ob.relocs[k]
<1>1. /\ k \in 1 .. Len(rs) /\ Len(rs) = Len(ob.relocs)
      /\ ob \in Object /\ WellFormed(ob) /\ c \in Seq(Nat)
  BY DEF Shaped, Shortening
<1>2. AsmRelocOf(ob, q)
  BY <1>1, AsmReloc
<1>3. /\ len \in Nat /\ len < Footprint(q) /\ r \in Reloc
      /\ r.offset = rs[k].offset
      /\ KeptBytes(q, rs[k].type) = Footprint(q)
  BY DEF Shortening, Follows
<1>4. r.offset \in Nat
  BY <1>3 DEF Reloc
<1>5. /\ BlockIn(c, r.offset, q.offset, Footprint(q))
      /\ PlaceIn(c, r.offset, q.offset)
  BY <1>1, <1>3 DEF CodeIn
<1> HIDE DEF q
<1>6. q.offset \in Nat /\ Footprint(q) \in Nat
  BY <1>2 DEF AsmRelocOf
<1>7. /\ r.offset + len + (Footprint(q) - len) <= Len(c)
      /\ BlockIn(c, r.offset + len, q.offset + len, Footprint(q) - len)
  BY <1>1, <1>3, <1>4, <1>5, <1>6, BlockPart
<1>8. q.offset + len + (Footprint(q) - len) = End(q)
  BY <1>3, <1>6 DEF End
<1>9. /\ r.offset + len \in Nat /\ q.offset + len \in Nat
      /\ Footprint(q) - len \in Nat /\ Footprint(q) - len > 0
  BY <1>3, <1>4, <1>6
<1> QED
  BY <1>1, <1>2, <1>3, <1>4, <1>5, <1>7, <1>8, <1>9 DEF q

\* The relocation whose code is cut keeps the m first bytes of it.
LEMMA RelocCut ==
  ASSUME NEW c, NEW a, NEW n, NEW b, NEW d, CodeCut(d, c, a, n, b),
         NEW r \in Reloc, NEW o \in Nat, NEW len \in Nat, NEW m \in 0 .. len,
         a = r.offset + len, b = o + len, NEW f \in Nat, len <= f,
         BlockIn(c, r.offset, o, f), PlaceIn(c, r.offset, o)
  PROVE  /\ MovedReloc(r, a, n, Len(c)) = r
         /\ BlockIn(d, r.offset, o, m) /\ PlaceIn(d, r.offset, o)
<1>c. /\ c \in Seq(Nat) /\ Increasing(c)
      /\ a \in Nat /\ n \in Nat /\ b \in Nat
      /\ a + n <= Len(c) /\ BlockIn(c, a, b, n)
      /\ IsCut(d, c, a, n)
  BY DEF CodeCut
<1>0. r.offset \in Nat /\ r.offset <= a /\ o <= b
  <2>1. r.offset \in Nat
    BY DEF Reloc
  <2> QED
    BY <1>c, <2>1
<1>1. MovedReloc(r, a, n, Len(c)) = r
  BY <1>c, <1>0 DEF MovedReloc
<1>2. PlaceIn(d, r.offset, o)
  <2>1. BlockIn(c, r.offset, o, 0) /\ o + 0 <= b
    BY <1>c, <1>0 DEF BlockIn
  <2>2. PlaceIn(d, MovedReloc(r, a, n, Len(c)).offset, o)
    BY <1>c, <1>0, <2>1, RelocFollowsCut
  <2> QED
    BY <1>1, <2>2
<1>3. BlockIn(d, r.offset, o, m)
  <2>1. m \in Nat /\ m <= f /\ r.offset + m <= a
    BY <1>c, <1>0
  <2> QED
    BY <1>c, <1>0, <2>1, CutPrefix
<1> QED
  BY <1>1, <1>2, <1>3

\* What is cut is not the code of another relocation.
LEMMA BesideCut ==
  ASSUME NEW p \in Nat, NEW f \in Nat, NEW m \in 0 .. f, NEW o \in Nat,
         NEW b \in Nat, o <= b, NEW n \in Nat,
         (p + f <= o /\ p <= o) \/ p >= b + n
  PROVE  (p + m <= b \/ p >= b + n) /\ (p <= b \/ p >= b + n)
OBVIOUS

\* Where the relocations are after the deletion.
RelocAfter(ob, c, rs, k, len, r, l) ==
  MovedReloc(IF l = k THEN r ELSE rs[l], r.offset + len,
             Footprint(ob.relocs[k]) - len, Len(c))

LEMMA RelocsAfter ==
  ASSUME NEW ob, NEW c, NEW rs, NEW ss, Shaped(ob, c, rs, ss),
         CodeIn(ob, c, rs), NEW k, NEW len, NEW r, Shortening(ob, rs, k, len, r),
         NEW d, IsCut(d, c, r.offset + len, Footprint(ob.relocs[k]) - len),
         NEW l \in 1 .. Len(rs)
  PROVE  LET q == ob.relocs[l]
             t == RelocAfter(ob, c, rs, k, len, r, l)
         IN /\ Follows(t, q)
            /\ t.type = (IF l = k THEN r.type ELSE rs[l].type)
            /\ BlockIn(d, t.offset, q.offset, KeptBytes(q, t.type))
            /\ PlaceIn(d, t.offset, q.offset)
<1> DEFINE o == ob.relocs[k]
           q == ob.relocs[l]
           a == r.offset + len
           b == o.offset + len
           n == Footprint(o) - len
           t == RelocAfter(ob, c, rs, k, len, r, l)
<1>1. /\ k \in 1 .. Len(ob.relocs) /\ AsmRelocOf(ob, o) /\ r \in Reloc
      /\ r.offset \in Nat /\ len \in Nat
      /\ a \in Nat /\ n \in Nat /\ n > 0 /\ b \in Nat
      /\ b + n = End(o)
      /\ a + n <= Len(c) /\ BlockIn(c, a, b, n)
      /\ BlockIn(c, r.offset, o.offset, Footprint(o))
      /\ PlaceIn(c, r.offset, o.offset)
  BY Deleted
<1>2. /\ ob \in Object /\ WellFormed(ob) /\ c \in Seq(Nat) /\ Increasing(c)
      /\ Len(rs) = Len(ob.relocs) /\ Follows(rs[l], q)
      /\ BlockIn(c, rs[l].offset, q.offset, KeptBytes(q, rs[l].type))
      /\ PlaceIn(c, rs[l].offset, q.offset)
  BY DEF Shaped, CodeIn
<1>3. AsmRelocOf(ob, q)
  BY <1>2, AsmReloc
<1>4. /\ Follows(r, o) /\ len < Footprint(o)
      /\ \/ KeptBytes(o, r.type) = len
         \/ o.type = "ALIGN" /\ KeptBytes(o, r.type) = 0
  BY DEF Shortening
<1>5. /\ o.offset \in Nat /\ Footprint(o) \in Nat
      /\ q.offset \in Nat /\ Footprint(q) \in Nat
      /\ q \in Reloc /\ q.type \in AsmTypes
  <2> HIDE DEF o, q
  <2> QED
    BY <1>1, <1>3 DEF AsmRelocOf
<1>6. o.offset <= b /\ Footprint(o) > 0 /\ a = r.offset + len /\ b = o.offset + len
  <2>1. a = r.offset + len /\ b = o.offset + len
    OBVIOUS
  <2>2. len \in Nat /\ len < Footprint(o)
    BY <1>1, <1>4
  <2> HIDE DEF o, a, b, n
  <2>3. Footprint(o) > 0
    BY <1>5, <2>2
  <2>4. o.offset <= b
    BY <1>5, <2>1, <2>2
  <2> QED
    BY <2>1, <2>3, <2>4
<1>7. l # k => \/ q.offset + Footprint(q) <= o.offset /\ q.offset <= o.offset
               \/ q.offset >= b + n
  BY <1>1, <1>2, <1>6, Apart
<1>8. IsCut(d, c, a, n)
  OBVIOUS
<1>9. (l = k => q = o) /\ t = MovedReloc(IF l = k THEN r ELSE rs[l], a, n, Len(c))
  BY DEF RelocAfter
<1> HIDE DEF o, q, a, b, n, t
<1>c. CodeCut(d, c, a, n, b) /\ b \in Nat /\ n \in Nat
  <2>1. /\ a \in Nat /\ n \in Nat /\ b \in Nat
        /\ a + n <= Len(c) /\ BlockIn(c, a, b, n)
    BY <1>1
  <2>2. c \in Seq(Nat) /\ Increasing(c)
    BY <1>2
  <2> QED
    BY <1>8, <2>1, <2>2 DEF CodeCut
<1>10. CASE l = k
  <2>1. KeptBytes(o, r.type) \in 0 .. len
    BY <1>1, <1>4
  <2>2. len <= Footprint(o)
    BY <1>1, <1>4, <1>5
  <2>3. /\ r \in Reloc /\ len \in Nat
        /\ BlockIn(c, r.offset, o.offset, Footprint(o))
        /\ PlaceIn(c, r.offset, o.offset)
    BY <1>1
  <2>4. /\ a = r.offset + len /\ b = o.offset + len
        /\ o.offset \in Nat /\ Footprint(o) \in Nat
    BY <1>5, <1>6
  <2> DEFINE m == KeptBytes(o, r.type)
  <2> HIDE DEF m
  <2>5. /\ MovedReloc(r, a, n, Len(c)) = r
        /\ BlockIn(d, r.offset, o.offset, m) /\ PlaceIn(d, r.offset, o.offset)
    <3>1. m \in 0 .. len
      BY <2>1 DEF m
    <3> QED
      BY <1>c, <2>2, <2>3, <2>4, <3>1, RelocCut
  <2>6. q = o /\ t = r
    BY <1>9, <1>10, <2>5
  <2>7. Follows(r, o)
    BY <1>4
  <2> QED
    BY <1>10, <2>5, <2>6, <2>7 DEF m, q, t
<1>11. CASE l # k
  <2>1. /\ rs[l] \in Reloc /\ rs[l].type \in TypesOf(q.type)
        /\ rs[l].addend = q.addend
        /\ rs[l].type = "ALIGN" => rs[l].sym = 1
    BY <1>2 DEF Follows
  <2> DEFINE m == KeptBytes(q, rs[l].type)
  <2>2. m \in 0 .. Footprint(q) /\ m \in Nat
    BY <1>5, <2>1, KeptBytesRange
  <2> HIDE DEF m
  <2>3. /\ q.offset + m <= b \/ q.offset >= b + n
        /\ q.offset <= b \/ q.offset >= b + n
    <3>1. (q.offset + Footprint(q) <= o.offset /\ q.offset <= o.offset) \/ q.offset >= b + n
      BY <1>7, <1>11
    <3>2. q.offset \in Nat /\ Footprint(q) \in Nat /\ o.offset \in Nat /\ o.offset <= b
      BY <1>5, <1>6
    <3> QED
      BY <1>c, <2>2, <3>1, <3>2, BesideCut
  <2>4. t = MovedReloc(rs[l], a, n, Len(c))
    BY <1>9, <1>11
  <2>5. BlockIn(c, rs[l].offset, q.offset, m)
    BY <1>2 DEF m
  <2>6. /\ t \in Reloc /\ t.type = rs[l].type /\ t.addend = rs[l].addend
        /\ t.sym = rs[l].sym
        /\ BlockIn(d, t.offset, q.offset, m) /\ PlaceIn(d, t.offset, q.offset)
    <3>1. q.offset \in Nat /\ rs[l] \in Reloc /\ m \in Nat
      BY <1>5, <2>1, <2>2
    <3>2. PlaceIn(c, rs[l].offset, q.offset)
      BY <1>2
    <3> QED
      BY <1>c, <2>3, <2>4, <2>5, <3>1, <3>2, RelocFollowsCut
  <2>7. Follows(t, q) /\ m = KeptBytes(q, t.type)
    BY <2>1, <2>6 DEF Follows, m
  <2>8. t.type = (IF l = k THEN r.type ELSE rs[l].type)
    BY <1>11, <2>6
  <2> QED
    BY <2>6, <2>7, <2>8 DEF q, t
<1> QED
  BY <1>10, <1>11 DEF q, t

\* The cut of a shortening.
LEMMA ShorteningCut ==
  ASSUME NEW ob, NEW c, NEW rs, NEW ss, Shaped(ob, c, rs, ss),
         CodeIn(ob, c, rs), NEW k, NEW len, NEW r, Shortening(ob, rs, k, len, r),
         NEW d, IsCut(d, c, r.offset + len, Footprint(ob.relocs[k]) - len)
  PROVE  LET q == ob.relocs[k]
             n == Footprint(q) - len
             b == q.offset + len
         IN /\ CodeCut(d, c, r.offset + len, n, b)
            /\ q.offset \in Nat /\ len \in Nat /\ n \in Nat /\ b \in Nat
            /\ b + n = End(q) /\ k \in 1 .. Len(ob.relocs)
            /\ q.offset <= b /\ r.offset + len + n <= Len(c)
<1> DEFINE q == ob.relocs[k]
           a == r.offset + len
           n == Footprint(q) - len
           b == q.offset + len
<1>1. /\ k \in 1 .. Len(ob.relocs) /\ AsmRelocOf(ob, q) /\ len \in Nat
      /\ a \in Nat /\ n \in Nat /\ b \in Nat /\ b + n = End(q)
      /\ a + n <= Len(c) /\ BlockIn(c, a, b, n)
  BY Deleted
<1>2. c \in Seq(Nat) /\ Increasing(c)
  BY DEF Shaped, CodeIn
<1>3. IsCut(d, c, a, n) /\ b = q.offset + len
  OBVIOUS
<1> HIDE DEF q, a, n, b
<1>4. q.offset \in Nat
  BY <1>1 DEF AsmRelocOf
<1>5. CodeCut(d, c, a, n, b)
  BY <1>1, <1>2, <1>3 DEF CodeCut
<1>6. q.offset <= b
  BY <1>1, <1>3, <1>4
<1> QED
  BY <1>1, <1>4, <1>5, <1>6 DEF q, a, n, b

\* Where the symbols are after the deletion.
LEMMA SymbolsAfter ==
  ASSUME NEW ob, NEW c, NEW rs, NEW ss, Shaped(ob, c, rs, ss),
         CodeIn(ob, c, rs), SymbolsIn(ob, c, ss),
         NEW k, NEW len, NEW r, Shortening(ob, rs, k, len, r),
         NEW d, IsCut(d, c, r.offset + len, Footprint(ob.relocs[k]) - len),
         NEW s \in 1 .. Len(ss)
  PROVE  LET t == MovedSymbol(ss[s], r.offset + len,
                              Footprint(ob.relocs[k]) - len, Len(c))
         IN /\ t \in Symbol /\ t.def = ob.syms[s].def
            /\ ob.syms[s].def = "sec" => AtIn(d, t.value, ob.syms[s].value)
<1> DEFINE q == ob.relocs[k]
           a == r.offset + len
           n == Footprint(q) - len
           b == q.offset + len
           y == ss[s]
           x == ob.syms[s].value
<1>1. /\ CodeCut(d, c, a, n, b)
      /\ q.offset \in Nat /\ b \in Nat /\ n \in Nat
      /\ b + n = End(q) /\ k \in 1 .. Len(ob.relocs) /\ q.offset <= b
  BY ShorteningCut
<1>2. /\ ob \in Object /\ WellFormed(ob) /\ Len(ss) = Len(ob.syms)
      /\ ss \in Seq(Symbol) /\ y.def = ob.syms[s].def
  BY DEF Shaped
<1>3. /\ k \in DOMAIN ob.relocs /\ s \in DOMAIN ob.syms
      /\ ob.syms[s] \in Symbol /\ y \in Symbol
  <2>1. ob.relocs \in Seq(Reloc) /\ ob.syms \in Seq(Symbol)
    BY <1>2 DEF Object
  <2>2. DOMAIN ob.relocs = 1 .. Len(ob.relocs) /\ DOMAIN ob.syms = 1 .. Len(ob.syms)
    BY <2>1, LenProperties
  <2>3. ob.syms[s] \in Symbol /\ y \in Symbol
    BY <1>2, <2>1, ElementOfSeq
  <2> QED
    BY <1>1, <1>2, <2>2, <2>3
<1>4. x \in Nat
  BY <1>3 DEF Symbol
<1>5. y.def = "sec" => AtIn(c, y.value, x) /\ Outside(x, q)
  <2>1. SUFFICES ASSUME ob.syms[s].def = "sec" PROVE AtIn(c, y.value, x) /\ Outside(x, q)
    BY <1>2
  <2>2. Label(ob, ob.syms[s])
    BY <1>2, <1>3, <2>1 DEF WellFormed
  <2>3. Outside(x, q)
    BY <1>3, <2>2 DEF Label
  <2> QED
    BY <2>1, <2>3 DEF SymbolsIn
<1> HIDE DEF q, a, n, b, y, x
<1>6. y.def = "sec" => AtIn(c, y.value, x) /\ (x <= b \/ x >= b + n)
  BY <1>1, <1>4, <1>5 DEF Outside
<1> DEFINE t == MovedSymbol(y, a, n, Len(c))
<1>7. /\ t \in Symbol /\ t.def = y.def
      /\ t.def = "sec" => AtIn(d, t.value, x)
  BY <1>1, <1>3, <1>4, <1>6, SymbolFollowsCut
<1> HIDE DEF t
<1>8. t.def = ob.syms[s].def
  BY <1>2, <1>7
<1> QED
  BY <1>7, <1>8 DEF q, a, n, y, x, t

\* What is gone after the deletion, ts being the relocations then.
LEMMA ExcessAfter ==
  ASSUME NEW ob, NEW c, NEW rs, NEW ss, Shaped(ob, c, rs, ss),
         CodeIn(ob, c, rs), ExcessIn(ob, c, rs),
         NEW k, NEW len, NEW r, Shortening(ob, rs, k, len, r),
         NEW d, IsCut(d, c, r.offset + len, Footprint(ob.relocs[k]) - len),
         NEW ts, Len(ts) = Len(rs),
         \A l \in 1 .. Len(rs) : ts[l].type = IF l = k THEN r.type ELSE rs[l].type
  PROVE  ExcessIn(ob, d, ts)
<1> DEFINE q == ob.relocs[k]
           a == r.offset + len
           n == Footprint(q) - len
           b == q.offset + len
<1>1. /\ CodeCut(d, c, a, n, b)
      /\ q.offset \in Nat /\ b \in Nat /\ n \in Nat /\ len \in Nat
      /\ b + n = End(q) /\ q.offset <= b
  BY ShorteningCut
<1>2. /\ b = q.offset + len /\ n = Footprint(q) - len
      /\ k \in 1 .. Len(rs) /\ len < Footprint(q)
      /\ KeptBytes(q, rs[k].type) = Footprint(q)
      /\ \/ KeptBytes(q, r.type) = len
         \/ q.type = "ALIGN" /\ KeptBytes(q, r.type) = 0
  BY DEF Shortening
<1>3. /\ ob.size \in Nat
      /\ \A x \in 0 .. ob.size - 1 :
           \/ LeftIn(c, x)
           \/ \E l \in 1 .. Len(rs) : x \in ExcessOf(ob.relocs[l], rs[l].type)
      /\ \A l \in 1 .. Len(rs) :
           ob.relocs[l].type # "ALIGN" =>
             \A x \in ExcessOf(ob.relocs[l], rs[l].type) : ~ LeftIn(c, x)
  BY DEF ExcessIn, Shaped, Object
<1>4. AsmRelocOf(ob, q)
  BY Deleted
<1>5. q = ob.relocs[k]
  OBVIOUS
<1> HIDE DEF q, a, n, b
<1>6. Footprint(q) \in Nat
  BY <1>4 DEF AsmRelocOf
<1>7. ASSUME NEW x \in Nat
      PROVE  LeftIn(d, x) <=> LeftIn(c, x) /\ x \notin b .. b + n - 1
  BY <1>1, CutLeft DEF CodeCut
<1>8. ASSUME NEW x \in Nat PROVE x \notin ExcessOf(q, rs[k].type)
  BY <1>1, <1>2, <1>6 DEF ExcessOf, End
<1>9. ASSUME NEW x \in Nat, x \in b .. b + n - 1 PROVE x \in ExcessOf(q, r.type)
  <2>1. q.offset + KeptBytes(q, r.type) <= b /\ KeptBytes(q, r.type) \in Nat
    BY <1>1, <1>2
  <2> QED
    BY <1>1, <1>9, <2>1 DEF ExcessOf
<1>10. ASSUME NEW x \in ExcessOf(q, r.type), q.type # "ALIGN"
       PROVE  x \in Nat /\ x \in b .. b + n - 1
  BY <1>1, <1>2, <1>10 DEF ExcessOf
<1>11. ASSUME NEW l \in 1 .. Len(rs), NEW x \in ExcessOf(ob.relocs[l], ts[l].type)
       PROVE  x \in Nat
  <2>1. /\ AsmRelocOf(ob, ob.relocs[l])
        /\ ts[l].type \in TypesOf(ob.relocs[l].type)
    <3>1. Follows(rs[l], ob.relocs[l]) /\ (l = k => Follows(r, ob.relocs[l]))
      BY DEF Shaped, Shortening
    <3>2. ob \in Object /\ WellFormed(ob) /\ l \in 1 .. Len(ob.relocs)
      BY DEF Shaped
    <3>3. AsmRelocOf(ob, ob.relocs[l])
      BY <3>2, AsmReloc
    <3> QED
      BY <3>1, <3>3 DEF Follows
  <2>2. KeptBytes(ob.relocs[l], ts[l].type) \in Nat
    <3>1. /\ ob.relocs[l] \in Reloc /\ ob.relocs[l].type \in AsmTypes
          /\ Footprint(ob.relocs[l]) \in Nat
      BY <2>1, AsmRelocIs
    <3> QED
      BY <2>1, <3>1, KeptBytesRange
  <2>3. ob.relocs[l].offset \in Nat /\ Footprint(ob.relocs[l]) \in Nat
    BY <2>1, AsmRelocIs
  <2> QED
    BY <2>2, <2>3 DEF ExcessOf, End
<1>12. ASSUME NEW x \in 0 .. ob.size - 1
       PROVE  \/ LeftIn(d, x)
              \/ \E l \in 1 .. Len(ts) : x \in ExcessOf(ob.relocs[l], ts[l].type)
  <2>0. x \in Nat
    BY <1>3
  <2>1. CASE x \in b .. b + n - 1
    <3>1. x \in ExcessOf(ob.relocs[k], ts[k].type)
      BY <1>2, <1>5, <1>9, <2>0, <2>1
    <3> QED
      BY <1>2, <3>1
  <2>2. CASE x \notin b .. b + n - 1 /\ LeftIn(c, x)
    BY <1>7, <2>0, <2>2
  <2>3. CASE \E l \in 1 .. Len(rs) : x \in ExcessOf(ob.relocs[l], rs[l].type)
    <3>1. PICK l \in 1 .. Len(rs) : x \in ExcessOf(ob.relocs[l], rs[l].type)
      BY <2>3
    <3>2. l # k
      BY <1>5, <1>8, <2>0, <3>1
    <3>3. ts[l].type = rs[l].type
      BY <3>2
    <3> QED
      BY <3>1, <3>3
  <2> QED
    BY <1>3, <2>1, <2>2, <2>3
<1>13. ASSUME NEW l \in 1 .. Len(ts), ob.relocs[l].type # "ALIGN",
              NEW x \in ExcessOf(ob.relocs[l], ts[l].type)
       PROVE  ~ LeftIn(d, x)
  <2>0. x \in Nat
    BY <1>11
  <2>1. CASE l = k
    <3>1. x \in ExcessOf(q, r.type) /\ q.type # "ALIGN"
      BY <1>5, <1>13, <2>1
    <3> QED
      BY <1>7, <1>10, <2>0, <3>1
  <2>2. CASE l # k
    <3>1. x \in ExcessOf(ob.relocs[l], rs[l].type)
      BY <2>2
    <3>2. ~ LeftIn(c, x)
      BY <1>3, <1>13, <3>1
    <3> QED
      BY <1>7, <2>0, <3>2
  <2> QED
    BY <2>1, <2>2
<1> QED
  BY <1>12, <1>13 DEF ExcessIn

\* A deletion that shortens one relocation keeps the code.
Deletes(ob, c, rs, ss, k, len, r, d, ts, us) ==
  /\ Shortening(ob, rs, k, len, r)
  /\ d \in Seq(Nat)
  /\ IsCut(d, c, r.offset + len, Footprint(ob.relocs[k]) - len)
  /\ ts = [l \in 1 .. Len(rs) |-> RelocAfter(ob, c, rs, k, len, r, l)]
  /\ us = [s \in 1 .. Len(ss) |->
             MovedSymbol(ss[s], r.offset + len,
                         Footprint(ob.relocs[k]) - len, Len(c))]

LEMMA DeleteKeeps ==
  ASSUME NEW ob, NEW c, NEW rs, NEW ss, Shaped(ob, c, rs, ss),
         Kept(ob, c, rs, ss), NEW k, NEW len, NEW r, NEW d, NEW ts, NEW us,
         Deletes(ob, c, rs, ss, k, len, r, d, ts, us)
  PROVE  Shaped(ob, d, ts, us) /\ Kept(ob, d, ts, us)
<1>0. /\ Shortening(ob, rs, k, len, r)
      /\ d \in Seq(Nat)
      /\ IsCut(d, c, r.offset + len, Footprint(ob.relocs[k]) - len)
      /\ ts = [l \in 1 .. Len(rs) |-> RelocAfter(ob, c, rs, k, len, r, l)]
      /\ us = [s \in 1 .. Len(ss) |->
                 MovedSymbol(ss[s], r.offset + len,
                             Footprint(ob.relocs[k]) - len, Len(c))]
  BY DEF Deletes
<1>1. /\ CodeIn(ob, c, rs) /\ SymbolsIn(ob, c, ss) /\ ExcessIn(ob, c, rs)
      /\ ob \in Object /\ WellFormed(ob) /\ c \in Seq(Nat) /\ Increasing(c)
      /\ rs \in Seq(Reloc) /\ Len(rs) = Len(ob.relocs)
      /\ ss \in Seq(Symbol) /\ Len(ss) = Len(ob.syms)
  BY DEF Kept, Shaped, CodeIn
<1>2. Len(rs) \in Nat /\ Len(ss) \in Nat
  BY <1>1, LenProperties
<1>3. \A l \in 1 .. Len(rs) : ts[l] = RelocAfter(ob, c, rs, k, len, r, l)
  BY <1>0
<1>4. ASSUME NEW l \in 1 .. Len(rs)
      PROVE  /\ ts[l] \in Reloc /\ Follows(ts[l], ob.relocs[l])
             /\ ts[l].type = (IF l = k THEN r.type ELSE rs[l].type)
             /\ BlockIn(d, ts[l].offset, ob.relocs[l].offset,
                        KeptBytes(ob.relocs[l], ts[l].type))
             /\ PlaceIn(d, ts[l].offset, ob.relocs[l].offset)
  <2> DEFINE t == RelocAfter(ob, c, rs, k, len, r, l)
  <2>1. /\ Follows(t, ob.relocs[l])
        /\ t.type = (IF l = k THEN r.type ELSE rs[l].type)
        /\ BlockIn(d, t.offset, ob.relocs[l].offset,
                   KeptBytes(ob.relocs[l], t.type))
        /\ PlaceIn(d, t.offset, ob.relocs[l].offset)
    BY <1>0, <1>1, RelocsAfter
  <2>2. ts[l] = t
    BY <1>3
  <2> HIDE DEF t
  <2> QED
    BY <2>1, <2>2 DEF Follows
<1>5. ASSUME NEW s \in 1 .. Len(ss)
      PROVE  /\ us[s] \in Symbol /\ us[s].def = ob.syms[s].def
             /\ ob.syms[s].def = "sec" => AtIn(d, us[s].value, ob.syms[s].value)
  <2> DEFINE t == MovedSymbol(ss[s], r.offset + len,
                              Footprint(ob.relocs[k]) - len, Len(c))
  <2>1. /\ t \in Symbol /\ t.def = ob.syms[s].def
        /\ ob.syms[s].def = "sec" => AtIn(d, t.value, ob.syms[s].value)
    BY <1>0, <1>1, SymbolsAfter
  <2>2. us[s] = t
    BY <1>0
  <2> HIDE DEF t
  <2> QED
    BY <2>1, <2>2
<1>6. ts \in Seq(Reloc) /\ Len(ts) = Len(rs)
  <2>1. ts \in [1 .. Len(rs) -> Reloc]
    BY <1>0, <1>4
  <2> QED
    BY <1>2, <2>1, FunIsSeq
<1>7. us \in Seq(Symbol) /\ Len(us) = Len(ss)
  <2>1. us \in [1 .. Len(ss) -> Symbol]
    BY <1>0, <1>5
  <2> QED
    BY <1>2, <2>1, FunIsSeq
<1>8. Shaped(ob, d, ts, us)
  BY <1>0, <1>1, <1>4, <1>5, <1>6, <1>7 DEF Shaped
<1>9. CodeIn(ob, d, ts)
  <2>1. Increasing(d)
    <3>1. CodeCut(d, c, r.offset + len, Footprint(ob.relocs[k]) - len,
                  ob.relocs[k].offset + len)
      BY <1>0, <1>1, ShorteningCut
    <3> QED
      BY <3>1, CutIncreasing DEF CodeCut
  <2> QED
    BY <1>4, <1>6, <2>1 DEF CodeIn
<1>10. SymbolsIn(ob, d, us)
  BY <1>5, <1>7 DEF SymbolsIn
<1>11. ExcessIn(ob, d, ts)
  <2>1. \A l \in 1 .. Len(rs) : ts[l].type = IF l = k THEN r.type ELSE rs[l].type
    BY <1>4
  <2>2. CodeIn(ob, c, rs) /\ ExcessIn(ob, c, rs) /\ Len(ts) = Len(rs)
    BY <1>1, <1>6
  <2> QED
    <3>1. /\ Shortening(ob, rs, k, len, r)
          /\ IsCut(d, c, r.offset + len, Footprint(ob.relocs[k]) - len)
      BY <1>0
    <3> QED
      BY <2>1, <2>2, <3>1, ExcessAfter
<1> QED
  BY <1>8, <1>9, <1>10, <1>11 DEF Kept

-----------------------------------------------------------------------------
(* Steps that delete nothing                                               *)

\* New types keep the code that the relocations stand for; only a padding may
\* be given up.
LEMMA RetypeKeeps ==
  ASSUME NEW ob, NEW c, NEW rs, NEW ss, Shaped(ob, c, rs, ss),
         Kept(ob, c, rs, ss),
         NEW ts \in Seq(Reloc), Len(ts) = Len(rs),
         \A l \in 1 .. Len(rs) :
           LET q == ob.relocs[l]
           IN /\ Follows(ts[l], q) /\ ts[l].offset = rs[l].offset
              /\ \/ KeptBytes(q, ts[l].type) = KeptBytes(q, rs[l].type)
                 \/ q.type = "ALIGN" /\ KeptBytes(q, ts[l].type) = 0
  PROVE  Shaped(ob, c, ts, ss) /\ Kept(ob, c, ts, ss)
<1>1. Shaped(ob, c, ts, ss)
  BY DEF Shaped
<1>2. CodeIn(ob, c, ts)
  <2>1. Increasing(c)
    BY DEF Kept, CodeIn
  <2>2. ASSUME NEW l \in 1 .. Len(ts)
        PROVE  /\ BlockIn(c, ts[l].offset, ob.relocs[l].offset,
                          KeptBytes(ob.relocs[l], ts[l].type))
               /\ PlaceIn(c, ts[l].offset, ob.relocs[l].offset)
    <3>1. /\ BlockIn(c, rs[l].offset, ob.relocs[l].offset,
                     KeptBytes(ob.relocs[l], rs[l].type))
          /\ PlaceIn(c, rs[l].offset, ob.relocs[l].offset)
      BY DEF Kept, CodeIn
    <3>2. ts[l].offset = rs[l].offset /\ ts[l].offset \in Nat
      BY DEF Follows, Reloc
    <3>3. CASE KeptBytes(ob.relocs[l], ts[l].type) = KeptBytes(ob.relocs[l], rs[l].type)
      BY <3>1, <3>2, <3>3
    <3>4. CASE KeptBytes(ob.relocs[l], ts[l].type) = 0
      <4>1. BlockIn(c, ts[l].offset, ob.relocs[l].offset, 0)
        BY <3>2 DEF BlockIn
      <4> QED
        BY <3>1, <3>2, <3>4, <4>1
    <3> QED
      BY <3>3, <3>4
  <2> QED
    BY <2>1, <2>2 DEF CodeIn
<1>3. ExcessIn(ob, c, ts)
  <2>1. ASSUME NEW l \in 1 .. Len(rs), ob.relocs[l].type # "ALIGN"
        PROVE  ExcessOf(ob.relocs[l], ts[l].type) = ExcessOf(ob.relocs[l], rs[l].type)
    BY <2>1 DEF ExcessOf
  <2>2. ASSUME NEW l \in 1 .. Len(rs)
        PROVE  ExcessOf(ob.relocs[l], rs[l].type) \subseteq ExcessOf(ob.relocs[l], ts[l].type)
    <3>1. CASE KeptBytes(ob.relocs[l], ts[l].type) = KeptBytes(ob.relocs[l], rs[l].type)
      BY <3>1 DEF ExcessOf
    <3>2. CASE KeptBytes(ob.relocs[l], ts[l].type) = 0
      <4>1. AsmRelocOf(ob, ob.relocs[l]) /\ rs[l].type \in TypesOf(ob.relocs[l].type)
        <5>1. ob \in Object /\ WellFormed(ob) /\ l \in 1 .. Len(ob.relocs)
          BY DEF Shaped
        <5>2. Follows(rs[l], ob.relocs[l])
          BY DEF Shaped
        <5> QED
          BY <5>1, <5>2, AsmReloc DEF Follows
      <4>2. /\ ob.relocs[l] \in Reloc /\ ob.relocs[l].type \in AsmTypes
            /\ ob.relocs[l].offset \in Nat /\ Footprint(ob.relocs[l]) \in Nat
        BY <4>1, AsmRelocIs
      <4>3. KeptBytes(ob.relocs[l], rs[l].type) \in Nat
        BY <4>1, <4>2, KeptBytesRange
      <4>4. End(ob.relocs[l]) \in Int
        BY <4>2 DEF End
      <4> QED
        BY <3>2, <4>2, <4>3, <4>4 DEF ExcessOf
    <3> QED
      BY <3>1, <3>2
  <2>3. ASSUME NEW x \in 0 .. ob.size - 1
        PROVE  \/ LeftIn(c, x)
               \/ \E l \in 1 .. Len(ts) : x \in ExcessOf(ob.relocs[l], ts[l].type)
    BY <2>2 DEF Kept, ExcessIn
  <2>4. ASSUME NEW l \in 1 .. Len(ts), ob.relocs[l].type # "ALIGN",
               NEW x \in ExcessOf(ob.relocs[l], ts[l].type)
        PROVE  ~ LeftIn(c, x)
    BY <2>1, <2>4 DEF Kept, ExcessIn
  <2> QED
    BY <2>3, <2>4 DEF ExcessIn
<1> QED
  BY <1>1, <1>2, <1>3 DEF Kept

\* The section as the assembler made it is kept.
LEMMA AssembledKept ==
  ASSUME NEW ob \in Object, WellFormed(ob),
         NEW c, c = [k \in 1 .. ob.size |-> k - 1]
  PROVE  Shaped(ob, c, ob.relocs, ob.syms) /\ Kept(ob, c, ob.relocs, ob.syms)
<1>1. /\ ob.size \in Nat /\ ob.relocs \in Seq(Reloc) /\ ob.syms \in Seq(Symbol)
  BY DEF Object
<1>2. /\ c \in Seq(Nat) /\ Len(c) = ob.size
      /\ \A j \in 1 .. ob.size : c[j] = j - 1
  <2>1. c \in [1 .. ob.size -> Nat]
    BY <1>1
  <2> QED
    BY <1>1, <2>1, FunIsSeq
<1>3. ASSUME NEW x \in Nat, x <= ob.size PROVE AtIn(c, x, x)
  BY <1>1, <1>2, <1>3 DEF AtIn
<1>4. ASSUME NEW k \in 1 .. Len(ob.relocs)
      PROVE  LET q == ob.relocs[k]
             IN /\ Follows(q, q) /\ KeptBytes(q, q.type) = Footprint(q)
                /\ q.offset \in Nat /\ Footprint(q) \in Nat
                /\ q.offset < ob.size /\ End(q) <= ob.size
  <2>1. AsmRelocOf(ob, ob.relocs[k]) /\ (ob.relocs[k].type = "ALIGN" => ob.relocs[k].sym = 1)
    BY AsmReloc
  <2>2. ASSUME NEW q, AsmRelocOf(ob, q), q.type = "ALIGN" => q.sym = 1
        PROVE  /\ Follows(q, q) /\ KeptBytes(q, q.type) = Footprint(q)
               /\ q.offset \in Nat /\ Footprint(q) \in Nat
               /\ q.offset < ob.size /\ End(q) <= ob.size
    <3>1. /\ q \in Reloc /\ q.type \in AsmTypes /\ q.offset \in Nat
          /\ Footprint(q) \in Nat /\ q.offset < ob.size /\ End(q) <= ob.size
      BY <2>2 DEF AsmRelocOf
    <3>2. q.type \in TypesOf(q.type) /\ KeptBytes(q, q.type) = Footprint(q)
      BY <3>1, AsmKeeps
    <3>3. Follows(q, q)
      BY <2>2, <3>1, <3>2 DEF Follows
    <3> QED
      BY <3>1, <3>2, <3>3
  <2> QED
    BY <2>1, <2>2
<1>5. Shaped(ob, c, ob.relocs, ob.syms)
  BY <1>1, <1>2, <1>4 DEF Shaped
<1>6. CodeIn(ob, c, ob.relocs)
  <2>1. Increasing(c)
    BY <1>1, <1>2 DEF Increasing
  <2>2. ASSUME NEW p \in Nat, NEW m \in Nat, p + m <= ob.size
        PROVE  BlockIn(c, p, p, m)
    BY <1>1, <1>2, <2>2 DEF BlockIn
  <2>3. ASSUME NEW k \in 1 .. Len(ob.relocs)
        PROVE  /\ BlockIn(c, ob.relocs[k].offset, ob.relocs[k].offset,
                          KeptBytes(ob.relocs[k], ob.relocs[k].type))
               /\ PlaceIn(c, ob.relocs[k].offset, ob.relocs[k].offset)
    <3> DEFINE q == ob.relocs[k]
    <3>1. /\ KeptBytes(q, q.type) = Footprint(q)
          /\ q.offset \in Nat /\ Footprint(q) \in Nat
          /\ q.offset < ob.size /\ End(q) <= ob.size
      BY <1>4
    <3> HIDE DEF q
    <3>2. q.offset + Footprint(q) <= ob.size /\ q.offset <= ob.size
      BY <1>1, <3>1 DEF End
    <3>3. BlockIn(c, q.offset, q.offset, Footprint(q)) /\ AtIn(c, q.offset, q.offset)
      BY <1>3, <2>2, <3>1, <3>2
    <3> QED
      BY <3>1, <3>3 DEF PlaceIn, q
  <2> QED
    BY <2>1, <2>3 DEF CodeIn
<1>7. SymbolsIn(ob, c, ob.syms)
  <2> SUFFICES ASSUME NEW s \in 1 .. Len(ob.syms), ob.syms[s].def = "sec"
               PROVE  AtIn(c, ob.syms[s].value, ob.syms[s].value)
    BY DEF SymbolsIn
  <2>1. s \in DOMAIN ob.syms /\ ob.syms[s] \in Symbol
    BY <1>1, LenProperties
  <2>2. Label(ob, ob.syms[s])
    BY <2>1 DEF WellFormed
  <2>3. ob.syms[s].value \in Nat
    BY <2>1 DEF Symbol
  <2>4. ob.syms[s].value <= ob.size
    BY <2>2 DEF Label
  <2> QED
    BY <1>3, <2>3, <2>4
<1>8. ExcessIn(ob, c, ob.relocs)
  <2>1. ASSUME NEW x \in 0 .. ob.size - 1 PROVE LeftIn(c, x)
    <3>1. x + 1 \in 1 .. Len(c) /\ c[x + 1] = x
      BY <1>1, <1>2
    <3> QED
      BY <3>1 DEF LeftIn
  <2>2. ASSUME NEW k \in 1 .. Len(ob.relocs), NEW x
        PROVE  x \notin ExcessOf(ob.relocs[k], ob.relocs[k].type)
    <3> DEFINE q == ob.relocs[k]
    <3>1. /\ KeptBytes(q, q.type) = Footprint(q)
          /\ q.offset \in Nat /\ Footprint(q) \in Nat
      BY <1>4
    <3> HIDE DEF q
    <3>2. ExcessOf(q, q.type) = {}
      BY <3>1 DEF ExcessOf, End
    <3> QED
      BY <3>2 DEF q
  <2> QED
    BY <2>1, <2>2 DEF ExcessIn
<1> QED
  BY <1>5, <1>6, <1>7, <1>8 DEF Kept

\* As the assembler hands the section over, every relocation and symbol has
\* its place and nothing is deleted (_bfd_riscv_relax_section, on entry).
THEOREM InitLinkInv == Init => LinkInv
<1> SUFFICES ASSUME Init PROVE LinkInv
  OBVIOUS
<1>1. /\ obj \in Objects /\ contents = [k \in 1 .. obj.size |-> k - 1]
      /\ relocs = obj.relocs /\ syms = obj.syms /\ i = 1
  BY DEF Init, RelaxInit
<1>2. obj \in Object /\ WellFormed(obj)
  BY <1>1, RelaxConstants
<1>3. /\ Shaped(obj, contents, obj.relocs, obj.syms)
      /\ Kept(obj, contents, obj.relocs, obj.syms)
  BY <1>1, <1>2, AssembledKept
<1> QED
  BY <1>1, <1>3 DEF LinkInv

-----------------------------------------------------------------------------
(* The steps of the linker                                                 *)

\* Deleting the excess of the relocation the loop is at.
LEMMA StepDeletes ==
  ASSUME LinkInv, NEW len, NEW r, Shortening(obj, relocs, i, len, r),
         NEW rs, DOMAIN rs = 1 .. Len(relocs),
         \A l \in 1 .. Len(relocs) : rs[l] = IF l = i THEN r ELSE relocs[l],
         NEW addr, addr = r.offset + len,
         NEW count, count = Footprint(obj.relocs[i]) - len,
         riscv_relax_delete_bytes(rs, addr, count)
  PROVE  Deletes(obj, contents, relocs, syms, i, len, r, contents', relocs', syms')
<1>1. /\ Shaped(obj, contents, relocs, syms) /\ Kept(obj, contents, relocs, syms)
      /\ contents \in Seq(Nat) /\ CodeIn(obj, contents, relocs)
      /\ DOMAIN syms = 1 .. Len(syms)
  BY LenProperties DEF LinkInv, Shaped, Kept
<1>2. addr \in Nat /\ count \in Nat /\ addr + count <= Len(contents)
  BY <1>1, Deleted
<1>3. /\ contents' \in Seq(Nat)
      /\ IsCut(contents', contents, addr, count)
  BY <1>1, <1>2, DeleteIsCut DEF riscv_relax_delete_bytes
<1>4. relocs' = [l \in 1 .. Len(relocs) |->
                   RelocAfter(obj, contents, relocs, i, len, r, l)]
  BY DEF riscv_relax_delete_bytes, RelocAfter
<1>5. syms' = [s \in 1 .. Len(syms) |->
                 MovedSymbol(syms[s], r.offset + len,
                             Footprint(obj.relocs[i]) - len, Len(contents))]
  BY <1>1 DEF riscv_relax_delete_bytes
<1> QED
  BY <1>3, <1>4, <1>5 DEF Deletes

LEMMA ShortenStep ==
  ASSUME LinkInv, NEW len, NEW r,
         Deletes(obj, contents, relocs, syms, i, len, r, contents', relocs', syms'),
         obj' = obj, i' \in Nat \ {0}
  PROVE  LinkInv'
<1>1. /\ Shaped(obj, contents', relocs', syms')
      /\ Kept(obj, contents', relocs', syms')
  BY DeleteKeeps DEF LinkInv
<1> QED
  BY <1>1 DEF LinkInv

LEMMA RetypeStep ==
  ASSUME LinkInv, relocs' \in Seq(Reloc), Len(relocs') = Len(relocs),
         \A l \in 1 .. Len(relocs) :
           LET q == obj.relocs[l]
           IN /\ Follows(relocs'[l], q) /\ relocs'[l].offset = relocs[l].offset
              /\ \/ KeptBytes(q, relocs'[l].type) = KeptBytes(q, relocs[l].type)
                 \/ q.type = "ALIGN" /\ KeptBytes(q, relocs'[l].type) = 0,
         UNCHANGED <<obj, contents, syms>>, i' \in Nat \ {0}
  PROVE  LinkInv'
<1>1. /\ Shaped(obj, contents, relocs', syms)
      /\ Kept(obj, contents, relocs', syms)
  BY RetypeKeeps DEF LinkInv
<1> QED
  BY <1>1 DEF LinkInv

\* The types that relaxing changes without deleting anything.
Retypings ==
  {<<"LO12_I", "GPREL_I">>, <<"LO12_S", "GPREL_S">>,
   <<"TPREL_LO12_I", "TPREL_I">>, <<"TPREL_LO12_S", "TPREL_S">>,
   <<"PCREL_LO12_I", "LO12_I">>, <<"PCREL_HI20", "HI20">>,
   <<"GOT_HI20", "PCREL_HI20">>, <<"RELAX", "LO12_I">>,
   <<"RELAX", "PCREL_LO12_I">>}

\* The types before and after a shortening, the bytes before and after.
Shortenings ==
  {<<"CALL", "RVC_JUMP", 8, 2>>, <<"CALL", "JAL", 8, 4>>,
   <<"CALL", "LO12_I", 8, 4>>, <<"HI20", "NONE", 4, 0>>,
   <<"HI20", "RVC_LUI", 4, 2>>, <<"TPREL_HI20", "NONE", 4, 0>>,
   <<"TPREL_ADD", "NONE", 4, 0>>}

LEMMA RetypingKeeps ==
  ASSUME NEW q \in Reloc, q.type \in AsmTypes, NEW t \in TypesOf(q.type),
         NEW u, <<t, u>> \in Retypings
  PROVE  /\ u \in TypesOf(q.type) /\ u # "ALIGN" /\ u \in RelocType
         /\ KeptBytes(q, u) = KeptBytes(q, t)
<1>1. /\ t \notin {"NONE", "RVC_LUI", "RVC_JUMP", "JAL", "ALIGN", "CALL"}
      /\ u \notin {"NONE", "RVC_LUI", "RVC_JUMP", "JAL", "ALIGN", "CALL", "RELAX"}
      /\ u \in RelocType
      /\ u \in {"LO12_I", "PCREL_LO12_I", "GPREL_I"} \/ t # "RELAX"
  BY DEF Retypings, RelocType, AsmTypes, LuiTypes, TlsTypes, PcrelTypes
<1>2. CASE q.type = "CALL"
  <2>1. t \in {"LO12_I", "GPREL_I"}
    BY <1>1, <1>2 DEF TypesOf
  <2>2. u = "GPREL_I"
    BY <2>1 DEF Retypings
  <2> QED
    BY <1>1, <1>2, <2>1, <2>2 DEF KeptBytes, TypesOf
<1>3. CASE q.type = "ALIGN"
  BY <1>1, <1>3 DEF TypesOf
<1>4. CASE q.type = "RELAX"
  <2>1. t \in {"RELAX", "LO12_I", "PCREL_LO12_I", "GPREL_I"}
    BY <1>4 DEF TypesOf
  <2>2. u \in {"LO12_I", "PCREL_LO12_I", "GPREL_I"}
    BY <2>1 DEF Retypings
  <2> QED
    BY <1>1, <1>4, <2>1, <2>2 DEF KeptBytes, TypesOf
<1>5. CASE q.type \notin {"CALL", "ALIGN", "RELAX"}
  BY <1>1, <1>5 DEF KeptBytes, TypesOf
<1> QED
  BY <1>2, <1>3, <1>4, <1>5

LEMMA ShorteningTypes ==
  ASSUME NEW q \in Reloc, q.type \in AsmTypes, NEW t \in TypesOf(q.type),
         NEW u, NEW m, NEW len, <<t, u, m, len>> \in Shortenings
  PROVE  /\ u \in TypesOf(q.type) /\ u # "ALIGN" /\ u \in RelocType
         /\ KeptBytes(q, t) = m /\ Footprint(q) = m
         /\ KeptBytes(q, u) = len /\ len \in Nat /\ len < m
<1>1. u \in RelocType /\ u # "ALIGN" /\ len \in Nat /\ len < m
  BY DEF Shortenings, RelocType, AsmTypes, LuiTypes
<1>2. CASE t = "CALL"
  <2>1. q.type = "CALL"
    BY <1>2 DEF TypesOf
  <2>2. /\ u \in {"RVC_JUMP", "JAL", "LO12_I"} /\ m = 8
        /\ len = IF u = "RVC_JUMP" THEN 2 ELSE 4
    BY <1>2 DEF Shortenings
  <2> QED
    BY <1>1, <1>2, <2>1, <2>2 DEF TypesOf, KeptBytes, Footprint
<1>3. CASE t # "CALL"
  <2>1. /\ t \in {"HI20", "TPREL_HI20", "TPREL_ADD"} /\ m = 4
        /\ u \in {"NONE", "RVC_LUI"} /\ len = IF u = "NONE" THEN 0 ELSE 2
    BY <1>3 DEF Shortenings
  <2>2. q.type \notin {"CALL", "ALIGN", "RELAX"}
    BY <2>1 DEF TypesOf
  <2> QED
    BY <1>1, <2>1, <2>2 DEF TypesOf, KeptBytes, Footprint
<1> QED
  BY <1>2, <1>3

\* The relocation the loop is at.
LEMMA AtLoop ==
  ASSUME LinkInv, i <= Len(relocs)
  PROVE  /\ i \in 1 .. Len(relocs) /\ relocs \in Seq(Reloc)
         /\ Len(relocs) \in Nat /\ DOMAIN relocs = 1 .. Len(relocs)
         /\ \A l \in 1 .. Len(relocs) :
              /\ relocs[l] \in Reloc /\ Follows(relocs[l], obj.relocs[l])
              /\ obj.relocs[l] \in Reloc /\ obj.relocs[l].type \in AsmTypes
<1>1. /\ relocs \in Seq(Reloc) /\ Len(relocs) = Len(obj.relocs)
      /\ obj \in Object /\ WellFormed(obj) /\ i \in Nat \ {0}
      /\ \A l \in 1 .. Len(relocs) : Follows(relocs[l], obj.relocs[l])
  BY DEF LinkInv, Shaped
<1>2. Len(relocs) \in Nat /\ DOMAIN relocs = 1 .. Len(relocs)
  BY <1>1, LenProperties
<1>3. ASSUME NEW l \in 1 .. Len(relocs)
      PROVE  /\ relocs[l] \in Reloc
             /\ obj.relocs[l] \in Reloc /\ obj.relocs[l].type \in AsmTypes
  <2>1. AsmRelocOf(obj, obj.relocs[l])
    BY <1>1, AsmReloc
  <2>2. obj.relocs[l] \in Reloc /\ obj.relocs[l].type \in AsmTypes
    BY <2>1, AsmRelocIs
  <2> QED
    BY <1>1, <2>2 DEF Follows
<1> QED
  BY <1>1, <1>2, <1>3

LEMMA RetypedReloc ==
  ASSUME NEW r \in Reloc, NEW t \in RelocType
  PROVE  LET v == [r EXCEPT !.type = t]
         IN /\ v \in Reloc /\ v.type = t /\ v.offset = r.offset
            /\ v.addend = r.addend /\ v.sym = r.sym
BY DEF Reloc

LEMMA DroppedReloc ==
  ASSUME NEW r \in Reloc
  PROVE  LET v == [r EXCEPT !.type = "NONE", !.sym = 1]
         IN /\ v \in Reloc /\ v.type = "NONE" /\ v.offset = r.offset
            /\ v.addend = r.addend
BY DEF Reloc, RelocType

LEMMA RetypedIs ==
  ASSUME relocs \in Seq(Reloc), i \in 1 .. Len(relocs), NEW u \in RelocType
  PROVE  /\ DOMAIN Retyped(u) = 1 .. Len(relocs)
         /\ \A l \in 1 .. Len(relocs) :
              Retyped(u)[l] = IF l = i THEN [rel EXCEPT !.type = u] ELSE relocs[l]
<1>1. relocs \in [1 .. Len(relocs) -> Reloc]
  BY LenProperties
<1> QED
  BY <1>1 DEF Retyped, rel

LEMMA DroppedIs ==
  ASSUME relocs \in Seq(Reloc), i \in 1 .. Len(relocs)
  PROVE  /\ DOMAIN Dropped = 1 .. Len(relocs)
         /\ \A l \in 1 .. Len(relocs) :
              Dropped[l] = IF l = i THEN [rel EXCEPT !.type = "NONE", !.sym = 1]
                           ELSE relocs[l]
<1>1. relocs \in [1 .. Len(relocs) -> Reloc]
  BY LenProperties
<1> QED
  BY <1>1 DEF Dropped, rel

\* The current relocation with a new type is r.
Becomes(r, u) == /\ r \in Reloc /\ r.type = u /\ r.offset = rel.offset
                 /\ r.addend = rel.addend /\ (u # "NONE" => r.sym = rel.sym)

LEMMA ShortenDeletes ==
  ASSUME LinkInv, i <= Len(relocs), NEW u, NEW m, NEW len,
         <<rel.type, u, m, len>> \in Shortenings,
         NEW rs, rs = Retyped(u) \/ (u = "NONE" /\ rs = Dropped),
         NEW addr, addr = rel.offset + len, NEW count, count = m - len,
         riscv_relax_delete_bytes(rs, addr, count)
  PROVE  \E r : /\ Deletes(obj, contents, relocs, syms, i, len, r,
                           contents', relocs', syms')
                /\ Becomes(r, u)
                /\ Footprint(obj.relocs[i]) = m
<1> DEFINE q == obj.relocs[i]
<1>1. /\ i \in 1 .. Len(relocs) /\ relocs \in Seq(Reloc)
      /\ rel \in Reloc /\ Follows(rel, q) /\ q \in Reloc /\ q.type \in AsmTypes
  BY AtLoop DEF rel
<1> HIDE DEF q
<1>2. rel.type \in TypesOf(q.type) /\ rel.addend = q.addend
  BY <1>1 DEF Follows
<1>3. /\ u \in TypesOf(q.type) /\ u # "ALIGN" /\ u \in RelocType
      /\ KeptBytes(q, rel.type) = m /\ Footprint(q) = m
      /\ KeptBytes(q, u) = len /\ len \in Nat /\ len < m
  BY <1>1, <1>2, ShorteningTypes
<1>4. PICK r : /\ DOMAIN rs = 1 .. Len(relocs)
               /\ \A l \in 1 .. Len(relocs) : rs[l] = IF l = i THEN r ELSE relocs[l]
               /\ \/ r = [rel EXCEPT !.type = u]
                  \/ u = "NONE" /\ r = [rel EXCEPT !.type = "NONE", !.sym = 1]
  <2>1. CASE rs = Retyped(u)
    BY <1>1, <1>3, <2>1, RetypedIs
  <2>2. CASE u = "NONE" /\ rs = Dropped
    BY <1>1, <2>2, DroppedIs
  <2> QED
    BY <2>1, <2>2
<1>5. /\ r \in Reloc /\ r.type = u /\ r.offset = rel.offset
      /\ r.addend = rel.addend /\ (u # "NONE" => r.sym = rel.sym)
  <2>1. "NONE" \in RelocType
    BY DEF RelocType
  <2> QED
    <3>1. CASE r = [rel EXCEPT !.type = u]
      BY <1>1, <1>3, <3>1, RetypedReloc
    <3>2. CASE u = "NONE" /\ r = [rel EXCEPT !.type = "NONE", !.sym = 1]
      <4> DEFINE v == [rel EXCEPT !.type = "NONE", !.sym = 1]
      <4>1. /\ v \in Reloc /\ v.type = "NONE" /\ v.offset = rel.offset
            /\ v.addend = rel.addend
        BY <1>1, DroppedReloc
      <4>2. r = v /\ u = "NONE"
        BY <3>2
      <4> HIDE DEF v
      <4> QED
        BY <4>1, <4>2
    <3> QED
      BY <1>4, <3>1, <3>2
<1>6. Shortening(obj, relocs, i, len, r)
  <2>1. Follows(r, q)
    BY <1>2, <1>3, <1>5 DEF Follows
  <2> QED
    BY <1>1, <1>3, <1>5, <2>1 DEF Shortening, rel, q
<1>7. addr = r.offset + len /\ count = Footprint(obj.relocs[i]) - len
  BY <1>3, <1>5 DEF q
<1>8. Deletes(obj, contents, relocs, syms, i, len, r, contents', relocs', syms')
  BY <1>4, <1>6, <1>7, StepDeletes
<1>9. Becomes(r, u)
  BY <1>5 DEF Becomes
<1>10. Footprint(obj.relocs[i]) = m
  BY <1>3 DEF q
<1> QED
  BY <1>8, <1>9, <1>10

LEMMA ShortenRel ==
  ASSUME LinkInv, i <= Len(relocs), NEW u, NEW m, NEW len,
         <<rel.type, u, m, len>> \in Shortenings,
         NEW rs, rs = Retyped(u) \/ (u = "NONE" /\ rs = Dropped),
         NEW addr, addr = rel.offset + len, NEW count, count = m - len,
         riscv_relax_delete_bytes(rs, addr, count),
         obj' = obj, i' \in Nat \ {0}
  PROVE  LinkInv'
<1>1. PICK r : Deletes(obj, contents, relocs, syms, i, len, r,
                       contents', relocs', syms')
  BY ShortenDeletes
<1> QED
  BY <1>1, ShortenStep

LEMMA RetypedFollows ==
  ASSUME NEW q \in Reloc, q.type \in AsmTypes, NEW r \in Reloc, Follows(r, q),
         NEW w \in Reloc, <<r.type, w.type>> \in Retypings,
         w.offset = r.offset, w.addend = r.addend
  PROVE  /\ Follows(w, q) /\ KeptBytes(q, w.type) = KeptBytes(q, r.type)
<1>1. r.type \in TypesOf(q.type) /\ r.addend = q.addend
  BY DEF Follows
<1>2. /\ w.type \in TypesOf(q.type) /\ w.type # "ALIGN"
      /\ KeptBytes(q, w.type) = KeptBytes(q, r.type)
  BY <1>1, RetypingKeeps
<1> QED
  BY <1>1, <1>2 DEF Follows

\* A step that changes the type of the current relocation, and perhaps of
\* the R_RISCV_RELAX behind it.
LEMMA RetypeRel ==
  ASSUME LinkInv, i <= Len(relocs), NEW u, <<rel.type, u>> \in Retypings,
         relocs' = Retyped(u), UNCHANGED <<obj, contents, syms>>,
         i' \in Nat \ {0}
  PROVE  LinkInv'
<1>1. /\ i \in 1 .. Len(relocs) /\ relocs \in Seq(Reloc) /\ Len(relocs) \in Nat
      /\ \A l \in 1 .. Len(relocs) :
           /\ relocs[l] \in Reloc /\ Follows(relocs[l], obj.relocs[l])
           /\ obj.relocs[l] \in Reloc /\ obj.relocs[l].type \in AsmTypes
  BY AtLoop
<1>2. /\ u \in TypesOf(obj.relocs[i].type) /\ u # "ALIGN" /\ u \in RelocType
      /\ KeptBytes(obj.relocs[i], u) = KeptBytes(obj.relocs[i], rel.type)
      /\ rel \in Reloc /\ rel.addend = obj.relocs[i].addend
  <2>1. /\ rel.type \in TypesOf(obj.relocs[i].type) /\ rel \in Reloc
        /\ rel.addend = obj.relocs[i].addend
    BY <1>1 DEF Follows, rel
  <2> QED
    BY <1>1, <2>1, RetypingKeeps
<1>3. /\ DOMAIN relocs' = 1 .. Len(relocs)
      /\ \A l \in 1 .. Len(relocs) :
           relocs'[l] = IF l = i THEN [rel EXCEPT !.type = u] ELSE relocs[l]
  BY <1>1, <1>2, RetypedIs
<1>4. ASSUME NEW l \in 1 .. Len(relocs)
      PROVE  /\ relocs'[l] \in Reloc
             /\ Follows(relocs'[l], obj.relocs[l])
             /\ relocs'[l].offset = relocs[l].offset
             /\ KeptBytes(obj.relocs[l], relocs'[l].type)
                  = KeptBytes(obj.relocs[l], relocs[l].type)
  <2>1. CASE l = i
    <3> DEFINE r == [rel EXCEPT !.type = u]
    <3>1. /\ r \in Reloc /\ r.type = u /\ r.offset = rel.offset
          /\ r.addend = rel.addend
      BY <1>2, RetypedReloc
    <3>2. relocs'[l] = r /\ relocs[l] = rel
      BY <1>3, <2>1 DEF rel
    <3> HIDE DEF r
    <3>3. Follows(r, obj.relocs[i])
      BY <1>2, <3>1 DEF Follows
    <3> QED
      BY <1>2, <2>1, <3>1, <3>2, <3>3
  <2>2. CASE l # i
    BY <1>1, <1>3, <2>2
  <2> QED
    BY <2>1, <2>2
<1>5. relocs' \in Seq(Reloc) /\ Len(relocs') = Len(relocs)
  <2>1. relocs' \in [1 .. Len(relocs) -> Reloc]
    <3>1. relocs' = [l \in 1 .. Len(relocs) |-> relocs'[l]]
      BY <1>1, LenProperties DEF Retyped
    <3> QED
      BY <1>4, <3>1
  <2> QED
    BY <1>1, <2>1, FunIsSeq
<1> QED
  BY <1>4, <1>5, RetypeStep

\* The current relocation and the one behind it get new types, as parts of one
\* address; their places and addends stay.
PairOf(rs, u, v) ==
  /\ DOMAIN rs = 1 .. Len(relocs) /\ rs = [l \in 1 .. Len(relocs) |-> rs[l]]
  /\ \A l \in 1 .. Len(relocs) : l \notin {i, i + 1} => rs[l] = relocs[l]
  /\ rs[i] \in Reloc /\ rs[i].type = u /\ rs[i].sym = rel.sym
  /\ rs[i].offset = rel.offset /\ rs[i].addend = rel.addend
  /\ rs[i + 1] \in Reloc /\ rs[i + 1].type = v
  /\ rs[i + 1].offset = relocs[i + 1].offset
  /\ rs[i + 1].addend = relocs[i + 1].addend
  /\ \/ rs[i + 1].sym = relocs[i + 1].sym
     \/ u = "HI20" /\ rs[i + 1].sym = rel.sym

AbsolutePair == [Retyped("HI20") EXCEPT ![i + 1].type = "LO12_I",
                                        ![i + 1].sym = rel.sym]
GotPair == [Retyped("PCREL_HI20") EXCEPT ![i].addi = TRUE,
                                         ![i + 1].type = "PCREL_LO12_I",
                                         ![i + 1].addi = TRUE]

LEMMA PairIs ==
  ASSUME relocs \in Seq(Reloc), i \in 1 .. Len(relocs), i < Len(relocs)
  PROVE  /\ PairOf(AbsolutePair, "HI20", "LO12_I")
         /\ PairOf(GotPair, "PCREL_HI20", "PCREL_LO12_I")
<1>1. /\ Len(relocs) \in Nat /\ \A l \in 1 .. Len(relocs) : relocs[l] \in Reloc
  BY LenProperties, ElementOfSeq
<1> DEFINE low == relocs[i + 1]
<1>2. i + 1 \in 1 .. Len(relocs) /\ i + 1 # i
  BY <1>1
<1>3. rel \in Reloc /\ low \in Reloc
  BY <1>1, <1>2 DEF rel
<1>4. {"HI20", "PCREL_HI20", "LO12_I", "PCREL_LO12_I"} \subseteq RelocType
  BY DEF RelocType, AsmTypes, LuiTypes, PcrelTypes
<1>5. ASSUME NEW u \in {"HI20", "PCREL_HI20"}
      PROVE  /\ DOMAIN Retyped(u) = 1 .. Len(relocs)
             /\ \A l \in 1 .. Len(relocs) :
                  Retyped(u)[l] = IF l = i THEN [rel EXCEPT !.type = u] ELSE relocs[l]
  BY <1>4, RetypedIs
<1>6. ASSUME NEW u \in {"HI20", "PCREL_HI20"}
      PROVE  LET r == [rel EXCEPT !.type = u]
             IN /\ r \in Reloc /\ r.type = u /\ r.sym = rel.sym
                /\ r.offset = rel.offset /\ r.addend = rel.addend
  BY <1>3, <1>4, RetypedReloc
<1>7. PairOf(AbsolutePair, "HI20", "LO12_I")
  <2> DEFINE w == Retyped("HI20")
             rs == [w EXCEPT ![i + 1].type = "LO12_I", ![i + 1].sym = rel.sym]
             t == [low EXCEPT !.type = "LO12_I", !.sym = rel.sym]
  <2>1. /\ DOMAIN w = 1 .. Len(relocs) /\ w[i + 1] = low
        /\ w[i] = [rel EXCEPT !.type = "HI20"]
        /\ \A l \in 1 .. Len(relocs) : l # i => w[l] = relocs[l]
    BY <1>2, <1>5
  <2> HIDE DEF w, low
  <2>2. /\ DOMAIN rs = 1 .. Len(relocs) /\ rs[i + 1] = t /\ rs[i] = w[i]
        /\ rs = [l \in 1 .. Len(relocs) |-> rs[l]]
        /\ \A l \in 1 .. Len(relocs) : l \notin {i, i + 1} => rs[l] = relocs[l]
    BY <1>2, <2>1
  <2>3. /\ t \in Reloc /\ t.type = "LO12_I" /\ t.sym = rel.sym
        /\ t.offset = low.offset /\ t.addend = low.addend
    BY <1>3, <1>4 DEF Reloc
  <2>4. /\ w[i] \in Reloc /\ w[i].type = "HI20" /\ w[i].sym = rel.sym
        /\ w[i].offset = rel.offset /\ w[i].addend = rel.addend
    BY <1>6, <2>1
  <2>5. AbsolutePair = rs
    BY DEF AbsolutePair, w
  <2> HIDE DEF rs, t
  <2> QED
    BY <2>2, <2>3, <2>4, <2>5 DEF PairOf, low
<1>8. PairOf(GotPair, "PCREL_HI20", "PCREL_LO12_I")
  <2> DEFINE w == Retyped("PCREL_HI20")
             rs == [w EXCEPT ![i].addi = TRUE, ![i + 1].type = "PCREL_LO12_I",
                             ![i + 1].addi = TRUE]
             h == [w[i] EXCEPT !.addi = TRUE]
             t == [low EXCEPT !.type = "PCREL_LO12_I", !.addi = TRUE]
  <2>1. /\ DOMAIN w = 1 .. Len(relocs) /\ w[i + 1] = low
        /\ w[i] = [rel EXCEPT !.type = "PCREL_HI20"]
        /\ \A l \in 1 .. Len(relocs) : l # i => w[l] = relocs[l]
    BY <1>2, <1>5
  <2> HIDE DEF w, low
  <2>2. /\ DOMAIN rs = 1 .. Len(relocs) /\ rs[i + 1] = t /\ rs[i] = h
        /\ rs = [l \in 1 .. Len(relocs) |-> rs[l]]
        /\ \A l \in 1 .. Len(relocs) : l \notin {i, i + 1} => rs[l] = relocs[l]
    BY <1>2, <2>1
  <2>3. /\ t \in Reloc /\ t.type = "PCREL_LO12_I" /\ t.sym = low.sym
        /\ t.offset = low.offset /\ t.addend = low.addend
    BY <1>3, <1>4 DEF Reloc
  <2>4. /\ w[i] \in Reloc /\ w[i].type = "PCREL_HI20" /\ w[i].sym = rel.sym
        /\ w[i].offset = rel.offset /\ w[i].addend = rel.addend
    BY <1>6, <2>1
  <2>5. /\ h \in Reloc /\ h.type = "PCREL_HI20" /\ h.sym = rel.sym
        /\ h.offset = rel.offset /\ h.addend = rel.addend
    BY <2>4 DEF Reloc
  <2>6. GotPair = rs
    BY DEF GotPair, w
  <2> HIDE DEF rs, t, h
  <2> QED
    BY <2>2, <2>3, <2>5, <2>6 DEF PairOf, low
<1> QED
  BY <1>7, <1>8

\* The same when the R_RISCV_RELAX behind it is taken for its low part.
LEMMA RetypePair ==
  ASSUME LinkInv, i < Len(relocs), relocs[i + 1].type = "RELAX",
         NEW u, <<rel.type, u>> \in Retypings,
         NEW v, <<"RELAX", v>> \in Retypings,
         PairOf(relocs', u, v),
         UNCHANGED <<obj, contents, syms>>, i' \in Nat \ {0}
  PROVE  LinkInv'
<1>1. /\ i \in 1 .. Len(relocs) /\ relocs \in Seq(Reloc) /\ Len(relocs) \in Nat
      /\ \A l \in 1 .. Len(relocs) :
           /\ relocs[l] \in Reloc /\ Follows(relocs[l], obj.relocs[l])
           /\ obj.relocs[l] \in Reloc /\ obj.relocs[l].type \in AsmTypes
  <2>1. i \in Nat /\ Len(relocs) \in Nat
    BY LenProperties DEF LinkInv, Shaped
  <2>2. i <= Len(relocs)
    BY <2>1
  <2> QED
    BY <2>2, AtLoop
<1>2. i + 1 \in 1 .. Len(relocs)
  BY <1>1
<1>3. ASSUME NEW l \in 1 .. Len(relocs)
      PROVE  /\ relocs'[l] \in Reloc
             /\ Follows(relocs'[l], obj.relocs[l])
             /\ relocs'[l].offset = relocs[l].offset
             /\ KeptBytes(obj.relocs[l], relocs'[l].type)
                  = KeptBytes(obj.relocs[l], relocs[l].type)
  <2> DEFINE q == obj.relocs[l]
             r == relocs[l]
             w == relocs'[l]
  <2>1. /\ q \in Reloc /\ q.type \in AsmTypes /\ r \in Reloc /\ Follows(r, q)
    BY <1>1
  <2>2. CASE l \in {i, i + 1}
    <3>1. /\ w \in Reloc /\ w.offset = r.offset /\ w.addend = r.addend
          /\ <<r.type, w.type>> \in Retypings
      BY <2>2 DEF PairOf, rel
    <3> HIDE DEF q, r, w
    <3>2. Follows(w, q) /\ KeptBytes(q, w.type) = KeptBytes(q, r.type)
      BY <2>1, <3>1, RetypedFollows
    <3> QED
      BY <3>1, <3>2 DEF q, r, w
  <2>3. CASE l \notin {i, i + 1}
    BY <2>1, <2>3 DEF PairOf
  <2> QED
    BY <2>2, <2>3
<1>4. relocs' \in Seq(Reloc) /\ Len(relocs') = Len(relocs)
  <2>1. relocs' \in [1 .. Len(relocs) -> Reloc]
    <3>1. relocs' = [l \in 1 .. Len(relocs) |-> relocs'[l]]
      BY DEF PairOf
    <3> QED
      BY <1>3, <3>1
  <2> QED
    BY <1>1, <2>1, FunIsSeq
<1> QED
  BY <1>3, <1>4, RetypeStep

\* A padding starts before the bytes that its alignment needs.
LEMMA NopBytes ==
  ASSUME NEW addend \in 1 .. MaxPadding, NEW start \in Nat
  PROVE  LET alignment == Alignment(addend)
         IN ((start - 1) \div alignment) * alignment + alignment - start \in Nat
<1> DEFINE al == Alignment(addend)
<1>1. \E p \in Powers : p > addend /\ p \div 2 <= addend
  <2>1. addend \in Nat /\ addend >= 1 /\ addend < 4096
    BY DEF MaxPadding
  <2> QED
    BY <2>1 DEF Powers
<1>2. al \in Powers
  BY <1>1 DEF Alignment
<1> HIDE DEF al
<1>3. ASSUME NEW p \in Powers
      PROVE  ((start - 1) \div p) * p + p - start \in Nat
  BY DEF Powers
<1> QED
  BY <1>2, <1>3 DEF al

LEMMA StayStep ==
  ASSUME LinkInv, UNCHANGED <<obj, secVars>>, i' \in Nat \ {0}
  PROVE  LinkInv'
BY DEF LinkInv, secVars

\* A padding, and what its alignment needs of it.
LEMMA PaddingAt ==
  ASSUME LinkInv, i <= Len(relocs), rel.type = "ALIGN"
  PROVE  LET q == obj.relocs[i]
         IN /\ i \in 1 .. Len(relocs) /\ q = obj.relocs[i]
            /\ q.type = "ALIGN" /\ rel.addend = q.addend /\ rel \in Reloc
            /\ q.addend \in 1 .. MaxPadding /\ Footprint(q) = q.addend
            /\ KeptBytes(q, "ALIGN") = Footprint(q) /\ KeptBytes(q, "NONE") = 0
            /\ symval - rel.addend = SecAddr + rel.offset
            /\ nop_bytes \in Nat
<1> DEFINE q == obj.relocs[i]
<1>1. /\ i \in 1 .. Len(relocs) /\ rel \in Reloc /\ Follows(rel, q)
  BY AtLoop DEF rel
<1>2. /\ obj \in Object /\ WellFormed(obj) /\ Len(relocs) = Len(obj.relocs)
      /\ Len(syms) = Len(obj.syms)
      /\ \A s \in 1 .. Len(syms) : syms[s].def = obj.syms[s].def
  BY DEF LinkInv, Shaped
<1>3. AsmRelocOf(obj, q)
  BY <1>1, <1>2, AsmReloc
<1>4. syms[1].def = "null"
  <2>1. obj.syms # << >> /\ obj.syms[1].def = "null" /\ obj.syms \in Seq(Symbol)
    BY <1>2 DEF WellFormed, Object
  <2>2. Len(obj.syms) \in Nat \ {0}
    BY <2>1, EmptySeq
  <2> QED
    BY <1>2, <2>1, <2>2
<1> HIDE DEF q
<1>5. q.type = "ALIGN" /\ rel.sym = 1 /\ rel.addend = q.addend
  BY <1>1 DEF Follows, TypesOf
<1>6. /\ q.addend \in 1 .. MaxPadding /\ Footprint(q) = q.addend
      /\ KeptBytes(q, "ALIGN") = Footprint(q) /\ KeptBytes(q, "NONE") = 0
  <2>1. q.addend \in 1 .. MaxPadding /\ Footprint(q) = q.addend
    BY <1>3, <1>5 DEF AsmRelocOf, Footprint
  <2> QED
    BY <1>5, <2>1 DEF KeptBytes
<1> DEFINE start == symval - rel.addend
<1>7. start = SecAddr + rel.offset /\ start \in Nat
  <2>1. symval = rel.addend + (SecAddr + rel.offset)
    BY <1>4, <1>5 DEF symval, sym
  <2>2. rel.offset \in Nat /\ SecAddr \in Nat /\ rel.addend \in Nat
    BY <1>1, RelaxConstants DEF Reloc
  <2> QED
    BY <2>1, <2>2
<1>8. nop_bytes \in Nat
  <2>1. nop_bytes = ((start - 1) \div Alignment(rel.addend)) * Alignment(rel.addend)
                      + Alignment(rel.addend) - start
    BY DEF nop_bytes
  <2> HIDE DEF start
  <2>2. rel.addend \in 1 .. MaxPadding
    BY <1>5, <1>6
  <2>3. ((start - 1) \div Alignment(rel.addend)) * Alignment(rel.addend)
          + Alignment(rel.addend) - start \in Nat
    BY <1>7, <2>2, NopBytes
  <2> QED
    BY <2>1, <2>3
<1> QED
  BY <1>1, <1>5, <1>6, <1>7, <1>8 DEF q

\* The end of a padding goes.
LEMMA PaddingDeletes ==
  ASSUME LinkInv, i <= Len(relocs), rel.type = "ALIGN", rel.addend > nop_bytes,
         riscv_relax_delete_bytes(Dropped, rel.offset + nop_bytes,
                                  rel.addend - nop_bytes)
  PROVE  \E r : /\ Deletes(obj, contents, relocs, syms, i, nop_bytes, r,
                           contents', relocs', syms')
                /\ Becomes(r, "NONE")
                /\ Footprint(obj.relocs[i]) = rel.addend
<1> DEFINE q == obj.relocs[i]
           r == [rel EXCEPT !.type = "NONE", !.sym = 1]
<1>1. /\ i \in 1 .. Len(relocs) /\ relocs[i] = rel
      /\ q.type = "ALIGN" /\ rel.addend = q.addend /\ rel \in Reloc
      /\ q.addend \in 1 .. MaxPadding /\ Footprint(q) = q.addend
      /\ KeptBytes(q, "ALIGN") = Footprint(q) /\ KeptBytes(q, "NONE") = 0
      /\ nop_bytes \in Nat
  BY PaddingAt DEF rel
<1>2. relocs \in Seq(Reloc)
  BY AtLoop
<1>3. /\ r \in Reloc /\ r.type = "NONE" /\ r.offset = rel.offset
      /\ r.addend = rel.addend
  BY <1>1, DroppedReloc
<1>4. /\ DOMAIN Dropped = 1 .. Len(relocs)
      /\ \A l \in 1 .. Len(relocs) : Dropped[l] = IF l = i THEN r ELSE relocs[l]
  BY <1>1, <1>2, DroppedIs
<1>5. q = obj.relocs[i]
  OBVIOUS
<1> HIDE DEF q, r
<1>6. Follows(r, q)
  BY <1>1, <1>3 DEF Follows, TypesOf
<1>7. Shortening(obj, relocs, i, nop_bytes, r)
  <2>1. KeptBytes(q, relocs[i].type) = Footprint(q) /\ KeptBytes(q, r.type) = 0
    BY <1>1, <1>3
  <2>2. nop_bytes < Footprint(q)
    BY <1>1
  <2>3. r.offset = relocs[i].offset
    BY <1>1, <1>3
  <2> QED
    BY <1>1, <1>5, <1>6, <2>1, <2>2, <2>3 DEF Shortening
<1>8. Footprint(obj.relocs[i]) = rel.addend
  BY <1>1, <1>5
<1>9. rel.offset + nop_bytes = r.offset + nop_bytes
  BY <1>3
<1>10. Deletes(obj, contents, relocs, syms, i, nop_bytes, r, contents', relocs', syms')
  BY <1>4, <1>7, <1>8, <1>9, StepDeletes
<1>11. Becomes(r, "NONE")
  BY <1>3 DEF Becomes
<1> QED
  BY <1>8, <1>10, <1>11

\* Pass 1 at a padding.
LEMMA AlignStep ==
  ASSUME LinkInv, i <= Len(relocs), rel.type = "ALIGN",
         _bfd_riscv_relax_align, obj' = obj, i' \in Nat \ {0}
  PROVE  LinkInv'
<1> DEFINE q == obj.relocs[i]
           r == [rel EXCEPT !.type = "NONE", !.sym = 1]
<1>1. /\ i \in 1 .. Len(relocs) /\ relocs \in Seq(Reloc)
      /\ \A l \in 1 .. Len(relocs) :
           /\ relocs[l] \in Reloc /\ Follows(relocs[l], obj.relocs[l])
  BY AtLoop
<1>2. /\ q.type = "ALIGN" /\ rel.addend = q.addend /\ rel \in Reloc
      /\ q.addend \in 1 .. MaxPadding /\ KeptBytes(q, "NONE") = 0
      /\ nop_bytes \in Nat
  BY PaddingAt
<1>3. /\ r \in Reloc /\ r.type = "NONE" /\ r.offset = rel.offset
      /\ r.addend = rel.addend
  BY <1>2, DroppedReloc
<1>4. \A l \in 1 .. Len(relocs) : Dropped[l] = IF l = i THEN r ELSE relocs[l]
  BY <1>1, DroppedIs
<1>5. q = obj.relocs[i] /\ relocs[i] = rel
  BY DEF rel
<1> HIDE DEF q, r
<1>6. Follows(r, q)
  BY <1>2, <1>3 DEF Follows, TypesOf
<1>n. rel.addend \in Nat
  BY <1>2
<1>7. CASE rel.addend < nop_bytes
  <2>1. UNCHANGED secVars
    BY <1>2, <1>n, <1>7 DEF _bfd_riscv_relax_align
  <2>2. UNCHANGED <<obj, secVars>>
    BY <2>1
  <2> QED
    BY <2>2, StayStep
<1>8. CASE rel.addend = nop_bytes
  <2>1. relocs' = Dropped /\ UNCHANGED <<contents, syms>>
    BY <1>2, <1>n, <1>8 DEF _bfd_riscv_relax_align
  <2>2. ASSUME NEW l \in 1 .. Len(relocs)
        PROVE  /\ relocs'[l] \in Reloc
               /\ Follows(relocs'[l], obj.relocs[l])
               /\ relocs'[l].offset = relocs[l].offset
               /\ \/ KeptBytes(obj.relocs[l], relocs'[l].type)
                       = KeptBytes(obj.relocs[l], relocs[l].type)
                  \/ obj.relocs[l].type = "ALIGN"
                     /\ KeptBytes(obj.relocs[l], relocs'[l].type) = 0
    <3>1. CASE l = i
      <4>1. relocs'[l] = r /\ obj.relocs[l] = q /\ relocs[l] = rel
        BY <1>4, <1>5, <2>1, <3>1
      <4>2. KeptBytes(q, r.type) = 0
        BY <1>2, <1>3
      <4> QED
        BY <1>2, <1>3, <1>6, <4>1, <4>2
    <3>2. CASE l # i
      BY <1>1, <1>4, <2>1, <3>2
    <3> QED
      BY <3>1, <3>2
  <2>3. relocs' \in Seq(Reloc) /\ Len(relocs') = Len(relocs)
    <3>1. relocs' = [l \in 1 .. Len(relocs) |-> relocs'[l]]
      BY <2>1, LenProperties, <1>1 DEF Dropped
    <3>2. relocs' \in [1 .. Len(relocs) -> Reloc]
      BY <2>2, <3>1
    <3>3. Len(relocs) \in Nat
      BY <1>1, LenProperties
    <3> QED
      BY <3>2, <3>3, FunIsSeq
  <2> QED
    BY <2>1, <2>2, <2>3, RetypeStep
<1>9. CASE rel.addend > nop_bytes
  <2>1. riscv_relax_delete_bytes(Dropped, rel.offset + nop_bytes,
                                 rel.addend - nop_bytes)
    BY <1>2, <1>n, <1>9 DEF _bfd_riscv_relax_align
  <2>2. PICK z : Deletes(obj, contents, relocs, syms, i, nop_bytes, z,
                         contents', relocs', syms')
    BY <1>9, <2>1, PaddingDeletes
  <2> QED
    BY <2>2, ShortenStep
<1> QED
  BY <1>2, <1>n, <1>7, <1>8, <1>9

-----------------------------------------------------------------------------
(* The relaxation functions, one lemma each                                *)

LEMMA LeaveStep ==
  ASSUME LinkInv, Leave(relocs), obj' = obj, i' \in Nat \ {0}
  PROVE  LinkInv'
BY StayStep DEF Leave, secVars

LEMMA LeaveRetyped ==
  ASSUME LinkInv, i <= Len(relocs), NEW u, <<rel.type, u>> \in Retypings,
         Leave(Retyped(u)), obj' = obj, i' \in Nat \ {0}
  PROVE  LinkInv'
BY RetypeRel DEF Leave

\* The LUI or ADD goes.
LEMMA ShortenDropped ==
  ASSUME LinkInv, i <= Len(relocs), rel.type \in {"HI20", "TPREL_HI20", "TPREL_ADD"},
         Shorten(Dropped, rel.offset, 4), obj' = obj, i' \in Nat \ {0}
  PROVE  LinkInv'
<1>1. <<rel.type, "NONE", 4, 0>> \in Shortenings
  BY DEF Shortenings
<1>2. rel.offset = rel.offset + 0 /\ 4 = 4 - 0
  <2>1. rel \in Reloc
    BY AtLoop DEF rel
  <2> QED
    BY <2>1 DEF Reloc
<1>3. riscv_relax_delete_bytes(Dropped, rel.offset, 4)
  BY DEF Shorten
<1> QED
  BY <1>1, <1>2, <1>3, ShortenRel

LEMMA CallStep ==
  ASSUME LinkInv, i <= Len(relocs), _bfd_riscv_relax_call, obj' = obj,
         i' \in Nat \ {0}
  PROVE  LinkInv'
<1>1. CASE VALID_UJTYPE_IMM(foff) \/ near_zero
  <2> DEFINE u == Jump.type
             len == Jump.len
  <2>1. <<rel.type, u, 8, len>> \in Shortenings
    <3>1. rel.type = "CALL"
      BY DEF _bfd_riscv_relax_call
    <3> QED
      BY <3>1 DEF Jump, Shortenings
  <2>2. riscv_relax_delete_bytes(Retyped(u), rel.offset + len, 8 - len)
    BY <1>1 DEF _bfd_riscv_relax_call, Shorten
  <2> HIDE DEF u, len
  <2> QED
    BY <2>1, <2>2, ShortenRel
<1>2. CASE ~ (VALID_UJTYPE_IMM(foff) \/ near_zero)
  <2>1. Leave(relocs)
    BY <1>2 DEF _bfd_riscv_relax_call
  <2> QED
    BY <2>1, LeaveStep
<1> QED
  BY <1>1, <1>2

LEMMA LuiStep ==
  ASSUME LinkInv, i <= Len(relocs), _bfd_riscv_relax_lui, obj' = obj,
         i' \in Nat \ {0}
  PROVE  LinkInv'
<1>1. rel.type \in {"HI20", "LO12_I", "LO12_S"}
  BY DEF _bfd_riscv_relax_lui, LuiTypes
<1>2. \/ Leave(relocs)
      \/ rel.type = "LO12_I" /\ Leave(Retyped("GPREL_I"))
      \/ rel.type = "LO12_S" /\ Leave(Retyped("GPREL_S"))
      \/ rel.type = "HI20" /\ Shorten(Dropped, rel.offset, 4)
      \/ rel.type = "HI20" /\ Shorten(Retyped("RVC_LUI"), rel.offset + 2, 2)
  BY <1>1, Zenon DEF _bfd_riscv_relax_lui, ShortLui
<1>3. CASE rel.type = "LO12_I" /\ Leave(Retyped("GPREL_I"))
  <2>1. <<rel.type, "GPREL_I">> \in Retypings
    BY <1>3 DEF Retypings
  <2> QED
    BY <1>3, <2>1, LeaveRetyped
<1>4. CASE rel.type = "LO12_S" /\ Leave(Retyped("GPREL_S"))
  <2>1. <<rel.type, "GPREL_S">> \in Retypings
    BY <1>4 DEF Retypings
  <2> QED
    BY <1>4, <2>1, LeaveRetyped
<1>5. CASE rel.type = "HI20" /\ Shorten(Retyped("RVC_LUI"), rel.offset + 2, 2)
  <2>1. <<rel.type, "RVC_LUI", 4, 2>> \in Shortenings
    BY <1>5 DEF Shortenings
  <2>2. riscv_relax_delete_bytes(Retyped("RVC_LUI"), rel.offset + 2, 2) /\ 2 = 4 - 2
    BY <1>5 DEF Shorten
  <2> QED
    BY <2>1, <2>2, ShortenRel
<1> QED
  BY <1>2, <1>3, <1>4, <1>5, LeaveStep, ShortenDropped

LEMMA TlsStep ==
  ASSUME LinkInv, i <= Len(relocs), _bfd_riscv_relax_tls_le, obj' = obj,
         i' \in Nat \ {0}
  PROVE  LinkInv'
<1>1. rel.type \in {"TPREL_HI20", "TPREL_ADD", "TPREL_LO12_I", "TPREL_LO12_S"}
  BY DEF _bfd_riscv_relax_tls_le, TlsTypes
<1>2. \/ Leave(relocs)
      \/ rel.type = "TPREL_LO12_I" /\ Leave(Retyped("TPREL_I"))
      \/ rel.type = "TPREL_LO12_S" /\ Leave(Retyped("TPREL_S"))
      \/ rel.type \in {"TPREL_HI20", "TPREL_ADD"} /\ Shorten(Dropped, rel.offset, 4)
  BY <1>1, Zenon DEF _bfd_riscv_relax_tls_le
<1>3. CASE rel.type = "TPREL_LO12_I" /\ Leave(Retyped("TPREL_I"))
  <2>1. <<rel.type, "TPREL_I">> \in Retypings
    BY <1>3 DEF Retypings
  <2> QED
    BY <1>3, <2>1, LeaveRetyped
<1>4. CASE rel.type = "TPREL_LO12_S" /\ Leave(Retyped("TPREL_S"))
  <2>1. <<rel.type, "TPREL_S">> \in Retypings
    BY <1>4 DEF Retypings
  <2> QED
    BY <1>4, <2>1, LeaveRetyped
<1> QED
  BY <1>2, <1>3, <1>4, LeaveStep, ShortenDropped

LEMMA ImportStep ==
  ASSUME LinkInv, i < Len(relocs), relocs[i + 1].type = "RELAX", i <= Len(relocs),
         _bfd_riscv_relax_import_pcrel, obj' = obj, i' \in Nat \ {0}
  PROVE  LinkInv'
<1>1. rel.type \in {"PCREL_HI20", "PCREL_LO12_I"}
  BY DEF _bfd_riscv_relax_import_pcrel, PcrelTypes
<1>2. CASE ~ Is_Import
  <2>1. UNCHANGED <<obj, secVars>>
    BY <1>2 DEF _bfd_riscv_relax_import_pcrel
  <2> QED
    BY <2>1, StayStep
<1>3. CASE Is_Import /\ rel.type = "PCREL_LO12_I"
  <2>1. <<rel.type, "LO12_I">> \in Retypings
    BY <1>3 DEF Retypings
  <2>2. Leave(Retyped("LO12_I"))
    BY <1>3 DEF _bfd_riscv_relax_import_pcrel
  <2> QED
    BY <2>1, <2>2, LeaveRetyped
<1>4. CASE Is_Import /\ rel.type = "PCREL_HI20"
  <2>1. <<rel.type, "HI20">> \in Retypings /\ <<"RELAX", "LO12_I">> \in Retypings
    BY <1>4 DEF Retypings
  <2>2. relocs' = AbsolutePair /\ UNCHANGED <<obj, contents, syms>>
    BY <1>4 DEF _bfd_riscv_relax_import_pcrel, Leave, AbsolutePair
  <2>3. PairOf(relocs', "HI20", "LO12_I")
    BY <2>2, AtLoop, PairIs
  <2> QED
    BY <2>1, <2>2, <2>3, RetypePair
<1> QED
  BY <1>1, <1>2, <1>3, <1>4

LEMMA GotStep ==
  ASSUME LinkInv, i < Len(relocs), relocs[i + 1].type = "RELAX",
         _bfd_riscv_relax_got_ref, obj' = obj, i' \in Nat \ {0}
  PROVE  LinkInv'
<1>1. /\ <<rel.type, "PCREL_HI20">> \in Retypings
      /\ <<"RELAX", "PCREL_LO12_I">> \in Retypings
  BY DEF _bfd_riscv_relax_got_ref, Retypings
<1>2. relocs' = GotPair /\ UNCHANGED <<obj, contents, syms>>
  BY DEF _bfd_riscv_relax_got_ref, Leave, GotPair
<1>3. i <= Len(relocs)
  BY LenProperties DEF LinkInv, Shaped
<1>4. PairOf(relocs', "PCREL_HI20", "PCREL_LO12_I")
  BY <1>2, <1>3, AtLoop, PairIs
<1> QED
  BY <1>1, <1>2, <1>4, RetypePair

-----------------------------------------------------------------------------
(* Every step, and the theorem                                             *)

LEMMA RelaxingStep ==
  ASSUME LinkInv, Relaxing
  PROVE  LinkInv'
<1>0. i \in Nat \ {0} /\ Next_i \in Nat \ {0}
  BY DEF LinkInv, Next_i
<1>1. CASE BeginSweep
  <2>1. UNCHANGED <<obj, secVars>> /\ i' \in Nat \ {0}
    BY <1>1 DEF BeginSweep
  <2> QED
    BY <2>1, StayStep
<1>2. CASE Skip
  <2>1. UNCHANGED <<obj, secVars>> /\ i' \in Nat \ {0}
    BY <1>0, <1>2 DEF Skip
  <2> QED
    BY <2>1, StayStep
<1>3. CASE RelaxRef
  <2>1. /\ i <= Len(relocs) /\ i < Len(relocs) /\ relocs[i + 1].type = "RELAX"
        /\ obj' = obj /\ i' \in Nat \ {0}
    BY <1>0, <1>3, Zenon DEF RelaxRef, InLoop, Considered, Paired
  <2>2. CASE _bfd_riscv_relax_call
    BY <2>1, <2>2, CallStep
  <2>3. CASE _bfd_riscv_relax_lui
    BY <2>1, <2>3, LuiStep
  <2>4. CASE _bfd_riscv_relax_tls_le
    BY <2>1, <2>4, TlsStep
  <2>5. CASE _bfd_riscv_relax_import_pcrel
    BY <2>1, <2>5, ImportStep
  <2>6. CASE _bfd_riscv_relax_got_ref
    BY <2>1, <2>6, GotStep
  <2> QED
    BY <1>3, <2>2, <2>3, <2>4, <2>5, <2>6, Zenon DEF RelaxRef
<1>4. CASE RelaxAlign
  <2>1. /\ i <= Len(relocs) /\ rel.type = "ALIGN" /\ _bfd_riscv_relax_align
        /\ obj' = obj /\ i' \in Nat \ {0}
    BY <1>0, <1>4 DEF RelaxAlign, InLoop, Considered
  <2> QED
    BY <2>1, AlignStep
<1>5. CASE EndSweep
  <2>1. UNCHANGED <<obj, secVars>> /\ i' \in Nat \ {0}
    BY <1>0, <1>5 DEF EndSweep
  <2> QED
    BY <2>1, StayStep
<1>6. CASE NextSweep
  <2>1. UNCHANGED <<obj, secVars>> /\ i' \in Nat \ {0}
    BY <1>0, <1>6 DEF NextSweep
  <2> QED
    BY <2>1, StayStep
<1> QED
  BY <1>1, <1>2, <1>3, <1>4, <1>5, <1>6, Zenon DEF Relaxing

\* What the linker does around the sweeps, collecting and listing the
\* references and writing the tables, leaves the section alone.
LEMMA TableStep ==
  ASSUME LinkInv, check_relocs \/ Reserve_sections \/ relocate_section \/ final_link
  PROVE  LinkInv'
<1>1. UNCHANGED <<obj, secVars>> /\ UNCHANGED i
  <2>1. CASE check_relocs
    BY <2>1 DEF check_relocs
  <2>2. CASE Reserve_sections
    BY <2>2 DEF Reserve_sections
  <2>3. CASE relocate_section
    BY <2>3 DEF relocate_section
  <2>4. CASE final_link
    BY <2>4, Zenon DEF final_link
  <2> QED
    BY <2>1, <2>2, <2>3, <2>4
<1>2. i' \in Nat \ {0}
  BY <1>1 DEF LinkInv
<1> QED
  BY <1>1, <1>2, StayStep

\* Whatever the linker does next, the section still holds its code, its
\* relocations and its symbols in their places: the inductive step
\* (_bfd_riscv_relax_section and the functions it calls).
THEOREM NextLinkInv == LinkInv /\ [Next]_vars => LinkInv'
<1> SUFFICES ASSUME LinkInv, [Next]_vars PROVE LinkInv'
  OBVIOUS
<1>1. CASE Relaxing
  BY <1>1, RelaxingStep
<1>2. CASE check_relocs \/ Reserve_sections \/ relocate_section \/ final_link
  BY <1>2, TableStep
<1>3. CASE UNCHANGED vars
  <2>1. UNCHANGED <<obj, secVars>> /\ UNCHANGED i
    BY <1>3 DEF vars, relaxVars
  <2>2. i' \in Nat \ {0}
    BY <2>1 DEF LinkInv
  <2> QED
    BY <2>1, <2>2, StayStep
<1> QED
  BY <1>1, <1>2, <1>3 DEF Next

\* The invariant says what CodeKept says, of the present relocations.
LEMMA LinkInvCodeKept == LinkInv => CodeKept
<1> SUFFICES ASSUME LinkInv PROVE CodeKept
  OBVIOUS
<1>1. /\ obj \in Object /\ WellFormed(obj) /\ contents \in Seq(Nat)
      /\ relocs \in Seq(Reloc) /\ Len(relocs) = Len(obj.relocs)
      /\ syms \in Seq(Symbol)
      /\ DOMAIN relocs = 1 .. Len(relocs) /\ DOMAIN syms = 1 .. Len(syms)
  BY LenProperties DEF LinkInv, Shaped
<1>2. /\ CodeIn(obj, contents, relocs) /\ SymbolsIn(obj, contents, syms)
      /\ ExcessIn(obj, contents, relocs)
  BY DEF LinkInv, Kept
<1>3. ASSUME NEW x PROVE LeftIn(contents, x) <=> Left(x)
  BY DEF LeftIn, Left
<1>4. ASSUME NEW p, NEW x PROVE AtIn(contents, p, x) <=> At(p, x)
  BY DEF AtIn, At
<1>5. ASSUME NEW k \in DOMAIN relocs
      PROVE  /\ KeptLen(k) = KeptBytes(obj.relocs[k], relocs[k].type)
             /\ Excess(k) = ExcessOf(obj.relocs[k], relocs[k].type)
  <2>1. KeptLen(k) = KeptBytes(obj.relocs[k], relocs[k].type)
    BY DEF KeptLen, KeptBytes
  <2> QED
    BY <2>1 DEF Excess, ExcessOf
<1>6. InOrderLeft
  BY <1>2 DEF CodeIn, Increasing, InOrderLeft
<1>7. OnlyExcessGone
  BY <1>1, <1>2, <1>3, <1>5 DEF ExcessIn, OnlyExcessGone
<1>8. ASSUME NEW k \in DOMAIN relocs
      PROVE  /\ Intact(k)
             /\ Left(obj.relocs[k].offset) => At(relocs[k].offset, obj.relocs[k].offset)
  <2>1. /\ BlockIn(contents, relocs[k].offset, obj.relocs[k].offset, KeptLen(k))
        /\ PlaceIn(contents, relocs[k].offset, obj.relocs[k].offset)
    BY <1>1, <1>2, <1>5 DEF CodeIn
  <2>2. Intact(k)
    BY <2>1 DEF BlockIn, Intact
  <2>3. Left(obj.relocs[k].offset) => At(relocs[k].offset, obj.relocs[k].offset)
    BY <1>3, <1>4, <2>1 DEF PlaceIn
  <2> QED
    BY <2>2, <2>3
<1>9. \A s \in DOMAIN syms :
        obj.syms[s].def = "sec" => At(syms[s].value, obj.syms[s].value)
  BY <1>1, <1>2, <1>4 DEF SymbolsIn
<1> QED
  BY <1>6, <1>7, <1>8, <1>9 DEF CodeKept

\* The code of every section is kept in every run of the linker, for every
\* reach, alignment and base address.
THEOREM LinkInvAlways == Spec => []LinkInv
BY InitLinkInv, NextLinkInv, PTL DEF Spec

\* However many sequences are shortened and paddings deleted, the section
\* holds what the assembler put there except the excess, with relocations and
\* symbols in their places (riscv_relax_delete_bytes and its callers).
THEOREM CodeKeptAlways == Spec => []CodeKept
<1>1. Spec => []LinkInv
  BY LinkInvAlways
<1> QED
  BY <1>1, LinkInvCodeKept, PTL
-----------------------------------------------------------------------------
(* Jumps reach: the invariant                                              *)

\* Reach for the relocation r with the symbol s.
ReachesIn(r, s) ==
  LET d == s.value + r.addend - r.offset
  IN s.def = "sec" /\ ~ (s.global /\ s.weak) =>
       /\ r.type = "JAL" => VALID_UJTYPE_IMM(d)
       /\ r.type = "RVC_JUMP" => VALID_RVC_J_IMM(d)

JumpTypes == {"CALL", "JAL", "RVC_JUMP"}

\* A jump goes where the call went, and paddings stay at even offsets.
SideIn(ob, rs, ss) ==
  \A k \in 1 .. Len(rs) :
    /\ rs[k].type \in JumpTypes => rs[k].sym = ob.relocs[k].sym
    /\ ob.relocs[k].type = "ALIGN" => rs[k].offset % 2 = 0
    /\ ReachesIn(rs[k], ss[rs[k].sym])

\* The inductive invariant.  Reach alone is not inductive: that a deletion is
\* on one side of a jump and of its target needs LinkInv, and that it takes
\* an even number of bytes needs the offsets of the paddings.
ReachInv ==
  /\ LinkInv
  /\ obj \in Objects
  /\ SideIn(obj, relocs, syms)

-----------------------------------------------------------------------------
(* One deletion                                                            *)

Moved(p, a, n) == IF p > a THEN p - n ELSE p

LEMMA MovedNat ==
  ASSUME NEW p \in Nat, NEW a \in Nat, NEW n \in Nat, p <= a \/ p >= a + n
  PROVE  Moved(p, a, n) \in Nat
BY DEF Moved

\* Deleting n bytes between two places, or beside them.
LEMMA DistanceKept ==
  ASSUME NEW p \in Nat, NEW v \in Nat, NEW a \in Nat, NEW n \in Nat, n % 2 = 0,
         p <= a \/ p >= a + n, v <= a \/ v >= a + n,
         NEW reach \in Nat, (v - p) % 2 = 0, Within(v - p, reach)
  PROVE  /\ (Moved(v, a, n) - Moved(p, a, n)) % 2 = 0
         /\ Within(Moved(v, a, n) - Moved(p, a, n), reach)
<1> DEFINE d == v - p
           e == Moved(v, a, n) - Moved(p, a, n)
<1>1. \/ e = d
      \/ e = d - n /\ e >= 0
      \/ e = d + n /\ e <= 0
  BY DEF Moved
<1>2. d \in Int /\ d % 2 = 0 /\ d >= - reach /\ d <= reach - 1
  BY DEF Within
<1> HIDE DEF d, e
<1>3. e \in Int /\ e % 2 = 0
  BY <1>1, <1>2
<1>4. e >= - reach /\ e <= reach - 1
  BY <1>1, <1>2
<1> QED
  BY <1>3, <1>4 DEF Within, e

\* What is left of a call is a jump to its symbol.
LEMMA JumpOfCall ==
  ASSUME NEW ob \in Object, WellFormed(ob), NEW l \in 1 .. Len(ob.relocs),
         NEW w, Follows(w, ob.relocs[l]), w.type \in {"JAL", "RVC_JUMP"}
  PROVE  /\ w \in Reloc /\ w.addend = 0
         /\ ob.relocs[l].sym \in 1 .. Len(ob.syms)
         /\ KeptBytes(ob.relocs[l], w.type) \in {2, 4}
<1> DEFINE q == ob.relocs[l]
<1>1. l \in DOMAIN ob.relocs /\ AsmRelocOf(ob, q)
  BY AsmReloc
<1>2. Placed(ob, q)
  BY <1>1 DEF WellFormed
<1>3. w \in Reloc /\ w.type \in TypesOf(q.type) /\ w.addend = q.addend
  BY DEF Follows
<1> HIDE DEF q
<1>4. q.type = "CALL"
  BY <1>3 DEF TypesOf
<1>5. q.addend = 0 /\ q.sym \in DOMAIN ob.syms
  BY <1>2, <1>4 DEF Placed
<1>6. DOMAIN ob.syms = 1 .. Len(ob.syms)
  BY LenProperties DEF Object
<1>7. KeptBytes(q, w.type) \in {2, 4}
  BY <1>4 DEF KeptBytes
<1> QED
  BY <1>3, <1>5, <1>6, <1>7 DEF q

LEMMA BlockStart ==
  ASSUME NEW c, NEW p \in Nat, NEW o \in Nat, NEW m \in Nat, m > 0,
         BlockIn(c, p, o, m)
  PROVE  p + 1 <= Len(c) /\ c[p + 1] = o
<1>1. p + 1 \in p + 1 .. p + m /\ o + (p + 1 - p - 1) = o
  OBVIOUS
<1> QED
  BY <1>1 DEF BlockIn

\* A jump is before or behind what is deleted for relocation k.
LEMMA JumpOutside ==
  ASSUME NEW ob, NEW c, NEW rs, NEW ss, Shaped(ob, c, rs, ss),
         CodeIn(ob, c, rs), NEW k, NEW len, NEW r, Shortening(ob, rs, k, len, r),
         NEW l \in 1 .. Len(rs), NEW w, w = IF l = k THEN r ELSE rs[l],
         w.type \in {"JAL", "RVC_JUMP"}
  PROVE  LET a == r.offset + len
             n == Footprint(ob.relocs[k]) - len
         IN /\ w.offset \in Nat
            /\ w.offset <= a \/ (w.offset >= a + n /\ w.offset < Len(c))
<1> DEFINE o == ob.relocs[k]
           q == ob.relocs[l]
           a == r.offset + len
           b == o.offset + len
           n == Footprint(o) - len
<1>1. /\ k \in 1 .. Len(ob.relocs) /\ AsmRelocOf(ob, o) /\ r \in Reloc
      /\ r.offset \in Nat /\ len \in Nat
      /\ a \in Nat /\ n \in Nat /\ n > 0 /\ b \in Nat
      /\ b + n = End(o)
      /\ a + n <= Len(c) /\ BlockIn(c, a, b, n)
  BY Deleted
<1>2. CASE l = k
  <2>1. w = r /\ a = r.offset + len
    BY <1>2
  <2> HIDE DEF a
  <2>2. r.offset \in Nat /\ len \in Nat
    BY <1>1
  <2>3. r.offset <= a
    BY <2>1, <2>2
  <2> HIDE DEF a
  <2> QED
    BY <2>1, <2>2, <2>3 DEF a
<1>3. CASE l # k
  <2>1. /\ ob \in Object /\ WellFormed(ob) /\ c \in Seq(Nat)
        /\ Len(rs) = Len(ob.relocs) /\ Follows(w, q)
        /\ BlockIn(c, w.offset, q.offset, KeptBytes(q, w.type))
        /\ PlaceIn(c, w.offset, q.offset)
    BY <1>3 DEF Shaped, CodeIn
  <2>2. w \in Reloc /\ KeptBytes(q, w.type) \in {2, 4}
    BY <2>1, JumpOfCall
  <2>3. AsmRelocOf(ob, q)
    BY <2>1, AsmReloc
  <2>4. o.offset <= b /\ Footprint(o) > 0
    <3>1. o.offset \in Nat /\ Footprint(o) \in Nat /\ b = o.offset + len
          /\ n = Footprint(o) - len
      BY <1>1 DEF AsmRelocOf
    <3>2. len \in Nat /\ n > 0
      BY <1>1
    <3> HIDE DEF o, b, n
    <3> QED
      BY <3>1, <3>2
  <2>5. \/ q.offset + Footprint(q) <= o.offset /\ q.offset <= o.offset
        \/ q.offset >= b + n
    BY <1>1, <1>3, <2>1, <2>4, Apart
  <2>6. q.offset \in Nat /\ o.offset \in Nat
    BY <1>1, <2>3, AsmRelocIs
  <2>7. w.offset \in Nat /\ Len(c) \in Nat
    BY <2>1, <2>2, LenProperties DEF Reloc
  <2> HIDE DEF o, q, a, b, n
  <2>8. w.offset + 1 <= Len(c) /\ c[w.offset + 1] = q.offset
    <3> DEFINE m == KeptBytes(q, w.type)
    <3>1. m \in Nat /\ m > 0
      BY <2>2
    <3>2. BlockIn(c, w.offset, q.offset, m)
      BY <2>1
    <3> HIDE DEF m
    <3> QED
      BY <2>6, <2>7, <3>1, <3>2, BlockStart
  <2>9. AtIn(c, w.offset, q.offset)
    <3>1. w.offset < Len(c)
      BY <2>7, <2>8
    <3>2. PlaceIn(c, w.offset, q.offset)
      BY <2>1
    <3> QED
      BY <2>7, <3>1, <3>2 DEF PlaceIn
  <2>10. q.offset <= b \/ q.offset >= b + n
    BY <1>1, <2>4, <2>5, <2>6
  <2>11. w.offset <= a \/ w.offset >= a + n
    <3>1. a \in Nat /\ n \in Nat /\ b \in Nat /\ BlockIn(c, a, b, n)
      BY <1>1
    <3>2. c \in Seq(Nat)
      BY <2>1
    <3> QED
      BY <2>6, <2>7, <2>9, <2>10, <3>1, <3>2, CutPlace
  <2>12. w.offset < Len(c)
    BY <2>7, <2>8
  <2> QED
    BY <2>7, <2>11, <2>12 DEF a, n, o
<1> QED
  BY <1>2, <1>3

\* So is a label.
LEMMA LabelOutside ==
  ASSUME NEW ob, NEW c, NEW rs, NEW ss, Shaped(ob, c, rs, ss),
         CodeIn(ob, c, rs), SymbolsIn(ob, c, ss),
         NEW k, NEW len, NEW r, Shortening(ob, rs, k, len, r),
         NEW s \in 1 .. Len(ss), ss[s].def = "sec"
  PROVE  LET a == r.offset + len
             n == Footprint(ob.relocs[k]) - len
         IN /\ ss[s].value \in Nat /\ ss[s].value <= Len(c)
            /\ ss[s].value <= a \/ ss[s].value >= a + n
<1> DEFINE o == ob.relocs[k]
           a == r.offset + len
           b == o.offset + len
           n == Footprint(o) - len
           y == ss[s]
           x == ob.syms[s].value
<1>1. /\ k \in 1 .. Len(ob.relocs) /\ AsmRelocOf(ob, o) /\ len \in Nat
      /\ a \in Nat /\ n \in Nat /\ b \in Nat
      /\ b + n = End(o)
      /\ a + n <= Len(c) /\ BlockIn(c, a, b, n)
  BY Deleted
<1>2. /\ ob \in Object /\ WellFormed(ob) /\ c \in Seq(Nat)
      /\ Len(ss) = Len(ob.syms) /\ ss \in Seq(Symbol)
      /\ ob.syms[s].def = "sec"
  BY DEF Shaped
<1>3. /\ k \in DOMAIN ob.relocs /\ s \in DOMAIN ob.syms
      /\ ob.syms[s] \in Symbol /\ y \in Symbol
  <2>1. ob.relocs \in Seq(Reloc) /\ ob.syms \in Seq(Symbol)
    BY <1>2 DEF Object
  <2>2. DOMAIN ob.relocs = 1 .. Len(ob.relocs) /\ DOMAIN ob.syms = 1 .. Len(ob.syms)
    BY <2>1, LenProperties
  <2>3. ob.syms[s] \in Symbol /\ y \in Symbol
    BY <1>2, <2>1, ElementOfSeq
  <2> QED
    BY <1>1, <1>2, <2>2, <2>3
<1>4. x \in Nat /\ y.value \in Nat /\ Len(c) \in Nat
  BY <1>2, <1>3, LenProperties DEF Symbol
<1>5. AtIn(c, y.value, x)
  BY <1>2 DEF SymbolsIn
<1>6. Outside(x, o)
  BY <1>2, <1>3 DEF WellFormed, Label
<1>7. o.offset \in Nat /\ b = o.offset + len
  BY <1>1 DEF AsmRelocOf
<1> HIDE DEF o, a, b, n, y, x
<1>8. x <= b \/ x >= b + n
  <2>1. x <= o.offset \/ x >= End(o)
    BY <1>6 DEF Outside
  <2>2. len \in Nat /\ b + n = End(o)
    BY <1>1
  <2>3. x \in Nat
    BY <1>4
  <2> QED
    BY <1>7, <2>1, <2>2, <2>3
<1>9. y.value <= a \/ y.value >= a + n
  <2>1. a \in Nat /\ n \in Nat /\ b \in Nat /\ BlockIn(c, a, b, n)
    BY <1>1
  <2>2. c \in Seq(Nat)
    BY <1>2
  <2> QED
    BY <1>4, <1>5, <1>8, <2>1, <2>2, CutPlace
<1>10. y.value <= Len(c)
  BY <1>4, <1>5 DEF AtIn
<1> QED
  BY <1>4, <1>9, <1>10 DEF y, a, n, o

\* What moving changes in a relocation and in a symbol.
LEMMA MovedRelocFields ==
  ASSUME NEW w \in Reloc, NEW a, NEW n, NEW l
  PROVE  LET t == MovedReloc(w, a, n, l)
         IN /\ t.type = w.type /\ t.sym = w.sym /\ t.addend = w.addend
            /\ t.offset = IF w.offset > a /\ w.offset < l THEN w.offset - n
                          ELSE w.offset
BY DEF MovedReloc, Reloc

LEMMA MovedSymbolFields ==
  ASSUME NEW y \in Symbol, NEW a \in Nat, NEW n \in Nat, NEW l \in Nat
  PROVE  LET u == MovedSymbol(y, a, n, l)
         IN /\ u.def = y.def /\ u.global = y.global /\ u.weak = y.weak
            /\ y.def = "sec" /\ y.value <= l => u.value = Moved(y.value, a, n)
<1>1. y.value \in Nat
  BY DEF Symbol
<1> QED
  BY <1>1 DEF MovedSymbol, Symbol, Moved

LEMMA EvenMinus ==
  ASSUME NEW p \in Int, NEW n \in Int, p % 2 = 0, n % 2 = 0
  PROVE  (p - n) % 2 = 0
OBVIOUS

\* The reach of a jump to a label.
LEMMA ReachIs ==
  ASSUME NEW r, NEW s, r.type \in {"JAL", "RVC_JUMP"}, s.def = "sec",
         ~ (s.global /\ s.weak), s.value \in Nat, r.offset \in Nat, r.addend = 0
  PROVE  LET reach == IF r.type = "JAL" THEN JReach ELSE CReach
             d == s.value - r.offset
         IN ReachesIn(r, s) <=> d % 2 = 0 /\ Within(d, reach)
<1>1. s.value + 0 - r.offset = s.value - r.offset
  OBVIOUS
<1> QED
  BY <1>1 DEF ReachesIn, VALID_UJTYPE_IMM, VALID_RVC_J_IMM

\* A deletion of an even number of bytes keeps the jumps in reach, if the one
\* it was made for is.
LEMMA DeleteReaches ==
  ASSUME NEW ob, NEW c, NEW rs, NEW ss, Shaped(ob, c, rs, ss),
         Kept(ob, c, rs, ss), SideIn(ob, rs, ss),
         NEW k, NEW len, NEW r, NEW d, NEW ts, NEW us,
         Deletes(ob, c, rs, ss, k, len, r, d, ts, us),
         (Footprint(ob.relocs[k]) - len) % 2 = 0,
         r.type \in JumpTypes => r.sym = rs[k].sym /\ rs[k].type \in JumpTypes,
         ReachesIn(r, ss[r.sym])
  PROVE  SideIn(ob, ts, us)
<1> DEFINE a == r.offset + len
           n == Footprint(ob.relocs[k]) - len
<1>1. /\ Shortening(ob, rs, k, len, r)
      /\ ts = [l \in 1 .. Len(rs) |-> RelocAfter(ob, c, rs, k, len, r, l)]
      /\ us = [s \in 1 .. Len(ss) |-> MovedSymbol(ss[s], a, n, Len(c))]
      /\ IsCut(d, c, a, n)
  BY DEF Deletes
<1>2. /\ CodeIn(ob, c, rs) /\ SymbolsIn(ob, c, ss)
      /\ ob \in Object /\ WellFormed(ob) /\ c \in Seq(Nat)
      /\ rs \in Seq(Reloc) /\ Len(rs) = Len(ob.relocs)
      /\ ss \in Seq(Symbol) /\ Len(ss) = Len(ob.syms)
      /\ \A l \in 1 .. Len(rs) : Follows(rs[l], ob.relocs[l])
  BY DEF Kept, Shaped
<1>3. Len(rs) \in Nat /\ Len(ss) \in Nat /\ Len(c) \in Nat
  BY <1>2, LenProperties
<1>4. /\ a \in Nat /\ n \in Nat /\ n % 2 = 0 /\ a + n <= Len(c)
      /\ k \in 1 .. Len(rs)
  BY <1>1, <1>2, Deleted
<1>5. Follows(r, ob.relocs[k]) /\ r.offset = rs[k].offset
  BY <1>1 DEF Shortening
<1>6. Shaped(ob, d, ts, us)
  BY DeleteKeeps
<1>7. Len(ts) = Len(rs) /\ Len(us) = Len(ss)
  BY <1>2, <1>6 DEF Shaped
<1> SUFFICES ASSUME NEW l \in 1 .. Len(rs)
             PROVE  /\ ts[l].type \in JumpTypes => ts[l].sym = ob.relocs[l].sym
                    /\ ob.relocs[l].type = "ALIGN" => ts[l].offset % 2 = 0
                    /\ ReachesIn(ts[l], us[ts[l].sym])
  BY <1>7 DEF SideIn
<1> DEFINE w == IF l = k THEN r ELSE rs[l]
           t == ts[l]
<1>8. t = MovedReloc(w, a, n, Len(c))
  BY <1>1 DEF RelocAfter
<1>9. Follows(w, ob.relocs[l]) /\ w.offset = rs[l].offset /\ w \in Reloc
  BY <1>2, <1>5 DEF Follows
<1>10. /\ w.type \in JumpTypes => w.sym = ob.relocs[l].sym
       /\ ob.relocs[l].type = "ALIGN" => w.offset % 2 = 0
       /\ ReachesIn(w, ss[w.sym])
  <2>1. /\ rs[l].type \in JumpTypes => rs[l].sym = ob.relocs[l].sym
        /\ ob.relocs[l].type = "ALIGN" => rs[l].offset % 2 = 0
        /\ ReachesIn(rs[l], ss[rs[l].sym])
    BY DEF SideIn
  <2>2. CASE l = k
    BY <1>5, <2>1, <2>2
  <2>3. CASE l # k
    BY <2>1, <2>3
  <2> QED
    BY <2>2, <2>3
<1>11. w.offset \in Nat
  BY <1>9 DEF Reloc
<1> HIDE DEF a, n, t, w
<1>12. /\ t.type = w.type /\ t.sym = w.sym /\ t.addend = w.addend
       /\ t.offset = IF w.offset > a /\ w.offset < Len(c) THEN w.offset - n
                     ELSE w.offset
  BY <1>8, <1>9, MovedRelocFields
<1>13. t.type \in JumpTypes => t.sym = ob.relocs[l].sym
  BY <1>10, <1>12
<1>14. ob.relocs[l].type = "ALIGN" => t.offset % 2 = 0
  <2>1. (w.offset % 2 = 0) => (w.offset - n) % 2 = 0
    <3>1. w.offset \in Int /\ n \in Int /\ n % 2 = 0
      BY <1>4, <1>11
    <3> QED
      BY <3>1, EvenMinus
  <2> QED
    BY <1>10, <1>12, <2>1
<1>15. ReachesIn(t, us[t.sym])
  <2> DEFINE y == ss[w.sym]
             z == us[w.sym]
  <2>1. SUFFICES ASSUME w.type \in {"JAL", "RVC_JUMP"}, z.def = "sec",
                        ~ (z.global /\ z.weak)
                 PROVE  ReachesIn(t, z)
    BY <1>12 DEF ReachesIn
  <2>2. /\ w.addend = 0 /\ ob.relocs[l].sym \in 1 .. Len(ss)
    BY <1>2, <1>9, <2>1, JumpOfCall
  <2>3. w.sym \in 1 .. Len(ss)
    BY <1>10, <2>1, <2>2 DEF JumpTypes
  <2>4. y \in Symbol /\ z = MovedSymbol(y, a, n, Len(c))
    <3>1. y \in Symbol
      BY <1>2, <2>3, ElementOfSeq
    <3>2. z = MovedSymbol(y, a, n, Len(c))
      <4>1. us = [s \in 1 .. Len(ss) |-> MovedSymbol(ss[s], a, n, Len(c))]
        BY <1>1
      <4> QED
        BY <2>3, <4>1
    <3> QED
      BY <3>1, <3>2
  <2> HIDE DEF y, z
  <2>5. /\ z.def = y.def /\ z.global = y.global /\ z.weak = y.weak
        /\ y.def = "sec" /\ y.value <= Len(c) => z.value = Moved(y.value, a, n)
    <3> DEFINE u == MovedSymbol(y, a, n, Len(c))
    <3>1. /\ u.def = y.def /\ u.global = y.global /\ u.weak = y.weak
          /\ y.def = "sec" /\ y.value <= Len(c) => u.value = Moved(y.value, a, n)
      <4>1. y \in Symbol /\ a \in Nat /\ n \in Nat /\ Len(c) \in Nat
        BY <1>3, <1>4, <2>4
      <4> QED
        BY <4>1, MovedSymbolFields
    <3>2. z = u
      BY <2>4
    <3> HIDE DEF u
    <3> QED
      BY <3>1, <3>2
  <2>6. /\ y.value \in Nat /\ y.value <= Len(c)
        /\ y.value <= a \/ y.value >= a + n
    <3>1. ss[w.sym].def = "sec"
      BY <2>1, <2>5 DEF y
    <3> QED
      BY <1>1, <1>2, <2>3, <3>1, LabelOutside DEF a, n, y
  <2>7. w.offset <= a \/ (w.offset >= a + n /\ w.offset < Len(c))
    <3>1. w = IF l = k THEN r ELSE rs[l]
      BY DEF w
    <3> QED
      BY <1>1, <1>2, <2>1, <3>1, JumpOutside DEF a, n
  <2>8. z.value = Moved(y.value, a, n) /\ y.def = "sec" /\ ~ (y.global /\ y.weak)
    BY <2>1, <2>5, <2>6
  <2>9. t.offset = Moved(w.offset, a, n)
    BY <1>4, <1>11, <1>12, <2>7 DEF Moved
  <2> DEFINE reach == IF w.type = "JAL" THEN JReach ELSE CReach
  <2>10. reach \in Nat
    BY RelaxConstants
  <2>11. (y.value - w.offset) % 2 = 0 /\ Within(y.value - w.offset, reach)
    <3>1. ReachesIn(w, y)
      BY <1>10 DEF y
    <3> QED
      BY <1>11, <2>1, <2>2, <2>6, <2>8, <3>1, ReachIs
  <2> HIDE DEF reach
  <2>12. /\ (z.value - t.offset) % 2 = 0 /\ Within(z.value - t.offset, reach)
    <3>1. /\ a \in Nat /\ n \in Nat /\ n % 2 = 0
          /\ w.offset \in Nat /\ y.value \in Nat
      BY <1>4, <1>11, <2>6
    <3>2. w.offset <= a \/ w.offset >= a + n
      BY <2>7
    <3>3. y.value <= a \/ y.value >= a + n
      BY <2>6
    <3>4. /\ (Moved(y.value, a, n) - Moved(w.offset, a, n)) % 2 = 0
          /\ Within(Moved(y.value, a, n) - Moved(w.offset, a, n), reach)
      BY <2>10, <2>11, <3>1, <3>2, <3>3, DistanceKept
    <3> QED
      BY <2>8, <2>9, <3>4
  <2>13. z.value \in Nat /\ t.offset \in Nat
    <3>1. a \in Nat /\ n \in Nat /\ w.offset \in Nat /\ y.value \in Nat
      BY <1>4, <1>11, <2>6
    <3>2. Moved(y.value, a, n) \in Nat
      BY <2>6, <3>1, MovedNat
    <3>3. Moved(w.offset, a, n) \in Nat
      BY <2>7, <3>1, MovedNat
    <3> QED
      BY <2>8, <2>9, <3>2, <3>3
  <2>14. t.addend = 0 /\ t.type = w.type
    BY <1>12, <2>2
  <2> QED
    BY <2>1, <2>12, <2>13, <2>14, ReachIs DEF reach
<1> QED
  BY <1>13, <1>14, <1>15 DEF t

-----------------------------------------------------------------------------
(* Steps that delete nothing                                               *)

\* A new type that is no jump.
LEMMA RetypeReaches ==
  ASSUME NEW ob, NEW rs, NEW ss, SideIn(ob, rs, ss),
         NEW ts, Len(ts) = Len(rs),
         \A l \in 1 .. Len(rs) :
           \/ ts[l] = rs[l]
           \/ ts[l].type \notin JumpTypes /\ ts[l].offset = rs[l].offset
  PROVE  SideIn(ob, ts, ss)
<1> SUFFICES ASSUME NEW l \in 1 .. Len(rs)
             PROVE  /\ ts[l].type \in JumpTypes => ts[l].sym = ob.relocs[l].sym
                    /\ ob.relocs[l].type = "ALIGN" => ts[l].offset % 2 = 0
                    /\ ReachesIn(ts[l], ss[ts[l].sym])
  BY DEF SideIn
<1>1. /\ rs[l].type \in JumpTypes => rs[l].sym = ob.relocs[l].sym
      /\ ob.relocs[l].type = "ALIGN" => rs[l].offset % 2 = 0
      /\ ReachesIn(rs[l], ss[rs[l].sym])
  BY DEF SideIn
<1>2. CASE ts[l] = rs[l]
  BY <1>1, <1>2
<1>3. CASE ts[l].type \notin JumpTypes /\ ts[l].offset = rs[l].offset
  BY <1>1, <1>3 DEF ReachesIn, JumpTypes
<1> QED
  BY <1>2, <1>3

LEMMA StayReaches ==
  ASSUME SideIn(obj, relocs, syms), UNCHANGED <<obj, secVars>>
  PROVE  SideIn(obj, relocs, syms)'
BY DEF secVars

\* The current relocation gets a type that is no jump.
LEMMA LeaveReaches ==
  ASSUME LinkInv, LinkInv', SideIn(obj, relocs, syms), i <= Len(relocs),
         NEW u \in RelocType \ JumpTypes,
         relocs' = Retyped(u) \/ relocs' = Dropped, UNCHANGED <<obj, syms>>
  PROVE  SideIn(obj, relocs, syms)'
<1>1. /\ i \in 1 .. Len(relocs) /\ relocs \in Seq(Reloc) /\ rel \in Reloc
      /\ relocs[i] = rel
  BY AtLoop DEF rel
<1>2. Len(relocs') = Len(relocs)
  BY DEF LinkInv, Shaped
<1>3. ASSUME NEW l \in 1 .. Len(relocs)
      PROVE  \/ relocs'[l] = relocs[l]
             \/ relocs'[l].type \notin JumpTypes /\ relocs'[l].offset = relocs[l].offset
  <2>1. CASE relocs' = Retyped(u)
    <3>1. relocs'[l] = IF l = i THEN [rel EXCEPT !.type = u] ELSE relocs[l]
      BY <1>1, <2>1, RetypedIs
    <3>2. [rel EXCEPT !.type = u].type = u /\ [rel EXCEPT !.type = u].offset = rel.offset
      BY <1>1, RetypedReloc
    <3> QED
      BY <1>1, <3>1, <3>2
  <2>2. CASE relocs' = Dropped
    <3> DEFINE v == [rel EXCEPT !.type = "NONE", !.sym = 1]
    <3>1. relocs'[l] = IF l = i THEN v ELSE relocs[l]
      BY <1>1, <2>2, DroppedIs
    <3>2. v.type = "NONE" /\ v.offset = rel.offset
      BY <1>1, DroppedReloc
    <3> HIDE DEF v
    <3> QED
      BY <1>1, <3>1, <3>2 DEF JumpTypes
  <2> QED
    BY <2>1, <2>2
<1>4. SideIn(obj, relocs', syms)
  BY <1>2, <1>3, RetypeReaches
<1> QED
  BY <1>4

\* So does the R_RISCV_RELAX behind it.
LEMMA PairReaches ==
  ASSUME LinkInv, LinkInv', SideIn(obj, relocs, syms), i < Len(relocs),
         NEW u \in RelocType \ JumpTypes, NEW v \in RelocType \ JumpTypes,
         PairOf(relocs', u, v), UNCHANGED <<obj, syms>>
  PROVE  SideIn(obj, relocs, syms)'
<1>1. Len(relocs') = Len(relocs)
  BY DEF LinkInv, Shaped
<1>2. ASSUME NEW l \in 1 .. Len(relocs)
      PROVE  \/ relocs'[l] = relocs[l]
             \/ relocs'[l].type \notin JumpTypes /\ relocs'[l].offset = relocs[l].offset
  BY DEF PairOf, rel
<1>3. SideIn(obj, relocs', syms)
  BY <1>1, <1>2, RetypeReaches
<1> QED
  BY <1>3

-----------------------------------------------------------------------------
(* The relaxation functions                                                *)

LEMMA DeletingReaches ==
  ASSUME LinkInv, SideIn(obj, relocs, syms), i <= Len(relocs),
         NEW len, NEW r, NEW u, Becomes(r, u),
         Deletes(obj, contents, relocs, syms, i, len, r, contents', relocs', syms'),
         (Footprint(obj.relocs[i]) - len) % 2 = 0,
         u \in JumpTypes => rel.type \in JumpTypes,
         u \in {"JAL", "RVC_JUMP"} => ReachesIn(r, sym),
         obj' = obj
  PROVE  SideIn(obj, relocs, syms)'
<1>1. Shaped(obj, contents, relocs, syms) /\ Kept(obj, contents, relocs, syms)
  BY DEF LinkInv
<1>2. r.type = u /\ (u # "NONE" => r.sym = rel.sym)
  BY DEF Becomes
<1>3. r.type \in JumpTypes => r.sym = relocs[i].sym /\ relocs[i].type \in JumpTypes
  BY <1>2 DEF JumpTypes, rel
<1>4. ReachesIn(r, syms[r.sym])
  <2>1. CASE u \in {"JAL", "RVC_JUMP"}
    <3>1. r.sym = rel.sym
      BY <1>2, <2>1
    <3> QED
      BY <2>1, <3>1 DEF sym
  <2>2. CASE u \notin {"JAL", "RVC_JUMP"}
    BY <1>2, <2>2 DEF ReachesIn
  <2> QED
    BY <2>1, <2>2
<1>5. SideIn(obj, relocs', syms')
  BY <1>1, <1>3, <1>4, DeleteReaches
<1> QED
  BY <1>5

\* The distance that is tested is the one of the jump.
LEMMA FoffIs ==
  ASSUME sym.def = "sec", sym.value \in Nat, rel \in Reloc
  PROVE  foff = sym.value + rel.addend - rel.offset
<1>1. symval = rel.addend + (SecAddr + sym.value)
  BY DEF symval
<1>2. foff = symval - (SecAddr + rel.offset)
  BY DEF foff
<1>3. rel.addend \in Nat /\ rel.offset \in Nat /\ SecAddr \in Nat
  BY RelaxConstants DEF Reloc
<1> QED
  BY <1>1, <1>2, <1>3

LEMMA CallReaches ==
  ASSUME LinkInv, LinkInv', SideIn(obj, relocs, syms), i <= Len(relocs),
         _bfd_riscv_relax_call, obj' = obj
  PROVE  SideIn(obj, relocs, syms)'
<1>1. CASE VALID_UJTYPE_IMM(foff) \/ near_zero
  <2> DEFINE u == Jump.type
             len == Jump.len
  <2>1. /\ <<rel.type, u, 8, len>> \in Shortenings
        /\ len \in {2, 4} /\ u # "CALL" /\ rel.type = "CALL"
        /\ u = "JAL" /\ ~ Is_Import => VALID_UJTYPE_IMM(foff)
        /\ u = "RVC_JUMP" => VALID_RVC_J_IMM(foff)
    <3>1. rel.type = "CALL"
      BY DEF _bfd_riscv_relax_call
    <3> QED
      BY <3>1 DEF Jump, Shortenings
  <2>2. riscv_relax_delete_bytes(Retyped(u), rel.offset + len, 8 - len)
    BY <1>1 DEF _bfd_riscv_relax_call, Shorten
  <2> HIDE DEF u, len
  <2>3. PICK r : /\ Deletes(obj, contents, relocs, syms, i, len, r,
                            contents', relocs', syms')
                 /\ Becomes(r, u)
                 /\ Footprint(obj.relocs[i]) = 8
    BY <2>1, <2>2, ShortenDeletes
  <2>4. (8 - len) % 2 = 0
    BY <2>1
  <2>5. rel \in Reloc /\ sym.value \in Nat
    <3>1. /\ i \in 1 .. Len(relocs) /\ rel \in Reloc /\ relocs[i] = rel
          /\ Follows(rel, obj.relocs[i])
      BY AtLoop DEF rel
    <3>2. /\ obj \in Object /\ WellFormed(obj) /\ Len(relocs) = Len(obj.relocs)
          /\ syms \in Seq(Symbol) /\ Len(syms) = Len(obj.syms)
      BY DEF LinkInv, Shaped
    <3>3. i \in DOMAIN obj.relocs
      BY <3>1, <3>2, AsmReloc
    <3>4. obj.relocs[i].sym \in DOMAIN obj.syms
      BY <3>2, <3>3 DEF WellFormed, Placed
    <3>5. DOMAIN obj.syms = 1 .. Len(obj.syms)
      BY <3>2, LenProperties DEF Object
    <3>6. rel.sym = obj.relocs[i].sym
      BY <2>1, <3>1 DEF SideIn, JumpTypes
    <3>7. syms[rel.sym] \in Symbol
      BY <3>2, <3>4, <3>5, <3>6, ElementOfSeq
    <3> QED
      BY <3>1, <3>7 DEF sym, Symbol
  <2>6. u \in {"JAL", "RVC_JUMP"} => ReachesIn(r, sym)
    <3>1. SUFFICES ASSUME u \in {"JAL", "RVC_JUMP"}, sym.def = "sec",
                          ~ (sym.global /\ sym.weak)
                   PROVE  ReachesIn(r, sym)
      BY DEF ReachesIn
    <3>2. foff = sym.value + r.addend - r.offset /\ r.type = u
      BY <2>3, <2>5, <3>1, FoffIs DEF Becomes
    <3>3. ~ Is_Import
      BY <3>1 DEF Is_Import
    <3> QED
      BY <2>1, <3>2, <3>3 DEF ReachesIn
  <2>7. u \in JumpTypes => rel.type \in JumpTypes
    BY <2>1 DEF JumpTypes
  <2>8. (Footprint(obj.relocs[i]) - len) % 2 = 0
    BY <2>3, <2>4
  <2> QED
    BY <2>3, <2>6, <2>7, <2>8, DeletingReaches
<1>2. CASE ~ (VALID_UJTYPE_IMM(foff) \/ near_zero)
  <2>1. UNCHANGED <<obj, secVars>>
    BY <1>2 DEF _bfd_riscv_relax_call, Leave, secVars
  <2> QED
    BY <2>1, StayReaches
<1> QED
  BY <1>1, <1>2

\* A shortening that leaves no jump.
LEMMA ShortenReaches ==
  ASSUME LinkInv, SideIn(obj, relocs, syms), i <= Len(relocs),
         NEW u \in {"NONE", "RVC_LUI"}, NEW len \in {0, 2},
         <<rel.type, u, 4, len>> \in Shortenings,
         NEW rs, rs = Retyped(u) \/ (u = "NONE" /\ rs = Dropped),
         NEW addr, addr = rel.offset + len, NEW count, count = 4 - len,
         Shorten(rs, addr, count), obj' = obj
  PROVE  SideIn(obj, relocs, syms)'
<1>1. riscv_relax_delete_bytes(rs, addr, count)
  BY DEF Shorten
<1>2. PICK r : /\ Deletes(obj, contents, relocs, syms, i, len, r,
                          contents', relocs', syms')
               /\ Becomes(r, u)
               /\ Footprint(obj.relocs[i]) = 4
  BY <1>1, ShortenDeletes
<1>3. (4 - len) % 2 = 0
  OBVIOUS
<1>4. u \notin JumpTypes
  BY DEF JumpTypes
<1>5. (Footprint(obj.relocs[i]) - len) % 2 = 0
  BY <1>2, <1>3
<1> QED
  BY <1>2, <1>4, <1>5, DeletingReaches DEF JumpTypes

\* A step that shortens nothing.
LEMMA LeavingReaches ==
  ASSUME LinkInv, LinkInv', SideIn(obj, relocs, syms), i <= Len(relocs), obj' = obj,
         Leave(relocs) \/ \E u \in RelocType \ JumpTypes : Leave(Retyped(u))
  PROVE  SideIn(obj, relocs, syms)'
<1>1. CASE Leave(relocs)
  <2>1. UNCHANGED <<obj, secVars>>
    BY <1>1 DEF Leave, secVars
  <2> QED
    BY <2>1, StayReaches
<1>2. CASE \E u \in RelocType \ JumpTypes : Leave(Retyped(u))
  <2>1. PICK u \in RelocType \ JumpTypes : Leave(Retyped(u))
    BY <1>2
  <2>2. relocs' = Retyped(u) /\ UNCHANGED <<obj, syms>>
    BY <2>1 DEF Leave
  <2> QED
    BY <2>2, LeaveReaches
<1> QED
  BY <1>1, <1>2

\* The LUI or ADD goes.
LEMMA DroppedReaches ==
  ASSUME LinkInv, SideIn(obj, relocs, syms), i <= Len(relocs),
         rel.type \in {"HI20", "TPREL_HI20", "TPREL_ADD"},
         Shorten(Dropped, rel.offset, 4), obj' = obj
  PROVE  SideIn(obj, relocs, syms)'
<1>1. <<rel.type, "NONE", 4, 0>> \in Shortenings
  BY DEF Shortenings
<1>2. rel.offset = rel.offset + 0 /\ 4 = 4 - 0
  <2>1. rel \in Reloc
    BY AtLoop DEF rel, LinkInv
  <2> QED
    BY <2>1 DEF Reloc
<1> QED
  BY <1>1, <1>2, ShortenReaches

LEMMA LuiReaches ==
  ASSUME LinkInv, LinkInv', SideIn(obj, relocs, syms), i <= Len(relocs),
         _bfd_riscv_relax_lui, obj' = obj
  PROVE  SideIn(obj, relocs, syms)'
<1>1. rel.type \in {"HI20", "LO12_I", "LO12_S"}
  BY DEF _bfd_riscv_relax_lui, LuiTypes
<1>2. \/ Leave(relocs)
      \/ Leave(Retyped("GPREL_I"))
      \/ Leave(Retyped("GPREL_S"))
      \/ rel.type = "HI20" /\ Shorten(Dropped, rel.offset, 4)
      \/ rel.type = "HI20" /\ Shorten(Retyped("RVC_LUI"), rel.offset + 2, 2)
  BY <1>1, Zenon DEF _bfd_riscv_relax_lui, ShortLui
<1>3. {"GPREL_I", "GPREL_S"} \subseteq RelocType \ JumpTypes
  BY DEF RelocType, JumpTypes
<1>4. CASE rel.type = "HI20" /\ Shorten(Retyped("RVC_LUI"), rel.offset + 2, 2)
  <2>1. <<rel.type, "RVC_LUI", 4, 2>> \in Shortenings /\ 2 = 4 - 2
    BY <1>4 DEF Shortenings
  <2> QED
    BY <1>4, <2>1, ShortenReaches
<1>5. CASE rel.type = "HI20" /\ Shorten(Dropped, rel.offset, 4)
  BY <1>5, DroppedReaches
<1>6. CASE Leave(relocs) \/ Leave(Retyped("GPREL_I")) \/ Leave(Retyped("GPREL_S"))
  <2>1. Leave(relocs) \/ \E u \in RelocType \ JumpTypes : Leave(Retyped(u))
    BY <1>3, <1>6
  <2> QED
    BY <2>1, LeavingReaches
<1> QED
  BY <1>2, <1>4, <1>5, <1>6

LEMMA TlsReaches ==
  ASSUME LinkInv, LinkInv', SideIn(obj, relocs, syms), i <= Len(relocs),
         _bfd_riscv_relax_tls_le, obj' = obj
  PROVE  SideIn(obj, relocs, syms)'
<1>1. rel.type \in {"TPREL_HI20", "TPREL_ADD", "TPREL_LO12_I", "TPREL_LO12_S"}
  BY DEF _bfd_riscv_relax_tls_le, TlsTypes
<1>2. \/ Leave(relocs)
      \/ Leave(Retyped("TPREL_I"))
      \/ Leave(Retyped("TPREL_S"))
      \/ rel.type \in {"TPREL_HI20", "TPREL_ADD"} /\ Shorten(Dropped, rel.offset, 4)
  BY <1>1, Zenon DEF _bfd_riscv_relax_tls_le
<1>3. {"TPREL_I", "TPREL_S"} \subseteq RelocType \ JumpTypes
  BY DEF RelocType, JumpTypes
<1>4. CASE rel.type \in {"TPREL_HI20", "TPREL_ADD"} /\ Shorten(Dropped, rel.offset, 4)
  BY <1>4, DroppedReaches
<1>5. CASE Leave(relocs) \/ Leave(Retyped("TPREL_I")) \/ Leave(Retyped("TPREL_S"))
  <2>1. Leave(relocs) \/ \E u \in RelocType \ JumpTypes : Leave(Retyped(u))
    BY <1>3, <1>5
  <2> QED
    BY <2>1, LeavingReaches
<1> QED
  BY <1>2, <1>4, <1>5

LEMMA ImportReaches ==
  ASSUME LinkInv, LinkInv', SideIn(obj, relocs, syms), i <= Len(relocs),
         i < Len(relocs), _bfd_riscv_relax_import_pcrel, obj' = obj
  PROVE  SideIn(obj, relocs, syms)'
<1>1. {"LO12_I", "HI20"} \subseteq RelocType \ JumpTypes
  BY DEF RelocType, AsmTypes, LuiTypes, JumpTypes
<1>2. CASE ~ Is_Import
  <2>1. UNCHANGED <<obj, secVars>>
    BY <1>2 DEF _bfd_riscv_relax_import_pcrel
  <2> QED
    BY <2>1, StayReaches
<1>3. CASE Is_Import /\ rel.type = "PCREL_LO12_I"
  <2>1. Leave(Retyped("LO12_I"))
    BY <1>3 DEF _bfd_riscv_relax_import_pcrel
  <2> QED
    BY <1>1, <2>1, LeavingReaches
<1>4. CASE Is_Import /\ rel.type # "PCREL_LO12_I"
  <2>1. relocs' = AbsolutePair /\ UNCHANGED <<obj, syms>>
    BY <1>4 DEF _bfd_riscv_relax_import_pcrel, Leave, AbsolutePair
  <2>2. PairOf(relocs', "HI20", "LO12_I")
    BY <2>1, AtLoop, PairIs
  <2> QED
    BY <1>1, <2>1, <2>2, PairReaches
<1> QED
  BY <1>2, <1>3, <1>4

LEMMA GotReaches ==
  ASSUME LinkInv, LinkInv', SideIn(obj, relocs, syms), i < Len(relocs),
         _bfd_riscv_relax_got_ref, obj' = obj
  PROVE  SideIn(obj, relocs, syms)'
<1>1. {"PCREL_HI20", "PCREL_LO12_I"} \subseteq RelocType \ JumpTypes
  BY DEF RelocType, AsmTypes, PcrelTypes, JumpTypes
<1>2. relocs' = GotPair /\ UNCHANGED <<obj, syms>>
  BY DEF _bfd_riscv_relax_got_ref, Leave, GotPair
<1>3. i <= Len(relocs)
  BY LenProperties DEF LinkInv, Shaped
<1>4. PairOf(relocs', "PCREL_HI20", "PCREL_LO12_I")
  BY <1>2, <1>3, AtLoop, PairIs
<1> QED
  BY <1>1, <1>2, <1>4, PairReaches

\* What an alignment needs is even.
LEMMA NopBytesEven ==
  ASSUME NEW addend \in 1 .. MaxPadding, NEW start \in Nat, start % 2 = 0
  PROVE  LET alignment == Alignment(addend)
         IN (((start - 1) \div alignment) * alignment + alignment - start) % 2 = 0
<1> DEFINE al == Alignment(addend)
<1>0. addend \in Nat /\ addend >= 1 /\ addend < 4096
  BY DEF MaxPadding
<1>1. \E p \in Powers : p > addend /\ p \div 2 <= addend
  BY <1>0 DEF Powers
<1>2. al \in Powers /\ al > addend
  BY <1>1 DEF Alignment
<1> HIDE DEF al
<1>3. al \in Powers \ {1}
  BY <1>0, <1>2
<1>4. ASSUME NEW p \in Powers \ {1}, NEW m \in Int
      PROVE  (m * p + p - start) % 2 = 0
  BY DEF Powers
<1>5. (start - 1) \div al \in Int
  <2>1. al \in Nat \ {0}
    BY <1>2 DEF Powers
  <2> QED
    BY <2>1
<1> QED
  BY <1>3, <1>4, <1>5 DEF al

LEMMA AlignReaches ==
  ASSUME LinkInv, LinkInv', obj \in Objects, SideIn(obj, relocs, syms),
         i <= Len(relocs), rel.type = "ALIGN", _bfd_riscv_relax_align, obj' = obj
  PROVE  SideIn(obj, relocs, syms)'
<1> DEFINE q == obj.relocs[i]
<1>1. /\ i \in 1 .. Len(relocs) /\ q.type = "ALIGN" /\ rel.addend = q.addend
      /\ rel \in Reloc /\ q.addend \in 1 .. MaxPadding
      /\ symval - rel.addend = SecAddr + rel.offset
      /\ nop_bytes \in Nat
  BY PaddingAt
<1>2. i \in DOMAIN obj.relocs
  <2>1. obj \in Object /\ WellFormed(obj) /\ Len(relocs) = Len(obj.relocs)
    BY DEF LinkInv, Shaped
  <2> QED
    BY <1>1, <2>1, AsmReloc
<1>3. q.addend % 2 = 0 /\ rel.offset % 2 = 0
  <2>1. q.addend % 2 = 0
    BY <1>1, <1>2, Halfwords
  <2>2. rel.offset % 2 = 0
    BY <1>1 DEF SideIn, rel
  <2> QED
    BY <2>1, <2>2
<1> HIDE DEF q
<1>n. rel.addend \in Nat
  BY <1>1
<1>4. nop_bytes % 2 = 0
  <2> DEFINE start == symval - rel.addend
  <2>1. start \in Nat /\ start % 2 = 0
    <3>1. SecAddr \in Nat /\ SecAddr % 2 = 0 /\ rel.offset \in Nat
      BY <1>1, RelaxConstants, Halfwords DEF Reloc
    <3>2. SecAddr + rel.offset \in Nat /\ (SecAddr + rel.offset) % 2 = 0
      BY <1>3, <3>1
    <3> QED
      BY <1>1, <3>2
  <2>2. nop_bytes = ((start - 1) \div Alignment(rel.addend)) * Alignment(rel.addend)
                      + Alignment(rel.addend) - start
    BY DEF nop_bytes
  <2> HIDE DEF start
  <2>3. rel.addend \in 1 .. MaxPadding
    BY <1>1
  <2>4. (((start - 1) \div Alignment(rel.addend)) * Alignment(rel.addend)
          + Alignment(rel.addend) - start) % 2 = 0
    BY <2>1, <2>3, NopBytesEven
  <2> QED
    BY <2>2, <2>4
<1>5. CASE rel.addend < nop_bytes
  <2>1. UNCHANGED <<obj, secVars>>
    BY <1>1, <1>n, <1>5 DEF _bfd_riscv_relax_align
  <2> QED
    BY <2>1, StayReaches
<1>6. CASE rel.addend = nop_bytes
  <2>1. relocs' = Dropped /\ UNCHANGED <<obj, syms>>
    BY <1>1, <1>n, <1>6 DEF _bfd_riscv_relax_align
  <2>2. "NONE" \in RelocType \ JumpTypes
    BY DEF RelocType, JumpTypes
  <2> QED
    BY <2>1, <2>2, LeaveReaches
<1>7. CASE rel.addend > nop_bytes
  <2>1. riscv_relax_delete_bytes(Dropped, rel.offset + nop_bytes,
                                 rel.addend - nop_bytes)
    BY <1>1, <1>n, <1>7 DEF _bfd_riscv_relax_align
  <2>2. PICK r : /\ Deletes(obj, contents, relocs, syms, i, nop_bytes, r,
                            contents', relocs', syms')
                 /\ Becomes(r, "NONE")
                 /\ Footprint(obj.relocs[i]) = rel.addend
    BY <1>7, <2>1, PaddingDeletes
  <2>3. (rel.addend - nop_bytes) % 2 = 0
    <3>1. rel.addend % 2 = 0 /\ rel.addend \in Int /\ nop_bytes \in Int
      BY <1>1, <1>3, <1>n
    <3> QED
      BY <1>4, <3>1, EvenMinus
  <2>4. (Footprint(obj.relocs[i]) - nop_bytes) % 2 = 0
    BY <2>2, <2>3
  <2> QED
    BY <2>2, <2>4, DeletingReaches DEF JumpTypes
<1> QED
  BY <1>1, <1>n, <1>5, <1>6, <1>7

-----------------------------------------------------------------------------
(* Every step, and the theorem                                             *)

LEMMA RelaxingReaches ==
  ASSUME LinkInv, LinkInv', obj \in Objects, SideIn(obj, relocs, syms), Relaxing
  PROVE  UNCHANGED obj /\ SideIn(obj, relocs, syms)'
<1>0. i \in Nat \ {0}
  BY DEF LinkInv
<1>1. CASE BeginSweep \/ Skip \/ EndSweep \/ NextSweep
  <2>1. UNCHANGED <<obj, secVars>>
    BY <1>1 DEF BeginSweep, Skip, EndSweep, NextSweep
  <2> QED
    BY <2>1, StayReaches
<1>2. CASE RelaxRef
  <2>1. i <= Len(relocs) /\ i < Len(relocs) /\ obj' = obj
    BY <1>2, Zenon DEF RelaxRef, InLoop, Considered, Paired
  <2>2. CASE _bfd_riscv_relax_call
    BY <2>1, <2>2, CallReaches
  <2>3. CASE _bfd_riscv_relax_lui
    BY <2>1, <2>3, LuiReaches
  <2>4. CASE _bfd_riscv_relax_tls_le
    BY <2>1, <2>4, TlsReaches
  <2>5. CASE _bfd_riscv_relax_import_pcrel
    BY <2>1, <2>5, ImportReaches
  <2>6. CASE _bfd_riscv_relax_got_ref
    BY <2>1, <2>6, GotReaches
  <2> QED
    BY <1>2, <2>1, <2>2, <2>3, <2>4, <2>5, <2>6, Zenon DEF RelaxRef
<1>3. CASE RelaxAlign
  <2>1. /\ i <= Len(relocs) /\ rel.type = "ALIGN" /\ _bfd_riscv_relax_align
        /\ obj' = obj
    BY <1>3 DEF RelaxAlign, InLoop, Considered
  <2> QED
    BY <2>1, AlignReaches
<1> QED
  BY <1>1, <1>2, <1>3, Zenon DEF Relaxing

\* Whatever the linker does next, the jumps still reach: the inductive step
\* (_bfd_riscv_relax_call, riscv_relax_delete_bytes).
THEOREM NextReachInv == ReachInv /\ [Next]_vars => ReachInv'
<1> SUFFICES ASSUME ReachInv, [Next]_vars PROVE ReachInv'
  OBVIOUS
<1>1. LinkInv /\ obj \in Objects /\ SideIn(obj, relocs, syms)
  BY DEF ReachInv
<1>2. LinkInv'
  BY <1>1, NextLinkInv
<1>3. CASE Relaxing
  <2>1. UNCHANGED obj /\ SideIn(obj, relocs, syms)'
    BY <1>1, <1>2, <1>3, RelaxingReaches
  <2> QED
    BY <1>1, <1>2, <2>1 DEF ReachInv
<1>4. CASE ~ Relaxing
  <2>1. UNCHANGED <<obj, secVars>>
    <3>1. CASE check_relocs
      BY <3>1 DEF check_relocs
    <3>2. CASE Reserve_sections
      BY <3>2 DEF Reserve_sections
    <3>3. CASE relocate_section
      BY <3>3 DEF relocate_section
    <3>4. CASE final_link
      BY <3>4, Zenon DEF final_link
    <3>5. CASE UNCHANGED vars
      BY <3>5 DEF vars, relaxVars
    <3> QED
      BY <1>4, <3>1, <3>2, <3>3, <3>4, <3>5 DEF Next
  <2>2. SideIn(obj, relocs, syms)'
    BY <1>1, <2>1, StayReaches
  <2> QED
    BY <1>1, <1>2, <2>1, <2>2 DEF ReachInv
<1> QED
  BY <1>3, <1>4

\* The assembler makes no jumps of its own.
LEMMA InitReachInv == Init => ReachInv
<1> SUFFICES ASSUME Init PROVE ReachInv
  OBVIOUS
<1>1. LinkInv
  BY InitLinkInv
<1>2. obj \in Objects /\ relocs = obj.relocs
  BY DEF Init, RelaxInit
<1>3. ASSUME NEW k \in 1 .. Len(relocs)
      PROVE  /\ relocs[k].type \in JumpTypes => relocs[k].sym = obj.relocs[k].sym
             /\ obj.relocs[k].type = "ALIGN" => relocs[k].offset % 2 = 0
             /\ ReachesIn(relocs[k], syms[relocs[k].sym])
  <2>1. /\ obj \in Object /\ WellFormed(obj) /\ Len(relocs) = Len(obj.relocs)
    BY <1>1 DEF LinkInv, Shaped
  <2>2. k \in DOMAIN obj.relocs /\ AsmRelocOf(obj, obj.relocs[k])
    BY <2>1, AsmReloc
  <2>3. obj.relocs[k].type = "ALIGN" => relocs[k].offset % 2 = 0
    BY <1>2, <2>2, Halfwords
  <2>4. relocs[k].type \notin {"JAL", "RVC_JUMP"}
    BY <1>2, <2>2 DEF AsmRelocOf, AsmTypes, LuiTypes, TlsTypes, PcrelTypes
  <2> QED
    BY <1>2, <2>3, <2>4 DEF ReachesIn
<1> QED
  BY <1>1, <1>2, <1>3 DEF ReachInv, SideIn

LEMMA ReachInvReach == ReachInv => Reach
<1> SUFFICES ASSUME ReachInv PROVE Reach
  OBVIOUS
<1>1. DOMAIN relocs = 1 .. Len(relocs)
  BY LenProperties DEF ReachInv, LinkInv, Shaped
<1>2. \A k \in 1 .. Len(relocs) : ReachesIn(relocs[k], syms[relocs[k].sym])
  BY DEF ReachInv, SideIn
<1> QED
  BY <1>1, <1>2 DEF Reach, ReachesIn

\* A jump that replaced a call to a label of the section reaches the label in
\* every state of the linker, although the distance was measured when bytes
\* behind, before and between were still to be deleted and paddings to change
\* (_bfd_riscv_relax_call).
THEOREM ReachAlways == Spec => []Reach
<1>1. Spec => []ReachInv
  BY InitReachInv, NextReachInv, PTL DEF Spec
<1> QED
  BY <1>1, ReachInvReach, PTL

-----------------------------------------------------------------------------
(* Paddings align: the invariant                                           *)

\* From relocation k on, no padding has been handled.
PaddingsLeft(ob, rs, k) ==
  \A l \in k .. Len(rs) :
    ob.relocs[l].type = "ALIGN" => rs[l].type = "ALIGN"

\* The code behind each of the first k paddings is aligned.
AlignedIn(ob, c, k) ==
  \A l \in 1 .. k :
    ob.relocs[l].type = "ALIGN" =>
      \A p \in 0 .. Len(c) :
        AtIn(c, p, End(ob.relocs[l])) =>
          (SecAddr + p) % Alignment(ob.relocs[l].addend) = 0

\* The inductive invariant.  Aligned alone speaks of the relaxed section: the
\* sweep of pass 1 has aligned what is behind it, and no padding before pass
\* 1; nothing is relaxed after it because again is FALSE by then.
AlignInv ==
  /\ LinkInv
  /\ obj \in Objects
  /\ relax_pass \in {0, 1}
  /\ relax_pass = 0 => ~ sec_flg0 /\ PaddingsLeft(obj, relocs, 1)
  /\ relax_pass = 1 =>
       /\ state \in {"relax", "sweep", "swept", "relaxed", "relocated",
                     "linked", "failed"}
       /\ state = "relax" => ~ sec_flg0 /\ PaddingsLeft(obj, relocs, 1)
       /\ state \in {"sweep", "swept"} => ~ again
       /\ state = "sweep" =>
            /\ i <= Len(relocs) + 1
            /\ AlignedIn(obj, contents, i - 1)
            /\ PaddingsLeft(obj, relocs, i)
       /\ state \notin {"relax", "sweep", "failed"} =>
            AlignedIn(obj, contents, Len(relocs))

-----------------------------------------------------------------------------
(* Paddings align: one deletion                                            *)

\* A place before what is deleted was the same place before the deletion.
LEMMA CutBackAt ==
  ASSUME NEW c, NEW a, NEW n, NEW b, NEW d, CodeCut(d, c, a, n, b), n > 0,
         NEW x \in Nat, x <= b, NEW p, AtIn(d, p, x)
  PROVE  AtIn(c, p, x)
<1>1. /\ c \in Seq(Nat) /\ Increasing(c) /\ Len(c) \in Nat
      /\ a \in Nat /\ n \in Nat /\ b \in Nat
      /\ a + n <= Len(c) /\ BlockIn(c, a, b, n)
      /\ Len(d) = Len(c) - n
      /\ \A j \in 1 .. Len(d) : d[j] = IF j <= a THEN c[j] ELSE c[j + n]
      /\ \A j \in 1 .. Len(c) : c[j] \in Nat
  BY LenProperties, ElementOfSeq DEF CodeCut, IsCut
<1>2. c[a + 1] = b /\ a + 1 \in 1 .. Len(c)
  <2>1. a + 1 \in a + 1 .. a + n
    BY <1>1
  <2> QED
    BY <1>1, <2>1 DEF BlockIn
<1>3. ASSUME NEW j \in 1 .. Len(c), j > a PROVE c[j] >= x
  <2>1. j = a + 1 \/ c[a + 1] < c[j]
    BY <1>1, <1>2, <1>3 DEF Increasing
  <2>2. c[j] \in Nat /\ b \in Nat
    BY <1>1
  <2> QED
    BY <1>2, <2>1, <2>2
<1>4. p \in 0 .. Len(d) /\ \A j \in 1 .. Len(d) : d[j] < x <=> j <= p
  BY DEF AtIn
<1>5. p <= a
  <2> SUFFICES ASSUME p > a PROVE FALSE
    BY <1>1, <1>4
  <2>0. p \in Int /\ Len(d) \in Int /\ Len(c) \in Int /\ a \in Nat /\ n \in Nat
    BY <1>1, <1>4
  <2>1. p \in 1 .. Len(d) /\ p + n \in 1 .. Len(c) /\ p + n > a
    BY <1>1, <1>4, <2>0
  <2>2. d[p] = c[p + n] /\ d[p] < x
    BY <1>1, <1>4, <2>1
  <2>3. c[p + n] >= x /\ c[p + n] \in Nat
    BY <1>1, <1>3, <2>1
  <2> QED
    BY <2>2, <2>3
<1>6. ASSUME NEW j \in 1 .. Len(c) PROVE c[j] < x <=> j <= p
  <2>1. CASE j <= a
    <3>1. j \in 1 .. Len(d)
      BY <1>1, <2>1
    <3>2. d[j] = c[j]
      BY <1>1, <2>1, <3>1
    <3> QED
      BY <1>4, <3>1, <3>2
  <2>2. CASE j > a
    <3>1. c[j] >= x /\ c[j] \in Nat /\ a \in Nat
      BY <1>1, <1>3, <2>2
    <3>2. ~ c[j] < x
      BY <3>1
    <3>3. p \in Int /\ j \in Int
      BY <1>4
    <3>4. ~ j <= p
      BY <1>5, <2>2, <3>1, <3>3
    <3> QED
      BY <3>2, <3>4
  <2> QED
    BY <1>1, <2>1, <2>2
<1> QED
  BY <1>1, <1>4, <1>6 DEF AtIn

\* The place behind what is deleted is the place of the deletion.
LEMMA CutEndAt ==
  ASSUME NEW c, NEW a, NEW n, NEW b, NEW d, CodeCut(d, c, a, n, b), n > 0,
         NEW p, AtIn(d, p, b + n)
  PROVE  p = a
<1>1. /\ c \in Seq(Nat) /\ Increasing(c) /\ Len(c) \in Nat
      /\ a \in Nat /\ n \in Nat /\ b \in Nat
      /\ a + n <= Len(c) /\ BlockIn(c, a, b, n)
      /\ Len(d) = Len(c) - n
      /\ \A j \in 1 .. Len(d) : d[j] = IF j <= a THEN c[j] ELSE c[j + n]
      /\ \A j \in 1 .. Len(c) : c[j] \in Nat
  BY LenProperties, ElementOfSeq DEF CodeCut, IsCut
<1>2. /\ a + 1 \in 1 .. Len(c) /\ c[a + 1] = b
      /\ a + n \in 1 .. Len(c) /\ c[a + n] = b + n - 1
  <2>1. a + 1 \in a + 1 .. a + n /\ a + n \in a + 1 .. a + n
    BY <1>1
  <2>2. c[a + 1] = b + (a + 1 - a - 1) /\ c[a + n] = b + (a + n - a - 1)
    <3>1. a \in Nat /\ n \in Nat /\ b \in Nat
      BY <1>1
    <3>2. \A j \in a + 1 .. a + n : c[j] = b + (j - a - 1)
      BY <1>1 DEF BlockIn
    <3>3. c[a + 1] = b + (a + 1 - a - 1)
      BY <2>1, <3>1, <3>2
    <3>4. c[a + n] = b + (a + n - a - 1)
      BY <2>1, <3>1, <3>2
    <3> QED
      BY <3>3, <3>4
  <2>3. a + 1 \in 1 .. Len(c) /\ a + n \in 1 .. Len(c)
    BY <1>1
  <2>4. b + (a + 1 - a - 1) = b /\ b + (a + n - a - 1) = b + n - 1
    BY <1>1
  <2> QED
    BY <2>2, <2>3, <2>4
<1>3. p \in 0 .. Len(d) /\ \A j \in 1 .. Len(d) : d[j] < b + n <=> j <= p
  BY DEF AtIn
<1>4. ~ p > a
  <2> SUFFICES ASSUME p > a PROVE FALSE
    OBVIOUS
  <2>1. p \in 1 .. Len(d) /\ p + n \in 1 .. Len(c) /\ p + n > a + n
    BY <1>1, <1>3
  <2>2. d[p] = c[p + n] /\ d[p] < b + n
    BY <1>1, <1>3, <2>1
  <2>3. c[a + n] < c[p + n]
    BY <1>1, <1>2, <2>1 DEF Increasing
  <2>4. c[p + n] \in Nat /\ b \in Nat /\ n \in Nat
    BY <1>1, <2>1
  <2> QED
    BY <1>2, <2>2, <2>3, <2>4
<1>5. ~ p < a
  <2> SUFFICES ASSUME p < a PROVE FALSE
    OBVIOUS
  <2>1. a \in 1 .. Len(d) /\ a \in 1 .. Len(c) /\ a < a + 1
    BY <1>1, <1>3
  <2>2. d[a] = c[a] /\ ~ d[a] < b + n
    BY <1>1, <1>3, <2>1
  <2>3. c[a] < c[a + 1]
    BY <1>1, <1>2, <2>1 DEF Increasing
  <2>4. c[a] \in Nat /\ b \in Nat /\ n \in Nat
    BY <1>1, <2>1
  <2> QED
    BY <1>2, <2>2, <2>3, <2>4
<1> QED
  BY <1>1, <1>3, <1>4, <1>5

\* The place behind code that is there in one piece is behind its bytes.
LEMMA BlockEndAt ==
  ASSUME NEW c \in Seq(Nat), Increasing(c), NEW q \in Nat, NEW o \in Nat,
         NEW m \in Nat \ {0}, BlockIn(c, q, o, m), NEW p, AtIn(c, p, o + m)
  PROVE  p = q + m
<1>1. Len(c) \in Nat /\ \A j \in 1 .. Len(c) : c[j] \in Nat
  BY LenProperties, ElementOfSeq
<1>2. q + m \in 1 .. Len(c) /\ c[q + m] = o + m - 1
  <2>1. q + m \in q + 1 .. q + m
    OBVIOUS
  <2>2. q + m <= Len(c) /\ c[q + m] = o + (q + m - q - 1)
    BY <2>1 DEF BlockIn
  <2> QED
    BY <1>1, <2>2
<1>3. p \in 0 .. Len(c) /\ \A j \in 1 .. Len(c) : c[j] < o + m <=> j <= p
  BY DEF AtIn
<1>4. q + m <= p
  BY <1>2, <1>3
<1>5. ~ p > q + m
  <2> SUFFICES ASSUME p > q + m PROVE FALSE
    OBVIOUS
  <2>1. p \in 1 .. Len(c)
    BY <1>1, <1>2, <1>3
  <2>2. c[q + m] < c[p] /\ c[p] < o + m /\ c[p] \in Nat
    BY <1>1, <1>2, <1>3, <2>1 DEF Increasing
  <2> QED
    BY <1>2, <2>2
<1> QED
  BY <1>1, <1>3, <1>4, <1>5

\* A padding of the length that its alignment needs ends at a multiple of it.
LEMMA NopBytesAlign ==
  ASSUME NEW addend \in 1 .. MaxPadding, NEW start \in Nat
  PROVE  LET alignment == Alignment(addend)
         IN (start + (((start - 1) \div alignment) * alignment + alignment - start))
              % alignment = 0
<1> DEFINE al == Alignment(addend)
<1>0. addend \in Nat /\ addend >= 1 /\ addend < 4096
  BY DEF MaxPadding
<1>1. \E p \in Powers : p > addend /\ p \div 2 <= addend
  BY <1>0 DEF Powers
<1>2. al \in Powers
  BY <1>1 DEF Alignment
<1> HIDE DEF al
<1>3. ASSUME NEW p \in Powers, NEW m \in Int
      PROVE  (start + (m * p + p - start)) % p = 0
  BY DEF Powers
<1>4. (start - 1) \div al \in Int
  <2>1. al \in Nat \ {0}
    BY <1>2 DEF Powers
  <2> QED
    BY <2>1
<1> QED
  BY <1>2, <1>3, <1>4 DEF al

-----------------------------------------------------------------------------
(* Paddings align: the steps                                               *)

\* Shortening a padding to where its alignment is keeps the ones before it.
LEMMA AlignedCut ==
  ASSUME NEW ob \in Objects, NEW c, NEW rs, NEW ss, Shaped(ob, c, rs, ss),
         CodeIn(ob, c, rs), NEW k, NEW len, NEW r, Shortening(ob, rs, k, len, r),
         NEW d, IsCut(d, c, r.offset + len, Footprint(ob.relocs[k]) - len),
         ob.relocs[k].type = "ALIGN", AlignedIn(ob, c, k - 1),
         (SecAddr + (r.offset + len)) % Alignment(ob.relocs[k].addend) = 0
  PROVE  AlignedIn(ob, d, k)
<1> DEFINE q == ob.relocs[k]
           a == r.offset + len
           n == Footprint(q) - len
           b == q.offset + len
<1>1. /\ CodeCut(d, c, a, n, b)
      /\ q.offset \in Nat /\ n \in Nat /\ b \in Nat
      /\ b + n = End(q) /\ k \in 1 .. Len(ob.relocs) /\ q.offset <= b
  BY ShorteningCut
<1>2. n > 0 /\ AsmRelocOf(ob, q) /\ Footprint(q) \in Nat /\ Footprint(q) > 0
  <2>1. n > 0 /\ AsmRelocOf(ob, q) /\ len \in Nat
    BY Deleted
  <2>2. Footprint(q) \in Nat
    BY <2>1, AsmRelocIs
  <2> QED
    BY <2>1, <2>2
<1>3. ob \in Object /\ WellFormed(ob) /\ ob.relocs \in Seq(Reloc)
  BY DEF Shaped, Object
<1>4. (SecAddr + a) % Alignment(q.addend) = 0 /\ q.type = "ALIGN"
  OBVIOUS
<1>5. q = ob.relocs[k]
  OBVIOUS
<1> HIDE DEF q, a, n, b
<1> SUFFICES ASSUME NEW l \in 1 .. k, ob.relocs[l].type = "ALIGN",
                    NEW p \in 0 .. Len(d), AtIn(d, p, End(ob.relocs[l]))
             PROVE  (SecAddr + p) % Alignment(ob.relocs[l].addend) = 0
  BY DEF AlignedIn
<1>6. CASE l = k
  <2>1. AtIn(d, p, b + n)
    BY <1>1, <1>5, <1>6
  <2>2. p = a
    BY <1>1, <1>2, <2>1, CutEndAt
  <2> QED
    BY <1>4, <1>5, <1>6, <2>2
<1>7. CASE l # k
  <2> DEFINE u == ob.relocs[l]
  <2>1. l \in 1 .. Len(ob.relocs) /\ l < k /\ l \in 1 .. k - 1
    BY <1>1, <1>7
  <2>2. /\ u.offset \in Nat /\ Footprint(u) \in Nat
        /\ l \in DOMAIN ob.relocs /\ k \in DOMAIN ob.relocs
    <3>1. AsmRelocOf(ob, u) /\ l \in DOMAIN ob.relocs /\ k \in DOMAIN ob.relocs
      BY <1>1, <1>3, <2>1, AsmReloc
    <3> QED
      BY <3>1, AsmRelocIs
  <2>3. u.offset < q.offset
    BY <1>4, <1>5, <2>1, <2>2, PaddingsInOrder
  <2>4. \/ u.offset + Footprint(u) <= q.offset /\ u.offset <= q.offset
        \/ u.offset >= End(q)
    BY <1>1, <1>2, <1>3, <1>5, <1>7, <2>1, Apart
  <2> HIDE DEF u
  <2>5. End(u) \in Nat /\ End(u) <= b
    <3>1. End(q) \in Nat /\ End(q) > q.offset
      <4>1. q.offset \in Nat /\ Footprint(q) \in Nat /\ Footprint(q) > 0
        BY <1>1, <1>2
      <4>2. End(q) = q.offset + Footprint(q)
        BY DEF End
      <4> QED
        BY <4>1, <4>2
    <3>2. q.offset \in Nat /\ b \in Nat /\ q.offset <= b
      BY <1>1
    <3>3. u.offset + Footprint(u) <= q.offset
      BY <2>2, <2>3, <2>4, <3>1, <3>2
    <3> QED
      BY <2>2, <3>2, <3>3 DEF End
  <2>6. AtIn(d, p, End(u))
    BY DEF u
  <2>7. AtIn(c, p, End(u))
    BY <1>1, <1>2, <2>5, <2>6, CutBackAt
  <2>8. p \in 0 .. Len(c)
    BY <2>7 DEF AtIn
  <2> QED
    BY <2>1, <2>7, <2>8 DEF AlignedIn, u
<1> QED
  BY <1>6, <1>7

\* Where nop_bytes of a padding end is aligned.
LEMMA PaddingAligns ==
  ASSUME LinkInv, i <= Len(relocs), rel.type = "ALIGN"
  PROVE  (SecAddr + (rel.offset + nop_bytes)) % Alignment(obj.relocs[i].addend) = 0
<1>1. /\ rel.addend = obj.relocs[i].addend /\ rel \in Reloc
      /\ obj.relocs[i].addend \in 1 .. MaxPadding
      /\ symval - rel.addend = SecAddr + rel.offset
      /\ nop_bytes \in Nat
  BY PaddingAt
<1> DEFINE start == symval - rel.addend
<1>2. start = SecAddr + rel.offset /\ rel.offset \in Nat /\ SecAddr \in Nat
  BY <1>1, RelaxConstants DEF Reloc
<1>3. nop_bytes = ((start - 1) \div Alignment(rel.addend)) * Alignment(rel.addend)
                    + Alignment(rel.addend) - start
  BY DEF nop_bytes
<1> HIDE DEF start
<1>4. (start + nop_bytes) % Alignment(rel.addend) = 0
  <2>1. rel.addend \in 1 .. MaxPadding /\ start \in Nat
    BY <1>1, <1>2
  <2>2. (start + (((start - 1) \div Alignment(rel.addend)) * Alignment(rel.addend)
                    + Alignment(rel.addend) - start)) % Alignment(rel.addend) = 0
    BY <2>1, NopBytesAlign
  <2> QED
    BY <1>3, <2>2
<1>5. start + nop_bytes = SecAddr + (rel.offset + nop_bytes)
  BY <1>1, <1>2
<1> QED
  BY <1>1, <1>4, <1>5

\* Handling a padding aligns what is behind it, or the link fails.
LEMMA AlignAligns ==
  ASSUME LinkInv, LinkInv', obj \in Objects, i <= Len(relocs), rel.type = "ALIGN",
         _bfd_riscv_relax_align, obj' = obj, state = "sweep",
         AlignedIn(obj, contents, i - 1), PaddingsLeft(obj, relocs, i)
  PROVE  \/ state' = "failed"
         \/ /\ state' = "sweep"
            /\ AlignedIn(obj, contents', i)
            /\ PaddingsLeft(obj, relocs', i + 1)
<1> DEFINE q == obj.relocs[i]
<1>1. /\ i \in 1 .. Len(relocs) /\ q.type = "ALIGN" /\ rel.addend = q.addend
      /\ rel \in Reloc /\ q.addend \in 1 .. MaxPadding
      /\ Footprint(q) = q.addend /\ KeptBytes(q, "ALIGN") = Footprint(q)
      /\ nop_bytes \in Nat
  BY PaddingAt
<1>2. /\ Shaped(obj, contents, relocs, syms) /\ CodeIn(obj, contents, relocs)
      /\ contents \in Seq(Nat) /\ Increasing(contents)
      /\ Len(relocs) = Len(obj.relocs) /\ obj \in Object /\ WellFormed(obj)
  BY DEF LinkInv, Shaped, Kept, CodeIn
<1>3. /\ relocs \in Seq(Reloc) /\ DOMAIN relocs = 1 .. Len(relocs)
      /\ \A l \in 1 .. Len(relocs) : relocs[l] \in Reloc
      /\ Len(relocs') = Len(relocs)
  <2>1. Len(relocs') = Len(obj.relocs)
    BY DEF LinkInv, Shaped
  <2> QED
    BY <1>2, <2>1, AtLoop
<1>4. \A l \in 1 .. Len(relocs) : l # i => Dropped[l] = relocs[l]
  BY <1>1, <1>3, DroppedIs
<1>5. (SecAddr + (rel.offset + nop_bytes)) % Alignment(q.addend) = 0
  BY PaddingAligns
<1>6. q = obj.relocs[i] /\ rel = relocs[i]
  BY DEF rel
<1> HIDE DEF q
<1>n. rel.addend \in Nat /\ rel.addend > 0 /\ i \in Nat /\ Len(relocs) \in Nat
  BY <1>1, <1>3, LenProperties
<1>7. CASE rel.addend < nop_bytes
  BY <1>1, <1>n, <1>7 DEF _bfd_riscv_relax_align
<1>8. CASE rel.addend = nop_bytes
  <2>1. relocs' = Dropped /\ UNCHANGED <<contents, state>>
    BY <1>1, <1>n, <1>8 DEF _bfd_riscv_relax_align
  <2>2. PaddingsLeft(obj, relocs', i + 1)
    <3>1. ASSUME NEW l \in i + 1 .. Len(relocs') PROVE relocs'[l] = relocs[l] /\ l \in i .. Len(relocs)
      BY <1>1, <1>3, <1>4, <2>1
    <3> QED
      BY <3>1 DEF PaddingsLeft
  <2>3. AlignedIn(obj, contents, i)
    <3> SUFFICES ASSUME NEW l \in 1 .. i, obj.relocs[l].type = "ALIGN",
                        NEW p \in 0 .. Len(contents),
                        AtIn(contents, p, End(obj.relocs[l]))
                 PROVE  (SecAddr + p) % Alignment(obj.relocs[l].addend) = 0
      BY DEF AlignedIn
    <3>1. CASE l = i
      <4>1. /\ q.offset \in Nat /\ rel.offset \in Nat /\ End(q) = q.offset + rel.addend
        <5>1. AsmRelocOf(obj, q)
          BY <1>1, <1>2, <1>6, AsmReloc
        <5> QED
          BY <1>1, <5>1, AsmRelocIs DEF End, Reloc
      <4>2. BlockIn(contents, rel.offset, q.offset, rel.addend)
        <5>1. BlockIn(contents, relocs[i].offset, q.offset, KeptBytes(q, relocs[i].type))
          BY <1>1, <1>2, <1>6 DEF CodeIn
        <5> QED
          BY <1>1, <1>6, <5>1
      <4>3. AtIn(contents, p, q.offset + rel.addend)
        BY <1>6, <3>1, <4>1
      <4>4. p = rel.offset + rel.addend
        BY <1>2, <1>n, <4>1, <4>2, <4>3, BlockEndAt
      <4> QED
        BY <1>5, <1>6, <1>8, <3>1, <4>4
    <3>2. CASE l # i
      <4>1. l \in 1 .. i - 1
        BY <1>n, <3>2
      <4> QED
        BY <4>1 DEF AlignedIn
    <3> QED
      BY <3>1, <3>2
  <2> QED
    BY <2>1, <2>2, <2>3
<1>9. CASE rel.addend > nop_bytes
  <2>1. /\ riscv_relax_delete_bytes(Dropped, rel.offset + nop_bytes,
                                    rel.addend - nop_bytes)
        /\ state' = state
    BY <1>1, <1>n, <1>9 DEF _bfd_riscv_relax_align
  <2>2. PICK r : /\ Deletes(obj, contents, relocs, syms, i, nop_bytes, r,
                            contents', relocs', syms')
                 /\ Becomes(r, "NONE")
                 /\ Footprint(obj.relocs[i]) = rel.addend
    BY <1>9, <2>1, PaddingDeletes
  <2>3. AlignedIn(obj, contents', i)
    <3>1. /\ Shortening(obj, relocs, i, nop_bytes, r)
          /\ IsCut(contents', contents, r.offset + nop_bytes,
                   Footprint(obj.relocs[i]) - nop_bytes)
      BY <2>2 DEF Deletes
    <3>2. (SecAddr + (r.offset + nop_bytes)) % Alignment(obj.relocs[i].addend) = 0
      BY <1>5, <1>6, <2>2 DEF Becomes
    <3>3. obj.relocs[i].type = "ALIGN"
      BY <1>1, <1>6
    <3> QED
      BY <1>2, <3>1, <3>2, <3>3, AlignedCut
  <2>4. PaddingsLeft(obj, relocs', i + 1)
    <3>1. ASSUME NEW l \in i + 1 .. Len(relocs')
          PROVE  relocs'[l].type = relocs[l].type /\ l \in i .. Len(relocs)
      <4>1. l \in 1 .. Len(relocs) /\ l # i /\ l \in i .. Len(relocs)
        BY <1>1, <1>3, <1>n
      <4>2. relocs'[l] = MovedReloc(relocs[l], r.offset + nop_bytes,
                           Footprint(obj.relocs[i]) - nop_bytes, Len(contents))
        BY <2>2, <4>1 DEF Deletes, RelocAfter
      <4>3. relocs[l] \in Reloc
        BY <1>3, <4>1
      <4> QED
        BY <4>1, <4>2, <4>3 DEF MovedReloc, Reloc
    <3> QED
      BY <3>1 DEF PaddingsLeft
  <2> QED
    BY <2>1, <2>3, <2>4
<1> QED
  BY <1>1, <1>n, <1>7, <1>8, <1>9

\* A step that leaves the paddings' relocations alone.
SparesPaddings(rs) ==
  \A l \in 1 .. Len(relocs) : relocs[l].type = "ALIGN" => rs[l] = relocs[l]

LEMMA RetypedSpares ==
  ASSUME relocs \in Seq(Reloc), i \in 1 .. Len(relocs), rel.type # "ALIGN",
         NEW u \in RelocType
  PROVE  SparesPaddings(Retyped(u)) /\ SparesPaddings(Dropped)
BY RetypedIs, DroppedIs DEF SparesPaddings, rel

LEMMA PairSpares ==
  ASSUME relocs \in Seq(Reloc), i \in 1 .. Len(relocs), rel.type # "ALIGN",
         i < Len(relocs), relocs[i + 1].type = "RELAX",
         NEW u, NEW v, NEW rs, PairOf(rs, u, v)
  PROVE  SparesPaddings(rs)
BY DEF SparesPaddings, PairOf, rel

LEMMA ShortenSpares ==
  ASSUME relocs \in Seq(Reloc), NEW rs, DOMAIN rs = 1 .. Len(relocs),
         SparesPaddings(rs), NEW addr, NEW count, Shorten(rs, addr, count)
  PROVE  \A l \in 1 .. Len(relocs) :
           relocs[l].type = "ALIGN" => relocs'[l].type = "ALIGN"
<1> SUFFICES ASSUME NEW l \in 1 .. Len(relocs), relocs[l].type = "ALIGN"
             PROVE  relocs'[l].type = "ALIGN"
  OBVIOUS
<1>1. relocs'[l] = MovedReloc(rs[l], addr, count, Len(contents))
  BY DEF Shorten, riscv_relax_delete_bytes
<1>2. rs[l] = relocs[l] /\ relocs[l] \in Reloc
  BY ElementOfSeq DEF SparesPaddings
<1> QED
  BY <1>1, <1>2 DEF MovedReloc, Reloc

\* Pass 0 leaves the relocations of paddings alone.
LEMMA RefLeavesPaddings ==
  ASSUME LinkInv, LinkInv', RelaxRef, PaddingsLeft(obj, relocs, 1)
  PROVE  PaddingsLeft(obj, relocs', 1) /\ UNCHANGED <<sec_flg0, obj>>
<1>1. /\ i < Len(relocs) /\ relocs[i + 1].type = "RELAX" /\ obj' = obj
      /\ rel.type \in Shortened
  BY Zenon DEF RelaxRef, Considered, Paired
<1>2. /\ i \in 1 .. Len(relocs) /\ relocs \in Seq(Reloc) /\ i \in Nat
      /\ Len(relocs) \in Nat /\ DOMAIN relocs = 1 .. Len(relocs)
  <2>1. i \in Nat \ {0} /\ relocs \in Seq(Reloc)
    BY DEF LinkInv, Shaped
  <2>2. Len(relocs) \in Nat
    BY <2>1, LenProperties
  <2>3. i <= Len(relocs)
    BY <1>1, <2>1, <2>2
  <2> QED
    BY <2>1, <2>3, AtLoop
<1>3. rel.type # "ALIGN"
  BY <1>1 DEF Shortened, LuiTypes, TlsTypes, PcrelTypes
<1>4. /\ \A u \in {"GPREL_I", "GPREL_S", "RVC_LUI", "TPREL_I", "TPREL_S", "LO12_I",
                   "HI20", "PCREL_HI20", "RVC_JUMP", "JAL"} :
             SparesPaddings(Retyped(u)) /\ DOMAIN Retyped(u) = 1 .. Len(relocs)
      /\ SparesPaddings(Dropped) /\ DOMAIN Dropped = 1 .. Len(relocs)
  <2>1. ASSUME NEW u \in {"GPREL_I", "GPREL_S", "RVC_LUI", "TPREL_I", "TPREL_S",
                          "LO12_I", "HI20", "PCREL_HI20", "RVC_JUMP", "JAL"}
        PROVE  u \in RelocType
    BY DEF RelocType, AsmTypes, LuiTypes, PcrelTypes
  <2>2. "NONE" \in RelocType
    BY DEF RelocType
  <2> QED
    BY <1>2, <1>3, <2>1, <2>2, RetypedSpares, RetypedIs, DroppedIs
<1>5. \A u : Jump.type = u => u \in {"RVC_JUMP", "JAL", "LO12_I"}
  BY DEF Jump
<1>6. /\ \A l \in 1 .. Len(relocs) :
           relocs[l].type = "ALIGN" => relocs'[l].type = "ALIGN"
      /\ UNCHANGED sec_flg0
  <2>1. CASE \E rs : /\ Leave(rs) \/ \E addr, count : Shorten(rs, addr, count)
                     /\ SparesPaddings(rs) /\ DOMAIN rs = 1 .. Len(relocs)
    <3>1. PICK rs : /\ Leave(rs) \/ \E addr, count : Shorten(rs, addr, count)
                    /\ SparesPaddings(rs) /\ DOMAIN rs = 1 .. Len(relocs)
      BY <2>1
    <3>2. CASE Leave(rs)
      BY <3>1, <3>2 DEF Leave, SparesPaddings
    <3>3. CASE \E addr, count : Shorten(rs, addr, count)
      <4>1. PICK addr, count : Shorten(rs, addr, count)
        BY <3>3
      <4> QED
        BY <1>2, <3>1, <4>1, ShortenSpares DEF Shorten
    <3> QED
      BY <3>1, <3>2, <3>3
  <2>2. CASE UNCHANGED <<secVars, sec_flg0>>
    BY <2>2 DEF secVars
  <2>3. SparesPaddings(relocs)
    BY DEF SparesPaddings
  <2>4. CASE _bfd_riscv_relax_call
    <3>1. CASE Leave(relocs)
      BY <1>2, <2>1, <2>3, <3>1
    <3>2. CASE Shorten(Retyped(Jump.type), rel.offset + Jump.len, 8 - Jump.len)
      BY <1>4, <1>5, <2>1, <3>2
    <3> QED
      BY <2>4, <3>1, <3>2 DEF _bfd_riscv_relax_call
  <2>5. CASE _bfd_riscv_relax_lui
    <3>1. \/ Leave(relocs) \/ Leave(Retyped("GPREL_I")) \/ Leave(Retyped("GPREL_S"))
          \/ Shorten(Dropped, rel.offset, 4)
          \/ Shorten(Retyped("RVC_LUI"), rel.offset + 2, 2)
      BY <2>5, Zenon DEF _bfd_riscv_relax_lui
    <3> QED
      BY <1>2, <1>4, <2>1, <2>3, <3>1
  <2>6. CASE _bfd_riscv_relax_tls_le
    <3>1. \/ Leave(relocs) \/ Leave(Retyped("TPREL_I")) \/ Leave(Retyped("TPREL_S"))
          \/ Shorten(Dropped, rel.offset, 4)
      BY <2>6, Zenon DEF _bfd_riscv_relax_tls_le
    <3> QED
      BY <1>2, <1>4, <2>1, <2>3, <3>1
  <2>7. CASE _bfd_riscv_relax_import_pcrel
    <3>1. \/ Leave(Retyped("LO12_I")) \/ Leave(AbsolutePair)
          \/ UNCHANGED <<secVars, sec_flg0>>
      BY <2>7 DEF _bfd_riscv_relax_import_pcrel, AbsolutePair
    <3>2. PairOf(AbsolutePair, "HI20", "LO12_I")
      BY <1>1, <1>2, PairIs
    <3>3. SparesPaddings(AbsolutePair) /\ DOMAIN AbsolutePair = 1 .. Len(relocs)
      BY <1>1, <1>2, <1>3, <3>2, PairSpares DEF PairOf
    <3> QED
      BY <1>4, <2>1, <2>2, <3>1, <3>3
  <2>8. CASE _bfd_riscv_relax_got_ref
    <3>1. Leave(GotPair)
      BY <2>8 DEF _bfd_riscv_relax_got_ref, GotPair
    <3>2. PairOf(GotPair, "PCREL_HI20", "PCREL_LO12_I")
      BY <1>1, <1>2, PairIs
    <3>3. SparesPaddings(GotPair) /\ DOMAIN GotPair = 1 .. Len(relocs)
      BY <1>1, <1>2, <1>3, <3>2, PairSpares DEF PairOf
    <3> QED
      BY <2>1, <3>1, <3>3
  <2> QED
    BY <2>4, <2>5, <2>6, <2>7, <2>8, Zenon DEF RelaxRef
<1>7. Len(relocs') = Len(relocs)
  BY <1>1 DEF LinkInv, Shaped
<1>8. PaddingsLeft(obj, relocs', 1)
  BY <1>6, <1>7 DEF PaddingsLeft
<1> QED
  BY <1>1, <1>6, <1>8

-----------------------------------------------------------------------------
(* Paddings align: every step, and the theorem                             *)

LEMMA InitAlignInv == Init => AlignInv
<1> SUFFICES ASSUME Init PROVE AlignInv
  OBVIOUS
<1>1. LinkInv
  BY InitLinkInv
<1>2. /\ obj \in Objects /\ relocs = obj.relocs /\ relax_pass = 0 /\ ~ sec_flg0
  BY DEF Init, RelaxInit
<1>3. PaddingsLeft(obj, relocs, 1)
  BY <1>2 DEF PaddingsLeft
<1> QED
  BY <1>1, <1>2, <1>3 DEF AlignInv

\* In pass 1, what the loop does not look at is not a padding.
LEMMA SkipNoPadding ==
  ASSUME LinkInv, i <= Len(relocs), relax_pass = 1, PaddingsLeft(obj, relocs, i),
         ~ (Considered /\ HasValue)
  PROVE  obj.relocs[i].type # "ALIGN"
<1> SUFFICES ASSUME obj.relocs[i].type = "ALIGN" PROVE FALSE
  OBVIOUS
<1>1. /\ i \in 1 .. Len(relocs) /\ Len(relocs) \in Nat
      /\ Follows(relocs[i], obj.relocs[i])
  BY AtLoop
<1>2. relocs[i].type = "ALIGN"
  <2>1. i \in i .. Len(relocs)
    BY <1>1
  <2> QED
    BY <2>1 DEF PaddingsLeft
<1>3. rel.type = "ALIGN" /\ rel.sym = 1
  BY <1>1, <1>2 DEF Follows, rel
<1>4. syms[1].def = "null"
  <2>1. /\ obj \in Object /\ WellFormed(obj) /\ Len(syms) = Len(obj.syms)
        /\ \A s \in 1 .. Len(syms) : syms[s].def = obj.syms[s].def
    BY DEF LinkInv, Shaped
  <2>2. obj.syms # << >> /\ obj.syms[1].def = "null" /\ obj.syms \in Seq(Symbol)
    BY <2>1 DEF WellFormed, Object
  <2>3. Len(obj.syms) \in Nat \ {0}
    BY <2>2, EmptySeq
  <2> QED
    BY <2>1, <2>2, <2>3
<1>5. Considered /\ HasValue
  BY <1>3, <1>4 DEF Considered, HasValue, sym
<1> QED
  BY <1>5

\* A step of the relaxation, in pass 0 or in pass 1.
LEMMA RelaxingAligns ==
  ASSUME AlignInv, LinkInv', Relaxing
  PROVE  AlignInv'
<1>1. /\ LinkInv /\ obj \in Objects /\ relax_pass \in {0, 1}
      /\ i \in Nat \ {0} /\ relocs \in Seq(Reloc) /\ Len(relocs) \in Nat
      /\ relax_pass = 0 => ~ sec_flg0 /\ PaddingsLeft(obj, relocs, 1)
      /\ relax_pass = 1 =>
           /\ state \in {"relax", "sweep", "swept", "relaxed", "relocated",
                         "linked", "failed"}
           /\ state = "relax" => ~ sec_flg0 /\ PaddingsLeft(obj, relocs, 1)
           /\ state \in {"sweep", "swept"} => ~ again
           /\ state = "sweep" =>
                /\ i <= Len(relocs) + 1
                /\ AlignedIn(obj, contents, i - 1)
                /\ PaddingsLeft(obj, relocs, i)
           /\ state \notin {"relax", "sweep", "failed"} =>
                AlignedIn(obj, contents, Len(relocs))
  BY LenProperties DEF AlignInv, LinkInv, Shaped
<1>2. CASE BeginSweep
  <2>1. /\ UNCHANGED <<obj, contents, relocs, sec_flg0, relax_pass>>
        /\ state = "relax" /\ ~ again' /\ i' = 1
        /\ state' = IF sec_flg0 \/ relocs = << >> \/ (opt.norelax /\ relax_pass = 0)
                    THEN "swept" ELSE "sweep"
    BY <1>2 DEF BeginSweep, secVars
  <2>2. AlignedIn(obj, contents, 0) /\ AlignedIn(obj, contents, i' - 1)
    BY <2>1 DEF AlignedIn
  <2>3. CASE relax_pass = 0
    BY <1>1, <2>1, <2>3 DEF AlignInv
  <2>4. CASE relax_pass = 1
    <3>1. state' \in {"sweep", "swept"} /\ (state' = "swept" => relocs = << >>)
      BY <1>1, <2>1, <2>4
    <3>2. relocs = << >> => Len(relocs) = 0
      BY <1>1, EmptySeq
    <3>3. i' <= Len(relocs) + 1
      BY <1>1, <2>1
    <3> QED
      BY <1>1, <2>1, <2>2, <2>4, <3>1, <3>2, <3>3 DEF AlignInv
  <2> QED
    BY <1>1, <2>3, <2>4
<1>3. CASE Skip
  <2>1. /\ UNCHANGED <<obj, contents, relocs, sec_flg0, relax_pass, again, state>>
        /\ state = "sweep" /\ i <= Len(relocs) /\ i' = Next_i
        /\ ~ (Considered /\ HasValue)
    BY <1>3 DEF Skip, InLoop, secVars
  <2>2. CASE relax_pass = 0
    BY <1>1, <2>1, <2>2 DEF AlignInv
  <2>3. CASE relax_pass = 1
    <3>1. obj.relocs[i].type # "ALIGN"
      BY <1>1, <2>1, <2>3, SkipNoPadding
    <3>2. i' = i + 1 /\ i' <= Len(relocs) + 1
      BY <1>1, <2>1, <2>3 DEF Next_i
    <3>3. AlignedIn(obj, contents, i' - 1)
      <4>1. \A l \in 1 .. i' - 1 : l \in 1 .. i - 1 \/ l = i
        BY <1>1, <3>2
      <4> QED
        BY <1>1, <2>1, <2>3, <3>1, <4>1 DEF AlignedIn
    <3>4. PaddingsLeft(obj, relocs, i')
      <4>1. \A l \in i' .. Len(relocs) : l \in i .. Len(relocs)
        BY <1>1, <3>2
      <4> QED
        BY <1>1, <2>1, <2>3, <4>1 DEF PaddingsLeft
    <3> QED
      BY <1>1, <2>1, <2>3, <3>2, <3>3, <3>4 DEF AlignInv
  <2> QED
    BY <1>1, <2>2, <2>3
<1>4. CASE RelaxRef
  <2>1. relax_pass = 0 /\ relax_pass' = 0
    BY <1>4 DEF RelaxRef
  <2>2. PaddingsLeft(obj, relocs', 1) /\ UNCHANGED <<sec_flg0, obj>>
    BY <1>1, <1>4, <2>1, RefLeavesPaddings
  <2> QED
    BY <1>1, <2>1, <2>2 DEF AlignInv
<1>5. CASE RelaxAlign
  <2>1. /\ i <= Len(relocs) /\ rel.type = "ALIGN" /\ _bfd_riscv_relax_align
        /\ obj' = obj /\ state = "sweep" /\ relax_pass = 1 /\ relax_pass' = 1
        /\ i' = i + 1 /\ again' = again
    BY <1>5 DEF RelaxAlign, InLoop, Considered, Next_i, _bfd_riscv_relax_align
  <2>2. \/ state' = "failed"
        \/ /\ state' = "sweep"
           /\ AlignedIn(obj, contents', i)
           /\ PaddingsLeft(obj, relocs', i + 1)
    BY <1>1, <2>1, AlignAligns
  <2>3. i' <= Len(relocs') + 1 /\ i' - 1 = i
    <3>1. Len(relocs') = Len(relocs)
      BY <1>1, <2>1 DEF LinkInv, Shaped
    <3> QED
      BY <1>1, <2>1, <3>1
  <2> QED
    BY <1>1, <2>1, <2>2, <2>3 DEF AlignInv
<1>6. CASE EndSweep
  <2>1. /\ UNCHANGED <<obj, contents, relocs, sec_flg0, i, relax_pass, again>>
        /\ state = "sweep" /\ i > Len(relocs) /\ state' = "swept"
    BY <1>6 DEF EndSweep, secVars
  <2>2. relax_pass = 1 => AlignedIn(obj, contents, Len(relocs))
    <3> SUFFICES ASSUME relax_pass = 1 PROVE AlignedIn(obj, contents, Len(relocs))
      OBVIOUS
    <3>1. i <= Len(relocs) + 1 /\ AlignedIn(obj, contents, i - 1)
      BY <1>1, <2>1
    <3>2. i - 1 = Len(relocs)
      BY <1>1, <2>1, <3>1
    <3> QED
      BY <3>1, <3>2
  <2> QED
    BY <1>1, <2>1, <2>2 DEF AlignInv
<1>7. CASE NextSweep
  <2>1. /\ UNCHANGED <<obj, contents, relocs, sec_flg0, i, again>>
        /\ state = "swept"
        /\ IF again \/ relax_pass = 0
           THEN /\ state' = "relax"
                /\ relax_pass' = IF again THEN relax_pass ELSE 1
           ELSE state' = "relaxed" /\ UNCHANGED relax_pass
    BY <1>7 DEF NextSweep, secVars
  <2> QED
    BY <1>1, <2>1 DEF AlignInv
<1> QED
  BY <1>2, <1>3, <1>4, <1>5, <1>6, <1>7, Zenon DEF Relaxing

\* Whatever the linker does next, the paddings behind the loop of pass 1 are
\* still to be handled and the ones before it align: the inductive step
\* (_bfd_riscv_relax_section, _bfd_riscv_relax_align).
THEOREM NextAlignInv == AlignInv /\ [Next]_vars => AlignInv'
<1> SUFFICES ASSUME AlignInv, [Next]_vars PROVE AlignInv'
  OBVIOUS
<1>1. LinkInv /\ LinkInv'
  BY NextLinkInv DEF AlignInv
<1>2. CASE Relaxing
  BY <1>1, <1>2, RelaxingAligns
<1>3. CASE check_relocs \/ Reserve_sections
  <2>1. /\ UNCHANGED <<obj, relocs, sec_flg0, relax_pass>>
        /\ state \in {"collect", "reserve"}
    <3>1. CASE check_relocs
      <4>1. UNCHANGED <<obj, secVars, sec_flg0, relax_pass>>
        BY <3>1, Zenon DEF check_relocs
      <4>2. state = "collect"
        BY <3>1, Zenon DEF check_relocs
      <4> QED
        BY <4>1, <4>2 DEF secVars
    <3>2. CASE Reserve_sections
      BY <3>2 DEF Reserve_sections, secVars
    <3> QED
      BY <1>3, <3>1, <3>2
  <2>2. relax_pass = 0
    BY <2>1 DEF AlignInv
  <2> QED
    BY <1>1, <2>1, <2>2 DEF AlignInv
<1>4. CASE relocate_section \/ final_link
  <2>1. UNCHANGED <<obj, contents, relocs, sec_flg0, relax_pass>>
    BY <1>4 DEF relocate_section, final_link, secVars
  <2>2. /\ state \in {"relaxed", "relocated"}
        /\ state' \in {"relocated", "linked", "failed"}
    <3>1. CASE relocate_section
      BY <3>1 DEF relocate_section
    <3>2. CASE final_link
      BY <3>2 DEF final_link
    <3> QED
      BY <1>4, <3>1, <3>2
  <2> QED
    BY <1>1, <2>1, <2>2 DEF AlignInv
<1>5. CASE UNCHANGED vars
  <2>1. UNCHANGED <<obj, contents, relocs, sec_flg0, i, relax_pass, again, state>>
    BY <1>5 DEF vars, relaxVars, secVars
  <2> QED
    BY <1>1, <2>1 DEF AlignInv
<1> QED
  BY <1>2, <1>3, <1>4, <1>5 DEF Next

LEMMA AlignInvAligned == AlignInv => Aligned
<1> SUFFICES ASSUME AlignInv PROVE Aligned
  OBVIOUS
<1>1. DOMAIN relocs = 1 .. Len(relocs)
  BY LenProperties DEF AlignInv, LinkInv, Shaped
<1> SUFFICES ASSUME state \notin {"relax", "sweep", "swept", "failed"}, relax_pass = 1,
                    NEW k \in DOMAIN relocs, NEW p \in 0 .. Len(contents),
                    obj.relocs[k].type = "ALIGN", At(p, End(obj.relocs[k]))
             PROVE  (SecAddr + p) % Alignment(obj.relocs[k].addend) = 0
  BY DEF Aligned
<1>2. AlignedIn(obj, contents, Len(relocs))
  BY DEF AlignInv
<1>3. AtIn(contents, p, End(obj.relocs[k]))
  BY DEF At, AtIn
<1> QED
  BY <1>1, <1>2, <1>3 DEF AlignedIn

\* When the section is relaxed, the code behind every padding is aligned,
\* whatever was deleted before it and however long the other paddings are
\* (_bfd_riscv_relax_align, and that nothing is relaxed after it).
THEOREM AlignedAlways == Spec => []Aligned
<1>1. Spec => []AlignInv
  BY InitAlignInv, NextAlignInv, PTL DEF Spec
<1> QED
  BY <1>1, AlignInvAligned, PTL

-----------------------------------------------------------------------------
(* Low parts follow: the invariant                                         *)

\* A reference of the assembler whose address is near zero or gp, as the
\* relaxation finds it in every sweep: such a symbol never moves.
NearRef(ob, r) ==
  LET s == ob.syms[r.sym]
      value == r.addend + s.value
      rest == IF s.size < 0 \/ r.addend <= s.size THEN s.size - r.addend ELSE 0
      align == IF Gp # 0 /\ s.gpsec THEN GpAlign ELSE MaxAlign
  IN /\ s.def = "other" /\ ~ (s.global /\ s.weak) /\ ~ s.fixed
     /\ \/ VALID_ITYPE_IMM(value)
        \/ value >= Gp /\ VALID_ITYPE_IMM(value - Gp + align + rest)
        \/ value < Gp /\ VALID_ITYPE_IMM(value - Gp - align - rest)

LowTypes == {"LO12_I", "LO12_S"}
BasedTypes == {"GPREL_I", "GPREL_S"}

\* What relaxing makes of the two parts of an address.
PartsOf(t) ==
  CASE t = "HI20" -> {"HI20", "NONE", "RVC_LUI"}
    [] t = "LO12_I" -> {"LO12_I", "GPREL_I"}
    [] OTHER -> {"LO12_S", "GPREL_S"}

\* The relocation behind this one allows to relax it.
Pair(ob, rs, l) ==
  Marked(ob, l) /\ ob.relocs[l + 1].offset = ob.relocs[l].offset =>
    rs[l + 1].type = "RELAX" /\ rs[l + 1].offset = rs[l].offset

PartIn(ob, rs, l) ==
  LET q == ob.relocs[l]
  IN /\ rs[l].type \in PartsOf(q.type)
     /\ rs[l].type = "NONE" => Marked(ob, l) /\ NearRef(ob, q)
     /\ rs[l].type # "NONE" => rs[l].sym = q.sym
     /\ Pair(ob, rs, l)

\* The low parts up to n that may be relaxed and are near have been.
FollowedTo(ob, rs, n) ==
  \A l \in 1 .. Len(rs) :
    /\ l <= n
    /\ ob.relocs[l].type \in LowTypes
    /\ Marked(ob, l) /\ ob.relocs[l + 1].offset = ob.relocs[l].offset
    /\ NearRef(ob, ob.relocs[l])
    => rs[l].type \in BasedTypes

\* No LUI has been deleted.
NoneDropped(ob, rs) ==
  \A l \in 1 .. Len(rs) : ob.relocs[l].type = "HI20" => rs[l].type # "NONE"

SymbolsStay(ob, ss) ==
  \A s \in 1 .. Len(ss) :
    /\ ss[s].fixed = ob.syms[s].fixed
    /\ ob.syms[s].def # "sec" => ss[s] = ob.syms[s]

Parts(ob, rs) ==
  \A l \in 1 .. Len(rs) : ob.relocs[l].type \in LuiTypes => PartIn(ob, rs, l)

LowData ==
  /\ LinkInv
  /\ obj \in Objects /\ relax_pass \in {0, 1}
  /\ SymbolsStay(obj, syms)
  /\ Parts(obj, relocs)

\* The inductive invariant.  A sweep that deletes a LUI comes to all its low
\* parts before it ends, and finds for each what it found for the LUI.
LowInv ==
  /\ LowData
  /\ \/ state = "sweep" /\ relax_pass = 0 /\ FollowedTo(obj, relocs, i - 1)
     \/ FollowedTo(obj, relocs, Len(relocs))
     \/ NoneDropped(obj, relocs) /\ (state = "sweep" => relax_pass = 1)

-----------------------------------------------------------------------------
(* Low parts follow: addresses                                             *)

NearTo(value, gp, align, rest, reach) ==
  \/ value \in -reach .. reach - 1
  \/ value >= gp /\ value - gp + align + rest \in -reach .. reach - 1
  \/ value < gp /\ value - gp - align - rest \in -reach .. reach - 1

\* If the first byte of the rest of a symbol is near, all later ones are.
LEMMA NearGoesOn ==
  ASSUME NEW ob \in Object, NEW h \in Reloc, NEW r \in Reloc, r.sym = h.sym,
         h.sym \in DOMAIN ob.syms, NearRef(ob, h), AlignedSymbol(ob.syms[h.sym]),
         r.addend \in h.addend .. ob.syms[h.sym].size - 1
  PROVE  NearRef(ob, r)
<1>1. PICK s : s = ob.syms[h.sym]
  OBVIOUS
<1>2. s \in Symbol
  <2>1. ob.syms \in Seq(Symbol)
    BY DEF Object
  <2> QED BY <1>1, <2>1, ElementOfSeq, LenProperties
<1>3. PICK v \in Nat, z \in Int, a \in Nat, b \in Nat, gp \in Nat, I \in Nat, al \in Nat :
        /\ v = s.value /\ z = s.size /\ a = h.addend /\ b = r.addend /\ gp = Gp /\ I = IReach
        /\ al = (IF Gp # 0 /\ s.gpsec THEN GpAlign ELSE MaxAlign)
  <2>1. /\ s.value \in Nat /\ s.size \in Int /\ h.addend \in Nat /\ r.addend \in Nat
    BY <1>2 DEF Symbol, Reloc
  <2>2. Gp \in Nat /\ IReach \in Nat /\ GpAlign \in Nat /\ MaxAlign \in Nat
    BY RelaxConstants
  <2>3. (IF Gp # 0 /\ s.gpsec THEN GpAlign ELSE MaxAlign) \in Nat
    BY <2>2
  <2> QED BY <2>1, <2>2, <2>3, Zenon
<1>4. b \in a .. z - 1 /\ z > 0 /\ v \div I = (v + z - 1) \div I
  BY <1>1, <1>3 DEF AlignedSymbol
<1>5. /\ NearRef(ob, h) <=>
           /\ s.def = "other" /\ ~ (s.global /\ s.weak) /\ ~ s.fixed
           /\ NearTo(a + v, gp, al, IF z < 0 \/ a <= z THEN z - a ELSE 0, I)
      /\ NearRef(ob, r) <=>
           /\ s.def = "other" /\ ~ (s.global /\ s.weak) /\ ~ s.fixed
           /\ NearTo(b + v, gp, al, IF z < 0 \/ b <= z THEN z - b ELSE 0, I)
  <2>1. s = ob.syms[r.sym]
    BY <1>1
  <2> QED
    BY <1>1, <1>3, <2>1, Zenon DEF NearRef, NearTo, VALID_ITYPE_IMM, Within
<1>6. NearTo(a + v, gp, al, z - a, I) => NearTo(b + v, gp, al, z - b, I)
  <2>1. CASE a + v \in -I .. I - 1
    <3>1. I \in Nat \ {0} /\ v \in 0 .. I - 1
      BY <1>3, <2>1
    <3>2. v \div I = 0
      BY <3>1
    <3>3. v + z - 1 \in Nat /\ (v + z - 1) \div I = 0
      BY <1>3, <1>4, <3>2
    <3>4. v + z - 1 < I
      BY <3>1, <3>3
    <3>5. b + v \in -I .. I - 1
      BY <1>3, <1>4, <3>4
    <3> QED
      BY <3>5 DEF NearTo
  <2>2. CASE a + v >= gp /\ a + v - gp + al + (z - a) \in -I .. I - 1
    <3>1. b + v >= gp /\ b + v - gp + al + (z - b) \in -I .. I - 1
      BY <1>3, <1>4, <2>2
    <3> QED
      BY <3>1 DEF NearTo
  <2>3. CASE a + v < gp /\ a + v - gp - al - (z - a) \in -I .. I - 1
    <3>1. CASE b + v < gp
      <4>1. b + v - gp - al - (z - b) \in -I .. I - 1
        BY <1>3, <1>4, <2>3, <3>1
      <4> QED
        BY <3>1, <4>1 DEF NearTo
    <3>2. CASE b + v >= gp
      <4>1. b + v - gp + al + (z - b) \in -I .. I - 1
        BY <1>3, <1>4, <2>3, <3>2
      <4> QED
        BY <3>2, <4>1 DEF NearTo
    <3> QED
      BY <1>3, <3>1, <3>2
  <2>4. NearTo(a + v, gp, al, z - a, I) =>
          \/ a + v \in -I .. I - 1
          \/ a + v >= gp /\ a + v - gp + al + (z - a) \in -I .. I - 1
          \/ a + v < gp /\ a + v - gp - al - (z - a) \in -I .. I - 1
    BY DEF NearTo
  <2> QED
    BY <2>1, <2>2, <2>3, <2>4, Zenon
<1>7. /\ (IF z < 0 \/ a <= z THEN z - a ELSE 0) = z - a
      /\ (IF z < 0 \/ b <= z THEN z - b ELSE 0) = z - b
  BY <1>3, <1>4
<1> QED
  BY <1>5, <1>6, <1>7, Zenon

\* What the relaxation finds for a reference in any sweep is NearRef.
LEMMA NearIs ==
  ASSUME LowData, i <= Len(relocs), rel.type \in LuiTypes, obj.relocs[i].type \in LuiTypes
  PROVE  /\ HasValue /\ ~ (Is_Import \/ sym.fixed) /\ NearBase => NearRef(obj, obj.relocs[i])
         /\ NearRef(obj, obj.relocs[i]) => HasValue /\ ~ (Is_Import \/ sym.fixed) /\ NearBase
<1> DEFINE q == obj.relocs[i]
<1>1. /\ i \in 1 .. Len(relocs) /\ Len(relocs) = Len(obj.relocs) /\ obj \in Object /\ WellFormed(obj)
      /\ Len(syms) = Len(obj.syms) /\ syms \in Seq(Symbol)
      /\ rel \in Reloc /\ Follows(rel, q) /\ rel.type # "NONE"
  BY AtLoop DEF LowData, LinkInv, Shaped, rel, LuiTypes
<1>2. rel.addend = q.addend /\ rel.sym = q.sym /\ q.sym \in 1 .. Len(syms)
  <2>1. PartIn(obj, relocs, i)
    BY <1>1 DEF LowData, Parts
  <2>2. rel.addend = q.addend /\ rel.sym = q.sym
    BY <1>1, <2>1, Zenon DEF PartIn, Follows, rel
  <2>3. q.sym \in DOMAIN obj.syms
    <3>1. i \in DOMAIN obj.relocs
      BY <1>1, AsmReloc
    <3> QED BY <1>1, <3>1 DEF WellFormed, Placed
  <2>4. DOMAIN obj.syms = 1 .. Len(obj.syms)
    BY <1>1, LenProperties DEF Object
  <2> QED BY <1>1, <2>2, <2>3, <2>4
<1>3. PICK y : y = obj.syms[q.sym]
  OBVIOUS
<1>4. sym.def = y.def /\ sym.fixed = y.fixed /\ (y.def # "sec" => sym = y)
  BY <1>1, <1>2, <1>3 DEF LowData, SymbolsStay, LinkInv, Shaped, sym
<1>5. /\ y.def \in {"null", "sec"} \/ (y.def = "other" /\ y.func) => y.fixed
      /\ y \in Symbol
  <2>1. obj \in Objects /\ q.sym \in DOMAIN obj.syms /\ obj.syms \in Seq(Symbol)
    BY <1>1, <1>2, LenProperties DEF LowData, Object
  <2> QED BY <1>3, <2>1, CodeIsFixed, ElementOfSeq, LenProperties
<1>6. y.def \in SymDef
  BY <1>5 DEF Symbol
<1>7. CASE y.def # "other" \/ y.fixed
  BY <1>3, <1>4, <1>5, <1>6, <1>7 DEF NearRef, HasValue, SymDef
<1>8. CASE y.def = "other" /\ ~ y.fixed
  <2>1. sym = y /\ ~ y.func /\ HasValue
    BY <1>4, <1>5, <1>8 DEF HasValue
  <2>2. symval = q.addend + y.value
    BY <1>2, <1>8, <2>1 DEF symval
  <2>3. Reserve = IF y.size < 0 \/ q.addend <= y.size THEN y.size - q.addend ELSE 0
    BY <1>2, <1>8, <2>1 DEF Reserve
  <2> QED BY <1>3, <1>8, <2>1, <2>2, <2>3, Zenon DEF NearRef, NearBase, Is_Import
<1> QED BY <1>7, <1>8

-----------------------------------------------------------------------------
(* Low parts follow: one step                                              *)

\* The relocations rs of the section are moved, and nothing else, and symbols
\* are moved with them.
MovesAll(rs) ==
  /\ Len(relocs') = Len(relocs)
  /\ \A l \in 1 .. Len(relocs) :
       relocs'[l].type = rs[l].type /\ relocs'[l].sym = rs[l].sym
  /\ \A k \in 1 .. Len(relocs), l \in 1 .. Len(relocs) :
       rs[k].offset = rs[l].offset => relocs'[k].offset = relocs'[l].offset
  /\ SymbolsStay(obj, syms')

LEMMA MovesAllIs ==
  ASSUME LinkInv, LinkInv', SymbolsStay(obj, syms), obj' = obj,
         NEW rs, DOMAIN rs = 1 .. Len(relocs), \A l \in 1 .. Len(relocs) : rs[l] \in Reloc,
         \/ relocs' = rs /\ syms' = syms
         \/ \E addr, count : riscv_relax_delete_bytes(rs, addr, count)
  PROVE  MovesAll(rs)
<1>1. /\ Len(relocs') = Len(relocs) /\ syms \in Seq(Symbol)
  BY DEF LinkInv, Shaped
<1>2. DOMAIN syms = 1 .. Len(syms) /\ Len(syms) \in Nat
  BY <1>1, LenProperties
<1>3. CASE relocs' = rs /\ syms' = syms
  BY <1>1, <1>3 DEF MovesAll
<1>4. CASE \E addr, count : riscv_relax_delete_bytes(rs, addr, count)
  <2>1. PICK addr, count : riscv_relax_delete_bytes(rs, addr, count)
    BY <1>4
  <2>2. /\ \A l \in 1 .. Len(relocs) :
             relocs'[l] = MovedReloc(rs[l], addr, count, Len(contents))
        /\ syms' = [s \in 1 .. Len(syms) |->
                      MovedSymbol(syms[s], addr, count, Len(contents))]
    BY <1>2, <2>1 DEF riscv_relax_delete_bytes
  <2>3. \A l \in 1 .. Len(relocs) :
          /\ relocs'[l].type = rs[l].type /\ relocs'[l].sym = rs[l].sym
          /\ relocs'[l].offset = IF rs[l].offset > addr /\ rs[l].offset < Len(contents)
                                 THEN rs[l].offset - count ELSE rs[l].offset
    BY <2>2, MovedRelocFields
  <2>4. ASSUME NEW y \in Symbol
        PROVE  LET u == MovedSymbol(y, addr, count, Len(contents))
               IN u.fixed = y.fixed /\ (y.def # "sec" => u = y)
    BY DEF MovedSymbol, Symbol
  <2>5. SymbolsStay(obj, syms')
    <3>1. Len(syms') = Len(syms)
      BY <1>1 DEF LinkInv, Shaped
    <3>2. ASSUME NEW s \in 1 .. Len(syms)
          PROVE  /\ syms'[s].fixed = obj.syms[s].fixed
                 /\ obj.syms[s].def # "sec" => syms'[s] = obj.syms[s]
      <4>1. /\ syms[s] \in Symbol /\ syms[s].def = obj.syms[s].def
            /\ syms[s].fixed = obj.syms[s].fixed
            /\ obj.syms[s].def # "sec" => syms[s] = obj.syms[s]
        BY <1>1, ElementOfSeq DEF SymbolsStay, LinkInv, Shaped
      <4>2. syms'[s] = MovedSymbol(syms[s], addr, count, Len(contents))
        BY <2>2
      <4> QED
        BY <2>4, <4>1, <4>2
    <3> QED
      BY <3>1, <3>2 DEF SymbolsStay
  <2> QED
    BY <1>1, <2>3, <2>5 DEF MovesAll
<1> QED
  BY <1>3, <1>4

\* The step changes the type of relocation i, or of what was a
\* R_RISCV_RELAX behind it.
OnlyHere(rs) ==
  /\ DOMAIN rs = 1 .. Len(relocs)
  /\ \A l \in 1 .. Len(relocs) :
       /\ rs[l] \in Reloc
       /\ rs[l].offset = relocs[l].offset
       /\ \/ rs[l] = relocs[l]
          \/ l = i
          \/ l = i + 1 /\ relocs[l].type = "RELAX" /\ obj.relocs[i].type \notin LuiTypes

\* What becomes of one of the two parts of an address there.
PartHere(rs) ==
  LET q == obj.relocs[i]
  IN q.type \in LuiTypes =>
       /\ rs[i].type \in PartsOf(q.type)
       /\ rs[i].type = "NONE" => Marked(obj, i) /\ NearRef(obj, q)
       /\ rs[i].type # "NONE" => rs[i].sym = q.sym

LEMMA RelaxOfRelax ==
  ASSUME LinkInv, NEW l \in 1 .. Len(relocs), relocs[l].type = "RELAX"
  PROVE  obj.relocs[l].type = "RELAX"
BY DEF LinkInv, Shaped, Follows, TypesOf

LEMMA PartsMove ==
  ASSUME LinkInv, i \in 1 .. Len(relocs), Parts(obj, relocs), rel.type # "RELAX",
         NEW rs, OnlyHere(rs), PartHere(rs), MovesAll(rs)
  PROVE  Parts(obj, relocs')
<1>1. Len(relocs') = Len(relocs) /\ Len(relocs) = Len(obj.relocs) /\ i \in Nat
  BY DEF MovesAll, LinkInv, Shaped
<1>2. SUFFICES ASSUME NEW l \in 1 .. Len(relocs), obj.relocs[l].type \in LuiTypes
               PROVE  PartIn(obj, relocs', l)
  BY <1>1 DEF Parts
<1>3. PartIn(obj, relocs, l)
  BY <1>2 DEF Parts
<1>4. /\ rs[l].type \in PartsOf(obj.relocs[l].type)
      /\ rs[l].type = "NONE" => Marked(obj, l) /\ NearRef(obj, obj.relocs[l])
      /\ rs[l].type # "NONE" => rs[l].sym = obj.relocs[l].sym
  <2>1. CASE l = i
    BY <1>2, <2>1 DEF PartHere
  <2>2. CASE l # i
    <3>1. rs[l] = relocs[l]
      <4>1. relocs[l].type # "RELAX"
        BY <1>2, RelaxOfRelax DEF LuiTypes
      <4> QED
        BY <1>2, <2>2, <4>1 DEF OnlyHere
    <3> QED
      BY <1>3, <3>1 DEF PartIn
  <2> QED
    BY <2>1, <2>2
<1>5. Pair(obj, relocs', l)
  <2> SUFFICES ASSUME Marked(obj, l), obj.relocs[l + 1].offset = obj.relocs[l].offset
               PROVE  relocs'[l + 1].type = "RELAX" /\ relocs'[l + 1].offset = relocs'[l].offset
    BY DEF Pair
  <2>1. l + 1 \in 1 .. Len(relocs)
    BY <1>1, <1>2 DEF Marked
  <2>2. relocs[l + 1].type = "RELAX" /\ relocs[l + 1].offset = relocs[l].offset
    BY <1>3 DEF PartIn, Pair
  <2>3. rs[l + 1] = relocs[l + 1]
    <3>1. l + 1 # i
      BY <2>2 DEF rel
    <3>2. l + 1 = i + 1 => obj.relocs[i].type \in LuiTypes
      BY <1>1, <1>2
    <3> QED
      BY <2>1, <3>1, <3>2 DEF OnlyHere
  <2>4. rs[l + 1].offset = rs[l].offset
    BY <1>2, <2>2, <2>3 DEF OnlyHere
  <2> QED
    BY <1>2, <2>1, <2>2, <2>3, <2>4 DEF MovesAll
<1>6. relocs'[l].type = rs[l].type /\ relocs'[l].sym = rs[l].sym
  BY <1>2 DEF MovesAll
<1> QED
  BY <1>4, <1>5, <1>6 DEF PartIn

\* What is to be relaxed at i has been.
FollowedHere(rs) ==
  LET q == obj.relocs[i]
  IN /\ q.type \in LowTypes
     /\ Marked(obj, i) /\ obj.relocs[i + 1].offset = q.offset
     /\ NearRef(obj, q)
     => rs[i].type \in BasedTypes

LEMMA FollowedMove ==
  ASSUME LinkInv, i \in 1 .. Len(relocs), NEW rs, OnlyHere(rs), MovesAll(rs),
         NEW n \in Int, FollowedTo(obj, relocs, n),
         i <= n => FollowedHere(rs)
  PROVE  FollowedTo(obj, relocs', n)
<1>1. Len(relocs') = Len(relocs)
  BY DEF MovesAll
<1> SUFFICES ASSUME NEW l \in 1 .. Len(relocs), l <= n,
                    obj.relocs[l].type \in LowTypes,
                    Marked(obj, l), obj.relocs[l + 1].offset = obj.relocs[l].offset,
                    NearRef(obj, obj.relocs[l])
             PROVE  relocs'[l].type \in BasedTypes
  BY <1>1 DEF FollowedTo
<1>2. relocs'[l].type = rs[l].type
  BY DEF MovesAll
<1>3. CASE l = i
  BY <1>2, <1>3 DEF FollowedHere
<1>4. CASE l # i
  <2>1. relocs[l].type # "RELAX"
    BY RelaxOfRelax DEF LowTypes
  <2>2. rs[l] = relocs[l]
    BY <1>4, <2>1 DEF OnlyHere
  <2> QED
    BY <1>2, <2>2 DEF FollowedTo
<1> QED
  BY <1>3, <1>4

\* The loop goes on behind i, over the R_RISCV_RELAX there is.
LEMMA FollowedOn ==
  ASSUME LinkInv, i \in 1 .. Len(relocs), NEW rs, FollowedTo(obj, rs, i - 1),
         Len(rs) = Len(relocs), FollowedHere(rs),
         NEW n \in Int, n = i \/ (n = i + 1 /\ obj.relocs[i + 1].type = "RELAX")
  PROVE  FollowedTo(obj, rs, n)
<1> SUFFICES ASSUME NEW l \in 1 .. Len(rs), l <= n,
                    obj.relocs[l].type \in LowTypes,
                    Marked(obj, l), obj.relocs[l + 1].offset = obj.relocs[l].offset,
                    NearRef(obj, obj.relocs[l])
             PROVE  rs[l].type \in BasedTypes
  BY DEF FollowedTo
<1>1. i \in Nat /\ l \in Nat
  BY DEF LinkInv
<1>2. l <= i - 1 \/ l = i \/ (l = i + 1 /\ n = i + 1)
  BY <1>1
<1>3. CASE l <= i - 1
  BY <1>3 DEF FollowedTo
<1>4. CASE l = i
  BY <1>4 DEF FollowedHere
<1>5. CASE l = i + 1 /\ n = i + 1
  BY <1>1, <1>5 DEF LowTypes
<1> QED
  BY <1>2, <1>3, <1>4, <1>5

-----------------------------------------------------------------------------
(* Low parts follow: the relaxation functions                              *)

\* A step that relaxes relocation i keeps the parts of addresses.
LEMMA LowMove ==
  ASSUME LowData, LinkInv', obj' = obj, relax_pass' = relax_pass,
         i \in 1 .. Len(relocs), rel.type # "RELAX",
         NEW rs, OnlyHere(rs), PartHere(rs),
         \/ relocs' = rs /\ syms' = syms
         \/ \E addr, count : riscv_relax_delete_bytes(rs, addr, count)
  PROVE  LowData' /\ MovesAll(rs)
<1>1. MovesAll(rs)
  BY MovesAllIs DEF LowData, OnlyHere
<1>2. Parts(obj, relocs')
  BY <1>1, PartsMove DEF LowData
<1>3. SymbolsStay(obj, syms')
  BY <1>1 DEF MovesAll
<1> QED
  BY <1>1, <1>2, <1>3 DEF LowData

\* The relocations a step makes of them.
LEMMA HereIs ==
  ASSUME LinkInv, i \in 1 .. Len(relocs)
  PROVE  /\ OnlyHere(relocs)
         /\ OnlyHere(Dropped)
         /\ \A u \in RelocType :
              /\ OnlyHere(Retyped(u))
              /\ Retyped(u)[i].type = u /\ Retyped(u)[i].sym = rel.sym
         /\ Dropped[i].type = "NONE"
<1>1. /\ relocs \in Seq(Reloc) /\ DOMAIN relocs = 1 .. Len(relocs)
      /\ \A l \in 1 .. Len(relocs) : relocs[l] \in Reloc
  <2>1. relocs \in Seq(Reloc)
    BY DEF LinkInv, Shaped
  <2> QED
    BY <2>1, LenProperties, ElementOfSeq
<1>2. OnlyHere(relocs)
  BY <1>1 DEF OnlyHere
<1>3. rel \in Reloc
  BY <1>1 DEF rel
<1>4. OnlyHere(Dropped) /\ Dropped[i].type = "NONE"
  <2>1. LET v == [rel EXCEPT !.type = "NONE", !.sym = 1]
        IN v \in Reloc /\ v.type = "NONE" /\ v.offset = rel.offset
    BY <1>3, DroppedReloc
  <2>2. /\ DOMAIN Dropped = 1 .. Len(relocs)
        /\ \A l \in 1 .. Len(relocs) :
             Dropped[l] = IF l = i THEN [rel EXCEPT !.type = "NONE", !.sym = 1]
                          ELSE relocs[l]
    BY <1>1, DroppedIs
  <2>3. ASSUME NEW l \in 1 .. Len(relocs)
        PROVE  /\ Dropped[l] \in Reloc /\ Dropped[l].offset = relocs[l].offset
               /\ Dropped[l] = relocs[l] \/ l = i
    BY <1>1, <2>1, <2>2 DEF rel
  <2>4. Dropped[i].type = "NONE"
    BY <2>1, <2>2
  <2> QED
    BY <2>2, <2>3, <2>4 DEF OnlyHere
<1>5. ASSUME NEW u \in RelocType
      PROVE  /\ OnlyHere(Retyped(u))
             /\ Retyped(u)[i].type = u /\ Retyped(u)[i].sym = rel.sym
  <2>1. LET v == [rel EXCEPT !.type = u]
        IN v \in Reloc /\ v.type = u /\ v.offset = rel.offset /\ v.sym = rel.sym
    BY <1>3, RetypedReloc
  <2>2. /\ DOMAIN Retyped(u) = 1 .. Len(relocs)
        /\ \A l \in 1 .. Len(relocs) :
             Retyped(u)[l] = IF l = i THEN [rel EXCEPT !.type = u] ELSE relocs[l]
    BY <1>1, RetypedIs
  <2>3. ASSUME NEW l \in 1 .. Len(relocs)
        PROVE  /\ Retyped(u)[l] \in Reloc /\ Retyped(u)[l].offset = relocs[l].offset
               /\ Retyped(u)[l] = relocs[l] \/ l = i
    BY <1>1, <2>1, <2>2 DEF rel
  <2>4. Retyped(u)[i].type = u /\ Retyped(u)[i].sym = rel.sym
    BY <2>1, <2>2
  <2> QED
    BY <2>2, <2>3, <2>4 DEF OnlyHere
<1> QED
  BY <1>2, <1>4, <1>5

\* What the relaxation of relocation i may make of the relocations.
Relaxes ==
  \E rs :
    /\ OnlyHere(rs) /\ PartHere(rs) /\ FollowedHere(rs)
    /\ \/ relocs' = rs /\ syms' = syms
       \/ \E addr, count : riscv_relax_delete_bytes(rs, addr, count)

\* Everything but _bfd_riscv_relax_lui is about other relocations.
LEMMA OtherRelaxes ==
  ASSUME obj.relocs[i].type \notin LuiTypes, NEW rs, OnlyHere(rs),
         Leave(rs) \/ \E addr, count : Shorten(rs, addr, count)
  PROVE  Relaxes
BY DEF Relaxes, PartHere, FollowedHere, LowTypes, LuiTypes, Leave, Shorten

LEMMA PartTypes ==
  ASSUME LowData, i \in 1 .. Len(relocs), obj.relocs[i].type \in LuiTypes
  PROVE  /\ PartIn(obj, relocs, i)
         /\ rel.type \in {"HI20", "LO12_I", "LO12_S", "NONE", "RVC_LUI", "GPREL_I", "GPREL_S"}
BY DEF LowData, Parts, PartIn, PartsOf, LuiTypes, rel

LEMMA PairIsHere ==
  ASSUME LinkInv, i \in 1 .. Len(relocs), i < Len(relocs), relocs[i + 1].type = "RELAX",
         obj.relocs[i].type \notin LuiTypes,
         NEW u, NEW v, NEW rs, PairOf(rs, u, v)
  PROVE  OnlyHere(rs)
<1>1. \A l \in 1 .. Len(relocs) : relocs[l] \in Reloc
  BY ElementOfSeq DEF LinkInv, Shaped
<1> QED
  BY <1>1 DEF OnlyHere, PairOf, rel

LEMMA NotPart ==
  ASSUME LowData, i \in 1 .. Len(relocs),
         rel.type \notin {"HI20", "LO12_I", "LO12_S", "NONE", "RVC_LUI", "GPREL_I", "GPREL_S"}
  PROVE  obj.relocs[i].type \notin LuiTypes
BY PartTypes

LEMMA CallRelaxes ==
  ASSUME LowData, i \in 1 .. Len(relocs), _bfd_riscv_relax_call
  PROVE  Relaxes
<1>1. obj.relocs[i].type \notin LuiTypes
  BY NotPart DEF _bfd_riscv_relax_call
<1>2. CASE Leave(relocs)
  BY <1>1, <1>2, HereIs, OtherRelaxes DEF LowData
<1>3. CASE Shorten(Retyped(Jump.type), rel.offset + Jump.len, 8 - Jump.len)
  <2>1. Jump.type \in RelocType
    BY DEF Jump, RelocType, AsmTypes, LuiTypes
  <2>2. OnlyHere(Retyped(Jump.type))
    BY <2>1, HereIs DEF LowData
  <2> QED
    BY <1>1, <1>3, <2>2, OtherRelaxes
<1> QED
  BY <1>2, <1>3 DEF _bfd_riscv_relax_call

LEMMA TlsRelaxes ==
  ASSUME LowData, i \in 1 .. Len(relocs), _bfd_riscv_relax_tls_le
  PROVE  Relaxes
<1>1. obj.relocs[i].type \notin LuiTypes
  BY NotPart DEF _bfd_riscv_relax_tls_le, TlsTypes
<1>2. \/ Leave(relocs) \/ Leave(Retyped("TPREL_I")) \/ Leave(Retyped("TPREL_S"))
      \/ Shorten(Dropped, rel.offset, 4)
  BY Zenon DEF _bfd_riscv_relax_tls_le
<1>3. "TPREL_I" \in RelocType /\ "TPREL_S" \in RelocType
  BY DEF RelocType
<1>4. /\ OnlyHere(relocs) /\ OnlyHere(Dropped)
      /\ OnlyHere(Retyped("TPREL_I")) /\ OnlyHere(Retyped("TPREL_S"))
  BY <1>3, HereIs DEF LowData
<1> QED
  BY <1>1, <1>2, <1>4, OtherRelaxes

LEMMA ImportRelaxes ==
  ASSUME LowData, i \in 1 .. Len(relocs), i < Len(relocs), relocs[i + 1].type = "RELAX",
         _bfd_riscv_relax_import_pcrel
  PROVE  Relaxes
<1>1. obj.relocs[i].type \notin LuiTypes
  BY NotPart DEF _bfd_riscv_relax_import_pcrel, PcrelTypes
<1>2. \/ Leave(Retyped("LO12_I")) \/ Leave(AbsolutePair)
      \/ UNCHANGED <<secVars, sec_flg0>>
  BY DEF _bfd_riscv_relax_import_pcrel, AbsolutePair
<1>3. "LO12_I" \in RelocType
  BY DEF RelocType, AsmTypes, LuiTypes
<1>4. OnlyHere(relocs) /\ OnlyHere(Retyped("LO12_I"))
  BY <1>3, HereIs DEF LowData
<1>5. OnlyHere(AbsolutePair)
  <2>1. relocs \in Seq(Reloc)
    BY DEF LowData, LinkInv, Shaped
  <2> QED
    BY <1>1, <2>1, PairIs, PairIsHere DEF LowData
<1>6. CASE UNCHANGED <<secVars, sec_flg0>>
  <2>1. relocs' = relocs /\ syms' = syms
    BY <1>6 DEF secVars
  <2>2. PartHere(relocs) /\ FollowedHere(relocs)
    BY <1>1 DEF PartHere, FollowedHere, LowTypes, LuiTypes
  <2> QED
    BY <1>4, <2>1, <2>2 DEF Relaxes
<1> QED
  BY <1>1, <1>2, <1>4, <1>5, <1>6, OtherRelaxes

LEMMA GotRelaxes ==
  ASSUME LowData, i \in 1 .. Len(relocs), i < Len(relocs), relocs[i + 1].type = "RELAX",
         _bfd_riscv_relax_got_ref
  PROVE  Relaxes
<1>1. obj.relocs[i].type \notin LuiTypes
  BY NotPart DEF _bfd_riscv_relax_got_ref
<1>2. Leave(GotPair)
  BY DEF _bfd_riscv_relax_got_ref, GotPair
<1>3. relocs \in Seq(Reloc)
  BY DEF LowData, LinkInv, Shaped
<1>4. OnlyHere(GotPair)
  BY <1>1, <1>3, PairIs, PairIsHere DEF LowData
<1> QED
  BY <1>1, <1>2, <1>4, OtherRelaxes

\* What the relaxation decides for a part of an address is NearRef.
LEMMA LuiRelaxes ==
  ASSUME LowData, i \in 1 .. Len(relocs), i < Len(relocs), relocs[i + 1].type = "RELAX",
         HasValue, _bfd_riscv_relax_lui
  PROVE  Relaxes
<1>1. rel.type \in {"HI20", "LO12_I", "LO12_S"}
  BY DEF _bfd_riscv_relax_lui, LuiTypes
<1>2. /\ "GPREL_I" \in RelocType /\ "GPREL_S" \in RelocType /\ "RVC_LUI" \in RelocType
  BY DEF RelocType
<1>3. /\ OnlyHere(relocs) /\ OnlyHere(Dropped) /\ OnlyHere(Retyped("GPREL_I"))
      /\ OnlyHere(Retyped("GPREL_S")) /\ OnlyHere(Retyped("RVC_LUI"))
      /\ Dropped[i].type = "NONE"
      /\ \A u \in {"GPREL_I", "GPREL_S", "RVC_LUI"} :
           Retyped(u)[i].type = u /\ Retyped(u)[i].sym = rel.sym
  BY <1>2, HereIs DEF LowData
<1> DEFINE near == ~ (Is_Import \/ sym.fixed) /\ NearBase
<1>4. \/ ~ near /\ Leave(relocs)
      \/ near /\ rel.type = "LO12_I" /\ Leave(Retyped("GPREL_I"))
      \/ near /\ rel.type = "LO12_S" /\ Leave(Retyped("GPREL_S"))
      \/ near /\ rel.type = "HI20" /\ Shorten(Dropped, rel.offset, 4)
      \/ ~ near /\ rel.type = "HI20" /\ Shorten(Retyped("RVC_LUI"), rel.offset + 2, 2)
  BY <1>1, Zenon DEF _bfd_riscv_relax_lui, ShortLui
<1>5. CASE obj.relocs[i].type \notin LuiTypes
  <2> HIDE DEF near
  <2> QED
    BY <1>3, <1>4, <1>5, OtherRelaxes
<1>6. CASE obj.relocs[i].type \in LuiTypes
  <2>1. near <=> NearRef(obj, obj.relocs[i])
    BY <1>1, <1>6, NearIs DEF LuiTypes
  <2> HIDE DEF near
  <2>2. rel.type \in PartsOf(obj.relocs[i].type) /\ rel.sym = obj.relocs[i].sym
    BY <1>1, <1>6, PartTypes DEF PartIn, rel
  <2>3. obj.relocs[i].type = rel.type
    BY <1>1, <1>6, <2>2 DEF LuiTypes, PartsOf
  <2>4. Marked(obj, i)
    <3>1. i \in Nat /\ Len(relocs) = Len(obj.relocs) /\ i + 1 \in 1 .. Len(relocs)
      <4>1. i \in Nat /\ relocs \in Seq(Reloc) /\ Len(relocs) = Len(obj.relocs)
        BY DEF LowData, LinkInv, Shaped
      <4> QED
        BY <4>1, LenProperties
    <3> QED
      BY <3>1, RelaxOfRelax DEF LowData, Marked
  <2>5. CASE ~ near /\ Leave(relocs)
    <3>1. PartHere(relocs) /\ FollowedHere(relocs)
      BY <2>1, <2>2, <2>5, <1>1 DEF PartHere, FollowedHere, rel
    <3> QED
      BY <1>3, <2>5, <3>1 DEF Relaxes, Leave
  <2>6. CASE near /\ rel.type = "LO12_I" /\ Leave(Retyped("GPREL_I"))
    <3>1. PartHere(Retyped("GPREL_I")) /\ FollowedHere(Retyped("GPREL_I"))
      BY <1>3, <2>2, <2>3, <2>6 DEF PartHere, FollowedHere, PartsOf, BasedTypes
    <3> QED
      BY <1>3, <2>6, <3>1 DEF Relaxes, Leave
  <2>7. CASE near /\ rel.type = "LO12_S" /\ Leave(Retyped("GPREL_S"))
    <3>1. PartHere(Retyped("GPREL_S")) /\ FollowedHere(Retyped("GPREL_S"))
      BY <1>3, <2>2, <2>3, <2>7 DEF PartHere, FollowedHere, PartsOf, BasedTypes
    <3> QED
      BY <1>3, <2>7, <3>1 DEF Relaxes, Leave
  <2>8. CASE near /\ rel.type = "HI20" /\ Shorten(Dropped, rel.offset, 4)
    <3>1. PartHere(Dropped) /\ FollowedHere(Dropped)
      BY <1>3, <2>1, <2>3, <2>4, <2>8 DEF PartHere, FollowedHere, PartsOf, LowTypes
    <3> QED
      BY <1>3, <2>8, <3>1 DEF Relaxes, Shorten
  <2>9. CASE ~ near /\ rel.type = "HI20" /\ Shorten(Retyped("RVC_LUI"), rel.offset + 2, 2)
    <3>1. PartHere(Retyped("RVC_LUI")) /\ FollowedHere(Retyped("RVC_LUI"))
      BY <1>3, <2>2, <2>3, <2>9 DEF PartHere, FollowedHere, PartsOf, LowTypes
    <3> QED
      BY <1>3, <2>9, <3>1 DEF Relaxes, Shorten
  <2> QED
    BY <1>4, <2>5, <2>6, <2>7, <2>8, <2>9
<1> QED
  BY <1>5, <1>6

-----------------------------------------------------------------------------
(* Low parts follow: every step, and the theorem                           *)

\* What a relaxation has followed it goes on following.
LEMMA RefFollows ==
  ASSUME LowData, LinkInv', RelaxRef, FollowedTo(obj, relocs, i - 1)
  PROVE  LowData' /\ FollowedTo(obj, relocs', i' - 1)
<1>1. /\ i <= Len(relocs) /\ i < Len(relocs) /\ relocs[i + 1].type = "RELAX"
      /\ obj' = obj /\ i' = Next_i /\ HasValue /\ relax_pass' = relax_pass
      /\ relax_pass = 0 /\ Considered /\ rel.type \in Shortened
  BY Zenon DEF RelaxRef, InLoop, Considered, Paired
<1>2. i \in 1 .. Len(relocs) /\ i \in Nat /\ Len(relocs) \in Nat
  BY <1>1, AtLoop DEF LowData
<1>3. Relaxes
  <2>1. CASE _bfd_riscv_relax_call
    BY <1>2, <2>1, CallRelaxes
  <2>2. CASE _bfd_riscv_relax_lui
    BY <1>1, <1>2, <2>2, LuiRelaxes
  <2>3. CASE _bfd_riscv_relax_tls_le
    BY <1>2, <2>3, TlsRelaxes
  <2>4. CASE _bfd_riscv_relax_import_pcrel
    BY <1>1, <1>2, <2>4, ImportRelaxes
  <2>5. CASE _bfd_riscv_relax_got_ref
    BY <1>1, <1>2, <2>5, GotRelaxes
  <2> QED
    BY <2>1, <2>2, <2>3, <2>4, <2>5, Zenon DEF RelaxRef
<1>4. rel.type # "RELAX"
  BY <1>1 DEF Shortened, LuiTypes, TlsTypes, PcrelTypes
<1>5. PICK rs : /\ OnlyHere(rs) /\ PartHere(rs) /\ FollowedHere(rs)
                /\ \/ relocs' = rs /\ syms' = syms
                   \/ \E addr, count : riscv_relax_delete_bytes(rs, addr, count)
  BY <1>3 DEF Relaxes
<1>6. LowData' /\ MovesAll(rs)
  BY <1>1, <1>2, <1>4, <1>5, LowMove
<1>7. FollowedTo(obj, relocs', i - 1)
  <2>1. i - 1 \in Int /\ ~ (i <= i - 1)
    BY <1>2
  <2> QED
    BY <1>2, <1>5, <1>6, <2>1, FollowedMove DEF LowData
<1>8. FollowedHere(relocs')
  BY <1>2, <1>5, <1>6 DEF MovesAll, FollowedHere
<1>9. i' - 1 = i + 1 /\ i + 1 \in 1 .. Len(relocs)
  BY <1>1, <1>2 DEF Next_i
<1>10. obj.relocs[i + 1].type = "RELAX"
  BY <1>1, <1>9, RelaxOfRelax DEF LowData
<1>11. Len(relocs') = Len(relocs)
  BY <1>6 DEF MovesAll
<1> QED
  BY <1>2, <1>6, <1>7, <1>8, <1>9, <1>10, <1>11, FollowedOn DEF LowData

\* A padding is no part of an address.
LEMMA AlignFollows ==
  ASSUME LowData, LinkInv', RelaxAlign
  PROVE  /\ LowData'
         /\ FollowedTo(obj, relocs, Len(relocs)) => FollowedTo(obj, relocs', Len(relocs'))
         /\ NoneDropped(obj, relocs) => NoneDropped(obj, relocs')
<1>1. /\ i <= Len(relocs) /\ rel.type = "ALIGN" /\ _bfd_riscv_relax_align
      /\ obj' = obj /\ relax_pass' = relax_pass
  BY DEF RelaxAlign, InLoop, Considered
<1>2. i \in 1 .. Len(relocs) /\ i \in Nat /\ Len(relocs) \in Nat
  BY <1>1, AtLoop DEF LowData
<1>3. obj.relocs[i].type \notin LuiTypes
  BY <1>1, <1>2, NotPart
<1>4. OnlyHere(relocs) /\ OnlyHere(Dropped)
  BY <1>2, HereIs DEF LowData
<1>5. PICK rs : /\ OnlyHere(rs)
                /\ \/ relocs' = rs /\ syms' = syms
                   \/ \E addr, count : riscv_relax_delete_bytes(rs, addr, count)
  <2>1. \/ relocs' = relocs /\ syms' = syms
        \/ relocs' = Dropped /\ syms' = syms
        \/ \E addr, count : riscv_relax_delete_bytes(Dropped, addr, count)
    BY <1>1 DEF _bfd_riscv_relax_align, secVars
  <2> QED
    BY <1>4, <2>1
<1>6. PartHere(rs) /\ FollowedHere(rs)
  BY <1>3 DEF PartHere, FollowedHere, LowTypes, LuiTypes
<1>7. LowData' /\ MovesAll(rs)
  BY <1>1, <1>2, <1>5, <1>6, LowMove
<1>8. Len(relocs') = Len(relocs)
  BY <1>7 DEF MovesAll
<1>9. FollowedTo(obj, relocs, Len(relocs)) => FollowedTo(obj, relocs', Len(relocs'))
  BY <1>2, <1>5, <1>6, <1>7, <1>8, FollowedMove DEF LowData
<1>10. NoneDropped(obj, relocs) => NoneDropped(obj, relocs')
  <2> SUFFICES ASSUME NoneDropped(obj, relocs), NEW l \in 1 .. Len(relocs),
                      obj.relocs[l].type = "HI20"
               PROVE  relocs'[l].type # "NONE"
    BY <1>8 DEF NoneDropped
  <2>1. l # i /\ relocs[l].type # "RELAX"
    BY <1>3, RelaxOfRelax DEF LuiTypes, LowData
  <2>2. rs[l] = relocs[l]
    BY <1>5, <2>1 DEF OnlyHere
  <2> QED
    BY <1>7, <2>2 DEF MovesAll, NoneDropped
<1> QED
  BY <1>7, <1>9, <1>10

\* Pass 0 goes past no low part that it should have relaxed.
LEMMA SkipFollows ==
  ASSUME LowData, Skip, relax_pass = 0, FollowedTo(obj, relocs, i - 1)
  PROVE  FollowedTo(obj, relocs, i' - 1)
<1>1. i <= Len(relocs) /\ i' = Next_i /\ ~ (Considered /\ HasValue)
  BY DEF Skip, InLoop
<1>2. /\ i \in 1 .. Len(relocs) /\ i \in Nat /\ Len(relocs) \in Nat
      /\ Len(relocs) = Len(obj.relocs)
  BY <1>1, AtLoop DEF LowData, LinkInv, Shaped
<1>3. FollowedHere(relocs)
  <2> SUFFICES ASSUME obj.relocs[i].type \in LowTypes, Marked(obj, i),
                      obj.relocs[i + 1].offset = obj.relocs[i].offset,
                      NearRef(obj, obj.relocs[i]), relocs[i].type \notin BasedTypes
               PROVE  FALSE
    BY DEF FollowedHere
  <2>1. obj.relocs[i].type \in LuiTypes
    BY DEF LowTypes, LuiTypes
  <2>2. PartIn(obj, relocs, i)
    BY <1>2, <2>1, PartTypes
  <2>3. rel.type \in LuiTypes
    BY <2>2 DEF PartIn, PartsOf, LowTypes, BasedTypes, LuiTypes, rel
  <2>4. HasValue
    BY <1>1, <2>1, <2>3, NearIs
  <2>5. Paired
    BY <1>2, <2>2 DEF PartIn, Pair, Paired, Marked, rel
  <2>6. Considered
    BY <2>3, <2>5 DEF Considered, Shortened
  <2> QED
    BY <1>1, <2>4, <2>6
<1>4. CASE Considered
  <2>1. i' - 1 = i + 1
    BY <1>1, <1>2, <1>4 DEF Next_i
  <2>2. i + 1 \in 1 .. Len(relocs) /\ relocs[i + 1].type = "RELAX"
    BY <1>2, <1>4 DEF Considered, Paired
  <2>3. obj.relocs[i + 1].type = "RELAX"
    BY <2>2, RelaxOfRelax DEF LowData
  <2> QED
    BY <1>2, <1>3, <2>1, <2>3, FollowedOn DEF LowData
<1>5. CASE ~ Considered
  <2>1. i' - 1 = i
    BY <1>1, <1>2, <1>5 DEF Next_i
  <2> QED
    BY <1>2, <1>3, <2>1, FollowedOn DEF LowData
<1> QED
  BY <1>4, <1>5

\* A step that leaves the section alone.
LEMMA LowStays ==
  ASSUME LowData, LinkInv', UNCHANGED <<obj, relocs, syms>>, relax_pass' \in {0, 1}
  PROVE  LowData'
BY DEF LowData, Parts, PartIn, Pair

LEMMA FollowedAll ==
  ASSUME NEW ob, NEW rs, FollowedTo(ob, rs, Len(rs)), Len(rs) \in Nat, NEW n \in Int
  PROVE  FollowedTo(ob, rs, n)
BY DEF FollowedTo

LEMMA FollowedEnd ==
  ASSUME NEW ob, NEW rs, NEW n \in Int, FollowedTo(ob, rs, n), Len(rs) \in Nat, Len(rs) <= n
  PROVE  FollowedTo(ob, rs, Len(rs))
BY DEF FollowedTo

LEMMA InitLowInv == Init => LowInv
<1> SUFFICES ASSUME Init PROVE LowInv
  OBVIOUS
<1>1. LinkInv
  BY InitLinkInv
<1>2. /\ obj \in Objects /\ relocs = obj.relocs /\ syms = obj.syms /\ relax_pass = 0
      /\ state = "collect"
  BY DEF Init, RelaxInit
<1>3. SymbolsStay(obj, syms)
  BY <1>2 DEF SymbolsStay
<1>4. Parts(obj, relocs)
  BY <1>2 DEF Parts, PartIn, Pair, Marked, PartsOf, LuiTypes
<1>5. NoneDropped(obj, relocs)
  BY <1>2 DEF NoneDropped
<1> QED
  BY <1>1, <1>2, <1>3, <1>4, <1>5 DEF LowInv, LowData

LEMMA RelaxingLow ==
  ASSUME LowInv, LinkInv', Relaxing
  PROVE  LowInv'
<1>1. /\ LowData /\ i \in Nat \ {0} /\ Len(relocs) \in Nat /\ relax_pass \in {0, 1}
      /\ \/ state = "sweep" /\ relax_pass = 0 /\ FollowedTo(obj, relocs, i - 1)
         \/ FollowedTo(obj, relocs, Len(relocs))
         \/ NoneDropped(obj, relocs) /\ (state = "sweep" => relax_pass = 1)
  BY LenProperties DEF LowInv, LowData, LinkInv, Shaped
<1>2. CASE BeginSweep
  <2>1. /\ UNCHANGED <<obj, relocs, syms, relax_pass>> /\ i' = 1
        /\ state = "relax" /\ state' \in {"sweep", "swept"}
    BY <1>2 DEF BeginSweep, secVars
  <2>2. LowData'
    BY <1>1, <2>1, LowStays
  <2>3. FollowedTo(obj, relocs, 0)
    BY DEF FollowedTo
  <2> QED
    BY <1>1, <2>1, <2>2, <2>3 DEF LowInv
<1>3. CASE Skip
  <2>1. /\ UNCHANGED <<obj, relocs, syms, relax_pass, state>> /\ state = "sweep"
    BY <1>3 DEF Skip, InLoop, secVars
  <2>2. LowData'
    BY <1>1, <2>1, LowStays
  <2>3. CASE relax_pass = 0
    <3>1. FollowedTo(obj, relocs, i - 1)
      BY <1>1, <2>1, <2>3, FollowedAll
    <3>2. FollowedTo(obj, relocs, i' - 1)
      BY <1>1, <1>3, <2>3, <3>1, SkipFollows
    <3> QED
      BY <2>1, <2>2, <2>3, <3>2 DEF LowInv
  <2>4. CASE relax_pass = 1
    BY <1>1, <2>1, <2>2, <2>4 DEF LowInv
  <2> QED
    BY <1>1, <2>3, <2>4
<1>4. CASE RelaxRef
  <2>1. relax_pass = 0 /\ UNCHANGED <<obj, state, relax_pass>> /\ state = "sweep"
    BY <1>4 DEF RelaxRef, InLoop
  <2>2. FollowedTo(obj, relocs, i - 1)
    BY <1>1, <2>1, FollowedAll
  <2>3. LowData' /\ FollowedTo(obj, relocs', i' - 1)
    BY <1>1, <1>4, <2>2, RefFollows
  <2> QED
    BY <2>1, <2>3 DEF LowInv
<1>5. CASE RelaxAlign
  <2>1. relax_pass = 1 /\ UNCHANGED <<obj, relax_pass>>
    BY <1>5 DEF RelaxAlign
  <2>2. /\ LowData'
        /\ FollowedTo(obj, relocs, Len(relocs)) => FollowedTo(obj, relocs', Len(relocs'))
        /\ NoneDropped(obj, relocs) => NoneDropped(obj, relocs')
    BY <1>1, <1>5, AlignFollows
  <2> QED
    BY <1>1, <2>1, <2>2 DEF LowInv
<1>6. CASE EndSweep
  <2>1. /\ UNCHANGED <<obj, relocs, syms, relax_pass>>
        /\ state = "sweep" /\ i > Len(relocs) /\ state' = "swept"
    BY <1>6 DEF EndSweep, secVars
  <2>2. LowData'
    BY <1>1, <2>1, LowStays
  <2>3. FollowedTo(obj, relocs, Len(relocs)) \/ NoneDropped(obj, relocs)
    <3>1. i - 1 \in Int /\ Len(relocs) <= i - 1
      BY <1>1, <2>1
    <3> QED
      BY <1>1, <3>1, FollowedEnd
  <2> QED
    BY <2>1, <2>2, <2>3 DEF LowInv
<1>7. CASE NextSweep
  <2>1. /\ UNCHANGED <<obj, relocs, syms>> /\ relax_pass' \in {0, 1}
        /\ state = "swept" /\ state' \in {"relax", "relaxed"}
    BY <1>1, <1>7 DEF NextSweep, secVars
  <2>2. LowData'
    BY <1>1, <2>1, LowStays
  <2> QED
    BY <1>1, <2>1, <2>2 DEF LowInv
<1> QED
  BY <1>2, <1>3, <1>4, <1>5, <1>6, <1>7, Zenon DEF Relaxing

\* Whatever the linker does next, the low parts of a deleted LUI that the
\* sweep has come to are based on gp or zero: the inductive step
\* (_bfd_riscv_relax_section, _bfd_riscv_relax_lui).
THEOREM NextLowInv == LowInv /\ [Next]_vars => LowInv'
<1> SUFFICES ASSUME LowInv, [Next]_vars PROVE LowInv'
  OBVIOUS
<1>1. LinkInv /\ LinkInv' /\ LowData
  BY NextLinkInv DEF LowInv, LowData
<1>2. CASE Relaxing
  BY <1>1, <1>2, RelaxingLow
<1>3. CASE check_relocs \/ Reserve_sections \/ relocate_section \/ final_link
  <2>1. UNCHANGED <<obj, relocs, syms, relax_pass>> /\ state # "sweep" /\ state' # "sweep"
    <3>1. CASE check_relocs
      <4>1. UNCHANGED <<obj, secVars, relax_pass>> /\ state = "collect"
        BY <3>1, Zenon DEF check_relocs
      <4>2. state' \in {"crashed", "reserve"}
        BY <3>1, Zenon DEF check_relocs
      <4> QED
        BY <4>1, <4>2 DEF secVars
    <3>2. CASE Reserve_sections
      BY <3>2 DEF Reserve_sections, secVars
    <3>3. CASE relocate_section
      BY <3>3 DEF relocate_section, secVars
    <3>4. CASE final_link
      <4>1. UNCHANGED <<obj, secVars, relax_pass>> /\ state = "relocated"
        BY <3>4, Zenon DEF final_link
      <4>2. state' \in {"failed", "linked"}
        BY <3>4, Zenon DEF final_link
      <4> QED
        BY <4>1, <4>2 DEF secVars
    <3> QED
      BY <1>3, <3>1, <3>2, <3>3, <3>4
  <2>2. relax_pass' \in {0, 1}
    BY <1>1, <2>1 DEF LowData
  <2>3. LowData'
    BY <1>1, <2>1, <2>2, LowStays
  <2> QED
    BY <2>1, <2>3 DEF LowInv
<1>4. CASE UNCHANGED vars
  <2>1. UNCHANGED <<obj, relocs, syms, relax_pass, state, i>>
    BY <1>4 DEF vars, relaxVars, secVars
  <2>2. relax_pass' \in {0, 1}
    BY <1>1, <2>1 DEF LowData
  <2>3. LowData'
    BY <1>1, <2>1, <2>2, LowStays
  <2> QED
    BY <2>1, <2>3 DEF LowInv
<1> QED
  BY <1>2, <1>3, <1>4 DEF Next

LEMMA LowInvFollow == LowInv => LowPartsFollow
<1> SUFFICES ASSUME LowInv PROVE LowPartsFollow
  OBVIOUS
<1>1. /\ LowData /\ obj \in Object /\ WellFormed(obj) /\ Len(relocs) = Len(obj.relocs)
      /\ DOMAIN relocs = 1 .. Len(relocs) /\ obj \in Objects /\ Len(relocs) \in Nat
  BY LenProperties DEF LowInv, LowData, LinkInv, Shaped
<1> SUFFICES
      ASSUME state # "sweep", NEW k \in DOMAIN relocs, NEW l \in DOMAIN relocs,
             obj.relocs[k].type = "HI20", relocs[k].type = "NONE",
             obj.relocs[l].type \in {"LO12_I", "LO12_S"},
             obj.relocs[l].sym = obj.relocs[k].sym,
             AlignedSymbol(obj.syms[obj.relocs[k].sym]),
             obj.relocs[l].addend
               \in obj.relocs[k].addend .. obj.syms[obj.relocs[k].sym].size - 1
      PROVE  relocs[l].type \in {"GPREL_I", "GPREL_S"}
  BY DEF LowPartsFollow
<1>2. FollowedTo(obj, relocs, Len(relocs))
  BY <1>1 DEF LowInv, NoneDropped
<1>3. Marked(obj, k) /\ NearRef(obj, obj.relocs[k])
  BY <1>1 DEF LowData, Parts, PartIn, LuiTypes
<1>4. /\ k \in DOMAIN obj.relocs /\ l \in DOMAIN obj.relocs
      /\ obj.relocs[k] \in Reloc /\ obj.relocs[l] \in Reloc
      /\ obj.relocs[k].sym \in DOMAIN obj.syms
  <2>1. /\ k \in DOMAIN obj.relocs /\ AsmRelocOf(obj, obj.relocs[k])
        /\ l \in DOMAIN obj.relocs /\ AsmRelocOf(obj, obj.relocs[l])
    BY <1>1, AsmReloc
  <2> QED
    BY <1>1, <2>1, AsmRelocIs DEF WellFormed, Placed
<1>5. NearRef(obj, obj.relocs[l])
  BY <1>1, <1>3, <1>4, NearGoesOn
<1>6. Marked(obj, l) /\ obj.relocs[l + 1].offset = obj.relocs[l].offset
  <2>1. obj.syms[obj.relocs[k].sym].size > 0
    BY DEF AlignedSymbol
  <2> QED
    BY <1>1, <1>3, <1>4, <2>1, LowPartsMarked
<1>7. l <= Len(relocs)
  BY <1>1
<1> QED
  BY <1>1, <1>2, <1>5, <1>6, <1>7 DEF FollowedTo, LowTypes, BasedTypes

\* When a LUI is deleted, all instructions that add its low part are based on
\* gp or zero once the sweep is over, also for later bytes of its symbol, and
\* whatever else is shortened in the section (_bfd_riscv_relax_lui,
\* reserve_size).
THEOREM LowPartsAlways == Spec => []LowPartsFollow
<1>1. Spec => []LowInv
  BY InitLowInv, NextLowInv, PTL DEF Spec
<1> QED
  BY <1>1, LowInvFollow, PTL

-----------------------------------------------------------------------------
(* Types: the tables                                                       *)

\* Every entry stands in the bucket of its name, once.
Filed(table) ==
  \A b \in Buckets : \A k \in 1 .. Len(table[b]) :
    /\ hash_sdbm[table[b][k].name] = b
    /\ \A l \in 1 .. Len(table[b]) : table[b][k].name = table[b][l].name => k = l

Named(E) == \A e \in E : e.name \in DOMAIN strlen

FiledTables(E) == {t \in [Buckets -> Seq(E)] : Filed(t)}

ImportEntry == [name : DOMAIN strlen, RelocCount : Nat,
                Ref : Seq([type : RelocType, offset : Nat])]
ExportEntry == [name : DOMAIN strlen]

LEMMA NoEntriesFiled == ASSUME NEW E PROVE NoEntries \in FiledTables(E)
<1>1. << >> \in Seq(E) /\ Len(<< >>) = 0
  OBVIOUS
<1>2. NoEntries \in [Buckets -> Seq(E)]
  BY <1>1 DEF NoEntries
<1>3. \A b \in Buckets : NoEntries[b] = << >>
  BY DEF NoEntries
<1>4. Filed(NoEntries)
  BY <1>1, <1>3 DEF Filed
<1> QED
  BY <1>2, <1>4 DEF FiledTables

\* A list of a table replaced by one with the same names.
LEMMA ChangedFiled ==
  ASSUME NEW E, NEW table \in FiledTables(E), NEW b \in Buckets, NEW list \in Seq(E),
         Len(list) = Len(table[b]),
         \A k \in 1 .. Len(list) : list[k].name = table[b][k].name
  PROVE  [table EXCEPT ![b] = list] \in FiledTables(E)
<1> DEFINE t == [table EXCEPT ![b] = list]
<1>1. table \in [Buckets -> Seq(E)] /\ Filed(table)
  BY DEF FiledTables
<1>2. /\ t \in [Buckets -> Seq(E)] /\ t[b] = list
      /\ \A c \in Buckets : c # b => t[c] = table[c]
  BY <1>1
<1> HIDE DEF t
<1>3. Filed(t)
  <2> SUFFICES
        ASSUME NEW c \in Buckets, NEW k \in 1 .. Len(t[c])
        PROVE  /\ hash_sdbm[t[c][k].name] = c
               /\ \A l \in 1 .. Len(t[c]) : t[c][k].name = t[c][l].name => k = l
    BY DEF Filed
  <2>1. CASE c # b
    BY <1>1, <1>2, <2>1 DEF Filed
  <2>2. CASE c = b
    <3>1. /\ k \in 1 .. Len(table[b]) /\ t[c] = list
          /\ t[c][k].name = table[b][k].name
      BY <1>2, <2>2
    <3>2. /\ hash_sdbm[table[b][k].name] = b
          /\ \A l \in 1 .. Len(table[b]) : table[b][k].name = table[b][l].name => k = l
      BY <1>1, <3>1 DEF Filed
    <3> QED
      BY <2>2, <3>1, <3>2
  <2> QED
    BY <2>1, <2>2
<1> QED
  BY <1>2, <1>3 DEF FiledTables, t

\* EntryOf finds the name if there is one.
LEMMA EntryFound ==
  ASSUME NEW E, NEW list \in Seq(E), NEW name
  PROVE  /\ EntryOf(list, name) \in 0 .. Len(list)
         /\ EntryOf(list, name) = 0 => \A k \in 1 .. Len(list) : list[k].name # name
         /\ EntryOf(list, name) # 0 => list[EntryOf(list, name)].name = name
<1> DEFINE I == {k \in 1 .. Len(list) : list[k].name = name}
<1>1. EntryOf(list, name) = IF I # {} THEN Min(I) ELSE 0
  BY DEF EntryOf, SelectInSeq
<1>2. CASE I # {}
  <2>1. I \in SUBSET Nat
    BY LenProperties
  <2>2. \E x \in I : \A y \in I : x <= y
    BY <1>2, <2>1, LeastNat
  <2>3. Min(I) \in I
    BY <2>2, Zenon DEF Min
  <2> QED
    BY <1>1, <1>2, <2>3
<1>3. CASE I = {}
  BY <1>1, <1>3
<1> QED
  BY <1>2, <1>3

\* A new name is put into its bucket, one that is there stays.
LEMMA WithEntryFiled ==
  ASSUME NEW E, Named(E), NEW table \in FiledTables(E), NEW entry \in E
  PROVE  /\ WithEntry(table, entry) \in FiledTables(E)
         /\ hash_sdbm[entry.name] \in Buckets
<1> DEFINE b == hash_sdbm[entry.name]
           list == table[b]
<1>1. b \in Buckets
  BY LinkConstants DEF Named, Buckets
<1>2. table \in [Buckets -> Seq(E)] /\ Filed(table) /\ list \in Seq(E)
  BY <1>1 DEF FiledTables
<1>3. CASE EntryOf(list, entry.name) # 0
  <2>1. WithEntry(table, entry) = table
    BY <1>1, <1>2, <1>3 DEF WithEntry
  <2> QED
    BY <1>1, <2>1
<1>4. CASE EntryOf(list, entry.name) = 0
  <2> DEFINE more == Append(list, entry)
             t == [table EXCEPT ![b] = more]
  <2>1. WithEntry(table, entry) = t
    BY <1>1, <1>2, <1>4 DEF WithEntry
  <2>2. /\ more \in Seq(E) /\ Len(more) = Len(list) + 1 /\ Len(list) \in Nat
        /\ more[Len(list) + 1] = entry
        /\ \A k \in 1 .. Len(list) : more[k] = list[k]
    BY <1>2
  <2>3. \A k \in 1 .. Len(list) : list[k].name # entry.name
    BY <1>2, <1>4, EntryFound
  <2>4. /\ t \in [Buckets -> Seq(E)] /\ t[b] = more
        /\ \A c \in Buckets : c # b => t[c] = table[c]
    BY <1>1, <1>2, <2>2
  <2> HIDE DEF t, more
  <2>5. Filed(t)
    <3> SUFFICES
          ASSUME NEW c \in Buckets, NEW k \in 1 .. Len(t[c])
          PROVE  /\ hash_sdbm[t[c][k].name] = c
                 /\ \A l \in 1 .. Len(t[c]) : t[c][k].name = t[c][l].name => k = l
      BY DEF Filed
    <3>1. CASE c # b
      BY <1>2, <2>4, <3>1 DEF Filed
    <3>2. CASE c = b
      <4>1. \A j \in 1 .. Len(list) :
              /\ hash_sdbm[list[j].name] = b
              /\ \A l \in 1 .. Len(list) : list[j].name = list[l].name => j = l
        BY <1>1, <1>2 DEF Filed
      <4>2. /\ t[c] = more /\ Len(t[c]) = Len(list) + 1
            /\ \A l \in 1 .. Len(t[c]) : l \in 1 .. Len(list) \/ l = Len(list) + 1
        BY <2>2, <2>4, <3>2
      <4>3. CASE k = Len(list) + 1
        BY <2>2, <2>3, <3>2, <4>2, <4>3
      <4>4. CASE k \in 1 .. Len(list)
        BY <2>2, <2>3, <3>2, <4>1, <4>2, <4>4
      <4> QED
        BY <4>2, <4>3, <4>4
    <3> QED
      BY <3>1, <3>2
  <2> QED
    BY <1>1, <2>1, <2>4, <2>5 DEF FiledTables
<1> QED
  BY <1>3, <1>4

\* A change of the entry of one name.
LEMMA EntryChanged ==
  ASSUME NEW E, NEW table \in FiledTables(E), NEW b \in Buckets,
         NEW list, list = [k \in DOMAIN table[b] |-> list[k]],
         \A k \in DOMAIN table[b] : list[k] \in E /\ list[k].name = table[b][k].name
  PROVE  [table EXCEPT ![b] = list] \in FiledTables(E)
<1>1. table[b] \in Seq(E)
  BY DEF FiledTables
<1>2. DOMAIN table[b] = 1 .. Len(table[b]) /\ Len(table[b]) \in Nat
  BY <1>1
<1>3. list \in Seq(E) /\ Len(list) = Len(table[b])
  <2>1. list = [k \in 1 .. Len(table[b]) |-> list[k]]
    BY <1>2
  <2>2. [k \in 1 .. Len(table[b]) |-> list[k]] \in Seq(E)
    BY <1>2
  <2>3. Len([k \in 1 .. Len(table[b]) |-> list[k]]) = Len(table[b])
    BY <1>2
  <2> QED
    BY <2>1, <2>2, <2>3
<1> QED
  BY <1>2, <1>3, ChangedFiled

\* A reference to a name in the table.
RefOf(r) == r \in Reloc /\ Imported(r) \in DOMAIN strlen

LEMMA WithImportFiled ==
  ASSUME NEW table \in FiledTables(ImportEntry), NEW name \in DOMAIN strlen
  PROVE  /\ WithImport(table, name) \in FiledTables(ImportEntry)
         /\ hash_sdbm[name] \in Buckets
<1> DEFINE entry == [name |-> name, RelocCount |-> 0, Ref |-> << >>]
<1>1. entry \in ImportEntry /\ entry.name = name
  BY DEF ImportEntry
<1>2. Named(ImportEntry)
  BY DEF Named, ImportEntry
<1>3. WithImport(table, name) = WithEntry(table, entry)
  BY DEF WithImport
<1> HIDE DEF entry
<1> QED
  BY <1>1, <1>2, <1>3, WithEntryFiled

References == Seq([type : RelocType, offset : Nat])

\* An entry that counts more references and lists more is one.
LEMMA MoreEntry ==
  ASSUME NEW e \in ImportEntry, NEW count \in Nat, NEW refs \in References
  PROVE  LET f == More(e, count, refs)
         IN /\ f \in ImportEntry /\ f.name = e.name
            /\ f.RelocCount = e.RelocCount + count /\ f.Ref = e.Ref \o refs
<1>1. ImportEntry = [name : DOMAIN strlen, RelocCount : Nat, Ref : References]
  BY Zenon DEF ImportEntry, References
<1>2. e.RelocCount \in Nat /\ e.Ref \in References
  BY <1>1
<1>3. e.Ref \o refs \in References /\ e.RelocCount + count \in Nat
  BY <1>2 DEF References
<1>4. ASSUME NEW n \in Nat, NEW w \in References
      PROVE  LET f == [e EXCEPT !.RelocCount = n, !.Ref = w]
             IN f \in ImportEntry /\ f.name = e.name /\ f.RelocCount = n /\ f.Ref = w
  BY <1>1
<1> DEFINE n == e.RelocCount + count
           w == e.Ref \o refs
           f == [e EXCEPT !.RelocCount = n, !.Ref = w]
<1>5. f \in ImportEntry /\ f.name = e.name /\ f.RelocCount = n /\ f.Ref = w
  BY <1>3, <1>4, Zenon
<1>6. More(e, count, refs) = f
  BY DEF More
<1> HIDE DEF f
<1> QED
  BY <1>5, <1>6

\* What a table is once the entry of a name counts and lists more.
MoreListed(table, u, name, count, refs) ==
  LET t == WithImport(table, name)
      b == hash_sdbm[name]
  IN /\ t \in FiledTables(ImportEntry) /\ b \in Buckets
     /\ u \in FiledTables(ImportEntry)
     /\ \A c \in Buckets : c # b => u[c] = t[c]
     /\ Len(u[b]) = Len(t[b])
     /\ \A k \in 1 .. Len(t[b]) :
          /\ u[b][k].name = t[b][k].name
          /\ t[b][k].name # name => u[b][k] = t[b][k]
          /\ t[b][k].name = name =>
               /\ u[b][k].RelocCount = t[b][k].RelocCount + count
               /\ u[b][k].Ref = t[b][k].Ref \o refs

\* The list of a name that is changed.
LEMMA MoreList ==
  ASSUME NEW table \in FiledTables(ImportEntry), NEW name \in DOMAIN strlen,
         NEW count \in Nat, NEW refs \in References
  PROVE  MoreListed(table, WithMore(table, name, count, refs), name, count, refs)
<1> DEFINE t == WithImport(table, name)
           b == hash_sdbm[name]
           one(e) == IF e.name = name THEN More(e, count, refs) ELSE e
           list == [k \in DOMAIN t[b] |-> one(t[b][k])]
           u == WithMore(table, name, count, refs)
<1>1. t \in FiledTables(ImportEntry) /\ b \in Buckets
  BY WithImportFiled
<1>2. t \in [Buckets -> Seq(ImportEntry)] /\ t[b] \in Seq(ImportEntry)
  BY <1>1 DEF FiledTables
<1>3. ASSUME NEW e \in ImportEntry
      PROVE  /\ one(e) \in ImportEntry /\ one(e).name = e.name
             /\ e.name # name => one(e) = e
             /\ e.name = name => /\ one(e).RelocCount = e.RelocCount + count
                                /\ one(e).Ref = e.Ref \o refs
  <2> DEFINE f == More(e, count, refs)
  <2>1. /\ f \in ImportEntry /\ f.name = e.name
        /\ f.RelocCount = e.RelocCount + count /\ f.Ref = e.Ref \o refs
    BY MoreEntry, Zenon
  <2>2. one(e) = IF e.name = name THEN f ELSE e
    BY Zenon
  <2> HIDE DEF f, one
  <2> QED
    BY <2>1, <2>2
<1>4. WithMore(table, name, count, refs) = [t EXCEPT ![b] = list]
  BY Zenon DEF WithMore
<1>5. \A k \in DOMAIN t[b] : t[b][k] \in ImportEntry
  BY <1>2
<1>6. \A k \in DOMAIN t[b] : list[k] \in ImportEntry /\ list[k].name = t[b][k].name
  <2> HIDE DEF one, t, b
  <2> QED
    BY <1>3, <1>5
<1>7. list = [k \in DOMAIN t[b] |-> list[k]]
  BY Zenon
<1>8. DOMAIN list = DOMAIN t[b] /\ \A k \in DOMAIN t[b] : list[k] = one(t[b][k])
  BY Zenon
<1> HIDE DEF t, b, list, one, u
<1>11. DOMAIN t[b] = 1 .. Len(t[b]) /\ Len(t[b]) \in Nat
  BY <1>2
<1>12. \A k \in 1 .. Len(t[b]) :
         /\ list[k].name = t[b][k].name
         /\ t[b][k].name # name => list[k] = t[b][k]
         /\ t[b][k].name = name => /\ list[k].RelocCount = t[b][k].RelocCount + count
                                  /\ list[k].Ref = t[b][k].Ref \o refs
  BY <1>3, <1>5, <1>8, <1>11
<1>9. [t EXCEPT ![b] = list] \in FiledTables(ImportEntry)
  BY <1>1, <1>6, <1>7, EntryChanged, Zenon
<1>10. /\ [t EXCEPT ![b] = list][b] = list
       /\ \A c \in Buckets : c # b => [t EXCEPT ![b] = list][c] = t[c]
  BY <1>1, <1>2
<1>13. list \in Seq(ImportEntry) /\ Len(list) = Len(t[b])
  <2>1. [t EXCEPT ![b] = list][b] \in Seq(ImportEntry)
    BY <1>1, <1>9 DEF FiledTables
  <2> QED
    BY <1>8, <1>10, <1>11, <2>1
<1>14. /\ t \in FiledTables(ImportEntry) /\ b \in Buckets
       /\ [t EXCEPT ![b] = list] \in FiledTables(ImportEntry)
       /\ \A c \in Buckets : c # b => [t EXCEPT ![b] = list][c] = t[c]
       /\ Len([t EXCEPT ![b] = list][b]) = Len(t[b])
       /\ \A k \in 1 .. Len(t[b]) :
            /\ [t EXCEPT ![b] = list][b][k].name = t[b][k].name
            /\ t[b][k].name # name => [t EXCEPT ![b] = list][b][k] = t[b][k]
            /\ t[b][k].name = name =>
                 /\ [t EXCEPT ![b] = list][b][k].RelocCount = t[b][k].RelocCount + count
                 /\ [t EXCEPT ![b] = list][b][k].Ref = t[b][k].Ref \o refs
  BY <1>1, <1>9, <1>10, <1>12, <1>13
<1>15. u = [t EXCEPT ![b] = list]
  BY <1>4 DEF u
<1>16. /\ t \in FiledTables(ImportEntry) /\ b \in Buckets
       /\ u \in FiledTables(ImportEntry)
       /\ \A c \in Buckets : c # b => u[c] = t[c]
       /\ Len(u[b]) = Len(t[b])
       /\ \A k \in 1 .. Len(t[b]) :
            /\ u[b][k].name = t[b][k].name
            /\ t[b][k].name # name => u[b][k] = t[b][k]
            /\ t[b][k].name = name =>
                 /\ u[b][k].RelocCount = t[b][k].RelocCount + count
                 /\ u[b][k].Ref = t[b][k].Ref \o refs
  BY <1>14, <1>15, Zenon
<1>17. MoreListed(table, u, name, count, refs)
  BY <1>16, Zenon DEF MoreListed, t, b
<1> QED
  BY <1>17, Zenon DEF u

LEMMA CollectEntryFiled ==
  ASSUME NEW table \in FiledTables(ImportEntry), NEW r, RefOf(r), NEW last
  PROVE  CollectEntry(table, r, last) \in FiledTables(ImportEntry)
<1>1. << >> \in References
  BY DEF References
<1>2. (IF PairsWith(last, r) THEN 0 ELSE 1) \in Nat
  OBVIOUS
<1> DEFINE count == IF PairsWith(last, r) THEN 0 ELSE 1
           u == WithMore(table, Imported(r), count, << >>)
<1>3. Imported(r) \in DOMAIN strlen
  BY DEF RefOf
<1>4. CollectEntry(table, r, last) = u
  BY Zenon DEF CollectEntry
<1> HIDE DEF count
<1>5. MoreListed(table, u, Imported(r), count, << >>)
  BY <1>1, <1>2, <1>3, MoreList, Zenon DEF count
<1> QED
  BY <1>4, <1>5, Zenon DEF MoreListed

\* A relocation as it is listed.
RefRecord(r) == [type |-> r.type, offset |-> r.offset + output_offset]

LEMMA ListEntryFiled ==
  ASSUME NEW table \in FiledTables(ImportEntry), NEW r, RefOf(r)
  PROVE  /\ ListEntry(table, r) \in FiledTables(ImportEntry)
         /\ <<RefRecord(r)>> \in References
         /\ ListEntry(table, r) = WithMore(table, Imported(r), 0, <<RefRecord(r)>>)
<1>1. RefRecord(r) \in [type : RelocType, offset : Nat]
  BY LinkConstants DEF RefOf, Reloc, RefRecord
<1>2. <<RefRecord(r)>> \in References
  BY <1>1 DEF References
<1>3. ListEntry(table, r) = WithMore(table, Imported(r), 0, <<RefRecord(r)>>)
  BY Zenon DEF ListEntry, RefRecord
<1>4. 0 \in Nat
  OBVIOUS
<1>5. MoreListed(table, ListEntry(table, r), Imported(r), 0, <<RefRecord(r)>>)
  BY <1>2, <1>3, <1>4, MoreList, Zenon DEF RefOf
<1> QED
  BY <1>2, <1>3, <1>5, Zenon DEF MoreListed

\* What the table goes through as the references are listed.
LEMMA ListedRun ==
  ASSUME relocs \in Seq(Reloc),
         \A k \in 1 .. Len(relocs) : Imports(relocs[k]) => RefOf(relocs[k]),
         NEW table \in FiledTables(ImportEntry)
  PROVE  \E run \in [0 .. Len(relocs) -> FiledTables(ImportEntry)] :
           /\ run[0] = table
           /\ \A m \in 1 .. Len(relocs) : run[m] = Listed(run[m - 1], relocs[m])
           /\ run[Len(relocs)] = FoldLeft(Listed, table, relocs)
<1> DEFINE T == FiledTables(ImportEntry)
           n == Len(relocs)
           Fold(g) == g = [s \in SUBSET DOMAIN relocs |->
                             IF s = {} THEN table
                             ELSE Listed(g[s \ {Max(s)}], relocs[Max(s)])]
           h == CHOOSE g : Fold(g)
           F == [k \in 1 .. n |-> [t \in T |-> Listed(t, relocs[k])]]
<1>1. n \in Nat /\ DOMAIN relocs = 1 .. n
  BY LenProperties
<1>2. FoldLeft(Listed, table, relocs) = h[1 .. n]
  BY <1>1, Zenon DEF FoldLeft, MapThenFoldSet
<1>3. ASSUME NEW t \in T, NEW k \in 1 .. n PROVE Listed(t, relocs[k]) \in T
  BY <1>3, ListEntryFiled DEF Listed
<1>4. F \in [1 .. n -> [T -> T]]
  <2> HIDE DEF T, n
  <2> QED
    BY <1>3
<1>5. table \in T
  OBVIOUS
<1>6. \E g : Fold(g)
  <2>1. PICK g \in [SUBSET (1 .. n) -> T] : FoldOver(g, n, table, F)
    <3> HIDE DEF F
    <3> QED
      BY <1>1, <1>4, <1>5, FoldExists, Zenon
  <2>2. ASSUME NEW s \in SUBSET (1 .. n), s # {}
        PROVE  F[Max(s)][g[s \ {Max(s)}]] = Listed(g[s \ {Max(s)}], relocs[Max(s)])
    <3>1. Max(s) \in 1 .. n
      BY <1>1, <2>2, MaxOf
    <3>2. g[s \ {Max(s)}] \in T
      BY <2>1
    <3> QED
      BY <3>1, <3>2, Zenon
  <2>3. g = [s \in SUBSET (1 .. n) |->
               IF s = {} THEN table ELSE F[Max(s)][g[s \ {Max(s)}]]]
    BY <2>1 DEF FoldOver
  <2> HIDE DEF F
  <2>4. Fold(g)
    BY <1>1, <2>2, <2>3, Zenon
  <2> QED
    BY <2>4
<1>7. Fold(h)
  BY <1>6, Zenon
<1>8. h[{}] = table
  BY <1>7
<1>9. ASSUME NEW m \in 1 .. n PROVE h[1 .. m] = Listed(h[1 .. m - 1], relocs[m])
  <2>1. (1 .. m) \in SUBSET (1 .. n) /\ 1 .. m # {} /\ m \in Nat \ {0}
    <3>1. n \in Nat /\ m \in Nat /\ 1 <= m /\ m <= n
      BY <1>1
    <3> HIDE DEF n, h, F
    <3>2. \A x \in 1 .. m : x \in 1 .. n
      BY <3>1
    <3>3. 1 \in 1 .. m /\ m # 0
      BY <3>1
    <3> QED
      BY <3>1, <3>2, <3>3
  <2>2. h[1 .. m] = Listed(h[(1 .. m) \ {Max(1 .. m)}], relocs[Max(1 .. m)])
    BY <1>1, <1>7, <2>1, Zenon
  <2> QED
    BY <2>1, <2>2, MaxOfFirst
<1> HIDE DEF h, T, n
<1>10. \A m \in 0 .. n : h[1 .. m] \in T
  <2>1. \A m \in 1 .. n : h[1 .. m - 1] \in T => h[1 .. m] \in T
    BY <1>3, <1>9
  <2>2. h[{}] \in T
    BY <1>5, <1>8
  <2> QED
    BY <1>1, <2>1, <2>2, FoldStays, Zenon
<1> DEFINE run == [m \in 0 .. n |-> h[1 .. m]]
<1>11. run \in [0 .. n -> T]
  BY <1>10
<1>12. run[0] = table
  <2>1. 1 .. 0 = {} /\ 0 \in 0 .. n
    BY <1>1
  <2> QED
    BY <1>8, <2>1
<1>13. ASSUME NEW m \in 1 .. n PROVE run[m] = Listed(run[m - 1], relocs[m])
  <2>1. m \in 0 .. n /\ m - 1 \in 0 .. n
    BY <1>1
  <2> QED
    BY <1>9, <2>1
<1>14. run[n] = FoldLeft(Listed, table, relocs)
  <2>1. n \in 0 .. n
    BY <1>1
  <2> QED
    BY <1>2, <2>1
<1> HIDE DEF run
<1> QED
  BY <1>11, <1>12, <1>13, <1>14, Zenon DEF T, n

\* What the table goes through as the references are collected.
LEMMA CollectedRun ==
  ASSUME relocs \in Seq(Reloc),
         \A k \in 1 .. Len(relocs) : Imports(relocs[k]) => RefOf(relocs[k])
  PROVE  \E run \in [0 .. Len(relocs) -> FiledTables(ImportEntry)] :
           /\ run[0] = NoEntries
           /\ \A m \in 1 .. Len(relocs) : run[m] = Collected(run[m - 1], m)
           /\ run[Len(relocs)] = FoldLeftDomain(Collected, NoEntries, relocs)
<1> DEFINE T == FiledTables(ImportEntry)
           n == Len(relocs)
           Fold(g) == g = [s \in SUBSET DOMAIN relocs |->
                             IF s = {} THEN NoEntries
                             ELSE Collected(g[s \ {Max(s)}], Max(s))]
           h == CHOOSE g : Fold(g)
           F == [k \in 1 .. n |-> [t \in T |-> Collected(t, k)]]
<1>1. n \in Nat /\ DOMAIN relocs = 1 .. n
  BY LenProperties
<1>2. FoldLeftDomain(Collected, NoEntries, relocs) = h[1 .. n]
  <2> DEFINE ks == [k \in DOMAIN relocs |-> k]
             Fold2(g) == g = [s \in SUBSET DOMAIN ks |->
                                IF s = {} THEN NoEntries
                                ELSE Collected(g[s \ {Max(s)}], ks[Max(s)])]
  <2>1. FoldLeftDomain(Collected, NoEntries, relocs) = (CHOOSE g : Fold2(g))[DOMAIN ks]
    BY Zenon DEF FoldLeftDomain, FoldLeft, MapThenFoldSet
  <2>2. DOMAIN ks = 1 .. n
    BY <1>1
  <2>3. ASSUME NEW s \in SUBSET (1 .. n), s # {} PROVE ks[Max(s)] = Max(s)
    BY <1>1, <2>3, MaxOf
  <2> HIDE DEF ks
  <2>4. ASSUME NEW g
        PROVE  [s \in SUBSET DOMAIN ks |->
                  IF s = {} THEN NoEntries ELSE Collected(g[s \ {Max(s)}], ks[Max(s)])]
               = [s \in SUBSET DOMAIN relocs |->
                    IF s = {} THEN NoEntries ELSE Collected(g[s \ {Max(s)}], Max(s))]
    BY <1>1, <2>2, <2>3, Zenon
  <2>5. ASSUME NEW g PROVE Fold2(g) <=> Fold(g)
    BY <2>4, Zenon
  <2> HIDE DEF Fold, Fold2
  <2>6. (CHOOSE g : Fold2(g)) = (CHOOSE g : Fold(g))
    BY <2>5, Zenon
  <2> QED
    BY <2>1, <2>2, <2>6
<1>3. ASSUME NEW t \in T, NEW k \in 1 .. n PROVE Collected(t, k) \in T
  BY <1>3, CollectEntryFiled DEF Collected
<1>4. F \in [1 .. n -> [T -> T]]
  <2> HIDE DEF T, n
  <2> QED
    BY <1>3
<1>5. NoEntries \in T
  BY NoEntriesFiled
<1>6. \E g : Fold(g)
  <2>1. PICK g \in [SUBSET (1 .. n) -> T] : FoldOver(g, n, NoEntries, F)
    <3> HIDE DEF F
    <3> QED
      BY <1>1, <1>4, <1>5, FoldExists, Zenon
  <2>2. ASSUME NEW s \in SUBSET (1 .. n), s # {}
        PROVE  F[Max(s)][g[s \ {Max(s)}]] = Collected(g[s \ {Max(s)}], Max(s))
    <3>1. Max(s) \in 1 .. n
      BY <1>1, <2>2, MaxOf
    <3>2. g[s \ {Max(s)}] \in T
      BY <2>1
    <3> QED
      BY <3>1, <3>2, Zenon
  <2>3. g = [s \in SUBSET (1 .. n) |->
               IF s = {} THEN NoEntries ELSE F[Max(s)][g[s \ {Max(s)}]]]
    BY <2>1 DEF FoldOver
  <2> HIDE DEF F
  <2>4. Fold(g)
    BY <1>1, <2>2, <2>3, Zenon
  <2> QED
    BY <2>4
<1>7. Fold(h)
  BY <1>6, Zenon
<1>8. h[{}] = NoEntries
  BY <1>7
<1>9. ASSUME NEW m \in 1 .. n PROVE h[1 .. m] = Collected(h[1 .. m - 1], m)
  <2>1. (1 .. m) \in SUBSET (1 .. n) /\ 1 .. m # {} /\ m \in Nat \ {0}
    <3>1. n \in Nat /\ m \in Nat /\ 1 <= m /\ m <= n
      BY <1>1
    <3> HIDE DEF n, h, F
    <3>2. \A x \in 1 .. m : x \in 1 .. n
      BY <3>1
    <3>3. 1 \in 1 .. m /\ m # 0
      BY <3>1
    <3> QED
      BY <3>1, <3>2, <3>3
  <2>2. h[1 .. m] = Collected(h[(1 .. m) \ {Max(1 .. m)}], Max(1 .. m))
    BY <1>1, <1>7, <2>1, Zenon
  <2> QED
    BY <2>1, <2>2, MaxOfFirst
<1> HIDE DEF h, T, n
<1>10. \A m \in 0 .. n : h[1 .. m] \in T
  <2>1. \A m \in 1 .. n : h[1 .. m - 1] \in T => h[1 .. m] \in T
    BY <1>3, <1>9
  <2>2. h[{}] \in T
    BY <1>5, <1>8
  <2> QED
    BY <1>1, <2>1, <2>2, FoldStays, Zenon
<1> DEFINE run == [m \in 0 .. n |-> h[1 .. m]]
<1>11. run \in [0 .. n -> T]
  BY <1>10
<1>12. run[0] = NoEntries
  <2>1. 1 .. 0 = {} /\ 0 \in 0 .. n
    BY <1>1
  <2> QED
    BY <1>8, <2>1
<1>13. ASSUME NEW m \in 1 .. n PROVE run[m] = Collected(run[m - 1], m)
  <2>1. m \in 0 .. n /\ m - 1 \in 0 .. n
    BY <1>1
  <2> QED
    BY <1>9, <2>1
<1>14. run[n] = FoldLeftDomain(Collected, NoEntries, relocs)
  <2>1. n \in 0 .. n
    BY <1>1
  <2> QED
    BY <1>2, <2>1
<1> HIDE DEF run
<1> QED
  BY <1>11, <1>12, <1>13, <1>14, Zenon DEF T, n

\* What the table goes through as the linker script names the exports.
LEMMA ExportRun ==
  ASSUME NEW list \in Seq(DOMAIN strlen)
  PROVE  \E run \in [0 .. Len(list) -> FiledTables(ExportEntry)] :
           /\ run[0] = NoEntries
           /\ \A m \in 1 .. Len(list) : run[m] = InsertExportEntry(run[m - 1], list[m])
           /\ run[Len(list)] = FoldLeft(InsertExportEntry, NoEntries, list)
<1> DEFINE T == FiledTables(ExportEntry)
           n == Len(list)
           Fold(g) == g = [s \in SUBSET DOMAIN list |->
                             IF s = {} THEN NoEntries
                             ELSE InsertExportEntry(g[s \ {Max(s)}], list[Max(s)])]
           h == CHOOSE g : Fold(g)
           F == [k \in 1 .. n |-> [t \in T |-> InsertExportEntry(t, list[k])]]
<1>1. n \in Nat /\ DOMAIN list = 1 .. n
  BY LenProperties
<1>2. FoldLeft(InsertExportEntry, NoEntries, list) = h[1 .. n]
  BY <1>1, Zenon DEF FoldLeft, MapThenFoldSet
<1>3. ASSUME NEW t \in T, NEW k \in 1 .. n PROVE InsertExportEntry(t, list[k]) \in T
  <2>1. Named(ExportEntry) /\ [name |-> list[k]] \in ExportEntry
    BY LenProperties DEF Named, ExportEntry
  <2> QED
    BY <2>1, WithEntryFiled DEF InsertExportEntry
<1>4. F \in [1 .. n -> [T -> T]]
  <2> HIDE DEF T, n
  <2> QED
    BY <1>3
<1>5. NoEntries \in T
  BY NoEntriesFiled
<1>6. \E g : Fold(g)
  <2>1. PICK g \in [SUBSET (1 .. n) -> T] : FoldOver(g, n, NoEntries, F)
    <3> HIDE DEF F
    <3> QED
      BY <1>1, <1>4, <1>5, FoldExists, Zenon
  <2>2. ASSUME NEW s \in SUBSET (1 .. n), s # {}
        PROVE  F[Max(s)][g[s \ {Max(s)}]] = InsertExportEntry(g[s \ {Max(s)}], list[Max(s)])
    <3>1. Max(s) \in 1 .. n
      BY <1>1, <2>2, MaxOf
    <3>2. g[s \ {Max(s)}] \in T
      BY <2>1
    <3> QED
      BY <3>1, <3>2, Zenon
  <2>3. g = [s \in SUBSET (1 .. n) |->
               IF s = {} THEN NoEntries ELSE F[Max(s)][g[s \ {Max(s)}]]]
    BY <2>1 DEF FoldOver
  <2> HIDE DEF F
  <2>4. Fold(g)
    BY <1>1, <2>2, <2>3, Zenon
  <2> QED
    BY <2>4
<1>7. Fold(h)
  BY <1>6, Zenon
<1>8. h[{}] = NoEntries
  BY <1>7
<1>9. ASSUME NEW m \in 1 .. n PROVE h[1 .. m] = InsertExportEntry(h[1 .. m - 1], list[m])
  <2>1. (1 .. m) \in SUBSET (1 .. n) /\ 1 .. m # {} /\ m \in Nat \ {0}
    <3>1. n \in Nat /\ m \in Nat /\ 1 <= m /\ m <= n
      BY <1>1
    <3> HIDE DEF n, h, F
    <3>2. \A x \in 1 .. m : x \in 1 .. n
      BY <3>1
    <3>3. 1 \in 1 .. m /\ m # 0
      BY <3>1
    <3> QED
      BY <3>1, <3>2, <3>3
  <2>2. h[1 .. m] = InsertExportEntry(h[(1 .. m) \ {Max(1 .. m)}], list[Max(1 .. m)])
    BY <1>1, <1>7, <2>1, Zenon
  <2> QED
    BY <2>1, <2>2, MaxOfFirst
<1> HIDE DEF h, T, n
<1>10. \A m \in 0 .. n : h[1 .. m] \in T
  <2>1. \A m \in 1 .. n : h[1 .. m - 1] \in T => h[1 .. m] \in T
    BY <1>3, <1>9
  <2>2. h[{}] \in T
    BY <1>5, <1>8
  <2> QED
    BY <1>1, <2>1, <2>2, FoldStays, Zenon
<1> DEFINE run == [m \in 0 .. n |-> h[1 .. m]]
<1>11. run \in [0 .. n -> T]
  BY <1>10
<1>12. run[0] = NoEntries
  <2>1. 1 .. 0 = {} /\ 0 \in 0 .. n
    BY <1>1
  <2> QED
    BY <1>8, <2>1
<1>13. ASSUME NEW m \in 1 .. n PROVE run[m] = InsertExportEntry(run[m - 1], list[m])
  <2>1. m \in 0 .. n /\ m - 1 \in 0 .. n
    BY <1>1
  <2> QED
    BY <1>9, <2>1
<1>14. run[n] = FoldLeft(InsertExportEntry, NoEntries, list)
  <2>1. n \in 0 .. n
    BY <1>1
  <2> QED
    BY <1>2, <2>1
<1> HIDE DEF run
<1> QED
  BY <1>11, <1>12, <1>13, <1>14, Zenon DEF T, n

-----------------------------------------------------------------------------
(* Types: the invariant                                                    *)

LinkStates == {"collect", "reserve", "relax", "sweep", "swept", "relaxed",
               "relocated", "linked", "failed", "crashed"}

\* Whatever moves a symbol, it has its name and stays an import or none.
NamesStay(ob, ss) ==
  \A s \in 1 .. Len(ss) :
    /\ ss[s].name = ob.syms[s].name /\ ss[s].import = ob.syms[s].import
    /\ ss[s].global = ob.syms[s].global /\ ss[s].weak = ob.syms[s].weak

RefsIn(rs, ss) == \A k \in 1 .. Len(rs) : rs[k].sym \in 1 .. Len(ss)

\* What relaxing may have made of the section, with the symbols of its
\* references, so that the name of an import can be looked up.
SectionTypes ==
  /\ LinkInv
  /\ obj \in Objects /\ opt \in Options
  /\ NamesStay(obj, syms)
  /\ RefsIn(relocs, syms)

\* The inductive invariant.  TypeOK alone is not inductive: that a table
\* holds names with a bucket needs the symbols of the references and their
\* names as the assembler gave them.
TypeInv ==
  /\ SectionTypes
  /\ sec_flg0 \in BOOLEAN /\ again \in BOOLEAN
  /\ reserve_size \in Int /\ relax_pass \in {0, 1}
  /\ state \in LinkStates
  /\ ImportEntries \in FiledTables(ImportEntry)
  /\ ExportEntries \in FiledTables(ExportEntry)

\* An import has a name with a bucket.
LEMMA ImportsAreRefs ==
  ASSUME SectionTypes
  PROVE  /\ relocs \in Seq(Reloc) /\ Len(relocs) \in Nat
         /\ \A k \in 1 .. Len(relocs) : Imports(relocs[k]) => RefOf(relocs[k])
<1>1. /\ relocs \in Seq(Reloc) /\ Len(relocs) \in Nat
      /\ \A k \in 1 .. Len(relocs) : relocs[k] \in Reloc
      /\ obj \in Object /\ DOMAIN obj.syms = 1 .. Len(obj.syms)
      /\ Len(syms) = Len(obj.syms)
  <2>1. relocs \in Seq(Reloc) /\ obj \in Object /\ Len(syms) = Len(obj.syms)
    BY DEF SectionTypes, LinkInv, Shaped
  <2>2. obj.syms \in Seq(Symbol)
    BY <2>1 DEF Object
  <2> QED
    BY <2>1, <2>2, LenProperties, ElementOfSeq
<1>2. ASSUME NEW k \in 1 .. Len(relocs), Imports(relocs[k]) PROVE RefOf(relocs[k])
  <2>1. relocs[k].sym \in DOMAIN obj.syms
    BY <1>1 DEF SectionTypes, RefsIn
  <2>2. obj.syms[relocs[k].sym].import /\ Imported(relocs[k]) = obj.syms[relocs[k].sym].name
    BY <1>1, <1>2, <2>1 DEF SectionTypes, NamesStay, Imports, Imported
  <2>3. obj.syms[relocs[k].sym].name \in DOMAIN strlen
    BY <2>1, <2>2, LinkConstants DEF SectionTypes
  <2> QED
    BY <1>1, <2>2, <2>3 DEF RefOf
<1> QED
  BY <1>1, <1>2

\* What a step of the relaxation makes of the relocations rs and the symbols.
MovedBy(rs) ==
  \/ relocs' = rs /\ syms' = syms
  \/ \E addr, count : riscv_relax_delete_bytes(rs, addr, count)

\* A relocation gets a new symbol only when it is dropped, or when the one
\* before it refers to an import.
SymsFrom(rs) ==
  /\ DOMAIN rs = 1 .. Len(relocs)
  /\ \A l \in 1 .. Len(relocs) : rs[l].sym \in {relocs[l].sym, 1, rel.sym}

LEMMA MovedBySyms ==
  ASSUME SectionTypes, NEW rs, MovedBy(rs), DOMAIN rs = 1 .. Len(relocs),
         LinkInv', UNCHANGED <<obj, opt>>,
         \A l \in 1 .. Len(relocs) : rs[l].sym \in 1 .. Len(syms)
  PROVE  SectionTypes'
<1>1. /\ Len(relocs') = Len(relocs) /\ Len(syms') = Len(syms)
      /\ syms \in Seq(Symbol) /\ DOMAIN syms = 1 .. Len(syms)
      /\ \A s \in 1 .. Len(syms) : syms[s] \in Symbol
  <2>1. /\ Len(relocs) = Len(obj.relocs) /\ Len(syms) = Len(obj.syms)
        /\ syms \in Seq(Symbol)
        /\ Len(relocs') = Len(obj'.relocs) /\ Len(syms') = Len(obj'.syms)
    BY DEF SectionTypes, LinkInv, Shaped
  <2> QED
    BY <2>1, LenProperties, ElementOfSeq
<1>2. CASE relocs' = rs /\ syms' = syms
  <2>1. RefsIn(relocs', syms')
    BY <1>1, <1>2 DEF RefsIn
  <2> QED
    BY <1>2, <2>1 DEF SectionTypes
<1>3. CASE \E addr, count : riscv_relax_delete_bytes(rs, addr, count)
  <2>1. PICK addr, count : riscv_relax_delete_bytes(rs, addr, count)
    BY <1>3
  <2>2. /\ relocs' = [k \in DOMAIN rs |-> MovedReloc(rs[k], addr, count, Len(contents))]
        /\ syms' = [s \in DOMAIN syms |-> MovedSymbol(syms[s], addr, count, Len(contents))]
    BY <2>1 DEF riscv_relax_delete_bytes
  <2>3. ASSUME NEW k \in 1 .. Len(relocs) PROVE relocs'[k].sym \in 1 .. Len(syms)
    <3>1. relocs'[k] = MovedReloc(rs[k], addr, count, Len(contents))
      BY <2>2
    <3>2. relocs' \in Seq(Reloc) /\ relocs'[k] \in Reloc
      <4>1. relocs' \in Seq(Reloc)
        BY DEF LinkInv, Shaped
      <4> QED
        BY <1>1, <4>1, ElementOfSeq
    <3>3. MovedReloc(rs[k], addr, count, Len(contents)).sym = rs[k].sym
      BY DEF MovedReloc
    <3> QED
      BY <3>1, <3>3
  <2>4. ASSUME NEW s \in 1 .. Len(syms)
        PROVE  /\ syms'[s].name = syms[s].name /\ syms'[s].import = syms[s].import
               /\ syms'[s].global = syms[s].global /\ syms'[s].weak = syms[s].weak
    <3>1. syms'[s] = MovedSymbol(syms[s], addr, count, Len(contents))
      BY <1>1, <2>2
    <3>2. syms[s] \in Symbol
      BY <1>1
    <3> QED
      BY <3>1, <3>2 DEF MovedSymbol, Symbol
  <2>5. RefsIn(relocs', syms')
    BY <1>1, <2>3 DEF RefsIn
  <2>6. NamesStay(obj, syms')
    BY <1>1, <2>4 DEF SectionTypes, NamesStay
  <2> QED
    BY <2>5, <2>6 DEF SectionTypes
<1> QED
  BY <1>2, <1>3 DEF MovedBy

\* The relocations a step of pass 0 makes of them.
LEMMA RefChanges ==
  ASSUME LinkInv, RelaxRef
  PROVE  /\ \E rs : SymsFrom(rs) /\ MovedBy(rs)
         /\ UNCHANGED sec_flg0 /\ again' \in {again, TRUE, FALSE}
<1>1. /\ i < Len(relocs) /\ rel.type \in Shortened
  BY Zenon DEF RelaxRef, Considered, Paired
<1>2. /\ i \in 1 .. Len(relocs) /\ relocs \in Seq(Reloc) /\ i \in Nat
      /\ Len(relocs) \in Nat /\ DOMAIN relocs = 1 .. Len(relocs)
  <2>1. i \in Nat \ {0} /\ relocs \in Seq(Reloc)
    BY DEF LinkInv, Shaped
  <2>2. Len(relocs) \in Nat
    BY <2>1, LenProperties
  <2>3. i <= Len(relocs)
    BY <1>1, <2>1, <2>2
  <2> QED
    BY <2>1, <2>3, AtLoop
<1>3. rel \in Reloc /\ \A l \in 1 .. Len(relocs) : relocs[l] \in Reloc
  BY <1>2, ElementOfSeq DEF rel
<1>4. /\ \A u \in {"GPREL_I", "GPREL_S", "RVC_LUI", "TPREL_I", "TPREL_S", "LO12_I",
                   "HI20", "PCREL_HI20", "RVC_JUMP", "JAL"} :
             /\ DOMAIN Retyped(u) = 1 .. Len(relocs)
             /\ \A l \in 1 .. Len(relocs) : Retyped(u)[l].sym = relocs[l].sym
      /\ SymsFrom(Dropped)
  <2>1. ASSUME NEW u \in {"GPREL_I", "GPREL_S", "RVC_LUI", "TPREL_I", "TPREL_S",
                          "LO12_I", "HI20", "PCREL_HI20", "RVC_JUMP", "JAL"}
        PROVE  u \in RelocType
    BY DEF RelocType, AsmTypes, LuiTypes, PcrelTypes
  <2>2. ASSUME NEW u \in RelocType, NEW l \in 1 .. Len(relocs)
        PROVE  Retyped(u)[l].sym = relocs[l].sym
    <3>1. [rel EXCEPT !.type = u].sym = rel.sym
      BY <1>3 DEF Reloc
    <3>2. Retyped(u)[l] = IF l = i THEN [rel EXCEPT !.type = u] ELSE relocs[l]
      BY <1>2, RetypedIs
    <3> QED
      BY <3>1, <3>2 DEF rel
  <2>3. ASSUME NEW l \in 1 .. Len(relocs) PROVE Dropped[l].sym \in {relocs[l].sym, 1}
    <3>1. [rel EXCEPT !.type = "NONE", !.sym = 1].sym = 1
      BY <1>3 DEF Reloc
    <3> QED
      BY <1>2, <3>1, DroppedIs
  <2> QED
    BY <1>2, <2>1, <2>2, <2>3, RetypedIs, DroppedIs DEF SymsFrom
<1>5. Jump.type \in {"RVC_JUMP", "JAL", "LO12_I"}
  BY DEF Jump
<1>6. SymsFrom(relocs)
  BY <1>2 DEF SymsFrom
<1>7. \A u \in {"GPREL_I", "GPREL_S", "RVC_LUI", "TPREL_I", "TPREL_S", "LO12_I",
                "HI20", "PCREL_HI20", "RVC_JUMP", "JAL"} : SymsFrom(Retyped(u))
  BY <1>4 DEF SymsFrom
<1>8. ASSUME NEW rs, SymsFrom(rs),
             \/ Leave(rs)
             \/ \E addr, count : Shorten(rs, addr, count)
      PROVE  /\ \E rt : SymsFrom(rt) /\ MovedBy(rt)
             /\ UNCHANGED sec_flg0 /\ again' \in {again, TRUE, FALSE}
  BY <1>8 DEF Leave, Shorten, MovedBy
<1>9. CASE _bfd_riscv_relax_call
  <2>1. \/ Leave(relocs)
        \/ Shorten(Retyped(Jump.type), rel.offset + Jump.len, 8 - Jump.len)
    BY <1>9 DEF _bfd_riscv_relax_call
  <2>2. SymsFrom(Retyped(Jump.type))
    BY <1>5, <1>7
  <2> QED
    BY <1>6, <1>8, <2>1, <2>2
<1>10. CASE _bfd_riscv_relax_lui
  <2>1. \/ Leave(relocs) \/ Leave(Retyped("GPREL_I")) \/ Leave(Retyped("GPREL_S"))
        \/ Shorten(Dropped, rel.offset, 4)
        \/ Shorten(Retyped("RVC_LUI"), rel.offset + 2, 2)
    BY <1>10, Zenon DEF _bfd_riscv_relax_lui
  <2> QED
    BY <1>4, <1>6, <1>7, <1>8, <2>1
<1>11. CASE _bfd_riscv_relax_tls_le
  <2>1. \/ Leave(relocs) \/ Leave(Retyped("TPREL_I")) \/ Leave(Retyped("TPREL_S"))
        \/ Shorten(Dropped, rel.offset, 4)
    BY <1>11, Zenon DEF _bfd_riscv_relax_tls_le
  <2> QED
    BY <1>4, <1>6, <1>7, <1>8, <2>1
<1>12. CASE _bfd_riscv_relax_import_pcrel
  <2>1. \/ Leave(Retyped("LO12_I")) \/ Leave(AbsolutePair)
        \/ again' = FALSE /\ UNCHANGED <<secVars, sec_flg0>>
    BY <1>12, Zenon DEF _bfd_riscv_relax_import_pcrel, AbsolutePair
  <2>2. SymsFrom(AbsolutePair)
    BY <1>1, <1>2, PairIs DEF PairOf, SymsFrom, rel
  <2>3. CASE again' = FALSE /\ UNCHANGED <<secVars, sec_flg0>>
    BY <1>6, <2>3 DEF MovedBy, secVars
  <2> QED
    BY <1>7, <1>8, <2>1, <2>2, <2>3
<1>13. CASE _bfd_riscv_relax_got_ref
  <2>1. Leave(GotPair)
    BY <1>13 DEF _bfd_riscv_relax_got_ref, GotPair
  <2>2. SymsFrom(GotPair)
    BY <1>1, <1>2, PairIs DEF PairOf, SymsFrom, rel
  <2> QED
    BY <1>8, <2>1, <2>2
<1> QED
  BY <1>9, <1>10, <1>11, <1>12, <1>13, Zenon DEF RelaxRef

\* Pass 1 drops a relocation of a padding.
LEMMA AlignChanges ==
  ASSUME LinkInv, RelaxAlign
  PROVE  /\ \E rs : SymsFrom(rs) /\ MovedBy(rs)
         /\ sec_flg0' = TRUE /\ UNCHANGED again /\ state' \in {state, "failed"}
<1>1. i <= Len(relocs) /\ _bfd_riscv_relax_align
  BY Zenon DEF RelaxAlign, InLoop
<1>2. /\ i \in 1 .. Len(relocs) /\ relocs \in Seq(Reloc)
      /\ DOMAIN relocs = 1 .. Len(relocs) /\ rel \in Reloc
  <2>1. i \in Nat \ {0} /\ relocs \in Seq(Reloc)
    BY DEF LinkInv, Shaped
  <2>2. Len(relocs) \in Nat /\ DOMAIN relocs = 1 .. Len(relocs)
    BY <2>1, LenProperties
  <2>3. i \in 1 .. Len(relocs)
    BY <1>1, <2>1, <2>2
  <2> QED
    BY <2>1, <2>2, <2>3, ElementOfSeq DEF rel
<1>3. SymsFrom(relocs) /\ SymsFrom(Dropped)
  <2>1. [rel EXCEPT !.type = "NONE", !.sym = 1].sym = 1
    BY <1>2 DEF Reloc
  <2> QED
    BY <1>2, <2>1, DroppedIs DEF SymsFrom
<1>4. /\ sec_flg0' = TRUE /\ UNCHANGED again
      /\ \/ state' = "failed" /\ UNCHANGED secVars
         \/ state' = state /\ relocs' = Dropped /\ UNCHANGED <<contents, syms>>
         \/ /\ state' = state
            /\ \E addr, count : riscv_relax_delete_bytes(Dropped, addr, count)
  BY <1>1, Zenon DEF _bfd_riscv_relax_align
<1> QED
  BY <1>3, <1>4 DEF MovedBy, secVars

\* What is left of a symbol is a number.
LEMMA ReserveInt ==
  ASSUME SectionTypes, i \in 1 .. Len(relocs), reserve_size \in Int
  PROVE  /\ Reserve \in Int /\ rel.sym \in 1 .. Len(syms)
         /\ 1 \in 1 .. Len(syms)
<1>1. /\ relocs \in Seq(Reloc) /\ syms \in Seq(Symbol) /\ rel.sym \in 1 .. Len(syms)
      /\ Len(syms) \in Nat
  BY LenProperties DEF SectionTypes, LinkInv, Shaped, RefsIn, rel
<1>2. rel \in Reloc /\ sym \in Symbol
  BY <1>1, ElementOfSeq DEF rel, sym
<1>3. rel.addend \in Int /\ sym.size \in Int
  BY <1>2 DEF Reloc, Symbol
<1>4. Reserve \in Int
  BY <1>3 DEF Reserve
<1> QED
  BY <1>1, <1>4

\* A step that leaves the section alone.
LEMMA SectionStays ==
  ASSUME SectionTypes, LinkInv', UNCHANGED <<obj, opt, relocs, syms>>
  PROVE  SectionTypes'
BY DEF SectionTypes

LEMMA RelaxingTypes ==
  ASSUME TypeInv, LinkInv', Relaxing, UNCHANGED <<ImportEntries, ExportEntries>>
  PROVE  TypeInv'
<1>1. /\ SectionTypes /\ LinkInv /\ i \in Nat \ {0} /\ Len(relocs) \in Nat
      /\ sec_flg0 \in BOOLEAN /\ again \in BOOLEAN
      /\ reserve_size \in Int /\ relax_pass \in {0, 1}
      /\ state \in LinkStates
      /\ ImportEntries' \in FiledTables(ImportEntry)
      /\ ExportEntries' \in FiledTables(ExportEntry)
  BY LenProperties DEF TypeInv, SectionTypes, LinkInv, Shaped
<1>2. CASE BeginSweep
  <2>1. /\ UNCHANGED <<obj, opt, relocs, syms, sec_flg0, relax_pass>>
        /\ reserve_size' = 0 /\ state' \in {"sweep", "swept"}
    BY <1>2 DEF BeginSweep, secVars
  <2>2. SectionTypes'
    BY <1>1, <2>1, SectionStays
  <2>3. again' \in BOOLEAN
    <3>1. again' = FALSE /\ FALSE \in BOOLEAN
      BY <1>2, Zenon DEF BeginSweep
    <3> QED
      BY <3>1, Zenon
  <2> QED
    BY <1>1, <2>1, <2>2, <2>3 DEF TypeInv, LinkStates
<1>3. CASE Skip
  <2>1. /\ UNCHANGED <<obj, opt, relocs, syms, sec_flg0, relax_pass, again, state>>
        /\ i \in 1 .. Len(relocs)
        /\ reserve_size' = IF Considered THEN Reserve ELSE reserve_size
    BY <1>1, <1>3 DEF Skip, InLoop, secVars
  <2>2. SectionTypes'
    BY <1>1, <2>1, SectionStays
  <2>3. reserve_size' \in Int
    BY <1>1, <2>1, ReserveInt
  <2> QED
    BY <1>1, <2>1, <2>2, <2>3 DEF TypeInv
<1>4. CASE RelaxRef \/ RelaxAlign
  <2>1. /\ i \in 1 .. Len(relocs) /\ reserve_size' = Reserve
        /\ UNCHANGED <<obj, opt, relax_pass>>
    <3>1. /\ i <= Len(relocs) /\ reserve_size' = Reserve
          /\ UNCHANGED <<obj, opt, relax_pass>>
      BY <1>4, Zenon DEF RelaxRef, RelaxAlign, InLoop
    <3> QED
      BY <1>1, <3>1
  <2>2. /\ \E rs : SymsFrom(rs) /\ MovedBy(rs)
        /\ sec_flg0' \in BOOLEAN /\ again' \in BOOLEAN /\ state' \in LinkStates
    <3>1. CASE RelaxRef
      <4>1. UNCHANGED state
        BY <3>1 DEF RelaxRef
      <4> QED
        BY <1>1, <3>1, <4>1, RefChanges
    <3>2. CASE RelaxAlign
      BY <1>1, <3>2, AlignChanges DEF LinkStates
    <3> QED
      BY <1>4, <3>1, <3>2
  <2>3. Reserve \in Int /\ rel.sym \in 1 .. Len(syms) /\ 1 \in 1 .. Len(syms)
    BY <1>1, <2>1, ReserveInt
  <2>4. PICK rs : SymsFrom(rs) /\ MovedBy(rs)
    BY <2>2
  <2>5. \A l \in 1 .. Len(relocs) : rs[l].sym \in 1 .. Len(syms)
    BY <1>1, <2>3, <2>4 DEF SymsFrom, SectionTypes, RefsIn
  <2>6. SectionTypes'
    BY <1>1, <2>1, <2>4, <2>5, MovedBySyms DEF SymsFrom
  <2>7. reserve_size' \in Int
    BY <2>1, <2>3
  <2>8. relax_pass' \in {0, 1}
    BY <1>1, <2>1
  <2> QED
    <3>1. sec_flg0' \in BOOLEAN /\ again' \in BOOLEAN /\ state' \in LinkStates
      BY <2>2
    <3>2. /\ ImportEntries' \in FiledTables(ImportEntry)'
          /\ ExportEntries' \in FiledTables(ExportEntry)'
      BY <1>1, Zenon
    <3> QED
      BY <2>6, <2>7, <2>8, <3>1, <3>2, Zenon DEF TypeInv
<1>5. CASE EndSweep
  <2>1. /\ UNCHANGED <<obj, opt, relocs, syms, sec_flg0, relax_pass, again, reserve_size>>
        /\ state' = "swept"
    BY <1>5 DEF EndSweep, secVars
  <2>2. SectionTypes'
    BY <1>1, <2>1, SectionStays
  <2> QED
    BY <1>1, <2>1, <2>2 DEF TypeInv, LinkStates
<1>6. CASE NextSweep
  <2>1. /\ UNCHANGED <<obj, opt, relocs, syms, sec_flg0, again, reserve_size>>
        /\ state' \in {"relax", "relaxed"} /\ relax_pass' \in {0, 1}
    BY <1>1, <1>6 DEF NextSweep, secVars
  <2>2. SectionTypes'
    BY <1>1, <2>1, SectionStays
  <2> QED
    BY <1>1, <2>1, <2>2 DEF TypeInv, LinkStates
<1> QED
  BY <1>2, <1>3, <1>4, <1>5, <1>6, Zenon DEF Relaxing

\* A whole run of the tables ends in a table.
LEMMA FoldsFiled ==
  ASSUME SectionTypes, NEW table \in FiledTables(ImportEntry)
  PROVE  /\ FoldLeftDomain(Collected, NoEntries, relocs) \in FiledTables(ImportEntry)
         /\ FoldLeft(Listed, table, relocs) \in FiledTables(ImportEntry)
<1>1. /\ relocs \in Seq(Reloc) /\ Len(relocs) \in Nat
      /\ \A k \in 1 .. Len(relocs) : Imports(relocs[k]) => RefOf(relocs[k])
  BY ImportsAreRefs
<1>2. Len(relocs) \in 0 .. Len(relocs)
  BY <1>1
<1>3. PICK run \in [0 .. Len(relocs) -> FiledTables(ImportEntry)] :
        run[Len(relocs)] = FoldLeftDomain(Collected, NoEntries, relocs)
  BY <1>1, CollectedRun, Zenon
<1>4. PICK run2 \in [0 .. Len(relocs) -> FiledTables(ImportEntry)] :
        run2[Len(relocs)] = FoldLeft(Listed, table, relocs)
  BY <1>1, ListedRun, Zenon
<1>5. /\ run[Len(relocs)] \in FiledTables(ImportEntry)
      /\ run2[Len(relocs)] \in FiledTables(ImportEntry)
  BY <1>2, <1>3, <1>4
<1> QED
  BY <1>3, <1>4, <1>5, Zenon

LEMMA TablesTypes ==
  ASSUME TypeInv, LinkInv', check_relocs \/ Reserve_sections \/ relocate_section \/ final_link
  PROVE  TypeInv'
<1>1. /\ SectionTypes /\ sec_flg0 \in BOOLEAN /\ again \in BOOLEAN
      /\ reserve_size \in Int /\ relax_pass \in {0, 1}
      /\ ImportEntries \in FiledTables(ImportEntry)
      /\ ExportEntries \in FiledTables(ExportEntry)
  BY DEF TypeInv
<1>2. /\ UNCHANGED <<obj, opt, relocs, syms, sec_flg0, again, reserve_size, relax_pass>>
      /\ state' \in LinkStates
      /\ ImportEntries' \in FiledTables(ImportEntry)
      /\ ExportEntries' \in FiledTables(ExportEntry)
  <2>1. CASE check_relocs
    <3>1. /\ UNCHANGED <<obj, opt, secVars, sec_flg0, again, reserve_size, relax_pass,
                         ExportEntries>>
          /\ \/ state' = "crashed" /\ UNCHANGED ImportEntries
             \/ /\ state' = "reserve"
                /\ ImportEntries' = FoldLeftDomain(Collected, NoEntries, relocs)
      BY <2>1, Zenon DEF check_relocs
    <3>2. FoldLeftDomain(Collected, NoEntries, relocs) \in FiledTables(ImportEntry)
      BY <1>1, FoldsFiled
    <3>3. state' \in LinkStates /\ UNCHANGED <<relocs, syms>>
      BY <3>1 DEF LinkStates, secVars
    <3> QED
      BY <1>1, <3>1, <3>2, <3>3
  <2>2. CASE Reserve_sections
    <3>1. /\ UNCHANGED <<obj, opt, secVars, sec_flg0, again, reserve_size, relax_pass,
                         tableVars>>
          /\ state' = "relax"
      BY <2>2, Zenon DEF Reserve_sections
    <3> QED
      BY <1>1, <3>1 DEF LinkStates, secVars, tableVars
  <2>3. CASE relocate_section
    <3>1. /\ UNCHANGED <<obj, opt, secVars, sec_flg0, again, reserve_size, relax_pass,
                         ExportEntries>>
          /\ state' \in {"relocated", "failed"}
          /\ ImportEntries' = FoldLeft(Listed, ImportEntries, relocs)
      BY <2>3, Zenon DEF relocate_section
    <3>2. FoldLeft(Listed, ImportEntries, relocs) \in FiledTables(ImportEntry)
      BY <1>1, FoldsFiled
    <3>3. state' \in LinkStates /\ UNCHANGED <<relocs, syms>>
      BY <3>1 DEF LinkStates, secVars
    <3> QED
      BY <1>1, <3>1, <3>2, <3>3
  <2>4. CASE final_link
    <3>1. UNCHANGED <<obj, opt, secVars, sec_flg0, again, reserve_size, relax_pass>>
      BY <2>4, Zenon DEF final_link
    <3>2. \/ state' = "failed" /\ UNCHANGED tableVars
          \/ /\ state' = "linked"
             /\ ImportEntries' \in {ImportEntries, NoEntries}
             /\ ExportEntries' = NoEntries
      BY <2>4, Zenon DEF final_link
    <3>3. /\ NoEntries \in FiledTables(ImportEntry)
          /\ NoEntries \in FiledTables(ExportEntry)
      BY NoEntriesFiled
    <3>4. state' \in LinkStates /\ UNCHANGED <<relocs, syms>>
      BY <3>1, <3>2 DEF LinkStates, secVars
    <3> QED
      BY <1>1, <3>1, <3>2, <3>3, <3>4 DEF tableVars
  <2> QED
    BY <2>1, <2>2, <2>3, <2>4
<1>3. SectionTypes'
  BY <1>1, <1>2, SectionStays
<1> QED
  BY <1>1, <1>2, <1>3 DEF TypeInv

\* As the linker begins, the tables of the exports are filled and all
\* references have their symbols.
LEMMA InitTypeInv == Init => TypeInv
<1> SUFFICES ASSUME Init PROVE TypeInv
  OBVIOUS
<1>1. LinkInv
  BY InitLinkInv
<1>2. /\ obj \in Objects /\ opt \in Options /\ relocs = obj.relocs /\ syms = obj.syms
      /\ sec_flg0 = FALSE /\ again = FALSE /\ reserve_size = 0 /\ relax_pass = 0
      /\ state = "collect" /\ ImportEntries = NoEntries
  BY DEF Init, RelaxInit
<1>3. RefsIn(relocs, syms)
  <2>1. obj \in Object /\ WellFormed(obj)
    BY <1>1 DEF LinkInv, Shaped
  <2>2. /\ DOMAIN obj.syms = 1 .. Len(obj.syms)
        /\ DOMAIN obj.relocs = 1 .. Len(obj.relocs)
    BY <2>1, LenProperties DEF Object
  <2> QED
    BY <1>2, <2>1, <2>2 DEF RefsIn, WellFormed, Placed
<1>4. NamesStay(obj, syms)
  BY <1>2 DEF NamesStay
<1>5. ExportEntries \in FiledTables(ExportEntry)
  <2>1. PICK list \in ExportLists :
          ExportEntries = FoldLeft(InsertExportEntry, NoEntries, list)
    BY Zenon DEF Init
  <2>2. list \in Seq(DOMAIN strlen)
    BY LinkConstants
  <2>3. PICK run \in [0 .. Len(list) -> FiledTables(ExportEntry)] :
          run[Len(list)] = FoldLeft(InsertExportEntry, NoEntries, list)
    BY <2>2, ExportRun, Zenon
  <2>4. Len(list) \in 0 .. Len(list)
    BY <2>2, LenProperties
  <2>5. run[Len(list)] \in FiledTables(ExportEntry)
    BY <2>3, <2>4
  <2> QED
    BY <2>1, <2>3, <2>5, Zenon
<1>6. SectionTypes
  BY <1>1, <1>2, <1>3, <1>4 DEF SectionTypes
<1>7. /\ sec_flg0 \in BOOLEAN /\ again \in BOOLEAN /\ reserve_size \in Int
      /\ relax_pass \in {0, 1} /\ state \in LinkStates
  <2>1. FALSE \in BOOLEAN /\ 0 \in Int /\ 0 \in {0, 1}
    OBVIOUS
  <2>2. "collect" \in LinkStates
    BY DEF LinkStates
  <2> QED
    BY <1>2, <2>1, <2>2, Zenon
<1>8. ImportEntries \in FiledTables(ImportEntry)
  BY <1>2, NoEntriesFiled
<1> QED
  BY <1>5, <1>6, <1>7, <1>8, Zenon DEF TypeInv

\* Whatever the linker does next, its tables hold every name once, in the
\* bucket of its hash, and every reference has its symbol: the inductive step
\* (InsertImportEntry, InsertExportEntry, riscv_relax_delete_bytes).
THEOREM NextTypeInv == TypeInv /\ [Next]_vars => TypeInv'
<1> SUFFICES ASSUME TypeInv, [Next]_vars PROVE TypeInv'
  OBVIOUS
<1>1. LinkInv /\ LinkInv'
  BY NextLinkInv DEF TypeInv, SectionTypes
<1>2. CASE Relaxing /\ UNCHANGED linkVars
  <2>1. UNCHANGED <<ImportEntries, ExportEntries>>
    BY <1>2 DEF linkVars, tableVars
  <2> QED
    BY <1>1, <1>2, <2>1, RelaxingTypes
<1>3. CASE check_relocs \/ Reserve_sections \/ relocate_section \/ final_link
  BY <1>1, <1>3, TablesTypes
<1>4. CASE UNCHANGED vars
  <2>1. UNCHANGED <<obj, opt, relocs, syms, sec_flg0, again, reserve_size, relax_pass,
                    state, ImportEntries, ExportEntries>>
    BY <1>4 DEF vars, relaxVars, secVars, linkVars, tableVars
  <2>2. SectionTypes'
    BY <1>1, <2>1, SectionStays DEF TypeInv
  <2> QED
    BY <2>1, <2>2 DEF TypeInv
<1> QED
  BY <1>2, <1>3, <1>4 DEF Next

LEMMA TypeInvTypes == TypeInv => TypeOK
<1> SUFFICES ASSUME TypeInv PROVE TypeOK
  OBVIOUS
<1>1. RelaxTypeOK
  <2>1. /\ obj \in Object /\ contents \in Seq(Nat) /\ relocs \in Seq(Reloc)
        /\ Len(relocs) = Len(obj.relocs) /\ syms \in Seq(Symbol)
        /\ Len(syms) = Len(obj.syms) /\ i \in Nat
    BY DEF TypeInv, SectionTypes, LinkInv, Shaped
  <2> QED
    BY <2>1 DEF TypeInv, SectionTypes, RelaxTypeOK
<1>2. ImportEntries \in Table /\ Filed(ImportEntries)
  BY DEF TypeInv, FiledTables, Table, ImportEntry
<1>3. /\ ExportEntries \in [Buckets -> Seq([name : DOMAIN strlen])]
      /\ Filed(ExportEntries)
  BY DEF TypeInv, FiledTables, ExportEntry
<1>4. ASSUME NEW t \in {ImportEntries, ExportEntries}, NEW b \in Buckets, NEW k \in DOMAIN t[b]
      PROVE  /\ hash_sdbm[t[b][k].name] = b
             /\ \A l \in DOMAIN t[b] : t[b][k].name = t[b][l].name => k = l
  <2>1. DOMAIN t[b] = 1 .. Len(t[b])
    <3>1. CASE t = ImportEntries
      <4>1. ImportEntries[b] \in Seq([name : DOMAIN strlen, RelocCount : Nat,
                                      Ref : Seq([type : RelocType, offset : Nat])])
        BY <1>2 DEF Table
      <4> QED
        BY <3>1, <4>1, LenProperties
    <3>2. CASE t = ExportEntries
      <4>1. ExportEntries[b] \in Seq([name : DOMAIN strlen])
        BY <1>3
      <4> QED
        BY <3>2, <4>1, LenProperties
    <3> QED
      BY <3>1, <3>2
  <2>2. Filed(t)
    BY <1>2, <1>3
  <2> QED
    BY <2>1, <2>2 DEF Filed
<1>5. state \in LinkStates
  BY DEF TypeInv
<1> QED
  BY <1>1, <1>2, <1>3, <1>4, <1>5 DEF TypeOK, LinkStates

\* In every state of the linker the variables have their types, and a name is
\* in a table once, in the bucket of its hash, however the relaxation has
\* moved the symbols whose names are looked up.
THEOREM LinkTypesAlways == Spec => []TypeOK
<1>1. Spec => []TypeInv
  BY InitTypeInv, NextTypeInv, PTL DEF Spec
<1> QED
  BY <1>1, TypeInvTypes, PTL

-----------------------------------------------------------------------------
(* What the linker reserves is enough: the entry of a name                 *)

Fresh(name) == [name |-> name, RelocCount |-> 0, Ref |-> << >>]

Has(table, name) == EntryOf(table[hash_sdbm[name]], name) # 0

\* The entry of a name, as if every name had one.
Entry(table, name) ==
  IF Has(table, name)
  THEN table[hash_sdbm[name]][EntryOf(table[hash_sdbm[name]], name)]
  ELSE Fresh(name)

LEMMA EntryIs ==
  ASSUME NEW table \in FiledTables(ImportEntry), NEW name \in DOMAIN strlen
  PROVE  LET list == table[hash_sdbm[name]]
         IN /\ hash_sdbm[name] \in Buckets /\ list \in Seq(ImportEntry)
            /\ \A k \in 1 .. Len(list) :
                 list[k].name = name => Has(table, name) /\ Entry(table, name) = list[k]
            /\ (\A k \in 1 .. Len(list) : list[k].name # name) =>
                 ~ Has(table, name) /\ Entry(table, name) = Fresh(name)
            /\ Has(table, name) => \E k \in 1 .. Len(list) : list[k].name = name
            /\ Entry(table, name) \in ImportEntry /\ Entry(table, name).name = name
<1> DEFINE b == hash_sdbm[name]
           list == table[b]
           j == EntryOf(list, name)
<1>1. b \in Buckets
  BY LinkConstants DEF Buckets
<1>2. list \in Seq(ImportEntry) /\ Filed(table)
  BY <1>1 DEF FiledTables
<1>3. /\ j \in 0 .. Len(list)
      /\ j = 0 => \A k \in 1 .. Len(list) : list[k].name # name
      /\ j # 0 => list[j].name = name
  BY <1>2, EntryFound
<1>4. Len(list) \in Nat /\ \A k \in 1 .. Len(list) : list[k] \in ImportEntry
  BY <1>2, LenProperties, ElementOfSeq
<1>5. j # 0 => j \in 1 .. Len(list)
  BY <1>3, <1>4
<1>6. \A k, l \in 1 .. Len(list) : list[k].name = list[l].name => k = l
  BY <1>1, <1>2 DEF Filed
<1>7. Fresh(name) \in ImportEntry /\ Fresh(name).name = name
  BY DEF Fresh, ImportEntry
<1> HIDE DEF b, j, list
<1>8. Has(table, name) <=> j # 0
  BY DEF Has, b, j, list
<1>9. Entry(table, name) = IF j # 0 THEN list[j] ELSE Fresh(name)
  BY <1>8 DEF Entry, b, j, list
<1>10. ASSUME NEW k \in 1 .. Len(list), list[k].name = name
       PROVE  Has(table, name) /\ Entry(table, name) = list[k]
  BY <1>3, <1>5, <1>6, <1>8, <1>9, <1>10
<1>11. ASSUME \A k \in 1 .. Len(list) : list[k].name # name
       PROVE  ~ Has(table, name) /\ Entry(table, name) = Fresh(name)
  BY <1>3, <1>5, <1>8, <1>9, <1>11
<1>12. Has(table, name) => \E k \in 1 .. Len(list) : list[k].name = name
  BY <1>3, <1>5, <1>8
<1>13. Entry(table, name) \in ImportEntry /\ Entry(table, name).name = name
  BY <1>3, <1>4, <1>5, <1>7, <1>9
<1> QED
  BY <1>1, <1>2, <1>10, <1>11, <1>12, <1>13 DEF b, list

\* The lists of two tables hold the same names in the same places.
SameNames(t, u) ==
  \A b \in Buckets :
    /\ Len(t[b]) = Len(u[b])
    /\ \A k \in 1 .. Len(t[b]) : t[b][k].name = u[b][k].name

\* What t says of every name, u says too.
Says(t, u) ==
  \A x \in DOMAIN strlen : Entry(u, x) = Entry(t, x) /\ (Has(t, x) => Has(u, x))

\* A new name makes no difference to what the table says.
LEMMA WithImportSays ==
  ASSUME NEW table \in FiledTables(ImportEntry), NEW name \in DOMAIN strlen
  PROVE  LET t == WithImport(table, name)
         IN /\ t \in FiledTables(ImportEntry)
            /\ Says(table, t) /\ Has(t, name)
            /\ Has(table, name) => t = table
<1> DEFINE b == hash_sdbm[name]
           list == table[b]
           t == WithImport(table, name)
<1>1. b \in Buckets /\ t \in FiledTables(ImportEntry)
  BY WithImportFiled
<1>2. list \in Seq(ImportEntry) /\ table \in [Buckets -> Seq(ImportEntry)]
  BY <1>1 DEF FiledTables
<1>3. Fresh(name).name = name /\ t = WithEntry(table, Fresh(name))
  BY DEF Fresh, WithImport
<1>4. CASE Has(table, name)
  <2>1. EntryOf(list, name) # 0
    BY <1>4 DEF Has
  <2>2. t = [table EXCEPT ![b] = list]
    BY <1>1, <1>2, <1>3, <2>1 DEF WithEntry
  <2>3. t = table
    BY <1>1, <1>2, <2>2
  <2> QED
    BY <1>1, <1>4, <2>3 DEF Says
<1>5. CASE ~ Has(table, name)
  <2>1. EntryOf(list, name) = 0
    BY <1>5 DEF Has
  <2>2. t = [table EXCEPT ![b] = Append(list, Fresh(name))]
    BY <1>1, <1>2, <1>3, <2>1 DEF WithEntry
  <2> DEFINE more == Append(list, Fresh(name))
  <2>3. /\ t[b] = more /\ \A c \in Buckets : c # b => t[c] = table[c]
        /\ Len(list) \in Nat
        /\ Len(more) = Len(list) + 1 /\ more[Len(list) + 1] = Fresh(name)
        /\ \A k \in 1 .. Len(list) : more[k] = list[k]
    BY <1>1, <1>2, <2>2
  <2> HIDE DEF more, t, b, list
  <2>4. Entry(table, name) = Fresh(name)
    BY <1>5 DEF Entry
  <2>5. Has(t, name) /\ Entry(t, name) = Fresh(name)
    <3>1. Len(list) + 1 \in 1 .. Len(t[b]) /\ t[b][Len(list) + 1].name = name
      BY <1>3, <2>3
    <3> QED
      BY <1>1, <2>3, <3>1, EntryIs DEF b
  <2>6. ASSUME NEW x \in DOMAIN strlen, x # name
        PROVE  Entry(t, x) = Entry(table, x) /\ (Has(table, x) => Has(t, x))
    <3> DEFINE c == hash_sdbm[x]
    <3>1. c \in Buckets
      BY EntryIs
    <3>2. CASE c # b
      <4>1. t[c] = table[c]
        BY <2>3, <3>1, <3>2
      <4> QED
        BY <4>1 DEF Entry, Has
    <3>3. CASE c = b
      <4>1. CASE Has(table, x)
        <5>1. PICK k \in 1 .. Len(list) : list[k].name = x
          BY <3>3, <4>1, EntryIs DEF list
        <5>2. k \in 1 .. Len(t[b]) /\ t[b][k] = list[k]
          BY <2>3, <5>1
        <5>3. Entry(table, x) = list[k]
          BY <3>3, <5>1, EntryIs DEF list
        <5> QED
          BY <1>1, <3>3, <5>1, <5>2, <5>3, EntryIs
      <4>2. CASE ~ Has(table, x)
        <5>1. \A k \in 1 .. Len(list) : list[k].name # x
          BY <3>3, <4>2, EntryIs DEF list
        <5>2. \A k \in 1 .. Len(t[b]) : t[b][k].name # x
          BY <1>3, <2>3, <2>6, <5>1
        <5>3. Entry(t, x) = Fresh(x)
          BY <1>1, <3>3, <5>2, EntryIs
        <5> QED
          BY <4>2, <5>3 DEF Entry
      <4> QED
        BY <4>1, <4>2
    <3> QED
      BY <3>2, <3>3
  <2>7. Says(table, t)
    BY <1>5, <2>4, <2>5, <2>6 DEF Says
  <2> QED
    BY <1>1, <1>5, <2>5, <2>7 DEF t
<1> QED
  BY <1>4, <1>5

\* An entry that counts and lists more, the others as they are.
MoreSaid(table, u, name, count, refs) ==
  /\ u \in FiledTables(ImportEntry)
  /\ Has(u, name)
  /\ Entry(u, name).RelocCount = Entry(table, name).RelocCount + count
  /\ Entry(u, name).Ref = Entry(table, name).Ref \o refs
  /\ \A x \in DOMAIN strlen :
       /\ x # name => Entry(u, x) = Entry(table, x)
       /\ Has(table, x) => Has(u, x)
  /\ Has(table, name) => SameNames(table, u)

LEMMA WithMoreSays ==
  ASSUME NEW table \in FiledTables(ImportEntry), NEW name \in DOMAIN strlen,
         NEW count \in Nat, NEW refs \in References
  PROVE  MoreSaid(table, WithMore(table, name, count, refs), name, count, refs)
<1> DEFINE b == hash_sdbm[name]
           t == WithImport(table, name)
           u == WithMore(table, name, count, refs)
<1>0. MoreListed(table, u, name, count, refs)
  BY MoreList, Zenon
<1> HIDE DEF u
<1>1. /\ t \in FiledTables(ImportEntry) /\ b \in Buckets
      /\ u \in FiledTables(ImportEntry)
      /\ \A c \in Buckets : c # b => u[c] = t[c]
      /\ Len(u[b]) = Len(t[b])
      /\ \A k \in 1 .. Len(t[b]) :
           /\ u[b][k].name = t[b][k].name
           /\ t[b][k].name # name => u[b][k] = t[b][k]
           /\ t[b][k].name = name =>
                /\ u[b][k].RelocCount = t[b][k].RelocCount + count
                /\ u[b][k].Ref = t[b][k].Ref \o refs
  BY <1>0, Zenon DEF MoreListed
<1>2. /\ Says(table, t) /\ Has(t, name)
      /\ Has(table, name) => t = table
  BY WithImportSays
<1> HIDE DEF b, t
<1>6. /\ Has(u, name)
      /\ Entry(u, name).RelocCount = Entry(t, name).RelocCount + count
      /\ Entry(u, name).Ref = Entry(t, name).Ref \o refs
  <2>1. PICK k \in 1 .. Len(t[b]) : t[b][k].name = name
    BY <1>1, <1>2, EntryIs DEF b
  <2>2. k \in 1 .. Len(u[b]) /\ u[b][k].name = name
    BY <1>1, <2>1
  <2>3. Entry(t, name) = t[b][k]
    BY <1>1, <2>1, EntryIs DEF b
  <2>4. Has(u, name) /\ Entry(u, name) = u[b][k]
    BY <1>1, <2>2, EntryIs DEF b
  <2> QED
    BY <1>1, <2>1, <2>3, <2>4
<1>7. ASSUME NEW x \in DOMAIN strlen, x # name
      PROVE  Entry(u, x) = Entry(t, x) /\ (Has(t, x) => Has(u, x))
  <2> DEFINE c == hash_sdbm[x]
  <2>1. c \in Buckets
    BY EntryIs
  <2>2. CASE c # b
    <3>1. u[c] = t[c]
      BY <1>1, <2>1, <2>2
    <3> QED
      BY <3>1 DEF Entry, Has
  <2>3. CASE c = b
    <3>1. CASE Has(t, x)
      <4>1. PICK k \in 1 .. Len(t[b]) : t[b][k].name = x
        BY <1>1, <2>3, <3>1, EntryIs
      <4>2. k \in 1 .. Len(u[b]) /\ u[b][k] = t[b][k]
        BY <1>1, <1>7, <4>1
      <4>3. Entry(t, x) = t[b][k]
        BY <1>1, <2>3, <4>1, EntryIs
      <4> QED
        BY <1>1, <2>3, <4>1, <4>2, <4>3, EntryIs
    <3>2. CASE ~ Has(t, x)
      <4>1. \A k \in 1 .. Len(t[b]) : t[b][k].name # x
        BY <1>1, <2>3, <3>2, EntryIs
      <4>2. \A k \in 1 .. Len(u[b]) : u[b][k].name # x
        BY <1>1, <4>1
      <4>3. Entry(u, x) = Fresh(x)
        <5>1. hash_sdbm[x] = b /\ u \in FiledTables(ImportEntry)
          BY <1>1, <2>3
        <5> QED
          BY <4>2, <5>1, EntryIs
      <4> QED
        BY <3>2, <4>3 DEF Entry
    <3> QED
      BY <3>1, <3>2
  <2> QED
    BY <2>2, <2>3
<1>8. ASSUME NEW x \in DOMAIN strlen
      PROVE  /\ x # name => Entry(u, x) = Entry(table, x)
             /\ Has(table, x) => Has(u, x)
  BY <1>2, <1>6, <1>7 DEF Says
<1>9. Entry(t, name) = Entry(table, name)
  BY <1>2 DEF Says
<1>10. ASSUME Has(table, name) PROVE SameNames(table, u)
  <2>1. t = table
    BY <1>2, <1>10
  <2>2. ASSUME NEW c \in Buckets
        PROVE  /\ Len(t[c]) = Len(u[c])
               /\ \A k \in 1 .. Len(t[c]) : t[c][k].name = u[c][k].name
    <3>1. CASE c = b
      BY <1>1, <3>1
    <3>2. CASE c # b
      BY <1>1, <3>2
    <3> QED
      BY <3>1, <3>2
  <2> QED
    BY <2>1, <2>2 DEF SameNames
<1>11. MoreSaid(table, u, name, count, refs)
  BY <1>1, <1>6, <1>8, <1>9, <1>10 DEF MoreSaid
<1> QED
  BY <1>11, Zenon DEF u
-----------------------------------------------------------------------------
(* What was reserved is enough: references and words                       *)

\* The words of a list with one more reference: a pair shares one.
LEMMA HeadsMore ==
  ASSUME NEW refs \in References, NEW r \in [type : RelocType, offset : Nat]
  PROVE  LET n == Len(refs)
             more == refs \o <<r>>
         IN /\ Cardinality(Heads(refs)) \in Nat /\ Cardinality(Heads(more)) \in Nat
            /\ Cardinality(Heads(more)) <= Cardinality(Heads(refs)) + 1
            /\ n > 0 /\ PairsWith(refs[n], r) =>
                 Cardinality(Heads(more)) = Cardinality(Heads(refs))
<1> DEFINE n == Len(refs)
           more == refs \o <<r>>
<1>1. /\ n \in Nat /\ DOMAIN refs = 1 .. n
      /\ DOMAIN more = 1 .. n + 1 /\ Len(more) = n + 1
      /\ more[n + 1] = r /\ \A k \in 1 .. n : more[k] = refs[k]
  BY LenProperties DEF References
<1> HIDE DEF more, n
<1>2. ASSUME NEW k \in 1 .. n PROVE k \in Heads(more) <=> k \in Heads(refs)
  <2>1. CASE k = 1
    BY <1>1, <2>1 DEF Heads
  <2>2. CASE k # 1
    <3>1. /\ k - 1 \in 1 .. n /\ (k - 1) + 1 = k /\ k - 1 < n /\ k - 1 < n + 1
      BY <1>1, <2>2
    <3>2. LuiAddi(more, k - 1) <=> LuiAddi(refs, k - 1)
      BY <1>1, <3>1 DEF LuiAddi, n
    <3> QED
      BY <1>1, <2>2, <3>2 DEF Heads
  <2> QED
    BY <2>1, <2>2
<1>3. n + 1 \in Heads(more) <=> n = 0 \/ ~ PairsWith(refs[n], r)
  <2>1. CASE n = 0
    BY <1>1, <2>1 DEF Heads
  <2>2. CASE n # 0
    <3>1. n \in 1 .. n /\ (n + 1) - 1 = n /\ n < n + 1 /\ n + 1 # 1
      BY <1>1, <2>2
    <3>2. LuiAddi(more, n) <=> PairsWith(refs[n], r)
      BY <1>1, <3>1 DEF LuiAddi
    <3> QED
      BY <1>1, <2>2, <3>1, <3>2 DEF Heads
  <2> QED
    BY <2>1, <2>2
<1>4. /\ Heads(refs) \subseteq 1 .. n /\ Heads(more) \subseteq 1 .. n + 1
      /\ n + 1 \notin Heads(refs)
  BY <1>1 DEF Heads
<1>5. /\ IsFiniteSet(Heads(refs)) /\ Cardinality(Heads(refs)) \in Nat
  <2>1. IsFiniteSet(1 .. n)
    BY <1>1, FS_Interval
  <2> QED
    BY <1>4, <2>1, FS_Subset, FS_CardinalityType
<1>6. Heads(more) \in {Heads(refs), Heads(refs) \cup {n + 1}}
  <2>1. CASE n + 1 \in Heads(more)
    <3>1. Heads(more) = Heads(refs) \cup {n + 1}
      BY <1>1, <1>2, <1>4, <2>1
    <3> QED
      BY <3>1
  <2>2. CASE n + 1 \notin Heads(more)
    <3>1. \A k \in 1 .. n + 1 : k \in 1 .. n \/ k = n + 1
      BY <1>1
    <3>2. \A k \in Heads(more) : k \in Heads(refs)
      BY <1>2, <1>4, <2>2, <3>1
    <3>3. \A k \in Heads(refs) : k \in Heads(more)
      BY <1>2, <1>4
    <3>4. Heads(more) = Heads(refs)
      BY <3>2, <3>3
    <3> QED
      BY <3>4
  <2> QED
    BY <2>1, <2>2
<1>7. Cardinality(Heads(refs) \cup {n + 1}) = Cardinality(Heads(refs)) + 1
  BY <1>4, <1>5, FS_AddElement
<1>8. ASSUME n > 0, PairsWith(refs[n], r) PROVE Heads(more) = Heads(refs)
  <2>1. n + 1 \notin Heads(more)
    BY <1>1, <1>3, <1>8
  <2> QED
    BY <1>6, <2>1
<1>9. /\ Cardinality(Heads(more)) \in Nat
      /\ Cardinality(Heads(more)) <= Cardinality(Heads(refs)) + 1
      /\ n > 0 /\ PairsWith(refs[n], r) =>
           Cardinality(Heads(more)) = Cardinality(Heads(refs))
  BY <1>5, <1>6, <1>7, <1>8
<1> QED
  BY <1>5, <1>9, Zenon DEF n, more

\* An empty list has no word, another one has one.
LEMMA HeadsSome ==
  ASSUME NEW refs \in References
  PROVE  /\ Cardinality(Heads(refs)) \in Nat
         /\ refs = << >> => Cardinality(Heads(refs)) = 0
         /\ refs # << >> => Cardinality(Heads(refs)) > 0
<1>1. Len(refs) \in Nat /\ DOMAIN refs = 1 .. Len(refs)
  BY LenProperties DEF References
<1>2. IsFiniteSet(Heads(refs)) /\ Cardinality(Heads(refs)) \in Nat
  <2>1. Heads(refs) \subseteq 1 .. Len(refs)
    BY <1>1 DEF Heads
  <2>2. IsFiniteSet(1 .. Len(refs))
    BY <1>1, FS_Interval
  <2> QED
    BY <2>1, <2>2, FS_Subset, FS_CardinalityType
<1>3. ASSUME refs = << >> PROVE Heads(refs) = {}
  BY <1>3 DEF Heads
<1>4. ASSUME refs # << >> PROVE Heads(refs) # {}
  <2>1. Len(refs) # 0
    BY <1>4, EmptySeq DEF References
  <2>2. 1 \in Heads(refs)
    BY <1>1, <2>1 DEF Heads
  <2> QED
    BY <2>2
<1> QED
  BY <1>2, <1>3, <1>4, FS_EmptySet

\* What a sum goes through.
LEMMA SumRun ==
  ASSUME NEW s \in Seq(Nat)
  PROVE  \E run \in [0 .. Len(s) -> Nat] :
           /\ run[0] = 0
           /\ \A m \in 1 .. Len(s) : run[m] = run[m - 1] + s[m]
           /\ run[Len(s)] = Sum(s)
<1> DEFINE n == Len(s)
           Fold(g) == g = [u \in SUBSET DOMAIN s |->
                             IF u = {} THEN 0 ELSE g[u \ {Max(u)}] + s[Max(u)]]
           h == CHOOSE g : Fold(g)
           F == [k \in 1 .. n |-> [t \in Nat |-> t + s[k]]]
<1>1. n \in Nat /\ DOMAIN s = 1 .. n
  BY LenProperties
<1>2. Sum(s) = h[1 .. n]
  BY <1>1, Zenon DEF Sum, FoldLeft, MapThenFoldSet
<1>3. ASSUME NEW t \in Nat, NEW k \in 1 .. n PROVE t + s[k] \in Nat
  BY <1>1, ElementOfSeq
<1>4. F \in [1 .. n -> [Nat -> Nat]]
  <2> HIDE DEF n
  <2> QED
    BY <1>3
<1>6. \E g : Fold(g)
  <2>1. PICK g \in [SUBSET (1 .. n) -> Nat] : FoldOver(g, n, 0, F)
    <3> HIDE DEF F
    <3>1. 0 \in Nat
      OBVIOUS
    <3> QED
      BY <1>1, <1>4, <3>1, FoldExists, Zenon
  <2>2. ASSUME NEW u \in SUBSET (1 .. n), u # {}
        PROVE  F[Max(u)][g[u \ {Max(u)}]] = g[u \ {Max(u)}] + s[Max(u)]
    <3>1. Max(u) \in 1 .. n
      BY <1>1, <2>2, MaxOf
    <3>2. g[u \ {Max(u)}] \in Nat
      BY <2>1
    <3> QED
      BY <3>1, <3>2, Zenon
  <2>3. g = [u \in SUBSET (1 .. n) |->
               IF u = {} THEN 0 ELSE F[Max(u)][g[u \ {Max(u)}]]]
    BY <2>1 DEF FoldOver
  <2> HIDE DEF F
  <2>4. Fold(g)
    BY <1>1, <2>2, <2>3, Zenon
  <2> QED
    BY <2>4
<1>7. Fold(h)
  BY <1>6, Zenon
<1>8. h[{}] = 0
  BY <1>7
<1>9. ASSUME NEW m \in 1 .. n PROVE h[1 .. m] = h[1 .. m - 1] + s[m]
  <2>1. (1 .. m) \in SUBSET (1 .. n) /\ 1 .. m # {} /\ m \in Nat \ {0}
    <3>1. n \in Nat /\ m \in Nat /\ 1 <= m /\ m <= n
      BY <1>1
    <3> HIDE DEF n, h, F
    <3>2. \A x \in 1 .. m : x \in 1 .. n
      BY <3>1
    <3>3. 1 \in 1 .. m /\ m # 0
      BY <3>1
    <3> QED
      BY <3>1, <3>2, <3>3
  <2>2. h[1 .. m] = h[(1 .. m) \ {Max(1 .. m)}] + s[Max(1 .. m)]
    BY <1>1, <1>7, <2>1, Zenon
  <2> QED
    BY <2>1, <2>2, MaxOfFirst
<1> HIDE DEF h, n
<1>10. \A m \in 0 .. n : h[1 .. m] \in Nat
  <2>1. \A m \in 1 .. n : h[1 .. m - 1] \in Nat => h[1 .. m] \in Nat
    BY <1>3, <1>9
  <2>2. h[{}] \in Nat
    BY <1>8
  <2> QED
    BY <1>1, <2>1, <2>2, FoldStays, Zenon
<1> DEFINE run == [m \in 0 .. n |-> h[1 .. m]]
<1>11. run \in [0 .. n -> Nat]
  BY <1>10
<1>12. run[0] = 0
  <2>1. 1 .. 0 = {} /\ 0 \in 0 .. n
    BY <1>1
  <2> QED
    BY <1>8, <2>1
<1>13. ASSUME NEW m \in 1 .. n PROVE run[m] = run[m - 1] + s[m]
  <2>1. m \in 0 .. n /\ m - 1 \in 0 .. n
    BY <1>1
  <2> QED
    BY <1>9, <2>1
<1>14. run[n] = Sum(s)
  <2>1. n \in 0 .. n
    BY <1>1
  <2> QED
    BY <1>2, <2>1
<1> HIDE DEF run
<1> QED
  BY <1>11, <1>12, <1>13, <1>14, Zenon DEF n

\* The sum of smaller numbers is smaller.
LEMMA SumMono ==
  ASSUME NEW s \in Seq(Nat), NEW t \in Seq(Nat), Len(s) = Len(t),
         \A k \in 1 .. Len(s) : s[k] <= t[k]
  PROVE  Sum(s) \in Nat /\ Sum(t) \in Nat /\ Sum(s) <= Sum(t)
<1>1. PICK f \in [0 .. Len(s) -> Nat] :
        /\ f[0] = 0
        /\ \A m \in 1 .. Len(s) : f[m] = f[m - 1] + s[m]
        /\ f[Len(s)] = Sum(s)
  BY SumRun
<1>2. PICK g \in [0 .. Len(s) -> Nat] :
        /\ g[0] = 0
        /\ \A m \in 1 .. Len(s) : g[m] = g[m - 1] + t[m]
        /\ g[Len(s)] = Sum(t)
  BY SumRun
<1>3. /\ Len(s) \in Nat
      /\ \A k \in 1 .. Len(s) : s[k] \in Nat /\ t[k] \in Nat
  BY LenProperties, ElementOfSeq
<1> DEFINE Bad == {m \in 0 .. Len(s) : ~ (f[m] <= g[m])}
<1>4. Bad = {}
  <2> SUFFICES ASSUME Bad # {} PROVE FALSE
    OBVIOUS
  <2>1. Bad \in SUBSET Nat
    BY <1>3
  <2>2. PICK m \in Bad : \A y \in Bad : m <= y
    BY <2>1, LeastNat
  <2>3. m # 0 /\ m \in 0 .. Len(s)
    BY <1>1, <1>2, <2>2
  <2>4. m \in 1 .. Len(s) /\ m - 1 \in 0 .. Len(s)
    BY <1>3, <2>3
  <2>5. f[m - 1] <= g[m - 1]
    BY <2>2, <2>4
  <2>6. /\ f[m - 1] \in Nat /\ g[m - 1] \in Nat /\ s[m] <= t[m]
        /\ s[m] \in Nat /\ t[m] \in Nat
        /\ f[m] = f[m - 1] + s[m] /\ g[m] = g[m - 1] + t[m]
    BY <1>1, <1>2, <1>3, <2>4
  <2>7. f[m] <= g[m]
    <3>1. ASSUME NEW a \in Nat, NEW b \in Nat, NEW c \in Nat, NEW d \in Nat, a <= b, c <= d
          PROVE  a + c <= b + d
      BY <3>1
    <3>2. f[m - 1] + s[m] <= g[m - 1] + t[m]
      BY <2>5, <2>6, <3>1
    <3> QED
      BY <2>6, <3>2
  <2> QED
    BY <2>2, <2>7
<1>5. Len(s) \in 0 .. Len(s)
  BY <1>3
<1>6. f[Len(s)] <= g[Len(s)]
  BY <1>4, <1>5
<1> QED
  BY <1>1, <1>2, <1>5, <1>6

-----------------------------------------------------------------------------
(* What was reserved is enough: the sizes                                  *)

\* Total and PulpImportSectionsSize for any table.
TotalOf(table, Collect, part) ==
  Sum([b \in 1 .. HASH_IMPORT_E |->
         LET list == table[b - 1]
         IN Sum([k \in DOMAIN list |-> EntrySize(list[k], Collect)[part]])])

SizeOf(table, Collect) ==
  LET n == TotalOf(table, Collect, "n")
      chars == TotalOf(table, Collect, "chars")
      words == TotalOf(table, Collect, "words")
  IN [n |-> n, names |-> Pad4(4 + 4 * n + chars), relocs |-> 4 + 4 * n + 4 * words]

LEMMA SizeIs ==
  \A Collect : PulpImportSectionsSize(Collect) = SizeOf(ImportEntries, Collect)
BY Zenon DEF PulpImportSectionsSize, SizeOf, Total, TotalOf

SizeParts == {"n", "chars", "words"}

\* In the same places u lists, of the same names, no more words than t counts.
Fits(u, t) ==
  /\ SameNames(t, u)
  /\ \A b \in Buckets : \A k \in 1 .. Len(t[b]) :
       Cardinality(Heads(u[b][k].Ref)) <= t[b][k].RelocCount

LEMMA EntryFits ==
  ASSUME NEW e \in ImportEntry, NEW f \in ImportEntry, f.name = e.name,
         Cardinality(Heads(f.Ref)) <= e.RelocCount, NEW part \in SizeParts
  PROVE  /\ EntrySize(f, FALSE)[part] \in Nat
         /\ EntrySize(e, TRUE)[part] \in Nat
         /\ EntrySize(f, FALSE)[part] <= EntrySize(e, TRUE)[part]
<1>1. /\ strlen[e.name] \in Nat /\ e.RelocCount \in Nat
      /\ f.Ref \in References
  BY LinkConstants DEF ImportEntry, References
<1>2. /\ Cardinality(Heads(f.Ref)) \in Nat
      /\ f.Ref = << >> => Cardinality(Heads(f.Ref)) = 0
      /\ f.Ref # << >> => Cardinality(Heads(f.Ref)) > 0
  BY <1>1, HeadsSome
<1>3. f.Ref # << >> => e.RelocCount # 0
  BY <1>1, <1>2
<1>4. EntrySize(f, FALSE) =
        IF f.Ref # << >> THEN [n |-> 1, chars |-> strlen[e.name] + 1,
                               words |-> Cardinality(Heads(f.Ref))]
        ELSE [n |-> 0, chars |-> 0, words |-> 0]
  BY DEF EntrySize
<1>5. EntrySize(e, TRUE) =
        IF e.RelocCount # 0 THEN [n |-> 1, chars |-> strlen[e.name] + 1,
                                  words |-> e.RelocCount]
        ELSE [n |-> 0, chars |-> 0, words |-> 0]
  BY DEF EntrySize
<1> DEFINE v == EntrySize(f, FALSE)
           w == EntrySize(e, TRUE)
<1>6. /\ v.n \in Nat /\ w.n \in Nat /\ v.n <= w.n
      /\ v.chars \in Nat /\ w.chars \in Nat /\ v.chars <= w.chars
      /\ v.words \in Nat /\ w.words \in Nat /\ v.words <= w.words
  <2>1. CASE f.Ref # << >>
    <3>1. /\ v = [n |-> 1, chars |-> strlen[e.name] + 1,
                  words |-> Cardinality(Heads(f.Ref))]
          /\ w = [n |-> 1, chars |-> strlen[e.name] + 1, words |-> e.RelocCount]
      BY <1>3, <1>4, <1>5, <2>1
    <3> HIDE DEF v, w
    <3>2. /\ v.n = 1 /\ w.n = 1 /\ v.chars = strlen[e.name] + 1 /\ w.chars = v.chars
          /\ v.words = Cardinality(Heads(f.Ref)) /\ w.words = e.RelocCount
      BY <3>1
    <3>3. v.words <= w.words
      BY <3>2
    <3>4. v.words \in Nat /\ w.words \in Nat /\ v.chars \in Nat
      BY <1>1, <1>2, <3>2
    <3> QED
      BY <3>2, <3>3, <3>4
  <2>2. CASE f.Ref = << >>
    <3>1. v = [n |-> 0, chars |-> 0, words |-> 0]
      BY <1>4, <2>2
    <3>2. \/ w = [n |-> 0, chars |-> 0, words |-> 0]
          \/ w = [n |-> 1, chars |-> strlen[e.name] + 1, words |-> e.RelocCount]
      BY <1>5
    <3> HIDE DEF v, w
    <3>3. /\ v.n = 0 /\ v.chars = 0 /\ v.words = 0
          /\ w.n \in {0, 1} /\ w.chars \in {0, strlen[e.name] + 1}
          /\ w.words \in {0, e.RelocCount}
      BY <3>1, <3>2
    <3>4. w.n \in Nat /\ w.chars \in Nat /\ w.words \in Nat
      BY <1>1, <3>3
    <3> QED
      BY <3>3, <3>4
  <2> QED
    BY <2>1, <2>2
<1> HIDE DEF v, w
<1>7. /\ part = "n" => v[part] = v.n /\ w[part] = w.n
      /\ part = "chars" => v[part] = v.chars /\ w[part] = w.chars
      /\ part = "words" => v[part] = v.words /\ w[part] = w.words
  OBVIOUS
<1>8. part \in {"n", "chars", "words"}
  BY DEF SizeParts
<1>9. v[part] \in Nat /\ w[part] \in Nat /\ v[part] <= w[part]
  BY <1>6, <1>7, <1>8
<1> QED
  BY <1>9 DEF v, w

LEMMA TotalFits ==
  ASSUME NEW t \in FiledTables(ImportEntry), NEW u \in FiledTables(ImportEntry),
         Fits(u, t), NEW part \in SizeParts
  PROVE  /\ TotalOf(u, FALSE, part) \in Nat /\ TotalOf(t, TRUE, part) \in Nat
         /\ TotalOf(u, FALSE, part) <= TotalOf(t, TRUE, part)
<1> DEFINE of(table, Collect, b) ==
             Sum([k \in DOMAIN table[b - 1] |-> EntrySize(table[b - 1][k], Collect)[part]])
           U == [b \in 1 .. HASH_IMPORT_E |-> of(u, FALSE, b)]
           T == [b \in 1 .. HASH_IMPORT_E |-> of(t, TRUE, b)]
<1>1. HASH_IMPORT_E \in Nat
  BY LinkConstants
<1>2. ASSUME NEW b \in 1 .. HASH_IMPORT_E
      PROVE  /\ of(u, FALSE, b) \in Nat /\ of(t, TRUE, b) \in Nat
             /\ of(u, FALSE, b) <= of(t, TRUE, b)
  <2> DEFINE v == [k \in DOMAIN u[b - 1] |-> EntrySize(u[b - 1][k], FALSE)[part]]
             w == [k \in DOMAIN t[b - 1] |-> EntrySize(t[b - 1][k], TRUE)[part]]
  <2>1. b - 1 \in Buckets
    BY <1>1 DEF Buckets
  <2>2. t[b - 1] \in Seq(ImportEntry) /\ u[b - 1] \in Seq(ImportEntry)
    BY <2>1 DEF FiledTables
  <2>3. /\ Len(u[b - 1]) = Len(t[b - 1]) /\ Len(t[b - 1]) \in Nat
        /\ DOMAIN u[b - 1] = 1 .. Len(t[b - 1])
        /\ DOMAIN t[b - 1] = 1 .. Len(t[b - 1])
    BY <2>1, <2>2, LenProperties DEF Fits, SameNames
  <2>4. ASSUME NEW k \in 1 .. Len(t[b - 1])
        PROVE  /\ EntrySize(u[b - 1][k], FALSE)[part] \in Nat
               /\ EntrySize(t[b - 1][k], TRUE)[part] \in Nat
               /\ EntrySize(u[b - 1][k], FALSE)[part] <= EntrySize(t[b - 1][k], TRUE)[part]
    <3>1. t[b - 1][k] \in ImportEntry /\ u[b - 1][k] \in ImportEntry
      BY <2>2, <2>3, ElementOfSeq
    <3>2. /\ u[b - 1][k].name = t[b - 1][k].name
          /\ Cardinality(Heads(u[b - 1][k].Ref)) <= t[b - 1][k].RelocCount
      BY <2>1 DEF Fits, SameNames
    <3> QED
      BY <3>1, <3>2, EntryFits
  <2>5. /\ v \in Seq(Nat) /\ w \in Seq(Nat) /\ Len(v) = Len(t[b - 1]) /\ Len(w) = Len(v)
        /\ \A k \in 1 .. Len(v) : v[k] <= w[k]
    <3>1. v = [k \in 1 .. Len(t[b - 1]) |-> EntrySize(u[b - 1][k], FALSE)[part]]
      BY <2>3
    <3>2. w = [k \in 1 .. Len(t[b - 1]) |-> EntrySize(t[b - 1][k], TRUE)[part]]
      BY <2>3
    <3>3. /\ v \in [1 .. Len(t[b - 1]) -> Nat] /\ w \in [1 .. Len(t[b - 1]) -> Nat]
          /\ \A k \in 1 .. Len(t[b - 1]) : v[k] <= w[k]
      BY <2>4, <3>1, <3>2
    <3> HIDE DEF v, w
    <3>4. /\ v \in Seq(Nat) /\ w \in Seq(Nat)
          /\ Len(v) = Len(t[b - 1]) /\ Len(w) = Len(t[b - 1])
      BY <2>3, <3>3, FunIsSeq
    <3> QED
      BY <3>3, <3>4
  <2> HIDE DEF v, w
  <2>6. Sum(v) \in Nat /\ Sum(w) \in Nat /\ Sum(v) <= Sum(w)
    BY <2>5, SumMono
  <2> QED
    BY <2>6 DEF v, w
<1> HIDE DEF of
<1>3. /\ U \in Seq(Nat) /\ T \in Seq(Nat) /\ Len(U) = HASH_IMPORT_E /\ Len(T) = Len(U)
      /\ \A b \in 1 .. Len(U) : U[b] <= T[b]
  <2>1. /\ U \in [1 .. HASH_IMPORT_E -> Nat] /\ T \in [1 .. HASH_IMPORT_E -> Nat]
        /\ \A b \in 1 .. HASH_IMPORT_E : U[b] <= T[b]
    BY <1>2
  <2> HIDE DEF U, T
  <2>2. /\ U \in Seq(Nat) /\ T \in Seq(Nat)
        /\ Len(U) = HASH_IMPORT_E /\ Len(T) = HASH_IMPORT_E
    BY <1>1, <2>1, FunIsSeq
  <2> QED
    BY <2>1, <2>2
<1>4. TotalOf(u, FALSE, part) = Sum(U) /\ TotalOf(t, TRUE, part) = Sum(T)
  BY Zenon DEF TotalOf, of
<1> HIDE DEF U, T
<1> QED
  BY <1>3, <1>4, SumMono

\* What fits takes no more room.
LEMMA SizesFit ==
  ASSUME NEW t \in FiledTables(ImportEntry), NEW u \in FiledTables(ImportEntry),
         Fits(u, t)
  PROVE  LET v == SizeOf(u, FALSE)
             w == SizeOf(t, TRUE)
         IN /\ v.names \in Nat /\ v.relocs \in Nat /\ w.names \in Nat /\ w.relocs \in Nat
            /\ v.names <= w.names /\ v.relocs <= w.relocs
<1> DEFINE v(part) == TotalOf(u, FALSE, part)
           w(part) == TotalOf(t, TRUE, part)
<1>1. \A part \in SizeParts : v(part) \in Nat /\ w(part) \in Nat /\ v(part) <= w(part)
  BY TotalFits
<1>2. "n" \in SizeParts /\ "chars" \in SizeParts /\ "words" \in SizeParts
  BY DEF SizeParts
<1> HIDE DEF v, w
<1>3. ASSUME NEW a \in Nat, NEW b \in Nat, a <= b
      PROVE  Pad4(a) \in Nat /\ Pad4(b) \in Nat /\ Pad4(a) <= Pad4(b)
  BY <1>3 DEF Pad4
<1>4. /\ 4 + 4 * v("n") + v("chars") \in Nat /\ 4 + 4 * w("n") + w("chars") \in Nat
      /\ 4 + 4 * v("n") + v("chars") <= 4 + 4 * w("n") + w("chars")
      /\ 4 + 4 * v("n") + 4 * v("words") \in Nat
      /\ 4 + 4 * w("n") + 4 * w("words") \in Nat
      /\ 4 + 4 * v("n") + 4 * v("words") <= 4 + 4 * w("n") + 4 * w("words")
  BY <1>1, <1>2
<1>5. /\ SizeOf(u, FALSE).names = Pad4(4 + 4 * v("n") + v("chars"))
      /\ SizeOf(u, FALSE).relocs = 4 + 4 * v("n") + 4 * v("words")
      /\ SizeOf(t, TRUE).names = Pad4(4 + 4 * w("n") + w("chars"))
      /\ SizeOf(t, TRUE).relocs = 4 + 4 * w("n") + 4 * w("words")
  BY DEF SizeOf, v, w
<1> QED
  BY <1>3, <1>4, <1>5

-----------------------------------------------------------------------------
(* What was reserved is enough: what is collected                          *)

\* Relocation k, as the assembler wrote it, refers to an import, of this name.
ImportOf(ob, k) ==
  LET s == ob.syms[ob.relocs[k].sym] IN s.global /\ s.weak /\ s.import
NameOf(ob, k) == ob.syms[ob.relocs[k].sym].name

\* It is the second of a pair, and is not counted.
Continues(ob, k) ==
  \E l \in 1 .. k - 1 :
    /\ ImportOf(ob, l) /\ \A j \in l + 1 .. k - 1 : ~ ImportOf(ob, j)
    /\ PairsWith(ob.relocs[l], ob.relocs[k])

CountedTo(ob, name, m) ==
  {k \in 1 .. m : ImportOf(ob, k) /\ NameOf(ob, k) = name /\ ~ Continues(ob, k)}

\* What the table says of the first m relocations.
CollectedTo(ob, t, m) ==
  /\ \A x \in DOMAIN strlen :
       /\ Entry(t, x).RelocCount = Cardinality(CountedTo(ob, x, m))
       /\ Entry(t, x).Ref = << >>
  /\ \A k \in 1 .. m : ImportOf(ob, k) => Has(t, NameOf(ob, k))

\* One more relocation: it is counted, or not.
LEMMA CountedMore ==
  ASSUME NEW ob, NEW x, NEW m \in Nat \ {0}
  PROVE  LET C == CountedTo(ob, x, m - 1)
             D == CountedTo(ob, x, m)
             more == ImportOf(ob, m) /\ NameOf(ob, m) = x /\ ~ Continues(ob, m)
         IN /\ Cardinality(C) \in Nat /\ Cardinality(D) \in Nat
            /\ more => Cardinality(D) = Cardinality(C) + 1
            /\ ~ more => D = C
<1> DEFINE C == CountedTo(ob, x, m - 1)
           D == CountedTo(ob, x, m)
           more == ImportOf(ob, m) /\ NameOf(ob, m) = x /\ ~ Continues(ob, m)
<1>1. C \subseteq 1 .. m - 1 /\ m \notin C
  BY DEF CountedTo
<1>2. D = IF more THEN C \cup {m} ELSE C
  <2>1. \A k : k \in 1 .. m <=> k \in 1 .. m - 1 \/ k = m
    OBVIOUS
  <2> QED
    BY <2>1 DEF CountedTo
<1> HIDE DEF C, D, more
<1>3. IsFiniteSet(C) /\ Cardinality(C) \in Nat
  <2>1. m - 1 \in Int /\ 1 \in Int
    OBVIOUS
  <2>2. IsFiniteSet(1 .. m - 1)
    BY <2>1, FS_Interval
  <2> QED
    BY <1>1, <2>2, FS_Subset, FS_CardinalityType
<1>4. Cardinality(C \cup {m}) = Cardinality(C) + 1
  BY <1>1, <1>3, FS_AddElement
<1> QED
  BY <1>2, <1>3, <1>4 DEF C, D, more

LEMMA CountedNone ==
  ASSUME NEW ob, NEW x PROVE Cardinality(CountedTo(ob, x, 0)) = 0
<1>1. CountedTo(ob, x, 0) = {}
  BY DEF CountedTo
<1> QED
  BY <1>1, FS_EmptySet

\* The relocation before the pair is the one the code remembers.
LEMMA LastRelPairs ==
  ASSUME relocs = obj.relocs, syms = obj.syms, NEW k \in Nat \ {0}
  PROVE  PairsWith(LastRel(k), relocs[k]) <=> Continues(obj, k)
<1>1. \A l : Imports(relocs[l]) <=> ImportOf(obj, l)
  BY DEF Imports, ImportOf
<1>2. CASE Before(k) = {}
  <2>1. ~ PairsWith(LastRel(k), relocs[k])
    BY <1>2 DEF LastRel, PairsWith
  <2>2. ~ Continues(obj, k)
    BY <1>1, <1>2 DEF Continues, Before
  <2> QED
    BY <2>1, <2>2
<1>3. CASE Before(k) # {}
  <2> DEFINE l == Max(Before(k))
  <2>1. Before(k) \in SUBSET (1 .. k - 1) /\ k - 1 \in Nat
    BY DEF Before
  <2>2. l \in Before(k) /\ \A y \in Before(k) : y <= l
    BY <1>3, <2>1, MaxOf
  <2> HIDE DEF l
  <2>3. LastRel(k) = relocs[l]
    BY <1>3 DEF LastRel, l
  <2>4. l \in 1 .. k - 1 /\ ImportOf(obj, l)
    BY <1>1, <2>2 DEF Before
  <2>5. ASSUME NEW j \in l + 1 .. k - 1 PROVE ~ ImportOf(obj, j)
    <3>1. j \in 1 .. k - 1 /\ ~ (j <= l)
      BY <2>4
    <3> QED
      BY <1>1, <2>2, <3>1 DEF Before
  <2>6. ASSUME NEW j \in 1 .. k - 1, ImportOf(obj, j),
               \A q \in j + 1 .. k - 1 : ~ ImportOf(obj, q)
        PROVE  j = l
    <3>1. j \in Before(k) /\ j <= l
      BY <1>1, <2>2, <2>6 DEF Before
    <3>2. l \notin j + 1 .. k - 1
      BY <2>4, <2>6
    <3> QED
      BY <2>4, <3>1, <3>2
  <2>7. PairsWith(relocs[l], relocs[k]) => Continues(obj, k)
    BY <2>4, <2>5, Zenon DEF Continues
  <2>8. Continues(obj, k) => PairsWith(relocs[l], relocs[k])
    BY <2>6, Zenon DEF Continues
  <2> QED
    BY <2>3, <2>7, <2>8
<1> QED
  BY <1>2, <1>3

LEMMA CollectMore ==
  ASSUME SectionTypes, relocs = obj.relocs, syms = obj.syms,
         NEW t \in FiledTables(ImportEntry), NEW m \in 1 .. Len(relocs),
         CollectedTo(obj, t, m - 1)
  PROVE  CollectedTo(obj, Collected(t, m), m)
<1>1. /\ Len(relocs) \in Nat /\ m \in Nat \ {0} /\ m - 1 \in Nat
      /\ Imports(relocs[m]) => RefOf(relocs[m])
      /\ Imports(relocs[m]) <=> ImportOf(obj, m)
      /\ Imported(relocs[m]) = NameOf(obj, m)
  BY ImportsAreRefs DEF Imports, ImportOf, Imported, NameOf
<1>2. \A k \in 1 .. m : k \in 1 .. m - 1 \/ k = m
  BY <1>1
<1>3. CASE ~ Imports(relocs[m])
  <2>1. Collected(t, m) = t
    BY <1>3 DEF Collected
  <2>2. \A x \in DOMAIN strlen : CountedTo(obj, x, m) = CountedTo(obj, x, m - 1)
    BY <1>1, <1>3, CountedMore
  <2> QED
    BY <1>1, <1>2, <1>3, <2>1, <2>2 DEF CollectedTo
<1>4. CASE Imports(relocs[m])
  <2> DEFINE name == NameOf(obj, m)
             count == IF PairsWith(LastRel(m), relocs[m]) THEN 0 ELSE 1
             u == WithMore(t, name, count, << >>)
  <2>1. Collected(t, m) = u
    BY <1>1, <1>4 DEF Collected, CollectEntry
  <2>2. name \in DOMAIN strlen /\ count \in Nat /\ << >> \in References
    BY <1>1, <1>4 DEF RefOf, References
  <2>3. count = IF Continues(obj, m) THEN 0 ELSE 1
    BY <1>1, LastRelPairs
  <2>4. /\ Has(u, name)
        /\ Entry(u, name).RelocCount = Entry(t, name).RelocCount + count
        /\ Entry(u, name).Ref = Entry(t, name).Ref \o << >>
        /\ \A x \in DOMAIN strlen :
             /\ x # name => Entry(u, x) = Entry(t, x)
             /\ Has(t, x) => Has(u, x)
    <3>1. u = WithMore(t, name, count, << >>)
      OBVIOUS
    <3> HIDE DEF name, count, u
    <3>2. MoreSaid(t, WithMore(t, name, count, << >>), name, count, << >>)
      BY <2>2, WithMoreSays, Zenon
    <3> QED
      BY <3>1, <3>2, Zenon DEF MoreSaid
  <2> HIDE DEF name, count, u
  <2>5. ASSUME NEW x \in DOMAIN strlen
        PROVE  /\ Entry(u, x).RelocCount = Cardinality(CountedTo(obj, x, m))
               /\ Entry(u, x).Ref = << >>
    <3>1. /\ Entry(t, x).RelocCount = Cardinality(CountedTo(obj, x, m - 1))
          /\ Entry(t, x).Ref = << >>
      BY DEF CollectedTo
    <3>2. CASE x # name
      <4>1. CountedTo(obj, x, m) = CountedTo(obj, x, m - 1)
        BY <1>1, <3>2, CountedMore DEF name
      <4> QED
        BY <2>4, <3>1, <3>2, <4>1
    <3>3. CASE x = name
      <4>1. Cardinality(CountedTo(obj, x, m)) = Cardinality(CountedTo(obj, x, m - 1)) + count
        BY <1>1, <1>4, <2>3, <3>3, CountedMore DEF name
      <4>2. << >> \o << >> = << >>
        OBVIOUS
      <4> QED
        BY <2>4, <3>1, <3>3, <4>1, <4>2
    <3> QED
      BY <3>2, <3>3
  <2>6. ASSUME NEW k \in 1 .. m, ImportOf(obj, k) PROVE Has(u, NameOf(obj, k))
    <3>1. CASE k = m
      BY <2>4, <3>1 DEF name
    <3>2. CASE k \in 1 .. m - 1
      <4>1. Has(t, NameOf(obj, k))
        BY <2>6, <3>2 DEF CollectedTo
      <4>2. NameOf(obj, k) \in DOMAIN strlen
        <5>1. k \in 1 .. Len(relocs) /\ Imports(relocs[k])
          BY <1>1, <2>6, <3>2 DEF Imports, ImportOf
        <5>2. RefOf(relocs[k])
          BY <5>1, ImportsAreRefs
        <5> QED
          BY <5>2 DEF RefOf, Imported, NameOf
      <4> QED
        BY <2>4, <4>1, <4>2
    <3> QED
      BY <1>2, <3>1, <3>2
  <2> QED
    BY <2>1, <2>5, <2>6 DEF CollectedTo
<1> QED
  BY <1>3, <1>4

\* check_relocs counts every reference, but the second of a pair.
LEMMA CollectsAll ==
  ASSUME SectionTypes, relocs = obj.relocs, syms = obj.syms
  PROVE  CollectedTo(obj, FoldLeftDomain(Collected, NoEntries, relocs), Len(obj.relocs))
<1>1. /\ relocs \in Seq(Reloc) /\ Len(relocs) \in Nat
      /\ \A k \in 1 .. Len(relocs) : Imports(relocs[k]) => RefOf(relocs[k])
  BY ImportsAreRefs
<1>2. PICK run \in [0 .. Len(relocs) -> FiledTables(ImportEntry)] :
        /\ run[0] = NoEntries
        /\ \A m \in 1 .. Len(relocs) : run[m] = Collected(run[m - 1], m)
        /\ run[Len(relocs)] = FoldLeftDomain(Collected, NoEntries, relocs)
  BY <1>1, CollectedRun
<1> DEFINE Bad == {m \in 0 .. Len(relocs) : ~ CollectedTo(obj, run[m], m)}
<1>3. CollectedTo(obj, NoEntries, 0)
  <2>1. ASSUME NEW x \in DOMAIN strlen
        PROVE  /\ Entry(NoEntries, x).RelocCount = 0
               /\ Entry(NoEntries, x).Ref = << >>
    <3>1. NoEntries \in FiledTables(ImportEntry)
      BY NoEntriesFiled
    <3>2. NoEntries[hash_sdbm[x]] = << >>
      BY <3>1, EntryIs DEF NoEntries
    <3>3. Entry(NoEntries, x) = Fresh(x)
      BY <3>1, <3>2, EntryIs
    <3> QED
      BY <3>3 DEF Fresh
  <2>2. \A k \in 1 .. 0 : FALSE
    OBVIOUS
  <2> QED
    BY <2>1, <2>2, CountedNone DEF CollectedTo
<1>4. Bad = {}
  <2> SUFFICES ASSUME Bad # {} PROVE FALSE
    OBVIOUS
  <2>1. Bad \in SUBSET Nat
    BY <1>1
  <2>2. PICK m \in Bad : \A y \in Bad : m <= y
    BY <2>1, LeastNat
  <2>3. m # 0 /\ m \in 0 .. Len(relocs)
    BY <1>2, <1>3, <2>2
  <2>4. m \in 1 .. Len(relocs) /\ m - 1 \in 0 .. Len(relocs) /\ ~ (m <= m - 1)
    BY <1>1, <2>3
  <2>5. CollectedTo(obj, run[m - 1], m - 1)
    BY <2>2, <2>4
  <2>6. run[m - 1] \in FiledTables(ImportEntry) /\ run[m] = Collected(run[m - 1], m)
    BY <1>2, <2>4
  <2>7. CollectedTo(obj, run[m], m)
    BY <2>4, <2>5, <2>6, CollectMore
  <2> QED
    BY <2>2, <2>7
<1>5. Len(relocs) \in 0 .. Len(relocs)
  BY <1>1
<1>6. CollectedTo(obj, run[Len(relocs)], Len(relocs))
  BY <1>4, <1>5
<1> QED
  BY <1>2, <1>6

-----------------------------------------------------------------------------
(* What was reserved is enough: what is listed                             *)

\* What is listed was collected: relocation k still refers to its import,
\* and what is a pair still is one, of one name.
Steady ==
  /\ \A k \in 1 .. Len(relocs) :
       Imports(relocs[k]) => relocs[k].sym = obj.relocs[k].sym
  /\ \A k \in 1 .. Len(relocs), l \in 1 .. Len(relocs) :
       /\ ImportOf(obj, k) /\ Imports(relocs[l])
       /\ PairsWith(obj.relocs[k], obj.relocs[l])
       => /\ Imports(relocs[k]) /\ relocs[k].sym = relocs[l].sym
          /\ PairsWith(relocs[k], relocs[l])

\* What the table u says of the first m relocations, listed into table t.
ListedTo(t, u, m) ==
  /\ SameNames(t, u)
  /\ \A x \in DOMAIN strlen :
       /\ Has(t, x) => Has(u, x)
       /\ Cardinality(Heads(Entry(u, x).Ref)) <= Cardinality(CountedTo(obj, x, m))
  /\ \A k \in 1 .. m :
       Imports(relocs[k]) /\ (\A j \in k + 1 .. m : ~ Imports(relocs[j])) =>
         LET refs == Entry(u, Imported(relocs[k])).Ref
         IN Len(refs) > 0 /\ refs[Len(refs)] = RefRecord(relocs[k])

LEMMA SameNamesOn ==
  ASSUME NEW t, NEW u, NEW v, SameNames(t, u), SameNames(u, v)
  PROVE  SameNames(t, v)
BY DEF SameNames

LEMMA PairsRecord ==
  ASSUME NEW r \in Reloc, NEW q \in Reloc, PairsWith(r, q)
  PROVE  PairsWith(RefRecord(r), RefRecord(q))
<1>1. r.offset \in Nat /\ q.offset \in Nat /\ output_offset \in Nat
  BY LinkConstants DEF Reloc
<1>2. /\ RefRecord(r).type = r.type /\ RefRecord(q).type = q.type
      /\ RefRecord(r).offset = r.offset + output_offset
      /\ RefRecord(q).offset = q.offset + output_offset
  BY DEF RefRecord
<1> QED
  BY <1>1, <1>2 DEF PairsWith

\* A relocation that is listed was collected.
LEMMA ListedImport ==
  ASSUME SectionTypes, Steady, NEW k \in 1 .. Len(relocs), Imports(relocs[k])
  PROVE  /\ ImportOf(obj, k) /\ Imported(relocs[k]) = NameOf(obj, k)
         /\ NameOf(obj, k) \in DOMAIN strlen
<1>1. relocs[k].sym = obj.relocs[k].sym /\ relocs[k].sym \in 1 .. Len(syms)
  BY DEF Steady, SectionTypes, RefsIn
<1>2. ImportOf(obj, k) /\ Imported(relocs[k]) = NameOf(obj, k)
  BY <1>1 DEF SectionTypes, NamesStay, Imports, Imported, ImportOf, NameOf
<1>3. RefOf(relocs[k])
  BY ImportsAreRefs
<1> QED
  BY <1>2, <1>3 DEF RefOf

LEMMA ListMore ==
  ASSUME SectionTypes, Steady, NEW t \in FiledTables(ImportEntry),
         CollectedTo(obj, t, Len(relocs)),
         NEW u \in FiledTables(ImportEntry), NEW m \in 1 .. Len(relocs),
         ListedTo(t, u, m - 1)
  PROVE  ListedTo(t, Listed(u, relocs[m]), m)
<1>1. /\ Len(relocs) \in Nat /\ m \in Nat \ {0} /\ m - 1 \in Nat
      /\ \A k \in 1 .. Len(relocs) : relocs[k] \in Reloc
      /\ \A k \in 1 .. m : k \in 1 .. m - 1 \/ k = m
      /\ \A k \in 1 .. m : k \in 1 .. Len(relocs)
      /\ m \in 1 .. m
  BY ImportsAreRefs, ElementOfSeq
<1>2. ASSUME NEW x \in DOMAIN strlen
      PROVE  /\ Cardinality(CountedTo(obj, x, m - 1)) \in Nat
             /\ Cardinality(CountedTo(obj, x, m)) \in Nat
             /\ Cardinality(CountedTo(obj, x, m - 1)) <= Cardinality(CountedTo(obj, x, m))
  <2>1. /\ Cardinality(CountedTo(obj, x, m - 1)) \in Nat
        /\ \/ Cardinality(CountedTo(obj, x, m)) = Cardinality(CountedTo(obj, x, m - 1)) + 1
           \/ Cardinality(CountedTo(obj, x, m)) = Cardinality(CountedTo(obj, x, m - 1))
    BY <1>1, CountedMore
  <2> QED
    BY <2>1
<1>3. \A x \in DOMAIN strlen :
        /\ Entry(u, x).Ref \in References
        /\ Cardinality(Heads(Entry(u, x).Ref)) \in Nat
  <2>1. ASSUME NEW x \in DOMAIN strlen PROVE Entry(u, x).Ref \in References
    <3>1. Entry(u, x) \in ImportEntry
      BY EntryIs
    <3> QED
      BY <3>1 DEF ImportEntry, References
  <2> QED
    BY <2>1, HeadsSome
<1>4. CASE ~ Imports(relocs[m])
  <2>1. Listed(u, relocs[m]) = u
    BY <1>4 DEF Listed
  <2>2. \A x \in DOMAIN strlen :
          Cardinality(Heads(Entry(u, x).Ref)) <= Cardinality(CountedTo(obj, x, m))
    BY <1>2, <1>3 DEF ListedTo
  <2>3. ASSUME NEW k \in 1 .. m, Imports(relocs[k]), \A j \in k + 1 .. m : ~ Imports(relocs[j])
        PROVE  LET refs == Entry(u, Imported(relocs[k])).Ref
               IN Len(refs) > 0 /\ refs[Len(refs)] = RefRecord(relocs[k])
    <3>1. k \in 1 .. m - 1
      BY <1>1, <1>4, <2>3
    <3>2. \A j \in k + 1 .. m - 1 : ~ Imports(relocs[j])
      BY <1>1, <2>3
    <3> QED
      BY <2>3, <3>1, <3>2 DEF ListedTo
  <2> QED
    BY <2>1, <2>2, <2>3 DEF ListedTo
<1>5. CASE Imports(relocs[m])
  <2> DEFINE name == NameOf(obj, m)
             ref == RefRecord(relocs[m])
             v == WithMore(u, name, 0, <<ref>>)
             refs == Entry(u, name).Ref
  <2>1. ImportOf(obj, m) /\ Imported(relocs[m]) = name /\ name \in DOMAIN strlen
    BY <1>5, ListedImport
  <2>2. RefOf(relocs[m])
    BY <1>5, ImportsAreRefs
  <2>3. Listed(u, relocs[m]) = v /\ <<ref>> \in References
    BY <1>5, <2>1, <2>2, ListEntryFiled DEF Listed
  <2>4. ref \in [type : RelocType, offset : Nat]
    BY <2>2, LinkConstants DEF RefOf, Reloc, RefRecord
  <2> HIDE DEF ref
  <2>5. Has(t, name) /\ Has(u, name)
    <3>1. Has(t, name)
      BY <2>1 DEF CollectedTo
    <3> QED
      BY <2>1, <3>1 DEF ListedTo
  <2>6. /\ Entry(v, name).Ref = refs \o <<ref>>
        /\ \A x \in DOMAIN strlen :
             /\ x # name => Entry(v, x) = Entry(u, x)
             /\ Has(u, x) => Has(v, x)
        /\ SameNames(u, v)
    <3>1. 0 \in Nat
      OBVIOUS
    <3>2. v = WithMore(u, name, 0, <<ref>>)
      OBVIOUS
    <3> HIDE DEF name, v
    <3>3. MoreSaid(u, WithMore(u, name, 0, <<ref>>), name, 0, <<ref>>)
      BY <2>1, <2>3, <3>1, WithMoreSays, Zenon
    <3> QED
      BY <2>5, <3>2, <3>3, Zenon DEF MoreSaid
  <2> HIDE DEF name, v
  <2>7. SameNames(t, v)
    BY <2>6, SameNamesOn DEF ListedTo
  <2>8. refs \in References
    BY <1>3, <2>1
  <2> HIDE DEF refs
  <2>9. /\ Cardinality(Heads(refs)) \in Nat /\ Cardinality(Heads(refs \o <<ref>>)) \in Nat
        /\ Cardinality(Heads(refs \o <<ref>>)) <= Cardinality(Heads(refs)) + 1
        /\ Len(refs) > 0 /\ PairsWith(refs[Len(refs)], ref) =>
             Cardinality(Heads(refs \o <<ref>>)) = Cardinality(Heads(refs))
    BY <2>4, <2>8, HeadsMore
  <2>10. Cardinality(Heads(refs)) <= Cardinality(CountedTo(obj, name, m - 1))
    BY <2>1 DEF ListedTo, refs
  <2>11. Cardinality(Heads(refs \o <<ref>>)) <= Cardinality(CountedTo(obj, name, m))
    <3>1. CASE ~ Continues(obj, m)
      <4>1. /\ Cardinality(CountedTo(obj, name, m - 1)) \in Nat
            /\ Cardinality(CountedTo(obj, name, m))
                 = Cardinality(CountedTo(obj, name, m - 1)) + 1
        BY <1>1, <2>1, <3>1, CountedMore DEF name
      <4> QED
        BY <2>9, <2>10, <4>1
    <3>2. CASE Continues(obj, m)
      <4>1. PICK l \in 1 .. m - 1 :
              /\ ImportOf(obj, l) /\ \A j \in l + 1 .. m - 1 : ~ ImportOf(obj, j)
              /\ PairsWith(obj.relocs[l], obj.relocs[m])
        BY <3>2 DEF Continues
      <4>2. l \in 1 .. Len(relocs) /\ \A j \in l + 1 .. m - 1 : j \in 1 .. Len(relocs)
        BY <1>1, <4>1
      <4>3. /\ Imports(relocs[l]) /\ relocs[l].sym = relocs[m].sym
            /\ PairsWith(relocs[l], relocs[m])
        BY <1>5, <4>1, <4>2 DEF Steady
      <4>4. Imported(relocs[l]) = name
        BY <2>1, <4>3 DEF Imported
      <4>5. \A j \in l + 1 .. m - 1 : ~ Imports(relocs[j])
        BY <4>1, <4>2, ListedImport
      <4>6. Len(refs) > 0 /\ refs[Len(refs)] = RefRecord(relocs[l])
        BY <4>3, <4>4, <4>5 DEF ListedTo, refs
      <4>7. PairsWith(refs[Len(refs)], ref)
        BY <1>1, <4>2, <4>3, <4>6, PairsRecord DEF ref
      <4>8. Cardinality(Heads(refs \o <<ref>>)) = Cardinality(Heads(refs))
        BY <2>9, <4>6, <4>7
      <4> QED
        BY <1>2, <2>1, <2>9, <2>10, <4>8
    <3> QED
      BY <3>1, <3>2
  <2>12. ASSUME NEW x \in DOMAIN strlen
         PROVE  /\ Has(t, x) => Has(v, x)
                /\ Cardinality(Heads(Entry(v, x).Ref)) <= Cardinality(CountedTo(obj, x, m))
    <3>1. Has(t, x) => Has(v, x)
      BY <2>6 DEF ListedTo
    <3>2. CASE x = name
      BY <2>6, <2>11, <3>1, <3>2
    <3>3. CASE x # name
      <4>1. Cardinality(Heads(Entry(u, x).Ref)) <= Cardinality(CountedTo(obj, x, m - 1))
        BY DEF ListedTo
      <4>2. Entry(v, x) = Entry(u, x)
        BY <2>6, <3>3
      <4> QED
        BY <1>2, <1>3, <3>1, <4>1, <4>2
    <3> QED
      BY <3>2, <3>3
  <2>13. ASSUME NEW k \in 1 .. m, Imports(relocs[k]), \A j \in k + 1 .. m : ~ Imports(relocs[j])
         PROVE  LET more == Entry(v, Imported(relocs[k])).Ref
                IN Len(more) > 0 /\ more[Len(more)] = RefRecord(relocs[k])
    <3>1. k = m
      <4>1. k < m => m \in k + 1 .. m
        BY <1>1
      <4> QED
        BY <1>1, <1>5, <2>13, <4>1
    <3>2. Entry(v, Imported(relocs[k])).Ref = refs \o <<ref>>
      BY <2>1, <2>6, <3>1
    <3>3. Len(refs \o <<ref>>) = Len(refs) + 1 /\ Len(refs) \in Nat
          /\ (refs \o <<ref>>)[Len(refs) + 1] = ref
      BY <2>4, <2>8 DEF References
    <3> QED
      BY <3>1, <3>2, <3>3 DEF ref
  <2> QED
    BY <2>3, <2>7, <2>12, <2>13 DEF ListedTo
<1> QED
  BY <1>4, <1>5

\* relocate_section lists no more words than were counted.
LEMMA ListsFit ==
  ASSUME SectionTypes, Steady, NEW t \in FiledTables(ImportEntry),
         CollectedTo(obj, t, Len(obj.relocs))
  PROVE  Fits(FoldLeft(Listed, t, relocs), t)
<1>1. /\ relocs \in Seq(Reloc) /\ Len(relocs) \in Nat /\ Len(obj.relocs) = Len(relocs)
      /\ \A k \in 1 .. Len(relocs) : Imports(relocs[k]) => RefOf(relocs[k])
  BY ImportsAreRefs DEF SectionTypes, LinkInv, Shaped
<1>2. PICK run \in [0 .. Len(relocs) -> FiledTables(ImportEntry)] :
        /\ run[0] = t
        /\ \A m \in 1 .. Len(relocs) : run[m] = Listed(run[m - 1], relocs[m])
        /\ run[Len(relocs)] = FoldLeft(Listed, t, relocs)
  BY <1>1, ListedRun
<1> DEFINE Bad == {m \in 0 .. Len(relocs) : ~ ListedTo(t, run[m], m)}
<1>3. ListedTo(t, t, 0)
  <2>1. ASSUME NEW x \in DOMAIN strlen
        PROVE  Cardinality(Heads(Entry(t, x).Ref)) <= Cardinality(CountedTo(obj, x, 0))
    <3>1. Entry(t, x).Ref = << >> /\ << >> \in References
      BY DEF CollectedTo, References
    <3>2. Cardinality(Heads(Entry(t, x).Ref)) = 0
      BY <3>1, HeadsSome
    <3> QED
      BY <3>2, CountedNone
  <2>2. \A k \in 1 .. 0 : FALSE
    OBVIOUS
  <2>3. SameNames(t, t)
    BY DEF SameNames
  <2> QED
    BY <2>1, <2>2, <2>3 DEF ListedTo
<1>4. Bad = {}
  <2> SUFFICES ASSUME Bad # {} PROVE FALSE
    OBVIOUS
  <2>1. Bad \in SUBSET Nat
    BY <1>1
  <2>2. PICK m \in Bad : \A y \in Bad : m <= y
    BY <2>1, LeastNat
  <2>3. m # 0 /\ m \in 0 .. Len(relocs)
    BY <1>2, <1>3, <2>2
  <2>4. m \in 1 .. Len(relocs) /\ m - 1 \in 0 .. Len(relocs) /\ ~ (m <= m - 1)
    BY <1>1, <2>3
  <2>5. ListedTo(t, run[m - 1], m - 1)
    BY <2>2, <2>4
  <2>6. /\ run[m - 1] \in FiledTables(ImportEntry)
        /\ run[m] = Listed(run[m - 1], relocs[m])
    BY <1>2, <2>4
  <2>7. ListedTo(t, run[m], m)
    BY <1>1, <2>4, <2>5, <2>6, ListMore
  <2> QED
    BY <2>2, <2>7
<1> DEFINE u == FoldLeft(Listed, t, relocs)
<1>5. ListedTo(t, u, Len(relocs)) /\ u \in FiledTables(ImportEntry)
  <2>1. Len(relocs) \in 0 .. Len(relocs)
    BY <1>1
  <2>2. ListedTo(t, run[Len(relocs)], Len(relocs))
    BY <1>4, <2>1
  <2> QED
    BY <1>2, <2>1, <2>2
<1> HIDE DEF u
<1>6. ASSUME NEW b \in Buckets, NEW k \in 1 .. Len(t[b])
      PROVE  Cardinality(Heads(u[b][k].Ref)) <= t[b][k].RelocCount
  <2> DEFINE x == t[b][k].name
  <2>1. t[b] \in Seq(ImportEntry) /\ u[b] \in Seq(ImportEntry)
    BY <1>5 DEF FiledTables
  <2>2. t[b][k] \in ImportEntry
    BY <2>1, ElementOfSeq
  <2>3. x \in DOMAIN strlen /\ hash_sdbm[x] = b
    BY <2>2 DEF ImportEntry, FiledTables, Filed
  <2>4. k \in 1 .. Len(u[b]) /\ u[b][k].name = x
    BY <1>5 DEF ListedTo, SameNames
  <2> HIDE DEF x
  <2>5. Entry(t, x) = t[b][k]
    <3>1. t[b][k].name = x
      BY DEF x
    <3> QED
      BY <2>3, <3>1, EntryIs
  <2>6. Entry(u, x) = u[b][k]
    BY <1>5, <2>3, <2>4, EntryIs
  <2>7. Cardinality(Heads(Entry(u, x).Ref)) <= Cardinality(CountedTo(obj, x, Len(relocs)))
    BY <1>5, <2>3 DEF ListedTo
  <2>8. Entry(t, x).RelocCount = Cardinality(CountedTo(obj, x, Len(relocs)))
    BY <1>1, <2>3 DEF CollectedTo
  <2> QED
    BY <2>5, <2>6, <2>7, <2>8
<1> QED
  BY <1>5, <1>6 DEF Fits, ListedTo, u

-----------------------------------------------------------------------------
(* What was reserved is enough: references to imports                      *)

\* Symbol s is an import.
ImportSym(ob, s) == ob.syms[s].global /\ ob.syms[s].weak /\ ob.syms[s].import

\* What relaxing leaves of the references to imports.  A part of an address
\* stays as it is.  A reference that came to its import later stands behind
\* the AUIPC that became a LUI.
KeepsImport(ob, rs, k) ==
  ImportOf(ob, k) /\ ob.relocs[k].type \in LuiTypes =>
    rs[k].type = ob.relocs[k].type /\ rs[k].sym = ob.relocs[k].sym
LaterImport(ob, rs, k) ==
  ImportSym(ob, rs[k].sym) /\ rs[k].sym # ob.relocs[k].sym =>
    /\ k > 1 /\ rs[k].type # "RELAX"
    /\ ob.relocs[k - 1].type = "PCREL_HI20" /\ rs[k - 1].type = "HI20"
    /\ ImportSym(ob, rs[k - 1].sym)
FirstPcrel(ob, rs, k) ==
  k < Len(rs) /\ rs[k].type = "PCREL_HI20" /\ rs[k + 1].type = "RELAX" =>
    ob.relocs[k].type = "PCREL_HI20"
ImportRefs(ob, rs) ==
  \A k \in 1 .. Len(rs) :
    KeepsImport(ob, rs, k) /\ LaterImport(ob, rs, k) /\ FirstPcrel(ob, rs, k)

\* What a step makes of the relocation the loop is at and of the
\* R_RISCV_RELAX behind it.
RewritesHere(r) ==
  /\ r \in Reloc /\ r.type # "RELAX"
  /\ r.sym \in {rel.sym, 1}
  /\ rel.type \in LuiTypes /\ Is_Import => r = rel
RewritesNext(r, next) ==
  /\ next \in Reloc
  /\ \/ next = relocs[i + 1]
     \/ /\ next.type \notin {"RELAX", "PCREL_HI20"}
        /\ \/ next.sym = relocs[i + 1].sym
           \/ /\ rel.type = "PCREL_HI20" /\ r.type = "HI20"
              /\ next.sym = rel.sym /\ r.sym = rel.sym
  /\ r.type = "PCREL_HI20" => rel.type = "PCREL_HI20" \/ next.type # "RELAX"
Rewrites(rs) ==
  /\ DOMAIN rs = 1 .. Len(relocs)
  /\ \A l \in 1 .. Len(relocs) : l \notin {i, i + 1} => rs[l] = relocs[l]
  /\ RewritesHere(rs[i])
  /\ i + 1 \in 1 .. Len(relocs) => RewritesNext(rs[i], rs[i + 1])

\* One relocation gets a new type, or is dropped.
LEMMA RetypeRewrites ==
  ASSUME LinkInv, i \in 1 .. Len(relocs),
         NEW u \in RelocType \ {"RELAX", "PCREL_HI20"},
         ~ (rel.type \in LuiTypes /\ Is_Import)
  PROVE  Rewrites(Retyped(u)) /\ Rewrites(Dropped)
<1>1. /\ relocs \in Seq(Reloc) /\ rel \in Reloc
      /\ \A l \in 1 .. Len(relocs) : relocs[l] \in Reloc
      /\ i \in Nat /\ i + 1 # i
  <2>1. relocs \in Seq(Reloc) /\ i \in Nat
    BY DEF LinkInv, Shaped
  <2> QED
    BY <2>1, ElementOfSeq DEF rel
<1>2. ASSUME NEW rs, NEW r \in Reloc, DOMAIN rs = 1 .. Len(relocs),
             \A l \in 1 .. Len(relocs) : rs[l] = IF l = i THEN r ELSE relocs[l],
             r.type \notin {"RELAX", "PCREL_HI20"}, r.sym \in {rel.sym, 1}
      PROVE  Rewrites(rs)
  <2>1. rs[i] = r
    BY <1>2
  <2>2. RewritesHere(r)
    BY <1>2 DEF RewritesHere
  <2>3. ASSUME i + 1 \in 1 .. Len(relocs) PROVE RewritesNext(r, rs[i + 1])
    <3>1. rs[i + 1] = relocs[i + 1] /\ relocs[i + 1] \in Reloc
      BY <1>1, <1>2, <2>3
    <3> QED
      BY <1>2, <3>1 DEF RewritesNext
  <2> QED
    BY <1>2, <2>1, <2>2, <2>3 DEF Rewrites
<1>3. Rewrites(Retyped(u))
  <2>1. LET v == [rel EXCEPT !.type = u] IN v \in Reloc /\ v.type = u /\ v.sym = rel.sym
    BY <1>1, RetypedReloc
  <2> QED
    BY <1>1, <1>2, <2>1, RetypedIs
<1>4. Rewrites(Dropped)
  <2> DEFINE v == [rel EXCEPT !.type = "NONE", !.sym = 1]
  <2>1. v \in Reloc /\ v.type = "NONE" /\ v.sym = 1
    BY <1>1 DEF Reloc, RelocType
  <2>2. /\ DOMAIN Dropped = 1 .. Len(relocs)
        /\ \A l \in 1 .. Len(relocs) : Dropped[l] = IF l = i THEN v ELSE relocs[l]
    BY <1>1, DroppedIs
  <2> HIDE DEF v
  <2> QED
    BY <1>2, <2>1, <2>2
<1> QED
  BY <1>3, <1>4

\* A step that leaves the relocations as they are.
LEMMA StayRewrites ==
  ASSUME LinkInv, i \in 1 .. Len(relocs), rel.type # "RELAX"
  PROVE  Rewrites(relocs)
<1>1. /\ relocs \in Seq(Reloc) /\ \A l \in 1 .. Len(relocs) : relocs[l] \in Reloc
      /\ DOMAIN relocs = 1 .. Len(relocs)
  <2>1. relocs \in Seq(Reloc)
    BY DEF LinkInv, Shaped
  <2> QED
    BY <2>1, LenProperties, ElementOfSeq
<1>2. RewritesHere(relocs[i])
  BY <1>1 DEF RewritesHere, rel
<1>3. i + 1 \in 1 .. Len(relocs) => RewritesNext(relocs[i], relocs[i + 1])
  BY <1>1 DEF RewritesNext, rel
<1> QED
  BY <1>1, <1>2, <1>3 DEF Rewrites

\* A relocation and the R_RISCV_RELAX behind it become a pair.
LEMMA PairRewrites ==
  ASSUME i \in 1 .. Len(relocs), i < Len(relocs), rel.type \notin LuiTypes,
         NEW u, NEW v, u # "RELAX", v \notin {"RELAX", "PCREL_HI20"},
         u = "HI20" => rel.type = "PCREL_HI20",
         NEW rs, PairOf(rs, u, v)
  PROVE  Rewrites(rs)
<1>1. RewritesHere(rs[i])
  BY DEF RewritesHere, PairOf
<1>2. RewritesNext(rs[i], rs[i + 1])
  BY DEF RewritesNext, PairOf
<1> QED
  BY <1>1, <1>2 DEF Rewrites, PairOf

\* So does every relaxation.
LEMMA RefRewrites ==
  ASSUME LinkInv, RelaxRef
  PROVE  /\ i \in 1 .. Len(relocs) /\ i < Len(relocs) /\ relocs[i + 1].type = "RELAX"
         /\ \E rs : Rewrites(rs) /\ MovedBy(rs)
<1>1. /\ i < Len(relocs) /\ i <= Len(relocs) /\ relocs[i + 1].type = "RELAX"
      /\ rel.type \in Shortened
  BY Zenon DEF RelaxRef, Considered, Paired, InLoop
<1>2. i \in 1 .. Len(relocs)
  BY <1>1, AtLoop
<1>3. rel.type # "RELAX"
  BY <1>1 DEF Shortened, LuiTypes, TlsTypes, PcrelTypes
<1>4. Rewrites(relocs)
  BY <1>2, <1>3, StayRewrites
<1>5. ASSUME NEW rs, Rewrites(rs), Leave(rs) \/ \E addr, count : Shorten(rs, addr, count)
      PROVE  \E rt : Rewrites(rt) /\ MovedBy(rt)
  BY <1>5 DEF Leave, Shorten, MovedBy
<1>6. ASSUME ~ (rel.type \in LuiTypes /\ Is_Import)
      PROVE  /\ Rewrites(Dropped)
             /\ \A u \in {"GPREL_I", "GPREL_S", "RVC_LUI", "TPREL_I", "TPREL_S", "LO12_I",
                          "RVC_JUMP", "JAL"} : Rewrites(Retyped(u))
  <2>1. ASSUME NEW u \in {"GPREL_I", "GPREL_S", "RVC_LUI", "TPREL_I", "TPREL_S",
                          "LO12_I", "RVC_JUMP", "JAL"}
        PROVE  u \in RelocType \ {"RELAX", "PCREL_HI20"}
    BY DEF RelocType, AsmTypes, LuiTypes
  <2> QED
    BY <1>2, <1>6, <2>1, RetypeRewrites
<1>7. CASE _bfd_riscv_relax_call
  <2>1. rel.type \notin LuiTypes
    BY <1>7 DEF _bfd_riscv_relax_call, LuiTypes
  <2>2. Jump.type \in {"RVC_JUMP", "JAL", "LO12_I"}
    BY DEF Jump
  <2>3. Rewrites(Retyped(Jump.type))
    BY <1>6, <2>1, <2>2
  <2> QED
    BY <1>1, <1>2, <1>4, <1>5, <1>7, <2>3 DEF _bfd_riscv_relax_call
<1>8. CASE _bfd_riscv_relax_lui
  <2>1. CASE Is_Import
    <3>1. Leave(relocs)
      BY <1>8, <2>1, Zenon DEF _bfd_riscv_relax_lui
    <3> QED
      BY <1>1, <1>2, <1>4, <1>5, <3>1
  <2>2. CASE ~ Is_Import
    <3>1. \/ Leave(relocs) \/ Leave(Retyped("GPREL_I")) \/ Leave(Retyped("GPREL_S"))
          \/ Shorten(Dropped, rel.offset, 4)
          \/ Shorten(Retyped("RVC_LUI"), rel.offset + 2, 2)
      BY <1>8, Zenon DEF _bfd_riscv_relax_lui
    <3> QED
      BY <1>1, <1>2, <1>4, <1>5, <1>6, <2>2, <3>1
  <2> QED
    BY <2>1, <2>2
<1>9. CASE _bfd_riscv_relax_tls_le
  <2>1. rel.type \notin LuiTypes
    BY <1>9 DEF _bfd_riscv_relax_tls_le, LuiTypes, TlsTypes
  <2>2. \/ Leave(relocs) \/ Leave(Retyped("TPREL_I")) \/ Leave(Retyped("TPREL_S"))
        \/ Shorten(Dropped, rel.offset, 4)
    BY <1>9, Zenon DEF _bfd_riscv_relax_tls_le
  <2> QED
    BY <1>1, <1>2, <1>4, <1>5, <1>6, <2>1, <2>2
<1>10. CASE _bfd_riscv_relax_import_pcrel
  <2>1. \/ rel.type = "PCREL_LO12_I" /\ Leave(Retyped("LO12_I"))
        \/ rel.type = "PCREL_HI20" /\ Leave(AbsolutePair)
        \/ UNCHANGED <<secVars, sec_flg0>>
    BY <1>10 DEF _bfd_riscv_relax_import_pcrel, PcrelTypes, AbsolutePair
  <2>2. rel.type \notin LuiTypes
    BY <1>10 DEF _bfd_riscv_relax_import_pcrel, PcrelTypes, LuiTypes
  <2>3. rel.type = "PCREL_HI20" => Rewrites(AbsolutePair)
    BY <1>1, <1>2, <2>2, PairIs, PairRewrites DEF LinkInv, Shaped
  <2>4. CASE UNCHANGED <<secVars, sec_flg0>>
    BY <1>1, <1>2, <1>4, <2>4 DEF MovedBy, secVars
  <2> QED
    BY <1>1, <1>2, <1>5, <1>6, <2>1, <2>2, <2>3, <2>4
<1>11. CASE _bfd_riscv_relax_got_ref
  <2>1. rel.type = "GOT_HI20" /\ Leave(GotPair)
    BY <1>11 DEF _bfd_riscv_relax_got_ref, GotPair
  <2>2. rel.type \notin LuiTypes
    BY <2>1 DEF LuiTypes
  <2>3. Rewrites(GotPair)
    BY <1>1, <1>2, <2>2, PairIs, PairRewrites DEF LinkInv, Shaped
  <2> QED
    BY <1>1, <1>2, <1>5, <2>1, <2>3
<1>12. \E rs : Rewrites(rs) /\ MovedBy(rs)
  BY <1>7, <1>8, <1>9, <1>10, <1>11, Zenon DEF RelaxRef
<1> QED
  BY <1>1, <1>2, <1>12

LEMMA AlignRewrites ==
  ASSUME LinkInv, RelaxAlign
  PROVE  /\ i \in 1 .. Len(relocs) /\ rel.type = "ALIGN"
         /\ \E rs : /\ Rewrites(rs) /\ MovedBy(rs)
                    /\ i + 1 \in 1 .. Len(relocs) => rs[i + 1] = relocs[i + 1]
<1>1. /\ i <= Len(relocs) /\ rel.type = "ALIGN" /\ _bfd_riscv_relax_align
  BY DEF RelaxAlign, InLoop, Considered
<1>2. i \in 1 .. Len(relocs) /\ relocs \in Seq(Reloc)
  BY <1>1, AtLoop
<1>3. Rewrites(relocs) /\ Rewrites(Dropped)
  <2>1. "NONE" \in RelocType \ {"RELAX", "PCREL_HI20"}
    BY DEF RelocType
  <2>2. rel.type \notin LuiTypes /\ rel.type # "RELAX"
    BY <1>1 DEF LuiTypes
  <2> QED
    BY <1>2, <2>1, <2>2, StayRewrites, RetypeRewrites
<1>4. i + 1 \in 1 .. Len(relocs) => Dropped[i + 1] = relocs[i + 1]
  <2>1. i \in Nat /\ i + 1 # i
    BY <1>2
  <2> QED
    BY <1>2, <2>1, DroppedIs
<1>5. \/ UNCHANGED secVars
      \/ relocs' = Dropped /\ UNCHANGED <<contents, syms>>
      \/ \E addr, count : riscv_relax_delete_bytes(Dropped, addr, count)
  BY <1>1, Zenon DEF _bfd_riscv_relax_align
<1> HIDE DEF Dropped
<1>6. \E rs : /\ Rewrites(rs) /\ MovedBy(rs)
              /\ i + 1 \in 1 .. Len(relocs) => rs[i + 1] = relocs[i + 1]
  BY <1>3, <1>4, <1>5 DEF MovedBy, secVars
<1> QED
  BY <1>1, <1>2, <1>6

-----------------------------------------------------------------------------
(* What was reserved is enough: references to imports, every step          *)

\* Types and symbols of the relocations are those of rs.
LEMMA MovedFields ==
  ASSUME LinkInv, LinkInv', obj' = obj, NEW rs, Rewrites(rs), MovedBy(rs),
         i \in 1 .. Len(relocs)
  PROVE  /\ Len(relocs') = Len(relocs)
         /\ \A l \in 1 .. Len(relocs) :
              relocs'[l].type = rs[l].type /\ relocs'[l].sym = rs[l].sym
<1>1. /\ Len(relocs') = Len(relocs) /\ relocs \in Seq(Reloc)
      /\ i \in Nat /\ Len(relocs) \in Nat
  BY LenProperties DEF LinkInv, Shaped
<1>2. ASSUME NEW l \in 1 .. Len(relocs) PROVE rs[l] \in Reloc
  <2>1. CASE l = i
    BY <2>1 DEF Rewrites, RewritesHere
  <2>2. CASE l = i + 1
    BY <2>2 DEF Rewrites, RewritesNext
  <2>3. CASE l \notin {i, i + 1}
    <3>1. rs[l] = relocs[l]
      BY <2>3 DEF Rewrites
    <3> QED
      BY <1>1, <3>1, ElementOfSeq
  <2> QED
    BY <2>1, <2>2, <2>3
<1>3. CASE relocs' = rs /\ syms' = syms
  BY <1>1, <1>3
<1>4. CASE \E addr, count : riscv_relax_delete_bytes(rs, addr, count)
  <2>1. PICK addr, count : riscv_relax_delete_bytes(rs, addr, count)
    BY <1>4
  <2>2. \A l \in 1 .. Len(relocs) :
          relocs'[l] = MovedReloc(rs[l], addr, count, Len(contents))
    BY <2>1 DEF riscv_relax_delete_bytes, Rewrites
  <2> QED
    BY <1>1, <1>2, <2>2, MovedRelocFields
<1> QED
  BY <1>3, <1>4 DEF MovedBy

\* A relaxation keeps what is known of the references to imports: at its
\* place, behind it, and elsewhere.
RelaxedHere ==
  \/ rel.type = "ALIGN"
  \/ i + 1 \in 1 .. Len(relocs) /\ relocs[i + 1].type = "RELAX"

LEMMA ImportsKept ==
  ASSUME SectionTypes, ImportRefs(obj, relocs), i \in 1 .. Len(relocs), RelaxedHere,
         NEW rs, Rewrites(rs),
         rel.type = "ALIGN" =>
           (i + 1 \in 1 .. Len(relocs) => rs[i + 1] = relocs[i + 1]),
         NEW ts, Len(ts) = Len(relocs),
         \A l \in 1 .. Len(relocs) : ts[l].type = rs[l].type /\ ts[l].sym = rs[l].sym
  PROVE  ImportRefs(obj, ts)
<1>1. /\ i \in Nat /\ Len(relocs) \in Nat /\ relocs \in Seq(Reloc)
      /\ Len(relocs) = Len(obj.relocs) /\ Len(syms) = Len(obj.syms)
      /\ \A l \in 1 .. Len(relocs) : relocs[l] \in Reloc
  <2>1. /\ relocs \in Seq(Reloc) /\ i \in Nat
        /\ Len(relocs) = Len(obj.relocs) /\ Len(syms) = Len(obj.syms)
    BY DEF SectionTypes, LinkInv, Shaped
  <2> QED
    BY <2>1, LenProperties, ElementOfSeq
<1>2. ~ ImportSym(obj, 1)
  BY DEF SectionTypes, LinkInv, Shaped, WellFormed, ImportSym
<1>3. \A l \in 1 .. Len(relocs) : l \notin {i, i + 1} => rs[l] = relocs[l]
  BY DEF Rewrites
<1>4. /\ rs[i].type # "RELAX" /\ rs[i].sym \in {rel.sym, 1}
      /\ rel.type \in LuiTypes /\ Is_Import => rs[i] = rel
  BY DEF Rewrites, RewritesHere
<1>5. i + 1 \in 1 .. Len(relocs) =>
        /\ \/ rs[i + 1] = relocs[i + 1]
           \/ /\ rs[i + 1].type \notin {"RELAX", "PCREL_HI20"}
              /\ \/ rs[i + 1].sym = relocs[i + 1].sym
                 \/ /\ rel.type = "PCREL_HI20" /\ rs[i].type = "HI20"
                    /\ rs[i + 1].sym = rel.sym /\ rs[i].sym = rel.sym
        /\ rs[i].type = "PCREL_HI20" =>
             rel.type = "PCREL_HI20" \/ rs[i + 1].type # "RELAX"
  BY DEF Rewrites, RewritesNext
<1>6. /\ rel = relocs[i]
      /\ i + 1 \in 1 .. Len(relocs) =>
           \/ rs[i + 1] = relocs[i + 1]
           \/ rel.type # "ALIGN" /\ relocs[i + 1].type = "RELAX"
      /\ rel.type = "ALIGN" \/ (i + 1 \in 1 .. Len(relocs) /\ relocs[i + 1].type = "RELAX")
  BY DEF RelaxedHere, rel
<1>7. SUFFICES ASSUME NEW k \in 1 .. Len(relocs)
               PROVE  KeepsImport(obj, ts, k) /\ LaterImport(obj, ts, k) /\ FirstPcrel(obj, ts, k)
  BY DEF ImportRefs
<1>8. /\ KeepsImport(obj, relocs, k) /\ LaterImport(obj, relocs, k)
      /\ FirstPcrel(obj, relocs, k)
  BY DEF ImportRefs
<1>9. KeepsImport(obj, ts, k)
  <2> SUFFICES ASSUME ImportOf(obj, k), obj.relocs[k].type \in LuiTypes
               PROVE  rs[k].type = obj.relocs[k].type /\ rs[k].sym = obj.relocs[k].sym
    BY DEF KeepsImport
  <2>1. relocs[k].type = obj.relocs[k].type /\ relocs[k].sym = obj.relocs[k].sym
    BY <1>8 DEF KeepsImport
  <2>2. relocs[k].type \notin {"RELAX", "ALIGN"}
    BY <2>1 DEF LuiTypes
  <2>3. CASE k = i
    <3>1. Is_Import
      <4>1. relocs[k].sym \in 1 .. Len(syms)
        BY DEF SectionTypes, RefsIn
      <4>2. syms[relocs[k].sym].global /\ syms[relocs[k].sym].weak
        BY <1>1, <2>1, <4>1 DEF SectionTypes, NamesStay, ImportOf
      <4> QED
        BY <1>6, <2>3, <4>2 DEF Is_Import, sym
    <3> QED
      BY <1>4, <1>6, <2>1, <2>3, <3>1
  <2>4. CASE k = i + 1
    BY <1>6, <2>1, <2>2, <2>4
  <2>5. CASE k \notin {i, i + 1}
    BY <1>3, <2>1, <2>5
  <2> QED
    BY <2>3, <2>4, <2>5
<1>10. LaterImport(obj, ts, k)
  <2> SUFFICES ASSUME ImportSym(obj, rs[k].sym), rs[k].sym # obj.relocs[k].sym
               PROVE  /\ k > 1 /\ rs[k].type # "RELAX"
                      /\ obj.relocs[k - 1].type = "PCREL_HI20"
                      /\ rs[k - 1].type = "HI20" /\ ImportSym(obj, rs[k - 1].sym)
    <3>1. k > 1 => k - 1 \in 1 .. Len(relocs)
      BY <1>1
    <3> QED
      BY <3>1 DEF LaterImport
  <2>1. CASE rs[k].sym = relocs[k].sym
    <3>1. /\ k > 1 /\ relocs[k].type # "RELAX"
          /\ obj.relocs[k - 1].type = "PCREL_HI20"
          /\ relocs[k - 1].type = "HI20" /\ ImportSym(obj, relocs[k - 1].sym)
      BY <1>8, <2>1 DEF LaterImport
    <3>2. k - 1 \in 1 .. Len(relocs) /\ (k - 1) + 1 = k
      BY <1>1, <3>1
    <3>3. k - 1 # i
      BY <1>6, <3>1, <3>2
    <3>4. rs[k - 1] = relocs[k - 1]
      <4>1. CASE k - 1 = i + 1
        BY <3>1, <3>2, <1>6, <4>1
      <4>2. CASE k - 1 # i + 1
        BY <1>3, <3>2, <3>3, <4>2
      <4> QED
        BY <4>1, <4>2
    <3>5. rs[k].type # "RELAX"
      <4>1. CASE k = i
        BY <1>4, <4>1
      <4>2. CASE k = i + 1
        BY <1>6, <3>1, <4>2
      <4>3. CASE k \notin {i, i + 1}
        BY <1>3, <3>1, <4>3
      <4> QED
        BY <4>1, <4>2, <4>3
    <3> QED
      BY <3>1, <3>4, <3>5
  <2>2. CASE rs[k].sym # relocs[k].sym
    <3>1. CASE k = i
      BY <1>2, <1>4, <1>6, <2>2, <3>1
    <3>2. CASE k = i + 1
      <4>1. /\ rs[k].type # "RELAX" /\ rel.type = "PCREL_HI20" /\ rs[i].type = "HI20"
            /\ rs[k].sym = rel.sym /\ rs[i].sym = rel.sym
            /\ relocs[i + 1].type = "RELAX"
        BY <1>5, <1>6, <2>2, <3>2
      <4>2. FirstPcrel(obj, relocs, i)
        BY DEF ImportRefs
      <4>3. obj.relocs[i].type = "PCREL_HI20"
        BY <1>1, <1>6, <3>2, <4>1, <4>2 DEF FirstPcrel
      <4>4. k - 1 = i /\ k > 1
        BY <1>1, <3>2
      <4> QED
        BY <4>1, <4>3, <4>4
    <3>3. CASE k \notin {i, i + 1}
      BY <1>3, <2>2, <3>3
    <3> QED
      BY <3>1, <3>2, <3>3
  <2> QED
    BY <2>1, <2>2
<1>11. FirstPcrel(obj, ts, k)
  <2> SUFFICES ASSUME k < Len(relocs), rs[k].type = "PCREL_HI20", rs[k + 1].type = "RELAX"
               PROVE  obj.relocs[k].type = "PCREL_HI20"
    <3>1. k < Len(relocs) => k + 1 \in 1 .. Len(relocs)
      BY <1>1
    <3> QED
      BY <3>1 DEF FirstPcrel
  <2>1. k + 1 \in 1 .. Len(relocs) /\ k + 1 # i
    <3>1. k + 1 \in 1 .. Len(relocs)
      BY <1>1
    <3> QED
      BY <1>4, <3>1
  <2>2. rs[k + 1] = relocs[k + 1]
    <3>1. CASE k + 1 = i + 1
      BY <1>5, <2>1, <3>1
    <3>2. CASE k + 1 # i + 1
      BY <1>3, <2>1, <3>2
    <3> QED
      BY <3>1, <3>2
  <2>3. relocs[k].type = "PCREL_HI20"
    <3>1. CASE k = i
      BY <1>5, <1>6, <2>1, <3>1
    <3>2. CASE k = i + 1
      BY <1>5, <1>6, <3>2
    <3>3. CASE k \notin {i, i + 1}
      BY <1>3, <3>3
    <3> QED
      BY <3>1, <3>2, <3>3
  <2> QED
    BY <1>8, <2>2, <2>3 DEF FirstPcrel
<1> QED
  BY <1>9, <1>10, <1>11

LEMMA RefKeepsImports ==
  ASSUME SectionTypes, LinkInv', ImportRefs(obj, relocs), RelaxRef \/ RelaxAlign
  PROVE  ImportRefs(obj, relocs')
<1>1. LinkInv /\ obj' = obj
  BY DEF SectionTypes, RelaxRef, RelaxAlign
<1>2. /\ i \in 1 .. Len(relocs) /\ RelaxedHere
      /\ \E rs : /\ Rewrites(rs) /\ MovedBy(rs)
                 /\ rel.type = "ALIGN" =>
                      (i + 1 \in 1 .. Len(relocs) => rs[i + 1] = relocs[i + 1])
  <2>1. CASE RelaxRef
    <3>1. /\ i \in 1 .. Len(relocs) /\ i < Len(relocs) /\ relocs[i + 1].type = "RELAX"
          /\ \E rs : Rewrites(rs) /\ MovedBy(rs)
      BY <1>1, <2>1, RefRewrites
    <3>2. i + 1 \in 1 .. Len(relocs)
      <4>1. Len(relocs) \in Nat
        BY <1>1, LenProperties DEF LinkInv, Shaped
      <4> QED
        BY <3>1, <4>1
    <3>3. rel.type # "ALIGN"
      <4>1. rel.type \in Shortened
        BY <2>1, Zenon DEF RelaxRef, Considered
      <4> QED
        BY <4>1 DEF Shortened, LuiTypes, TlsTypes, PcrelTypes
    <3> QED
      BY <3>1, <3>2, <3>3 DEF RelaxedHere
  <2>2. CASE RelaxAlign
    <3>1. /\ i \in 1 .. Len(relocs) /\ rel.type = "ALIGN"
          /\ \E rs : /\ Rewrites(rs) /\ MovedBy(rs)
                     /\ i + 1 \in 1 .. Len(relocs) => rs[i + 1] = relocs[i + 1]
      BY <1>1, <2>2, AlignRewrites
    <3> QED
      BY <3>1 DEF RelaxedHere
  <2> QED
    BY <2>1, <2>2
<1>3. PICK rs : /\ Rewrites(rs) /\ MovedBy(rs)
                /\ rel.type = "ALIGN" =>
                     (i + 1 \in 1 .. Len(relocs) => rs[i + 1] = relocs[i + 1])
  BY <1>2
<1>4. /\ Len(relocs') = Len(relocs)
      /\ \A l \in 1 .. Len(relocs) :
           relocs'[l].type = rs[l].type /\ relocs'[l].sym = rs[l].sym
  BY <1>1, <1>2, <1>3, MovedFields
<1> QED
  BY <1>2, <1>3, <1>4, ImportsKept

\* What the assembler wrote.
LEMMA InitImports ==
  ASSUME relocs = obj.relocs, \A k \in 1 .. Len(relocs) : relocs[k] \in Reloc
  PROVE  ImportRefs(obj, relocs)
BY DEF ImportRefs, KeepsImport, LaterImport, FirstPcrel

\* A LUI and the ADDI behind it stay one behind the other.
LEMMA PairStays ==
  ASSUME LinkInv, NEW k \in 1 .. Len(relocs), NEW l \in 1 .. Len(relocs),
         PairsWith(obj.relocs[k], obj.relocs[l]),
         relocs[k].type = "HI20", relocs[l].type = "LO12_I"
  PROVE  relocs[l].offset = relocs[k].offset + 4
<1> DEFINE q == relocs[k].offset
           p == relocs[l].offset
           x == obj.relocs[k].offset
<1>1. CodeKept
  BY LinkInvCodeKept
<1>2. /\ relocs \in Seq(Reloc) /\ contents \in Seq(Nat) /\ obj \in Object
      /\ Len(relocs) = Len(obj.relocs)
  BY DEF LinkInv, Shaped
<1>3. /\ DOMAIN relocs = 1 .. Len(relocs) /\ q \in Nat /\ p \in Nat
      /\ Len(contents) \in Nat
      /\ \A j \in 1 .. Len(contents) : contents[j] \in Nat
  <2>1. relocs[k] \in Reloc /\ relocs[l] \in Reloc
    BY <1>2, ElementOfSeq
  <2>2. q \in Nat /\ p \in Nat
    BY <2>1 DEF Reloc
  <2> QED
    BY <1>2, <2>2, LenProperties, ElementOfSeq
<1>4. /\ x \in Nat /\ obj.relocs[l].offset = x + 4
      /\ obj.relocs[k].type = "HI20" /\ obj.relocs[l].type = "LO12_I"
  <2>1. obj.relocs \in Seq(Reloc)
    BY <1>2 DEF Object
  <2>2. obj.relocs[k] \in Reloc /\ obj.relocs[l] \in Reloc
    BY <1>2, <2>1, ElementOfSeq
  <2>3. x \in Nat /\ obj.relocs[l].offset \in Nat
    BY <2>2 DEF Reloc
  <2> QED
    BY <2>3 DEF PairsWith
<1>5. KeptLen(k) = 4 /\ KeptLen(l) = 4
  BY <1>4 DEF KeptLen, Footprint
<1>6. Intact(k) /\ Intact(l) /\ InOrderLeft
      /\ (Left(x + 4) => At(p, x + 4))
  BY <1>1, <1>3, <1>4 DEF CodeKept
<1> HIDE DEF q, p, x
<1>7. q + 4 <= Len(contents) /\ contents[q + 4] = x + 3
  <2>1. \A j \in q + 1 .. q + 4 : j <= Len(contents) /\ contents[j] = x + (j - q - 1)
    BY <1>5, <1>6 DEF Intact, q, x
  <2>2. q + 4 \in q + 1 .. q + 4 /\ (q + 4) - q - 1 = 3
    BY <1>3
  <2> QED
    BY <2>1, <2>2
<1>8. p + 1 \in 1 .. Len(contents) /\ contents[p + 1] = x + 4
  <2>1. \A j \in p + 1 .. p + 4 :
          j <= Len(contents) /\ contents[j] = x + 4 + (j - p - 1)
    BY <1>4, <1>5, <1>6 DEF Intact, p
  <2>2. p + 1 \in p + 1 .. p + 4 /\ (p + 1) - p - 1 = 0
    BY <1>3
  <2> QED
    BY <1>3, <1>4, <2>1, <2>2
<1>9. At(p, x + 4)
  BY <1>6, <1>8 DEF Left
<1>10. q + 4 <= p
  <2>1. q + 4 \in 1 .. Len(contents) /\ contents[q + 4] < x + 4
    BY <1>3, <1>4, <1>7
  <2> QED
    BY <1>9, <2>1 DEF At
<1>11. ~ (q + 4 < p)
  <2> SUFFICES ASSUME q + 4 < p PROVE FALSE
    OBVIOUS
  <2>1. /\ q + 4 \in 1 .. Len(contents) /\ q + 5 \in 1 .. Len(contents)
        /\ q + 4 < q + 5 /\ q + 5 < p + 1
    BY <1>3, <1>7, <1>8
  <2>2. contents[q + 4] < contents[q + 5] /\ contents[q + 5] < contents[p + 1]
    BY <1>6, <1>8, <2>1 DEF InOrderLeft
  <2> QED
    BY <1>3, <1>4, <1>7, <1>8, <2>1, <2>2
<1> QED
  BY <1>3, <1>10, <1>11 DEF q, p

\* What is listed was collected, if the section is a regular one.
LEMMA RegularSteady ==
  ASSUME SectionTypes, ImportRefs(obj, relocs), Regular
  PROVE  Steady
<1>1. /\ relocs \in Seq(Reloc) /\ DOMAIN relocs = 1 .. Len(relocs)
      /\ Len(relocs) \in Nat /\ Len(syms) = Len(obj.syms) /\ LinkInv
  BY LenProperties DEF SectionTypes, LinkInv, Shaped
<1>2. ASSUME NEW k \in 1 .. Len(relocs)
      PROVE  /\ relocs[k].sym \in 1 .. Len(syms)
             /\ Imports(relocs[k]) <=> ImportSym(obj, relocs[k].sym)
  <2>1. relocs[k].sym \in 1 .. Len(syms)
    BY DEF SectionTypes, RefsIn
  <2> QED
    BY <2>1 DEF SectionTypes, NamesStay, Imports, ImportSym
<1>3. ASSUME NEW k \in 1 .. Len(relocs), Imports(relocs[k])
      PROVE  relocs[k].sym = obj.relocs[k].sym
  <2> SUFFICES ASSUME relocs[k].sym # obj.relocs[k].sym PROVE FALSE
    OBVIOUS
  <2>1. /\ k > 1 /\ obj.relocs[k - 1].type = "PCREL_HI20"
        /\ ImportSym(obj, relocs[k - 1].sym)
    BY <1>2, <1>3 DEF ImportRefs, LaterImport
  <2>2. k - 1 \in 1 .. Len(relocs)
    BY <2>1
  <2>3. Imports(relocs[k - 1])
    BY <1>2, <2>1, <2>2
  <2> QED
    BY <1>1, <2>1, <2>2, <2>3 DEF Regular, PcrelTypes
<1>4. ASSUME NEW k \in 1 .. Len(relocs), NEW l \in 1 .. Len(relocs),
             ImportOf(obj, k), Imports(relocs[l]), PairsWith(obj.relocs[k], obj.relocs[l])
      PROVE  /\ Imports(relocs[k]) /\ relocs[k].sym = relocs[l].sym
             /\ PairsWith(relocs[k], relocs[l])
  <2>1. obj.relocs[k].type = "HI20" /\ obj.relocs[l].type = "LO12_I"
    BY <1>4 DEF PairsWith
  <2>2. relocs[k].type = "HI20" /\ relocs[k].sym = obj.relocs[k].sym
    BY <1>4, <2>1 DEF ImportRefs, KeepsImport, LuiTypes
  <2>3. Imports(relocs[k])
    BY <1>2, <1>4, <2>2 DEF ImportOf, ImportSym
  <2>4. relocs[k].sym = relocs[l].sym
    BY <1>1, <1>4, <2>3 DEF Regular
  <2>5. ImportOf(obj, l)
    BY <1>2, <1>3, <1>4 DEF ImportOf, ImportSym
  <2>6. relocs[l].type = "LO12_I"
    BY <2>1, <2>5 DEF ImportRefs, KeepsImport, LuiTypes
  <2>7. relocs[l].offset = relocs[k].offset + 4
    BY <1>1, <1>4, <2>2, <2>6, PairStays
  <2>8. relocs[k].offset \in Nat
    <3>1. relocs[k] \in Reloc
      BY <1>1, ElementOfSeq
    <3> QED
      BY <3>1 DEF Reloc
  <2>9. PairsWith(relocs[k], relocs[l])
    BY <2>2, <2>6, <2>7, <2>8 DEF PairsWith
  <2> QED
    BY <2>3, <2>4, <2>9
<1> QED
  BY <1>3, <1>4 DEF Steady

-----------------------------------------------------------------------------
(* What was reserved is enough: every step, and the theorem                *)

\* Sections of the sizes v find room in sections of the sizes w.
Room(v, w) ==
  /\ v.names \in Nat /\ v.relocs \in Nat /\ w.names \in Nat /\ w.relocs \in Nat
  /\ v.names <= w.names /\ v.relocs <= w.relocs

RelaxStates == {"relax", "sweep", "swept", "relaxed"}

\* The inductive invariant.  ReservedEnough alone speaks of the end of the
\* link only: what is counted has to be remembered until it is listed, and
\* that the references listed are the ones counted.
FitInv ==
  /\ TypeInv
  /\ ImportRefs(obj, relocs)
  /\ state = "collect" => relocs = obj.relocs /\ syms = obj.syms
  /\ state \in RelaxStates \cup {"reserve"} =>
       CollectedTo(obj, ImportEntries, Len(obj.relocs))
  /\ state \in RelaxStates => reserved = SizeOf(ImportEntries, TRUE)
  /\ state = "relocated" /\ Regular => Room(SizeOf(ImportEntries, FALSE), reserved)
  /\ ReservedEnough

LEMMA InitFitInv == Init => FitInv
<1> SUFFICES ASSUME Init PROVE FitInv
  OBVIOUS
<1>1. TypeInv /\ SectionTypes
  BY InitTypeInv DEF TypeInv
<1>2. state = "collect" /\ relocs = obj.relocs /\ syms = obj.syms
  BY DEF Init, RelaxInit
<1>3. ImportRefs(obj, relocs)
  <2>1. \A k \in 1 .. Len(relocs) : relocs[k] \in Reloc
    BY <1>1, ImportsAreRefs, ElementOfSeq
  <2> QED
    BY <1>2, <2>1, InitImports
<1>4. ReservedEnough
  BY <1>2 DEF ReservedEnough
<1>5. state \notin RelaxStates \cup {"reserve"} /\ state # "relocated"
  BY <1>2 DEF RelaxStates
<1> QED
  BY <1>1, <1>2, <1>3, <1>4, <1>5 DEF FitInv

\* While the section is relaxed the tables stay as they are.
LEMMA RelaxingStates ==
  ASSUME Relaxing
  PROVE  /\ state \in RelaxStates /\ state' \in RelaxStates \cup {"failed"}
         /\ UNCHANGED obj
<1>1. CASE BeginSweep
  <2>1. state = "relax" /\ state' \in {"swept", "sweep"} /\ UNCHANGED obj
    BY <1>1, Zenon DEF BeginSweep
  <2> QED
    BY <2>1 DEF RelaxStates
<1>2. CASE Skip
  BY <1>2 DEF Skip, InLoop, RelaxStates
<1>3. CASE RelaxRef
  BY <1>3 DEF RelaxRef, InLoop, RelaxStates
<1>4. CASE RelaxAlign
  <2>1. state = "sweep" /\ UNCHANGED obj /\ state' \in {state, "failed"}
    BY <1>4, Zenon DEF RelaxAlign, InLoop, _bfd_riscv_relax_align
  <2> QED
    BY <2>1 DEF RelaxStates
<1>5. CASE EndSweep
  BY <1>5 DEF EndSweep, RelaxStates
<1>6. CASE NextSweep
  BY <1>6 DEF NextSweep, RelaxStates
<1> QED
  BY <1>1, <1>2, <1>3, <1>4, <1>5, <1>6 DEF Relaxing

LEMMA RelaxingFits ==
  ASSUME FitInv, TypeInv', LinkInv', Relaxing, UNCHANGED linkVars
  PROVE  FitInv'
<1>1. SectionTypes /\ ImportRefs(obj, relocs)
  BY DEF FitInv, TypeInv
<1>2. /\ state \in RelaxStates /\ state' \in RelaxStates \cup {"failed"}
      /\ UNCHANGED <<obj, ImportEntries, reserved>>
  BY RelaxingStates DEF linkVars, tableVars
<1>3. ImportRefs(obj, relocs')
  <2>1. CASE RelaxRef \/ RelaxAlign
    BY <1>1, <2>1, RefKeepsImports
  <2>2. CASE ~ (RelaxRef \/ RelaxAlign)
    <3>1. UNCHANGED relocs
      BY <2>2, Zenon DEF Relaxing, BeginSweep, Skip, EndSweep, NextSweep, secVars
    <3> QED
      BY <1>1, <3>1
  <2> QED
    BY <2>1, <2>2
<1>4. ImportRefs(obj, relocs)'
  BY <1>2, <1>3
<1>5. /\ state' \notin {"collect", "relocated", "linked", "reserve"}
      /\ state' \in RelaxStates \/ state' = "failed"
  BY <1>2 DEF RelaxStates
<1>6. /\ CollectedTo(obj, ImportEntries, Len(obj.relocs))
      /\ reserved = SizeOf(ImportEntries, TRUE)
  BY <1>2 DEF FitInv
<1>7. /\ CollectedTo(obj, ImportEntries, Len(obj.relocs))'
      /\ (reserved = SizeOf(ImportEntries, TRUE))'
  BY <1>2, <1>6
<1>8. ReservedEnough'
  BY <1>5 DEF ReservedEnough
<1> QED
  BY <1>4, <1>5, <1>7, <1>8 DEF FitInv

\* The linker collects and reserves.
LEMMA CollectFits ==
  ASSUME FitInv, TypeInv', check_relocs
  PROVE  FitInv'
<1>1. /\ SectionTypes /\ ImportRefs(obj, relocs)
      /\ state = "collect" /\ relocs = obj.relocs /\ syms = obj.syms
  BY Zenon DEF FitInv, TypeInv, check_relocs
<1>2. /\ UNCHANGED <<obj, secVars>>
      /\ \/ state' = "crashed"
         \/ /\ state' = "reserve"
            /\ ImportEntries' = FoldLeftDomain(Collected, NoEntries, relocs)
  BY Zenon DEF check_relocs
<1>3. UNCHANGED <<obj, relocs>>
  BY <1>2 DEF secVars
<1>4. state' = "reserve" => CollectedTo(obj, ImportEntries', Len(obj.relocs))
  BY <1>1, <1>2, CollectsAll
<1>5. /\ ImportRefs(obj, relocs)'
      /\ state' = "reserve" => CollectedTo(obj, ImportEntries, Len(obj.relocs))'
  BY <1>1, <1>3, <1>4
<1>6. state' \in {"crashed", "reserve"}
  BY <1>2
<1>7. ReservedEnough'
  BY <1>6 DEF ReservedEnough
<1> QED
  BY <1>5, <1>6, <1>7 DEF FitInv, RelaxStates

LEMMA ReserveFits ==
  ASSUME FitInv, TypeInv', Reserve_sections
  PROVE  FitInv'
<1>1. /\ state = "reserve" /\ state' = "relax"
      /\ UNCHANGED <<obj, secVars, tableVars>>
      /\ reserved' = PulpImportSectionsSize(TRUE)
  BY Zenon DEF Reserve_sections
<1>2. UNCHANGED <<obj, relocs, ImportEntries>>
  BY <1>1 DEF secVars, tableVars
<1>3. ImportRefs(obj, relocs) /\ CollectedTo(obj, ImportEntries, Len(obj.relocs))
  BY <1>1 DEF FitInv
<1>4. reserved' = SizeOf(ImportEntries, TRUE)
  BY <1>1, SizeIs
<1>5. /\ ImportRefs(obj, relocs)' /\ CollectedTo(obj, ImportEntries, Len(obj.relocs))'
      /\ (reserved = SizeOf(ImportEntries, TRUE))'
  BY <1>2, <1>3, <1>4
<1>6. ReservedEnough'
  BY <1>1 DEF ReservedEnough
<1> QED
  BY <1>1, <1>5, <1>6 DEF FitInv

\* Whether a section is regular is seen from its relocations and symbols.
LEMMA RegularStays ==
  ASSUME UNCHANGED <<obj, relocs, syms>>
  PROVE  Regular' <=> Regular
BY DEF Regular, Imports

\* The linker lists: there is room for what it lists.
LEMMA RelocateFits ==
  ASSUME FitInv, TypeInv', relocate_section
  PROVE  FitInv'
<1>1. /\ state = "relaxed" /\ state' \in {"relocated", "failed"}
      /\ UNCHANGED <<obj, secVars, reserved>>
      /\ ImportEntries' = FoldLeft(Listed, ImportEntries, relocs)
  BY Zenon DEF relocate_section
<1>2. UNCHANGED <<obj, relocs, syms>>
  BY <1>1 DEF secVars
<1>3. /\ SectionTypes /\ ImportRefs(obj, relocs)
      /\ ImportEntries \in FiledTables(ImportEntry)
      /\ CollectedTo(obj, ImportEntries, Len(obj.relocs))
      /\ reserved = SizeOf(ImportEntries, TRUE)
  BY <1>1 DEF FitInv, TypeInv, RelaxStates
<1>4. ASSUME Regular
      PROVE  Room(SizeOf(ImportEntries', FALSE), reserved)
  <2>1. Steady
    BY <1>3, <1>4, RegularSteady
  <2>2. Fits(FoldLeft(Listed, ImportEntries, relocs), ImportEntries)
    BY <1>3, <2>1, ListsFit
  <2>3. FoldLeft(Listed, ImportEntries, relocs) \in FiledTables(ImportEntry)
    BY <1>3, FoldsFiled
  <2> DEFINE u == FoldLeft(Listed, ImportEntries, relocs)
  <2> HIDE DEF u
  <2>4. u \in FiledTables(ImportEntry) /\ Fits(u, ImportEntries)
    BY <2>2, <2>3 DEF u
  <2>5. Room(SizeOf(u, FALSE), SizeOf(ImportEntries, TRUE))
    BY <1>3, <2>4, SizesFit DEF Room
  <2>6. ImportEntries' = u
    BY <1>1 DEF u
  <2> QED
    BY <1>3, <2>5, <2>6
<1>5. /\ ImportRefs(obj, relocs)'
      /\ Regular' => Room(SizeOf(ImportEntries, FALSE), reserved)'
  BY <1>1, <1>2, <1>3, <1>4, RegularStays
<1>6. ReservedEnough'
  BY <1>1 DEF ReservedEnough
<1> QED
  BY <1>1, <1>5, <1>6 DEF FitInv, RelaxStates

\* The linker writes the sections it has sized again.
LEMMA WordsWritten ==
  /\ ImportSections.names.words = SizeOf(ImportEntries, FALSE).names \div 4
  /\ ImportSections.relocs.words = SizeOf(ImportEntries, FALSE).relocs \div 4
  /\ EmptySections.names.words = 0 /\ EmptySections.relocs.words = 0
<1>1. PulpImportSectionsSize(FALSE) = SizeOf(ImportEntries, FALSE)
  BY SizeIs
<1>2. EmptySections.names.words = 0 /\ EmptySections.relocs.words = 0
  BY DEF EmptySections
<1>3. /\ ImportSections.names.words = PulpImportSectionsSize(FALSE).names \div 4
      /\ ImportSections.relocs.words = PulpImportSectionsSize(FALSE).relocs \div 4
  BY DEF ImportSections
<1> QED
  BY <1>1, <1>2, <1>3

LEMMA WriteFits ==
  ASSUME FitInv, TypeInv', final_link
  PROVE  FitInv'
<1>1. /\ state = "relocated" /\ UNCHANGED <<obj, secVars, reserved>>
      /\ \/ state' = "failed"
         \/ /\ state' = "linked"
            /\ \/ names' = EmptySections.names /\ reimports' = EmptySections.relocs
               \/ names' = ImportSections.names /\ reimports' = ImportSections.relocs
  BY Zenon DEF final_link
<1>2. UNCHANGED <<obj, relocs, syms>>
  BY <1>1 DEF secVars
<1>3. ImportRefs(obj, relocs)'
  BY <1>2 DEF FitInv
<1>4. ASSUME state' = "linked", Regular
      PROVE  reimports'.words * 4 <= reserved.relocs /\ names'.words * 4 <= reserved.names
  <2> DEFINE v == SizeOf(ImportEntries, FALSE)
  <2>1. Room(v, reserved)
    BY <1>1, <1>4 DEF FitInv
  <2>2. \/ names'.words = 0 /\ reimports'.words = 0
        \/ names'.words = v.names \div 4 /\ reimports'.words = v.relocs \div 4
    BY <1>1, <1>4, WordsWritten
  <2> HIDE DEF v
  <2> QED
    BY <2>1, <2>2 DEF Room
<1>5. ReservedEnough'
  BY <1>1, <1>2, <1>4, RegularStays DEF ReservedEnough
<1>6. state' \in {"failed", "linked"}
  BY <1>1
<1> QED
  BY <1>3, <1>5, <1>6 DEF FitInv, RelaxStates

\* Whatever the linker does next, what it has counted is enough for what it
\* lists: the inductive step (InsertImportEntry, PulpImportSectionsSize).
THEOREM NextFitInv == FitInv /\ [Next]_vars => FitInv'
<1> SUFFICES ASSUME FitInv, [Next]_vars PROVE FitInv'
  OBVIOUS
<1>1. TypeInv' /\ LinkInv'
  BY NextTypeInv, NextLinkInv DEF FitInv, TypeInv, SectionTypes
<1>2. CASE UNCHANGED vars
  <2>1. /\ UNCHANGED <<obj, relocs, syms, state, ImportEntries, reserved, names, reimports>>
    BY <1>2 DEF vars, relaxVars, secVars, linkVars, tableVars, outVars
  <2>2. ReservedEnough'
    BY <2>1, RegularStays DEF FitInv, ReservedEnough
  <2>3. /\ ImportRefs(obj, relocs)'
        /\ (state = "collect" => relocs = obj.relocs /\ syms = obj.syms)'
        /\ (state \in RelaxStates \cup {"reserve"} =>
              CollectedTo(obj, ImportEntries, Len(obj.relocs)))'
        /\ (state \in RelaxStates => reserved = SizeOf(ImportEntries, TRUE))'
        /\ (state = "relocated" /\ Regular =>
              Room(SizeOf(ImportEntries, FALSE), reserved))'
    BY <2>1, RegularStays DEF FitInv
  <2> QED
    BY <1>1, <2>2, <2>3 DEF FitInv
<1>3. CASE Next
  BY <1>1, <1>3, RelaxingFits, CollectFits, ReserveFits, RelocateFits, WriteFits DEF Next
<1> QED
  BY <1>2, <1>3

\* What the linker reserves for the import sections before it relaxes is
\* enough for what it writes after it, however the section is relaxed, unless
\* a reference relative to the pc became an absolute one or a pair was counted
\* over two names (check_relocs, PulpImportSectionsSize, InsertImportEntry).
THEOREM ReservedAlways == Spec => []ReservedEnough
<1>1. FitInv => ReservedEnough
  BY DEF FitInv
<1> QED
  BY InitFitInv, NextFitInv, <1>1, PTL DEF Spec
=============================================================================
