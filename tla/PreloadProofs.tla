--------------------------- MODULE PreloadProofs ---------------------------
(***************************************************************************)
(* Theorems about the two ways a binary gets into memory.                  *)
(*                                                                         *)
(* MemoryPreload, for every set of DRAMs, binaries and files and any       *)
(* number of calls: a binary is loaded as a whole or not at all, and every *)
(* byte of every memory is what the last call that concerns it gave.       *)
(*                                                                         *)
(* RtlStimuli, for every binary, word and byte size: the file of a binary  *)
(* whose segments do not overlap has exactly their bytes.                  *)
(***************************************************************************)
EXTENDS MemoryPreload, RtlStimuli, DataLemmas

-----------------------------------------------------------------------------
(* The loop over the program headers                                       *)

\* One turn of the loop.
Turn(b, base, r, n) ==
  IF n \in Loaded(b)
  THEN [memory |-> Written(r.memory, b.headers[n], base),
        sections |-> Append(r.sections, <<b.headers[n].paddr, b.headers[n].memsz>>)]
  ELSE r

\* after is what the loop makes of start in the first m turns.
Turns(after, b, base, start, m) ==
  after = [n \in 0 .. m |-> IF n = 0 THEN start ELSE Turn(b, base, after[n - 1], n)]

\* There is such a sequence of turns, of any length.
LEMMA TurnsExist ==
  ASSUME NEW b, NEW base, NEW start, NEW l \in Nat
  PROVE  \E after : Turns(after, b, base, start, l)
<1> DEFINE T == {m \in 0 .. l : ~ \E after : Turns(after, b, base, start, m)}
<1>1. CASE T = {}
  BY <1>1
<1>2. CASE T # {}
  <2>1. T \in SUBSET Nat
    OBVIOUS
  <2> HIDE DEF T
  <2>2. PICK x \in T : \A y \in T : x <= y
    BY <1>2, <2>1, LeastNat
  <2>3. x \in 0 .. l /\ ~ \E after : Turns(after, b, base, start, x)
    BY <2>2 DEF T
  <2>4. x # 0
    <3> DEFINE f == [n \in 0 .. 0 |-> start]
    <3>1. f = [n \in 0 .. 0 |-> IF n = 0 THEN start ELSE Turn(b, base, f[n - 1], n)]
      OBVIOUS
    <3>2. Turns(f, b, base, start, 0)
      BY <3>1 DEF Turns
    <3> QED BY <2>3, <3>2
  <2>5. PICK w \in Nat : x = w + 1 /\ w \in 0 .. l /\ w \notin T
    <3>1. x - 1 \in Nat /\ x - 1 \in 0 .. l /\ x - 1 < x
      BY <2>3, <2>4
    <3>2. x - 1 \notin T
      BY <2>2, <2>3, <3>1
    <3> QED BY <2>3, <3>1, <3>2
  <2>6. PICK g : Turns(g, b, base, start, w)
    BY <2>5 DEF T
  <2> DEFINE h == [n \in 0 .. x |-> IF n = x THEN Turn(b, base, g[w], x) ELSE g[n]]
  <2>7. ASSUME NEW n \in 0 .. x
        PROVE  h[n] = IF n = 0 THEN start ELSE Turn(b, base, h[n - 1], n)
    <3>1. CASE n = 0
      <4>1. h[n] = g[0] /\ 0 \in 0 .. w
        BY <2>4, <2>5, <3>1
      <4> QED BY <2>6, <3>1, <4>1 DEF Turns
    <3>2. CASE n # 0 /\ n # x
      <4>1. n \in 0 .. w /\ n - 1 \in 0 .. x /\ n - 1 # x
        BY <2>5, <3>2
      <4>2. h[n] = g[n] /\ h[n - 1] = g[n - 1]
        BY <3>2, <4>1
      <4> QED BY <2>6, <3>2, <4>1, <4>2 DEF Turns
    <3>3. CASE n = x
      <4>1. n - 1 = w /\ n - 1 \in 0 .. x /\ n - 1 # x
        BY <2>5, <3>3
      <4>2. h[n] = Turn(b, base, g[w], x) /\ h[n - 1] = g[w]
        BY <3>3, <4>1
      <4> QED BY <2>4, <3>3, <4>2
    <3> QED BY <3>1, <3>2, <3>3
  <2>8. h = [n \in 0 .. x |-> IF n = 0 THEN start ELSE Turn(b, base, h[n - 1], n)]
    <3>1. DOMAIN h = 0 .. x /\ h = [n \in 0 .. x |-> h[n]]
      OBVIOUS
    <3> HIDE DEF h
    <3> QED BY <2>7, <3>1
  <2>9. Turns(h, b, base, start, x)
    BY <2>8, Zenon DEF Turns
  <2> QED BY <2>3, <2>9
<1> QED BY <1>1, <1>2

\* The loop is the sequence of its turns.
LEMMA LoopTurns ==
  ASSUME NEW b, NEW base, NEW memory, NEW listed, NEW l \in Nat, l = Len(b.headers)
  PROVE  /\ HeaderLoop(b, base, memory, listed)[0] = [memory |-> memory, sections |-> listed]
         /\ \A n \in 1 .. l : HeaderLoop(b, base, memory, listed)[n] =
                                Turn(b, base, HeaderLoop(b, base, memory, listed)[n - 1], n)
<1> DEFINE start == [memory |-> memory, sections |-> listed]
           f == HeaderLoop(b, base, memory, listed)
<1>1. f = CHOOSE after : Turns(after, b, base, start, l)
  BY DEF HeaderLoop, Turns, Turn
<1>2. Turns(f, b, base, start, l)
  <2> HIDE DEF f, start
  <2> QED BY <1>1, TurnsExist, Zenon
<1> HIDE DEF f
<1>3. f = [n \in 0 .. l |-> IF n = 0 THEN start ELSE Turn(b, base, f[n - 1], n)]
  BY <1>2 DEF Turns
<1>4. f[0] = start
  BY <1>3
<1>5. ASSUME NEW n \in 1 .. l PROVE f[n] = Turn(b, base, f[n - 1], n)
  <2>1. n \in 0 .. l /\ n # 0
    OBVIOUS
  <2> QED BY <1>3, <2>1
<1> QED BY <1>4, <1>5 DEF f

-----------------------------------------------------------------------------
(* Bytes                                                                   *)

\* Memories of a size.
Memories(size) == [0 .. size - 1 -> Byte]

LEMMA FilledType ==
  ASSUME NEW size \in Nat, NEW m \in Memories(size), NEW addr \in Int, NEW n \in Nat,
         NEW data, DOMAIN data = 1 .. n, \A i \in 1 .. n : data[i] \in Byte
  PROVE  /\ Filled(m, addr, data) \in Memories(size)
         /\ \A a \in 0 .. size - 1 :
              Filled(m, addr, data)[a] =
                IF a - addr + 1 \in 1 .. n THEN data[a - addr + 1] ELSE m[a]
BY DEF Filled, Memories

Listed == Nat \X Nat

\* A segment as the binaries of the constants have them.
Header(h) ==
  /\ h.paddr \in 0 .. AddressSpace - 1 /\ h.memsz \in Nat
  /\ h.data \in Seq(Byte) /\ Len(h.data) <= h.memsz

LEMMA HeadersOf ==
  ASSUME NEW b \in Binaries
  PROVE  /\ Len(b.headers) \in Nat /\ DOMAIN b.headers = 1 .. Len(b.headers)
         /\ \A i \in 1 .. Len(b.headers) : Header(b.headers[i])
         /\ Loaded(b) \subseteq 1 .. Len(b.headers)
<1>1. /\ Len(b.headers) \in Nat /\ DOMAIN b.headers = 1 .. Len(b.headers)
      /\ \A i \in DOMAIN b.headers : Header(b.headers[i])
  BY FileConstants DEF Header
<1> QED BY <1>1 DEF Loaded

\* An offset is an address.
LEMMA OffsetType ==
  ASSUME NEW p \in Nat, NEW base \in Nat, NEW i \in Nat
  PROVE  Offset(p, base, i) \in 0 .. AddressSpace - 1
BY PreloadConstants DEF Offset

\* In 64 bits a difference below zero wraps around.
LEMMA OffsetOf ==
  ASSUME NEW p \in 0 .. AddressSpace - 1, NEW base \in 0 .. AddressSpace - 1, NEW i \in Nat
  PROVE  /\ p - base + i \in 0 .. AddressSpace - 1 => Offset(p, base, i) = p - base + i
         /\ p - base + i < 0 => Offset(p, base, i) = p - base + i + AddressSpace
<1>1. PICK n \in Nat \ {0} : n = AddressSpace
  BY PreloadConstants
<1>2. PICK x \in Int : x = p - base + i
  OBVIOUS
<1>3. x \in 0 .. n - 1 => x % n = x
  BY <1>1
<1>4. x < 0 => x % n = x + n
  <2>1. SUFFICES ASSUME x < 0 PROVE x % n = x + n
    OBVIOUS
  <2>2. x + n \in 0 .. n - 1
    BY <1>1, <1>2, <2>1
  <2>3. x = n * (-1) + (x + n)
    OBVIOUS
  <2> QED BY <1>1, <2>2, <2>3
<1> QED BY <1>1, <1>2, <1>3, <1>4 DEF Offset

\* A segment whose bytes all pass the assertion lies in the DRAM, in plain
\* integers.
LEMMA SegmentWhole ==
  ASSUME NEW h, Header(h), h.data # <<>>, NEW base \in Nat, NEW size \in 1 .. AddressSpace - 1,
         base + size <= AddressSpace, InMemory(h, base, size)
  PROVE  /\ base <= h.paddr /\ h.paddr + Len(h.data) - base <= size
         /\ Offset(h.paddr, base, 0) = h.paddr - base
<1>1. PICK n \in Nat \ {0}, p \in Nat, l \in Nat \ {0} :
        /\ n = AddressSpace /\ p = h.paddr /\ p \in 0 .. n - 1
        /\ l = Len(h.data) /\ DOMAIN h.data = 1 .. l
  <2>1. /\ h.paddr \in 0 .. AddressSpace - 1 /\ Len(h.data) \in Nat /\ Len(h.data) # 0
        /\ DOMAIN h.data = 1 .. Len(h.data)
    BY EmptySeq, LenProperties DEF Header
  <2>2. AddressSpace \in Nat \ {0} /\ h.paddr \in Nat /\ Len(h.data) \in Nat \ {0}
    BY <2>1, PreloadConstants
  <2> QED BY <2>1, <2>2, Zenon
<1>2. /\ base \in 0 .. n - 1 /\ base \in 0 .. AddressSpace - 1
      /\ p \in 0 .. AddressSpace - 1 /\ 0 \in Nat
  BY <1>1
<1>3. \A i \in 1 .. l : Offset(p, base, i - 1) < size
  BY <1>1 DEF InMemory
<1>4. base <= p
  <2>1. SUFFICES ASSUME p < base PROVE FALSE
    BY <1>1, <1>2
  <2>2. 1 \in 1 .. l /\ 1 - 1 = 0 /\ p - base + 0 < 0
    BY <1>1, <2>1
  <2>3. Offset(p, base, 0) = p - base + 0 + n
    BY <1>1, <1>2, <2>2, OffsetOf
  <2>4. Offset(p, base, 0) < size
    BY <1>3, <2>2
  <2> QED BY <1>1, <1>2, <2>3, <2>4
<1>5. Offset(p, base, 0) = p - base /\ p - base < size
  <2>1. p - base + 0 \in 0 .. AddressSpace - 1 /\ p - base + 0 = p - base
    BY <1>1, <1>2, <1>4
  <2>2. Offset(p, base, 0) = p - base
    BY <1>2, <2>1, OffsetOf, Zenon
  <2>3. 1 \in 1 .. l /\ 1 - 1 = 0
    BY <1>1
  <2>4. Offset(p, base, 1 - 1) < size
    BY <1>3, <2>3, Zenon
  <2>5. p - base < size
    BY <2>2, <2>3, <2>4, Zenon
  <2> QED BY <2>2, <2>5
<1>6. p + l - base <= size
  <2>1. SUFFICES ASSUME size < p + l - base PROVE FALSE
    BY <1>1, <1>2
  <2>2. PICK i \in 1 .. l : p - base + (i - 1) = size
    <3>1. PICK j \in Int : j = size - (p - base) + 1
      BY <1>2
    <3>2. j \in 1 .. l
      BY <1>5, <2>1, <3>1
    <3>3. p - base + (j - 1) = size
      BY <3>1
    <3> QED BY <3>2, <3>3, Zenon
  <2>3. i - 1 \in Nat /\ p - base + (i - 1) \in 0 .. AddressSpace - 1 /\ ~(size < size)
    BY <1>1, <2>2
  <2>4. Offset(p, base, i - 1) = size
    BY <1>2, <2>2, <2>3, OffsetOf, Zenon
  <2> QED BY <1>3, <2>3, <2>4, Zenon
<1> QED BY <1>1, <1>4, <1>5, <1>6

\* Every turn keeps the types, and the list of sections only grows.
LEMMA LoopTypes ==
  ASSUME NEW b \in Binaries, NEW base \in Nat, NEW size \in Nat,
         NEW memory \in Memories(size), NEW listed \in Seq(Listed),
         NEW k \in 0 .. Len(b.headers)
  PROVE  /\ HeaderLoop(b, base, memory, listed)[k].memory \in Memories(size)
         /\ HeaderLoop(b, base, memory, listed)[k].sections \in Seq(Listed)
         /\ Len(listed) <= Len(HeaderLoop(b, base, memory, listed)[k].sections)
<1> DEFINE f == HeaderLoop(b, base, memory, listed)
           Good(n) == /\ f[n].memory \in Memories(size) /\ f[n].sections \in Seq(Listed)
                      /\ Len(listed) <= Len(f[n].sections)
           T == {n \in 0 .. Len(b.headers) : ~Good(n)}
<1>1. PICK l \in Nat : l = Len(b.headers)
  BY HeadersOf
<1>2. f[0] = [memory |-> memory, sections |-> listed]
      /\ \A n \in 1 .. l : f[n] = Turn(b, base, f[n - 1], n)
  BY <1>1, LoopTurns
<1> HIDE DEF f
<1>3. Good(0)
  BY <1>2
<1>4. ASSUME NEW n \in 1 .. l, Good(n - 1) PROVE Good(n)
  <2>1. f[n] = Turn(b, base, f[n - 1], n)
    BY <1>2
  <2>2. CASE n \in Loaded(b)
    <3> DEFINE h == b.headers[n]
    <3>1. Header(h)
      BY <1>1, HeadersOf
    <3> HIDE DEF h
    <3>2. h.data \in Seq(Byte) /\ h.paddr \in Nat /\ <<h.paddr, h.memsz>> \in Listed
      BY <3>1 DEF Header, Listed
    <3>3. f[n] = [memory |-> Written(f[n - 1].memory, h, base),
                   sections |-> Append(f[n - 1].sections, <<h.paddr, h.memsz>>)]
      BY <2>1, <2>2, Zenon DEF Turn, h
    <3>4. /\ f[n].memory = Filled(f[n - 1].memory, Offset(h.paddr, base, 0), h.data)
          /\ f[n].sections = Append(f[n - 1].sections, <<h.paddr, h.memsz>>)
      BY <3>3 DEF Written
    <3>5. PICK q \in Nat : DOMAIN h.data = 1 .. q /\ \A i \in 1 .. q : h.data[i] \in Byte
      BY <3>2, ElementOfSeq, LenProperties
    <3>6. f[n].memory \in Memories(size)
      <4>1. PICK p \in Nat : p = h.paddr
        BY <3>2
      <4>2. PICK o \in Int : o = Offset(p, base, 0)
        <5>1. Offset(p, base, 0) \in 0 .. AddressSpace - 1
          BY OffsetType
        <5> QED BY <5>1
      <4>3. PICK m \in Memories(size) : m = f[n - 1].memory
        BY <1>4
      <4>4. PICK data : data = h.data
        OBVIOUS
      <4>5. Filled(m, o, data) \in Memories(size)
        BY <3>5, <4>4, FilledType
      <4> QED BY <3>4, <4>1, <4>2, <4>3, <4>4, <4>5, Zenon
    <3>7. f[n].sections \in Seq(Listed) /\ Len(f[n].sections) = Len(f[n - 1].sections) + 1
      BY <1>4, <3>2, <3>4, AppendProperties
    <3>8. Len(f[n - 1].sections) \in Nat /\ Len(listed) \in Nat
      BY <1>4, LenProperties
    <3> QED BY <1>4, <3>6, <3>7, <3>8
  <2>3. CASE n \notin Loaded(b)
    BY <1>4, <2>1, <2>3 DEF Turn
  <2> QED BY <2>2, <2>3
<1> HIDE DEF Good
<1>5. T = {}
  <2>1. SUFFICES ASSUME T # {} PROVE FALSE
    OBVIOUS
  <2>2. T \in SUBSET Nat
    BY <1>1
  <2> HIDE DEF T
  <2>3. PICK x \in T : \A y \in T : x <= y
    BY <2>1, <2>2, LeastNat
  <2>4. x \in 0 .. l /\ ~Good(x)
    BY <1>1, <2>3 DEF T
  <2>5. x # 0
    BY <1>3, <2>4
  <2>6. x - 1 \in 0 .. l /\ x \in 1 .. l /\ ~ (x <= x - 1)
    BY <1>1, <2>4, <2>5
  <2>7. Good(x - 1)
    BY <1>1, <2>3, <2>6 DEF T
  <2> QED BY <1>4, <2>4, <2>6, <2>7
<1>6. Good(k)
  BY <1>5
<1> QED BY <1>6 DEF Good, f

\* All segments of a binary that are loaded lie in the DRAM.
WholeIn(b, base, size) ==
  \A i \in Loaded(b) :
    /\ base <= b.headers[i].paddr
    /\ b.headers[i].paddr + Len(b.headers[i].data) - base <= size
    /\ Offset(b.headers[i].paddr, base, 0) = b.headers[i].paddr - base

LEMMA WellIsWhole ==
  ASSUME NEW b \in Binaries, NEW base \in Nat, NEW dram, dram.size \in 1 .. AddressSpace - 1,
         base + dram.size <= AddressSpace, LoadsWell(b, base, dram)
  PROVE  WholeIn(b, base, dram.size)
<1> SUFFICES ASSUME NEW i \in Loaded(b)
             PROVE  /\ base <= b.headers[i].paddr
                    /\ b.headers[i].paddr + Len(b.headers[i].data) - base <= dram.size
                    /\ Offset(b.headers[i].paddr, base, 0) = b.headers[i].paddr - base
  BY DEF WholeIn
<1>1. Header(b.headers[i])
  BY HeadersOf
<1>2. b.headers[i].data # <<>> /\ InMemory(b.headers[i], base, dram.size)
  BY DEF Loaded, LoadsWell
<1> QED BY <1>1, <1>2, SegmentWhole

\* The segments that hold an address are loaded, and hold it.
LEMMA HoldingLoaded ==
  ASSUME NEW b \in Binaries, NEW x \in Nat
  PROVE  /\ Holding(b, x) \subseteq Loaded(b)
         /\ \A i \in Loaded(b) :
              i \in Holding(b, x) <=> x - b.headers[i].paddr + 1 \in 1 .. Len(b.headers[i].data)
<1>1. ASSUME NEW i \in 1 .. Len(b.headers)
      PROVE  /\ i \in Holding(b, x) => i \in Loaded(b)
             /\ i \in Loaded(b) =>
                  (i \in Holding(b, x) <=>
                     x - b.headers[i].paddr + 1 \in 1 .. Len(b.headers[i].data))
  <2>1. Header(b.headers[i]) /\ i \in DOMAIN b.headers
    BY HeadersOf
  <2>2. PICK h : h = b.headers[i]
    OBVIOUS
  <2>3. PICK p \in Nat, l \in Nat, z \in Nat :
          p = h.paddr /\ l = Len(h.data) /\ z = h.memsz /\ l <= z
    <3>1. h.paddr \in Nat /\ Len(h.data) \in Nat /\ h.memsz \in Nat /\ Len(h.data) <= h.memsz
      BY <2>1, <2>2, LenProperties, PreloadConstants DEF Header
    <3> QED BY <3>1, Zenon
  <2>4. i \in Holding(b, x) <=> h.load /\ p <= x /\ x < p + l
    BY <2>1, <2>2, <2>3 DEF Holding
  <2>5. i \in Loaded(b) <=> h.load /\ z # 0 /\ l # 0
    <3>1. h.data = <<>> <=> l = 0
      BY <2>1, <2>2, <2>3, EmptySeq DEF Header
    <3> QED BY <2>1, <2>2, <2>3, <3>1 DEF Loaded
  <2>6. i \in Holding(b, x) => i \in Loaded(b)
    BY <2>3, <2>4, <2>5
  <2>7. x - p + 1 \in 1 .. l <=> p <= x /\ x < p + l
    OBVIOUS
  <2> QED BY <2>2, <2>3, <2>4, <2>5, <2>6, <2>7
<1>2. Holding(b, x) \subseteq 1 .. Len(b.headers) /\ Loaded(b) \subseteq 1 .. Len(b.headers)
  BY HeadersOf DEF Holding
<1> QED BY <1>1, <1>2

\* After each turn a byte is that of the last segment so far that holds it, or
\* what it was.
LEMMA LoopBytes ==
  ASSUME NEW b \in Binaries, NEW base \in Nat, NEW size \in Nat,
         NEW memory \in Memories(size), NEW listed \in Seq(Listed), WholeIn(b, base, size),
         NEW a \in 0 .. size - 1, NEW k \in 0 .. Len(b.headers)
  PROVE  LET byte == HeaderLoop(b, base, memory, listed)[k].memory[a]
             hs == {i \in Holding(b, base + a) : i <= k}
         IN /\ hs = {} => byte = memory[a]
            /\ \A i \in hs : (\A j \in hs : j <= i) =>
                 byte = b.headers[i].data[base + a - b.headers[i].paddr + 1]
<1> DEFINE f == HeaderLoop(b, base, memory, listed)
           H == Holding(b, base + a)
           Piece(i) == b.headers[i].data[base + a - b.headers[i].paddr + 1]
           Good(n) ==
             /\ (\A i \in H : ~(i <= n)) => f[n].memory[a] = memory[a]
             /\ \A i \in H : i <= n /\ (\A j \in H : j <= n => j <= i) => f[n].memory[a] = Piece(i)
           T == {n \in 0 .. Len(b.headers) : ~Good(n)}
<1>1. PICK l \in Nat : l = Len(b.headers)
  BY HeadersOf
<1>2. f[0] = [memory |-> memory, sections |-> listed]
      /\ \A n \in 1 .. l : f[n] = Turn(b, base, f[n - 1], n)
  BY <1>1, LoopTurns
<1>3. \A n \in 0 .. l : f[n].memory \in Memories(size)
  BY <1>1, LoopTypes
<1>4. PICK x \in Nat : x = base + a
  OBVIOUS
<1>5. H \subseteq Loaded(b) /\ Loaded(b) \subseteq 1 .. l
  BY <1>1, <1>4, HoldingLoaded, HeadersOf
<1> HIDE DEF f
<1>6. Good(0)
  <2>1. \A i \in H : ~(i <= 0)
    BY <1>5
  <2> QED BY <1>2, <2>1
<1>7. ASSUME NEW n \in 1 .. l, Good(n - 1) PROVE Good(n)
  <2>1. f[n] = Turn(b, base, f[n - 1], n)
    BY <1>2
  <2>2. \A i \in H : i <= n <=> i <= n - 1 \/ i = n
    BY <1>5
  <2>3. CASE n \notin Loaded(b)
    <3>1. f[n] = f[n - 1] /\ n \notin H
      BY <1>5, <2>1, <2>3 DEF Turn
    <3>2. \A i \in H : i <= n <=> i <= n - 1
      BY <2>2, <3>1
    <3> HIDE DEF H, Piece
    <3> QED BY <1>7, <3>1, <3>2
  <2>4. CASE n \in Loaded(b)
    <3> DEFINE h == b.headers[n]
    <3>1. /\ f[n].memory = Written(f[n - 1].memory, h, base)
      BY <2>1, <2>4 DEF Turn
    <3>2. Offset(h.paddr, base, 0) = h.paddr - base /\ base <= h.paddr /\ Header(h)
      BY <1>1, <2>4, HeadersOf DEF WholeIn
    <3>3. n \in H <=> x - h.paddr + 1 \in 1 .. Len(h.data)
      BY <1>4, <2>4, HoldingLoaded
    <3>4. Piece(n) = h.data[x - h.paddr + 1]
      <4>1. PICK p \in Nat : p = b.headers[n].paddr
        BY <3>2, PreloadConstants DEF Header
      <4>2. base + a - p + 1 = x - p + 1
        BY <1>4
      <4> QED BY <4>1, <4>2, Zenon
    <3> HIDE DEF h, H, Piece
    <3>5. PICK p \in Nat, q \in Nat, data \in Seq(Byte) :
            /\ p = h.paddr /\ data = h.data /\ q = Len(data)
            /\ DOMAIN data = 1 .. q /\ \A i \in 1 .. q : data[i] \in Byte
      <4>1. h.paddr \in Nat /\ Len(h.data) \in Nat /\ h.data \in Seq(Byte) /\ DOMAIN h.data = 1 .. Len(h.data)
            /\ \A i \in 1 .. Len(h.data) : h.data[i] \in Byte
        BY <3>2, PreloadConstants, ElementOfSeq, LenProperties DEF Header
      <4> QED BY <4>1, Zenon
    <3>6. PICK m \in Memories(size) : m = f[n - 1].memory
      <4>1. n - 1 \in 0 .. l
        OBVIOUS
      <4> QED BY <1>3, <4>1
    <3>7. PICK o \in Int : o = p - base
      OBVIOUS
    <3>8. f[n].memory[a] = IF a - o + 1 \in 1 .. q THEN data[a - o + 1] ELSE m[a]
      <4>1. f[n].memory = Filled(m, o, data)
        BY <3>1, <3>2, <3>5, <3>6, <3>7 DEF Written
      <4>2. DOMAIN data = 1 .. q /\ \A i \in 1 .. q : data[i] \in Byte
        BY <3>5
      <4>3. \A y \in 0 .. size - 1 :
              Filled(m, o, data)[y] = IF y - o + 1 \in 1 .. q THEN data[y - o + 1] ELSE m[y]
        BY <4>2, FilledType
      <4> QED BY <4>1, <4>3
    <3>9. a - o + 1 = x - p + 1
      BY <1>4, <3>7
    <3>10. CASE n \in H
      <4>1. f[n].memory[a] = Piece(n)
        BY <3>3, <3>4, <3>5, <3>8, <3>9, <3>10
      <4>2. \A i \in H : i <= n /\ (\A j \in H : j <= n => j <= i) => i = n
        BY <1>5, <3>10
      <4> QED BY <3>10, <4>1, <4>2
    <3>11. CASE n \notin H
      <4>1. f[n].memory[a] = f[n - 1].memory[a]
        BY <3>3, <3>5, <3>6, <3>8, <3>9, <3>11
      <4>2. \A i \in H : i <= n <=> i <= n - 1
        BY <2>2, <3>11
      <4> QED BY <1>7, <4>1, <4>2
    <3> QED BY <3>10, <3>11
  <2> QED BY <2>3, <2>4
<1> HIDE DEF Good
<1>8. T = {}
  <2>1. SUFFICES ASSUME T # {} PROVE FALSE
    OBVIOUS
  <2>2. T \in SUBSET Nat
    BY <1>1
  <2> HIDE DEF T
  <2>3. PICK t \in T : \A y \in T : t <= y
    BY <2>1, <2>2, LeastNat
  <2>4. t \in 0 .. l /\ ~Good(t)
    BY <1>1, <2>3 DEF T
  <2>5. t # 0
    BY <1>6, <2>4
  <2>6. t - 1 \in 0 .. l /\ t \in 1 .. l /\ ~ (t <= t - 1)
    BY <1>1, <2>4, <2>5
  <2>7. Good(t - 1)
    BY <1>1, <2>3, <2>6 DEF T
  <2> QED BY <1>7, <2>4, <2>6, <2>7
<1>9. Good(k)
  BY <1>8
<1> HIDE DEF H, Piece
<1> DEFINE hs == {i \in H : i <= k}
<1>11. /\ hs = {} => f[k].memory[a] = memory[a]
       /\ \A i \in hs : (\A j \in hs : j <= i) => f[k].memory[a] = Piece(i)
  BY <1>9 DEF Good
<1> QED BY <1>11 DEF H, Piece, f

-----------------------------------------------------------------------------
(* Types                                                                   *)

Sizes == {c.size : c \in Configurations}
Drams == [size : Sizes, store : BOOLEAN, memory : Seq(UNION {Memories(s) : s \in Sizes})]

\* The calls that filled memory, one after the other.
Calls ==
  [op : {"bytes"}, dram : Nat, addr : Nat, data : Seq(Byte)]
    \cup [op : {"file"}, dram : Nat, addr : Nat, lines : MemFiles]
    \cup [op : {"elf"}, dram : Nat, base : Bases, binary : Binaries]

TypesInv ==
  /\ TypeOK
  /\ drams \in Seq(Drams) /\ \A id \in DOMAIN drams : Len(drams[id].memory) # 0
  /\ sections \in Seq(Listed)
  /\ log \in Seq(Calls) /\ \A n \in DOMAIN log : log[n].dram \in DOMAIN drams

\* A DRAM is one that add_dram made.
LEMMA DramOf ==
  ASSUME TypesInv, NEW id \in DOMAIN drams
  PROVE  /\ id \in Nat /\ drams[id] \in Drams
         /\ drams[id].size \in Sizes /\ drams[id].size \in Nat
         /\ drams[id].size \in 1 .. AddressSpace - 1
         /\ \A base \in Bases : base \in Nat /\ base + drams[id].size <= AddressSpace
         /\ drams[id].memory \in Seq(Memories(drams[id].size))
         /\ Len(drams[id].memory) \in Nat \ {0}
         /\ DOMAIN drams[id].memory = 1 .. Len(drams[id].memory)
<1>1. drams \in Seq(Drams) /\ DOMAIN drams = 1 .. Len(drams) /\ Len(drams) \in Nat
  BY LenProperties DEF TypesInv
<1>2. drams[id] \in Drams /\ id \in Nat
  BY <1>1, ElementOfSeq
<1>3. drams[id].size \in Sizes
  BY <1>2 DEF Drams
<1>4. PICK c \in Configurations : drams[id].size = c.size
  BY <1>3 DEF Sizes
<1>5. /\ drams[id].size \in 1 .. AddressSpace - 1 /\ AddressSpace \in Nat
      /\ \A base \in Bases : base \in Nat /\ base + drams[id].size <= AddressSpace
  BY <1>4, PreloadConstants
<1>6. drams[id].memory \in Seq(UNION {Memories(s) : s \in Sizes})
  BY <1>2 DEF Drams
<1>7. PICK n \in Nat : n = Len(drams[id].memory) /\ DOMAIN drams[id].memory = 1 .. n
  BY <1>6, LenProperties
<1>8. \A ch \in 1 .. n : drams[id].memory[ch] \in Memories(drams[id].size)
  BY <1>7 DEF TypesInv, TypeOK, Memories
<1>9. drams[id].memory \in Seq(Memories(drams[id].size))
  <2>1. drams[id].memory \in [1 .. n -> Memories(drams[id].size)]
    <3>1. drams[id].memory = [ch \in 1 .. n |-> drams[id].memory[ch]]
      BY <1>6, <1>7, SeqDef
    <3> QED BY <1>8, <3>1
  <2> QED BY <2>1, SeqDef
<1>10. n # 0
  BY <1>7 DEF TypesInv
<1> QED BY <1>2, <1>3, <1>5, <1>7, <1>9, <1>10

LEMMA TypesInit == Init => TypesInv
BY DEF Init, TypesInv, TypeOK

\* A call that fills memory leaves the DRAMs as large as they are.
SameShape ==
  /\ DOMAIN drams' = DOMAIN drams
  /\ \A k \in DOMAIN drams :
       drams'[k].size = drams[k].size /\ Len(drams'[k].memory) = Len(drams[k].memory)

LEMMA FillTypes ==
  ASSUME TypesInv, NEW id \in DOMAIN drams,
         NEW memory \in Seq(Memories(drams[id].size)), Len(memory) = Len(drams[id].memory),
         drams' = [drams EXCEPT ![id].memory = memory],
         NEW e \in Calls, e.dram \in DOMAIN drams, log' = Append(log, e),
         sections' \in Seq(Listed), Len(sections) <= Len(sections'),
         UNCHANGED <<section_index, pc>>
  PROVE  TypesInv' /\ SameShape
<1>1. PICK n \in Nat : n = Len(drams) /\ DOMAIN drams = 1 .. n /\ drams \in Seq(Drams)
  BY LenProperties DEF TypesInv
<1>2. /\ DOMAIN drams' = DOMAIN drams
      /\ \A k \in DOMAIN drams : k # id => drams'[k] = drams[k]
      /\ drams'[id] = [drams[id] EXCEPT !.memory = memory]
  BY <1>1
<1>3. drams[id] \in Drams /\ drams[id].size \in Sizes
  BY DramOf
<1>4. /\ drams'[id].size = drams[id].size /\ drams'[id].memory = memory
      /\ drams'[id].store = drams[id].store
  BY <1>2, <1>3 DEF Drams
<1>5. \A ch \in DOMAIN memory : memory[ch] \in Memories(drams[id].size)
  BY ElementOfSeq, LenProperties
<1>6. memory \in Seq(UNION {Memories(s) : s \in Sizes})
  <2>1. \A x \in Memories(drams[id].size) : x \in UNION {Memories(s) : s \in Sizes}
    BY <1>3
  <2>2. PICK l \in Nat : l = Len(memory) /\ DOMAIN memory = 1 .. l
    BY LenProperties
  <2>3. memory \in [1 .. l -> UNION {Memories(s) : s \in Sizes}]
    <3>1. memory = [ch \in 1 .. l |-> memory[ch]]
      BY <2>2, SeqDef
    <3>2. \A ch \in 1 .. l : memory[ch] \in UNION {Memories(s) : s \in Sizes}
      BY <1>5, <2>1, <2>2
    <3> QED BY <3>1, <3>2
  <2>4. PICK S : S = UNION {Memories(s) : s \in Sizes}
    OBVIOUS
  <2>5. memory \in Seq(S)
    BY <2>3, <2>4, FunIsSeq
  <2> QED BY <2>4, <2>5
<1>7. drams'[id] \in Drams
  <2>1. drams[id] = [size |-> drams[id].size, store |-> drams[id].store,
                     memory |-> drams[id].memory]
        /\ drams[id].store \in BOOLEAN
    BY <1>3 DEF Drams
  <2>2. drams'[id] = [size |-> drams[id].size, store |-> drams[id].store, memory |-> memory]
    BY <1>2, <2>1
  <2> QED BY <1>3, <1>6, <2>1, <2>2 DEF Drams
<1>8. drams' \in Seq(Drams)
  <2>1. \A k \in 1 .. n : drams'[k] \in Drams
    BY <1>1, <1>2, <1>7, ElementOfSeq
  <2>2. drams' = [k \in 1 .. n |-> drams'[k]]
    BY <1>1, <1>2
  <2>3. drams' \in [1 .. n -> Drams]
    BY <2>1, <2>2
  <2> QED BY <2>3, FunIsSeq
<1>9. SameShape
  BY <1>2, <1>4 DEF SameShape
<1>10. \A k \in DOMAIN drams' : \A ch \in DOMAIN drams'[k].memory :
         drams'[k].memory[ch] \in Memories(drams'[k].size)
  <2>1. \A k \in DOMAIN drams : \A ch \in DOMAIN drams[k].memory :
          drams[k].memory[ch] \in Memories(drams[k].size)
    BY DEF TypesInv, TypeOK, Memories
  <2> QED BY <1>2, <1>4, <1>5, <2>1
<1>11. section_index' \in 0 .. Len(sections')
  <2>1. Len(sections) \in Nat /\ Len(sections') \in Nat
    BY LenProperties DEF TypesInv
  <2>2. section_index \in 0 .. Len(sections)
    BY DEF TypesInv, TypeOK
  <2> QED BY <2>1, <2>2
<1>12. TypeOK'
  BY <1>10, <1>11 DEF TypesInv, TypeOK, Memories
<1>13. \A k \in DOMAIN drams' : Len(drams'[k].memory) # 0
  BY <1>9 DEF SameShape, TypesInv
<1>14. log' \in Seq(Calls) /\ \A k \in DOMAIN log' : log'[k].dram \in DOMAIN drams'
  <2>1. PICK l \in Nat : l = Len(log) /\ DOMAIN log = 1 .. l /\ log \in Seq(Calls)
    BY LenProperties DEF TypesInv
  <2>2. /\ log' \in Seq(Calls) /\ Len(log') = l + 1 /\ log'[l + 1] = e
        /\ \A k \in 1 .. l : log'[k] = log[k]
    BY <2>1, AppendProperties
  <2>3. DOMAIN log' = 1 .. l + 1
    BY <2>2, LenProperties
  <2>4. \A k \in 1 .. l + 1 : k \in 1 .. l \/ k = l + 1
    BY <2>1
  <2>5. \A k \in 1 .. l : log[k].dram \in DOMAIN drams
    BY <2>1 DEF TypesInv
  <2> QED BY <1>2, <2>2, <2>3, <2>4, <2>5
<1> QED BY <1>8, <1>9, <1>12, <1>13, <1>14 DEF TypesInv

\* The log with one more entry.
LEMMA LogMore ==
  ASSUME TypesInv, NEW e, log' = Append(log, e)
  PROVE  \E l \in Nat : /\ DOMAIN log = 1 .. l /\ DOMAIN log' = 1 .. l + 1
                        /\ log'[l + 1] = e /\ \A k \in 1 .. l : log'[k] = log[k]
<1>1. PICK l \in Nat : l = Len(log) /\ DOMAIN log = 1 .. l
  BY LenProperties DEF TypesInv
<1>2. PICK S : log \in Seq(S) /\ e \in S
  <2>1. log \in Seq(Calls \cup {e})
    <3>1. \A k \in 1 .. l : log[k] \in Calls \cup {e}
      BY <1>1, ElementOfSeq DEF TypesInv
    <3>2. log = [k \in 1 .. l |-> log[k]]
      BY <1>1, SeqDef DEF TypesInv
    <3>3. log \in [1 .. l -> Calls \cup {e}]
      BY <3>1, <3>2
    <3> QED BY <3>3, FunIsSeq
  <2> QED BY <2>1
<1>3. /\ log' \in Seq(S) /\ Len(log') = l + 1 /\ log'[l + 1] = e
      /\ \A k \in 1 .. l : log'[k] = log[k]
  BY <1>1, <1>2, AppendProperties
<1>4. DOMAIN log' = 1 .. l + 1
  BY <1>3, LenProperties
<1> QED BY <1>1, <1>3, <1>4

-----------------------------------------------------------------------------
(* Binaries are loaded as a whole                                          *)

WholeEntry(e) ==
  \A i \in DOMAIN e.binary.headers :
    LET h == e.binary.headers[i]
    IN h.load /\ h.data # <<>> =>
         /\ e.base <= h.paddr
         /\ h.paddr + Len(h.data) - e.base <= drams[e.dram].size

LEMMA WholeStep ==
  ASSUME TypesInv, LoadedWhole, SameShape, NEW e, e.dram \in DOMAIN drams,
         log' = Append(log, e), e.op = "elf" => WholeEntry(e)
  PROVE  LoadedWhole'
<1>1. PICK l \in Nat : /\ DOMAIN log = 1 .. l /\ DOMAIN log' = 1 .. l + 1
                       /\ log'[l + 1] = e /\ \A k \in 1 .. l : log'[k] = log[k]
  BY LogMore
<1> SUFFICES ASSUME NEW n \in 1 .. l + 1, log'[n].op = "elf",
                    NEW i \in DOMAIN log'[n].binary.headers,
                    log'[n].binary.headers[i].load, log'[n].binary.headers[i].data # <<>>
             PROVE  /\ log'[n].base <= log'[n].binary.headers[i].paddr
                    /\ log'[n].binary.headers[i].paddr + Len(log'[n].binary.headers[i].data)
                         - log'[n].base <= drams'[log'[n].dram].size
  BY <1>1, Zenon DEF LoadedWhole
<1>2. CASE n = l + 1
  <2>1. log'[n] = e /\ drams'[e.dram].size = drams[e.dram].size
    BY <1>1, <1>2 DEF SameShape
  <2> QED BY <2>1, Zenon DEF WholeEntry
<1>3. CASE n # l + 1
  <2>1. n \in 1 .. l
    BY <1>3
  <2>2. log'[n] = log[n] /\ n \in DOMAIN log /\ log[n].dram \in DOMAIN drams
    BY <1>1, <2>1 DEF TypesInv
  <2>3. drams'[log[n].dram].size = drams[log[n].dram].size
    BY <2>2 DEF SameShape
  <2> QED BY <2>2, <2>3, Zenon DEF LoadedWhole
<1> QED BY <1>2, <1>3

-----------------------------------------------------------------------------
(* Bytes                                                                   *)

\* What an entry may have left, given the number of the DRAM's last channel.
Leaves(e, id, last, ch, a) ==
  IF e.dram # id THEN {}
  ELSE CASE e.op = "bytes" -> IF a = e.addr THEN {e.data[1]} ELSE {}
         [] e.op = "file" -> IF a - e.addr + 1 \in DOMAIN e.lines
                             THEN Reads(e.lines[a - e.addr + 1]) ELSE {}
         [] OTHER ->
              LET hs == Holding(e.binary, e.base + a)
              IN IF ch # last \/ hs = {} THEN {}
                 ELSE LET h == e.binary.headers[CHOOSE i \in hs : \A j \in hs : j <= i]
                      IN {h.data[e.base + a - h.paddr + 1]}

LEMMA LeftLeaves ==
  ASSUME NEW e, NEW id, NEW ch, NEW a
  PROVE  Left(e, id, ch, a) = Leaves(e, id, Len(drams[id].memory), ch, a)
BY Zenon DEF Left, Leaves

\* A byte is what the last entry left that left something, or zero.
ByteInv(id, ch, a) ==
  LET last == Len(drams[id].memory)
      byte == drams[id].memory[ch][a]
  IN /\ (\A n \in DOMAIN log : Leaves(log[n], id, last, ch, a) = {}) => byte = 0
     /\ \A n \in DOMAIN log :
          /\ Leaves(log[n], id, last, ch, a) # {}
          /\ \A k \in DOMAIN log : k > n => Leaves(log[k], id, last, ch, a) = {}
          => byte \in Leaves(log[n], id, last, ch, a)

BytesInv ==
  \A id \in DOMAIN drams : \A ch \in 1 .. Len(drams[id].memory) :
    \A a \in 0 .. drams[id].size - 1 : ByteInv(id, ch, a)

\* A call that leaves at each place what its entry says, and nothing where it
\* says nothing.
Fills(e) ==
  \A id \in DOMAIN drams : \A ch \in 1 .. Len(drams[id].memory) :
    \A a \in 0 .. drams[id].size - 1 :
      LET left == Leaves(e, id, Len(drams[id].memory), ch, a)
      IN /\ left = {} => drams'[id].memory[ch][a] = drams[id].memory[ch][a]
         /\ left # {} => drams'[id].memory[ch][a] \in left

LEMMA BytesStep ==
  ASSUME TypesInv, BytesInv, SameShape, NEW e, log' = Append(log, e), Fills(e)
  PROVE  BytesInv'
<1>1. PICK l \in Nat : /\ DOMAIN log = 1 .. l /\ DOMAIN log' = 1 .. l + 1
                       /\ log'[l + 1] = e /\ \A k \in 1 .. l : log'[k] = log[k]
  BY LogMore
<1> SUFFICES ASSUME NEW id \in DOMAIN drams, NEW ch \in 1 .. Len(drams[id].memory),
                    NEW a \in 0 .. drams[id].size - 1
             PROVE  ByteInv(id, ch, a)'
  BY DEF SameShape, BytesInv
<1>2. PICK last : last = Len(drams[id].memory) /\ Len(drams'[id].memory) = last
  BY DEF SameShape
<1>3. PICK byte, new : byte = drams[id].memory[ch][a] /\ new = drams'[id].memory[ch][a]
  OBVIOUS
<1> DEFINE left(n) == Leaves(log[n], id, last, ch, a)
           now(n) == Leaves(log'[n], id, last, ch, a)
<1>4. /\ (\A n \in 1 .. l : left(n) = {}) => byte = 0
      /\ \A n \in 1 .. l : left(n) # {} /\ (\A k \in 1 .. l : k > n => left(k) = {}) => byte \in left(n)
  <2>1. ByteInv(id, ch, a)
    BY DEF BytesInv
  <2>2. \A n : Leaves(log[n], id, Len(drams[id].memory), ch, a) = left(n)
    BY <1>2, Zenon
  <2> HIDE DEF left
  <2> QED BY <1>1, <1>3, <2>1, <2>2, Zenon DEF ByteInv
<1>5. now(l + 1) = {} => new = byte
  BY <1>1, <1>2, <1>3 DEF Fills
<1>6. now(l + 1) # {} => new \in now(l + 1)
  BY <1>1, <1>2, <1>3 DEF Fills
<1>7. \A n \in 1 .. l : now(n) = left(n)
  BY <1>1, Zenon
<1> HIDE DEF left, now
<1>8. \A n \in 1 .. l + 1 : n \in 1 .. l \/ n = l + 1
  OBVIOUS
<1>9. (\A n \in 1 .. l + 1 : now(n) = {}) => new = 0
  <2>1. l + 1 \in 1 .. l + 1 /\ \A n \in 1 .. l : n \in 1 .. l + 1
    OBVIOUS
  <2> QED BY <1>4, <1>5, <1>7, <2>1, Zenon
<1>10. ASSUME NEW n \in 1 .. l + 1, now(n) # {}, \A k \in 1 .. l + 1 : k > n => now(k) = {}
       PROVE  new \in now(n)
  <2>1. CASE n = l + 1
    BY <1>6, <1>10, <2>1
  <2>2. CASE n # l + 1
    <3>1. n \in 1 .. l /\ l + 1 > n /\ l + 1 \in 1 .. l + 1
      BY <2>2
    <3>2. new = byte /\ left(n) # {}
      BY <1>5, <1>7, <1>10, <3>1
    <3>3. \A k \in 1 .. l : k > n => left(k) = {}
      BY <1>7, <1>10
    <3>4. byte \in left(n)
      BY <1>4, <3>1, <3>2, <3>3
    <3> QED BY <1>7, <3>1, <3>2, <3>4
  <2> QED BY <2>1, <2>2
<1> QED BY <1>1, <1>2, <1>3, <1>9, <1>10, Zenon DEF ByteInv, now

-----------------------------------------------------------------------------
(* The inductive invariant and the steps                                   *)

PreloadInv == TypesInv /\ LoadedWhole /\ BytesInv

LEMMA PreloadInit == Init => PreloadInv
<1> SUFFICES ASSUME Init PROVE LoadedWhole /\ BytesInv
  BY TypesInit DEF PreloadInv
<1>1. DOMAIN log = {} /\ DOMAIN drams = {}
  BY DEF Init
<1> QED BY <1>1 DEF LoadedWhole, BytesInv

\* A step that touches neither the memories nor the log.
LEMMA Untouched ==
  ASSUME PreloadInv, UNCHANGED <<drams, sections, log>>,
         section_index' \in 0 .. Len(sections), pc' \in {"running", "aborted"}
  PROVE  PreloadInv'
<1>1. TypesInv'
  BY DEF PreloadInv, TypesInv, TypeOK
<1>2. LoadedWhole'
  BY DEF PreloadInv, LoadedWhole
<1>3. BytesInv'
  <2>1. \A id, ch, a : ByteInv(id, ch, a)' = ByteInv(id, ch, a)
    BY DEF ByteInv
  <2> QED BY <2>1 DEF PreloadInv, BytesInv
<1> QED BY <1>1, <1>2, <1>3 DEF PreloadInv

LEMMA AbortStep == PreloadInv /\ Abort => PreloadInv'
<1> SUFFICES ASSUME PreloadInv, Abort PROVE PreloadInv'
  OBVIOUS
<1>1. section_index' \in 0 .. Len(sections)
  BY DEF Abort, PreloadInv, TypesInv, TypeOK
<1> QED BY <1>1, Untouched DEF Abort

\* A new DRAM holds zeros, and no entry of the log is about it.
LEMMA AddDramStep ==
  ASSUME PreloadInv, NEW c \in Configurations, add_dram(c) PROVE PreloadInv'
<1> DEFINE zeros == [a \in 0 .. c.size - 1 |-> 0]
           memory == [ch \in 1 .. c.channels |-> zeros]
           d == [size |-> c.size, store |-> c.store, memory |-> memory]
<1>1. drams' = Append(drams, d) /\ UNCHANGED <<sections, section_index, pc, log>>
  BY DEF add_dram
<1>2. PICK l \in Nat : DOMAIN drams = 1 .. l /\ l = Len(drams) /\ drams \in Seq(Drams)
  BY LenProperties DEF PreloadInv, TypesInv
<1>3. c.channels \in Nat \ {0} /\ c.size \in Nat \ {0} /\ c.store \in BOOLEAN /\ 0 \in Byte
  BY PreloadConstants DEF Byte
<1>4. zeros \in Memories(c.size)
  BY <1>3 DEF Memories
<1> HIDE DEF zeros
<1>5. memory \in Seq(UNION {Memories(s) : s \in Sizes}) /\ Len(memory) = c.channels
  <2>1. zeros \in UNION {Memories(s) : s \in Sizes}
    BY <1>4 DEF Sizes
  <2>2. PICK S : S = UNION {Memories(s) : s \in Sizes}
    OBVIOUS
  <2>3. memory \in [1 .. c.channels -> S]
    BY <2>1, <2>2
  <2> HIDE DEF memory
  <2>4. memory \in Seq(S) /\ Len(memory) = c.channels
    BY <1>3, <2>3, FunIsSeq
  <2> QED BY <2>2, <2>4
<1>6. \A ch \in 1 .. c.channels : memory[ch] = zeros
  OBVIOUS
<1>7. DOMAIN memory = 1 .. c.channels
  OBVIOUS
<1> HIDE DEF memory
<1>8. d \in Drams /\ d.size = c.size /\ d.memory = memory
  BY <1>3, <1>5 DEF Drams, Sizes
<1> HIDE DEF d
<1>9. /\ drams' \in Seq(Drams) /\ DOMAIN drams' = 1 .. l + 1 /\ drams'[l + 1] = d
      /\ \A k \in 1 .. l : drams'[k] = drams[k]
  BY <1>1, <1>2, <1>8, AppendProperties, LenProperties
<1>10. \A k \in 1 .. l + 1 : k \in 1 .. l \/ k = l + 1
  OBVIOUS
<1>11. \A n \in DOMAIN log : log[n].dram \in 1 .. l
  BY <1>2 DEF PreloadInv, TypesInv
<1>12. TypesInv'
  <2>1. \A k \in 1 .. l + 1 : \A ch \in DOMAIN drams'[k].memory :
          drams'[k].memory[ch] \in [0 .. drams'[k].size - 1 -> Byte]
    <3>1. \A k \in 1 .. l : \A ch \in DOMAIN drams[k].memory :
            drams[k].memory[ch] \in [0 .. drams[k].size - 1 -> Byte]
      BY <1>2 DEF PreloadInv, TypesInv, TypeOK
    <3>2. \A ch \in DOMAIN d.memory : d.memory[ch] \in [0 .. d.size - 1 -> Byte]
      BY <1>4, <1>6, <1>7, <1>8 DEF Memories
    <3> QED BY <1>9, <1>10, <3>1, <3>2
  <2>2. \A k \in 1 .. l + 1 : Len(drams'[k].memory) # 0
    <3>1. \A k \in 1 .. l : Len(drams[k].memory) # 0
      BY <1>2 DEF PreloadInv, TypesInv
    <3> QED BY <1>3, <1>5, <1>8, <1>9, <1>10, <3>1
  <2>3. \A n \in DOMAIN log : log[n].dram \in 1 .. l + 1
    BY <1>11
  <2> QED BY <1>1, <1>9, <2>1, <2>2, <2>3 DEF PreloadInv, TypesInv, TypeOK
<1>13. LoadedWhole'
  <2>1. \A n \in DOMAIN log : drams'[log[n].dram] = drams[log[n].dram]
    BY <1>9, <1>11
  <2> QED BY <1>1, <2>1 DEF PreloadInv, LoadedWhole
<1>14. BytesInv'
  <2> SUFFICES ASSUME NEW id \in 1 .. l + 1, NEW ch \in 1 .. Len(drams'[id].memory),
                      NEW a \in 0 .. drams'[id].size - 1
               PROVE  ByteInv(id, ch, a)'
    BY <1>9 DEF BytesInv
  <2>1. CASE id \in 1 .. l
    <3>1. drams'[id] = drams[id] /\ id \in DOMAIN drams
      BY <1>2, <1>9, <2>1
    <3>2. ByteInv(id, ch, a)
      BY <3>1 DEF PreloadInv, BytesInv
    <3> QED BY <1>1, <3>1, <3>2 DEF ByteInv
  <2>2. CASE id = l + 1
    <3>1. \A n \in DOMAIN log : Leaves(log[n], id, Len(drams'[id].memory), ch, a) = {}
      <4>1. \A n \in DOMAIN log : log[n].dram # id
        BY <1>11, <2>2
      <4> QED BY <4>1 DEF Leaves
    <3>2. drams'[id].memory[ch][a] = 0
      <4>1. ch \in 1 .. c.channels /\ a \in 0 .. c.size - 1 /\ drams'[id].memory[ch] = zeros
        BY <1>5, <1>6, <1>8, <1>9, <2>2
      <4> QED BY <4>1 DEF zeros
    <3> QED BY <1>1, <3>1, <3>2 DEF ByteInv
  <2> QED BY <1>10, <2>1, <2>2
<1> QED BY <1>12, <1>13, <1>14 DEF PreloadInv

\* What an entry leaves of bytes in a row.
RowOf(e, id, addr, n, data, size) ==
  \A last, ch : \A a \in 0 .. size - 1 :
    /\ a - addr + 1 \notin 1 .. n => Leaves(e, id, last, ch, a) = {}
    /\ a - addr + 1 \in 1 .. n => data[a - addr + 1] \in Leaves(e, id, last, ch, a)

\* Bytes in a row go to every channel.
LEMMA RowStep ==
  ASSUME PreloadInv, NEW id \in DOMAIN drams, NEW addr \in Nat, NEW n \in Nat,
         NEW data, DOMAIN data = 1 .. n, \A i \in 1 .. n : data[i] \in Byte,
         drams' = Preloaded(id, addr, data),
         NEW e \in Calls, e.dram = id, e.op # "elf", log' = Append(log, e),
         RowOf(e, id, addr, n, data, drams[id].size),
         UNCHANGED <<sections, section_index, pc>>
  PROVE  PreloadInv'
<1> DEFINE old == drams[id].memory
           memory == [ch \in DOMAIN old |-> Filled(old[ch], addr, data)]
<1>1. TypesInv /\ LoadedWhole /\ BytesInv
  BY DEF PreloadInv
<1>2. PICK size \in Nat, l \in Nat :
        /\ size = drams[id].size /\ l = Len(old) /\ DOMAIN old = 1 .. l
        /\ old \in Seq(Memories(size)) /\ drams[id] \in Drams
  <2>1. /\ drams[id].size \in Nat /\ Len(old) \in Nat /\ DOMAIN old = 1 .. Len(old)
        /\ old \in Seq(Memories(drams[id].size)) /\ drams[id] \in Drams
    BY <1>1, DramOf
  <2> QED BY <2>1, Zenon
<1>3. \A ch \in 1 .. l : old[ch] \in Memories(size)
  BY <1>2, ElementOfSeq
<1>4. drams' = [drams EXCEPT ![id].memory = memory]
  BY Zenon DEF Preloaded
<1> HIDE DEF old
<1>5. /\ \A ch \in 1 .. l : memory[ch] \in Memories(size)
      /\ \A ch \in 1 .. l : \A a \in 0 .. size - 1 :
           memory[ch][a] = IF a - addr + 1 \in 1 .. n THEN data[a - addr + 1] ELSE old[ch][a]
  <2> SUFFICES ASSUME NEW ch \in 1 .. l
               PROVE  /\ memory[ch] \in Memories(size)
                      /\ \A a \in 0 .. size - 1 :
                           memory[ch][a] =
                             IF a - addr + 1 \in 1 .. n THEN data[a - addr + 1] ELSE old[ch][a]
    OBVIOUS
  <2>1. PICK m \in Memories(size) : m = old[ch]
    BY <1>3
  <2>2. memory[ch] = Filled(m, addr, data)
    BY <1>2, <2>1
  <2>3. /\ Filled(m, addr, data) \in Memories(size)
        /\ \A a \in 0 .. size - 1 :
             Filled(m, addr, data)[a] =
               IF a - addr + 1 \in 1 .. n THEN data[a - addr + 1] ELSE m[a]
    BY FilledType
  <2> QED BY <2>1, <2>2, <2>3, Zenon
<1>6. memory \in Seq(Memories(size)) /\ Len(memory) = l
  <2>1. memory \in [1 .. l -> Memories(size)]
    BY <1>2, <1>5
  <2> HIDE DEF memory
  <2> QED BY <2>1, FunIsSeq
<1> HIDE DEF memory
<1>7. sections' \in Seq(Listed) /\ Len(sections) <= Len(sections')
  BY <1>1, LenProperties DEF TypesInv
<1>8. TypesInv' /\ SameShape
  BY <1>1, <1>2, <1>4, <1>6, <1>7, FillTypes DEF old
<1>9. LoadedWhole'
  BY <1>1, <1>8, WholeStep
<1>10. Fills(e)
  <2> SUFFICES ASSUME NEW k \in DOMAIN drams, NEW ch \in 1 .. Len(drams[k].memory),
                      NEW a \in 0 .. drams[k].size - 1
               PROVE  LET left == Leaves(e, k, Len(drams[k].memory), ch, a)
                      IN /\ left = {} => drams'[k].memory[ch][a] = drams[k].memory[ch][a]
                         /\ left # {} => drams'[k].memory[ch][a] \in left
    BY Zenon DEF Fills
  <2>1. CASE k # id
    <3>1. Leaves(e, k, Len(drams[k].memory), ch, a) = {}
      BY <2>1 DEF Leaves
    <3>2. drams'[k] = drams[k]
      BY <1>4, <2>1
    <3> QED BY <3>1, <3>2
  <2>2. CASE k = id
    <3>1. ch \in 1 .. l /\ a \in 0 .. size - 1
      BY <1>2, <2>2 DEF old
    <3>2. drams'[k].memory = memory /\ drams[k].memory = old
      BY <1>2, <1>4, <2>2 DEF old, Drams
    <3>3. memory[ch][a] = IF a - addr + 1 \in 1 .. n THEN data[a - addr + 1] ELSE old[ch][a]
      BY <1>5, <3>1
    <3>4. PICK left : left = Leaves(e, id, Len(drams[id].memory), ch, a)
      OBVIOUS
    <3>5. /\ a - addr + 1 \notin 1 .. n => left = {}
          /\ a - addr + 1 \in 1 .. n => data[a - addr + 1] \in left
      BY <1>2, <3>1, <3>4 DEF RowOf
    <3>6. /\ left = {} => drams'[id].memory[ch][a] = drams[id].memory[ch][a]
          /\ left # {} => drams'[id].memory[ch][a] \in left
      BY <2>2, <3>2, <3>3, <3>5
    <3> QED BY <2>2, <3>4, <3>6, Zenon
  <2> QED BY <2>1, <2>2
<1>11. BytesInv'
  BY <1>1, <1>8, <1>10, BytesStep
<1> QED BY <1>8, <1>9, <1>11 DEF PreloadInv

LEMMA PreloadByteStep ==
  ASSUME PreloadInv, NEW id \in DOMAIN drams, NEW addr \in 0 .. AddressSpace - 1,
         NEW byte \in Byte, dram_preload_byte(id, addr, byte)
  PROVE  PreloadInv'
<1>1. CASE Abort
  BY <1>1, AbortStep
<1>2. CASE ~Abort
  <2> DEFINE data == <<byte>>
             e == [op |-> "bytes", dram |-> id, addr |-> addr, data |-> data]
  <2>1. drams' = Preloaded(id, addr, data) /\ log' = Append(log, e)
        /\ UNCHANGED <<sections, section_index, pc>>
    BY <1>2 DEF dram_preload_byte
  <2>2. addr \in Nat /\ id \in Nat
    BY PreloadConstants, DramOf DEF PreloadInv
  <2>3. DOMAIN data = 1 .. 1 /\ (\A i \in 1 .. 1 : data[i] \in Byte) /\ data \in Seq(Byte)
    OBVIOUS
  <2>4. data[1] = byte
    OBVIOUS
  <2> HIDE DEF data
  <2>5. e \in Calls /\ e.dram = id /\ e.op = "bytes" /\ e.addr = addr /\ e.data = data
    BY <2>2, <2>3 DEF Calls
  <2> HIDE DEF e
  <2>6. RowOf(e, id, addr, 1, data, drams[id].size)
    <3> SUFFICES ASSUME NEW last, NEW ch, NEW a \in 0 .. drams[id].size - 1
                 PROVE  /\ a - addr + 1 \notin 1 .. 1 => Leaves(e, id, last, ch, a) = {}
                        /\ a - addr + 1 \in 1 .. 1 =>
                             data[a - addr + 1] \in Leaves(e, id, last, ch, a)
      BY DEF RowOf
    <3>1. Leaves(e, id, last, ch, a) = IF a = addr THEN {byte} ELSE {}
      BY <2>4, <2>5 DEF Leaves
    <3>2. a \in Int
      OBVIOUS
    <3>3. (a - addr + 1 \in 1 .. 1 <=> a = addr) /\ (a = addr => a - addr + 1 = 1)
      BY <2>2, <3>2
    <3> QED BY <2>4, <3>1, <3>3
  <2>7. 1 \in Nat /\ e.op # "elf"
    BY <2>5
  <2> QED BY <2>1, <2>2, <2>3, <2>5, <2>6, <2>7, RowStep, Zenon
<1> QED BY <1>1, <1>2

\* Without a file nothing happens.
LEMMA NothingStep == PreloadInv /\ UNCHANGED vars => PreloadInv'
<1> SUFFICES ASSUME PreloadInv, UNCHANGED vars PROVE PreloadInv'
  OBVIOUS
<1>1. section_index' \in 0 .. Len(sections) /\ pc' \in {"running", "aborted"}
  BY DEF vars, PreloadInv, TypesInv, TypeOK
<1> QED BY <1>1, Untouched DEF vars

LEMMA MemfileStep ==
  ASSUME PreloadInv, NEW id \in DOMAIN drams, NEW addr \in 0 .. AddressSpace - 1,
         NEW f \in MemFiles \cup {NoFile}, dram_load_memfile(id, addr, f)
  PROVE  PreloadInv'
<1>1. CASE f = NoFile
  BY <1>1, NothingStep DEF dram_load_memfile
<1>2. CASE Abort
  BY <1>2, AbortStep
<1>3. CASE f # NoFile /\ ~Abort
  <2>1. f \in MemFiles
    BY <1>3
  <2> DEFINE e == [op |-> "file", dram |-> id, addr |-> addr, lines |-> f]
  <2>2. PICK data \in BytesOf(f) :
          drams' = Preloaded(id, addr, data) /\ log' = Append(log, e)
          /\ UNCHANGED <<sections, section_index, pc>>
    BY <1>3 DEF dram_load_memfile
  <2>3. PICK n \in Nat : DOMAIN f = 1 .. n
    BY <2>1, FileConstants
  <2>4. /\ DOMAIN data = 1 .. n /\ \A i \in 1 .. n : data[i] \in Byte
        /\ \A i \in 1 .. n : data[i] \in Reads(f[i])
    BY <2>3 DEF BytesOf
  <2>5. addr \in Nat /\ id \in Nat
    BY PreloadConstants, DramOf DEF PreloadInv
  <2>6. e \in Calls /\ e.dram = id /\ e.op = "file" /\ e.addr = addr /\ e.lines = f
    BY <2>1, <2>5 DEF Calls
  <2> HIDE DEF e
  <2>7. RowOf(e, id, addr, n, data, drams[id].size)
    <3> SUFFICES ASSUME NEW last, NEW ch, NEW a \in 0 .. drams[id].size - 1
                 PROVE  /\ a - addr + 1 \notin 1 .. n => Leaves(e, id, last, ch, a) = {}
                        /\ a - addr + 1 \in 1 .. n =>
                             data[a - addr + 1] \in Leaves(e, id, last, ch, a)
      BY DEF RowOf
    <3>1. Leaves(e, id, last, ch, a) =
            IF a - addr + 1 \in 1 .. n THEN Reads(f[a - addr + 1]) ELSE {}
      BY <2>3, <2>6 DEF Leaves
    <3> QED BY <2>4, <3>1, Zenon
  <2>8. e.op # "elf"
    BY <2>6
  <2> QED BY <2>2, <2>4, <2>5, <2>6, <2>7, <2>8, RowStep, Zenon
<1> QED BY <1>1, <1>2, <1>3

\* The greatest of some numbers up to k.
LEMMA BestOf ==
  ASSUME NEW k \in Nat, NEW H, H \subseteq 1 .. k
  PROVE  /\ {j \in H : j <= k} = H
         /\ H # {} => LET best == CHOOSE j \in H : \A n \in H : n <= j
                      IN best \in H /\ \A n \in H : n <= best
<1>1. \A j \in H : j <= k
  OBVIOUS
<1>2. H # {} => \E j \in H : \A n \in H : n <= j
  <2>1. H \in SUBSET (0 .. k)
    OBVIOUS
  <2> QED BY <2>1, GreatestNat
<1> QED BY <1>1, <1>2, Zenon

\* The segments of a binary go to the last channel.
LEMMA ElfStep ==
  ASSUME PreloadInv, NEW id \in DOMAIN drams, NEW base \in Bases,
         NEW b \in Binaries \cup {NoFile}, dram_load_elf(id, base, b)
  PROVE  PreloadInv'
<1>1. CASE b = NoFile
  BY <1>1, NothingStep DEF dram_load_elf
<1>2. CASE Abort
  BY <1>2, AbortStep
<1>3. CASE b # NoFile /\ ~Abort
  <2>1. b \in Binaries /\ LoadsWell(b, base, drams[id])
    BY <1>3 DEF dram_load_elf
  <2>2. PICK last \in Nat \ {0}, size \in 1 .. AddressSpace - 1, bs \in Nat, k \in Nat :
          /\ last = Len(drams[id].memory) /\ size = drams[id].size /\ size \in Nat
          /\ bs = base /\ bs + size <= AddressSpace /\ k = Len(b.headers)
    <3>1. TypesInv
      BY DEF PreloadInv
    <3>2. /\ Len(drams[id].memory) \in Nat \ {0} /\ drams[id].size \in 1 .. AddressSpace - 1
          /\ drams[id].size \in Nat /\ base \in Nat /\ base + drams[id].size <= AddressSpace
          /\ Len(b.headers) \in Nat
      BY <2>1, <3>1, DramOf, HeadersOf
    <3> QED BY <3>2, Zenon
  <2>3. /\ id \in Nat /\ drams[id] \in Drams /\ DOMAIN drams[id].memory = 1 .. last
        /\ drams[id].memory \in Seq(Memories(size))
    BY <2>2, DramOf DEF PreloadInv
  <2> DEFINE old == drams[id].memory
             loop == HeaderLoop(b, bs, old[last], sections)
             done == loop[k]
             memory == [old EXCEPT ![last] = done.memory]
             e == [op |-> "elf", dram |-> id, base |-> base, binary |-> b]
  <2>4. /\ drams' = [drams EXCEPT ![id].memory[last] = done.memory]
        /\ sections' = done.sections /\ log' = Append(log, e)
        /\ UNCHANGED <<section_index, pc>>
    BY <1>3, <2>1, <2>2 DEF dram_load_elf
  <2>5. drams' = [drams EXCEPT ![id].memory = memory]
    BY <2>3, <2>4 DEF Drams
  <2>6. WholeIn(b, bs, size)
    <3>1. PICK dram : dram = drams[id]
      OBVIOUS
    <3> QED BY <2>1, <2>2, <3>1, WellIsWhole
  <2>7. e \in Calls /\ e.dram = id /\ e.op = "elf" /\ e.base = bs /\ e.binary = b
    BY <2>1, <2>2, <2>3 DEF Calls
  <2> HIDE DEF loop, old, e
  <2>8. PICK m \in Memories(size) : m = old[last]
    BY <2>2, <2>3, ElementOfSeq DEF old
  <2>9. sections \in Seq(Listed) /\ k \in 0 .. k
    BY <2>2 DEF PreloadInv, TypesInv
  <2>10. /\ done.memory \in Memories(size) /\ done.sections \in Seq(Listed)
         /\ Len(sections) <= Len(done.sections)
    BY <2>1, <2>2, <2>8, <2>9, LoopTypes DEF loop
  <2>11. \A a \in 0 .. size - 1 :
           LET hs == {i \in Holding(b, bs + a) : i <= k}
           IN /\ hs = {} => done.memory[a] = m[a]
              /\ \A i \in hs : (\A j \in hs : j <= i) =>
                   done.memory[a] = b.headers[i].data[bs + a - b.headers[i].paddr + 1]
    <3> SUFFICES ASSUME NEW a \in 0 .. size - 1
                 PROVE  LET hs == {i \in Holding(b, bs + a) : i <= k}
                        IN /\ hs = {} => done.memory[a] = m[a]
                           /\ \A i \in hs : (\A j \in hs : j <= i) =>
                                done.memory[a] = b.headers[i].data[bs + a - b.headers[i].paddr + 1]
      BY Zenon
    <3>0. b \in Binaries /\ bs \in Nat /\ size \in Nat
      BY <2>1, <2>2
    <3>1. PICK kk \in 0 .. Len(b.headers), listed \in Seq(Listed) : kk = k /\ listed = sections
      BY <2>2, <2>9, Zenon
    <3>2. LET byte == HeaderLoop(b, bs, m, listed)[kk].memory[a]
              hs == {i \in Holding(b, bs + a) : i <= kk}
          IN /\ hs = {} => byte = m[a]
             /\ \A i \in hs : (\A j \in hs : j <= i) =>
                  byte = b.headers[i].data[bs + a - b.headers[i].paddr + 1]
      BY <2>6, <3>0, LoopBytes
    <3>3. done.memory[a] = HeaderLoop(b, bs, m, listed)[kk].memory[a]
      BY <2>8, <3>1, Zenon DEF loop
    <3> HIDE DEF done
    <3> QED BY <3>1, <3>2, <3>3, Zenon
  <2> HIDE DEF done
  <2>12. /\ DOMAIN old = 1 .. last /\ old \in Seq(Memories(size)) /\ Len(old) = last
    BY <2>2, <2>3 DEF old
  <2>13. memory \in Seq(Memories(size)) /\ Len(memory) = last
    <3>1. \A ch \in 1 .. last : old[ch] \in Memories(size)
      BY <2>12, ElementOfSeq
    <3>2. PICK S : S = Memories(size)
      OBVIOUS
    <3>3. memory \in [1 .. last -> S]
      BY <2>10, <2>12, <3>1, <3>2
    <3> HIDE DEF memory
    <3>4. memory \in Seq(S) /\ Len(memory) = last
      BY <2>2, <3>3, FunIsSeq, Zenon
    <3> QED BY <3>2, <3>4, Zenon
  <2>14. memory[last] = done.memory /\ \A ch \in 1 .. last : ch # last => memory[ch] = old[ch]
    BY <2>2, <2>12
  <2> HIDE DEF memory
  <2>15. TypesInv' /\ SameShape
    <3>1. TypesInv
      BY DEF PreloadInv
    <3>2. memory \in Seq(Memories(drams[id].size)) /\ Len(memory) = Len(drams[id].memory)
      BY <2>2, <2>13
    <3>3. sections' \in Seq(Listed) /\ Len(sections) <= Len(sections')
      BY <2>4, <2>10
    <3>4. e \in Calls /\ e.dram \in DOMAIN drams
      BY <2>7
    <3> QED BY <2>4, <2>5, <3>1, <3>2, <3>3, <3>4, FillTypes
  <2>16. LoadedWhole'
    <3>1. WholeEntry(e)
      <4> SUFFICES ASSUME NEW i \in DOMAIN b.headers, b.headers[i].load, b.headers[i].data # <<>>
                   PROVE  /\ bs <= b.headers[i].paddr
                          /\ b.headers[i].paddr + Len(b.headers[i].data) - bs <= size
        BY <2>2, <2>7, Zenon DEF WholeEntry
      <4>1. Header(b.headers[i])
        BY <2>1, HeadersOf
      <4>2. b.headers[i].memsz # 0
        <5>1. PICK q \in Nat, z \in Nat :
                q = Len(b.headers[i].data) /\ z = b.headers[i].memsz /\ q <= z /\ q # 0
          <6>1. /\ Len(b.headers[i].data) \in Nat /\ b.headers[i].memsz \in Nat
                /\ Len(b.headers[i].data) <= b.headers[i].memsz /\ Len(b.headers[i].data) # 0
            BY <4>1, LenProperties, EmptySeq DEF Header
          <6> QED BY <6>1, Zenon
        <5> QED BY <5>1
      <4>3. i \in Loaded(b)
        BY <4>2 DEF Loaded
      <4> QED BY <2>6, <4>3 DEF WholeIn
    <3>2. e.dram \in DOMAIN drams
      BY <2>7
    <3> QED BY <2>4, <2>15, <3>1, <3>2, WholeStep DEF PreloadInv
  <2>17. Fills(e)
    <3> SUFFICES ASSUME NEW i \in DOMAIN drams, NEW ch \in 1 .. Len(drams[i].memory),
                        NEW a \in 0 .. drams[i].size - 1
                 PROVE  LET left == Leaves(e, i, Len(drams[i].memory), ch, a)
                        IN /\ left = {} => drams'[i].memory[ch][a] = drams[i].memory[ch][a]
                           /\ left # {} => drams'[i].memory[ch][a] \in left
      BY Zenon DEF Fills
    <3>1. CASE i # id
      <4>1. Leaves(e, i, Len(drams[i].memory), ch, a) = {}
        BY <2>7, <3>1 DEF Leaves
      <4>2. drams'[i] = drams[i]
        BY <2>5, <3>1
      <4> QED BY <4>1, <4>2
    <3>2. CASE i = id
      <4>1. ch \in 1 .. last /\ a \in 0 .. size - 1
        BY <2>2, <3>2
      <4>2. drams'[i].memory = memory /\ drams[i].memory = old
        BY <2>3, <2>5, <3>2 DEF old, Drams
      <4> DEFINE H == Holding(b, bs + a)
                 hs == {j \in H : j <= k}
                 Best == CHOOSE j \in H : \A n \in H : n <= j
                 Piece(j) == b.headers[j].data[bs + a - b.headers[j].paddr + 1]
      <4>3. Leaves(e, id, last, ch, a) = IF ch # last \/ H = {} THEN {} ELSE {Piece(Best)}
        BY <2>7 DEF Leaves
      <4>4. H \subseteq 1 .. k
        BY <2>1, <2>2, HeadersOf DEF Holding
      <4>5. /\ hs = {} => done.memory[a] = m[a]
            /\ \A j \in hs : (\A n \in hs : n <= j) => done.memory[a] = Piece(j)
        BY <2>11, <4>1, Zenon
      <4> HIDE DEF H, Piece
      <4>6. hs = H
        BY <2>2, <4>4, BestOf
      <4>7. /\ H = {} => done.memory[a] = m[a]
            /\ H # {} => done.memory[a] = Piece(Best)
        <5>1. SUFFICES ASSUME H # {} PROVE Best \in H /\ \A n \in H : n <= Best
          BY <4>5, <4>6
        <5> QED BY <2>2, <4>4, <5>1, BestOf, Zenon
      <4> HIDE DEF Best, hs
      <4>8. Leaves(e, i, Len(drams[i].memory), ch, a) =
              IF ch # last \/ H = {} THEN {} ELSE {Piece(Best)}
        BY <2>2, <3>2, <4>3, Zenon
      <4>9. /\ ch # last => drams'[i].memory[ch][a] = drams[i].memory[ch][a]
            /\ ch = last => /\ drams'[i].memory[ch][a] = done.memory[a]
                            /\ drams[i].memory[ch][a] = m[a]
        BY <2>8, <2>14, <4>1, <4>2
      <4>10. PICK left : left = Leaves(e, i, Len(drams[i].memory), ch, a)
        OBVIOUS
      <4>11. /\ left = {} => drams'[i].memory[ch][a] = drams[i].memory[ch][a]
             /\ left # {} => drams'[i].memory[ch][a] \in left
        BY <4>7, <4>8, <4>9, <4>10, Zenon
      <4> QED BY <4>10, <4>11, Zenon
    <3> QED BY <3>1, <3>2
  <2>18. BytesInv'
    BY <2>4, <2>15, <2>17, BytesStep DEF PreloadInv
  <2> QED BY <2>15, <2>16, <2>18 DEF PreloadInv
<1> QED BY <1>1, <1>2, <1>3

LEMMA PreloadStep == PreloadInv /\ [Next]_vars => PreloadInv'
<1> SUFFICES ASSUME PreloadInv, [Next]_vars PROVE PreloadInv'
  OBVIOUS
<1>1. CASE UNCHANGED vars
  BY <1>1, NothingStep
<1>2. ASSUME NEW c \in Configurations, add_dram(c) PROVE PreloadInv'
  BY <1>2, AddDramStep
<1>3. ASSUME NEW id \in DOMAIN drams, NEW addr \in 0 .. AddressSpace - 1, NEW byte \in Byte,
             dram_preload_byte(id, addr, byte)
      PROVE  PreloadInv'
  BY <1>3, PreloadByteStep
<1>4. ASSUME NEW id \in DOMAIN drams, NEW addr \in 0 .. AddressSpace - 1,
             dram_check_byte(id, addr)
      PROVE  PreloadInv'
  BY <1>4, AbortStep DEF dram_check_byte
<1>5. ASSUME NEW id \in DOMAIN drams, NEW addr \in 0 .. AddressSpace - 1,
             NEW f \in MemFiles \cup {NoFile}, dram_load_memfile(id, addr, f)
      PROVE  PreloadInv'
  BY <1>5, MemfileStep
<1>6. ASSUME NEW id \in DOMAIN drams, NEW base \in Bases, NEW b \in Binaries \cup {NoFile},
             dram_load_elf(id, base, b)
      PROVE  PreloadInv'
  BY <1>6, ElfStep
<1>7. CASE elfloader_get_section
  <2>1. Len(sections) \in Nat /\ section_index \in 0 .. Len(sections)
        /\ pc \in {"running", "aborted"}
    BY LenProperties DEF PreloadInv, TypesInv, TypeOK
  <2>2. section_index' \in 0 .. Len(sections) /\ UNCHANGED <<drams, sections, pc, log>>
    BY <1>7, <2>1 DEF elfloader_get_section
  <2> QED BY <2>1, <2>2, Untouched
<1> QED BY <1>1, <1>2, <1>3, <1>4, <1>5, <1>6, <1>7, Zenon DEF Next

THEOREM PreloadInvariant == Spec => []PreloadInv
BY PreloadInit, PreloadStep, PTL DEF Spec

\* The bytes the invariant is about are the ones of the property.
LEMMA BytesAreContents == TypesInv /\ BytesInv => Contents
<1> SUFFICES ASSUME TypesInv, BytesInv, NEW id \in DOMAIN drams,
                    NEW ch \in DOMAIN drams[id].memory, NEW a \in DOMAIN drams[id].memory[ch]
             PROVE  LET at == {n \in DOMAIN log : Left(log[n], id, ch, a) # {}}
                    IN drams[id].memory[ch][a] \in
                         IF at = {} THEN {0}
                         ELSE Left(log[CHOOSE n \in at : \A k \in at : k <= n], id, ch, a)
  BY Zenon DEF Contents
<1>1. ch \in 1 .. Len(drams[id].memory) /\ a \in 0 .. drams[id].size - 1
  <2>1. DOMAIN drams[id].memory = 1 .. Len(drams[id].memory)
    BY DramOf
  <2>2. drams[id].memory[ch] \in [0 .. drams[id].size - 1 -> Byte]
    BY DEF TypesInv, TypeOK
  <2> QED BY <2>1, <2>2
<1>2. PICK l \in Nat : DOMAIN log = 1 .. l
  BY LenProperties DEF TypesInv
<1>3. PICK byte : byte = drams[id].memory[ch][a]
  OBVIOUS
<1> DEFINE left(n) == Left(log[n], id, ch, a)
           at == {n \in DOMAIN log : left(n) # {}}
           best == CHOOSE n \in at : \A k \in at : k <= n
<1>4. /\ (\A n \in 1 .. l : left(n) = {}) => byte = 0
      /\ \A n \in 1 .. l : left(n) # {} /\ (\A k \in 1 .. l : k > n => left(k) = {})
                             => byte \in left(n)
  <2>1. ByteInv(id, ch, a)
    BY <1>1 DEF BytesInv
  <2>2. \A n : Leaves(log[n], id, Len(drams[id].memory), ch, a) = left(n)
    BY LeftLeaves, Zenon
  <2> HIDE DEF left
  <2> QED BY <1>2, <1>3, <2>1, <2>2, Zenon DEF ByteInv
<1> HIDE DEF left
<1>5. at \subseteq 1 .. l /\ \A n \in 1 .. l : n \notin at => left(n) = {}
  BY <1>2
<1>6. \A n \in at : left(n) # {}
  OBVIOUS
<1> HIDE DEF at
<1>7. byte \in IF at = {} THEN {0} ELSE left(best)
  <2>1. CASE at = {}
    BY <1>4, <1>5, <2>1
  <2>2. CASE at # {}
    <3>1. best \in at /\ \A k \in at : k <= best
      BY <1>2, <1>5, <2>2, BestOf, Zenon
    <3> HIDE DEF best
    <3>2. best \in 1 .. l /\ left(best) # {}
      BY <1>5, <1>6, <3>1
    <3>3. \A k \in 1 .. l : k > best => left(k) = {}
      <4> SUFFICES ASSUME NEW k \in 1 .. l, k > best, k \in at PROVE FALSE
        BY <1>5
      <4>1. k <= best
        BY <3>1
      <4> QED BY <3>2, <4>1
    <3> QED BY <1>4, <2>2, <3>2, <3>3
  <2> QED BY <2>1, <2>2
<1> QED BY <1>3, <1>7, Zenon DEF left, at, best

\* Whatever is loaded, the variables have the types of the program and the
\* list of segments is never read behind its end, elfloader_get_section.
THEOREM PreloadTypes == Spec => []TypeOK
<1>1. PreloadInv => TypeOK
  BY DEF PreloadInv, TypesInv
<1> QED BY <1>1, PreloadInvariant, PTL

\* A binary dram_load_elf returned from lies in its DRAM with every byte, for
\* any base and any size of an address: the assertion of write also holds a
\* segment below the base back, whose offset wraps around.
THEOREM LoadedAsAWhole == Spec => []LoadedWhole
<1>1. PreloadInv => LoadedWhole
  BY DEF PreloadInv
<1> QED BY <1>1, PreloadInvariant, PTL

\* After any calls of dram_preload_byte, dram_load_memfile and dram_load_elf,
\* in any order and into any DRAM, a byte of memory is what the last call that
\* concerns it gave, and zero where there was none.
THEOREM LastCallWins == Spec => []Contents
<1>1. PreloadInv => Contents
  BY BytesAreContents DEF PreloadInv
<1> QED BY <1>1, PreloadInvariant, PTL

-----------------------------------------------------------------------------
(* RtlStimuli.  The words of the stimuli: where an address is in them.     *)

\* The word an address is in.
LEMMA AlignedDown ==
  ASSUME NEW a \in Nat
  PROVE  /\ AlignedBase(a) \in Nat /\ AlignedBase(a) % width = 0
         /\ a % width \in 0 .. width - 1 /\ a = AlignedBase(a) + (a % width)
<1>0. width \in Nat \ {0}
  BY StimuliConstants
<1>1. PICK q \in Nat, r \in 0 .. width - 1 :
        /\ q = a \div width /\ r = a % width /\ a = width * q + r
  BY <1>0, DivMod
<1>2. PICK at \in Nat : at = width * q
  BY <1>0
<1>3. AlignedBase(a) = at /\ a = at + r
  BY <1>0, <1>1, <1>2 DEF AlignedBase
<1>4. at % width = 0
  <2>1. PICK d \in Nat, e \in 0 .. width - 1 : e = at % width /\ at = width * d + e
    BY <1>0, DivMod
  <2>2. 0 + width * q = e + width * d
    BY <1>0, <1>2, <2>1
  <2>3. 0 \in 0 .. width - 1
    BY <1>0
  <2>4. 0 = e
    BY <1>0, <2>2, <2>3, Digits
  <2> QED BY <2>1, <2>4
<1> QED BY <1>1, <1>3, <1>4

\* Every address of a word is in it, and in no other.
LEMMA AlignedBack ==
  ASSUME NEW at \in Nat, at % width = 0, NEW k \in 0 .. width - 1
  PROVE  AlignedBase(at + k) = at /\ (at + k) % width = k
<1>0. width \in Nat \ {0}
  BY StimuliConstants
<1>1. PICK d \in Nat : at = width * d
  <2>1. at \div width \in Nat /\ at = width * (at \div width) + (at % width)
    BY <1>0, DivMod
  <2> QED BY <1>0, <2>1
<1>2. PICK a \in Nat : a = at + k
  BY <1>0
<1>3. PICK q \in Nat, r \in 0 .. width - 1 : r = a % width /\ a = width * q + r
  <2>1. a \div width \in Nat /\ a % width \in 0 .. width - 1
        /\ a = width * (a \div width) + (a % width)
    BY <1>0, DivMod
  <2> QED BY <2>1
<1>4. k + width * d = r + width * q
  BY <1>0, <1>1, <1>2, <1>3
<1>5. k = r /\ d = q
  BY <1>0, <1>4, Digits
<1>6. a % width = k
  BY <1>3, <1>5
<1>7. AlignedBase(a) = a - k /\ a - k = at
  BY <1>2, <1>6 DEF AlignedBase
<1> QED BY <1>2, <1>6, <1>7, Zenon

\* Bit b of byte k of a word is inside the word.
LEMMA BitInside ==
  ASSUME NEW k \in 0 .. width - 1, NEW b \in 0 .. ByteWidth - 1
  PROVE  b + ByteWidth * k \in 0 .. ByteWidth * width - 1
<1>0. width \in Nat \ {0} /\ ByteWidth \in Nat \ {0}
  BY StimuliConstants
<1>1. k \in Nat /\ k + 1 \in Nat /\ k + 1 <= width
  BY <1>0
<1>2. ByteWidth * (k + 1) <= ByteWidth * width
  BY <1>0, <1>1, MulMono
<1>3. ByteWidth * (k + 1) = ByteWidth * k + ByteWidth
  BY <1>0, <1>1
<1>4. PICK u \in Nat, v \in Nat : u = ByteWidth * k /\ v = ByteWidth * width
  BY <1>0, <1>1
<1>5. u + ByteWidth <= v
  BY <1>2, <1>3, <1>4
<1>6. b + u \in 0 .. v - 1
  BY <1>0, <1>4, <1>5
<1> QED BY <1>4, <1>6

\* The bits of the first n bytes of data, shifted to byte shift of a word.
LEMMA ShiftedBits ==
  ASSUME NEW data \in Seq(Octet), NEW n \in 0 .. Len(data), NEW shift \in Nat, NEW x
  PROVE  x \in Shifted(FromBytes(SubSeq(data, 1, n)), shift) <=>
           \E i \in 1 .. n : \E b \in data[i] : x = b + ByteWidth * (i - 1 + shift)
<1>0. ByteWidth \in Nat \ {0} /\ Len(data) \in Nat
  BY StimuliConstants, LenProperties
<1>1. PICK d : d = SubSeq(data, 1, n)
  OBVIOUS
<1>2. /\ DOMAIN d = 1 .. n
      /\ \A i \in 1 .. n : d[i] = data[i] /\ data[i] \in Octet
  BY <1>0, <1>1
<1>3. \A y : y \in FromBytes(d) <=> \E i \in 1 .. n : \E b \in data[i] : y = ByteWidth * (i - 1) + b
  BY <1>2 DEF FromBytes
<1>4. \A i \in 1 .. n : \A b \in data[i] : b \in Nat
  BY <1>2, StimuliConstants DEF Octet
<1>5. \A i \in 1 .. n : \A b \in data[i] :
        (ByteWidth * (i - 1) + b) + ByteWidth * shift = b + ByteWidth * (i - 1 + shift)
  <2>1. TAKE i \in 1 .. n
  <2>2. TAKE b \in data[i]
  <2>3. b \in Nat
    BY <1>4
  <2>4. ByteWidth * (i - 1 + shift) = ByteWidth * (i - 1) + ByteWidth * shift
    BY <1>0
  <2>5. PICK u \in Int, v \in Int : u = ByteWidth * (i - 1) /\ v = ByteWidth * shift
    BY <1>0
  <2>6. (u + b) + v = b + (u + v)
    BY <2>3, <2>5
  <2> QED BY <2>4, <2>5, <2>6
<1>6. x \in Shifted(FromBytes(d), shift) <=>
        \E y \in FromBytes(d) : x = y + ByteWidth * shift
  BY Zenon DEF Shifted
<1>7. x \in Shifted(FromBytes(d), shift) <=>
        \E i \in 1 .. n : \E b \in data[i] : x = (ByteWidth * (i - 1) + b) + ByteWidth * shift
  <2>1. ASSUME x \in Shifted(FromBytes(d), shift)
        PROVE  \E i \in 1 .. n : \E b \in data[i] :
                 x = (ByteWidth * (i - 1) + b) + ByteWidth * shift
    <3>1. PICK y \in FromBytes(d) : x = y + ByteWidth * shift
      BY <1>6, <2>1
    <3>2. PICK i \in 1 .. n : \E b \in data[i] : y = ByteWidth * (i - 1) + b
      BY <1>3
    <3>3. PICK b \in data[i] : y = ByteWidth * (i - 1) + b
      BY <3>2
    <3>4. x = (ByteWidth * (i - 1) + b) + ByteWidth * shift
      BY <3>1, <3>3, Zenon
    <3> QED BY <3>4, Zenon
  <2>2. ASSUME NEW i \in 1 .. n, NEW b \in data[i],
               x = (ByteWidth * (i - 1) + b) + ByteWidth * shift
        PROVE  x \in Shifted(FromBytes(d), shift)
    <3>1. PICK y : y = ByteWidth * (i - 1) + b
      OBVIOUS
    <3>2. y \in FromBytes(d) /\ x = y + ByteWidth * shift
      BY <1>3, <2>2, <3>1, Zenon
    <3> QED BY <1>6, <3>2, Zenon
  <2> QED BY <2>1, <2>2
<1>8. (\E i \in 1 .. n : \E b \in data[i] : x = (ByteWidth * (i - 1) + b) + ByteWidth * shift)
        <=> \E i \in 1 .. n : \E b \in data[i] : x = b + ByteWidth * (i - 1 + shift)
  BY <1>5, Zenon
<1> QED BY <1>1, <1>7, <1>8, Zenon

\* Clearing reaches no bit of a byte but the one it starts at.
LEMMA ClearedBits ==
  ASSUME NEW shift \in 0 .. width - 1, NEW k \in 0 .. width - 1, NEW b \in 0 .. ByteWidth - 1,
         b + ByteWidth * k \in Cleared(shift)
  PROVE  k = shift
<1>0. width \in Nat \ {0} /\ ByteWidth \in Nat \ {0} /\ width <= ByteWidth
  BY StimuliConstants
<1>1. PICK u \in Nat, v \in Nat : u = ByteWidth * k /\ v = ByteWidth * shift
  BY <1>0
<1>2. b + u \in v .. v + width - 1
  BY <1>1 DEF Cleared
<1>3. PICK c \in 0 .. ByteWidth - 1 : b + u = c + v
  <2>1. (b + u) - v \in 0 .. ByteWidth - 1 /\ b + u = ((b + u) - v) + v
    BY <1>0, <1>1, <1>2
  <2> QED BY <2>1
<1>4. b + ByteWidth * k = c + ByteWidth * shift
  BY <1>1, <1>3
<1> QED BY <1>0, <1>4, Digits

\* What a word is after a piece is put in it, from byte shift on.
Packed(word, data, n, shift) ==
  (word \ Cleared(shift)) \cup Shifted(FromBytes(SubSeq(data, 1, n)), shift)

\* The bytes of a word where nothing was become those of the piece; the
\* others stay.
BytesChange(word, data, n, shift) ==
  (\A k \in shift .. shift + n - 1 : ByteOf(word, k) = {}) =>
    \A k \in 0 .. width - 1 :
      ByteOf(Packed(word, data, n, shift), k) =
        IF k \in shift .. shift + n - 1 THEN data[k - shift + 1] ELSE ByteOf(word, k)

\* This is what putting a piece in a word does; the word gets no wider.
LEMMA PackedBytes ==
  ASSUME NEW word \in SUBSET (0 .. ByteWidth * width - 1), NEW shift \in 0 .. width - 1,
         NEW data \in Seq(Octet), NEW n \in 1 .. Len(data), shift + n <= width
  PROVE  /\ Packed(word, data, n, shift) \subseteq 0 .. ByteWidth * width - 1
         /\ BytesChange(word, data, n, shift)
<1>0. /\ width \in Nat \ {0} /\ ByteWidth \in Nat \ {0}
      /\ Len(data) \in Nat /\ n \in 0 .. Len(data) /\ shift \in Nat
  BY StimuliConstants, LenProperties
<1>1. \A i \in 1 .. n : i \in 1 .. Len(data) /\ data[i] \subseteq 0 .. ByteWidth - 1
  <2>1. \A i \in 1 .. n : i \in 1 .. Len(data)
    BY <1>0
  <2> QED BY <2>1, ElementOfSeq DEF Octet
<1>2. \A i \in 1 .. n : i - 1 + shift \in 0 .. width - 1
  BY <1>0
<1>3. PICK new : new = Shifted(FromBytes(SubSeq(data, 1, n)), shift)
  OBVIOUS
<1>4. \A x : x \in new <=>
        \E i \in 1 .. n : \E b \in data[i] : x = b + ByteWidth * (i - 1 + shift)
  BY <1>0, <1>3, ShiftedBits
<1>5. new \subseteq 0 .. ByteWidth * width - 1
  <2>1. ASSUME NEW x \in new PROVE x \in 0 .. ByteWidth * width - 1
    <3>1. PICK i \in 1 .. n : \E b \in data[i] : x = b + ByteWidth * (i - 1 + shift)
      BY <1>4
    <3>2. PICK b \in data[i] : x = b + ByteWidth * (i - 1 + shift)
      BY <3>1
    <3>3. b \in 0 .. ByteWidth - 1
      BY <1>1
    <3> QED BY <1>2, <3>2, <3>3, BitInside
  <2> QED BY <2>1
<1>6. ASSUME \A k \in shift .. shift + n - 1 : ByteOf(word, k) = {}, NEW k \in 0 .. width - 1
      PROVE  ByteOf((word \ Cleared(shift)) \cup new, k) =
               IF k \in shift .. shift + n - 1 THEN data[k - shift + 1] ELSE ByteOf(word, k)
  <2>a. k \in Nat
    BY <1>0
  <2>1. \A b \in 0 .. ByteWidth - 1 :
          b + ByteWidth * k \in new <=>
            k \in shift .. shift + n - 1 /\ b \in data[k - shift + 1]
    <3>1. TAKE b \in 0 .. ByteWidth - 1
    <3>2. ASSUME b + ByteWidth * k \in new
          PROVE  k \in shift .. shift + n - 1 /\ b \in data[k - shift + 1]
      <4>1. PICK i \in 1 .. n : \E c \in data[i] : b + ByteWidth * k = c + ByteWidth * (i - 1 + shift)
        BY <1>4, <3>2
      <4>2. PICK c \in data[i] : b + ByteWidth * k = c + ByteWidth * (i - 1 + shift)
        BY <4>1
      <4>3. PICK j \in 0 .. width - 1 : j = i - 1 + shift
        BY <1>2
      <4>4. j \in Nat /\ c \in 0 .. ByteWidth - 1 /\ b + ByteWidth * k = c + ByteWidth * j
        BY <1>0, <1>1, <4>2, <4>3
      <4>5. k = j /\ b = c
        BY <1>0, <2>a, <4>4, Digits
      <4>6. k - shift + 1 = i /\ k \in shift .. shift + n - 1
        BY <1>0, <4>3, <4>5
      <4> QED BY <4>5, <4>6
    <3>3. ASSUME k \in shift .. shift + n - 1, b \in data[k - shift + 1]
          PROVE  b + ByteWidth * k \in new
      <4>1. PICK i \in 1 .. n : i = k - shift + 1 /\ i - 1 + shift = k
        <5>1. k - shift + 1 \in 1 .. n /\ (k - shift + 1) - 1 + shift = k
          BY <1>0, <3>3
        <5> QED BY <5>1
      <4>2. b \in data[i] /\ b + ByteWidth * k = b + ByteWidth * (i - 1 + shift)
        BY <3>3, <4>1
      <4> QED BY <1>4, <4>2
    <3> QED BY <3>2, <3>3
  <2>2. \A b \in 0 .. ByteWidth - 1 :
          b + ByteWidth * k \in word \ Cleared(shift) <=>
            k \notin shift .. shift + n - 1 /\ b \in ByteOf(word, k)
    <3>1. TAKE b \in 0 .. ByteWidth - 1
    <3>2. b \in ByteOf(word, k) <=> b + ByteWidth * k \in word
      BY DEF ByteOf
    <3>3. CASE k \in shift .. shift + n - 1
      <4>1. ByteOf(word, k) = {}
        BY <1>6, <3>3
      <4> QED BY <3>2, <3>3, <4>1
    <3>4. CASE k \notin shift .. shift + n - 1
      <4>1. k # shift
        BY <1>0, <3>4
      <4>2. b + ByteWidth * k \notin Cleared(shift)
        BY <4>1, ClearedBits
      <4> QED BY <3>2, <3>4, <4>2
    <3> QED BY <3>3, <3>4
  <2>3. \A b : b \in ByteOf((word \ Cleared(shift)) \cup new, k) <=>
          b \in 0 .. ByteWidth - 1 /\ b + ByteWidth * k \in (word \ Cleared(shift)) \cup new
    BY Zenon DEF ByteOf
  <2>4. ByteOf(word, k) \subseteq 0 .. ByteWidth - 1
    BY DEF ByteOf
  <2>5. CASE k \in shift .. shift + n - 1
    <3>1. k - shift + 1 \in 1 .. n
      BY <1>0, <2>5
    <3>2. data[k - shift + 1] \subseteq 0 .. ByteWidth - 1
      BY <1>1, <3>1
    <3>3. \A b : b \in ByteOf((word \ Cleared(shift)) \cup new, k) <=> b \in data[k - shift + 1]
      BY <2>1, <2>2, <2>3, <2>5, <3>2, Zenon
    <3> QED BY <2>5, <3>3
  <2>6. CASE k \notin shift .. shift + n - 1
    <3>1. \A b : b \in ByteOf((word \ Cleared(shift)) \cup new, k) <=> b \in ByteOf(word, k)
      BY <2>1, <2>2, <2>3, <2>4, <2>6, Zenon
    <3> QED BY <2>6, <3>1
  <2> QED BY <2>5, <2>6
<1>7. Packed(word, data, n, shift) = (word \ Cleared(shift)) \cup new
  BY <1>3 DEF Packed
<1>8. Packed(word, data, n, shift) \subseteq 0 .. ByteWidth * width - 1
  BY <1>5, <1>7
<1> QED BY <1>6, <1>7, <1>8, Zenon DEF BytesChange

-----------------------------------------------------------------------------
(* Pieces                                                                  *)

Part == [base : Nat, data : Seq(Octet)]
Queue(q) == q \in Seq(Part) /\ \A i \in 1 .. Len(q) : q[i].data # <<>>

\* The addresses of a piece, and those that are still to be put in memory.
Covers(p) == p.base .. p.base + Len(p.data) - 1
Pending(q, a) == \E i \in 1 .. Len(q) : a \in Covers(q[i])

\* p is the queue q with the first n bytes of its first piece taken, and d = 1
\* if that is the whole piece.
IsAdvanced(p, q, n, d) ==
  /\ d \in {0, 1}
  /\ d = 1 <=> n = Len(q[1].data)
  /\ Len(p) = Len(q) - d
  /\ \A j \in 1 .. Len(p) :
       /\ j + d # 1 => p[j] = q[j + d]
       /\ j + d = 1 =>
            /\ p[j].base = q[1].base + n
            /\ Len(p[j].data) = Len(q[1].data) - n
            /\ \A k \in 1 .. Len(q[1].data) - n : p[j].data[k] = q[1].data[n + k]

\* The parts of a queue of pieces.
LEMMA QueueParts ==
  ASSUME NEW q, Queue(q)
  PROVE  /\ Len(q) \in Nat
         /\ \A i \in 1 .. Len(q) :
              /\ q[i] \in Part /\ q[i].base \in Nat
              /\ q[i].data \in Seq(Octet) /\ Len(q[i].data) \in Nat \ {0}
<1>1. q \in Seq(Part) /\ \A i \in 1 .. Len(q) : q[i].data # <<>>
  BY DEF Queue
<1>2. ASSUME NEW i \in 1 .. Len(q)
      PROVE  /\ q[i] \in Part /\ q[i].base \in Nat
             /\ q[i].data \in Seq(Octet) /\ Len(q[i].data) \in Nat \ {0}
  <2>1. q[i] \in Part
    BY <1>1, ElementOfSeq
  <2>2. q[i].base \in Nat /\ q[i].data \in Seq(Octet)
    BY <2>1 DEF Part
  <2>3. Len(q[i].data) # 0
    BY <1>1, <2>2, EmptySeq
  <2> QED BY <2>1, <2>2, <2>3, LenProperties
<1> QED BY <1>1, <1>2, LenProperties

\* What add_mem_word leaves of the queue.
LEMMA Advance ==
  ASSUME NEW q, Queue(q), q # <<>>, NEW n \in 1 .. Len(q[1].data), NEW p,
         p = PieceOf(q[1].base + n, SubSeq(q[1].data, n + 1, Len(q[1].data))) \o Tail(q)
  PROVE  Queue(p) /\ \E d : IsAdvanced(p, q, n, d)
<1>1. PICK N \in Nat \ {0} : N = Len(q)
  <2>1. q \in Seq(Part)
    BY DEF Queue
  <2> QED BY <2>1, EmptySeq, LenProperties
<1>2. PICK base \in Nat, data \in Seq(Octet), L \in Nat \ {0} :
        base = q[1].base /\ data = q[1].data /\ L = Len(data)
  BY <1>1, QueueParts
<1>3. /\ Tail(q) \in Seq(Part) /\ Len(Tail(q)) = N - 1
      /\ \A i \in 1 .. N - 1 : Tail(q)[i] = q[i + 1]
  BY <1>1, HeadTailProperties DEF Queue
<1>4. n \in 1 .. L /\ n \in 0 .. Len(data)
  BY <1>2
<1>5. PICK rest : rest = SubSeq(data, n + 1, Len(data))
  OBVIOUS
<1>6. /\ rest \in Seq(Octet) /\ Len(rest) = L - n
      /\ \A k \in 1 .. L - n : rest[k] = data[n + k]
  BY <1>2, <1>4, <1>5, BehindProperties DEF Behind
<1>7. p = PieceOf(base + n, rest) \o Tail(q)
  BY <1>2, <1>5
<1>8. \A i \in 1 .. N : q[i].data # <<>>
  BY <1>1 DEF Queue
<1>9. CASE n = L
  <2>1. rest = <<>>
    BY <1>6, <1>9, EmptySeq
  <2>2. PieceOf(base + n, rest) = <<>>
    BY <2>1 DEF PieceOf
  <2>3. p = Tail(q)
    BY <1>3, <1>7, <2>2
  <2>4. Queue(p)
    <3>1. \A i \in 1 .. N - 1 : i + 1 \in 1 .. N
      OBVIOUS
    <3> QED BY <1>3, <1>8, <2>3, <3>1 DEF Queue
  <2>5. IsAdvanced(p, q, n, 1)
    <3>1. \A j \in 1 .. N - 1 : j + 1 # 1
      OBVIOUS
    <3> QED BY <1>1, <1>2, <1>3, <1>9, <2>3, <3>1 DEF IsAdvanced
  <2> QED BY <2>4, <2>5
<1>10. CASE n # L
  <2>1. PICK x : x = [base |-> base + n, data |-> rest]
    OBVIOUS
  <2>2. x \in Part /\ x.base = base + n /\ x.data = rest /\ rest # <<>>
    BY <1>4, <1>6, <1>10, <2>1 DEF Part
  <2>3. p = <<x>> \o Tail(q)
    BY <1>7, <2>1, <2>2 DEF PieceOf
  <2>4. /\ p \in Seq(Part) /\ Len(p) = N /\ p[1] = x
        /\ \A j \in 2 .. N : p[j] = q[j]
    <3>1. <<x>> \in Seq(Part) /\ Len(<<x>>) = 1 /\ <<x>>[1] = x
      BY <2>2
    <3>a. PICK one \in Seq(Part), t \in Seq(Part) : one = <<x>> /\ t = Tail(q)
      BY <1>3, <3>1
    <3>b. /\ one \o t \in Seq(Part) /\ Len(one \o t) = Len(one) + Len(t)
          /\ \A j \in 1 .. Len(one) + Len(t) :
               (one \o t)[j] = IF j <= Len(one) THEN one[j] ELSE t[j - Len(one)]
      BY ConcatProperties
    <3>c. p = one \o t /\ Len(one) = 1 /\ one[1] = x /\ Len(t) = N - 1 /\ 1 + (N - 1) = N
      <4>1. p = one \o t
        BY <2>3, <3>a, Zenon
      <4>2. Len(one) = 1 /\ one[1] = x
        BY <3>1, <3>a, Zenon
      <4>3. Len(t) = N - 1
        BY <1>3, <3>a, Zenon
      <4>4. 1 + (N - 1) = N
        OBVIOUS
      <4> QED BY <4>1, <4>2, <4>3, <4>4
    <3>2. /\ p \in Seq(Part) /\ Len(p) = N
          /\ \A j \in 1 .. N : p[j] = IF j <= 1 THEN one[j] ELSE t[j - 1]
      BY <3>b, <3>c
    <3>3. p[1] = x
      <4>1. 1 \in 1 .. N /\ 1 <= 1
        OBVIOUS
      <4> QED BY <3>2, <3>c, <4>1, Zenon
    <3>4. ASSUME NEW j \in 2 .. N PROVE p[j] = q[j]
      <4>1. ~ (j <= 1) /\ j \in 1 .. N /\ j - 1 \in 1 .. N - 1 /\ (j - 1) + 1 = j
        OBVIOUS
      <4> QED BY <1>3, <3>a, <3>2, <4>1
    <3> QED BY <3>2, <3>3, <3>4
  <2>5. Queue(p)
    <3>1. \A i \in 1 .. N : i = 1 \/ i \in 2 .. N
      OBVIOUS
    <3> QED BY <1>8, <2>2, <2>4, <3>1 DEF Queue
  <2>6. IsAdvanced(p, q, n, 0)
    <3>1. \A j \in 1 .. N : j + 0 = j /\ (j # 1 => j \in 2 .. N)
      OBVIOUS
    <3>2. Len(p) = Len(q) - 0
      BY <1>1, <2>4
    <3>3. p[1].base = q[1].base + n /\ Len(p[1].data) = Len(q[1].data) - n
          /\ \A k \in 1 .. Len(q[1].data) - n : p[1].data[k] = q[1].data[n + k]
      BY <1>2, <1>6, <2>2, <2>4
    <3>4. \A j \in 1 .. N : j + 0 = 1 => j = 1
      OBVIOUS
    <3>5. \A j \in 1 .. N : j + 0 # 1 => p[j] = q[j + 0]
      BY <2>4, <3>1
    <3>6. \A j \in 1 .. Len(p) : j \in 1 .. N
      BY <2>4
    <3>7. n # Len(q[1].data) /\ 0 # 1
      BY <1>2, <1>10
    <3> QED BY <3>2, <3>3, <3>4, <3>5, <3>6, <3>7 DEF IsAdvanced
  <2> QED BY <2>5, <2>6
<1> QED BY <1>9, <1>10

\* No two pieces have an address in common.
Apart(q) ==
  \A i, j \in 1 .. Len(q) : i # j => Covers(q[i]) \cap Covers(q[j]) = {}

\* What is pending when n bytes are taken: all but these.
LEMMA AdvancePending ==
  ASSUME NEW q, Queue(q), q # <<>>, NEW n \in 1 .. Len(q[1].data), NEW p, Queue(p),
         NEW d, IsAdvanced(p, q, n, d), Apart(q)
  PROVE  /\ Apart(p)
         /\ \A a : Pending(p, a) <=>
              Pending(q, a) /\ a \notin q[1].base .. q[1].base + n - 1
         /\ \A a \in q[1].base .. q[1].base + n - 1 : Pending(q, a)
<1>1. PICK N \in Nat \ {0} : N = Len(q)
  <2>1. q \in Seq(Part)
    BY DEF Queue
  <2> QED BY <2>1, EmptySeq, LenProperties
<1>2. PICK base \in Nat, L \in Nat \ {0} : base = q[1].base /\ L = Len(q[1].data)
  BY <1>1, QueueParts
<1>3. n \in 1 .. L
  BY <1>2
<1>4. d \in {0, 1} /\ (d = 1 <=> n = L) /\ Len(p) = N - d
  BY <1>1, <1>2 DEF IsAdvanced
<1>5. ASSUME NEW j \in 1 .. N - d
      PROVE  /\ j + d \in 1 .. N
             /\ Covers(p[j]) \subseteq Covers(q[j + d])
             /\ j + d # 1 => Covers(p[j]) = Covers(q[j + d])
             /\ j + d = 1 => Covers(p[j]) = base + n .. base + L - 1
  <2>1. j + d \in 1 .. N
    BY <1>4
  <2>2. /\ j + d # 1 => p[j] = q[j + d]
        /\ j + d = 1 => p[j].base = base + n /\ Len(p[j].data) = L - n
    BY <1>2, <1>4 DEF IsAdvanced
  <2>3. Covers(q[1]) = base .. base + L - 1
    BY <1>2 DEF Covers
  <2>4. j + d = 1 => Covers(p[j]) = base + n .. base + L - 1
    <3>1. (base + n) + (L - n) - 1 = base + L - 1
      BY <1>3
    <3> QED BY <2>2, <3>1 DEF Covers
  <2>5. base + n .. base + L - 1 \subseteq base .. base + L - 1
    BY <1>3
  <2> QED BY <2>1, <2>2, <2>3, <2>4, <2>5, Zenon
<1>6. Apart(p)
  <2>1. SUFFICES ASSUME NEW i \in 1 .. N - d, NEW j \in 1 .. N - d, i # j
                 PROVE  Covers(p[i]) \cap Covers(p[j]) = {}
    BY <1>4 DEF Apart
  <2>2. i + d # j + d
    BY <1>4, <2>1
  <2>3. Covers(q[i + d]) \cap Covers(q[j + d]) = {}
    BY <1>1, <1>5, <2>2 DEF Apart
  <2>4. Covers(p[i]) \subseteq Covers(q[i + d]) /\ Covers(p[j]) \subseteq Covers(q[j + d])
    BY <1>5
  <2> QED BY <2>3, <2>4, Zenon
<1>7. base .. base + n - 1 \subseteq Covers(q[1]) /\ Covers(q[1]) = base .. base + L - 1
  BY <1>2, <1>3 DEF Covers
<1>8. \A a \in base .. base + n - 1 : Pending(q, a)
  <2>1. 1 \in 1 .. Len(q)
    BY <1>1
  <2> QED BY <1>7, <2>1 DEF Pending
<1>9. ASSUME NEW a, Pending(p, a)
      PROVE  Pending(q, a) /\ a \notin base .. base + n - 1
  <2>1. PICK j \in 1 .. N - d : a \in Covers(p[j])
    BY <1>4, <1>9 DEF Pending
  <2>2. j + d \in 1 .. Len(q) /\ a \in Covers(q[j + d])
    BY <1>1, <1>5, <2>1
  <2>3. CASE j + d = 1
    <3>1. a \in base + n .. base + L - 1
      BY <1>5, <2>1, <2>3
    <3>2. a \notin base .. base + n - 1
      BY <1>3, <3>1
    <3> QED BY <2>2, <3>2 DEF Pending
  <2>4. CASE j + d # 1
    <3>1. Covers(q[j + d]) \cap Covers(q[1]) = {}
      <4>1. 1 \in 1 .. Len(q)
        BY <1>1
      <4> QED BY <2>2, <2>4, <4>1 DEF Apart
    <3>2. a \notin base .. base + n - 1
      BY <1>7, <2>2, <3>1
    <3> QED BY <2>2, <3>2 DEF Pending
  <2> QED BY <2>3, <2>4
<1>10. ASSUME NEW a, Pending(q, a), a \notin base .. base + n - 1
       PROVE  Pending(p, a)
  <2>1. PICK i \in 1 .. N : a \in Covers(q[i])
    BY <1>1, <1>10 DEF Pending
  <2>2. CASE i # 1
    <3>1. PICK j \in 1 .. N - d : j + d = i
      <4>1. i - d \in 1 .. N - d /\ (i - d) + d = i
        BY <1>4, <2>2
      <4> QED BY <4>1
    <3>2. Covers(p[j]) = Covers(q[i])
      BY <1>5, <2>2, <3>1
    <3> QED BY <1>4, <2>1, <3>2 DEF Pending
  <2>3. CASE i = 1
    <3>1. a \in base .. base + L - 1
      BY <1>7, <2>1, <2>3
    <3>2. a \in base + n .. base + L - 1 /\ n # L
      BY <1>3, <1>10, <3>1
    <3>3. d = 0 /\ 1 \in 1 .. N - d /\ 1 + d = 1
      BY <1>4, <3>2
    <3>4. Covers(p[1]) = base + n .. base + L - 1
      BY <1>5, <3>3
    <3> QED BY <1>4, <3>2, <3>3, <3>4 DEF Pending
  <2> QED BY <2>2, <2>3
<1> QED BY <1>2, <1>6, <1>8, <1>9, <1>10

-----------------------------------------------------------------------------
(* Packing                                                                 *)

Words(m) ==
  \A a \in DOMAIN m :
    a \in Nat /\ a % width = 0 /\ m[a] \in SUBSET (0 .. ByteWidth * width - 1)
WordIn(m, at) == IF at \in DOMAIN m THEN m[at] ELSE {}

\* Part way through: q is still to be put in the memory m, where w is what the
\* addresses shall hold, and M those that belong to a segment.  A pending
\* address is still zero, every other one holds what it shall.
AsWanted(q, w) ==
  \A i \in 1 .. Len(q) : \A k \in 1 .. Len(q[i].data) : q[i].data[k] = w[q[i].base + k - 1]
BytesSoFar(q, m, w) ==
  \A at \in Nat : at % width = 0 => \A k \in 0 .. width - 1 :
    ByteOf(WordIn(m, at), k) = IF Pending(q, at + k) THEN {} ELSE w[at + k]
NoneMissing(q, m, M) == \A a \in M : Pending(q, a) \/ AlignedBase(a) \in DOMAIN m

Packing(q, m, w, M) ==
  Apart(q) /\ AsWanted(q, w) /\ BytesSoFar(q, m, w) /\ NoneMissing(q, m, M)

\* The queue and the memory after add_mem_word.
HasAdvanced(p, m2, q, m, n) ==
  /\ n = IterSize(q[1].base, Len(q[1].data))
  /\ p = PieceOf(q[1].base + n, SubSeq(q[1].data, n + 1, Len(q[1].data))) \o Tail(q)
  /\ m2 = [a \in DOMAIN m \cup {AlignedBase(q[1].base)} |->
             IF a = AlignedBase(q[1].base)
             THEN Packed(WordIn(m, a), q[1].data, n, q[1].base - a) ELSE m[a]]

\* How many bytes it takes, and where they go.
LEMMA AdvanceSize ==
  ASSUME NEW q, Queue(q), q # <<>>, NEW p, NEW m2, NEW m, NEW n, HasAdvanced(p, m2, q, m, n)
  PROVE  /\ n \in 1 .. Len(q[1].data) /\ q[1].base \in Nat
         /\ q[1].base - AlignedBase(q[1].base) \in 0 .. width - 1
         /\ q[1].base - AlignedBase(q[1].base) + n <= width
<1>1. PICK base \in Nat, L \in Nat \ {0} : base = q[1].base /\ L = Len(q[1].data)
  <2>1. q \in Seq(Part)
    BY DEF Queue
  <2>2. 1 \in 1 .. Len(q)
    BY <2>1, EmptySeq, LenProperties
  <2> QED BY <2>2, QueueParts
<1>2. width \in Nat \ {0} /\ base % width \in 0 .. width - 1 /\ AlignedBase(base) \in Nat
      /\ base = AlignedBase(base) + (base % width)
  BY AlignedDown, StimuliConstants
<1>3. PICK r \in 0 .. width - 1, at \in Nat :
        r = base % width /\ at = AlignedBase(base) /\ base = at + r
  BY <1>2
<1>4. n = IterSize(base, L)
  BY <1>1, Zenon DEF HasAdvanced
<1>5. n = IF width - r < L THEN width - r ELSE L
  BY <1>3, <1>4 DEF IterSize, LeastOf
<1>6. base - at = r
  BY <1>3
<1>7. PICK v \in Nat \ {0} : v = width
  BY <1>2
<1>8. r \in 0 .. v - 1 /\ n = IF v - r < L THEN v - r ELSE L
  BY <1>5, <1>7
<1>9. n \in 1 .. L /\ r + n <= v
  BY <1>8
<1> QED BY <1>1, <1>3, <1>6, <1>7, <1>8, <1>9

\* The words stay words.
LEMMA WordsStep ==
  ASSUME NEW q, Queue(q), q # <<>>, NEW p, NEW m2, NEW m, NEW n, HasAdvanced(p, m2, q, m, n),
         Words(m)
  PROVE  Words(m2)
<1>1. PICK base \in Nat, data \in Seq(Octet) : base = q[1].base /\ data = q[1].data
  <2>1. q \in Seq(Part)
    BY DEF Queue
  <2>2. 1 \in 1 .. Len(q)
    BY <2>1, EmptySeq, LenProperties
  <2> QED BY <2>2, QueueParts
<1>2. PICK at \in Nat : at = AlignedBase(base) /\ at % width = 0
  BY AlignedDown
<1>3. PICK shift \in 0 .. width - 1 : shift = base - at
  BY <1>1, <1>2, AdvanceSize
<1>4. n \in 1 .. Len(data) /\ shift + n <= width
  BY <1>1, <1>2, <1>3, AdvanceSize
<1>5. WordIn(m, at) \in SUBSET (0 .. ByteWidth * width - 1)
  BY DEF Words, WordIn
<1>6. Packed(WordIn(m, at), data, n, shift) \subseteq 0 .. ByteWidth * width - 1
  BY <1>4, <1>5, PackedBytes
<1>7. m2 = [a \in DOMAIN m \cup {at} |->
              IF a = at THEN Packed(WordIn(m, a), data, n, base - a) ELSE m[a]]
  BY <1>1, <1>2, Zenon DEF HasAdvanced
<1>8. ASSUME NEW a \in DOMAIN m2
      PROVE  a \in Nat /\ a % width = 0 /\ m2[a] \in SUBSET (0 .. ByteWidth * width - 1)
  <2>1. CASE a = at
    <3>1. m2[a] = Packed(WordIn(m, at), data, n, shift)
      BY <1>3, <1>7, <2>1
    <3> QED BY <1>2, <1>6, <2>1, <3>1
  <2>2. CASE a # at
    <3>1. a \in DOMAIN m /\ m2[a] = m[a]
      BY <1>7, <2>2
    <3> QED BY <3>1, Zenon DEF Words
  <2> QED BY <2>1, <2>2
<1> QED BY <1>8 DEF Words

\* One call keeps what is packed, and packs what it takes.
LEMMA PackingStep ==
  ASSUME NEW q, Queue(q), q # <<>>, NEW p, NEW m2, NEW m, NEW n, HasAdvanced(p, m2, q, m, n),
         Words(m), NEW w, NEW M \in SUBSET Nat, Packing(q, m, w, M)
  PROVE  Packing(p, m2, w, M)
<1>1. PICK base \in Nat, data \in Seq(Octet), L \in Nat \ {0} :
        base = q[1].base /\ data = q[1].data /\ L = Len(data)
  <2>1. q \in Seq(Part)
    BY DEF Queue
  <2>2. 1 \in 1 .. Len(q)
    BY <2>1, EmptySeq, LenProperties
  <2> QED BY <2>2, QueueParts
<1>2. PICK at \in Nat : at = AlignedBase(base) /\ at % width = 0
  BY AlignedDown
<1>3. PICK shift \in 0 .. width - 1 : shift = base - at
  BY <1>1, <1>2, AdvanceSize
<1>4. width \in Nat \ {0} /\ n \in 1 .. L /\ shift + n <= width /\ base = at + shift
  BY <1>1, <1>2, <1>3, AdvanceSize, StimuliConstants
<1>5. n \in 1 .. Len(q[1].data)
  BY <1>1, <1>4
<1>6. p = PieceOf(q[1].base + n, SubSeq(q[1].data, n + 1, Len(q[1].data))) \o Tail(q)
  BY Zenon DEF HasAdvanced
<1>7. Queue(p) /\ \E d : IsAdvanced(p, q, n, d)
  BY <1>5, <1>6, Advance
<1>8. PICK d : IsAdvanced(p, q, n, d)
  BY <1>7
<1>9. Apart(q) /\ AsWanted(q, w) /\ BytesSoFar(q, m, w) /\ NoneMissing(q, m, M)
  BY Zenon DEF Packing
<1>10. /\ Apart(p)
       /\ \A a : Pending(p, a) <=> Pending(q, a) /\ a \notin base .. base + n - 1
       /\ \A a \in base .. base + n - 1 : Pending(q, a)
  BY <1>1, <1>5, <1>7, <1>8, <1>9, AdvancePending
<1>11. AsWanted(p, w)
  <2>1. SUFFICES ASSUME NEW j \in 1 .. Len(p), NEW k \in 1 .. Len(p[j].data)
                 PROVE  p[j].data[k] = w[p[j].base + k - 1]
    BY DEF AsWanted
  <2>2. PICK N \in Nat : N = Len(q)
    BY QueueParts
  <2>3. d \in {0, 1} /\ Len(p) = N - d
    BY <2>2, <1>8 DEF IsAdvanced
  <2>4. j + d \in 1 .. N
    BY <2>3
  <2>5. CASE j + d # 1
    <3>1. p[j] = q[j + d]
      BY <1>8, <2>5 DEF IsAdvanced
    <3>2. k \in 1 .. Len(q[j + d].data)
      BY <3>1, <2>1, Zenon
    <3>3. q[j + d].data[k] = w[q[j + d].base + k - 1]
      BY <1>9, <2>2, <2>4, <3>2 DEF AsWanted
    <3> QED BY <3>1, <3>3
  <2>6. CASE j + d = 1
    <3>1. /\ p[j].base = base + n /\ Len(p[j].data) = L - n
          /\ \A y \in 1 .. L - n : p[j].data[y] = data[n + y]
      BY <1>1, <1>8, <2>6 DEF IsAdvanced
    <3>2. k \in 1 .. L - n /\ n + k \in 1 .. L
      <4>1. Len(p[j].data) = L - n
        BY <3>1
      <4>2. k \in 1 .. L - n
        BY <2>1, <4>1, Zenon
      <4> QED BY <1>4, <4>2
    <3>3. \A y \in 1 .. L : data[y] = w[base + y - 1]
      <4>1. 1 \in 1 .. Len(q)
        BY <2>2, <2>4, <2>6
      <4> QED BY <1>1, <1>9, <4>1 DEF AsWanted
    <3>4. base + (n + k) - 1 = (base + n) + k - 1
      BY <1>4, <3>2
    <3> QED BY <3>1, <3>2, <3>3, <3>4
  <2> QED BY <2>5, <2>6
<1>12. m2 = [a \in DOMAIN m \cup {at} |->
               IF a = at THEN Packed(WordIn(m, a), data, n, base - a) ELSE m[a]]
  BY <1>1, <1>2, Zenon DEF HasAdvanced
<1>13. /\ WordIn(m2, at) = Packed(WordIn(m, at), data, n, shift)
       /\ \A a : a # at => WordIn(m2, a) = WordIn(m, a)
  BY <1>3, <1>12 DEF WordIn
<1>14. BytesSoFar(p, m2, w)
  <2>1. SUFFICES ASSUME NEW a \in Nat, a % width = 0, NEW k \in 0 .. width - 1
                 PROVE  ByteOf(WordIn(m2, a), k) = IF Pending(p, a + k) THEN {} ELSE w[a + k]
    BY Zenon DEF BytesSoFar
  <2>2. \A b \in Nat : b % width = 0 => \A y \in 0 .. width - 1 :
          ByteOf(WordIn(m, b), y) = IF Pending(q, b + y) THEN {} ELSE w[b + y]
    BY <1>9, Zenon DEF BytesSoFar
  <2>3. CASE a # at
    <3>1. a + k \notin base .. base + n - 1
      <4>1. SUFFICES ASSUME a + k \in base .. base + n - 1 PROVE FALSE
        OBVIOUS
      <4>2. PICK y \in 0 .. width - 1 : a + k = at + y
        <5>1. (a + k) - at \in 0 .. width - 1 /\ a + k = at + ((a + k) - at)
          BY <1>3, <1>4, <4>1
        <5> QED BY <5>1
      <4>3. AlignedBase(a + k) = a /\ AlignedBase(at + y) = at
        BY <1>2, <2>1, AlignedBack
      <4> QED BY <2>3, <4>2, <4>3
    <3>2. Pending(p, a + k) <=> Pending(q, a + k)
      BY <1>10, <3>1
    <3>3. WordIn(m2, a) = WordIn(m, a)
      BY <1>13, <2>3
    <3> QED BY <2>1, <2>2, <3>2, <3>3, Zenon
  <2>4. CASE a = at
    <3>1. \A y \in shift .. shift + n - 1 :
            y \in 0 .. width - 1 /\ at + y \in base .. base + n - 1
      BY <1>4
    <3>2. \A y \in shift .. shift + n - 1 : ByteOf(WordIn(m, at), y) = {}
      BY <1>2, <1>10, <2>2, <3>1
    <3>3. WordIn(m, at) \in SUBSET (0 .. ByteWidth * width - 1)
      BY DEF Words, WordIn
    <3>4. ByteOf(WordIn(m2, at), k) =
            IF k \in shift .. shift + n - 1 THEN data[k - shift + 1] ELSE ByteOf(WordIn(m, at), k)
      <4>1. n \in 1 .. Len(data)
        BY <1>1, <1>4
      <4>2. \A y \in 0 .. width - 1 :
              ByteOf(Packed(WordIn(m, at), data, n, shift), y) =
                IF y \in shift .. shift + n - 1 THEN data[y - shift + 1] ELSE ByteOf(WordIn(m, at), y)
        <5>1. PICK W \in SUBSET (0 .. ByteWidth * width - 1) : W = WordIn(m, at)
          BY <3>3
        <5>2. BytesChange(W, data, n, shift)
          BY <1>4, <4>1, PackedBytes
        <5> QED BY <3>2, <5>1, <5>2, Zenon DEF BytesChange
      <4> QED BY <1>13, <2>1, <4>2
    <3>5. k \in shift .. shift + n - 1 <=> at + k \in base .. base + n - 1
      BY <1>4
    <3>6. CASE k \in shift .. shift + n - 1
      <4>1. ~ Pending(p, at + k)
        BY <1>10, <3>5, <3>6
      <4>2. data[k - shift + 1] = w[base + (k - shift + 1) - 1]
        <5>1. k - shift + 1 \in 1 .. Len(q[1].data)
          BY <1>1, <1>4, <3>6
        <5>2. 1 \in 1 .. Len(q)
          <6>1. q \in Seq(Part)
            BY DEF Queue
          <6> QED BY <6>1, EmptySeq, LenProperties
        <5>3. \A y \in 1 .. Len(q[1].data) : q[1].data[y] = w[q[1].base + y - 1]
          BY <1>9, <5>2 DEF AsWanted
        <5> QED BY <1>1, <5>1, <5>3
      <4>3. base + (k - shift + 1) - 1 = at + k
        BY <1>4
      <4> QED BY <2>4, <3>4, <3>6, <4>1, <4>2, <4>3
    <3>7. CASE k \notin shift .. shift + n - 1
      <4>1. Pending(p, at + k) <=> Pending(q, at + k)
        BY <1>10, <3>5, <3>7
      <4>2. ByteOf(WordIn(m, at), k) = IF Pending(q, at + k) THEN {} ELSE w[at + k]
        BY <1>2, <2>1, <2>2
      <4> QED BY <2>4, <3>4, <3>7, <4>1, <4>2
    <3> QED BY <3>6, <3>7
  <2> QED BY <2>3, <2>4
<1>15. NoneMissing(p, m2, M)
  <2>1. SUFFICES ASSUME NEW a \in M PROVE Pending(p, a) \/ AlignedBase(a) \in DOMAIN m2
    BY Zenon DEF NoneMissing
  <2>2. Pending(q, a) \/ AlignedBase(a) \in DOMAIN m
    BY <1>9, <2>1, Zenon DEF NoneMissing
  <2>3. DOMAIN m2 = DOMAIN m \cup {at}
    BY <1>12
  <2>4. CASE a \in base .. base + n - 1
    <3>1. PICK y \in 0 .. width - 1 : a = at + y
      <4>1. a - at \in 0 .. width - 1 /\ a = at + (a - at)
        BY <1>3, <1>4, <2>4
      <4> QED BY <4>1
    <3>2. AlignedBase(a) = at
      BY <1>2, <3>1, AlignedBack
    <3> QED BY <2>3, <3>2
  <2>5. CASE a \notin base .. base + n - 1
    BY <1>10, <2>2, <2>3, <2>5
  <2> QED BY <2>4, <2>5
<1> QED BY <1>10, <1>11, <1>14, <1>15, Zenon DEF Packing

-----------------------------------------------------------------------------
(* The pieces of a binary                                                  *)

\* r holds the pieces x and z that are not empty; I are its places.
TwoAt(r, I, x, z) ==
  /\ \A i \in I : r[i] \in {x, z} /\ r[i].data # <<>>
  /\ \A i, j \in I : i # j => (r[i] = x /\ r[j] = z) \/ (r[i] = z /\ r[j] = x)
  /\ x.data # <<>> => \E i \in I : r[i] = x
  /\ z.data # <<>> => \E i \in I : r[i] = z
TwoOf(r, x, z) == r \in Seq(Part) /\ TwoAt(r, 1 .. Len(r), x, z)

\* Two pieces in a row, of which an empty one is left out.
LEMMA TwoPieces ==
  ASSUME NEW b \in Nat, NEW d \in Seq(Octet), NEW c \in Nat, NEW e \in Seq(Octet),
         NEW x, x = [base |-> b, data |-> d], NEW z, z = [base |-> c, data |-> e],
         NEW r, r = PieceOf(b, d) \o PieceOf(c, e)
  PROVE  TwoOf(r, x, z)
<1>1. x \in Part /\ z \in Part /\ x.data = d /\ z.data = e
  BY DEF Part
<1>2. PieceOf(b, d) = IF d = <<>> THEN <<>> ELSE <<x>>
  BY DEF PieceOf
<1>3. PieceOf(c, e) = IF e = <<>> THEN <<>> ELSE <<z>>
  BY DEF PieceOf
<1>4. CASE d = <<>> /\ e = <<>>
  <2>1. r = <<>> /\ r \in Seq(Part) /\ Len(r) = 0 /\ 1 .. 0 = {}
    BY <1>2, <1>3, <1>4
  <2> QED BY <1>1, <1>4, <2>1 DEF TwoOf, TwoAt
<1>5. CASE d = <<>> /\ e # <<>>
  <2>1. <<z>> \in Seq(Part) /\ r = <<z>>
    BY <1>1, <1>2, <1>3, <1>5
  <2>2. r \in Seq(Part) /\ Len(r) = 1 /\ r[1] = z /\ \A i : i \in 1 .. 1 <=> i = 1
    BY <2>1
  <2> QED BY <1>1, <1>5, <2>2 DEF TwoOf, TwoAt
<1>6. CASE d # <<>> /\ e = <<>>
  <2>1. <<x>> \in Seq(Part) /\ r = <<x>>
    BY <1>1, <1>2, <1>3, <1>6
  <2>2. r \in Seq(Part) /\ Len(r) = 1 /\ r[1] = x /\ \A i : i \in 1 .. 1 <=> i = 1
    BY <2>1
  <2> QED BY <1>1, <1>6, <2>2 DEF TwoOf, TwoAt
<1>7. CASE d # <<>> /\ e # <<>>
  <2>a. <<x>> \in Seq(Part) /\ <<z>> \in Seq(Part)
    BY <1>1
  <2>1. PICK one \in Seq(Part), two \in Seq(Part) : one = <<x>> /\ two = <<z>>
    BY <2>a
  <2>2. Len(one) = 1 /\ one[1] = x /\ Len(two) = 1 /\ two[1] = z
    BY <2>1
  <2>3. r = one \o two
    BY <1>2, <1>3, <1>7, <2>1
  <2>4. /\ one \o two \in Seq(Part) /\ Len(one \o two) = Len(one) + Len(two)
        /\ \A i \in 1 .. Len(one) + Len(two) :
             (one \o two)[i] = IF i <= Len(one) THEN one[i] ELSE two[i - Len(one)]
    BY ConcatProperties
  <2>5. r \in Seq(Part) /\ Len(r) = 2 /\ r[1] = x /\ r[2] = z
    BY <2>2, <2>3, <2>4
  <2>6. \A i : i \in 1 .. 2 <=> i = 1 \/ i = 2
    OBVIOUS
  <2>7. \A i \in 1 .. 2 : r[i] \in {x, z} /\ r[i].data # <<>>
    BY <1>1, <1>7, <2>5, <2>6, Zenon
  <2>8. ASSUME NEW i \in 1 .. 2, NEW j \in 1 .. 2, i # j
        PROVE  (r[i] = x /\ r[j] = z) \/ (r[i] = z /\ r[j] = x)
    <3>1. (i = 1 /\ j = 2) \/ (i = 2 /\ j = 1)
      BY <2>8
    <3> QED BY <2>5, <3>1
  <2>9. 1 \in 1 .. 2 /\ 2 \in 1 .. 2
    OBVIOUS
  <2>10. \A i, j \in 1 .. 2 : i # j => (r[i] = x /\ r[j] = z) \/ (r[i] = z /\ r[j] = x)
    BY <2>8, Zenon
  <2>11. (\E i \in 1 .. 2 : r[i] = x) /\ \E i \in 1 .. 2 : r[i] = z
    BY <2>5, <2>9, Zenon
  <2>12. r \in Seq(Part) /\ 1 .. Len(r) = 1 .. 2
    BY <2>5
  <2>13. TwoAt(r, 1 .. 2, x, z)
    BY <2>7, <2>10, <2>11, Zenon DEF TwoAt
  <2> QED BY <2>12, <2>13, Zenon DEF TwoOf
<1> QED BY <1>4, <1>5, <1>6, <1>7

\* The byte a loaded segment gives an address.
ByteAt(s, a) ==
  IF a \in s.addr .. s.addr + Len(s.data) - 1 THEN s.data[a - s.addr + 1] ELSE {}

\* The pieces r of a loaded segment s are its memory, without gap or overlap,
\* and carry its bytes.
ArePieces(r, s) ==
  /\ Queue(r) /\ Apart(r)
  /\ ~ s.load => r = <<>>
  /\ \A i \in 1 .. Len(r) :
       /\ Covers(r[i]) \subseteq s.addr .. s.addr + s.memsz - 1
       /\ \A k \in 1 .. Len(r[i].data) : r[i].data[k] = ByteAt(s, r[i].base + k - 1)
  /\ s.load => \A a \in s.addr .. s.addr + s.memsz - 1 : Pending(r, a)

\* This is what __parse_binaries makes of a segment.
LEMMA SegmentPieces ==
  ASSUME NEW s \in Segment, Len(s.data) <= s.memsz, NEW r, r = PiecesOf(s)
  PROVE  ArePieces(r, s)
<1>1. PICK addr \in Nat, data \in Seq(Octet), L \in Nat, memsz \in Nat :
        addr = s.addr /\ data = s.data /\ L = Len(data) /\ memsz = s.memsz
  BY DEF Segment
<1>2. CASE ~ s.load
  <2>1. r = <<>>
    BY <1>2 DEF PiecesOf
  <2> QED BY <1>2, <2>1 DEF Queue, Apart, ArePieces
<1>3. CASE s.load
  <2>1. L <= memsz
    BY <1>1
  <2>2. PICK z \in Nat : z = memsz - L /\ L + z = memsz
    <3>1. memsz - L \in Nat /\ L + (memsz - L) = memsz
      BY <2>1
    <3> QED BY <3>1
  <2>3. PICK zeros : zeros = Zeros(z)
    OBVIOUS
  <2>4. zeros \in Seq(Octet) /\ Len(zeros) = z /\ \A k \in 1 .. z : zeros[k] = {}
    <3>1. zeros = [i \in 1 .. z |-> {}]
      BY <2>3 DEF Zeros
    <3>2. zeros \in [1 .. z -> Octet]
      BY <3>1 DEF Octet
    <3> QED BY <3>1, <3>2, FunIsSeq
  <2>5. r = PieceOf(addr, data) \o PieceOf(addr + L, zeros)
    BY <1>1, <1>3, <2>2, <2>3 DEF PiecesOf
  <2>6. PICK x, y : x = [base |-> addr, data |-> data] /\ y = [base |-> addr + L, data |-> zeros]
    OBVIOUS
  <2>a. TwoOf(r, x, y)
    <3>1. PICK c \in Nat : c = addr + L
      OBVIOUS
    <3> QED BY <2>4, <2>5, <2>6, <3>1, TwoPieces
  <2>7. /\ r \in Seq(Part)
        /\ \A i \in 1 .. Len(r) : r[i] \in {x, y} /\ r[i].data # <<>>
        /\ \A i, j \in 1 .. Len(r) :
             i # j => (r[i] = x /\ r[j] = y) \/ (r[i] = y /\ r[j] = x)
        /\ data # <<>> => \E i \in 1 .. Len(r) : r[i] = x
        /\ zeros # <<>> => \E i \in 1 .. Len(r) : r[i] = y
    <3>1. x.data = data /\ y.data = zeros
      BY <2>6
    <3> QED BY <2>a, <3>1, Zenon DEF TwoOf, TwoAt
  <2>8. Covers(x) = addr .. addr + L - 1 /\ Covers(y) = addr + L .. addr + memsz - 1
    <3>1. addr + L + z - 1 = addr + memsz - 1
      BY <2>2
    <3> QED BY <1>1, <2>4, <2>6, <3>1 DEF Covers
  <2>9. /\ Covers(x) \subseteq addr .. addr + memsz - 1
        /\ Covers(y) \subseteq addr .. addr + memsz - 1
        /\ Covers(x) \cap Covers(y) = {}
        /\ \A a \in addr .. addr + memsz - 1 : a \in Covers(x) \/ a \in Covers(y)
    BY <2>1, <2>8
  <2>10. \A k \in 1 .. Len(x.data) : x.data[k] = ByteAt(s, x.base + k - 1)
    <3>1. SUFFICES ASSUME NEW k \in 1 .. L PROVE data[k] = ByteAt(s, addr + k - 1)
      BY <1>1, <2>6
    <3>2. addr + k - 1 \in addr .. addr + L - 1 /\ (addr + k - 1) - addr + 1 = k
      OBVIOUS
    <3> QED BY <1>1, <3>2 DEF ByteAt
  <2>11. \A k \in 1 .. Len(y.data) : y.data[k] = ByteAt(s, y.base + k - 1)
    <3>1. SUFFICES ASSUME NEW k \in 1 .. z PROVE zeros[k] = ByteAt(s, addr + L + k - 1)
      BY <2>4, <2>6
    <3>2. addr + L + k - 1 \notin addr .. addr + L - 1
      OBVIOUS
    <3> QED BY <1>1, <2>4, <3>2 DEF ByteAt
  <2>12. Queue(r)
    BY <2>7 DEF Queue
  <2>13. Apart(r)
    <3>1. \A i, j \in 1 .. Len(r) : i # j => Covers(r[i]) \cap Covers(r[j]) = {}
      BY <2>7, <2>9, Zenon
    <3> QED BY <3>1, Zenon DEF Apart
  <2>14. ASSUME NEW a \in addr .. addr + memsz - 1 PROVE Pending(r, a)
    <3>1. CASE a \in Covers(x)
      <4>1. L # 0
        BY <2>8, <3>1
      <4>2. data # <<>>
        BY <1>1, <4>1
      <4> QED BY <2>7, <3>1, <4>2 DEF Pending
    <3>2. CASE a \in Covers(y)
      <4>1. z # 0
        BY <2>2, <2>8, <3>2
      <4>2. zeros # <<>>
        BY <2>4, <4>1
      <4> QED BY <2>7, <3>2, <4>2 DEF Pending
    <3> QED BY <2>9, <3>1, <3>2
  <2>15. ASSUME NEW i \in 1 .. Len(r)
         PROVE  /\ Covers(r[i]) \subseteq addr .. addr + memsz - 1
                /\ \A k \in 1 .. Len(r[i].data) : r[i].data[k] = ByteAt(s, r[i].base + k - 1)
    <3>1. r[i] = x \/ r[i] = y
      BY <2>7
    <3> QED BY <2>9, <2>10, <2>11, <3>1, Zenon
  <2> QED BY <1>1, <1>3, <2>12, <2>13, <2>14, <2>15 DEF ArePieces
<1> QED BY <1>2, <1>3

-----------------------------------------------------------------------------
(* The invariant                                                           *)

Needed == UNION {Memory(i) : i \in ToPack}
Wants == [a \in Nat |-> Wanted(a)]

PackInv ==
  /\ image \in Images
  /\ Queue(pieces) /\ Words(mem)
  /\ phase \in {"packing", "done"}
  /\ phase = "done" => pieces = <<>> /\ slm = {<<a, mem[a]>> : a \in DOMAIN mem}
  /\ Disjoint => Packing(pieces, mem, Wants, Needed)

\* The segments of a binary.
LEMMA ImageType ==
  ASSUME image \in Images
  PROVE  /\ image \in Seq(Segment) /\ Len(image) \in Nat /\ DOMAIN image = 1 .. Len(image)
         /\ \A i \in 1 .. Len(image) :
              /\ image[i] \in Segment /\ Len(image[i].data) <= image[i].memsz
              /\ image[i].addr \in Nat /\ image[i].memsz \in Nat /\ image[i].data \in Seq(Octet)
              /\ Len(image[i].data) \in Nat
<1>1. image \in Seq(Segment)
  BY StimuliConstants
<1>2. DOMAIN image = 1 .. Len(image) /\ Len(image) \in Nat
  BY <1>1, LenProperties
<1>3. ASSUME NEW i \in 1 .. Len(image)
      PROVE  /\ image[i] \in Segment /\ Len(image[i].data) <= image[i].memsz
             /\ image[i].addr \in Nat /\ image[i].memsz \in Nat /\ image[i].data \in Seq(Octet)
             /\ Len(image[i].data) \in Nat
  <2>1. image[i] \in Segment
    BY <1>1, ElementOfSeq
  <2>2. Len(image[i].data) <= image[i].memsz
    BY <1>2, StimuliConstants
  <2>3. image[i].addr \in Nat /\ image[i].memsz \in Nat /\ image[i].data \in Seq(Octet)
    BY <2>1 DEF Segment
  <2> QED BY <2>1, <2>2, <2>3, LenProperties
<1> QED BY <1>1, <1>2, <1>3

\* When no two segments overlap an address of one holds its byte; one of none
\* is zero.
LEMMA WantedByte ==
  ASSUME image \in Images, Disjoint
  PROVE  /\ \A i \in ToPack : \A a \in Memory(i) : Wanted(a) = ByteAt(image[i], a)
         /\ \A a : a \notin Needed => Wanted(a) = {}
<1> DEFINE Holders(a) ==
      {i \in ToPack : a \in image[i].addr .. image[i].addr + Len(image[i].data) - 1}
<1>1. \A a : Wanted(a) = IF Holders(a) = {} THEN {}
               ELSE image[CHOOSE i \in Holders(a) : TRUE].data[
                      a - image[CHOOSE i \in Holders(a) : TRUE].addr + 1]
  BY Zenon DEF Wanted
<1>2. \A a : \A i \in Holders(a) : i \in ToPack /\ a \in Memory(i)
  <2>1. ASSUME NEW a, NEW i \in Holders(a) PROVE i \in ToPack /\ a \in Memory(i)
    <3>1. i \in ToPack /\ i \in 1 .. Len(image)
      BY ImageType DEF ToPack
    <3>2. PICK u \in Nat, l \in Nat, m \in Nat :
            u = image[i].addr /\ l = Len(image[i].data) /\ m = image[i].memsz /\ l <= m
      BY <3>1, ImageType
    <3>3. a \in u .. u + l - 1
      BY <3>2
    <3>4. a \in u .. u + m - 1
      <4>1. l <= m
        BY <3>2
      <4> QED BY <3>3, <4>1
    <3> QED BY <3>1, <3>2, <3>4 DEF Memory
  <2> QED BY <2>1
<1>3. ASSUME NEW i \in ToPack, NEW a \in Memory(i) PROVE Wanted(a) = ByteAt(image[i], a)
  <2>1. \A j \in Holders(a) : j = i
    <3>1. TAKE j \in Holders(a)
    <3>2. j \in ToPack /\ a \in Memory(j)
      BY <1>2
    <3> QED BY <1>3, <3>2, Zenon DEF Disjoint
  <2>2. i \in Holders(a) <=> a \in image[i].addr .. image[i].addr + Len(image[i].data) - 1
    OBVIOUS
  <2>3. CASE i \in Holders(a)
    <3>1. (CHOOSE j \in Holders(a) : TRUE) = i
      <4>1. (CHOOSE j \in Holders(a) : TRUE) \in Holders(a)
        BY <2>3, Zenon
      <4> QED BY <2>1, <4>1, Zenon
    <3>2. Holders(a) # {}
      BY <2>3
    <3>3. Wanted(a) = image[i].data[a - image[i].addr + 1]
      <4> HIDE DEF Holders
      <4> QED BY <1>1, <3>1, <3>2
    <3> QED BY <2>2, <2>3, <3>3 DEF ByteAt
  <2>4. CASE i \notin Holders(a)
    <3>1. Holders(a) = {}
      BY <2>1, <2>4, Zenon
    <3>2. Wanted(a) = {}
      <4> HIDE DEF Holders
      <4> QED BY <1>1, <3>1
    <3> QED BY <2>2, <2>4, <3>2 DEF ByteAt
  <2> QED BY <2>3, <2>4
<1>4. ASSUME NEW a, a \notin Needed PROVE Wanted(a) = {}
  <2>1. Holders(a) = {}
    <3>1. \A i \in Holders(a) : a \in Needed
      BY <1>2, Zenon DEF Needed
    <3> QED BY <1>4, <3>1, Zenon
  <2> HIDE DEF Holders
  <2> QED BY <1>1, <2>1
<1> QED BY <1>3, <1>4

\* Addresses are natural numbers.
LEMMA NeededType == image \in Images => Needed \in SUBSET Nat
<1> SUFFICES ASSUME image \in Images PROVE Needed \in SUBSET Nat
  OBVIOUS
<1>1. \A i \in ToPack : Memory(i) \subseteq Nat
  <2>1. TAKE i \in ToPack
  <2>2. image[i].addr \in Nat /\ image[i].memsz \in Nat
    BY ImageType DEF ToPack
  <2> QED BY <2>2 DEF Memory
<1> QED BY <1>1 DEF Needed

\* At the start everything is pending, and nothing is in memory.
LEMMA StimuliStart == StimuliInit => PackInv
<1> SUFFICES ASSUME StimuliInit PROVE PackInv
  OBVIOUS
<1>1. image \in Images /\ mem = <<>> /\ slm = {} /\ phase = "packing"
  BY DEF StimuliInit
<1>2. PICK K \in Nat : K = Len(image) /\ DOMAIN image = 1 .. K
  BY <1>1, ImageType
<1>3. PICK D : D = [i \in 1 .. K |-> PiecesOf(image[i])]
  OBVIOUS
<1>4. \A i \in 1 .. K : D[i] = PiecesOf(image[i]) /\ image[i] \in Segment
                        /\ Len(image[i].data) <= image[i].memsz
  BY <1>1, <1>2, <1>3, ImageType
<1>a. \A i \in 1 .. K : ArePieces(D[i], image[i])
  <2>1. TAKE i \in 1 .. K
  <2>2. PICK s \in Segment, r \in {D[i]} : s = image[i] /\ r = D[i]
    BY <1>4
  <2>3. Len(s.data) <= s.memsz /\ r = PiecesOf(s)
    BY <1>4, <2>2
  <2> QED BY <2>2, <2>3, SegmentPieces
<1>5. \A i \in 1 .. K :
        /\ Queue(D[i]) /\ Apart(D[i])
        /\ ~ image[i].load => D[i] = <<>>
        /\ \A y \in 1 .. Len(D[i]) :
             /\ Covers(D[i][y]) \subseteq image[i].addr .. image[i].addr + image[i].memsz - 1
             /\ \A k \in 1 .. Len(D[i][y].data) :
                  D[i][y].data[k] = ByteAt(image[i], D[i][y].base + k - 1)
        /\ image[i].load =>
             \A a \in image[i].addr .. image[i].addr + image[i].memsz - 1 : Pending(D[i], a)
  BY <1>a, Zenon DEF ArePieces
<1>6. PICK S : S = Seq(Part)
  OBVIOUS
<1>7. D \in Seq(S) /\ Len(D) = K
  <2>1. \A i \in 1 .. K : D[i] \in S
    BY <1>5, <1>6 DEF Queue
  <2>2. D \in [1 .. K -> S]
    BY <1>3, <2>1
  <2> QED BY <2>2, FunIsSeq
<1>8. D \in Seq(Seq(Part))
  BY <1>6, <1>7
<1>9. PICK q \in Seq(Part) : \E off : Joined(D, q, off)
  BY <1>8, JoinedAny
<1>10. PICK off : Joined(D, q, off)
  BY <1>9
<1>11. FlattenSeq(D) = q
  BY <1>8, <1>10, JoinedFlat
<1>12. pieces = q
  BY <1>2, <1>3, <1>11 DEF StimuliInit
<1>13. \A j \in 1 .. Len(q) : \E c \in 1 .. K : \E y \in 1 .. Len(D[c]) :
         j = off[c] + y /\ q[j] = D[c][y]
  <2>1. TAKE j \in 1 .. Len(q)
  <2>2. \E c \in 1 .. Len(D) : \E y \in 1 .. Len(D[c]) : j = off[c] + y /\ q[j] = D[c][y]
    BY <1>8, <1>10, JoinedPlace
  <2> QED BY <1>7, <2>2, Zenon
<1>14. Queue(pieces)
  <2>1. \A j \in 1 .. Len(q) : q[j].data # <<>>
    <3>1. TAKE j \in 1 .. Len(q)
    <3>2. PICK c \in 1 .. K : \E y \in 1 .. Len(D[c]) : q[j] = D[c][y]
      BY <1>13
    <3>3. PICK y \in 1 .. Len(D[c]) : q[j] = D[c][y]
      BY <3>2
    <3> QED BY <1>5, <3>3 DEF Queue
  <2> QED BY <1>12, <2>1 DEF Queue
<1>15. Words(mem)
  <2>1. DOMAIN mem = {}
    BY <1>1
  <2> QED BY <2>1 DEF Words
<1>16. ASSUME Disjoint PROVE Packing(pieces, mem, Wants, Needed)
  <2>1. \A i \in 1 .. K : i \in ToPack <=> image[i].load
    BY <1>2 DEF ToPack
  <2>2. \A c \in 1 .. K : \A y \in 1 .. Len(D[c]) :
          c \in ToPack /\ Covers(D[c][y]) \subseteq Memory(c)
    <3>1. TAKE c \in 1 .. K
    <3>2. TAKE y \in 1 .. Len(D[c])
    <3>3. D[c] # <<>>
      <4>1. Len(<<>>) = 0 /\ 1 .. 0 = {}
        OBVIOUS
      <4> QED BY <4>1
    <3>4. image[c].load
      BY <1>5, <3>3
    <3> QED BY <1>5, <2>1, <3>4 DEF Memory
  <2>3. Apart(q)
    <3>1. SUFFICES ASSUME NEW i \in 1 .. Len(q), NEW j \in 1 .. Len(q), i # j
                   PROVE  Covers(q[i]) \cap Covers(q[j]) = {}
      BY DEF Apart
    <3>2. PICK c \in 1 .. K : \E y \in 1 .. Len(D[c]) : i = off[c] + y /\ q[i] = D[c][y]
      BY <1>13
    <3>3. PICK y \in 1 .. Len(D[c]) : i = off[c] + y /\ q[i] = D[c][y]
      BY <3>2
    <3>4. PICK e \in 1 .. K : \E z \in 1 .. Len(D[e]) : j = off[e] + z /\ q[j] = D[e][z]
      BY <1>13
    <3>5. PICK z \in 1 .. Len(D[e]) : j = off[e] + z /\ q[j] = D[e][z]
      BY <3>4
    <3>6. CASE c = e
      <4>1. y # z
        BY <3>1, <3>3, <3>5, <3>6
      <4>2. Covers(D[c][y]) \cap Covers(D[c][z]) = {}
        BY <1>5, <3>6, <4>1 DEF Apart
      <4> QED BY <3>3, <3>5, <3>6, <4>2
    <3>7. CASE c # e
      <4>1. Memory(c) \cap Memory(e) = {}
        BY <1>16, <2>2, <3>3, <3>5, <3>7, Zenon DEF Disjoint
      <4>2. Covers(q[i]) \subseteq Memory(c) /\ Covers(q[j]) \subseteq Memory(e)
        BY <2>2, <3>3, <3>5, Zenon
      <4> QED BY <4>1, <4>2, Zenon
    <3> QED BY <3>6, <3>7
  <2>4. AsWanted(q, Wants)
    <3>1. SUFFICES ASSUME NEW i \in 1 .. Len(q), NEW k \in 1 .. Len(q[i].data)
                   PROVE  q[i].data[k] = Wants[q[i].base + k - 1]
      BY DEF AsWanted
    <3>2. PICK c \in 1 .. K : \E y \in 1 .. Len(D[c]) : q[i] = D[c][y]
      BY <1>13
    <3>3. PICK y \in 1 .. Len(D[c]) : q[i] = D[c][y]
      BY <3>2
    <3>4. q[i].base \in Nat /\ Len(q[i].data) \in Nat
      BY <1>12, <1>14, QueueParts
    <3>5. PICK a \in Nat : a = q[i].base + k - 1
      <4>1. q[i].base + k - 1 \in Nat
        BY <3>1, <3>4
      <4> QED BY <4>1
    <3>6. a \in Covers(q[i])
      BY <3>1, <3>4, <3>5 DEF Covers
    <3>7. c \in ToPack /\ a \in Memory(c)
      BY <2>2, <3>3, <3>6
    <3>8. Wanted(a) = ByteAt(image[c], a)
      BY <1>1, <1>16, <3>7, WantedByte
    <3>9. q[i].data[k] = ByteAt(image[c], a)
      <4>1. \A x \in 1 .. Len(D[c][y].data) :
              D[c][y].data[x] = ByteAt(image[c], D[c][y].base + x - 1)
        BY <1>5
      <4>2. q[i].data[k] = ByteAt(image[c], q[i].base + k - 1)
        BY <3>1, <3>3, <4>1, Zenon
      <4> QED BY <3>5, <4>2, Zenon
    <3> QED BY <3>5, <3>8, <3>9 DEF Wants
  <2>5. \A a \in Needed : Pending(q, a)
    <3>1. TAKE a \in Needed
    <3>2. PICK c \in ToPack : a \in Memory(c)
      BY DEF Needed
    <3>3. c \in 1 .. K /\ image[c].load
      BY <1>2, <3>2 DEF ToPack
    <3>4. Pending(D[c], a)
      BY <1>5, <3>2, <3>3 DEF Memory
    <3>5. PICK y \in 1 .. Len(D[c]) : a \in Covers(D[c][y])
      BY <3>4 DEF Pending
    <3>6. off[c] + y \in 1 .. Len(q) /\ q[off[c] + y] = D[c][y]
      <4>1. PICK l \in Nat, z \in Nat : l = Len(q) /\ z = Len(D[c])
        BY <1>5, <3>3, QueueParts, LenProperties
      <4>2. /\ off[c] \in 0 .. l /\ off[c + 1] \in 0 .. l /\ off[c + 1] = off[c] + z
            /\ \A x \in 1 .. z : q[off[c] + x] = D[c][x]
        <5>1. c \in 1 .. K + 1 /\ c + 1 \in 1 .. K + 1
          BY <3>3
        <5> QED BY <1>7, <1>10, <3>3, <4>1, <5>1 DEF Joined
      <4> QED BY <4>1, <4>2, WithinSum
    <3> QED BY <3>5, <3>6 DEF Pending
  <2>7. BytesSoFar(q, mem, Wants)
    <3>1. SUFFICES ASSUME NEW at \in Nat, at % width = 0, NEW k \in 0 .. width - 1
                   PROVE  ByteOf(WordIn(mem, at), k) =
                            IF Pending(q, at + k) THEN {} ELSE Wants[at + k]
      BY Zenon DEF BytesSoFar
    <3>2. WordIn(mem, at) = {}
      BY <1>1 DEF WordIn
    <3>3. ByteOf(WordIn(mem, at), k) = {}
      BY <3>2 DEF ByteOf
    <3>4. ~ Pending(q, at + k) => Wants[at + k] = {}
      <4>1. at + k \in Nat
        BY StimuliConstants
      <4>2. at + k \notin Needed => Wanted(at + k) = {}
        BY <1>1, <1>16, WantedByte
      <4> QED BY <2>5, <4>1, <4>2 DEF Wants
    <3> QED BY <3>3, <3>4
  <2>8. NoneMissing(q, mem, Needed)
    BY <2>5 DEF NoneMissing
  <2> QED BY <1>12, <2>3, <2>4, <2>7, <2>8, Zenon DEF Packing
<1> QED BY <1>1, <1>14, <1>15, <1>16 DEF PackInv

\* What is wanted depends on the binary only.
LEMMA WantedStays ==
  ASSUME image' = image
  PROVE  Disjoint' = Disjoint /\ Wants' = Wants /\ Needed' = Needed
<1>1. ToPack' = ToPack
  BY DEF ToPack
<1>2. \A i : Memory(i)' = Memory(i)
  BY DEF Memory
<1>3. \A a : Wanted(a)' = Wanted(a)
  BY <1>1 DEF Wanted
<1>4. Disjoint' = Disjoint
  BY <1>1, <1>2 DEF Disjoint
<1>5. Wants' = Wants
  BY <1>3 DEF Wants
<1>6. Needed' = Needed
  BY <1>1, <1>2 DEF Needed
<1> QED BY <1>4, <1>5, <1>6

\* One call of __add_mem_word keeps the invariant.
LEMMA AddStep == PackInv /\ add_mem_word => PackInv'
<1> SUFFICES ASSUME PackInv, add_mem_word PROVE PackInv'
  OBVIOUS
<1>1. /\ image \in Images /\ Queue(pieces) /\ Words(mem)
      /\ Disjoint => Packing(pieces, mem, Wants, Needed)
  BY DEF PackInv
<1>2. /\ phase = "packing" /\ pieces # <<>> /\ image' = image /\ phase' = phase
  BY DEF add_mem_word
<1>3. PICK q, m, p, m2 : q = pieces /\ m = mem /\ p = pieces' /\ m2 = mem'
  OBVIOUS
<1>4. \E n : HasAdvanced(p, m2, q, m, n)
  <2>1. Head(q) = q[1]
    OBVIOUS
  <2>2. HasAdvanced(p, m2, q, m, IterSize(q[1].base, Len(q[1].data)))
    <3>1. p = PieceOf(q[1].base + IterSize(q[1].base, Len(q[1].data)),
                      SubSeq(q[1].data, IterSize(q[1].base, Len(q[1].data)) + 1,
                             Len(q[1].data))) \o Tail(q)
      BY <1>3, <2>1 DEF add_mem_word
    <3>2. m2 = [a \in DOMAIN m \cup {AlignedBase(q[1].base)} |->
                  IF a = AlignedBase(q[1].base)
                  THEN Packed(WordIn(m, a), q[1].data,
                              IterSize(q[1].base, Len(q[1].data)), q[1].base - a)
                  ELSE m[a]]
      BY <1>3, <2>1 DEF add_mem_word, Packed, WordIn, Word
    <3> QED BY <3>1, <3>2, Zenon DEF HasAdvanced
  <2> QED BY <2>2
<1>5. PICK n : HasAdvanced(p, m2, q, m, n)
  BY <1>4
<1>6. Queue(q) /\ q # <<>> /\ Words(m)
  BY <1>1, <1>2, <1>3
<1>7. Queue(p)
  <2>1. n \in 1 .. Len(q[1].data)
    BY <1>5, <1>6, AdvanceSize
  <2>2. p = PieceOf(q[1].base + n, SubSeq(q[1].data, n + 1, Len(q[1].data))) \o Tail(q)
    BY <1>5, Zenon DEF HasAdvanced
  <2> QED BY <1>6, <2>1, <2>2, Advance
<1>8. Words(m2)
  BY <1>5, <1>6, WordsStep
<1>9. ASSUME Disjoint PROVE Packing(p, m2, Wants, Needed)
  <2>1. PICK w, M : w = Wants /\ M = Needed
    OBVIOUS
  <2>2. Packing(q, m, w, M)
    BY <1>1, <1>3, <1>9, <2>1
  <2>3. M \in SUBSET Nat
    BY <1>1, <2>1, NeededType
  <2>4. Packing(p, m2, w, M)
    BY <1>5, <1>6, <2>2, <2>3, PackingStep
  <2> QED BY <2>1, <2>4
<1>10. Disjoint' = Disjoint /\ Wants' = Wants /\ Needed' = Needed
  BY <1>2, WantedStays
<1>11. Queue(pieces') /\ Words(mem') /\ (Disjoint' => Packing(pieces', mem', Wants', Needed'))
  BY <1>3, <1>7, <1>8, <1>9, <1>10, Zenon
<1> QED BY <1>1, <1>2, <1>11, Zenon DEF PackInv

\* Every step keeps it.
LEMMA StimuliStep == PackInv /\ [StimuliNext]_stimuliVars => PackInv'
<1> SUFFICES ASSUME PackInv, [StimuliNext]_stimuliVars PROVE PackInv'
  OBVIOUS
<1>1. CASE add_mem_word
  BY <1>1, AddStep
<1>2. ASSUME image' = image, pieces' = pieces, mem' = mem
      PROVE  /\ image' \in Images /\ Queue(pieces') /\ Words(mem')
             /\ Disjoint' => Packing(pieces', mem', Wants', Needed')
  <2>1. Disjoint' = Disjoint /\ Wants' = Wants /\ Needed' = Needed
    BY <1>2, WantedStays
  <2>2. /\ image \in Images /\ Queue(pieces) /\ Words(mem)
        /\ Disjoint => Packing(pieces, mem, Wants, Needed)
    BY DEF PackInv
  <2> QED BY <1>2, <2>1, <2>2, Zenon
<1>3. CASE gen_stim_slm
  <2>1. /\ image' = image /\ pieces' = pieces /\ mem' = mem
        /\ pieces = <<>> /\ phase' = "done" /\ slm' = {<<a, mem[a]>> : a \in DOMAIN mem}
    BY <1>3 DEF gen_stim_slm
  <2>2. /\ image' \in Images /\ Queue(pieces') /\ Words(mem')
        /\ Disjoint' => Packing(pieces', mem', Wants', Needed')
    BY <1>2, <2>1
  <2>3. slm' = {<<a, mem'[a]>> : a \in DOMAIN mem'}
    BY <2>1
  <2> QED BY <2>1, <2>2, <2>3 DEF PackInv
<1>4. CASE UNCHANGED stimuliVars
  <2>1. /\ image' = image /\ pieces' = pieces /\ mem' = mem /\ slm' = slm /\ phase' = phase
    BY <1>4 DEF stimuliVars
  <2>2. /\ image' \in Images /\ Queue(pieces') /\ Words(mem')
        /\ Disjoint' => Packing(pieces', mem', Wants', Needed')
    BY <1>2, <2>1
  <2>3. /\ phase \in {"packing", "done"}
        /\ phase = "done" => pieces = <<>> /\ slm = {<<a, mem[a]>> : a \in DOMAIN mem}
    BY DEF PackInv
  <2> QED BY <2>1, <2>2, <2>3 DEF PackInv
<1> QED BY <1>1, <1>3, <1>4 DEF StimuliNext

\* The joint inductive invariant of the queue and the words, part way through.
THEOREM PackingInvariant == StimuliSpec => []PackInv
<1> QED BY StimuliStart, StimuliStep, PTL DEF StimuliSpec

\* The words of the file are aligned and no wider than a word, also where
\* segments overlap.
THEOREM StimuliTypes == StimuliSpec => []StimuliTypeOK
<1>1. PackInv => StimuliTypeOK
  <2> SUFFICES ASSUME PackInv PROVE StimuliTypeOK
    OBVIOUS
  <2>1. Queue(pieces) /\ Words(mem) /\ phase \in {"packing", "done"}
    BY DEF PackInv
  <2>2. DOMAIN pieces = 1 .. Len(pieces)
    BY <2>1, LenProperties DEF Queue
  <2> QED BY <2>1, <2>2 DEF Queue, Words, StimuliTypeOK
<1> QED BY <1>1, PackingInvariant, PTL

\* The file of a binary whose segments do not overlap has every byte of every
\* segment, zero for the rest of its memory, and nothing else, however the
\* segments begin and end inside words.
THEOREM PackedAlways == StimuliSpec => []PackedExactly
<1>1. PackInv => PackedExactly
  <2> SUFFICES ASSUME PackInv, phase = "done", Disjoint
               PROVE  /\ \A line \in slm : \A k \in 0 .. width - 1 :
                           ByteOf(line[2], k) = Wanted(line[1] + k)
                      /\ \A i \in ToPack : \A a \in Memory(i) :
                           \E line \in slm : a - line[1] \in 0 .. width - 1
    BY Zenon DEF PackedExactly
  <2>1. /\ image \in Images /\ Words(mem) /\ pieces = <<>>
        /\ slm = {<<a, mem[a]>> : a \in DOMAIN mem}
        /\ Packing(pieces, mem, Wants, Needed)
    BY DEF PackInv
  <2>2. \A a : ~ Pending(pieces, a)
    <3>1. Len(pieces) = 0 /\ 1 .. 0 = {}
      BY <2>1
    <3> QED BY <3>1 DEF Pending
  <2>3. ASSUME NEW line \in slm, NEW k \in 0 .. width - 1
        PROVE  ByteOf(line[2], k) = Wanted(line[1] + k)
    <3>1. PICK a \in DOMAIN mem : line = <<a, mem[a]>>
      BY <2>1
    <3>2. a \in Nat /\ a % width = 0
      BY <2>1 DEF Words
    <3>3. ByteOf(WordIn(mem, a), k) = Wants[a + k]
      BY <2>1, <2>2, <2>3, <3>2, Zenon DEF Packing, BytesSoFar
    <3>4. a + k \in Nat /\ WordIn(mem, a) = mem[a]
      BY <3>2, StimuliConstants DEF WordIn
    <3>5. Wants[a + k] = Wanted(a + k)
      BY <3>4 DEF Wants
    <3> QED BY <3>1, <3>3, <3>4, <3>5
  <2>4. ASSUME NEW i \in ToPack, NEW a \in Memory(i)
        PROVE  \E line \in slm : a - line[1] \in 0 .. width - 1
    <3>1. a \in Needed
      BY DEF Needed
    <3>2. a \in Nat
      BY <2>1, <3>1, NeededType
    <3>3. AlignedBase(a) \in DOMAIN mem
      BY <2>1, <2>2, <3>1, Zenon DEF Packing, NoneMissing
    <3>4. PICK at \in Nat, r \in 0 .. width - 1 : at = AlignedBase(a) /\ a = at + r
      BY <3>2, AlignedDown
    <3>5. a - at = r
      BY <3>4, StimuliConstants
    <3>6. PICK line \in slm : line = <<at, mem[at]>>
      BY <2>1, <3>3, <3>4
    <3>7. line[1] = at
      BY <3>6
    <3> QED BY <3>4, <3>5, <3>6, <3>7
  <2> QED BY <2>3, <2>4
<1> QED BY <1>1, PackingInvariant, PTL
=============================================================================
