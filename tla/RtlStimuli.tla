----------------------------- MODULE RtlStimuli -----------------------------
(***************************************************************************)
(* The stimuli of the RTL test bench: the segments of a binary are packed  *)
(* in memory words, which are then written to a file, one per line.        *)
(*                                                                         *)
(* A byte is the set of its bits that are 1, and so is a word, its least   *)
(* significant byte first.  One step is one call of __add_mem_word.        *)
(***************************************************************************)
EXTENDS Integers, Sequences, FiniteSets, SequencesExt

CONSTANTS
  width,       \* bytes of a word: 4
  ByteWidth,   \* bits of a byte: 8
  Images       \* binaries, sequences of their segments

Octet == SUBSET (0 .. ByteWidth - 1)
Segment == [load : BOOLEAN, addr : Nat, data : Seq(Octet), memsz : Nat]

\* A word has at most as many bytes as a byte has bits: add_mem_word clears
\* that many bits, and they must not reach into the next byte.
ASSUME StimuliConstants ==
  /\ width \in Nat \ {0} /\ ByteWidth \in Nat /\ width <= ByteWidth
  /\ Images \subseteq Seq(Segment)
  /\ \A b \in Images : \A i \in DOMAIN b : Len(b[i].data) <= b[i].memsz

VARIABLES
  image,    \* the binary
  pieces,   \* what is still to be put in memory: address and bytes
  mem,      \* the words, by address
  slm,      \* the lines of the file: addresses and words
  phase     \* "packing" or "done"

stimuliVars == <<image, pieces, mem, slm, phase>>

-----------------------------------------------------------------------------
(* __parse_binaries: the data of every loaded segment, then zeros for the  *)
(* rest of its memory                                                      *)

PieceOf(base, data) == IF data = <<>> THEN <<>> ELSE <<[base |-> base, data |-> data]>>
Zeros(n) == [i \in 1 .. n |-> {}]

PiecesOf(s) ==
  IF s.load
  THEN PieceOf(s.addr, s.data) \o PieceOf(s.addr + Len(s.data), Zeros(s.memsz - Len(s.data)))
  ELSE <<>>

StimuliInit ==
  /\ image \in Images
  /\ pieces = FlattenSeq([i \in DOMAIN image |-> PiecesOf(image[i])])
  /\ mem = <<>> /\ slm = {} /\ phase = "packing"

-----------------------------------------------------------------------------
(* Words                                                                   *)

\* base & ~(width - 1): width is a power of two.
AlignedBase(base) == base - (base % width)

\* Mutant: all bits from the first byte of the piece to the end of a word.
ClearedAll(shift) == ByteWidth * shift .. ByteWidth * (shift + width) - 1

\* ((1 << width) - 1) << (shift * 8): as many bits as a word has bytes.
Cleared(shift) == ByteWidth * shift .. ByteWidth * shift + width - 1

\* int.from_bytes, little end first.
FromBytes(data) ==
  UNION {{ByteWidth * (i - 1) + bit : bit \in data[i]} : i \in DOMAIN data}

Shifted(value, shift) == {bit + ByteWidth * shift : bit \in value}

Word(aligned_base) == IF aligned_base \in DOMAIN mem THEN mem[aligned_base] ELSE {}

LeastOf(a, b) == IF a < b THEN a ELSE b

\* Mutant: a piece always fills words from their start.
IterSizeWhole(base, size) == LeastOf(width, size)

IterSize(base, size) == LeastOf(width - (base % width), size)

add_mem_word ==
  /\ phase = "packing" /\ pieces # <<>>
  /\ LET base == Head(pieces).base
         data == Head(pieces).data
         at == AlignedBase(base)
         shift == base - at
         n == IterSize(base, Len(data))
         value == (Word(at) \ Cleared(shift)) \cup Shifted(FromBytes(SubSeq(data, 1, n)), shift)
     IN /\ mem' = [a \in DOMAIN mem \cup {at} |-> IF a = at THEN value ELSE mem[a]]
        /\ pieces' = PieceOf(base + n, SubSeq(data, n + 1, Len(data))) \o Tail(pieces)
  /\ UNCHANGED <<image, slm, phase>>

\* __gen_stim_slm: one line per word.  The lines are in the order of the
\* addresses as strings, which the reader of the file does not need.
gen_stim_slm ==
  /\ phase = "packing" /\ pieces = <<>>
  /\ slm' = {<<a, mem[a]>> : a \in DOMAIN mem}
  /\ phase' = "done"
  /\ UNCHANGED <<image, pieces, mem>>

StimuliNext == add_mem_word \/ gen_stim_slm

StimuliSpec == StimuliInit /\ [][StimuliNext]_stimuliVars

-----------------------------------------------------------------------------
(* Properties                                                              *)

ToPack == {i \in DOMAIN image : image[i].load}
Memory(i) == image[i].addr .. image[i].addr + image[i].memsz - 1
Disjoint == \A i, j \in ToPack : i # j => Memory(i) \cap Memory(j) = {}

\* Byte k of a word.
ByteOf(word, k) == {bit \in 0 .. ByteWidth - 1 : bit + ByteWidth * k \in word}

\* What the binary says of an address: a byte of the file, else zero.
Wanted(a) ==
  LET holding == {i \in ToPack : a \in image[i].addr .. image[i].addr + Len(image[i].data) - 1}
  IN IF holding = {} THEN {}
     ELSE LET i == CHOOSE i \in holding : TRUE IN image[i].data[a - image[i].addr + 1]

\* Words are aligned and have no bit beyond their width (a line of the file
\* has two hex digits per byte of a word).
StimuliTypeOK ==
  /\ \A a \in DOMAIN mem : a % width = 0 /\ mem[a] \subseteq 0 .. ByteWidth * width - 1
  /\ \A i \in DOMAIN pieces : pieces[i].data # <<>>
  /\ phase \in {"packing", "done"}

\* When no two segments overlap the file gives every byte of every segment
\* its value, the bss zero, and nothing else: also where two segments share a
\* word, in whichever order they come.
PackedExactly ==
  phase = "done" /\ Disjoint =>
    /\ \A line \in slm : \A k \in 0 .. width - 1 :
         ByteOf(line[2], k) = Wanted(line[1] + k)
    /\ \A i \in ToPack : \A a \in Memory(i) : \E line \in slm : a - line[1] \in 0 .. width - 1
=============================================================================
