---------------------------- MODULE MemoryPreload ----------------------------
(***************************************************************************)
(* Filling the DRAMs before the simulation: add_dram, bytes, files of hex  *)
(* lines and ELF binaries.  The calls come one after the other from the    *)
(* thread that uses the library, so each is one step.                      *)
(*                                                                         *)
(* A DRAM has one memory per channel.  A binary is its program headers     *)
(* (file bytes in data); the assertions of the ELF loader about the shape  *)
(* of the file are the flags headers_ok, in_file and symbols_ok.  A failed *)
(* assertion, a fatal report and a write to storage that is not there all  *)
(* end the process: pc = "aborted".  Addresses have AddressSpace values    *)
(* (2^64 in the program), bytes ByteSize (256).                            *)
(***************************************************************************)
EXTENDS Integers, Sequences

CONSTANTS
  Configurations,  \* what add_dram may be given: channels, size of one, store
  MaxDrams,
  MaxCalls,        \* bound on the calls that fill memory
  AddressSpace, ByteSize,
  Bases,           \* base addresses dram_load_elf may be called with
  Binaries,        \* ELF files
  MemFiles,        \* files of lines
  NoFile,          \* a file that is not there
  Blank, NotHex    \* a line without text, a line that is not a number

Byte == 0 .. ByteSize - 1

\* The size of a DRAM is a signed number, so it is below AddressSpace, and a
\* DRAM ends in the address space.
ASSUME PreloadConstants ==
  /\ AddressSpace \in Nat \ {0} /\ ByteSize \in Nat \ {0}
  /\ \A c \in Configurations :
       c.channels \in Nat \ {0} /\ c.size \in 1 .. AddressSpace - 1 /\ c.store \in BOOLEAN
  /\ \A base \in Bases : base \in Nat /\ \A c \in Configurations : base + c.size <= AddressSpace
  /\ NoFile \notin Binaries /\ NoFile \notin MemFiles

\* A segment has at most as many bytes in the file as in memory: the loader
\* resizes zeros to the difference.
ASSUME FileConstants ==
  /\ \A b \in Binaries :
       /\ Len(b.headers) \in Nat /\ DOMAIN b.headers = 1 .. Len(b.headers)
       /\ \A i \in DOMAIN b.headers :
            LET h == b.headers[i]
            IN /\ h.paddr \in 0 .. AddressSpace - 1 /\ h.memsz \in Nat
               /\ h.data \in Seq(Byte) /\ Len(h.data) <= h.memsz
  /\ \A f \in MemFiles :
       /\ Len(f) \in Nat /\ DOMAIN f = 1 .. Len(f)
       /\ \A i \in DOMAIN f : f[i] \in {Blank, NotHex} \/ f[i] \in Nat

VARIABLES
  drams,           \* list_of_DRAMsys and list_of_DRAMsize, with the memories
  sections,        \* address and size of the segments loaded
  section_index,
  pc,              \* "running" or "aborted"
  log              \* history: the calls that filled memory

vars == <<drams, sections, section_index, pc, log>>

Init ==
  /\ drams = <<>> /\ sections = <<>> /\ section_index = 0
  /\ pc = "running" /\ log = <<>>

Abort == pc' = "aborted" /\ UNCHANGED <<drams, sections, section_index, log>>

add_dram(c) ==
  /\ pc = "running" /\ Len(drams) < MaxDrams
  /\ drams' = Append(drams, [size |-> c.size, store |-> c.store,
                             memory |-> [ch \in 1 .. c.channels |->
                                           [a \in 0 .. c.size - 1 |-> 0]]])
  /\ UNCHANGED <<sections, section_index, pc, log>>

-----------------------------------------------------------------------------
(* Bytes                                                                   *)

Filled(m, addr, data) ==
  [a \in DOMAIN m |-> IF a - addr + 1 \in DOMAIN data THEN data[a - addr + 1] ELSE m[a]]

\* DRAMSys::perloadByte for bytes in a row: each goes to the same address of
\* every channel.
Preloaded(id, addr, data) ==
  [drams EXCEPT ![id].memory = [ch \in DOMAIN @ |-> Filled(@[ch], addr, data)]]

MayFill == pc = "running" /\ Len(log) < MaxCalls

\* There is no check of the address; callers stay in the DRAM.
dram_preload_byte(id, addr, byte) ==
  /\ MayFill /\ addr < drams[id].size
  /\ IF ~drams[id].store THEN Abort
     ELSE /\ drams' = Preloaded(id, addr, <<byte>>)
          /\ log' = Append(log, [op |-> "bytes", dram |-> id, addr |-> addr, data |-> <<byte>>])
          /\ UNCHANGED <<sections, section_index, pc>>

\* DRAMSys::checkByte returns a byte of the first channel and changes nothing,
\* but is fatal without storage.
dram_check_byte(id, addr) ==
  /\ pc = "running" /\ addr < drams[id].size
  /\ ~drams[id].store /\ Abort

\* What std::hex makes of a line: the low byte of its number, 0 if it is not
\* one.  A line without text leaves the variable as it is: uninitialized.
Reads(line) == IF line = Blank THEN Byte
               ELSE IF line = NotHex THEN {0} ELSE {line % ByteSize}

\* Mutant: a line without text does not move the address on.
BytesOfSkipping(f) ==
  LET lines == SelectSeq(f, LAMBDA l : l # Blank)
  IN {data \in [DOMAIN lines -> Byte] : \A i \in DOMAIN lines : data[i] \in Reads(lines[i])}

\* The bytes a file may stand for, one per line.
BytesOf(f) == {data \in [DOMAIN f -> Byte] : \A i \in DOMAIN f : data[i] \in Reads(f[i])}

dram_load_memfile(id, addr, f) ==
  /\ MayFill
  /\ IF f = NoFile THEN UNCHANGED vars
     ELSE /\ addr + Len(f) <= drams[id].size
          /\ IF ~drams[id].store /\ f # <<>> THEN Abort
             ELSE \E data \in BytesOf(f) :
                    /\ drams' = Preloaded(id, addr, data)
                    /\ log' = Append(log, [op |-> "file", dram |-> id, addr |-> addr,
                                           lines |-> f])
                    /\ UNCHANGED <<sections, section_index, pc>>

-----------------------------------------------------------------------------
(* ELF binaries                                                            *)

\* uint64_t arithmetic.
Offset(address, base, i) == (address - base + i) % AddressSpace

\* Segments with bytes in the file; bss has none and is never cleared.
Loaded(b) ==
  {i \in DOMAIN b.headers :
     b.headers[i].load /\ b.headers[i].memsz # 0 /\ b.headers[i].data # <<>>}

\* Mutant: only the start of a segment is compared.
InMemoryStart(h, base, size) == Offset(h.paddr, base, 0) < size

\* The assertion of write, byte by byte.
InMemory(h, base, size) ==
  \A i \in DOMAIN h.data : Offset(h.paddr, base, i - 1) < size

LoadsWell(b, base, dram) ==
  /\ b.headers_ok /\ b.symbols_ok
  /\ \A i \in Loaded(b) :
       b.headers[i].in_file /\ dram.store /\ InMemory(b.headers[i], base, dram.size)

\* write copies a segment to its offset.
Written(m, h, base) == Filled(m, Offset(h.paddr, base, 0), h.data)

\* What the loop over the program headers has made of the memory and of the
\* list of sections after n headers.
HeaderLoop(b, base, memory, listed) ==
  LET after[n \in 0 .. Len(b.headers)] ==
        IF n = 0 THEN [memory |-> memory, sections |-> listed]
        ELSE IF n \in Loaded(b)
        THEN [memory |-> Written(after[n - 1].memory, b.headers[n], base),
              sections |-> Append(after[n - 1].sections,
                                  <<b.headers[n].paddr, b.headers[n].memsz>>)]
        ELSE after[n - 1]
  IN after

\* Segments go to the memory of the last channel (getDramBasePointer), in the
\* order of the program headers.
dram_load_elf(id, base, b) ==
  /\ MayFill
  /\ IF b = NoFile THEN UNCHANGED vars
     ELSE IF ~LoadsWell(b, base, drams[id]) THEN Abort
     ELSE LET last == Len(drams[id].memory)
              done == HeaderLoop(b, base, drams[id].memory[last], sections)[Len(b.headers)]
          IN /\ drams' = [drams EXCEPT ![id].memory[last] = done.memory]
             /\ sections' = done.sections
             /\ log' = Append(log, [op |-> "elf", dram |-> id, base |-> base, binary |-> b])
             /\ UNCHANGED <<section_index, pc>>

\* Mutant: the end of the list is not seen.
elfloader_get_sectionPast ==
  /\ pc = "running" /\ section_index <= Len(sections)
  /\ section_index' = section_index + 1
  /\ UNCHANGED <<drams, sections, pc, log>>

elfloader_get_section ==
  /\ pc = "running" /\ section_index < Len(sections)
  /\ section_index' = section_index + 1
  /\ UNCHANGED <<drams, sections, pc, log>>

Next ==
  \/ \E c \in Configurations : add_dram(c)
  \/ \E id \in DOMAIN drams, addr \in 0 .. AddressSpace - 1 :
       \/ \E byte \in Byte : dram_preload_byte(id, addr, byte)
       \/ dram_check_byte(id, addr)
       \/ \E f \in MemFiles \cup {NoFile} : dram_load_memfile(id, addr, f)
  \/ \E id \in DOMAIN drams, base \in Bases, b \in Binaries \cup {NoFile} :
       dram_load_elf(id, base, b)
  \/ elfloader_get_section

Spec == Init /\ [][Next]_vars

-----------------------------------------------------------------------------
(* Properties                                                              *)

\* The variables have the types of the program; the list of segments is never
\* read behind its end.
TypeOK ==
  /\ \A id \in DOMAIN drams : \A ch \in DOMAIN drams[id].memory :
       drams[id].memory[ch] \in [0 .. drams[id].size - 1 -> Byte]
  /\ section_index \in 0 .. Len(sections)
  /\ pc \in {"running", "aborted"}

\* The segments of a binary that hold address, in plain integers.
Holding(b, address) ==
  {i \in DOMAIN b.headers :
     /\ b.headers[i].load
     /\ b.headers[i].paddr <= address
     /\ address < b.headers[i].paddr + Len(b.headers[i].data)}

\* What entry e of the log may have left at an address of a channel; nothing
\* when it does not concern it.
Left(e, id, ch, a) ==
  IF e.dram # id THEN {}
  ELSE CASE e.op = "bytes" -> IF a = e.addr THEN {e.data[1]} ELSE {}
         [] e.op = "file" -> IF a - e.addr + 1 \in DOMAIN e.lines
                             THEN Reads(e.lines[a - e.addr + 1]) ELSE {}
         [] OTHER ->
              LET hs == Holding(e.binary, e.base + a)
              IN IF ch # Len(drams[id].memory) \/ hs = {} THEN {}
                 ELSE LET h == e.binary.headers[CHOOSE i \in hs : \A j \in hs : j <= i]
                      IN {h.data[e.base + a - h.paddr + 1]}

\* Whatever was loaded, in whatever order and into whichever DRAM, every byte
\* of every memory is what the last call that concerns it gave: overlapping
\* segments in the order of their headers, no byte of another DRAM, nothing
\* shifted, and zero where nobody wrote.
Contents ==
  \A id \in DOMAIN drams : \A ch \in DOMAIN drams[id].memory :
    \A a \in DOMAIN drams[id].memory[ch] :
      LET at == {n \in DOMAIN log : Left(log[n], id, ch, a) # {}}
      IN drams[id].memory[ch][a] \in
           IF at = {} THEN {0} ELSE Left(log[CHOOSE n \in at : \A k \in at : k <= n], id, ch, a)

\* A binary the loader returned from is in memory as a whole: a segment below
\* the base or over the end of the DRAM is never cut, also when the offset
\* wraps around.
LoadedWhole ==
  \A n \in DOMAIN log : log[n].op = "elf" =>
    \A i \in DOMAIN log[n].binary.headers :
      LET h == log[n].binary.headers[i]
      IN h.load /\ h.data # <<>> =>
           /\ log[n].base <= h.paddr
           /\ h.paddr + Len(h.data) - log[n].base <= drams[log[n].dram].size
=============================================================================
