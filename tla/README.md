# Verification of SoftHier's DRAM bridge, gapy and PULP's linker back end

This directory holds TLA+ models of the parts of this repository that have a
logic of their own, the TLC runs that check them on small instances, and proofs
checked by TLAPS that hold for every instance.

The repository is a GVSoC release with three things of its own:

* **the DRAM path**: patches that put a DRAMSys memory system behind a GVSoC
  component (`add_dramsyslib_patches`);
* **gapy**: the Python tool that builds a target, its flash images and its
  stimuli from a command line (`gapy`);
* **PULP's linker back end**: linker relaxation and the import and export
  sections of components, in the RISC-V back end of the binary file library
  that `gapy` brings along (`gapy/gen-debug-info-src/ext/bfd/elf32-riscv.c`).

Everything else is build scripts, third-party code, configuration data and
example binaries.

Paths below are relative to `src/`; *lib patch* is
`add_dramsyslib_patches/build_dynlib_from_github_dramsys5/patch`, *core patch*
is `add_dramsyslib_patches/gvsoc_core.patch`; *back end* is
`gapy/gen-debug-info-src/ext/bfd/elf32-riscv.c`.

## 1. Inventory

### The DRAM path

| component | state | operations | what makes it correct |
|---|---|---|---|
| DRAM bridge `ddr` (core patch) | `denied_req_queue`, `pending_read_req_queue`, the `IoReq`s of its initiators | `req`, `paraSendRequest`, `reqCallback`, `rspCallback` | each request is answered once, in order, with the bytes an atomic memory would give |
| converter `dramsys_conv` (lib patch) | `all_req_list`, `read_req_list`, `write_req_list`, `out_order_rsp_list`, the two response queues, `inflight_read_cnt` | `dram_send_req`, `peqCallback` (END_REQ, BEGIN_RESP) | no fatal report; reads delivered in request order; counters agree with the memory |
| C interface of the library (lib patch) | per DRAM: one write buffer, one strobe buffer | `add_dram`, `dram_send_req` (splits strobed writes into bursts), polls, `run_ns`, `cloes_dram` | bursts carry the right bytes, strobes and addresses |
| payload pool (lib patch, `MemoryManager`) | free payloads and their byte-enable buffers | `allocate`, `free` | no stale strobe survives re-use |
| memory preload and ELF loader (lib patch) | DRAM contents, list of loaded segments | `dram_preload_byte`, `dram_load_memfile`, `dram_load_elf`, `elfloader_get_section` | each byte is what the last call gave; no segment is cut |
| polling client (`dynamic_load/main.c`) | receive buffer | ask, send, run, poll | a poll finds whole reads |

Interaction. An initiator of the GVSoC core calls `ddr::req`. The bridge cuts
the request into chunks of `GRANULARITY` bytes and calls the library, whose
converter sends TLM payloads to DRAMSys. When DRAMSys accepts a payload
(END_REQ) the converter calls `ddr::reqCallback`, which sends denied requests
and calls `grant()` and `resp()` of their initiators; when it answers
(BEGIN_RESP) the converter re-orders and calls `ddr::rspCallback`, which calls
`resp()`. Everything is in one simulation thread, but it is **re-entrant**: an
initiator may call `ddr::req` again inside `grant()` and `resp()`, before the
bridge has popped the request it is answering. The hard part is exactly that:
which queue is in which state at each re-entry, and what out-of-order responses
and bursts do to lists that are matched by position or by address only.

### gapy

| component | state | operations | what makes it correct |
|---|---|---|---|
| command line, target and commands (`gapy/bin/gapy`, `gapylib/target.py`) | `target_properties`, `args_properties`, flashes and what is set on them | declare and read properties, hand flash options over, check, run commands | the last value given wins; nothing is done unless everything is accepted |
| flash layout (`gapylib/flash.py`) | sections with offsets and structures, content with overrides | `__parse_content`, layout, `finalize`, image, dump | sections do not overlap, fit, and all outputs agree |
| flash section contents (`gapylib/fs`, `chips/pulp/rom_v2.py`) | structures of one section, sizes recorded in headers | `set_content`, `finalize`, `is_empty` | boot code and file systems find what the headers say |
| RTL stimuli (`chips/gap/rtl_testbench.py`) | memory words | `__add_mem_word`, `__gen_stim_slm` | every byte is in its word |
| CRC and C structures (`gapylib/utils.py`) | fields of a structure | pack, `compute_crc` | field offsets, CRC value |

Interaction. `gapy` builds a `Target`, whose constructor declares properties and
registers `Flash` objects; `parse_args` hands contents, section properties and
attributes to the flashes; a command runs on each flash in turn; a flash parses
its content the first time a command needs it, creating sections that allocate
their structures and are finalized when all offsets are known. There is no
concurrency; what is hard is order (declared before or after read, finalized
before or after laid out, the command that parsed first) and half-done calls.

### PULP's linker back end

| component | state | operations | what makes it correct |
|---|---|---|---|
| relaxation of a section | its bytes, relocations and symbols; `sec_flg0`; the pass and `again` | `_bfd_riscv_relax_section` with one function per kind of code sequence, `riscv_relax_delete_bytes` | only superfluous code is deleted, everything else follows it; jumps reach, low parts fit their LUI, paddings align |
| import and export tables | `ImportEntries`, `ExportEntries`: hash tables of names, with the references to each | collect (`check_relocs`), sizes, list (`relocate_section`), write (`final_link`) | a loader that reads the sections finds every reference of the relaxed code |

Interaction. The linker calls the back end of each input section: first
`check_relocs`, which counts the references to imports (weak symbols in
`.pulp.import`), then the sizes of the import sections, then the relaxation, again
and again until no sweep shortens anything, in pass 0 for code and in pass 1 for
alignment; then `relocate_section`, which lists the references as relaxing left
them, and `final_link`, which writes `.pulp.import.names`,
`.pulp.import.relocs` and `.pulp.export`. One thread; what is hard is that every
deletion moves relocations, symbols and distances that earlier and later
decisions rest on, and that what was counted before is written after.

This back end is a modified file of binutils, of which the tree holds the
source next to the library `gen-debug-info` is linked with. The modelled part is
the one PULP has changed, with the relaxation it is woven into. `elf64-riscv.c` is
the same file with 64 for 32.

### Not modelled, and why

| component | reason |
|---|---|
| payload pool | planned; the payloads of the model are values, so re-use cannot go wrong in it |
| CRC and C structures | planned; pure functions |
| `cloes_dram`, `dlopen`/`dlsym` | run once at the end or at the start, no later step reads their state |
| gen-debug-info (`gapy/gen-debug-info-src/main.cpp`) | one pass over a symbol table, printing: no state |
| libbfd headers, `hp-symtab.h`, `longlong.h`, the rest of the two RISC-V back ends | binutils: declarations, and functions PULP has not changed |
| applying relocations to instructions, dynamic linking, dumps of the back end | bit fields of instructions; dynamic linking is not used by PULP programs; printing |
| build scripts, `gvsoc_pulp.patch` | fetch, patch, build; the latter only maps the bridge at an address |
| DRAM configurations | data of DRAMSys; the models take burst lengths and one channel from them |
| examples and test sets | binaries and lists of commands |

The repository's C code is nearly all binutils: of some 43000 lines 36000 are
the headers of libbfd (declarations and constants), `longlong.h` (inline
assembly) and a second copy of the back end for 64 bits, which have no behaviour
of their own to model. The code with a logic of its own is in the two patches,
which are diffs, in Python, and in about 1200 lines of the back end; these are
what the modules cover, so a share of all lines says little here.

## 2. Modules

| module | models |
|---|---|
| `DramsysConv` | the converter and the library's burst split; the DRAMSys memory behind it is external |
| `Ddr` | EXTENDS `DramsysConv`: the bridge, with its initiators |
| `AtomicDram` | abstract: a memory in which a request takes effect when `req` is called |
| `DdrHistory` | `Ddr` with two history variables and the mapping to `AtomicDram` |
| `PollingClient` | EXTENDS `DramsysConv`: a client without callbacks |
| `MemoryPreload` | `add_dram`, preloading, ELF loader |
| `FlashSections` | operators: what each section template declares, allocates, and when it is empty |
| `FlashLayout` | EXTENDS `FlashSections`: parsing, layout, finalize, commands of one flash |
| `GapyTarget` | one call of gapy, up to the commands on each flash |
| `RtlStimuli` | packing of segments in words |
| `RelaxSection` | relaxation of one code section |
| `ComponentLink` | EXTENDS `RelaxSection`: import and export tables around it, from `check_relocs` to `final_link` |
| `DataLemmas` | lemmas on counting in sequences and queues without repetition, on cutting increasing sequences, on sequences end to end and their prefixes, on running sums, on division and alignment |
| `ConvProofs` | what the converter keeps, and what it will deliver, whoever its client is |
| `DdrProofs` | EXTENDS `DdrHistory`, `ConvProofs`: the invariants of the bridge, and that it implements `AtomicDram` |
| `PollingProofs`, `FlashLayoutProofs`, `GapyTargetProofs`, `LinkProofs` | the proofs about the module of that name |
| `PreloadProofs` | the proofs about `MemoryPreload` and `RtlStimuli` |
| `MC*` | constants for the runs |

A definition whose comment starts with "Mutant:" is not part of a model: it is a
variant of the definition next to it with a plausible bug, kept to show that the
properties are able to fail.

### How the bridge corresponds to the code

`pc` is where the simulation thread is. `idle`: outside the library and the
bridge. `req_cb`: at the loop test of `reqCallback`. `granted`: inside `grant()`;
`wresp`: inside the `resp()` of a denied write. `match`: at the loop test of the
converter's delivery loop. `rsp_cb`: at the loop test of `rspCallback` for reads;
`rresp`: inside the `resp()` of a read; `wrsp_cb`: about to drain write
acknowledgements. `fatal`: an `SC_REPORT_FATAL` was reached. `req` is possible in
`Reentrant`, the four places where code of an initiator runs.

| action | code |
|---|---|
| `req` (`ReqTaken`, `ReqDenied`) | `ddr::req` |
| `paraSendRequest`, `Payloads`, `mask_d`, `data_q` | `ddr::paraSendRequest` with the sends of the library |
| `PeqEndReq` | `peqCallback`, END_REQ, up to the call of the client |
| `ReqCbSend`, `GrantReturnWrite`, `GrantReturnRead`, `WriteRespReturn`, `ReqCbExit` | `ddr::reqCallback`, cut at the calls of the initiator |
| `PeqBeginRespRead`, `PeqMatch` | `peqCallback`, BEGIN_RESP of a read, and its delivery loop |
| `RspCbByte`, `ReadRespReturn`, `RspCbExit` | `ddr::rspCallback`, reads, cut at `resp()` |
| `PeqBeginRespWrite`, `RspCbWrite` | BEGIN_RESP of a write and the callback for it |

An `IoReq` is `idle` while it belongs to its initiator, `denied` until it is
granted, `pending` until it is answered. A read buffer holds what the initiator
left in it until bytes arrive.

DRAMSys itself is not in this repository. It is modelled as used: payloads are
accepted in arrival order (the configurations select one channel and the arbiter
`Simple`), at most `MaxActiveTransactions` at a time, and answered in any order
that keeps the order of overlapping accesses; a payload is served when it is
answered.

### How the others correspond

* `PollingClient`: `Send` is `dram_send_req` after `dram_can_accept_req`;
  `PollRead`, `PollReadByte`, `PollWrite` are `dram_get_read_rsp`,
  `dram_get_read_rsp_byte`, `dram_get_write_rsp` after the matching `has` call;
  the other actions are what `run_ns` lets the converter do. `amem`, `due`,
  `wanted` and `owed` are history: what the client may expect.
* `MemoryPreload`: one action per library call. A failed assertion of the ELF
  loader, a fatal report and a write to storage that is not there end the
  process (`aborted`). The assertions are modelled as the source has them; a
  library built with `NDEBUG` does not have them. With several channels a byte
  goes to all of them and an ELF segment to the last one, as in the code. A
  line without text leaves a variable uninitialized: any byte.
* `FlashLayout`: `pc` follows `__parse_content`: `create` (sections), `override`
  (`__handle_section_properties`), `content` (`set_content`), `alloc`
  (`alloc_offset`, one structure per step), `finalize`; then `execute` and
  `image`. `error` is a `RuntimeError`, which gapy prints, `crash` any other
  exception. Files that cannot be read are a nondeterministic outcome
  (`UnreadableContent`).
* `GapyTarget`: `pc` follows `gapy` and `Target`: `construct` (the target's own
  code, which declares, registers and reads in any order), `parse`, `declare`,
  then the flash options one by one, `check_args`, and the commands. What a flash
  does of a command is left open here: done, refused, or failed; `FlashLayout`
  says which.
* `RtlStimuli`: one step is one turn of `__add_mem_word`; a byte and a word are
  sets of bits, so that the mask of the code (`((1 << width) - 1) << shift * 8`,
  as many bits as a word has *bytes*) is modelled as it is.

* `RelaxSection`: a byte is the position the assembler gave it, so `contents`
  says which bytes are left, in order; an instruction is shown by the type of its
  relocation, which each relaxation function rewrites together with it, and by
  `addi` where `_bfd_riscv_relax_got_ref` has written an ADDI over it.
  `state` is where the linker is: `relax` (about to call
  `_bfd_riscv_relax_section`), `sweep` (in its loop, at relocation `i`), `swept`;
  one action per turn of the loop (`Skip`, `RelaxRef` with one operator per
  relaxation function, `RelaxAlign`). `failed` is a `return FALSE`. Numbers are
  unbounded: addresses do not wrap, so `near_zero` is a small address and never
  one just below 2^32 (back end:3551); a size that drops below zero is the number
  below zero it is congruent to.
* `ComponentLink`: `check_relocs`, `Reserve_sections`, `relocate_section`,
  `final_link` are one action each, around the relaxation. Instructions are not
  patched, except that `relocate_section` fails as the code does when a low part
  relative to the pc has no high part at its symbol (`LowPartsResolve`). A word of a section
  is the record of its bit fields, cut to their widths. `crashed` is the null
  pointer `check_relocs` follows when the first reference is a low part.

## 3. Runs

Every run that passes explores all reachable states of its instance.
`CHECK_DEADLOCK FALSE` is set for the flash, gapy, polling, preload, stimuli and
linker runs, whose program ends, stops at an error, or reaches its bound of calls; the
two bridge runs check for deadlock.

| run | question | instance |
|---|---|---|
| `ddr_bridge` | fatal reports, overtaking, lost bytes and requests, and does every request get its answer while initiators keep calling | 2 requests; commands: an access of one byte and one of two bytes across a chunk boundary, each as read and write; 2 chunks of 2 bytes; bursts of a whole chunk (`ddr3`, `ddr4`); 2 active transactions |
| `ddr_atomic` | does the bridge implement `AtomicDram` | the same commands with 3 interchangeable requests (symmetry) and bursts of half a chunk (`hbm2`, `lpddr4`) |
| `polling_client` | do polls find whole reads, in order, and everything in the end | 4 transfers out of three reads of two lengths that overlap and two strobed writes, bursts of one byte, 3 active transactions |
| `memory_preload` | is every byte what the last call gave | 2 DRAMs out of three kinds (one channel, two channels, no storage), 3 calls; 16 addresses, byte values modulo 3; binaries with overlapping segments, bss, a segment below a base or over the end, a failing assertion; lines without text and not hexadecimal |
| `flash_layout` | do sections, tables, headers, descriptions and images agree | 512 bytes; 10 contents (the default one, one that uses everything, overflowing, incomplete, unknown template, empty) x 6 overrides x 4 alignments x pairs of commands |
| `gapy_target` | does the last value win, is nothing done before everything is accepted | 34 command lines x 4 target classes, every order of declaring, registering and reading |
| `rtl_stimuli` | is every byte in its word | all pairs of segments of up to 5 bytes and 2 of bss, at the addresses 0 to 5: over two words, also overlapping; words of 4 bytes |
| `component_link` | does relaxing keep the code, do jumps reach, do the tables tell a loader every reference | 619 sections of up to 50 bytes (three code sequences of any kind around one or two paddings) linked as a component, as a resident program, position independent, and with relaxing switched off (the last two without compressed code); reaches scaled to 26, 14, 16 and 4, so that targets lie in and out of reach; 2 buckets, 4 names |
| `flash_overflow`, `gapy_inlined`, `component_symbol_size`, `component_parts` | each finds one disagreement of section 5 | as above |

Why these bounds are enough to mean something. For the bridge, what can go wrong
needs: a call that sends several payloads before the first END_REQ (a request
over two chunks, or a split write), a request denied behind it, an initiator
that re-uses its request inside a callback (two requests: one that is answered
and one waiting behind it; the third in `ddr_atomic` can be called between them),
and two reads of equal or overlapping range answered in another order (two
active transactions). All are reachable in the instances; larger chunks only
repeat bytes. For the client four transfers allow two reads with writes before
and between. For the flash 512 bytes hold every kind of section with room left,
are overflowed by some contents, and are a multiple of each alignment. The
preload run needs three calls to have two loads and something in between; the
address space wraps in reach of a segment below the base. Two segments are all a
word shared by segments needs, and the packing of a third is the same step.
For the linker a deletion matters to what stands before it, in it and behind it:
three sequences, a function and a label around each give every order, and the
reaches are short enough that a distance of one sequence more is out of reach.
The hash function of the run puts three of four names in one bucket.

### Fairness

* `Ddr`: weak fairness of the steps of a running handler: there is one
  simulation thread, and it does not stop inside a callback. Strong fairness of
  accepting a payload and of answering the oldest one: DRAMSys accepts whenever
  it has room and always gets to its oldest transaction; strong, because the
  thread is not idle all the time. Initiators are not fair: nothing forces them
  to call, and nothing stops them from calling again at once, so
  `EveryRequestAnswered` includes that a denied request is not starved.
* `PollingClient`: weak fairness of `run_ns` (the client runs the simulation
  again and again) and of polling. The client sends finitely often.
* `ComponentLink`: weak fairness of the whole next-state relation: the linker is
  one thread that waits for nothing. `Terminates` is then about `again`.
* The other modules state no liveness.

### Properties

`DramsysConv`/`Ddr`: `NoFatal` (positions of the lists never disagree with the
payloads), `NeverOvertaken` (wherever an initiator can call, a waiting denied
request means the call is denied as well), `Bookkeeping` (counters and lists
agree with the transactions in the memory), `ByteConservation` (masks still due
equal the bytes on their way), `QueueOwnership` (each owed request is in exactly
one queue, once, also across re-use), `EveryRequestAnswered`,
`ImplementsAtomicDram`.

`PollingClient`: `PollsMatch`, `ReceivedWanted`, `AckPerBurst` (a split write has
as many acknowledgements as bursts), `EverythingArrives`.

`MemoryPreload`: `Contents`, `LoadedWhole` (also when the unsigned difference of
address and base wraps).

`FlashLayout`: `Disjoint`, `FieldsInSection`, `InFlash`, `TableFindsSections`
(partition entries span the sections behind the table), `RomFindsNext`,
`ImageInPlace`, `OutputsAgree`.

`GapyTarget`: `CommandLineWins`, `UsedIsFinal`, `FlashPropertiesInOrder`,
`AcceptedBeforeDone`, `InOrder`.

`RtlStimuli`: `PackedExactly`.

`RelaxSection`: `CodeKept` (what is left is what the assembler wrote except the
excess of shortened sequences, in order; each relocation stands at its
instruction, each symbol at its label; which instruction was put there is
`PartsTogether`), `Reach`, `LowPartsFollow` (a LUI is only
deleted if all low parts of the symbol become relative to gp or zero too, for
symbols that do not cross a multiple of the reach), `Aligned`.

`ComponentLink`: `TablesDecode` (the sections of a link that succeeds, read as the
comment in the back end documents them, give exactly the references to imports that
the assembler made, each at the place its instruction has moved to, a call as
the jump it became),
`ReservedEnough`, `Terminates`.

## 4. Proofs

All hold for every value of the constants that the named assumptions allow.

| theorem | states |
|---|---|
| `DdrProofs!TypeCorrect`, `Safe`, `NoOvertaking`, `Books`, `QueuesOwn`, `BytesConserved` | `TypeOK`, `NoFatal`, `NeverOvertaken`, `Bookkeeping`, `QueueOwnership`, `ByteConservation` of the bridge |
| `DdrProofs!Refinement` | `ImplementsAtomicDram` |
| `PollingProofs!PollsWholeReads`, `BufferFilled`, `OneAckPerBurst`, `ClientTypes` | `PollsMatch`, `ReceivedWanted`, `AckPerBurst`, `TypeOK` of the polling client |
| `PreloadProofs!LastCallWins`, `LoadedAsAWhole`, `PreloadTypes` | `Contents`, `LoadedWhole`, `TypeOK` of the preload |
| `PreloadProofs!PackedAlways`, `StimuliTypes` | `PackedExactly`, `StimuliTypeOK` of the stimuli |
| `FlashLayoutProofs!FlashTypes`, `SectionsDisjoint`, `SectionsHoldFields`, `LayoutInFlash` | `TypeOK`, `Disjoint`, `FieldsInSection`, `InFlash` |
| `FlashLayoutProofs!TablesFindSections`, `RomsFindNext`, `ImagesInPlace`, `AllOutputsAgree` | `TableFindsSections`, `RomFindsNext`, `ImageInPlace`, `OutputsAgree` |
| `LinkProofs!CodeKeptAlways` | `CodeKept` |
| `LinkProofs!ReachAlways` | `Reach` |
| `LinkProofs!AlignedAlways` | `Aligned` |
| `LinkProofs!LowPartsAlways` | `LowPartsFollow` |
| `LinkProofs!LinkTypesAlways` | `TypeOK` of the linker, tables included |
| `LinkProofs!ReservedAlways` | `ReservedEnough` |
| `GapyTargetProofs!LastValueWins`, `ReadIsFinal`, `NothingBeforeAccepted` | `CommandLineWins`, `UsedIsFinal`, `AcceptedBeforeDone` |
| `GapyTargetProofs!GapyTypes`, `FlashPropertiesKeepOrder`, `CommandsInOrder` | `TypeOK`, `FlashPropertiesInOrder`, `InOrder` |

**Bridge.** `NoFatal` is not inductive: that the oldest entry of `all_req_list`
has the direction of the accepted payload follows only from all entries
mirroring all payloads (`Sent`), and that a response finds its request only from
a count *per address and length*: as many reads owed as are in the memory or
wait out of order (`Accounted`; `Totals` sums it up). `ConvInv` is these three
with types; it does not depend on the client (`ConvProofs`), and each converter step has a
lemma that it keeps it (`SendKeeps`, `EndReqKeeps`, `BeginRespReadKeeps`,
`MatchStepKeeps`, `BeginRespWriteKeeps`). `ClientInv` adds the bridge: a denied
request waits behind one the memory has not accepted (except inside
`reqCallback`), which gives `NeverOvertaken`, and a read in the queue always
waits for at least one byte. `QueueOwnership` counts; `Owned` says the same by
places (each queue holds the requests of one state, each once, from the first
place on or, while its head is being answered and may be in use again, from the
second), and is inductive with `Inv`. `ByteConservation` adds up the masks of all
pending reads; `Sums` says what the sum is without computing it, and `Conserved`,
inductive with `Inv`, adds that every read in the memory or behind it is one whole
chunk (the code splits writes only), that bytes wait only while the response
callback runs, and that a read being answered expects none. `Payloads` are shown to be inside the memory with as
many bytes as their length (`PayloadsGood`), which needs the arithmetic lemmas.
Assumptions: `ConvConstants`; `DdrConstants`: requests are not empty and lie in
the memory, the memory is a whole number of chunks, a burst is a chunk or larger
or divides one (`GRANULARITY` is a power of two in the code, and so are the
bursts of the configurations).

**What will be delivered.** That a poll of the client finds the bytes of the right
read is a statement about the end of a long way: a read waits in `beginq`, is
active, is answered out of order, waits in `out_order_rsp_list`, and is matched
by address and length with the oldest entry of `read_req_list`. `Coming(want,
fin)` says all of it at once: if nothing more is sent, then what is delivered
from now on is `want`, one payload's data after the other, and the memory ends
as `fin`. It is defined by the one order that decides both, `Stream` (active
payloads in the order they overlap, then the waiting ones), in which a read gets
what the writes before it leave. `ComingWrites` and `ComingReads` say what
sending does to it (writes change `fin`, reads append to `want` what they find
in `fin`), `ComingEndReq`, `ComingRead`, `ComingWrite` that accepting and answering
in any order DRAMSys may choose changes nothing, and `ComingMatch` that the
delivery loop takes the head of `want`: the address the loop looks for finds the
payload whose data come next, because reads of equal range are answered in order
(`EqualPieces`). `Pieces` and `PiecesStore` say that a strobed write, cut into
bursts of equal strobes, stores what the whole write means.

**The bridge is an atomic memory.** `Refinement` says that `HSpec` implies
`Atomic!Spec` under the mapping of `DdrHistory`, for every memory, chunk, burst,
set of requests and set of commands: no overtaking, re-ordering, splitting or
re-use of a request inside a callback can make a read return anything but the
bytes of the writes called before it. `StepMapped` maps the steps: a call of
`req` is `Write` or `Read` whether it is taken or denied, the return of a
granted write's `grant()` is `AnswerWrite`, the last byte in `rspCallback` is
`AnswerRead`, and every other step (`Inside`, `ReqCbSend`, the other bytes)
changes nothing the atomic memory has. Only the last byte is hard: the request
must be the oldest of `areads` and its buffer must hold exactly that answer.
`Agrees` carries this. It names what is to come (`Coming(want, fin)`) and says
three things. `Owing`: `want` are pieces of one chunk each, `t` end to end.
`Awaited`: the bytes in `read_rsp_queue` followed by `t` are, cut at the lengths of
the masks, what the pending reads wait for, one after the other, and each read
filled with its part (`Fills`: bytes behind the read pointer are there, the ones
before are still to come) has the result that `areads` holds at its place.
`Queued`: replaying the denied requests in order on `fin`, the memory once all
that was sent is done, gives `amem` and the rest of `areads`; a call that is taken
finds the queue empty (`NeverOvertaken`), so it sees `fin` = `amem`. Each step
has a lemma (`TakenAgrees`, `DeniedAgrees`, `SendAgrees`, `MatchAgrees`,
`ByteAgrees`, `AnsweredAgrees`, `PoppedAgrees`, `ControlAgrees`), and what
`paraSendRequest` cuts is put together again by `PayloadsStore` and
`PayloadsLoad`. `Owned` is needed throughout: a request in a queue is not the
one an initiator calls with.

**Polling client.** `amem` is `fin`, and `wanted` is `want`, not payload by payload
but read by read: `Joined` says that two sequences of sequences are the same
bytes end to end, and `Delivering` that what the client has received, what is in
`read_rsp_queue` and `want` are, joined, the reads it has asked for (`JoinedTake`
and `JoinedPast` take bytes off the front, `JoinedFlat` relates it to `FlattenSeq`
of the source's polls). `Acked` says that the acknowledgements on
their way are those the client is owed. Assumption: `ClientConstants` (transfers
lie in the memory and are not empty, a write has one strobe per byte, and no
transfer has strobes on a size the library refuses).

**Preload.** `Contents` chooses the greatest entry of a history; the inductive
`BytesInv` says it without a choice: a byte is zero if no entry of the log leaves
anything there, and whatever entry leaves something and has none behind it that
does has left it. Each call is then shown to leave at each place what its entry
says (`Fills`) and to keep sizes and channels (`SameShape`); `RowStep` does so
for the calls that write bytes in a row, a new DRAM concerns no entry. For a
binary the loop over the program headers, a recursive function, is first shown
to be the sequence of its turns (`LoopTurns`), then to keep the types and to
leave at each address the bytes of the last header so far that holds it
(`LoopTypes`, `LoopBytes`, by the least turn that would not). Both need the
heart of `LoadedWhole`, `SegmentWhole`: a segment whose every byte passes the
assertion `address - base + i < size` in unsigned numbers lies in the DRAM in
plain ones. Were it to start below the base, the difference would wrap to a
number that is at least `AddressSpace - base`, and a DRAM ends in the address
space; were it to end behind the DRAM, the byte at `size` would be one of its own.
Assumptions: `PreloadConstants` (a base and a size are numbers of 63 bits, so
that their sum is in the address space) and `FileConstants` (a
segment has no more bytes in the file than in memory).

**Flash layout.** `Disjoint` and `FieldsInSection` need to know where the loops
are. `Inv` adds `ContentGood` (overrides keep descriptions well-formed),
`Progress` (which sections exist and are laid out at each `pc`), `Growing` (the
section being laid out starts behind `flash_offset` and holds its structures),
`Placed` (closed sections end before `flash_offset`) and `Bounded`. Sizes of
allocated structures are natural numbers only because the rest of the flash is
never negative, which needs that alignments divide the flash size. Assumption:
`FlashConstants`: positive alignments that divide the flash size, a size
alignment comes with a start alignment, section names are distinct, values have
the types the sections use them with.

What is written into the sections adds `OutInv`: `Chained` (in a flash that is
laid out each section ends where the next starts), `Counted` (how many sections
are finalized, at each `pc`), `Tabled` (a finalized table holds the bounds of the
sections behind it, as they are now) and `Written` (an image or a description was
made when every section it shows was final). The properties follow, since
nothing moves a section after `finalize` has begun.

**Command line.** `CommandLineWins` needs what the half-parsed command line
means: `ArgsUpTo(n)` says that after n - 1 properties the dictionary holds the
last value of each name, `Parsed` that it is complete whenever a property is
declared, `Values` what a declared property is worth. `UsedIsFinal` follows with
`AlreadyDeclared`. `OptionsInv` carries what each loop over the flash options has
accepted so far to the phases after it, so that at `commands` everything is
known.

Two more invariants speak of order. `SectionsInv`: the k-th value that is staged for
a section of a flash is the one of the k-th property for it so far (`HoldsTo`, which
counts the places in `MineTo`), and nothing else is staged; a property adds one
place to one of these sets (`MineMore`), and from `PropagateFlashProperties` on the
flashes hold what was staged. `OrderInv`: what was done and the steps of the commands
left are, end to end, the steps of all commands; in the middle of a command the
flashes behind `next` are left (`FlattenFirst` takes the first command off, a turn of
the loop moves one step over, `FlashOrder`), and after a failure something is left that is never
done. `TypesInv` gives both their types. The joint invariant is `CallInvariant`.

Assumptions: `GapyConstants` (options are lists; a property is malformed or has a name and
a value that are strings) and `TargetConstants` (defaults and what `int` makes of a
string are values; flashes have names).

**Linker.** `CodeKept` speaks of what relocations *are*, and is not inductive: that
a deletion takes the excess of its own sequence and no other byte needs to know
what relaxing can have made of each relocation of the assembler (`TypesOf`), how
many bytes it still stands for (`KeptBytes`), and that a relocation whose byte is
gone is at the end or was moved with it (`PlaceIn`). `LinkInv` adds these. The
proof has three layers: the cuts of `DataLemmas` (deleting a block of an increasing sequence
keeps order, blocks and places outside of it), one deletion
(`DeleteKeeps`: relocations, symbols and excess after it) and one change of type
(`RetypeKeeps`), and a lemma per relaxation function that says which of the two
it is (`CallStep`, `LuiStep`, `TlsStep`, `ImportStep`, `GotStep`, `AlignStep`).
`NextLinkInv` is the inductive step. It holds for every section, also of
overlapping symbols and unsorted relocations, and for every reach. Assumption:
`RelaxConstants`, of which `WellFormed` is what the assembler guarantees: an
instruction has one relocation and perhaps its `R_RISCV_RELAX`, labels stand
between instructions, a padding has between 1 and `MaxPadding` bytes, the null
symbol is local.

**Jumps reach.** `_bfd_riscv_relax_call` measures a distance once and replaces the
call by a short jump, while paddings may still change and code be deleted between
the two, before both or behind both. `Reach` says that the distance fits anyway.
`ReachInv` adds to `LinkInv` that a jump goes where its call went and that
paddings stay at even offsets (`SideIn`). With `LinkInv`, a deletion is on one side
of a jump (`JumpOutside`) and of its label (`LabelOutside`), because both stand
at code that stays; so both move, or the distance gets shorter by an even number
of bytes and keeps its sign. For `_bfd_riscv_relax_align` the number is even only
because code is: the assumption `Halfwords` (the section has an even address,
paddings stand at even offsets and have even lengths, as RISC-V instructions of
2 and 4 bytes make them). The code adds no slack to the distance of a label of
the same section; the theorem says that it needs none.

**Paddings align.** A padding is shortened on the place it has at that moment, so
nothing before it may be deleted afterwards. `AlignInv` adds to `LinkInv` why that is
so: in pass 0 the paddings are left alone (`PaddingsLeft`); the one sweep of pass 1
deletes nothing but the excess of paddings, and comes to them in the order of the
code, so that each deletion is behind the paddings already handled (`AlignedIn`);
and `again` stays FALSE in pass 1, so that no second sweep follows. The
assumption `PaddingsInOrder` (the assembler writes the relocations of paddings in
the order of the code) is what the argument, and the back end, rest on.

**Low parts follow.** A LUI and the instructions that add its low part are relaxed
each on its own, with other code shortened in between and in several sweeps; that
they are all decided alike is nowhere tested in the code. The argument: what
`_bfd_riscv_relax_lui` tests is the same in every sweep (`NearIs`), because the
symbols it accepts do not move (`SymbolsStay`); if it is true of the LUI it is true of
all later bytes of a symbol that crosses no multiple of the reach (`NearGoesOn`);
no other relaxation function touches the parts of an address or the
`R_RISCV_RELAX` behind them (`Parts`); so a sweep that deletes the LUI has based all
low parts on gp or zero when it ends (`FollowedTo`), and before it is over the
property does not hold, which is why it excludes the state `sweep`. `LowInv` is the
conjunction. Two assumptions about what is linked: `CodeIsFixed` (this section, and
whatever functions stand in, are code; a function in a data section would keep the `reserve_size` of
the relocation before it) and `LowPartsMarked` (an address whose LUI may be
relaxed has low parts that may be, each with its `R_RISCV_RELAX`; `.option norelax`
between the two would break it).

**Tables.** The linker's `TypeOK` says that a name is in a table once, in the bucket
of its hash. `TypeInv` adds what keeps it so: relaxing moves symbols but does not
rename them (`NamesStay`), every relocation refers to a symbol of the section (`RefsIn`),
and names therefore have a bucket. What a pass over the relocations or the symbols files
is a fold; it is followed as the run of its states (`FoldExists`, `FoldStays` in
`DataLemmas`; `ListedRun`, `CollectedRun`, `ExportRun`), each of which is a table
that is `Filed`. Assumption: `LinkConstants` (every name has a length and a bucket).

**Reserved sizes.** The sizes of the sections are reserved by a count of the references
(`check_relocs`, before relaxing), and filled by a list of them (`relocate_section`,
after it). The two passes are not the same walk, and what is relaxed in between
changes what the second one sees. They are followed as folds side by side, name by
name (`CollectedTo`, `ListedTo`). That the list has no more
words for a name than the count had references for it (`Heads`) rests on two facts. A pair that
was counted once is still a pair when it is listed, of the same name and with its halves
4 bytes apart (`Steady`, `PairStays`): that is `CodeKept`, because no deletion
falls between them. And a reference that came to an import by relaxing stands
behind an AUIPC that became a LUI (`KeepsImport`, `LaterImport`, `FirstPcrel`, `ImportRefs`);
that is the first case the property excludes (`Regular`), the other being a pair that was counted over two names.
Sizes grow with their counts (`SumMono`, `SizesFit`). `FitInv` conjoins this with
`TypeInv` and remembers the count until it is listed. Assumptions: `LinkConstants`, `RelaxConstants`, and
among the latter, in `WellFormed`, that the null symbol, which a dropped
relocation refers to, is local and so no import.

**Stimuli.** `PackedExactly` is about the end; what the loop keeps is `PackInv`
(`PreloadProofs`): the queue of pieces covers no address twice and carries what
the binary says of each of its addresses; every byte of every word is zero while
its address is pending and what the binary says of it afterwards (which is zero
outside all segments); and an address of a segment is pending or its word is
there. One call of `__add_mem_word` takes bytes from the head of the queue and
puts them where, being pending, nothing is (`PackedBytes`). This is also why the
mask of the code, as many bits as a word has *bytes*, does no harm: it clears bits
of the first byte only, and that one is zero; hence `width <= ByteWidth` in
`StimuliConstants` (4 and 8 in the code). At the start no two pieces share an
address because segments do not overlap and a segment is cut in data and zeros.

Only model-checked: of the linker `TablesDecode`. It says what a reader of the two tables
makes of them, word by word, so that a proof would have to compute the folds that write
the tables and not only bound them.

Out of the prover's reach, and left to TLC: liveness under fairness
(`EveryRequestAnswered`, `EverythingArrives`, `Terminates`) and `ENABLED`;
induction over data with an operator as a parameter, so that what a fold computes is
proved for one fixed statement at a time (`DataLemmas` and `PreloadProofs` argue with
the least counterexample);
recursive operators (there are none).

## 5. Where the code and its texts disagree

* `flash_overflow`: a content that overflows the flash is refused, but only by
  the command that parses it. `flash_layout` parses without the check, so an
  `image` behind it in the same call writes an image larger than the flash.
* `gapy_inlined`: properties inlined in the target's name are put in a default
  list that argparse copies; they are lost when a `--target-property` is given.
* `component_symbol_size`: whether a symbol spans deleted bytes is tested with
  its value after it was moved, so that a symbol right behind the bytes, which
  has moved as a whole, loses them from its size.
* `component_parts`: `_bfd_riscv_relax_import_pcrel` makes the AUIPC of an import a
  LUI and the relocation behind it its low part, because "PCREL_HI20 is always
  followed by a reloc on the lsp part of the symbol" (back end:3830). The loop only
  calls it when the relocation behind is the `R_RISCV_RELAX` of the AUIPC
  itself (back end:3936): the low part is put at the LUI, the instruction that has
  it stays relative to the pc, finds no AUIPC, and the link ends with an
  overflow (back end:2474). `_bfd_riscv_relax_got_ref` does the same with the
  load from the GOT and writes its ADDI over the AUIPC.

Seen while modelling, without a run: the size in a readfs header, documented as a
way to get to the next section (`readfs.py:48`), counts headers only; a target
that declares no property accepts any `--target-property`, because the check
(`target.py:441`) looks at what a declaration parsed;
`--flash-property-override` of an alignment stores the string it is given
(`target.py:570`), which the layout adds to an offset, a `TypeError` (`type_error`
in `GapyTarget`), although `target.py:161` offers it; any weak symbol counts as an import while relaxing, because the
test (back end:4011) looks for a section named `pulp.import`, takes every section
that is *not* named so, and looks at the section being relaxed; a reference to an
import that cannot be listed (an unrelaxed call) ends the link with "Unknown
Relocation".

Modelled as it is, since no text says otherwise: with several channels an ELF
goes to the last channel while `checkByte` reads the first; a second load leaves
what the first put where the second has bss; of several multi-flash content
files only the last is used; a table behind a section that overflows makes
`flash_layout` end with an exception; bytes of overlapping segments in the RTL
stimuli are mixed bit by bit.

## 6. Bounds and abstractions

* A byte has 2 or 3 values, a chunk 2 bytes; the proofs cover all sizes.
* `MaxSends`, `MaxCalls`, `MaxDrams` bound how often a client calls; without
  them `PollingClient` and `MemoryPreload` are infinite. The bridge needs no
  bound: its requests are finite objects that are re-used for ever.
* A request of size 0 underflows in `paraSendRequest`; an `IoReq` never has it,
  and `DdrConstants` says so.
* Time is left out: DRAMSys may take any time for anything.
* File names, bytes of files, check sums and printed text are left out; a file
  is its length, or unreadable.
* Section names are distinct (`FlashConstants`): the code would lay the first of
  two such sections out twice.
* The linker handles one section of one object; a second would go through the
  same steps with tables that are not empty. Calls have no addend, as the
  assembler writes them. `plt` entries are left out: a PULP program has none.

## 7. Plan

Order, most important first; (done) marks what is there.

1. Converter, bridge, atomic memory, proofs of types, fatal reports, overtaking,
   bookkeeping, the ownership of requests and the refinement (done).
2. Flash sections and layout with the proofs of the layout (done).
3. Command line with the proofs about values, acceptance and order (done).
4. Polling client, with the proofs about what its polls find (done); preload and
   ELF loader, with the proofs about the bytes (done); RTL stimuli, with the proof that packing is exact (done).
   Relaxation, import and export tables of PULP's linker back end, with the
   proofs that relaxing keeps the code, that jumps reach, that paddings align
   and that low parts follow their LUI (done).
5. Extend: two sections in `ComponentLink`, whose distances change together; the payload pool with its byte-enable buffers, under `DramsysConv`,
   so that re-use of a strobe is visible to `ImplementsAtomicDram`; file and
   segment offsets in the headers of readfs and ROM; `CStruct` field offsets and
   `compute_crc` against a reference; several sections of one name;
   `cloes_dram` with calls behind it.
6. Prove: the refinement of `AtomicDram` (done);
   `ByteConservation`, with a running sum of the masks (done);
   `FlashPropertiesInOrder` and `InOrder` (done); `Aligned`
   on top of `LinkInv` (done); `LoadedWhole` with the wrap of the
   subtraction, and `Contents` (done); `LowPartsFollow` and
   `PackedExactly` (done); the linker's types and
   `ReservedEnough` (done); left: `TablesDecode`.

Each new part is to join an existing question where it can (a richer converter
under `ddr_atomic`, richer structures under `flash_layout`) and to get a run of
its own only where it asks something new.
