-------------------------- MODULE MCMemoryPreload --------------------------
(* Configurations, binaries and files for model checking MemoryPreload. *)
EXTENDS MemoryPreload

MCConfigurations == {[channels |-> 1, size |-> 3, store |-> TRUE],
                     [channels |-> 2, size |-> 4, store |-> TRUE],
                     [channels |-> 1, size |-> 3, store |-> FALSE]}

H(paddr, memsz, data) ==
  [load |-> TRUE, in_file |-> TRUE, paddr |-> paddr, memsz |-> memsz, data |-> data]
Note == [load |-> FALSE, in_file |-> FALSE, paddr |-> 0, memsz |-> 9, data |-> <<2, 2>>]
B(headers) == [headers |-> headers, headers_ok |-> TRUE, symbols_ok |-> TRUE]

MCBinaries ==
  {B(<<H(8, 2, <<1, 2>>), Note, H(9, 2, <<0>>), H(11, 1, <<>>)>>),  \* overlap, bss
   B(<<H(10, 2, <<1, 1>>)>>),                       \* over the end of the smaller DRAM
   B(<<H(7, 3, <<2, 1, 2>>)>>),                     \* below one of the bases
   [B(<<H(8, 1, <<1>>)>>) EXCEPT !.symbols_ok = FALSE]}

MCMemFiles == {<<1, Blank, 5>>, <<NotHex, 2>>}
=============================================================================
