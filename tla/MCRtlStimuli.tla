---------------------------- MODULE MCRtlStimuli ----------------------------
(* Binaries of two segments for model checking RtlStimuli: every position in *)
(* two words, with and without bytes and bss, in both orders, overlaps too.  *)
EXTENDS RtlStimuli

Pattern == <<{0, 7}, {3, 4, 5}, 0 .. 7, {}, {1}>>
S(load, addr, n, bss) ==
  [load |-> load, addr |-> addr, data |-> SubSeq(Pattern, 1, n), memsz |-> n + bss]
Segments == {S(TRUE, addr, n, bss) : addr \in 0 .. 5, n \in 0 .. 5, bss \in 0 .. 2}

MCImages == {<<s, t>> : s \in Segments, t \in Segments \cup {S(FALSE, 2, 4, 0)}}
=============================================================================
