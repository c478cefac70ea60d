---------------------------- MODULE MCDdrHistory ----------------------------
EXTENDS DdrHistory
MCRead(off, n) == [is_write |-> FALSE, offset |-> off, data |-> [i \in 1 .. n |-> 2]]
MCWrite(off, d) == [is_write |-> TRUE, offset |-> off, data |-> d]
MCCommands == {MCRead(1, 2), MCRead(2, 1), MCWrite(1, <<1, 0>>), MCWrite(2, <<1, 1>>)}
MCSymmetry == Permutations(Requests)
MCPreloads == {[a \in 0 .. MemSize - 1 |-> 0]}
=============================================================================
