-------------------------- MODULE MCPollingClient --------------------------
EXTENDS PollingClient
MCRead(addr, n) == [is_write |-> FALSE, addr |-> addr, data |-> [i \in 1 .. n |-> 0],
                    strobe |-> [i \in 1 .. n |-> FALSE]]
MCWrite(addr, d, s) == [is_write |-> TRUE, addr |-> addr, data |-> d, strobe |-> s]
MCTransfers == {MCRead(0, 2), MCRead(1, 2), MCRead(2, 1),
                MCWrite(0, <<1, 1>>, <<FALSE, TRUE>>), MCWrite(1, <<0, 1>>, <<TRUE, TRUE>>)}
=============================================================================
