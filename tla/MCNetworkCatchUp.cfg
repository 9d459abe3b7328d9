\* Miners on both nodes of a pair, two blocks, a dial that may fail:
\* blocks are mined before, during and after the catch-up, and competing
\* blocks at one height cross on the connection.
CONSTANTS
    n1 = n1  n2 = n2  n3 = n3
    Node = {n1, n2}
    Miner = {n1, n2}
    Links <- PairLinks
    MaxHeight = 2
    DialCanFail = TRUE
SPECIFICATION Spec
INVARIANT TypeOK
PROPERTIES HandshakeCatchUp ImplementsBlockTree
\* A network in which nobody mines any more waits in scanner.Scan for ever.
CHECK_DEADLOCK FALSE
