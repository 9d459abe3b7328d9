\* One miner, two nodes, the dial succeeds.
CONSTANTS
    n1 = n1  n2 = n2  n3 = n3
    Node = {n1, n2}
    Miner = {n1}
    Links <- PairLinks
    MaxHeight = 3
    DialCanFail = FALSE
SPECIFICATION Spec
PROPERTY EventuallyInSync
\* A network in which nobody mines any more waits in scanner.Scan for ever.
CHECK_DEADLOCK FALSE
