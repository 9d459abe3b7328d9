----------------------------- MODULE MCNetwork -----------------------------
(***************************************************************************)
(* Instances of the P2P model for TLC: nodes are model values, and the     *)
(* --addpeer links, which a .cfg cannot write as tuples, are defined here. *)
(***************************************************************************)
EXTENDS Network

CONSTANTS n1, n2, n3

\* n2 dials n1: two nodes, one connection.
PairLinks == {<<n2, n1>>}

\* n2 dials n1 and n3 dials n2: n3 reaches n1's blocks only by relay.
LineLinks == {<<n2, n1>>, <<n3, n2>>}
=============================================================================
