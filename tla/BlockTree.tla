----------------------------- MODULE BlockTree -----------------------------
(***************************************************************************)
(* What the P2P layer promises about the chains of the nodes (spec 4.7 and *)
(* 9), with no connections, messages or goroutines: a node's chain grows   *)
(* one block at a time, either by a block its own miner found on its tip   *)
(* or by the next block of a chain another node holds at that moment, and  *)
(* never loses a block (no reorg).  A chain is, as in module Network, the  *)
(* sequence of the miners of heights 1..h.                                 *)
(***************************************************************************)
EXTENDS Naturals, Sequences

CONSTANTS Node, Miner, MaxHeight

VARIABLE tip

\* s is the first Len(s) blocks of t.
IsPrefix(s, t) ==
    /\ Len(s) <= Len(t)
    /\ \A i \in 1..Len(s) : s[i] = t[i]

Init == tip = [n \in Node |-> <<>>]

\* A miner of n finds the block above n's tip.
Mine(n) ==
    /\ n \in Miner
    /\ Len(tip[n]) < MaxHeight
    /\ tip' = [tip EXCEPT ![n] = Append(@, n)]

\* n takes the block above its tip from the chain of k, which its own
\* chain is a proper prefix of.
Adopt(n, k) ==
    /\ Len(tip[n]) < Len(tip[k])
    /\ IsPrefix(tip[n], tip[k])
    /\ tip' = [tip EXCEPT ![n] = SubSeq(tip[k], 1, Len(tip[n]) + 1)]

Next ==
    \/ \E n \in Node : Mine(n)
    \/ \E n, k \in Node : Adopt(n, k)

Spec == Init /\ [][Next]_tip
=============================================================================
