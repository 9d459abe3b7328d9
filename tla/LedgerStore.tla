---------------------------- MODULE LedgerStore ----------------------------
(***************************************************************************)
(* What the BoltDB store of a node promises (spec 4.5 and 4.6), with no    *)
(* memory, mempool, templates or crashes: the durable state is the chain   *)
(* of blocks, the balances, the stakes and total_minted, and it changes    *)
(* only by one atomic commit that appends a block linked to the stored tip *)
(* at the next height, writes the balances and stakes of no account the    *)
(* block does not name, and never lowers total_minted.                     *)
(***************************************************************************)
EXTENDS Naturals, Sequences

CONSTANTS
    Keys,       \* the account keys
    Genesis,    \* the genesis block
    Hash(_),    \* a block's hash
    Names(_)    \* the accounts a block's transactions name

VARIABLES chain, balances, stakes, total

vars == <<chain, balances, stakes, total>>

Init ==
    /\ chain = <<Genesis>>
    /\ balances = [a \in Keys |-> 0] /\ stakes = [a \in Keys |-> 0]
    /\ total = 0

\* One commit of block b on top of the stored tip.
Commit(b) ==
    /\ b.height = Len(chain)
    /\ b.prev = Hash(chain[Len(chain)])
    /\ chain' = Append(chain, b)
    /\ \A a \in Keys \ Names(b) : balances'[a] = balances[a] /\ stakes'[a] = stakes[a]
    /\ total' >= total

\* The block a step appends, when it appends one.
Appended == chain'[Len(chain')]

Next == Commit(Appended)

Spec == Init /\ [][Next]_vars
=============================================================================
