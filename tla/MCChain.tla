------------------------------ MODULE MCChain ------------------------------
(* Small instances of Chain for TLC.                                       *)
EXTENDS Chain, TLC

CONSTANTS a1, a2

MCAddr == {a1, a2}
(* A coinbase a peer gossips as a "tx" message: AddToMempool admits it.    *)
MCGossipCoinbase == {NewCoinbaseTransaction(a1, 3, 1)}
(* A relayed block whose coinbase has no outputs: validateBlock checks no *)
(* transaction.                                                            *)
MCPeerBodies ==
    {<<[type |-> "coinbase", from |-> NoAddr, to |-> NoAddr, amount |-> 0,
        fee |-> 0, ts |-> 1, outs |-> <<>>]>>}
(* Relayed blocks that carry a stake of 2 by either address: AddBlock     *)
(* applies it without a balance check, so the next template pays PoS.     *)
MCStakedPeerBodies ==
    MCPeerBodies \cup
    {<<[type |-> "coinbase", from |-> NoAddr, to |-> NoAddr, amount |-> 0,
        fee |-> 0, ts |-> 1, outs |-> <<>>],
       NewStakeTransaction("stake", a, 2, 1)>> : a \in MCAddr}
MCNoTxs == {}
(* Every constant and action treats the wallet addresses alike.            *)
MCSymmetry == Permutations(MCAddr)
====
