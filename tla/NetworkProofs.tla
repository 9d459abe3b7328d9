--------------------------- MODULE NetworkProofs ---------------------------
(***************************************************************************)
(* Machine-checked proofs about module Network, for every set of nodes,    *)
(* miners and --addpeer links and every height bound that satisfy          *)
(* NetworkAssumption.                                                      *)
(***************************************************************************)
EXTENDS Network, SequenceTheorems, TLAPS

\* The blocks a node can hold: ancestries of miners up to MaxHeight.
Blk == {b \in Seq(Miner) : Len(b) <= MaxHeight}

\* The states a goroutine can be in, with the blocks it carries.
GState ==
    {[op |-> "down"], [op |-> "hello"], Idle}
    \cup [op : {"added"}, blk : Blk]
    \cup [op : {"relay"}, blk : Blk, to : SUBSET Node]
    \cup [op : {"send"}, blks : Seq(Blk) \ {<<>>}]

(* TypeOK is not inductive: RelayTo and SendBlock put on the wire the      *)
(* blocks a goroutine carries, so those must be typed as well, and         *)
(* SendBlock's Head needs the list sendBlocks walks to be non-empty.       *)
IInv ==
    /\ tip \in [Node -> Blk]
    /\ dialed \subseteq Links /\ conn \subseteq dialed
    /\ peers \in [Node -> SUBSET Node]
    /\ msgs \in [Goroutine -> Seq(Msgs)]
    /\ peerHeight \in [Goroutine -> 0..MaxHeight]
    /\ g \in [Goroutine -> GState]

LEMMA InitIInv == Init => IInv
  <1> SUFFICES ASSUME Init PROVE IInv
    OBVIOUS
  <1>1. <<>> \in Blk
    BY NetworkAssumption, EmptySeq DEF Blk
  <1>2. g \in [Goroutine -> GState]
    BY DEF Init, GState, Idle
  <1>3. QED
    BY <1>1, <1>2, NetworkAssumption, EmptySeq DEF Init, IInv

LEMMA IInvTypeOK == IInv => TypeOK
  <1> SUFFICES ASSUME IInv PROVE TypeOK
    OBVIOUS
  <1>1. \A c \in Goroutine : \A i \in 1..Len(msgs[c]) : msgs[c][i] \in Msgs
    BY ElementOfSeq DEF IInv
  <1>2. \A c \in Goroutine :
          g[c].op \in {"down", "hello", "idle", "added", "relay", "send"}
    BY DEF IInv, GState, Idle
  <1>3. QED
    BY <1>1, <1>2 DEF IInv, TypeOK, Blk

(* Peer.Send of a typed message keeps every connection typed.             *)
LEMMA SendTyped ==
    ASSUME IInv, NEW n \in Node, NEW m \in Node, NEW msg \in Msgs, Send(n, m, msg)
    PROVE  msgs' \in [Goroutine -> Seq(Msgs)]
  BY AppendProperties DEF IInv, Send, Goroutine

LEMMA ConnectPeerTyped ==
    ASSUME IInv, NEW l \in Links, ConnectPeer(l) PROVE IInv'
  BY DEF IInv, ConnectPeer

LEMMA RegisterPeerTyped ==
    ASSUME IInv, NEW n \in Node, NEW m \in Node, RegisterPeer(n, m) PROVE IInv'
  <1>1. g' \in [Goroutine -> GState]
    BY DEF IInv, RegisterPeer, GState, Goroutine
  <1>2. QED
    BY <1>1 DEF IInv, RegisterPeer

LEMMA SendVersionTyped ==
    ASSUME IInv, NEW n \in Node, NEW m \in Node, SendVersion(n, m) PROVE IInv'
  <1>1. [type |-> "version", height |-> Height(tip[n])] \in Msgs
    BY DEF IInv, Blk, Msgs, Height
  <1>2. msgs' \in [Goroutine -> Seq(Msgs)]
    BY <1>1, SendTyped DEF SendVersion
  <1>3. g' \in [Goroutine -> GState]
    BY DEF IInv, SendVersion, GState, Goroutine
  <1>4. QED
    BY <1>2, <1>3 DEF IInv, SendVersion

LEMMA BeginRelayTyped ==
    ASSUME IInv, NEW n \in Node, NEW m \in Node, BeginRelay(n, m) PROVE IInv'
  <1>1. g[<<n, m>>] \in [op : {"added"}, blk : Blk]
    BY DEF IInv, BeginRelay, GState, Goroutine, Idle
  <1>2. g' \in [Goroutine -> GState]
    BY <1>1 DEF IInv, BeginRelay, GState, Goroutine
  <1>3. QED
    BY <1>2 DEF IInv, BeginRelay

LEMMA RelayToTyped ==
    ASSUME IInv, NEW n \in Node, NEW m \in Node, NEW p \in Node, RelayTo(n, m, p)
    PROVE  IInv'
  <1>1. g[<<n, m>>].op = "relay"
    BY DEF RelayTo
  <1>2. g[<<n, m>>] \in GState
    BY DEF IInv, Goroutine
  <1>3. g[<<n, m>>] \in [op : {"relay"}, blk : Blk, to : SUBSET Node]
    BY <1>1, <1>2 DEF GState, Idle
  <1> DEFINE r == g[<<n, m>>]
  <1>4. [r EXCEPT !.to = r.to \ {p}] \in [op : {"relay"}, blk : Blk, to : SUBSET Node]
    BY <1>3, Zenon
  <1>6. g' = [g EXCEPT ![<<n, m>>] = [r EXCEPT !.to = r.to \ {p}]]
    BY Zenon DEF RelayTo
  <1>7. [type |-> "block", block |-> r.blk] \in Msgs
    BY <1>3 DEF Msgs, Blk
  <1>8. msgs' \in [Goroutine -> Seq(Msgs)]
    BY <1>7, SendTyped DEF RelayTo
  <1>9. g' \in [Goroutine -> GState]
    BY <1>4, <1>6 DEF IInv, GState, Goroutine
  <1>10. QED
    BY <1>8, <1>9 DEF IInv, RelayTo

LEMMA EndRelayTyped ==
    ASSUME IInv, NEW n \in Node, NEW m \in Node, EndRelay(n, m) PROVE IInv'
  <1>1. g' \in [Goroutine -> GState]
    BY DEF IInv, EndRelay, GState, Goroutine
  <1>2. QED
    BY <1>1 DEF IInv, EndRelay
(* The read loop's receive: the connection it reads is typed and not empty. *)
LEMMA RecvTyped ==
    ASSUME IInv, NEW n \in Node, NEW m \in Node, NEW t, Recv(n, m, t)
    PROVE  /\ Msg(n, m) \in Msgs
           /\ Pop(n, m) \in [Goroutine -> Seq(Msgs)]
  <1>1. msgs[<<m, n>>] \in Seq(Msgs) /\ msgs[<<m, n>>] # <<>>
    BY DEF IInv, Recv, Goroutine
  <1>2. QED
    BY <1>1, HeadTailProperties DEF Msg, Pop, IInv

LEMMA SubmitBlockTyped ==
    ASSUME IInv, NEW n \in Node, SubmitBlock(n) PROVE IInv'
  <1>1. Append(tip[n], n) \in Blk
    BY AppendProperties, NetworkAssumption DEF IInv, SubmitBlock, Blk, Height
  <1>2. tip' \in [Node -> Blk]
    BY <1>1 DEF IInv, SubmitBlock
  <1>3. g' \in [Goroutine -> GState]
    BY <1>1 DEF IInv, SubmitBlock, GState, Goroutine
  <1>4. QED
    BY <1>2, <1>3 DEF IInv, SubmitBlock

LEMMA HandleVersionTyped ==
    ASSUME IInv, NEW n \in Node, NEW m \in Node, HandleVersion(n, m) PROVE IInv'
  <1>1. Msg(n, m) \in Msgs /\ Pop(n, m) \in [Goroutine -> Seq(Msgs)]
    BY RecvTyped DEF HandleVersion
  <1>2. Msg(n, m) \in [type : {"version"}, height : 0..MaxHeight]
    BY <1>1 DEF HandleVersion, Recv, Msg, Msgs
  <1>3. peerHeight' \in [Goroutine -> 0..MaxHeight]
    BY <1>2 DEF IInv, HandleVersion, Goroutine
  <1>4. Msg(n, m).height > Height(tip[n])
          => [type |-> "getblocks", from |-> Height(tip[n]) + 1] \in Msgs
    BY <1>2, NetworkAssumption DEF IInv, Msgs, Blk, Height
  <1>5. msgs' \in [Goroutine -> Seq(Msgs)]
    BY <1>1, <1>4, AppendProperties DEF HandleVersion, Goroutine
  <1>6. QED
    BY <1>3, <1>5 DEF IInv, HandleVersion
(* A prefix of a block is a block: its ancestry up to height k.            *)
LEMMA PrefixTyped ==
    ASSUME NEW s \in Blk, NEW k \in 0..Len(s)
    PROVE  SubSeq(s, 1, k) \in Blk /\ Len(SubSeq(s, 1, k)) = k
  <1>1. s \in Seq(Miner) /\ Len(s) \in Nat /\ Len(s) <= MaxHeight /\ k \in Int
    BY LenProperties DEF Blk
  <1>2. \A i \in 1..k : s[i] \in Miner
    BY <1>1, ElementOfSeq
  <1>3. SubSeq(s, 1, k) \in Seq(Miner)
        /\ Len(SubSeq(s, 1, k)) = IF 1 <= k THEN k - 1 + 1 ELSE 0
    BY <1>1, <1>2, SubSeqProperties
  <1>4. k \in Nat /\ k <= MaxHeight
    BY <1>1, NetworkAssumption
  <1>5. Len(SubSeq(s, 1, k)) = k
    BY <1>3, <1>4
  <1>6. QED
    BY <1>3, <1>4, <1>5 DEF Blk

(* Chain.GetBlocks returns a list of blocks.                               *)
LEMMA GetBlocksTyped ==
    ASSUME IInv, NEW n \in Node, NEW from \in Nat \ {0}
    PROVE  GetBlocks(n, from) \in Seq(Blk)
  <1> DEFINE k == IF from <= Height(tip[n]) THEN Height(tip[n]) - from + 1 ELSE 0
  <1>1. tip[n] \in Blk /\ k \in Nat
    BY DEF IInv, Blk, Height
  <1>2. \A i \in 1..k : SubSeq(tip[n], 1, from + i - 1) \in Blk
    BY <1>1, PrefixTyped DEF Height
  <1>3. [i \in 1..k |-> SubSeq(tip[n], 1, from + i - 1)] \in [1..k -> Blk]
    BY <1>2
  <1>4. \A f \in [1..k -> Blk] : f \in Seq(Blk)
    BY <1>1
  <1>5. [i \in 1..k |-> SubSeq(tip[n], 1, from + i - 1)] \in Seq(Blk)
    BY <1>3, <1>4
  <1>6. QED
    BY <1>5 DEF GetBlocks

LEMMA HandleGetBlocksTyped ==
    ASSUME IInv, NEW n \in Node, NEW m \in Node, HandleGetBlocks(n, m) PROVE IInv'
  <1>1. Msg(n, m) \in Msgs /\ Pop(n, m) \in [Goroutine -> Seq(Msgs)]
    BY RecvTyped DEF HandleGetBlocks
  <1>2. Msg(n, m).from \in Nat \ {0}
    BY <1>1, NetworkAssumption DEF HandleGetBlocks, Recv, Msg, Msgs
  <1>3. GetBlocks(n, Msg(n, m).from) \in Seq(Blk)
    BY <1>2, GetBlocksTyped
  <1>4. g' \in [Goroutine -> GState]
    BY <1>3 DEF IInv, HandleGetBlocks, GState, Goroutine, Idle
  <1>5. QED
    BY <1>1, <1>4 DEF IInv, HandleGetBlocks

LEMMA SendBlockTyped ==
    ASSUME IInv, NEW n \in Node, NEW m \in Node, SendBlock(n, m) PROVE IInv'
  <1> DEFINE bs == g[<<n, m>>].blks
  <1>1. g[<<n, m>>] \in [op : {"send"}, blks : Seq(Blk) \ {<<>>}]
    BY DEF IInv, SendBlock, GState, Goroutine, Idle
  <1>2. Head(bs) \in Blk /\ Tail(bs) \in Seq(Blk) /\ Len(Tail(bs)) = Len(bs) - 1
    BY <1>1, HeadTailProperties
  <1>3. Len(bs) # 1 => Tail(bs) # <<>>
    <2>1. Len(bs) \in Nat \ {0} /\ Len(<<>>) = 0
      BY <1>1, EmptySeq
    <2>2. ASSUME Len(bs) # 1, Tail(bs) = <<>> PROVE FALSE
      <3>1. Len(Tail(bs)) = 0
        BY <2>1, <2>2, Zenon
      <3>2. QED
        BY <3>1, <2>1, <2>2, <1>2
    <2>3. QED
      BY <2>2
  <1>4. [type |-> "block", block |-> Head(bs)] \in Msgs
    BY <1>2 DEF Msgs, Blk
  <1>5. msgs' \in [Goroutine -> Seq(Msgs)]
    BY <1>4, SendTyped DEF SendBlock
  <1>6. g' \in [Goroutine -> GState]
    BY <1>2, <1>3 DEF IInv, SendBlock, GState, Goroutine, Idle
  <1>7. QED
    BY <1>5, <1>6 DEF IInv, SendBlock
LEMMA HandleBlockTyped ==
    ASSUME IInv, NEW n \in Node, NEW m \in Node, HandleBlock(n, m) PROVE IInv'
  <1> DEFINE b == Msg(n, m).block
  <1>1. Msg(n, m) \in Msgs /\ Pop(n, m) \in [Goroutine -> Seq(Msgs)]
    BY RecvTyped DEF HandleBlock
  <1>2. b \in Blk
    BY <1>1 DEF HandleBlock, Recv, Msg, Msgs, Blk
  <1>3. \/ UNCHANGED <<tip, g>>
        \/ tip' = [tip EXCEPT ![n] = b] /\ g' = [g EXCEPT ![<<n, m>>] = [op |-> "added", blk |-> b]]
    BY DEF HandleBlock
  <1>4. tip' \in [Node -> Blk] /\ g' \in [Goroutine -> GState]
    <2>1. CASE UNCHANGED <<tip, g>>
      BY <2>1 DEF IInv
    <2>2. CASE tip' = [tip EXCEPT ![n] = b]
               /\ g' = [g EXCEPT ![<<n, m>>] = [op |-> "added", blk |-> b]]
      <3>1. [op |-> "added", blk |-> b] \in GState
        BY <1>2 DEF GState
      <3>2. QED
        BY <2>2, <3>1, <1>2 DEF IInv, Goroutine
    <2>3. QED
      BY <1>3, <2>1, <2>2
  <1>5. QED
    BY <1>1, <1>4 DEF IInv, HandleBlock

(* Every step of the network keeps IInv.                                   *)
LEMMA NextIInv == IInv /\ [Next]_vars => IInv'
  <1> SUFFICES ASSUME IInv, [Next]_vars PROVE IInv'
    OBVIOUS
  <1>1. CASE \E l \in Links : ConnectPeer(l)
    BY <1>1, ConnectPeerTyped
  <1>2. CASE \E n, m \in Node : Step(n, m)
    <2>1. PICK n \in Node, m \in Node : Step(n, m)
      BY <1>2
    <2>2. QED
      BY <2>1, RegisterPeerTyped, SendVersionTyped, HandleVersionTyped,
         HandleGetBlocksTyped, SendBlockTyped, HandleBlockTyped,
         BeginRelayTyped, RelayToTyped, EndRelayTyped DEF Step
  <1>3. CASE \E n \in Node : SubmitBlock(n)
    BY <1>3, SubmitBlockTyped
  <1>4. CASE UNCHANGED vars
    BY <1>4 DEF IInv, vars
  <1>5. QED
    BY <1>1, <1>2, <1>3, <1>4 DEF Next

(* Type correctness: in every reachable state every chain tip, message and *)
(* goroutine state is well formed and no height exceeds MaxHeight, for    *)
(* any nodes, miners and --addpeer links.                                  *)
THEOREM TypeCorrect == Spec => []TypeOK
  <1>1. Init => IInv
    BY InitIInv
  <1>2. IInv /\ [Next]_vars => IInv'
    BY NextIInv
  <1>3. IInv => TypeOK
    BY IInvTypeOK
  <1>4. QED
    BY <1>1, <1>2, <1>3, PTL DEF Spec
=============================================================================
