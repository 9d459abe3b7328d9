------------------------- MODULE NetworkRefinement -------------------------
(***************************************************************************)
(* Proof that the P2P layer of module Network implements the abstract      *)
(* specification BlockTree (property ImplementsBlockTree), for every set   *)
(* of nodes, miners and --addpeer links and every height bound: the tip    *)
(* maps to itself, SubmitBlock is a Mine step, the accepting branch of     *)
(* HandleBlock an Adopt step from the sending peer, and every other step   *)
(* leaves the tips alone.                                                  *)
(***************************************************************************)
EXTENDS NetworkProofs

IsPrefix(s, t) == Tree!IsPrefix(s, t)

(* Adopt needs the accepted block to be a prefix of the sender's current   *)
(* tip, though sendBlocks read it from the store and relay took it from    *)
(* AddBlock some steps earlier.  MsgsOK says so of every block in flight   *)
(* from c[1], GoOK of the blocks a goroutine of c[1] still holds to relay  *)
(* or send; both hold because a tip only grows.                            *)
MsgsOK(ms, t) ==
    \A c \in Goroutine : \A i \in 1..Len(ms[c]) :
        ms[c][i].type = "block" => IsPrefix(ms[c][i].block, t[c[1]])

GoOK(gg, t) ==
    \A c \in Goroutine :
        /\ gg[c].op \in {"added", "relay"} => IsPrefix(gg[c].blk, t[c[1]])
        /\ gg[c].op = "send" => \A i \in 1..Len(gg[c].blks) : IsPrefix(gg[c].blks[i], t[c[1]])

RInv == MsgsOK(msgs, tip) /\ GoOK(g, tip)

(* A chain is a prefix of itself.                                          *)
LEMMA PrefixRefl ==
    ASSUME NEW s \in Seq(Miner) PROVE IsPrefix(s, s)
  BY DEF IsPrefix, Tree!IsPrefix

(* Being a prefix is transitive.                                           *)
LEMMA PrefixTrans ==
    ASSUME NEW r \in Seq(Miner), NEW s \in Seq(Miner), NEW t \in Seq(Miner),
           IsPrefix(r, s), IsPrefix(s, t)
    PROVE  IsPrefix(r, t)
  BY DEF IsPrefix, Tree!IsPrefix

(* The first k blocks of a chain are a prefix of it.                       *)
LEMMA SubSeqPrefix ==
    ASSUME NEW t \in Seq(Miner), NEW k \in 0..Len(t)
    PROVE  IsPrefix(SubSeq(t, 1, k), t)
  <1>1. /\ Len(SubSeq(t, 1, k)) = k
        /\ \A i \in 1..k : SubSeq(t, 1, k)[i] = t[i]
    BY SubSeqProperties
  <1>2. QED
    BY <1>1 DEF IsPrefix, Tree!IsPrefix

(* A step leaves every tip a prefix of the new one.                        *)
LEMMA TipGrows ==
    ASSUME IInv, [Next]_vars, NEW n \in Node
    PROVE  IsPrefix(tip[n], tip'[n])
  <1>1. tip[n] \in Seq(Miner)
    BY DEF IInv, Blk
  <1>2. CASE tip'[n] = tip[n]
    BY <1>1, <1>2, PrefixRefl
  <1>3. CASE tip'[n] = Append(tip[n], n) /\ n \in Miner
    <2>1. Len(tip'[n]) = Len(tip[n]) + 1 /\ \A i \in 1..Len(tip[n]) : tip'[n][i] = tip[n][i]
      BY <1>1, <1>3, AppendProperties
    <2>2. QED
      BY <1>1, <2>1 DEF IsPrefix, Tree!IsPrefix
  <1>4. ASSUME NEW b \in Blk, ValidNext(n, b), tip'[n] = b
        PROVE  IsPrefix(tip[n], tip'[n])
    <2>1. Len(tip[n]) \in Nat /\ b \in Seq(Miner)
      BY <1>1, LenProperties DEF Blk
    <2>2. Len(b) = Len(tip[n]) + 1
      BY <1>4, <2>1 DEF ValidNext, Height
    <2>3. \A i \in 1..Len(tip[n]) : SubSeq(b, 1, Len(b) - 1)[i] = b[i]
      BY <2>1, <2>2, SubSeqProperties
    <2>4. QED
      BY <1>4, <2>2, <2>3 DEF ValidNext, IsPrefix, Tree!IsPrefix
  <1>5. CASE \E k, l \in Node : HandleBlock(k, l)
    <2>1. PICK k \in Node, l \in Node : HandleBlock(k, l)
      BY <1>5
    <2>2. Msg(k, l).block \in Blk
      BY <2>1, RecvTyped DEF HandleBlock, Recv, Msg, Msgs, Blk
    <2>3. \/ tip' = tip
          \/ ValidNext(k, Msg(k, l).block) /\ tip' = [tip EXCEPT ![k] = Msg(k, l).block]
      BY <2>1 DEF HandleBlock
    <2>4. QED
      BY <2>2, <2>3, <1>2, <1>4 DEF IInv
  <1>6. CASE \E k \in Node : SubmitBlock(k)
    BY <1>6, <1>2, <1>3 DEF SubmitBlock, IInv
  <1>7. ASSUME NEW k \in Node, NEW l \in Node, Step(k, l), ~HandleBlock(k, l)
        PROVE  tip' = tip
    <2>1. ASSUME NEW p \in Node, RelayTo(k, l, p) PROVE tip' = tip
      BY <2>1, Zenon DEF RelayTo
    <2>2. QED
      BY <1>7, <2>1 DEF Step, RegisterPeer, SendVersion, HandleVersion,
         HandleGetBlocks, SendBlock, BeginRelay, EndRelay
  <1>8. QED
    BY <1>2, <1>5, <1>6, <1>7 DEF Next, vars, ConnectPeer
(* Blocks that were prefixes of the old tips are prefixes of grown tips.   *)
LEMMA OKGrow ==
    ASSUME IInv, RInv, NEW t2,
           \A n \in Node : t2[n] \in Seq(Miner) /\ IsPrefix(tip[n], t2[n])
    PROVE  MsgsOK(msgs, t2) /\ GoOK(g, t2)
  <1>1. MsgsOK(msgs, t2)
    <2> SUFFICES ASSUME NEW c \in Goroutine, NEW i \in 1..Len(msgs[c]),
                        msgs[c][i].type = "block"
                 PROVE  IsPrefix(msgs[c][i].block, t2[c[1]])
      BY DEF MsgsOK
    <2>1. msgs[c][i] \in Msgs
      BY ElementOfSeq DEF IInv
    <2>2. msgs[c][i].block \in Seq(Miner)
      BY <2>1 DEF Msgs
    <2>3. IsPrefix(msgs[c][i].block, tip[c[1]])
      BY DEF RInv, MsgsOK
    <2>4. c[1] \in Node /\ tip[c[1]] \in Seq(Miner)
      BY DEF Goroutine, IInv, Blk
    <2>5. QED
      BY <2>2, <2>3, <2>4, PrefixTrans
  <1>2. GoOK(g, t2)
    <2> SUFFICES ASSUME NEW c \in Goroutine
                 PROVE  /\ g[c].op \in {"added", "relay"} => IsPrefix(g[c].blk, t2[c[1]])
                        /\ g[c].op = "send" => \A i \in 1..Len(g[c].blks) :
                                                  IsPrefix(g[c].blks[i], t2[c[1]])
      BY DEF GoOK
    <2>1. c[1] \in Node /\ tip[c[1]] \in Seq(Miner) /\ g[c] \in GState
      BY DEF Goroutine, IInv, Blk
    <2>2. g[c].op \in {"added", "relay"} => IsPrefix(g[c].blk, t2[c[1]])
      <3> SUFFICES ASSUME g[c].op \in {"added", "relay"} PROVE IsPrefix(g[c].blk, t2[c[1]])
        OBVIOUS
      <3>1. g[c].blk \in Seq(Miner)
        BY <2>1 DEF GState, Idle, Blk
      <3>2. IsPrefix(g[c].blk, tip[c[1]])
        BY DEF RInv, GoOK
      <3>3. QED
        BY <2>1, <3>1, <3>2, PrefixTrans
    <2>3. g[c].op = "send" => \A i \in 1..Len(g[c].blks) : IsPrefix(g[c].blks[i], t2[c[1]])
      <3> SUFFICES ASSUME g[c].op = "send", NEW i \in 1..Len(g[c].blks)
                   PROVE  IsPrefix(g[c].blks[i], t2[c[1]])
        OBVIOUS
      <3>1. g[c].blks \in Seq(Blk)
        BY <2>1 DEF GState, Idle
      <3>2. g[c].blks[i] \in Seq(Miner)
        BY <3>1, ElementOfSeq DEF Blk
      <3>3. IsPrefix(g[c].blks[i], tip[c[1]])
        BY DEF RInv, GoOK
      <3>4. QED
        BY <2>1, <3>2, <3>3, PrefixTrans
    <2>4. QED
      BY <2>2, <2>3
  <1>3. QED
    BY <1>1, <1>2

(* Peer.Send from n keeps MsgsOK when the message, if a block, is a prefix *)
(* of n's tip.                                                             *)
LEMMA SendOK ==
    ASSUME NEW ms \in [Goroutine -> Seq(Msgs)], NEW t, MsgsOK(ms, t),
           NEW n \in Node, NEW m \in Node, NEW msg \in Msgs,
           msg.type = "block" => IsPrefix(msg.block, t[n])
    PROVE  MsgsOK([ms EXCEPT ![<<n, m>>] = Append(@, msg)], t)
  <1> DEFINE ms2 == [ms EXCEPT ![<<n, m>>] = Append(@, msg)]
  <1> SUFFICES ASSUME NEW c \in Goroutine, NEW i \in 1..Len(ms2[c]), ms2[c][i].type = "block"
               PROVE  IsPrefix(ms2[c][i].block, t[c[1]])
    BY DEF MsgsOK
  <1>1. CASE c = <<n, m>>
    <2>1. Len(ms2[c]) = Len(ms[c]) + 1 /\ ms2[c][Len(ms[c]) + 1] = msg
          /\ \A j \in 1..Len(ms[c]) : ms2[c][j] = ms[c][j]
      BY <1>1, AppendProperties DEF Goroutine
    <2>2. CASE i = Len(ms[c]) + 1
      BY <1>1, <2>1, <2>2
    <2>3. CASE i \in 1..Len(ms[c])
      BY <2>1, <2>3 DEF MsgsOK
    <2>4. i = Len(ms[c]) + 1 \/ i \in 1..Len(ms[c])
      <3>1. Len(ms[c]) \in Nat
        BY LenProperties
      <3>2. QED
        BY <3>1, <2>1
    <2>5. QED
      BY <2>4, <2>2, <2>3
  <1>2. CASE c # <<n, m>>
    BY <1>2 DEF MsgsOK
  <1>3. QED
    BY <1>1, <1>2

(* The read loop's receive drops the head of a connection.                 *)
LEMMA PopOK ==
    ASSUME NEW ms \in [Goroutine -> Seq(Msgs)], NEW t, MsgsOK(ms, t),
           NEW c \in Goroutine, ms[c] # <<>>
    PROVE  MsgsOK([ms EXCEPT ![c] = Tail(@)], t)
  <1> DEFINE ms2 == [ms EXCEPT ![c] = Tail(@)]
  <1> SUFFICES ASSUME NEW d \in Goroutine, NEW i \in 1..Len(ms2[d]), ms2[d][i].type = "block"
               PROVE  IsPrefix(ms2[d][i].block, t[d[1]])
    BY DEF MsgsOK
  <1>1. CASE d = c
    <2>1. Len(ms2[d]) = Len(ms[d]) - 1 /\ \A j \in 1..Len(ms2[d]) : ms2[d][j] = ms[d][j + 1]
      BY <1>1, HeadTailProperties
    <2>2. i + 1 \in 1..Len(ms[d])
      BY <2>1
    <2>3. QED
      BY <2>1, <2>2 DEF MsgsOK
  <1>2. CASE d # c
    BY <1>2 DEF MsgsOK
  <1>3. QED
    BY <1>1, <1>2

(* The blocks already on the wire or held by goroutines are prefixes of    *)
(* the new tips (lemma OKGrow); each action lemma below adds what it puts  *)
(* on the wire or in a goroutine.                                          *)
Grown == MsgsOK(msgs, tip') /\ GoOK(g, tip')

Kept == MsgsOK(msgs', tip') /\ GoOK(g', tip')

(* Every block Chain.GetBlocks returns is a prefix of the node's tip.      *)
LEMMA GetBlocksPrefix ==
    ASSUME IInv, NEW n \in Node, NEW from \in Nat \ {0}
    PROVE  \A i \in 1..Len(GetBlocks(n, from)) : IsPrefix(GetBlocks(n, from)[i], tip[n])
  <1> DEFINE k == IF from <= Height(tip[n]) THEN Height(tip[n]) - from + 1 ELSE 0
             f == [i \in 1..k |-> SubSeq(tip[n], 1, from + i - 1)]
  <1>1. tip[n] \in Seq(Miner) /\ Len(tip[n]) \in Nat /\ k \in Nat
    BY LenProperties DEF IInv, Blk, Height
  <1>2. f \in Seq(Blk) /\ GetBlocks(n, from) = f
    BY GetBlocksTyped DEF GetBlocks
  <1>3. 1..Len(f) = 1..k
    BY <1>1, <1>2, LenProperties
  <1>4. \A i \in 1..k : IsPrefix(f[i], tip[n])
    BY <1>1, SubSeqPrefix DEF Height
  <1>5. QED
    BY <1>2, <1>3, <1>4

LEMMA ConnectPeerOK ==
    ASSUME Grown, NEW l \in Links, ConnectPeer(l) PROVE Kept
  BY DEF Grown, Kept, ConnectPeer

LEMMA RegisterPeerOK ==
    ASSUME IInv, Grown, NEW n \in Node, NEW m \in Node, RegisterPeer(n, m) PROVE Kept
  <1>1. GoOK([g EXCEPT ![<<n, m>>] = [op |-> "hello"]], tip')
    BY DEF Grown, GoOK, IInv, Goroutine
  <1>2. QED
    BY <1>1 DEF Grown, Kept, RegisterPeer

LEMMA EndRelayOK ==
    ASSUME IInv, Grown, NEW n \in Node, NEW m \in Node, EndRelay(n, m) PROVE Kept
  <1>1. GoOK([g EXCEPT ![<<n, m>>] = Idle], tip')
    BY DEF Grown, GoOK, IInv, Goroutine, Idle
  <1>2. QED
    BY <1>1 DEF Grown, Kept, EndRelay

LEMMA SendVersionOK ==
    ASSUME IInv, Grown, NEW n \in Node, NEW m \in Node, SendVersion(n, m) PROVE Kept
  <1> DEFINE msg == [type |-> "version", height |-> Height(tip[n])]
  <1>1. msg \in Msgs
    BY DEF IInv, Blk, Msgs, Height
  <1>2. MsgsOK([msgs EXCEPT ![<<n, m>>] = Append(@, msg)], tip')
    BY <1>1, SendOK DEF Grown, IInv
  <1>3. GoOK([g EXCEPT ![<<n, m>>] = Idle], tip')
    BY DEF Grown, GoOK, IInv, Goroutine, Idle
  <1>4. QED
    BY <1>2, <1>3 DEF Kept, SendVersion, Send

LEMMA HandleVersionOK ==
    ASSUME IInv, Grown, NEW n \in Node, NEW m \in Node, HandleVersion(n, m) PROVE Kept
  <1> DEFINE msg == [type |-> "getblocks", from |-> Height(tip[n]) + 1]
  <1>1. Msg(n, m) \in Msgs /\ Pop(n, m) \in [Goroutine -> Seq(Msgs)]
    BY RecvTyped DEF HandleVersion
  <1>2. MsgsOK(Pop(n, m), tip')
    BY PopOK DEF Grown, IInv, Pop, HandleVersion, Recv, Goroutine
  <1>3. Msg(n, m).height > Height(tip[n]) => msg \in Msgs
    <2>1. Msg(n, m) \in [type : {"version"}, height : 0..MaxHeight]
      BY <1>1 DEF HandleVersion, Recv, Msg, Msgs
    <2>2. QED
      BY <2>1, NetworkAssumption DEF IInv, Msgs, Blk, Height
  <1>4. Msg(n, m).height > Height(tip[n])
          => MsgsOK([Pop(n, m) EXCEPT ![<<n, m>>] = Append(@, msg)], tip')
    BY <1>1, <1>2, <1>3, SendOK
  <1>5. QED
    BY <1>2, <1>4 DEF Grown, Kept, HandleVersion

LEMMA HandleGetBlocksOK ==
    ASSUME IInv, Grown, NEW n \in Node, NEW m \in Node, HandleGetBlocks(n, m) PROVE Kept
  <1> DEFINE bs == GetBlocks(n, Msg(n, m).from)
  <1>1. Msg(n, m) \in Msgs /\ Pop(n, m) \in [Goroutine -> Seq(Msgs)]
    BY RecvTyped DEF HandleGetBlocks
  <1>2. MsgsOK(Pop(n, m), tip')
    BY PopOK DEF Grown, IInv, Pop, HandleGetBlocks, Recv, Goroutine
  <1>3. Msg(n, m).from \in Nat \ {0}
    BY <1>1, NetworkAssumption DEF HandleGetBlocks, Recv, Msg, Msgs
  <1>4. \A i \in 1..Len(bs) : IsPrefix(bs[i], tip'[n])
    BY <1>3, GetBlocksPrefix DEF HandleGetBlocks
  <1>5. CASE bs = <<>>
    <2>1. GoOK([g EXCEPT ![<<n, m>>] = Idle], tip')
      BY DEF Grown, GoOK, IInv, Goroutine, Idle
    <2>2. QED
      BY <1>2, <1>5, <2>1 DEF Kept, HandleGetBlocks
  <1>6. CASE bs # <<>>
    <2>1. GoOK([g EXCEPT ![<<n, m>>] = [op |-> "send", blks |-> bs]], tip')
      BY <1>4 DEF Grown, GoOK, IInv, Goroutine
    <2>2. QED
      BY <1>2, <1>6, <2>1 DEF Kept, HandleGetBlocks
  <1>7. QED
    BY <1>5, <1>6
LEMMA SendBlockOK ==
    ASSUME IInv, Grown, NEW n \in Node, NEW m \in Node, SendBlock(n, m) PROVE Kept
  <1> DEFINE bs == g[<<n, m>>].blks
             msg == [type |-> "block", block |-> Head(bs)]
  <1>0. g[<<n, m>>] \in [op : {"send"}, blks : Seq(Blk) \ {<<>>}]
    BY DEF IInv, SendBlock, GState, Goroutine, Idle
  <1>1. bs \in Seq(Blk) /\ bs # <<>>
    BY <1>0
  <1>2. \A i \in 1..Len(bs) : IsPrefix(bs[i], tip'[n])
    BY DEF Grown, GoOK, SendBlock, Goroutine
  <1>3. /\ Head(bs) = bs[1] /\ 1 \in 1..Len(bs)
        /\ Len(Tail(bs)) = Len(bs) - 1
        /\ \A i \in 1..Len(Tail(bs)) : Tail(bs)[i] = bs[i + 1]
    <2>1. Len(bs) \in Nat /\ Len(bs) # 0
      BY <1>1, LenProperties, EmptySeq
    <2>2. QED
      BY <1>1, <2>1, HeadTailProperties
  <1>4. msg \in Msgs
    BY <1>1, HeadTailProperties DEF Msgs, Blk
  <1>5. MsgsOK([msgs EXCEPT ![<<n, m>>] = Append(@, msg)], tip')
    BY <1>2, <1>3, <1>4, SendOK DEF Grown, IInv
  <1>6. \A i \in 1..Len(Tail(bs)) : IsPrefix(Tail(bs)[i], tip'[n])
    BY <1>2, <1>3
  <1>7. CASE Len(bs) = 1
    <2>1. GoOK([g EXCEPT ![<<n, m>>] = Idle], tip')
      BY DEF Grown, GoOK, IInv, Goroutine, Idle
    <2>2. QED
      BY <1>5, <1>7, <2>1 DEF Kept, SendBlock, Send
  <1>8. CASE Len(bs) # 1
    <2> DEFINE g2 == [g EXCEPT ![<<n, m>>] = [op |-> "send", blks |-> Tail(bs)]]
    <2>1. GoOK(g2, tip')
      <3> SUFFICES ASSUME NEW c \in Goroutine
                   PROVE  /\ g2[c].op \in {"added", "relay"} => IsPrefix(g2[c].blk, tip'[c[1]])
                          /\ g2[c].op = "send" => \A i \in 1..Len(g2[c].blks) :
                                                    IsPrefix(g2[c].blks[i], tip'[c[1]])
        BY DEF GoOK
      <3>1. CASE c = <<n, m>>
        <4>1. c[1] = n
          BY <3>1
        <4>2. g2[c].op = "send" /\ g2[c].blks = Tail(bs)
          BY <3>1 DEF IInv, Goroutine
        <4>3. \A i \in 1..Len(g2[c].blks) : IsPrefix(g2[c].blks[i], tip'[c[1]])
          BY <4>1, <4>2, <1>6
        <4>4. QED
          BY <4>2, <4>3
      <3>2. CASE c # <<n, m>>
        BY <3>2 DEF Grown, GoOK, IInv
      <3>3. QED
        BY <3>1, <3>2
    <2>2. QED
      BY <1>5, <1>8, <2>1 DEF Kept, SendBlock, Send
  <1>9. QED
    BY <1>7, <1>8

LEMMA HandleBlockOK ==
    ASSUME IInv, Grown, NEW n \in Node, NEW m \in Node, HandleBlock(n, m) PROVE Kept
  <1> DEFINE b == Msg(n, m).block
  <1>1. Msg(n, m) \in Msgs /\ Pop(n, m) \in [Goroutine -> Seq(Msgs)]
    BY RecvTyped DEF HandleBlock
  <1>2. MsgsOK(msgs', tip')
    BY PopOK DEF Grown, IInv, Pop, HandleBlock, Recv, Goroutine
  <1>3. b \in Seq(Miner)
    BY <1>1 DEF HandleBlock, Recv, Msg, Msgs
  <1>4. CASE UNCHANGED <<tip, g>>
    BY <1>2, <1>4 DEF Grown, Kept
  <1>5. CASE tip' = [tip EXCEPT ![n] = b] /\ g' = [g EXCEPT ![<<n, m>>] = [op |-> "added", blk |-> b]]
    <2>1. IsPrefix(b, tip'[n])
      BY <1>3, <1>5, PrefixRefl DEF IInv
    <2>2. GoOK(g', tip')
      BY <1>5, <2>1 DEF Grown, GoOK, IInv, Goroutine
    <2>3. QED
      BY <1>2, <2>2 DEF Kept
  <1>6. QED
    BY <1>4, <1>5 DEF HandleBlock

LEMMA BeginRelayOK ==
    ASSUME IInv, Grown, NEW n \in Node, NEW m \in Node, BeginRelay(n, m) PROVE Kept
  <1>1. IsPrefix(g[<<n, m>>].blk, tip'[n])
    BY DEF Grown, GoOK, BeginRelay, Goroutine
  <1>2. GoOK([g EXCEPT ![<<n, m>>] = [op |-> "relay", blk |-> g[<<n, m>>].blk,
                                       to |-> peers[n] \ {m}]], tip')
    BY <1>1 DEF Grown, GoOK, IInv, Goroutine
  <1>3. QED
    BY <1>2 DEF Grown, Kept, BeginRelay

LEMMA RelayToOK ==
    ASSUME IInv, Grown, NEW n \in Node, NEW m \in Node, NEW p \in Node, RelayTo(n, m, p)
    PROVE  Kept
  <1> DEFINE r == g[<<n, m>>]
             msg == [type |-> "block", block |-> r.blk]
  <1>0. r.op = "relay" /\ r \in GState
    BY DEF IInv, RelayTo, Goroutine
  <1>1. r \in [op : {"relay"}, blk : Blk, to : SUBSET Node]
    BY <1>0 DEF GState, Idle
  <1>2. IsPrefix(r.blk, tip'[n])
    BY DEF Grown, GoOK, RelayTo, Goroutine
  <1>3. msg \in Msgs
    BY <1>1 DEF Msgs, Blk
  <1>4. MsgsOK(msgs', tip')
    BY <1>2, <1>3, SendOK DEF Grown, IInv, RelayTo, Send
  <1>5. PICK r2 : r2 = [r EXCEPT !.to = r.to \ {p}]
    OBVIOUS
  <1>6. r2.op = "relay" /\ r2.blk = r.blk
    BY <1>0, <1>1, <1>5, Zenon
  <1>7. g' = [g EXCEPT ![<<n, m>>] = r2]
    BY <1>5, Zenon DEF RelayTo
  <1>8. GoOK(g', tip')
    BY <1>2, <1>6, <1>7 DEF Grown, GoOK, IInv, Goroutine
  <1>9. QED
    BY <1>4, <1>8 DEF Kept

LEMMA SubmitBlockOK ==
    ASSUME IInv, Grown, NEW n \in Node, SubmitBlock(n) PROVE Kept
  <1>1. Append(tip[n], n) \in Seq(Miner)
    BY AppendProperties DEF IInv, SubmitBlock, Blk
  <1>2. IsPrefix(Append(tip[n], n), tip'[n])
    BY <1>1, PrefixRefl DEF SubmitBlock, IInv
  <1>3. GoOK([g EXCEPT ![<<n, n>>] = [op |-> "added", blk |-> Append(tip[n], n)]], tip')
    BY <1>2 DEF Grown, GoOK, IInv, Goroutine
  <1>4. QED
    BY <1>3 DEF Grown, Kept, SubmitBlock
LEMMA InitRInv == Init => RInv
  BY DEF Init, RInv, MsgsOK, GoOK, Idle, Goroutine

(* Every step of the network keeps RInv.                                   *)
LEMMA NextRInv == IInv /\ RInv /\ [Next]_vars => RInv'
  <1> SUFFICES ASSUME IInv, RInv, [Next]_vars PROVE RInv'
    OBVIOUS
  <1>1. \A n \in Node : tip'[n] \in Seq(Miner) /\ IsPrefix(tip[n], tip'[n])
    <2>1. IInv'
      BY NextIInv
    <2>2. QED
      BY <2>1, TipGrows DEF IInv, Blk
  <1>2. Grown
    BY <1>1, OKGrow DEF Grown
  <1>3. Kept
    <2>1. CASE \E l \in Links : ConnectPeer(l)
      BY <1>2, <2>1, ConnectPeerOK
    <2>2. CASE \E n, m \in Node : Step(n, m)
      <3>1. PICK n \in Node, m \in Node : Step(n, m)
        BY <2>2
      <3>2. QED
        BY <1>2, <3>1, RegisterPeerOK, SendVersionOK, HandleVersionOK, HandleGetBlocksOK,
           SendBlockOK, HandleBlockOK, BeginRelayOK, RelayToOK, EndRelayOK DEF Step
    <2>3. CASE \E n \in Node : SubmitBlock(n)
      BY <1>2, <2>3, SubmitBlockOK
    <2>4. CASE UNCHANGED vars
      BY <1>2, <2>4 DEF Grown, Kept, vars
    <2>5. QED
      BY <2>1, <2>2, <2>3, <2>4 DEF Next
  <1>4. QED
    BY <1>3 DEF Kept, RInv, MsgsOK, GoOK

(* The accepting branch of handleMessage's block case is an Adopt step     *)
(* from the sender: the block is the next one of the sender's chain.      *)
LEMMA AcceptIsAdopt ==
    ASSUME IInv, RInv, NEW n \in Node, NEW m \in Node, Recv(n, m, "block"),
           ValidNext(n, Msg(n, m).block), tip' = [tip EXCEPT ![n] = Msg(n, m).block]
    PROVE  Tree!Adopt(n, m)
  <1> DEFINE b == Msg(n, m).block
             L == Len(tip[n])
  <1>1. Msg(n, m) \in Msgs /\ Msg(n, m) = msgs[<<m, n>>][1] /\ 1 \in 1..Len(msgs[<<m, n>>])
    <2>1. msgs[<<m, n>>] \in Seq(Msgs) /\ msgs[<<m, n>>] # <<>>
      BY DEF IInv, Recv, Goroutine
    <2>2. Len(msgs[<<m, n>>]) \in Nat /\ Len(msgs[<<m, n>>]) # 0
      BY <2>1, LenProperties, EmptySeq
    <2>3. QED
      BY <2>1, <2>2, HeadTailProperties DEF Msg
  <1>2. b \in Seq(Miner) /\ IsPrefix(b, tip[m])
    <2>1. Msg(n, m).type = "block"
      BY DEF Recv, Msg
    <2>2. QED
      BY <1>1, <2>1 DEF Msgs, RInv, MsgsOK, Goroutine
  <1>3. tip[n] \in Seq(Miner) /\ tip[m] \in Seq(Miner) /\ L \in Nat
    BY LenProperties DEF IInv, Blk
  <1>4. Len(b) = L + 1 /\ \A i \in 1..L : tip[n][i] = b[i]
    <2>1. Len(b) = L + 1
      BY <1>3 DEF ValidNext, Height
    <2>2. \A i \in 1..L : SubSeq(b, 1, Len(b) - 1)[i] = b[i]
      BY <1>2, <1>3, <2>1, SubSeqProperties
    <2>3. QED
      BY <2>1, <2>2 DEF ValidNext
  <1>5. L < Len(tip[m]) /\ IsPrefix(tip[n], tip[m])
    BY <1>2, <1>3, <1>4 DEF IsPrefix, Tree!IsPrefix
  <1>6. b = SubSeq(tip[m], 1, L + 1)
    <2>1. /\ SubSeq(tip[m], 1, L + 1) \in Seq(Miner)
          /\ Len(SubSeq(tip[m], 1, L + 1)) = L + 1
          /\ \A i \in 1..L + 1 : SubSeq(tip[m], 1, L + 1)[i] = tip[m][i]
      BY <1>3, <1>5, SubSeqProperties
    <2>2. \A i \in 1..L + 1 : b[i] = tip[m][i]
      BY <1>2, <1>4 DEF IsPrefix, Tree!IsPrefix
    <2>3. QED
      BY <1>2, <1>4, <2>1, <2>2, SeqEqual
  <1>7. QED
    BY <1>5, <1>6 DEF Tree!Adopt, IsPrefix

(* Every step of the network is a step of BlockTree or leaves the tips.   *)
LEMMA StepRefines == IInv /\ RInv /\ [Next]_vars => [Tree!Next]_tip
  <1> SUFFICES ASSUME IInv, RInv, [Next]_vars PROVE [Tree!Next]_tip
    OBVIOUS
  <1>1. CASE \E n \in Node : SubmitBlock(n)
    BY <1>1 DEF SubmitBlock, Tree!Next, Tree!Mine, Height
  <1>2. CASE \E n, m \in Node : HandleBlock(n, m)
    <2>1. PICK n \in Node, m \in Node : HandleBlock(n, m)
      BY <1>2
    <2>2. \/ tip' = tip
          \/ ValidNext(n, Msg(n, m).block) /\ tip' = [tip EXCEPT ![n] = Msg(n, m).block]
      BY <2>1 DEF HandleBlock
    <2>3. Recv(n, m, "block")
      BY <2>1 DEF HandleBlock
    <2>4. QED
      BY <2>2, <2>3, AcceptIsAdopt DEF Tree!Next
  <1>3. ASSUME NEW k \in Node, NEW l \in Node, Step(k, l), ~HandleBlock(k, l)
        PROVE  tip' = tip
    <2>1. ASSUME NEW p \in Node, RelayTo(k, l, p) PROVE tip' = tip
      BY <2>1, Zenon DEF RelayTo
    <2>2. QED
      BY <1>3, <2>1 DEF Step, RegisterPeer, SendVersion, HandleVersion,
         HandleGetBlocks, SendBlock, BeginRelay, EndRelay
  <1>4. QED
    BY <1>1, <1>2, <1>3 DEF Next, vars, ConnectPeer

(* Refinement: the P2P layer of node.go, with its connections, FIFO       *)
(* message order, read loops, relays and getblocks catch-up, implements   *)
(* BlockTree for every network: a node's tip changes only when its own    *)
(* miner submits the block on top of it or when it takes the next block   *)
(* of the chain the sending peer holds at that moment.                    *)
THEOREM RefinesBlockTree == Spec => ImplementsBlockTree
  <1>1. Init => IInv /\ RInv
    BY InitIInv, InitRInv
  <1>2. IInv /\ RInv /\ [Next]_vars => IInv' /\ RInv'
    BY NextIInv, NextRInv
  <1>3. Init => Tree!Init
    BY DEF Init, Tree!Init
  <1>4. IInv /\ RInv /\ [Next]_vars => [Tree!Next]_tip
    BY StepRefines
  <1>5. QED
    BY <1>1, <1>2, <1>3, <1>4, PTL DEF Spec, ImplementsBlockTree, Tree!Spec
=============================================================================
