------------------------------ MODULE Network ------------------------------
(***************************************************************************)
(* The P2P layer of internal/network/node.go between several nodes, each   *)
(* started by cmd/dvcnode/main.go: the --addpeer dials made once at start, *)
(* handlePeer's registration and version message, the per-peer read loop   *)
(* with handleMessage, the catch-up by getblocks and sendBlocks, and the    *)
(* relay of accepted blocks; submitblock on a miner's node adds a block    *)
(* and broadcasts it.                                                      *)
(*                                                                         *)
(* A block is its ancestry: the sequence of the nodes that mined heights   *)
(* 1..h, so that height and prev-hash checks become Len and Front; genesis *)
(* (height 0) is <<>>.  A TCP connection is a FIFO channel each way;       *)
(* Peer.Send appends one message under the peer's mutex.  Each goroutine   *)
(* is named <<n, m>>: n's read loop for peer m, or, for m = n, the RPC     *)
(* handler of n.  Its state is                                             *)
(*   down   no connection with m registered yet                            *)
(*   hello  registered in n.Peers, version not yet sent                    *)
(*   idle   in scanner.Scan, waiting for the next message                  *)
(*   added  AddBlock succeeded, relay/broadcast not started                *)
(*   relay  holding n.mu.RLock, sending the block to the peers in "to"      *)
(*   send   sendBlocks, with the blocks GetBlocks returned still to send   *)
(* Transactions and verack (whose handler does nothing) are left out; the  *)
(* chain's own state is module Chain's business.                           *)
(***************************************************************************)
EXTENDS Naturals, Sequences, FiniteSets

CONSTANTS
    Node,          \* the nodes
    Miner,         \* the nodes whose external miner calls submitblock
    Links,         \* <<dialer, listener>>: one --addpeer entry each
    MaxHeight,     \* model bound on the chain height
    DialCanFail    \* whether net.DialTimeout may fail (listener not up yet)

ASSUME NetworkAssumption ==
    /\ Miner \subseteq Node
    /\ Links \subseteq Node \X Node
    /\ \A l \in Links : l[1] # l[2] /\ <<l[2], l[1]>> \notin Links
    /\ MaxHeight \in Nat
    /\ DialCanFail \in BOOLEAN

VARIABLES
    tip,         \* tip[n]: n's chain tip (bc.lastBlock and the store)
    dialed,      \* links whose ConnectPeer was attempted
    conn,        \* links whose dial succeeded
    peers,       \* peers[n]: the peers in n.Peers
    msgs,        \* msgs[<<n, m>>]: messages in flight from n to m
    peerHeight,  \* peerHeight[<<n, m>>]: Peer.Height, m's height as n heard it
    g            \* g[<<n, m>>]: the state of goroutine <<n, m>>

vars == <<tip, dialed, conn, peers, msgs, peerHeight, g>>

Goroutine == Node \X Node

Idle == [op |-> "idle"]

Height(b) == Len(b)

Connected(n, m) == <<n, m>> \in conn \/ <<m, n>> \in conn

\* The goroutines that can ever run: the RPC handler of every node and a
\* read loop at each end of every --addpeer link.
Live == {<<n, n>> : n \in Node} \cup Links \cup {<<l[2], l[1]>> : l \in Links}

\* Some goroutine of n holds n.mu.RLock while it writes to sockets.
HoldsRLock(n) == \E x \in Node : g[<<n, x>>].op = "relay"

\* Peer.Send: append msg to the connection from n to m.
Send(n, m, msg) == msgs' = [msgs EXCEPT ![<<n, m>>] = Append(@, msg)]

\* Mutant: the cursor is advanced once before the first block is read.
GetBlocksAfter(n, from) ==
    [i \in 1..(IF from < Height(tip[n]) THEN Height(tip[n]) - from ELSE 0)
        |-> SubSeq(tip[n], 1, from + i)]

\* Chain.GetBlocks(from): the stored blocks of heights from .. best, in
\* order (Store.GetBlocksFrom seeks to heightKey(from) and walks the cursor).
GetBlocks(n, from) ==
    [i \in 1..(IF from <= Height(tip[n]) THEN Height(tip[n]) - from + 1 ELSE 0)
        |-> SubSeq(tip[n], 1, from + i - 1)]

\* Mutant: the prev-hash check is skipped (as when bc.lastBlock is nil).
ValidNextHeightOnly(n, b) == Height(b) = Height(tip[n]) + 1

\* validateBlock's height and prev-hash checks against n's tip.
ValidNext(n, b) ==
    /\ Height(b) = Height(tip[n]) + 1
    /\ SubSeq(b, 1, Len(b) - 1) = tip[n]

Init ==
    /\ tip = [n \in Node |-> <<>>]
    /\ dialed = {} /\ conn = {}
    /\ peers = [n \in Node |-> {}]
    /\ msgs = [c \in Goroutine |-> <<>>]
    /\ peerHeight = [c \in Goroutine |-> 0]
    /\ g = [c \in Goroutine |-> IF c[1] = c[2] THEN Idle ELSE [op |-> "down"]]

(******************************** start-up ********************************)
\* main: node.ConnectPeer(addr) for one --addpeer entry; the dial succeeds
\* and both ends start handlePeer, or it fails and is never retried.
ConnectPeer(l) ==
    /\ l \notin dialed
    /\ dialed' = dialed \cup {l}
    /\ \/ conn' = conn \cup {l}
       \/ DialCanFail /\ UNCHANGED conn
    /\ UNCHANGED <<tip, peers, msgs, peerHeight, g>>

\* handlePeer: n.Peers[addr] = peer under n.mu.Lock, which waits for every
\* reader of n.mu to finish its relay.
RegisterPeer(n, m) ==
    /\ n # m /\ Connected(n, m)
    /\ g[<<n, m>>].op = "down"
    /\ ~HoldsRLock(n)
    /\ peers' = [peers EXCEPT ![n] = @ \cup {m}]
    /\ g' = [g EXCEPT ![<<n, m>>] = [op |-> "hello"]]
    /\ UNCHANGED <<tip, dialed, conn, msgs, peerHeight>>

\* handlePeer: send version with Chain.GetBestHeight(), then read.
SendVersion(n, m) ==
    /\ g[<<n, m>>].op = "hello"
    /\ Send(n, m, [type |-> "version", height |-> Height(tip[n])])
    /\ g' = [g EXCEPT ![<<n, m>>] = Idle]
    /\ UNCHANGED <<tip, dialed, conn, peers, peerHeight>>

(***************************** handleMessage ******************************)
\* The read loop of n for m takes the next message of the connection.
Recv(n, m, type) ==
    /\ g[<<n, m>>] = Idle
    /\ msgs[<<m, n>>] # <<>>
    /\ Head(msgs[<<m, n>>]).type = type

Msg(n, m) == Head(msgs[<<m, n>>])

Pop(n, m) == [msgs EXCEPT ![<<m, n>>] = Tail(@)]

\* Mutant: requestBlocks(peer, best) instead of best + 1.
HandleVersionFromBest(n, m) ==
    /\ Recv(n, m, "version")
    /\ peerHeight' = [peerHeight EXCEPT ![<<n, m>>] = Msg(n, m).height]
    /\ msgs' = IF Msg(n, m).height > Height(tip[n])
               THEN [Pop(n, m) EXCEPT ![<<n, m>>] =
                        Append(@, [type |-> "getblocks", from |-> Height(tip[n])])]
               ELSE Pop(n, m)
    /\ UNCHANGED <<tip, dialed, conn, peers, g>>

\* version: record peer.Height; request the blocks above the local best
\* when the peer is higher.
HandleVersion(n, m) ==
    /\ Recv(n, m, "version")
    /\ peerHeight' = [peerHeight EXCEPT ![<<n, m>>] = Msg(n, m).height]
    /\ msgs' = IF Msg(n, m).height > Height(tip[n])
               THEN [Pop(n, m) EXCEPT ![<<n, m>>] =
                        Append(@, [type |-> "getblocks", from |-> Height(tip[n]) + 1])]
               ELSE Pop(n, m)
    /\ UNCHANGED <<tip, dialed, conn, peers, g>>

\* getblocks: sendBlocks reads GetBlocks(from) once, then sends each.
HandleGetBlocks(n, m) ==
    /\ Recv(n, m, "getblocks")
    /\ msgs' = Pop(n, m)
    /\ g' = [g EXCEPT ![<<n, m>>] =
                IF GetBlocks(n, Msg(n, m).from) = <<>> THEN Idle
                ELSE [op |-> "send", blks |-> GetBlocks(n, Msg(n, m).from)]]
    /\ UNCHANGED <<tip, dialed, conn, peers, peerHeight>>

SendBlock(n, m) ==
    /\ g[<<n, m>>].op = "send"
    /\ Send(n, m, [type |-> "block", block |-> Head(g[<<n, m>>].blks)])
    /\ g' = [g EXCEPT ![<<n, m>>] =
                IF Len(@.blks) = 1 THEN Idle ELSE [op |-> "send", blks |-> Tail(@.blks)]]
    /\ UNCHANGED <<tip, dialed, conn, peers, peerHeight>>

\* block: dropped at or below the local best height, rejected by
\* validateBlock, or added.
HandleBlock(n, m) ==
    /\ Recv(n, m, "block")
    /\ msgs' = Pop(n, m)
    /\ LET b == Msg(n, m).block IN
       \/ /\ Height(b) <= Height(tip[n])
          /\ UNCHANGED <<tip, g>>
       \/ /\ Height(b) > Height(tip[n]) /\ ~ValidNext(n, b)
          /\ UNCHANGED <<tip, g>>
       \/ /\ ValidNext(n, b)
          /\ tip' = [tip EXCEPT ![n] = b]
          /\ g' = [g EXCEPT ![<<n, m>>] = [op |-> "added", blk |-> b]]
    /\ UNCHANGED <<dialed, conn, peers, peerHeight>>

(************************ relay and submitblock ***************************)
\* n.mu.RLock, then the peers other than the sender (for the RPC handler,
\* every peer: BroadcastBlock).
BeginRelay(n, m) ==
    /\ g[<<n, m>>].op = "added"
    /\ g' = [g EXCEPT ![<<n, m>>] =
                [op |-> "relay", blk |-> @.blk, to |-> peers[n] \ {m}]]
    /\ UNCHANGED <<tip, dialed, conn, peers, msgs, peerHeight>>

\* One p.Send(relay), peers in map order.
RelayTo(n, m, p) ==
    /\ g[<<n, m>>].op = "relay"
    /\ p \in g[<<n, m>>].to
    /\ Send(n, p, [type |-> "block", block |-> g[<<n, m>>].blk])
    /\ g' = [g EXCEPT ![<<n, m>>].to = @ \ {p}]
    /\ UNCHANGED <<tip, dialed, conn, peers, peerHeight>>

\* n.mu.RUnlock.
EndRelay(n, m) ==
    /\ g[<<n, m>>].op = "relay"
    /\ g[<<n, m>>].to = {}
    /\ g' = [g EXCEPT ![<<n, m>>] = Idle]
    /\ UNCHANGED <<tip, dialed, conn, peers, msgs, peerHeight>>

\* rpcSubmitBlock: the miner found a block on the template of n's tip and
\* AddBlock accepted it; BroadcastBlock follows.
SubmitBlock(n) ==
    /\ n \in Miner
    /\ g[<<n, n>>] = Idle
    /\ Height(tip[n]) < MaxHeight
    /\ tip' = [tip EXCEPT ![n] = Append(@, n)]
    /\ g' = [g EXCEPT ![<<n, n>>] = [op |-> "added", blk |-> Append(tip[n], n)]]
    /\ UNCHANGED <<dialed, conn, peers, msgs, peerHeight>>

(***************************************************************************)
\* The steps every goroutine takes on its own once it can.
Step(n, m) ==
    \/ RegisterPeer(n, m) \/ SendVersion(n, m)
    \/ HandleVersion(n, m) \/ HandleGetBlocks(n, m) \/ SendBlock(n, m)
    \/ HandleBlock(n, m)
    \/ BeginRelay(n, m) \/ \E p \in Node : RelayTo(n, m, p) \/ EndRelay(n, m)

Next ==
    \/ \E l \in Links : ConnectPeer(l)
    \/ \E n, m \in Node : Step(n, m)
    \/ \E n \in Node : SubmitBlock(n)

\* TCP delivers, every read loop keeps reading while its connection is up
\* (nothing closes one here), and main dials every --addpeer entry; the
\* external miner may stop at any time.
Fairness ==
    /\ \A l \in Links : WF_vars(ConnectPeer(l))
    /\ \A c \in Live : WF_vars(Step(c[1], c[2]))

Spec == Init /\ [][Next]_vars /\ Fairness

(******************************* properties *******************************)
Msgs == [type : {"version"}, height : 0..MaxHeight]
        \cup [type : {"getblocks"}, from : 1..MaxHeight + 1]
        \cup [type : {"block"}, block : {b \in Seq(Miner) : Len(b) <= MaxHeight}]

\* The shape of every variable: heights stay within MaxHeight.
TypeOK ==
    /\ \A n \in Node : tip[n] \in Seq(Miner) /\ Len(tip[n]) <= MaxHeight
    /\ dialed \subseteq Links /\ conn \subseteq dialed
    /\ peers \in [Node -> SUBSET Node]
    /\ \A c \in Goroutine : \A i \in 1..Len(msgs[c]) : msgs[c][i] \in Msgs
    /\ peerHeight \in [Goroutine -> 0..MaxHeight]
    /\ \A c \in Goroutine :
          g[c].op \in {"down", "hello", "idle", "added", "relay", "send"}

Tree == INSTANCE BlockTree
           WITH Node <- Node, Miner <- Miner, MaxHeight <- MaxHeight, tip <- tip

(* The P2P layer implements BlockTree: every change of a node's tip is a  *)
(* block its own miner submitted on that tip, or the next block of the    *)
(* chain the sending peer holds now, although the block may have been     *)
(* read from that peer's store long before (sendBlocks, relay) and sat in *)
(* the connection while both chains moved on.                             *)
ImplementsBlockTree == Tree!Spec

(* Handshake catch-up: once n heard in m's version message a height above *)
(* its own while its chain is a prefix of m's, n eventually reaches that   *)
(* height or one of the two mines onto a fork, whatever blocks are mined,  *)
(* relayed or sent meanwhile: requestBlocks asks for best+1 and sendBlocks *)
(* answers with every block from there to m's tip, in order.              *)
HandshakeCatchUp ==
    \A c \in Live, h \in 1..MaxHeight :
        LET n == c[1]  m == c[2]
            OnPeerChain == Len(tip[n]) <= Len(tip[m])
                           /\ SubSeq(tip[m], 1, Len(tip[n])) = tip[n]
        IN  (peerHeight[c] = h /\ Height(tip[n]) < h /\ OnPeerChain)
                ~> (Height(tip[n]) >= h \/ ~OnPeerChain)

(* Spec 9: a node that receives a block above its tip+1 needs a catch-up  *)
(* by getblocks; with one miner and every link up, all nodes eventually   *)
(* hold the same chain.                                                    *)
EventuallyInSync ==
    <>[](\A n, m \in Node : tip[n] = tip[m])
=============================================================================
