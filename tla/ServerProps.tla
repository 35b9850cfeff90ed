----------------------------- MODULE ServerProps -----------------------------
(***************************************************************************)
(* What the listening node promises: the properties of Server.             *)
(***************************************************************************)
EXTENDS Http

-----------------------------------------------------------------------------
(***************************************************************************)
(* Type correctness of the State struct, the tasks' locals and channels.   *)
(***************************************************************************)
TypeOK ==
    /\ FiniteStore(pool)
    /\ tipHash \in Hash
    /\ tipHeight \in Nat
    /\ finalized \in Nat
    /\ blocks \in Seq(Block)
    /\ peers \in [NodeId -> Conn \cup {NoConn}]
    /\ chan \in [Conn -> Seq(Msg)]
    /\ conn \in [Conn -> ConnStage]
    /\ ppc \in ProducerStage
    /\ wakeAt \in Nat
    /\ draft \in Block
    /\ targets \in SUBSET Conn
    /\ genesis \in Nat
    /\ now \in Nat
    /\ requests \in Nat
    /\ chain \in Seq(Block)
    /\ evicted \in SUBSET Tx

-----------------------------------------------------------------------------
(***************************************************************************)
(* The mempool.                                                            *)
(***************************************************************************)

(***************************************************************************)
(* The pool never outgrows its capacity, however insertions, duplicates    *)
(* and drains interleave (the eviction of insert_if_new).                  *)
(***************************************************************************)
PoolWithinCapacity == WithinCapacity(pool)

(***************************************************************************)
(* max_seen_nonce is the largest nonce among all the transactions ever     *)
(* accepted from a key, also when those have been evicted or included      *)
(* since; in particular no refused transaction moves it.                   *)
(***************************************************************************)
MaxNonceExact == NonceExact(pool)

\* The transactions that are out of the pool and not yet in a block.
InFlight == IF ppc = "commit" THEN draft.txs ELSE {}

(***************************************************************************)
(* An accepted transaction that a lookup does not find was evicted from a  *)
(* full pool, is between the producer's two critical sections, or is in a  *)
(* committed block that has left the recent-block buffer.  Nothing else    *)
(* loses a transaction (post_tx, drain_block, run_block_producer).         *)
(***************************************************************************)
AcceptedIsAccountedFor ==
    \A t \in pool.seen :
        GetTxById(t).location = "none" =>
            \/ t \in evicted
            \/ t \in InFlight
            \/ \E i \in 1 .. (Len(chain) - Len(blocks)) : t \in chain[i].txs

(***************************************************************************)
(* A transaction is not included again once it has expired: of the blocks  *)
(* that hold it, only the last may be of a slot that began after its       *)
(* expiry.  (It may expire while it is pending: verify_tx looks at the     *)
(* expiry only when the transaction comes in.)                             *)
(***************************************************************************)
SlotStart(b) == genesis + b.slot * SlotSeconds

ExpiredIsLastInclusion ==
    \A i, j \in DOMAIN chain : \A t \in chain[i].txs \cap chain[j].txs :
        i < j => SlotStart(chain[i]) <= Expiry[t]

(***************************************************************************)
(* `seen` is never consulted, so a transaction that has left the pool can  *)
(* enter it again -- but only the one with its sender's latest nonce, so   *)
(* that no block can bring back an older transaction after a newer one     *)
(* was accepted (the nonce policy of insert_if_new).                       *)
(***************************************************************************)
ReadmitsOnlyLatestNonce ==
    [][\A t \in (pool'.byId \ pool.byId) \cap pool.seen :
          \A u \in pool.seen : From[u] = From[t] => Nonce[u] <= Nonce[t]]_vars

-----------------------------------------------------------------------------
(***************************************************************************)
(* The chain.                                                              *)
(***************************************************************************)
LastHeight(s) == IF s = <<>> THEN 0 ELSE s[Len(s)].height
LastHash(s) == IF s = <<>> THEN GENESIS ELSE HeaderHash(s[Len(s)])
LastSlot(s) == IF s = <<>> THEN 0 ELSE s[Len(s)].slot

(***************************************************************************)
(* The committed blocks form one chain: heights count up from 1, every     *)
(* block names the hash of the one before, slots strictly increase (one    *)
(* block per slot at most, whatever delays the producer), and the tip is   *)
(* the last block.                                                         *)
(***************************************************************************)
ChainIsLinked ==
    /\ \A i \in DOMAIN chain : chain[i].height = i
    /\ \A i \in DOMAIN chain : i > 1 =>
           /\ chain[i].parent = HeaderHash(chain[i - 1])
           /\ chain[i].slot > chain[i - 1].slot
    /\ chain # <<>> => chain[1].parent = GENESIS /\ chain[1].slot > 0
    /\ tipHeight = Len(chain)
    /\ tipHash = LastHash(chain)

(***************************************************************************)
(* The parent and height that the producer read under its first guard are  *)
(* still the tip when it takes the second one.                             *)
(***************************************************************************)
DraftExtendsTip ==
    ppc = "commit" =>
        /\ draft.height = tipHeight + 1
        /\ draft.parent = tipHash
        /\ draft.slot > LastSlot(chain)

(***************************************************************************)
(* The buffer the HTTP handlers read is the newest BLOCK_BUFFER blocks of  *)
(* the chain, in order.                                                    *)
(***************************************************************************)
BlocksAreRecent ==
    LET keep == IF Len(chain) < BlockBuffer THEN Len(chain) ELSE BlockBuffer
    IN  blocks = SubSeq(chain, Len(chain) - keep + 1, Len(chain))

(***************************************************************************)
(* finalized_height never goes back: a transaction reported finalized      *)
(* stays finalized, also over slots the producer missed.                   *)
(***************************************************************************)
FinalityNeverRetreats == [][finalized' >= finalized]_finalized

(***************************************************************************)
(* Finality trails the clock by a full epoch: what is final at a boundary  *)
(* was due an epoch before it.                                             *)
(***************************************************************************)
FinalityTrailsSlots ==
    finalized > 0 => finalized + EpochSlots <= LastSlot(chain)

(***************************************************************************)
(* With a producer that misses no slot, what is final is a block that      *)
(* exists and is at least a full epoch below the tip: finalized_height is  *)
(* computed from slots, and slots and heights then run together.           *)
(***************************************************************************)
FinalityBehindTip == finalized = 0 \/ finalized + EpochSlots <= tipHeight

(***************************************************************************)
(* src/net/server.rs:1155: "finalize at epoch boundaries: finalize last    *)
(* block of (epoch - 2)".  At the boundary of epoch e >= 2 the finalized   *)
(* height is that of the last block whose header carries epoch e - 2.      *)
(***************************************************************************)
FinalizesLastBlockOfEpochMinus2 ==
    \A i \in DOMAIN chain :
        /\ i = Len(chain)
        /\ SlotInEpoch(chain[i].slot) = 0
        /\ chain[i].epoch >= 2
        => /\ finalized \in DOMAIN chain
           /\ chain[finalized].epoch = chain[i].epoch - 2
           /\ chain[finalized + 1].epoch > chain[i].epoch - 2

-----------------------------------------------------------------------------
(***************************************************************************)
(* The HTTP readers.                                                       *)
(***************************************************************************)

(***************************************************************************)
(* The endpoints tell one story: the head of the block list is the tip,    *)
(* the list has no holes, each of its blocks is found under its height     *)
(* with the same hash, and the block a lookup names is in the list, holds  *)
(* the transaction and has a receipt for it.                               *)
(***************************************************************************)
EndpointsAgree ==
    /\ tipHeight > 0 =>
           /\ GetBlocks # <<>>
           /\ GetBlocks[1].height = GetDebug.tipHeight
           /\ GetBlocks[1].hash = tipHash
    /\ \A i \in DOMAIN GetBlocks :
           LET entry == GetBlocks[i]
               answer == GetBlockByHeight(entry.height)
           IN  /\ i > 1 => entry.height = GetBlocks[i - 1].height - 1
               /\ answer.found
               /\ BlockListEntry(answer.block) = entry
    /\ \A t \in Tx : GetTxById(t).location = "block" =>
           LET answer == GetBlockByHeight(GetTxById(t).block.height)
           IN  answer.found /\ t \in answer.block.txs /\ GetReceiptById(t).found

(***************************************************************************)
(* A lookup never goes back: while it answers with a block, that is never  *)
(* an older one than before, and what it called final stays final unless   *)
(* the transaction is included a second time.                              *)
(***************************************************************************)
FoundInBlock(t) == GetTxById(t).location = "block"

ReportedFinalStays ==
    [][\A t \in Tx : FoundInBlock(t) /\ FoundInBlock(t)' =>
          LET before == GetTxById(t).block
              after == GetTxById(t)'.block
          IN  /\ after.height >= before.height
              /\ after.height = before.height /\ before.finalized => after.finalized]_vars

(***************************************************************************)
(* With a producer that misses no slot, and a buffer of at least two       *)
(* epochs less a slot, a block is final before it leaves the buffer: a     *)
(* caller who keeps asking for a transaction learns that it is final.      *)
(***************************************************************************)
LeavesBufferFinalized ==
    \A i \in 1 .. (Len(chain) - Len(blocks)) : chain[i].height <= finalized

(***************************************************************************)
(* The clock that a request makes for itself, aligned to another slot than *)
(* the producer's, still points to the moment the producer will wake.      *)
(***************************************************************************)
HintIsWakeTime ==
    ppc = "sleep" /\ now < wakeAt => TimeToNextSlot = (wakeAt - now) * 1000

-----------------------------------------------------------------------------
(***************************************************************************)
(* Peers and their streams.                                                *)
(***************************************************************************)

(***************************************************************************)
(* An entry of the peers map belongs to a connection whose handler has     *)
(* registered it and not yet cleaned up, and is filed under the node id    *)
(* that connection proved, also when a node id connects twice.             *)
(***************************************************************************)
EntriesAreLive ==
    \A n \in NodeId : peers[n] # NoConn =>
        NodeOf[peers[n]] = n /\ conn[peers[n]] \in {"open", "ended"}

(***************************************************************************)
(* When no two connections share a node id, a registered connection stays  *)
(* reachable until its own handler cleans up, whatever others do.          *)
(***************************************************************************)
OpenIsRegistered ==
    \A c \in Conn : conn[c] \in {"open", "ended"} => peers[NodeOf[c]] = c

IsType(m, type) == m.type = type

(***************************************************************************)
(* In every stream the announced transactions of one sender come in nonce  *)
(* order, so a receiver that applies the same nonce policy never refuses   *)
(* one for its nonce.                                                      *)
(***************************************************************************)
AnnouncedInNonceOrder ==
    \A c \in Conn : \A i, j \in DOMAIN chan[c] :
        /\ i < j
        /\ IsType(chan[c][i], "TxAnnounce")
        /\ IsType(chan[c][j], "TxAnnounce")
        /\ From[chan[c][i].tx] = From[chan[c][j].tx]
        => Nonce[chan[c][i].tx] <= Nonce[chan[c][j].tx]

(***************************************************************************)
(* What a submitter is told is so: behind an `ok` there is an accepted     *)
(* transaction, and one that was refused is badly signed, has expired, or  *)
(* came after one of the same sender with a larger nonce (most submissions *)
(* of a client do, its nonces being random).                               *)
(***************************************************************************)
Overtaken(t) == \E u \in pool.seen : From[u] = From[t] /\ Nonce[u] > Nonce[t]

AckIsTruthful ==
    \A c \in Conn : \A i \in DOMAIN chan[c] :
        IsType(chan[c][i], "TxAck") =>
            LET t == chan[c][i].tx
            IN  IF chan[c][i].ok THEN t \in pool.seen
                ELSE t \notin WellSigned \/ Expiry[t] < now \/ Overtaken(t)

(***************************************************************************)
(* The blocks of a stream are consecutive blocks of the chain, from the    *)
(* first one after the peer registered: a broadcast skips no peer it       *)
(* should reach, whoever else disconnects meanwhile, and a connection that *)
(* loses its entry to another gets none that would leave a hole.           *)
(***************************************************************************)
BlockPositions(c) == {i \in DOMAIN chan[c] : IsType(chan[c][i], "NewBlock")}

StreamIsContiguous ==
    \A c \in Conn : \A i, j \in BlockPositions(c) :
        /\ i < j
        /\ ~ \E k \in BlockPositions(c) : i < k /\ k < j
        => /\ chan[c][j].block.height = chan[c][i].block.height + 1
           /\ chan[c][j].block.parent = HeaderHash(chan[c][i].block)

\* t was announced on c and no block put on c since contains it.
LeftPending(c, t) ==
    \E i \in DOMAIN chan[c] :
        /\ chan[c][i] = TxAnnounce(t)
        /\ \A j \in BlockPositions(c) : j > i => t \notin chan[c][j].block.txs

\* The block in the producer's hands has still to reach c.
BlockStillDue(c) ==
    \/ ppc \in {"commit", "snapshot"}
    \/ ppc = "broadcast" /\ c \in targets

(***************************************************************************)
(* A transaction that a registered peer's stream leaves pending is still   *)
(* in the server's pool, was evicted from it, or is in a block on its way  *)
(* to that peer: a peer's mempool keeps no included transaction.           *)
(***************************************************************************)
PendingAtPeerIsPending ==
    \A c \in Registered, t \in Tx :
        LeftPending(c, t) =>
            \/ t \in pool.byId
            \/ t \in evicted
            \/ t \in draft.txs /\ BlockStillDue(c)

-----------------------------------------------------------------------------
(***************************************************************************)
(* Progress.                                                               *)
(***************************************************************************)

(***************************************************************************)
(* Every transaction in the pool ends up in a block or is evicted, when    *)
(* requests stop early enough for the producer to catch up.                *)
(***************************************************************************)
Included(t) == \E i \in DOMAIN chain : t \in chain[i].txs

PooledIsIncluded ==
    \A t \in Tx : t \in pool.byId ~> t \notin pool.byId /\ (Included(t) \/ t \in evicted)

=============================================================================
