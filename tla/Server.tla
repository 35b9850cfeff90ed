------------------------------- MODULE Server --------------------------------
(***************************************************************************)
(* The listening node of src/net/server.rs: the State behind its RwLock,   *)
(* and the tasks that share it -- the block producer, the HTTP handlers,   *)
(* and one handler per TCP connection.                                     *)
(*                                                                         *)
(* One action is one stretch of a task in which no other task can touch    *)
(* the state: the body of a lock guard, or the code between two awaits.    *)
(* chan[c] is the whole history of the unbounded channel of connection c,  *)
(* so it is also the stream of messages its writer task puts on the wire   *)
(* after the handshake.                                                    *)
(***************************************************************************)
EXTENDS SlotClock, TxStore, Sequences

CONSTANTS
    NodeId,             \* node ids a peer may prove to own
    Conn,               \* accepted TCP connections
    NodeOf,             \* NodeOf[c]: the node id connection c authenticates
    NoConn,             \* the absent entry of the peers map
    BlockBuffer,        \* BLOCK_BUFFER, 256 in the code
    MaxTxsPerBlock,     \* MAX_TXS_PER_BLOCK, 100 in the code
    StartTimes,         \* times at which the node may start
    PromptProducer,     \* TRUE: the producer's own work takes no time
    MaxTime,            \* bound: time stops here
    MaxRequests,        \* bound: requests that change the state
    SubmitDeadline      \* bound: no request is served after this time

ASSUME ServerAssumption ==
    /\ NodeOf \in [Conn -> NodeId]
    /\ NoConn \notin Conn
    /\ BlockBuffer \in Nat \ {0}
    /\ MaxTxsPerBlock \in Nat \ {0}
    /\ StartTimes \subseteq Nat
    /\ PromptProducer \in BOOLEAN
    /\ MaxTime \in Nat
    /\ MaxRequests \in Nat
    /\ SubmitDeadline \in Nat

VARIABLES
    pool,       \* State::txs
    tipHash,    \* State::tip_hash
    tipHeight,  \* State::tip_height
    finalized,  \* State::finalized_height
    blocks,     \* State::blocks, oldest first
    peers,      \* State::peers: the connection whose channel each id has
    chan,       \* the messages put in each connection's channel, in order
    conn,       \* the stage of each connection's handler
    ppc,        \* where the block producer is
    wakeAt,     \* the slot start the producer sleeps until
    draft,      \* the block the producer is working on
    targets,    \* the channels the producer has still to send the block to
    genesis,    \* the producer's SlotClock
    now,        \* now_secs()
    requests,   \* bound: requests served so far that changed the state
    chain,      \* history: every block committed, oldest first
    evicted     \* history: every transaction evicted from a full pool

stateVars == <<pool, tipHash, tipHeight, finalized, blocks, peers>>
producerVars == <<ppc, wakeAt, draft, targets, genesis>>
chainVars == <<tipHash, tipHeight, finalized, blocks, chain>>
vars == <<pool, tipHash, tipHeight, finalized, blocks, peers, chan, conn, ppc,
          wakeAt, draft, targets, genesis, now, requests, chain, evicted>>

-----------------------------------------------------------------------------
(***************************************************************************)
(* Blocks.  The receipts of a block are a function of its transactions     *)
(* (one per transaction, in the same order, all successful), and the two   *)
(* roots digest the ids, so neither is a field of its own here.            *)
(*                                                                         *)
(* header_hash digests every field of the header.  Among the headers of    *)
(* one node the pair of height and slot tells any two apart.               *)
(***************************************************************************)
Hash == Nat \X Nat

Block == [height : Nat, slot : Nat, epoch : Nat, parent : Hash, txs : SUBSET Tx]

HeaderHash(b) == <<b.height, b.slot>>

GENESIS == <<0, 0>>

NoDraft == [height |-> 0, slot |-> 0, epoch |-> 0, parent |-> GENESIS, txs |-> {}]

(***************************************************************************)
(* The messages of src/protocol.rs that go through a connection's channel. *)
(***************************************************************************)
Ack == [type |-> "Ack"]
Peers(members) == [type |-> "Peers", members |-> members]
TxAck(t, ok) == [type |-> "TxAck", tx |-> t, ok |-> ok]
TxAnnounce(t) == [type |-> "TxAnnounce", tx |-> t]
NewBlock(b) == [type |-> "NewBlock", block |-> b]

Msg ==
    {Ack}
    \cup [type : {"Peers"}, members : SUBSET NodeId]
    \cup [type : {"TxAck"}, tx : Tx, ok : BOOLEAN]
    \cup [type : {"TxAnnounce"}, tx : Tx]
    \cup [type : {"NewBlock"}, block : Block]

ConnStage == {"handshake", "open", "ended", "closed"}
ProducerStage == {"arm", "sleep", "propose", "commit", "snapshot", "broadcast"}

\* The connections whose channels are in the peers map.
Registered == {peers[n] : n \in NodeId} \ {NoConn}

\* chan after m is put in the channel of every connection of S.
SentTo(S, m) == [c \in Conn |-> IF c \in S THEN Append(chan[c], m) ELSE chan[c]]

-----------------------------------------------------------------------------
Init ==
    /\ pool = EmptyStore
    /\ tipHash = GENESIS
    /\ tipHeight = 0
    /\ finalized = 0
    /\ blocks = <<>>
    /\ peers = [n \in NodeId |-> NoConn]
    /\ chan = [c \in Conn |-> <<>>]
    /\ conn = [c \in Conn |-> "handshake"]
    /\ ppc = "arm"
    /\ wakeAt = 0
    /\ draft = NoDraft
    /\ targets = {}
    /\ now \in StartTimes
    /\ genesis = AlignedGenesis(now)
    /\ requests = 0
    /\ chain = <<>>
    /\ evicted = {}

-----------------------------------------------------------------------------
(***************************************************************************)
(* insert_if_new on the server's pool.  The three outcomes exclude each    *)
(* other; only the last one changes the pool.                              *)
(***************************************************************************)
Refused(t) == Refuses(pool, t, now) /\ UNCHANGED <<pool, evicted>>

Known(t) == Knows(pool, t, now) /\ UNCHANGED <<pool, evicted>>

Inserted(t) ==
    /\ Admits(pool, t, now)
    /\ \E out \in Evictable(pool) :
           /\ pool' = Insert(pool, t, out)
           /\ evicted' = evicted \cup out

\* A request is served: the bounds, and what no request touches.
Serve ==
    /\ requests < MaxRequests
    /\ now <= SubmitDeadline
    /\ requests' = requests + 1
    /\ UNCHANGED <<chainVars, peers, conn, producerVars, now>>

(***************************************************************************)
(* POST /api/tx.  A refused or known transaction changes nothing.  A new   *)
(* one is announced to every peer while the write guard is still held.     *)
(* The `message` form of the body is a transaction the node signs itself.  *)
(***************************************************************************)
PostTx(t) ==
    /\ Inserted(t)
    /\ chan' = SentTo(Registered, TxAnnounce(t))
    /\ Serve

(***************************************************************************)
(* Msg::TxSubmit on connection c.  The answer goes to the channel the      *)
(* peers map holds for c's node id, if any, and a new transaction is       *)
(* announced to the channels of all the other ids.                         *)
(***************************************************************************)
Answer(c, m) == SentTo(Registered \cap {peers[NodeOf[c]]}, m)

OnTxSubmit(c, t) ==
    /\ conn[c] = "open"
    /\ \/ Refused(t) /\ chan' = Answer(c, TxAck(t, FALSE))
       \/ Known(t) /\ chan' = Answer(c, TxAck(t, TRUE))
       \/ /\ Inserted(t)
          /\ chan' = [d \in Conn |->
                         IF d = peers[NodeOf[c]] THEN Append(chan[d], TxAck(t, TRUE))
                         ELSE IF d \in Registered THEN Append(chan[d], TxAnnounce(t))
                         ELSE chan[d]]
    /\ Serve

(***************************************************************************)
(* Msg::TxAnnounce on connection c: inserted, answered to nobody.  The     *)
(* client of src/net/client.rs never sends one.                            *)
(***************************************************************************)
OnTxAnnounce(c, t) ==
    /\ conn[c] = "open"
    /\ Inserted(t)
    /\ UNCHANGED chan
    /\ Serve

\* Msg::App on connection c.
OnApp(c) ==
    /\ conn[c] = "open"
    /\ chan' = Answer(c, Ack)
    /\ UNCHANGED <<pool, evicted>>
    /\ Serve

-----------------------------------------------------------------------------
(***************************************************************************)
(* The life of a connection's handler.  Any error before registration      *)
(* returns from the handler; after it the handler waits for its reader     *)
(* task, whatever ends that task (end of stream, a bad line, a panic).     *)
(***************************************************************************)
HandshakeFails(c) ==
    /\ conn[c] = "handshake"
    /\ conn' = [conn EXCEPT ![c] = "closed"]
    /\ UNCHANGED <<stateVars, chan, producerVars, now, requests, chain, evicted>>

Register(c) ==
    /\ conn[c] = "handshake"
    /\ conn' = [conn EXCEPT ![c] = "open"]
    /\ peers' = [peers EXCEPT ![NodeOf[c]] = c]
    /\ chan' = [chan EXCEPT ![c] =
                   Append(@, Peers({n \in NodeId : peers[n] # NoConn} \cup {NodeOf[c]}))]
    /\ UNCHANGED <<pool, chainVars, producerVars, now, requests, evicted>>

ReaderEnds(c) ==
    /\ conn[c] = "open"
    /\ conn' = [conn EXCEPT ![c] = "ended"]
    /\ UNCHANGED <<stateVars, chan, producerVars, now, requests, chain, evicted>>

\* A cleanup that never takes the entry out.
CleanupLeavingEntry(c) ==
    /\ conn[c] = "ended"
    /\ conn' = [conn EXCEPT ![c] = "closed"]
    /\ UNCHANGED <<stateVars, chan, producerVars, now, requests, chain, evicted>>

\* A cleanup that drops every peer.
CleanupClearingPeers(c) ==
    /\ conn[c] = "ended"
    /\ conn' = [conn EXCEPT ![c] = "closed"]
    /\ peers' = [n \in NodeId |-> NoConn]
    /\ UNCHANGED <<pool, chan, chainVars, producerVars, now, requests, evicted>>

(***************************************************************************)
(* The entry is removed by node id, whichever connection it belongs to.    *)
(***************************************************************************)
Cleanup(c) ==
    /\ conn[c] = "ended"
    /\ conn' = [conn EXCEPT ![c] = "closed"]
    /\ peers' = [peers EXCEPT ![NodeOf[c]] = NoConn]
    /\ UNCHANGED <<pool, chan, chainVars, producerVars, now, requests, evicted>>

-----------------------------------------------------------------------------
(***************************************************************************)
(* run_block_producer, one pass of its loop.                               *)
(***************************************************************************)
Arm ==
    /\ ppc = "arm"
    /\ ppc' = "sleep"
    /\ wakeAt' = NextSlotStart(genesis, now)
    /\ UNCHANGED <<stateVars, chan, conn, draft, targets, genesis, now, requests,
                   chain, evicted>>

\* sleep_until has returned; the slot is read from the clock again.
Wake ==
    /\ ppc = "sleep"
    /\ now >= wakeAt
    /\ ppc' = "propose"
    /\ LET slot == SlotOf(genesis, now)
       IN  draft' = [NoDraft EXCEPT !.slot = slot, !.epoch = EpochOfSlot(slot)]
    /\ UNCHANGED <<stateVars, chan, conn, wakeAt, targets, genesis, now, requests,
                   chain, evicted>>

\* The first write guard: transactions leave the pool, the tip is read.
Propose ==
    /\ ppc = "propose"
    /\ ppc' = "commit"
    /\ \E S \in Drainable(pool, MaxTxsPerBlock) :
           /\ pool' = Drain(pool, S)
           /\ draft' = [draft EXCEPT !.height = tipHeight + 1,
                                     !.parent = tipHash,
                                     !.txs = S]
    /\ UNCHANGED <<chainVars, peers, chan, conn, wakeAt, targets, genesis, now,
                   requests, evicted>>

\* A buffer that drops its oldest block one block too early.
RecentAfterShort(recent, b) ==
    IF Len(recent) + 1 >= BlockBuffer THEN Tail(Append(recent, b)) ELSE Append(recent, b)

\* push_back, then pop_front when the buffer has overflowed.
RecentAfter(recent, b) ==
    IF Len(recent) + 1 > BlockBuffer THEN Tail(Append(recent, b)) ELSE Append(recent, b)

\* A commit that leaves the tip hash of the previous block.
CommitStaleTip ==
    /\ ppc = "commit"
    /\ ppc' = "snapshot"
    /\ tipHeight' = draft.height
    /\ blocks' = RecentAfter(blocks, draft)
    /\ finalized' = FinalityAfter(finalized, draft.slot)
    /\ chain' = Append(chain, draft)
    /\ UNCHANGED <<tipHash, pool, peers, chan, conn, wakeAt, draft, targets, genesis,
                   now, requests, evicted>>

\* The second write guard: tip, recent blocks, finality.
Commit ==
    /\ ppc = "commit"
    /\ ppc' = "snapshot"
    /\ tipHash' = HeaderHash(draft)
    /\ tipHeight' = draft.height
    /\ blocks' = RecentAfter(blocks, draft)
    /\ finalized' = FinalityAfter(finalized, draft.slot)
    /\ chain' = Append(chain, draft)
    /\ UNCHANGED <<pool, peers, chan, conn, wakeAt, draft, targets, genesis, now,
                   requests, evicted>>

\* The read guard: the channels of the peers of this moment.
Snapshot ==
    /\ ppc = "snapshot"
    /\ ppc' = "broadcast"
    /\ targets' = Registered
    /\ UNCHANGED <<stateVars, chan, conn, wakeAt, draft, genesis, now, requests,
                   chain, evicted>>

\* A broadcast that gives up at the first peer that has gone.
SendBlockOrStop(c) ==
    /\ ppc = "broadcast"
    /\ c \in targets
    /\ \/ conn[c] = "closed" /\ targets' = {} /\ UNCHANGED chan
       \/ /\ conn[c] # "closed"
          /\ targets' = targets \ {c}
          /\ chan' = SentTo({c}, NewBlock(draft))
    /\ UNCHANGED <<stateVars, conn, ppc, wakeAt, draft, genesis, now, requests,
                   chain, evicted>>

\* One send of the broadcast, with no lock held.
SendBlock(c) ==
    /\ ppc = "broadcast"
    /\ c \in targets
    /\ targets' = targets \ {c}
    /\ chan' = SentTo({c}, NewBlock(draft))
    /\ UNCHANGED <<stateVars, conn, ppc, wakeAt, draft, genesis, now, requests,
                   chain, evicted>>

EndBroadcast ==
    /\ ppc = "broadcast"
    /\ targets = {}
    /\ ppc' = "arm"
    /\ draft' = NoDraft
    /\ UNCHANGED <<stateVars, chan, conn, wakeAt, targets, genesis, now, requests,
                   chain, evicted>>

Producer ==
    \/ Arm
    \/ Wake
    \/ Propose
    \/ Commit
    \/ Snapshot
    \/ \E c \in Conn : SendBlock(c)
    \/ EndBroadcast

-----------------------------------------------------------------------------
(***************************************************************************)
(* A second passes.  The clock never steps back.  A prompt producer is     *)
(* asleep whenever time passes and is never woken late.                    *)
(***************************************************************************)
Tick ==
    /\ now < MaxTime
    /\ PromptProducer => ppc = "sleep" /\ now < wakeAt
    /\ now' = now + 1
    /\ UNCHANGED <<stateVars, chan, conn, producerVars, requests, chain, evicted>>

\* Bound: where time stops, a sleeping producer has nothing left to do.
Horizon ==
    /\ now = MaxTime
    /\ ppc = "sleep"
    /\ now < wakeAt
    /\ UNCHANGED vars

Next ==
    \/ \E t \in Tx : PostTx(t)
    \/ \E c \in Conn, t \in Tx : OnTxSubmit(c, t)
    \/ \E c \in Conn, t \in Tx : OnTxAnnounce(c, t)
    \/ \E c \in Conn : OnApp(c)
    \/ \E c \in Conn : HandshakeFails(c)
    \/ \E c \in Conn : Register(c)
    \/ \E c \in Conn : ReaderEnds(c)
    \/ \E c \in Conn : Cleanup(c)
    \/ Producer
    \/ Tick
    \/ Horizon

Spec == Init /\ [][Next]_vars

(***************************************************************************)
(* The runtime keeps polling the producer task, timers fire and the clock  *)
(* runs.  Nothing is assumed of peers, HTTP callers or connections.        *)
(***************************************************************************)
Fairness == WF_vars(Producer) /\ WF_vars(Tick)

FairSpec == Spec /\ Fairness

=============================================================================
