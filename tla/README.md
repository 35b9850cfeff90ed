# A TLA+ model of rust-dist-network-demo

The repository is a small proof-of-authority network: one node listens
(`run_server`), keeps a mempool and a chain tip, serves an HTTP API and makes
one block per 30-second slot; other nodes connect to it (`run_client`), prove
their identity, submit transactions, and follow the announced transactions and
blocks. Much of `main.rs`, `net/server.rs` and `net/client.rs` is commented-out
older versions; everything here is about the active code. The repository has no
tests, so the code and its comments are the only reference.

Contents: [the system](#the-system), [modules](#the-modules-and-the-code),
[runs](#the-runs), [fairness](#fairness), [findings](#what-the-code-does-against-its-own-words),
[proofs](#what-is-proved), [limits](#what-is-only-model-checked-and-what-is-not-modelled),
[plan](#plan).

## The system

| Part | State | Operations | Talks to |
|---|---|---|---|
| Slot clock, `consensus/clock.rs` | `genesis` | `slot_of`, `epoch_of_slot`, `slot_in_epoch`, `next_slot_start`, `sleep_until` | read by producer, HTTP, client |
| Mempool, `rpc/mempool.rs` | `by_id`, `seen`, `max_seen_nonce`, `capacity` | `insert_if_new`, `drain_block` | one in the server's `State`, one in every client |
| Server `State`, `net/server.rs` | `peers`, `txs`, `tip_hash`, `tip_height`, `finalized_height`, `blocks`, behind one `RwLock` | the tasks below | all of them |
| HTTP API, `net/server.rs` | none | `post_tx` writes; seven readers | `State`, channels of all peers |
| Block producer, `net/server.rs` | locals between its three lock guards | sleep, drain + read tip, commit, snapshot peers, broadcast | `State`, channels |
| Connection handler, `net/server.rs` | handshake locals; a reader task, a writer task and an unbounded channel | handshake, register, `TxSubmit`, `TxAnnounce`, `App`, cleanup | `State`, channels, socket |
| Client, `net/client.rs` | own mempool, `tip_height`, `finalized_height` | handshake, `select!` between stdin and the socket, `on_new_block` | socket |
| Framing, `io.rs` | the `BufReader` | `send`, `recv` | socket |
| Identity, `crypto.rs` | keys | `node_id`, `sign_nonce`, `verify_identity` | handshake on both sides |
| Chain types, `chain/types.rs` | none | `header_hash`, `list_root_hex` | producer, client |
| Transactions, `rpc/types.rs` | none | `canonical_bytes`, `tx_id`, `sign_tx`, `verify_tx` | mempool, client, HTTP |

**How they interact.** All of the server's tasks share one `State` behind a
`tokio::sync::RwLock`; a lock guard is the unit of atomicity. A message to a peer
is put into that peer's unbounded channel while a guard is held (HTTP, reader
tasks) or after it was released (producer); a writer task per connection drains
the channel to the socket. The channel closes when its last sender is dropped:
the handler's own, the one in the `peers` map, and the clones the producer took
for a broadcast. A client is one loop that selects between its terminal and
the socket.

**What is hard, and what makes each part correct.**

* *Mempool.* Duplicates are recognised by `by_id` alone, `seen` is written and
  never read, eviction picks an arbitrary entry, and `max_seen_nonce` outlives
  what raised it. It must keep its capacity, its nonce memory must be exact, and
  what may come back after it has left must be limited.
* *Producer.* A pass is cut by two write guards, a read guard for the snapshot,
  and sends without a lock. Between them other tasks insert, register and leave,
  and the task may be arbitrarily late. There must be one chain, at most one
  block per slot, no lost transaction, and a stream to every peer without holes.
* *Finality.* Computed from a block's slot at epoch boundaries, compared with
  heights. It must never go back, and trail the chain.
* *Connections.* The `peers` map is keyed by node id while handlers are per
  connection, and cleanup removes by id. Entries must be live; a handler must
  end and release what it held.
* *Client.* It must end up with the mempool, tip and finality its stream implies,
  from whatever moment it joined.
* *Framing.* `read_line` inside `select!` is not cancellation safe; messages are
  cut anywhere and may break off.
* *Handshake.* Four messages without a timeout: the two ends must never wait for
  each other.

## The modules and the code

| Module | Extends | What it is |
|---|---|---|
| `SlotClock` | | slot arithmetic and the finality rule, as operators |
| `TxStore` | | the mempool: `insert_if_new`, `drain_block` as operators on a store |
| `Server` | `SlotClock`, `TxStore` | the listening node: `State`, producer, HTTP submission, handlers, time |
| `Http` | `Server` | what the readers of the HTTP API answer in a state |
| `ServerProps` | `Http` | the server's properties |
| `Ledger` | | what the node promises a submitter, abstractly |
| `ServerLedger` | `ServerProps` | the refinement mapping: `Server` implements `Ledger` |
| `Network` | `ServerProps` | the server with its clients: each follows the stream of its connection |
| `Connection` | | the life of connections at both ends: handshake, tasks, channel, close |
| `Framing` | | one direction of the byte stream, `send`, `recv` and the loop around `recv` |
| `TxEncoding` | | `canonical_bytes`, `tx_id`, `sign_tx`, `verify_tx` and who calls them |
| `ListRoot` | | `list_root_hex` |
| `MCServer`, `MCNetwork`, `MCConnection`, `MCTxEncoding` | | constant values for TLC |
| `Facts` | | lemmas on division, on smallest and largest numbers, on recursive functions and on cutting sequences, which name nothing of the system |
| `ServerProofs` | `ServerLedger`, `Facts` | operators of the clock and the store; types, chain, finality, pool, peers; the refinement |
| `ChainProofs` | `ServerProofs` | buffer, lookups, expiry, the hint, finality in time |
| `NetworkProofs` | `Network`, `ServerProofs` | answers, announcements and blocks in the channels; the clients' mempools, tips and finality |
| `ConnectionProofs` | `Connection` | the end of a handler, the handshake, the requests |
| `FramingProofs` | `Framing`, `Facts` | the stream and its lines |
| `TxEncodingProofs` | `TxEncoding`, `Facts` | signatures and ids |
| `ListRootProofs` | `ListRoot`, `Facts` | the loop and the tree |

### `SlotClock` and `TxStore`

Time is in whole seconds, as `now_secs()` has it. `AlignedGenesis`, `SlotOf`,
`EpochOfSlot`, `SlotInEpoch`, `NextSlotStart` are the methods of `SlotClock`;
`FinalityAfter` is the finality rule, which the producer (`server.rs:1155`) and
`on_new_block` (`client.rs:293`) both spell out. The code's 30 seconds and 32 slots
are the constants `SlotSeconds`, `EpochSlots`.

A store is a record of `byId`, `seen` and `maxNonce`. A transaction is an element of
`Tx` with its sender `From`, `Nonce`, `Expiry` and whether it is `WellSigned`; it
stands for its own `tx_id`. The three outcomes of `insert_if_new` are
`Refuses` (bad signature, expired, nonce too low), `Knows` (already in `by_id`) and
`Admits`; `Insert` is the change the last makes, with the evicted entry chosen
freely among `Evictable`, as a `HashMap`'s key order is arbitrary. `Drainable` is the
free choice `drain_block` makes.

### `Server`

| Code | Actions |
|---|---|
| `post_tx` | `PostTx` |
| reader task: `TxSubmit`, `TxAnnounce`, `App` | `OnTxSubmit`, `OnTxAnnounce`, `OnApp` |
| handler: handshake fails / entry inserted / reader ends / cleanup | `HandshakeFails`, `Register`, `ReaderEnds`, `Cleanup` |
| producer: arm the sleep, wake, first guard, second guard, read guard, each send, end of the pass | `Arm`, `Wake`, `Propose`, `Commit`, `Snapshot`, `SendBlock`, `EndBroadcast` |
| wall clock | `Tick` |

`ppc`, `wakeAt`, `draft`, `targets` are the producer's program counter and locals.
`chan[c]` is the history of connection `c`'s channel, hence of its stream;
`chain` and `evicted` are history variables that no action reads: all blocks ever
committed, all transactions ever evicted. A header hash is the pair of height and slot, which tells
any two headers of one node apart; that a header also fixes its transactions is
what `ListRoot` is about. Requests are counted (`MaxRequests`) and may be cut off at
`SubmitDeadline`; time stops at `MaxTime`.

### `Http`

Every reader takes one read guard, so its answer is a function of the `State`:
`GetMempool`, `GetBlocks` (newest first), `GetBlockByHeight`, `GetTxById` (mempool
first, then the buffer from its newest block back), `GetReceiptById`, `GetDebug`.
`post_tx` and `get_debug` make a `SlotClock` for the request, aligned to the current slot;
`TimeToNextSlot` is the hint it gives, while the slot and epoch that `get_debug`
reports are those of that fresh clock, hence always 0, not the producer's.
Receipts carry a status that is always success; the JSON is left out.

### `Ledger` and `ServerLedger`

`Ledger` knows no tasks, locks, peers or clock. `accepted` is every transaction ever
accepted, `pending[t]` how many times `t` is pending, `ledger` the sequence of the
blocks' transaction sets. `Accept` adds a transaction that is its sender's latest and may
evict one when `Capacity` are pending; `Include` moves at most `MaxTxsPerBlock` pending
ones into a new block. The mapping counts a transaction as pending when it is in the
pool and once more when the producer has drained it and not committed it: in that
window it can be accepted again, and then be included a second time. `Propose`
and everything about connections, time and finality is a stutter, `Commit` is
`Include`, and every path through `insert_if_new` that inserts is `Accept`.

### `Network`

`cpool`, `ctip`, `cfinal`, `cread` are the locals of `run_client` and its place in the
stream. `ClientOnTxAnnounce`, `ClientOnNewBlock` (`on_new_block`: prune, tip,
finality) and `ClientOnOther` are the arms of its `match`. What a client types
arrives as `OnTxSubmit` and `OnApp` of `Server` at any time. Hash and signature
checks of a block succeed: the blocks are those of the authenticated server.

### `Connection`

The state is where each task is (`handler`, `reader`, `writer`, `client`), the two
directions of the socket, the channel's `queue`, and who holds a sender of it
(`txHeld`, `peers`, `held`). `VerifyIdentity` binds node id, key and the nonce of this
connection; keys and signatures are symbolic. A client makes a fresh key pair
per run, but a peer may use one key on two connections: `keyOf` is chosen at the start
among `KeyChoices`. A request may be sent before the server has registered the client.
The client may fall silent or leave at any point, also during the handshake, and a reader may
end at any point; every read that finds the other end gone takes its error path.

### `Framing`

A message is a few *units*, the last one its newline, since `send` writes JSON and newline
with two `write_all`. `written`, `arrived`, `taken` count the units that have left
the sender, reached the receiver, and been taken by `read_line`; `start` is where the
line of the `recv` in progress began. `TakePart`, `TakeLine`, `TakeEnd` are a poll of
`recv`; `TypeLine` is the terminal's branch of `select!` winning, which drops the
`recv` future: `start` moves to `taken`, and what lay between is gone (`dropped`
remembers that it happened). The server's reader task is the behaviours without
`TypeLine` and `EndInput`.

### `TxEncoding`

A transaction is a record of the fields that are signed; bytes are digits to the base
`Base`, and integers have a fixed number of them, as `to_be_bytes` has: `U32`, `U64` and `U128`
are the widths, `KeyLen` that of a public key. `Rest(n)[k]` is what is left of a number after its
`k` last digits, and `Fits` says that it has no more of them than its width.
`CanonicalBytes` concatenates the fields
without separators, `to` and the payload with their own lengths. A digest is what
it is of and a signature the pair of key and bytes. `MakeMessage` is what the
node and its clients build (`to` empty, value 0), `MakeTransfer` what a wallet
sends in the `tx` form of `post_tx`. `TxStore` takes a transaction for its own id and for well signed or
not; this module is why it may.

### `ListRoot`

`Combine` is one pass of the loop over `layer.chunks(2)`, `NextLayer` and `Return` the
loop. Digests are terms. `Reference` defines the same tree from the top down: on level `l` the node at
place `i` covers the `i`-th `TwoTo[l]` ids, `Places` are the nodes that cover any, `Levels` their digests
and `Depth` the lowest level with a single one.

## The runs

Every configuration gives constants their values and nothing else. All runs check for deadlock;
where a behaviour really ends (time's horizon, a receiver that has left its loop) a
stuttering disjunct of `Next` says so.

| Run | What varies | What it shows |
|---|---|---|
| `mempool` | 4 transactions of 2 keys, one badly signed, one that expires; pool of 2; 1 per block; buffer of 3; a producer of any delay | `PoolWithinCapacity`, `MaxNonceExact`; `AcceptedIsAccountedFor`: what a lookup does not find was evicted, is between the two guards, or is in a block that left the buffer; `ReadmitsOnlyLatestNonce`; `ExpiredIsLastInclusion`: what expired while pending is included once more at most; `EndpointsAgree` and `ReportedFinalStays`: the endpoints do not contradict one another, nor what they said before; `ImplementsLedger`: every step is one of `Ledger` or a stutter |
| `finality` | producer delayed at will, started at and between slot boundaries, over 4 epochs of 2 slots; a client that joins and reads at any time | `ChainIsLinked`, `BlocksAreRecent`, `FinalityTrailsSlots`, `FinalityNeverRetreats`; `HintIsWakeTime`: the clock of a request points to the moment the producer wakes; `ClientAgreesOnFinality`: the client's finality is the server's at the client's tip, or none |
| `finality_doc` (violated) | no slot missed, 5 epochs of 3 slots | the comment about the last block of epoch - 2 is off by one |
| `gossip` | 2 peers with their own ids, 3 requests by HTTP or peers, a pool of 1, a block | `TypeOK`, `OpenIsRegistered`, `AnnouncedInNonceOrder`, `PendingAtPeerIsPending`; `AckIsTruthful`: what a submitter is told is so |
| `broadcast` | 3 connections, two with one id, 2 to 3 broadcasts | `EntriesAreLive`, `StreamIsContiguous` |
| `progress` | no slot missed, past the boundary of epoch 2; buffer of 2 epochs less a slot; 2 transactions, one connection, fairness | `FinalityBehindTip`: slots and heights run together, so what is final exists and is an epoch below the tip; `LeavesBufferFinalized`: a block is final before it leaves the buffer; `PooledIsIncluded` |
| `client` | one client that reads at any pace, pools of 1, 2 transactions of a key, fairness | `ClientPoolIsPending`, `BroadcastArrives`, `ClientPoolDrains` |
| `framing` | 4 messages of 3 units, sender breaks off and user types anywhere, fairness | `HandledInOrder`, `BadLineIsTruncation`, `SentIsHandled` |
| `framing_typing` (violated) | 2 messages, typing | typing can end the client |
| `connection` | 2 connections with one key or two, silent, slow or leaving clients, a request, a broadcast, fairness | `DoneIsReleased`, `CleanClose`, `HandshakeCompletes`, `HandlerFinishes`, `RequestsAreAnswered`, `BroadcastEnds` |
| `tx_encoding` | 2 transactions out of 2 keys, 3 nonces, 4 payloads of 0 to 2 bytes, 2 addresses and amounts, 5 seconds | `VerifiesWhileItLives`: what `sign_tx` made verifies for its time to live and no longer; `IdIsIdentity`: two of them have different ids when `to` has one length |
| `list_root` | every list of at most 5 of 5 ids | `RootIsReference`, `RootIdentifiesList` |

**Bounds and why they suffice.**

* *Time.* One- or two-second slots and epochs of one to three slots replace 30 and 32. What
  matters about a slot is that time can pass inside it (hence two seconds where
  delays are the question) and about an epoch that it has a boundary and, for the
  off-by-one, a slot that is neither first nor last (hence three). Finality first
  moves at the boundary of epoch 2; `finality` passes the next one too, and
  `finality_doc` three.
* *Pool.* A capacity below the number of transactions, so that eviction happens,
  and one transaction per block, so that a drain leaves something behind. Five
  requests over four transactions leave room for a resubmission after inclusion,
  and after eviction.
* *Buffer.* Two or three blocks, fewer than the chain reaches. `progress` has the
  smallest for which `LeavesBufferFinalized` is true, two epochs less a slot; the code's 256 is
  far above its 63.
* *Connections.* Two are enough for a disturbance of one by another, one for a client and its
  stream; the third in `broadcast` is the second holder of an id beside a bystander.
* *Framing.* Three units are the least with a cut inside the JSON and one before
  the newline; with four messages, one can be lost with others on either side.
* *Encoding.* Base 2, one digit for a `u32` and a key, two for a `u128` and three for a `u64`, which the
  latest expiry fills. Keys, payloads and addresses are made of the same two digits, so
  encodings would coincide were a field shortened or left out; two transactions are what an id can confuse.
* *List root.* Five leaves give odd layers on two levels (5, 3, 2, 1).

In `gossip` the two peers are interchangeable together with their ids, and its
symmetry set swaps both at once; it checks no liveness.

Every property of a passing run is known to fail when one definition of the model is
changed as a slip in the code would change it; those variants (`EvictableTooLate`,
`CommitStaleTip`, `DropTxLater`, ...) stand beside the definitions they vary, are
listed in `PROJECT.json`, and are used by nothing else.

## Fairness

* `Server!Fairness`: the producer task is polled and its timer fires
  (`WF(Producer)`), and the clock runs (`WF(Tick)`). Nothing is
  assumed of callers and peers, who need never submit, connect or leave. `drain_block`'s choice is not fair:
  `PooledIsIncluded` holds because submissions stop early enough for every entry to fit into the blocks
  that follow, and the run says so with `SubmitDeadline`.
* `Network!FairNetSpec` adds that a client handles what has reached it. Deliveries are
  part of that step; a connection that dies instead is `conn[c] # "open"`.
* `Connection!FairSpec`: the server's own tasks are polled (handler, reader, the writer's
  exit, the producer's sends). Nobody must type, leave, speak or read. Where a property needs a client
  that speaks when it should and reads what is written, that is its antecedent: `Attentive(c)` in
  `HandshakeCompletes` and `RequestsAreAnswered`, `WF(WriterStep(c))` in `HandlerFinishes`, since no
  read of the handshake and no write has a time limit. `BroadcastEnds` needs no one to read, the channel being unbounded.
* `Framing!FairSpec`: the sender writes on, the network delivers, `recv` is polled.
  Closing and typing are never fair.

## What the code does against its own words

* **Finality is one block later than its comment** (`finality_doc`). `server.rs:1155`
  says "finalize at epoch boundaries: finalize last block of (epoch - 2)". The code
  sets `finalized_height = (epoch - 2 + 1) * EPOCH_SLOTS`. The first block is that of
  slot 1, so with no slot missed the block at that height has slot
  `(epoch - 1) * EPOCH_SLOTS`, the first of epoch - 1. With missed slots, heights fall
  behind slots and the finalized height may name a block that does not exist yet
  (which is why `FinalityBehindTip` is checked with a prompt producer only; the other
  finality properties hold with any).
* **Typing can end the client** (`framing_typing`). `run_client` awaits `recv` as a
  branch of `tokio::select!`; `recv` uses `read_line`, which loses what it has read
  when its future is dropped. A line typed while a message has arrived in part makes
  the rest of that message a bad line, and the client leaves its loop with the
  connection intact, although all that `client.rs:217` says of typing is that it sends.
  `framing` shows the other side: what is handled is still an ordered prefix.

## What is proved

TLAPS checks the following for every value of the constants that satisfies the
assumptions of the modules: `SlotClockAssumption`, `TxStoreAssumption` and `ServerAssumption` (positive
slot and epoch lengths, a positive capacity and buffer, functions of the right type, an absent entry that is no
connection), `ConnectionAssumption` (the same of its constants), `FramingAssumption` (a message of at least two units),
`TxEncodingAssumption` (a base of at least two, keys of one length, and that nonces, amounts and times fit
into their integers, which Rust's types ensure) and `ListRootAssumption` (a natural bound on the
length of a list). All are theorems of the
specification without fairness. The first table has every invariant and every action property that a run
checks, and the refinement.

| Module | Theorem | Statement |
|---|---|---|
| `ServerProofs` | `TypeCorrect` | `[]TypeOK` |
| | `ChainCorrect` | `[](ChainIsLinked /\ DraftExtendsTip)` |
| | `FinalityTrails` | `[]FinalityTrailsSlots` |
| | `FinalityMonotone` | `FinalityNeverRetreats` |
| | `PoolCorrect` | `[]PoolWithinCapacity` |
| | `NonceCorrect` | `[]MaxNonceExact` |
| | `ReadmissionCorrect` | `ReadmitsOnlyLatestNonce` |
| | `PeersCorrect` | `[]EntriesAreLive` |
| | `RegistrationCorrect` | with own node ids, `[]OpenIsRegistered` |
| | `LedgerImplemented` | `ImplementsLedger` |
| `ChainProofs` | `BufferCorrect` | `[]BlocksAreRecent` |
| | `NothingIsLost` | `[]AcceptedIsAccountedFor` |
| | `EndpointsCorrect` | `[]EndpointsAgree` |
| | `ReportsCorrect` | `ReportedFinalStays` |
| | `ExpiryCorrect` | `[]ExpiredIsLastInclusion` |
| | `HintCorrect` | `[]HintIsWakeTime` |
| | `FinalityInChain` | with a prompt producer, `[]FinalityBehindTip` |
| | `FinalBeforeItLeaves` | with a prompt producer and a buffer of two epochs less a slot, `[]LeavesBufferFinalized` |
| `NetworkProofs` | `AnswersCorrect` | `[]AckIsTruthful` |
| | `OrderCorrect` | `[]AnnouncedInNonceOrder` |
| | `StreamsCorrect` | `[]StreamIsContiguous` |
| | `PendingCorrect` | `[]PendingAtPeerIsPending` |
| | `ClientPoolsCorrect` | `NetSpec => []ClientPoolIsPending` |
| | `ClientFinalityCorrect` | `NetSpec => []ClientAgreesOnFinality` |
| `ConnectionProofs` | `ReleaseCorrect`, `CloseCorrect` | `[]DoneIsReleased`, `[]CleanClose` |
| `FramingProofs` | `OrderOfMessages`, `BadLines` | `[]HandledInOrder`, `[]BadLineIsTruncation` |
| `TxEncodingProofs` | `SignedVerifies`, `IdIdentifies` | `[]VerifiesWhileItLives`, `[]IdIsIdentity` |
| `ListRootProofs` | `ReturnsReference`, `RootIdentifies` | `[]RootIsReference`, `[]RootIdentifiesList` |

The second table has what the liveness properties of `connection` and `framing` rest on besides fairness: that
nobody waits in vain, and that nothing is lost on the way. No run lists these; the instances of those two
runs satisfy them too.

| Module | Theorem | Statement | Behind |
|---|---|---|---|
| `ConnectionProofs` | `HandshakeCorrect` | `[]HandshakeNeverStuck`: one of the two ends can always go on, a client in its loop was verified, no handler gives up on a client that stays | `HandshakeCompletes` |
| | `NobodyRejected` | `NobodyIsRejected`: nothing that reaches a client makes it give up | `HandshakeCompletes` |
| | `HandlerCorrect` | `[]HandlerNeverStuck`: the writer that a handler waits for has ended, has something to write, or finds its channel closed once the producer lets go | `HandlerFinishes` |
| | `RequestsKept` | `[]RequestsAreKept`: with an id of its own, a client has asked as many requests as are on the wire, answered in its channel, answered on the wire, or read | `RequestsAreAnswered` |
| `FramingProofs` | `WholeMessages` | `[]WholeIsHandled`: unless a recv was dropped with a part, what was taken whole is handled, and all that was sent whole once the stream ends the loop | `SentIsHandled` |

*The chain.* That slots strictly increase is not inductive: it depends on where the
producer is between two blocks. `SlotInv` adds that the last block's slot has begun,
that a sleeping producer wakes no earlier than the slot after it, and that a draft's
slot lies after the last block's and has begun. The step from sleeping to drafting is
arithmetic with `%` and `\div` by a constant that is not a literal, which no backend
does unaided: `Facts` has the division lemmas, and `ServerProofs` shows from them that
`next_slot_start` is the start of a later slot, that `slot_of` is monotone, and that
the finality rule returns what was final before or exactly `slot - EpochSlots`, in either case
not less than before. `ChainInv` is the conjunction; `FinalityMonotone` follows from it
and from the fact that `Commit` alone writes `finalized_height`.

*The pool.* The first lemmas of `ServerProofs` show what `Insert` and `Drain` preserve: finiteness,
capacity (by `Cardinality` of a set with one element removed and one added) and the
exact nonce memory. `PoolInv` is inductive with the type invariant, because every action either
leaves the pool alone, inserts, or drains. `ReadmissionCorrect` then follows from the
guard of an insertion, read with `MaxNonceExact`.

*Peers.* `EntriesAreLive` is inductive with the type invariant; `OpenIsRegistered` needs that node ids
are not shared, and is false otherwise: the cleanup of one connection then removes
the entry of another.

*The ledger.* `LedgerInv` is `PoolInv` and that the producer holds a finite set of at
most `MaxTxsPerBlock` transactions. An insertion maps to `Accept`: that the transaction
is its sender's latest is `MaxNonceExact` again, and that eviction happens only with
`Capacity` pending follows because the pool is part of what is pending. `Commit` maps to
`Include`, and `Propose` moves transactions between the two parts of `Copies` and so
changes nothing. `Tx` need not be finite: what the pool and the producer hold is.

*The buffer and the lookups.* `BufferInv` says position by position that the buffer is the end of
the chain (`Tracks`), which an append and the removal of the oldest keep. `AccountInv` says that what was accepted is in
the pool, evicted, in flight or committed. `LookupInv` is `BufferInv` with `ChainInv`, so that heights are positions; the largest
position of a transaction, which a lookup names, exists because the positions are a bounded
set of naturals (the library's minimum of a well-founded order).

*The clock.* `ExpiryInv` says of every transaction in a draft or a block when its slot began against its expiry,
and that what has expired and left the pool is out of it for good; it needs that slots follow the clock. `HintInv` says that the
producer's wake time lies on the grid of slot starts and is the next one after now. `PromptInv` is what missing no
slot means: the last height is the current slot, or one less while the producer works, and
`finalized` is `FinalizedAt` of its epoch. From it `FinalityInChain` and `FinalBeforeItLeaves` are arithmetic on epochs.

*The channels.* `OneMessage` says that a step appends at most one message to a channel and what then happened to
the store. `AnswerInv` adds that the pool is among what was seen, `OrderInv` that what was announced was seen (so that a newcomer, which passed the nonce
policy, has no smaller nonce than any announcement of its sender), `FreshInv` that only a registered connection is sent anything, and that a broadcast's targets are registered
ones. `StreamInv` says of every stream that its blocks follow one another, and of a registered one that it ends
with the tip, or with the block before while the broadcast of the tip is due. A target that loses its entry during a broadcast
still gets that block, so it is followed to the end of the broadcast; after it nothing is sent there.
`PendingInv` every announcement that no later block of the stream settles to the pool, the evictions and the draft.
`ClientInv` says that what a client holds was announced in the part it has read and not
included since, so that with `PendingInv` it is pending, evicted, or in a block still to be sent or read.

*The client's finality.* The height that is final after block `h` is decided by the last epoch boundary at or below `h`, so
`FinalityAt` is defined by the largest boundary and not by recursion. `FinalityInv` says that `finalized` is the one of
the whole chain, which an append keeps because it changes no earlier boundary, and that no earlier one was higher.
`CommittedInv` says that every block in a channel is the chain's block of its height, and so is the draft from its commit to the end of its broadcast.
`TipInv` ties a client to the last block of the part of its stream it has read: its tip is that block's height and its finality the one
there, or 0 when no boundary has reached it. That a client skips no boundary between two blocks it reads is `StreamIsContiguous`.

*Connections.* `ConnInv` says which tasks run and which senders exist at each stage of a handler. The
channel can close only after the handler dropped its sender and its entry, and no producer holds a clone.
`TalkInv` lists the seven ways in which the places of the two ends and what is on the wire between them fit together
(`InStep`): the challenge, the identity and the two replies of the server are each due, on their way, or read. A writer can only add behind them.
`KeptInv` counts: a request leaves the wire when its answer enters the channel, provided that the asker's entry is its own
(`EntryInv`, which needs that no other client has its key) and that its writer has not ended (`CleanClose`).

*Framing.* `FramingInv`: while the receiver runs, the line being read starts in the message after the handled ones, at its
beginning unless a part was dropped, and has not ended; or the stream ended right before the last newline. Once the end of the
stream has ended the loop, all that was written is in whole messages that were handled. That a line
ends exactly where a message does is uniqueness of quotient and remainder.

*Ids and signatures.* `MadeInv` says of every transaction made that it is what `SignTx` returns for some arguments at some time that has
passed, hence signed over its own bytes, with fields that fit. `SignedVerifies` is then arithmetic. For `IdIdentifies`, all
fields but `to` and the payload have fixed lengths; with `to` of one length, equal encodings have payloads of one length too, so the
encodings can be cut at the same places (`Parted`, field by field), and a number that fits is determined by its digits (`BytesInjective`:
`Rest` is the same from the first digit on down to the number itself).

*The root of a list.* `LoopInv` says that the layer is a level of the tree: its digests are those of `Levels`, at places `1` to its
length, and all levels below have more than one node. `CombineClimbs` shows that a pass of the loop goes one level up, an odd last digest
included, and a level of one node is that of `Depth`. `RootIdentifies` goes down: two trees of one depth with one root have the
same nodes on every level (digests of pairs are injective), so the same ids at the bottom as far as both go, and lists that differ in length
would make the longer one repeat an id, which a block's list does not; two trees of different depth differ
because the shallower one meets the digest of a string where the other has that of a pair.

*Recursion.* A recursive function such as `Rest`, `TwoTo` or `Levels` is a choice of a function that satisfies its equation. `Facts` shows that
there is one (`Recursion`), so that the equation may be used; its argument is by the smallest counterexample, the induction theorems of the library
being out of reach.

## What is only model-checked, and what is not modelled

Only model-checked are the liveness properties (`PooledIsIncluded`, `BroadcastArrives`, `ClientPoolDrains`, `SentIsHandled`,
`HandshakeCompletes`, `HandlerFinishes`, `RequestsAreAnswered`, `BroadcastEnds`): they need fairness and
`ENABLED`, which the prover does not handle. The second table above is the part of them that it does.

Limits of what is shown. `IdIsIdentity` is about transactions whose `to` has one length: the encoding has neither a
separator nor a length before `to`, so the digits of one field can pass for the next one's otherwise.
`FinalityBehindTip` and `LeavesBufferFinalized` are about a producer that misses no slot; with missed slots
`finalized_height` may name a height that no block has yet. `OpenIsRegistered` and `RequestsAreAnswered` need ids
of their own, which clients that make their own keys have. `PromptProducer` is a constant of the model, not
something the code ensures.

Not modelled: `cli.rs` and `main.rs` (argument parsing and the choice of mode, no state); key files; JSON, hex and
base64; the layout of the HTTP answers; `ids_recent`, `MemberUp` and `MemberDown`, which nothing calls or
sends; the wall clock stepping back. An error of `accept` ends `run_server` and with it the node; the model has
a node that runs. The server's and the clients' clocks are one clock. Crashes of the server lose everything,
since nothing is persisted, so there is no recovery to model. A client does not reconnect.

## Plan

Done, the most important behaviour first: `SlotClock`, `TxStore`, `Server`; `Network`; `Framing`; `Connection`; `ListRoot`; `Ledger` and its
refinement; `Http`; `TxEncoding`; and theorems for every safety property that a run checks. To come:

1. The safety part of the remaining liveness properties, as for `Connection` and `Framing`: that a block always takes
   `MaxTxsPerBlock` pending transactions or all there are (`PooledIsIncluded`), and that a client which has read its whole stream
   holds nothing that the server has dropped or included (`ClientPoolDrains`, `BroadcastArrives`).
2. That `Connection` refines what `Server` assumes of a connection: registered once, never again after its cleanup, its channel written in order.
3. `MemberUp` and `MemberDown`, should the code start to send them.
