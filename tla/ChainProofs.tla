------------------------------ MODULE ChainProofs ------------------------------
(***************************************************************************)
(* What becomes of a block and of the transactions in it, for every buffer,*)
(* capacity, slot and epoch length, start time and delay of the producer:  *)
(* the buffer of recent blocks, what the HTTP endpoints can miss and what  *)
(* they report, expiry, the hint for the next slot, and what is final when *)
(* the producer misses no slot.                                            *)
(***************************************************************************)
EXTENDS ServerProofs

-----------------------------------------------------------------------------
(***************************************************************************)
(* The buffer.  `recent` is the newest end of the chain s, position by     *)
(* position.                                                               *)
(***************************************************************************)
Keep(n) == IF n < BlockBuffer THEN n ELSE BlockBuffer

Tracks(recent, s) ==
    /\ Len(recent) = Keep(Len(s))
    /\ \A i \in 1 .. Len(recent) : recent[i] = s[Len(s) - Len(recent) + i]

BufferInv == TypeOK /\ Tracks(blocks, chain)

\* Both grow by the same block.
LEMMA TracksAfter ==
    ASSUME NEW recent \in Seq(Block), NEW s \in Seq(Block), NEW b \in Block,
           Tracks(recent, s)
    PROVE  Tracks(RecentAfter(recent, b), Append(s, b))
  <1> DEFINE n == Len(s)
             k == Len(recent)
             longer == Append(recent, b)
             grown == Append(s, b)
  <1>1. n \in Nat /\ k \in Nat /\ k = Keep(n) /\ BlockBuffer \in Nat \ {0}
    BY ServerAssumption DEF Tracks
  <1>2. /\ Len(grown) = n + 1 /\ grown[n + 1] = b
        /\ \A i \in 1 .. n : grown[i] = s[i]
    OBVIOUS
  <1>3. /\ longer \in Seq(Block) /\ Len(longer) = k + 1 /\ longer[k + 1] = b
        /\ \A i \in 1 .. k : longer[i] = recent[i]
    OBVIOUS
  <1>4. \A i \in 1 .. k : recent[i] = s[n - k + i]
    BY DEF Tracks
  <1>5. \A i \in 1 .. (k + 1) : longer[i] = grown[n - k + i]
    <2> SUFFICES ASSUME NEW i \in 1 .. (k + 1) PROVE longer[i] = grown[n - k + i]
      OBVIOUS
    <2>1. k <= n
      BY <1>1 DEF Keep
    <2>2. CASE i \in 1 .. k
      <3>1. n - k + i \in 1 .. n
        BY <1>1, <2>1, <2>2
      <3>2. longer[i] = recent[i] /\ recent[i] = s[n - k + i]
        BY <1>3, <1>4, <2>2
      <3>3. grown[n - k + i] = s[n - k + i]
        BY <1>2, <3>1
      <3> QED
        BY <3>2, <3>3
    <2>3. CASE i = k + 1
      <3>1. n - k + i = n + 1
        BY <1>1, <2>3
      <3> QED
        BY <1>2, <1>3, <2>3, <3>1
    <2>4. i \in 1 .. k \/ i = k + 1
      BY <1>1
    <2> QED
      BY <2>2, <2>3, <2>4
  <1>6. CASE k + 1 > BlockBuffer
    <2>1. RecentAfter(recent, b) = Tail(longer) /\ longer # <<>>
      <3>1. Len(<<>>) = 0
        OBVIOUS
      <3> QED
        BY <1>1, <1>3, <1>6, <3>1 DEF RecentAfter
    <2>2. /\ Len(Tail(longer)) = k
          /\ \A i \in 1 .. k : Tail(longer)[i] = longer[i + 1]
      BY <1>1, <1>3, <2>1, HeadTailProperties
    <2>3. k = Keep(n + 1)
      BY <1>1, <1>6 DEF Keep
    <2>4. ASSUME NEW i \in 1 .. k PROVE Tail(longer)[i] = grown[n + 1 - k + i]
      <3>1. i + 1 \in 1 .. (k + 1) /\ n - k + (i + 1) = n + 1 - k + i
        BY <1>1
      <3> QED
        BY <1>5, <2>2, <3>1
    <2> DEFINE short == Tail(longer)
    <2>5. Len(short) = k /\ Len(grown) = n + 1
      BY <1>2, <2>2
    <2>6. \A i \in 1 .. k : short[i] = grown[n + 1 - k + i]
      BY <2>4
    <2> HIDE DEF n, k, grown, short
    <2>7. /\ Len(short) = Keep(Len(grown))
          /\ \A i \in 1 .. Len(short) :
                 short[i] = grown[Len(grown) - Len(short) + i]
      BY <1>1, <2>3, <2>5, <2>6
    <2> QED
      BY <2>1, <2>7 DEF Tracks, short, grown
  <1>7. CASE ~(k + 1 > BlockBuffer)
    <2>1. RecentAfter(recent, b) = longer
      BY <1>7 DEF RecentAfter
    <2>2. k = n /\ Keep(n + 1) = k + 1
      BY <1>1, <1>7 DEF Keep
    <2> QED
      BY <1>1, <1>2, <1>3, <1>5, <2>1, <2>2 DEF Tracks
  <1> QED
    BY <1>6, <1>7

\* A buffer that follows the chain is a subsequence of it.
LEMMA TracksIsSubSeq ==
    ASSUME NEW recent \in Seq(Block), NEW s \in Seq(Block), Tracks(recent, s)
    PROVE  recent = SubSeq(s, Len(s) - Keep(Len(s)) + 1, Len(s))
  <1> DEFINE n == Len(s)
             k == Len(recent)
             part == SubSeq(s, n - k + 1, n)
  <1>1. n \in Nat /\ k \in Nat /\ k = Keep(n) /\ k <= n
    BY ServerAssumption DEF Tracks, Keep
  <1>2. \A i \in (n - k + 1) .. n : s[i] \in Block
    BY <1>1
  <1>3. n - k + 1 \in Int /\ n \in Int
    BY <1>1
  <1>4. /\ part \in Seq(Block)
        /\ Len(part) = IF n - k + 1 <= n THEN n - (n - k + 1) + 1 ELSE 0
        /\ \A i \in 1 .. n - (n - k + 1) + 1 : part[i] = s[(n - k + 1) + i - 1]
    BY <1>2, <1>3, SubSeqProperties
  <1>5. Len(part) = k
    BY <1>1, <1>4
  <1>6. \A i \in 1 .. k : part[i] = recent[i]
    <2> SUFFICES ASSUME NEW i \in 1 .. k PROVE part[i] = recent[i]
      OBVIOUS
    <2>1. i \in 1 .. n - (n - k + 1) + 1 /\ (n - k + 1) + i - 1 = n - k + i
      BY <1>1
    <2> QED
      BY <1>4, <2>1 DEF Tracks
  <1>7. recent = part
    BY <1>4, <1>5, <1>6, SeqEqual
  <1> QED
    BY <1>1, <1>7

\* The invariant of the buffer holds at the start.
LEMMA BufferInit == Init => BufferInv
  <1> SUFFICES ASSUME Init PROVE BufferInv
    OBVIOUS
  <1>1. blocks = <<>> /\ chain = <<>> /\ Len(<<>>) = 0 /\ BlockBuffer \in Nat \ {0}
    BY ServerAssumption DEF Init
  <1> QED
    BY <1>1, TypeInit DEF BufferInv, Tracks, Keep

\* Every step keeps the invariant of the buffer.
LEMMA BufferStep == BufferInv /\ [Next]_vars => BufferInv'
  <1> SUFFICES ASSUME BufferInv, [Next]_vars PROVE BufferInv'
    OBVIOUS
  <1>1. TypeOK /\ TypeOK'
    BY TypeStep DEF BufferInv
  <1>2. CASE Commit
    BY <1>1, <1>2, TracksAfter DEF BufferInv, Commit, TypeOK
  <1>3. CASE ~Commit
    <2>1. UNCHANGED <<blocks, chain>>
      BY <1>3 DEF Next, vars, stateVars, chainVars, PostTx, OnTxSubmit, OnTxAnnounce,
         OnApp, Serve, HandshakeFails, Register, ReaderEnds, Cleanup, Producer, Arm,
         Wake, Propose, Snapshot, SendBlock, EndBroadcast, Tick, Horizon
    <2> QED
      BY <1>1, <2>1 DEF BufferInv
  <1> QED
    BY <1>2, <1>3

(***************************************************************************)
(* The buffer the HTTP handlers read is the newest end of the chain, for   *)
(* every buffer size and however many blocks have gone through it.         *)
(***************************************************************************)
THEOREM BufferCorrect == Spec => []BlocksAreRecent
  <1>1. BufferInv => BlocksAreRecent
    BY TracksIsSubSeq DEF BufferInv, TypeOK, BlocksAreRecent, Keep
  <1>2. Spec => []BufferInv
    BY BufferInit, BufferStep, PTL DEF Spec
  <1> QED
    BY <1>1, <1>2, PTL

-----------------------------------------------------------------------------
(***************************************************************************)
(* Accepted transactions.                                                  *)
(***************************************************************************)
Committed(t) == \E i \in DOMAIN chain : t \in chain[i].txs

AccountInv ==
    \A t \in pool.seen :
        t \in pool.byId \/ t \in evicted \/ t \in InFlight \/ Committed(t)

\* An insertion accounts for the newcomer and for what it evicts.
LEMMA InsertedAccounts ==
    ASSUME FiniteStore(pool), AccountInv, NEW t \in Tx, Inserted(t),
           InFlight' = InFlight, chain' = chain
    PROVE  AccountInv'
  <1>1. PICK out : pool' = Insert(pool, t, out) /\ evicted' = evicted \cup out
    BY DEF Inserted
  <1>2. /\ pool'.byId = (pool.byId \ out) \cup {t}
        /\ pool'.seen = pool.seen \cup {t}
    BY <1>1 DEF Insert
  <1> QED
    BY <1>1, <1>2 DEF AccountInv, Committed

\* Every step accounts for every accepted transaction.
LEMMA AccountStep == TypeOK /\ AccountInv /\ [Next]_vars => AccountInv'
  <1> SUFFICES ASSUME TypeOK, AccountInv, [Next]_vars PROVE AccountInv'
    OBVIOUS
  <1>1. FiniteStore(pool) /\ pool \in Store
    BY DEF TypeOK, FiniteStore
  <1>2. ASSUME NEW t \in Tx, Inserted(t) /\ Serve PROVE AccountInv'
    BY <1>1, <1>2, InsertedAccounts DEF Serve, producerVars, chainVars, InFlight
  <1>3. CASE Propose
    <2>1. PICK S \in Drainable(pool, MaxTxsPerBlock) :
              /\ pool' = Drain(pool, S)
              /\ draft' = [draft EXCEPT !.height = tipHeight + 1,
                                        !.parent = tipHash,
                                        !.txs = S]
      BY <1>3 DEF Propose
    <2>2. pool'.byId = pool.byId \ S /\ pool'.seen = pool.seen
      BY <1>1, <2>1 DEF Drain, Store
    <2>3. draft \in Block
      BY DEF TypeOK
    <2>4. draft'.txs = S
      BY <2>1, <2>3 DEF Block
    <2>5. InFlight = {} /\ InFlight' = S
      BY <1>3, <2>4 DEF Propose, InFlight
    <2>6. UNCHANGED <<evicted, chain>>
      BY <1>3 DEF Propose, chainVars
    <2> QED
      BY <2>2, <2>5, <2>6 DEF AccountInv, Committed
  <1>4. CASE Commit
    <2>1. /\ UNCHANGED <<pool, evicted>>
          /\ InFlight = draft.txs
          /\ chain' = Append(chain, draft)
      BY <1>4 DEF Commit, InFlight
    <2>2. chain \in Seq(Block) /\ draft \in Block
      BY DEF TypeOK
    <2>3. /\ DOMAIN chain' = DOMAIN chain \cup {Len(chain) + 1}
          /\ chain'[Len(chain) + 1] = draft
          /\ \A i \in DOMAIN chain : chain'[i] = chain[i]
      BY <2>1, <2>2
    <2> QED
      BY <2>1, <2>3 DEF AccountInv, Committed
  <1>5. CASE ~Propose /\ ~Commit /\ ~ \E t \in Tx : Inserted(t) /\ Serve
    <2>1. UNCHANGED <<pool, evicted, chain>>
      BY <1>5 DEF Next, vars, stateVars, chainVars, PostTx, OnTxSubmit, Refused,
         Known, OnTxAnnounce, OnApp, Serve, HandshakeFails, Register, ReaderEnds,
         Cleanup, Producer, Arm, Wake, Snapshot, SendBlock, EndBroadcast, Tick,
         Horizon
    <2>2. InFlight' = InFlight
      BY <1>5 DEF Next, vars, stateVars, chainVars, producerVars, PostTx, OnTxSubmit,
         OnTxAnnounce, OnApp, Serve, HandshakeFails, Register, ReaderEnds,
         Cleanup, Producer, Arm, Wake, Snapshot, SendBlock, EndBroadcast, Tick,
         Horizon, InFlight
    <2> QED
      BY <2>1, <2>2 DEF AccountInv, Committed
  <1> QED
    BY <1>2, <1>3, <1>4, <1>5

\* A committed block that a lookup does not see has left the buffer.
LEMMA UnseenHasLeft ==
    ASSUME BufferInv, NEW t, ~InBlock(t), Committed(t)
    PROVE  \E i \in 1 .. (Len(chain) - Len(blocks)) : t \in chain[i].txs
  <1>1. /\ Len(chain) \in Nat /\ DOMAIN chain = 1 .. Len(chain)
        /\ Len(blocks) \in Nat /\ DOMAIN blocks = 1 .. Len(blocks)
        /\ Len(blocks) <= Len(chain)
    BY ServerAssumption DEF BufferInv, Tracks, Keep, TypeOK
  <1>2. PICK i \in 1 .. Len(chain) : t \in chain[i].txs
    BY <1>1 DEF Committed
  <1>3. CASE i > Len(chain) - Len(blocks)
    <2> DEFINE j == i - (Len(chain) - Len(blocks))
    <2>1. j \in 1 .. Len(blocks) /\ Len(chain) - Len(blocks) + j = i
      BY <1>1, <1>3
    <2>2. blocks[j] = chain[i]
      BY <2>1 DEF BufferInv, Tracks
    <2> QED
      BY <1>1, <1>2, <2>1, <2>2 DEF InBlock, Holding
  <1>4. CASE ~(i > Len(chain) - Len(blocks))
    BY <1>1, <1>2, <1>4
  <1> QED
    BY <1>3, <1>4

(***************************************************************************)
(* An accepted transaction that a lookup does not find was evicted, is in  *)
(* the producer's hands, or is in a block that has left the buffer; for    *)
(* every capacity, block size and buffer, and any number of requests.      *)
(***************************************************************************)
THEOREM NothingIsLost == Spec => []AcceptedIsAccountedFor
  <1>1. Init => AccountInv
    BY DEF Init, AccountInv, EmptyStore
  <1>2. Spec => []AccountInv
    BY <1>1, AccountStep, TypeCorrect, PTL DEF Spec
  <1>3. BufferInv /\ AccountInv => AcceptedIsAccountedFor
    <2> SUFFICES ASSUME BufferInv, AccountInv, NEW t \in pool.seen,
                        GetTxById(t).location = "none", t \notin evicted,
                        t \notin InFlight
                 PROVE  \E i \in 1 .. (Len(chain) - Len(blocks)) : t \in chain[i].txs
      BY DEF AcceptedIsAccountedFor
    <2>1. t \notin pool.byId /\ ~InBlock(t)
      BY DEF GetTxById
    <2>2. Committed(t)
      BY <2>1 DEF AccountInv
    <2> QED
      BY <2>1, <2>2, UnseenHasLeft
  <1>4. Spec => []BufferInv
    BY BufferInit, BufferStep, PTL DEF Spec
  <1> QED
    BY <1>2, <1>3, <1>4, PTL

-----------------------------------------------------------------------------
(***************************************************************************)
(* Lookups.                                                                *)
(***************************************************************************)
LookupInv == BufferInv /\ ChainInv

\* The oldest height in the buffer.
Oldest == Len(chain) - Len(blocks) + 1

\* The heights in the buffer count up to the tip.
LEMMA BufferHeights ==
    ASSUME LookupInv
    PROVE  /\ Len(chain) \in Nat /\ DOMAIN chain = 1 .. Len(chain)
           /\ Len(blocks) \in Nat /\ DOMAIN blocks = 1 .. Len(blocks)
           /\ Len(blocks) <= Len(chain)
           /\ Len(chain) > 0 => Len(blocks) > 0
           /\ \A i \in 1 .. Len(blocks) :
                  /\ blocks[i] = chain[Len(chain) - Len(blocks) + i]
                  /\ blocks[i].height = Len(chain) - Len(blocks) + i
  <1>1. /\ Len(chain) \in Nat /\ DOMAIN chain = 1 .. Len(chain)
        /\ Len(blocks) \in Nat /\ DOMAIN blocks = 1 .. Len(blocks)
    BY DEF LookupInv, BufferInv, TypeOK
  <1>2. Len(blocks) = Keep(Len(chain)) /\ BlockBuffer \in Nat \ {0}
    BY ServerAssumption DEF LookupInv, BufferInv, Tracks
  <1>3. Len(blocks) <= Len(chain) /\ (Len(chain) > 0 => Len(blocks) > 0)
    BY <1>1, <1>2 DEF Keep
  <1>4. ASSUME NEW i \in 1 .. Len(blocks)
        PROVE  /\ blocks[i] = chain[Len(chain) - Len(blocks) + i]
               /\ blocks[i].height = Len(chain) - Len(blocks) + i
    <2>1. blocks[i] = chain[Len(chain) - Len(blocks) + i]
      BY DEF LookupInv, BufferInv, Tracks
    <2>2. Len(chain) - Len(blocks) + i \in DOMAIN chain
      BY <1>1, <1>3
    <2>3. chain[Len(chain) - Len(blocks) + i].height = Len(chain) - Len(blocks) + i
      BY <2>2 DEF LookupInv, ChainInv, ChainIsLinked
    <2> QED
      BY <2>1, <2>3
  <1> QED
    BY <1>1, <1>3, <1>4

\* The newest block that holds a transaction.
LEMMA NewestIsHolding ==
    ASSUME LookupInv, NEW t, InBlock(t)
    PROVE  \E i \in Holding(t) :
               NewestHolding(t) = blocks[i] /\ \A j \in Holding(t) : j <= i
  <1>1. Len(blocks) \in Nat /\ Holding(t) \in SUBSET (1 .. Len(blocks))
    BY BufferHeights DEF Holding
  <1>2. \E i \in Holding(t) : \A j \in Holding(t) : j <= i
    <2>1. Holding(t) # {} /\ Holding(t) \in SUBSET Nat /\ \A i \in Holding(t) : i <= Len(blocks)
      BY <1>1 DEF InBlock
    <2> QED
      BY <1>1, <2>1, Largest
  <1> QED
    BY <1>2 DEF NewestHolding

\* A block of the buffer is found under its height.
LEMMA FoundUnderHeight ==
    ASSUME LookupInv, NEW i \in DOMAIN blocks
    PROVE  GetBlockByHeight(blocks[i].height) = [found |-> TRUE, block |-> blocks[i]]
  <1> DEFINE at == {j \in DOMAIN blocks : blocks[j].height = blocks[i].height}
  <1>1. i \in at /\ i \in 1 .. Len(blocks)
    BY BufferHeights
  <1>2. \A j \in at : j = i
    BY <1>1, BufferHeights
  <1>3. i <= i
    BY <1>1
  <1>4. (CHOOSE j \in at : \A k \in at : j <= k) = i
    BY <1>1, <1>2, <1>3
  <1> QED
    BY <1>1, <1>4 DEF GetBlockByHeight

\* The answers agree in every state with a linked chain and its buffer.
LEMMA AnswersAgree ==
    ASSUME LookupInv
    PROVE  EndpointsAgree
  <1> DEFINE n == Len(chain)
             k == Len(blocks)
  <1>1. /\ n \in Nat /\ k \in Nat /\ k <= n /\ (n > 0 => k > 0)
        /\ DOMAIN chain = 1 .. n /\ DOMAIN blocks = 1 .. k
    BY BufferHeights
  <1>2. \A i \in 1 .. k : blocks[i] = chain[n - k + i] /\ blocks[i].height = n - k + i
    BY BufferHeights
  <1>3. /\ DOMAIN GetBlocks = 1 .. k
        /\ \A i \in 1 .. k : GetBlocks[i] = BlockListEntry(blocks[k + 1 - i])
    BY <1>1 DEF GetBlocks
  <1> HIDE DEF n, k
  <1>4. ASSUME tipHeight > 0
        PROVE  /\ GetBlocks # <<>>
               /\ GetBlocks[1].height = GetDebug.tipHeight
               /\ GetBlocks[1].hash = tipHash
    <2>1. tipHeight = n /\ tipHash = LastHash(chain)
      BY DEF LookupInv, ChainInv, ChainIsLinked, n
    <2>2. n \in DOMAIN chain /\ 1 \in 1 .. k /\ k \in 1 .. k
      BY <1>1, <1>4, <2>1
    <2>3. chain # <<>> /\ GetBlocks # <<>>
      BY <1>3, <2>2
    <2>4. blocks[k] = chain[n] /\ blocks[k].height = n
      BY <1>1, <1>2, <2>2
    <2>5. GetBlocks[1] = BlockListEntry(blocks[k])
      <3>1. k + 1 - 1 = k
        BY <1>1
      <3> QED
        BY <1>3, <2>2, <3>1
    <2>6. tipHash = HeaderHash(chain[n])
      BY <2>1, <2>3 DEF LastHash, n
    <2> QED
      BY <2>1, <2>3, <2>4, <2>5, <2>6 DEF BlockListEntry, GetDebug
  <1>5. ASSUME NEW i \in DOMAIN GetBlocks
        PROVE  LET entry == GetBlocks[i]
                   answer == GetBlockByHeight(entry.height)
               IN  /\ i > 1 => entry.height = GetBlocks[i - 1].height - 1
                   /\ answer.found
                   /\ BlockListEntry(answer.block) = entry
    <2>1. i \in 1 .. k /\ k + 1 - i \in 1 .. k /\ k + 1 - i \in DOMAIN blocks
      BY <1>1, <1>3
    <2>2. GetBlocks[i] = BlockListEntry(blocks[k + 1 - i])
      BY <1>3, <2>1
    <2>3. GetBlocks[i].height = blocks[k + 1 - i].height
      BY <2>2 DEF BlockListEntry
    <2>4. GetBlockByHeight(GetBlocks[i].height) =
              [found |-> TRUE, block |-> blocks[k + 1 - i]]
      BY <2>1, <2>3, FoundUnderHeight
    <2>5. ASSUME i > 1
          PROVE  GetBlocks[i].height = GetBlocks[i - 1].height - 1
      <3>1. i - 1 \in 1 .. k /\ k + 1 - (i - 1) \in 1 .. k
        BY <1>1, <2>1, <2>5
      <3>2. GetBlocks[i - 1].height = blocks[k + 1 - (i - 1)].height
        BY <1>3, <3>1 DEF BlockListEntry
      <3>3. /\ blocks[k + 1 - i].height = n - k + (k + 1 - i)
            /\ blocks[k + 1 - (i - 1)].height = n - k + (k + 1 - (i - 1))
        BY <1>2, <2>1, <3>1
      <3> QED
        BY <1>1, <2>1, <2>3, <3>2, <3>3
    <2> QED
      BY <2>2, <2>4, <2>5
  <1>6. ASSUME NEW t \in Tx, GetTxById(t).location = "block"
        PROVE  LET answer == GetBlockByHeight(GetTxById(t).block.height)
               IN  answer.found /\ t \in answer.block.txs /\ GetReceiptById(t).found
    <2>1. InBlock(t) /\ GetTxById(t).block = BlockRef(NewestHolding(t))
      BY <1>6 DEF GetTxById
    <2>2. PICK i \in Holding(t) : NewestHolding(t) = blocks[i]
      BY <2>1, NewestIsHolding
    <2>3. i \in DOMAIN blocks /\ t \in blocks[i].txs
      BY DEF Holding
    <2>4. GetTxById(t).block.height = blocks[i].height
      BY <2>1, <2>2 DEF BlockRef
    <2>5. GetBlockByHeight(GetTxById(t).block.height) =
              [found |-> TRUE, block |-> blocks[i]]
      BY <2>3, <2>4, FoundUnderHeight
    <2>6. GetReceiptById(t).found
      BY <2>1 DEF GetReceiptById
    <2> QED
      BY <2>3, <2>5, <2>6
  <1> QED
    BY <1>4, <1>5, <1>6 DEF EndpointsAgree

\* The lookup invariant holds throughout.
LEMMA LookupCorrect == Spec => []LookupInv
  BY BufferInit, BufferStep, ChainInit, ChainStep, PTL DEF Spec, LookupInv

(***************************************************************************)
(* The endpoints tell one story in every state: the head of the list is    *)
(* the tip, the list has no holes, and what a lookup names is found under  *)
(* its height; for every buffer size.                                      *)
(***************************************************************************)
THEOREM EndpointsCorrect == Spec => []EndpointsAgree
  <1>1. LookupInv => EndpointsAgree
    BY AnswersAgree
  <1> QED
    BY <1>1, LookupCorrect, PTL

\* The block a lookup names is the highest of the buffer that holds t.
NamesHighest(t) ==
    LET b == GetTxById(t).block
    IN  /\ b.height \in Oldest .. Len(chain)
        /\ t \in chain[b.height].txs
        /\ \A h \in Oldest .. Len(chain) : t \in chain[h].txs => h <= b.height
        /\ b.finalized <=> b.height <= finalized

\* The block a lookup names is the highest of the buffer that holds it.
LEMMA LookupNamesHighest ==
    LookupInv => \A t \in Tx : FoundInBlock(t) => NamesHighest(t)
  <1> SUFFICES ASSUME LookupInv, NEW t \in Tx, FoundInBlock(t) PROVE NamesHighest(t)
    OBVIOUS
  <1> DEFINE n == Len(chain)
             k == Len(blocks)
  <1>1. n \in Nat /\ k \in Nat /\ k <= n /\ DOMAIN blocks = 1 .. k
    BY BufferHeights
  <1>2. \A i \in 1 .. k : blocks[i] = chain[n - k + i] /\ blocks[i].height = n - k + i
    BY BufferHeights
  <1>3. InBlock(t) /\ GetTxById(t).block = BlockRef(NewestHolding(t))
    BY DEF FoundInBlock, GetTxById
  <1>4. PICK i \in Holding(t) :
            NewestHolding(t) = blocks[i] /\ \A j \in Holding(t) : j <= i
    BY <1>3, NewestIsHolding
  <1>5. i \in 1 .. k /\ t \in blocks[i].txs
    BY <1>1 DEF Holding
  <1> DEFINE b == GetTxById(t).block
  <1>6. b.height = n - k + i /\ (b.finalized <=> b.height <= finalized)
    <2>1. b = BlockRef(blocks[i])
      BY <1>3, <1>4
    <2>2. b.height = blocks[i].height
      BY <2>1 DEF BlockRef
    <2>3. b.finalized <=> blocks[i].height <= finalized
      <3> DEFINE final == blocks[i].height <= finalized
      <3>1. b = [height |-> blocks[i].height, hash |-> HeaderHash(blocks[i]),
                 slot |-> blocks[i].slot, epoch |-> blocks[i].epoch,
                 finalized |-> final]
        BY <2>1 DEF BlockRef
      <3>2. final \in BOOLEAN
        OBVIOUS
      <3> HIDE DEF b, final
      <3>3. b.finalized = final
        BY <3>1
      <3>4. b.finalized <=> final
        BY <3>2, <3>3
      <3> QED
        BY <3>4 DEF final
    <2> QED
      BY <1>2, <1>5, <2>2, <2>3
  <1> HIDE DEF n, k, b
  <1>7. ASSUME NEW h \in (n - k + 1) .. n, t \in chain[h].txs PROVE h <= b.height
    <2> DEFINE j == h - (n - k)
    <2>1. j \in 1 .. k /\ n - k + j = h
      BY <1>1
    <2>2. j \in Holding(t)
      BY <1>1, <1>2, <1>7, <2>1 DEF Holding
    <2>3. j <= i
      BY <1>4, <2>2
    <2> QED
      BY <1>1, <1>5, <1>6, <2>1, <2>3
  <1>8. b.height \in (n - k + 1) .. n /\ t \in chain[b.height].txs
    BY <1>1, <1>2, <1>5, <1>6
  <1> QED
    BY <1>6, <1>7, <1>8 DEF NamesHighest, Oldest, n, k, b

\* The buffer moves up the chain, and the chain only grows.
LEMMA WindowMoves ==
    ASSUME LookupInv, LookupInv', [Next]_vars
    PROVE  /\ Len(chain) \in Nat /\ Oldest \in Nat
           /\ Len(chain') \in Nat /\ Oldest' \in Nat
           /\ Len(chain) <= Len(chain') /\ Oldest <= Oldest' /\ Oldest > 0
           /\ \A h \in 1 .. Len(chain) : chain'[h] = chain[h]
  <1>1. /\ Len(chain) \in Nat /\ Len(blocks) \in Nat /\ Len(blocks) <= Len(chain)
        /\ Len(chain') \in Nat /\ Len(blocks') \in Nat /\ Len(blocks') <= Len(chain')
    <2>1. (LookupInv => /\ Len(chain) \in Nat /\ Len(blocks) \in Nat
                        /\ Len(blocks) <= Len(chain))
      BY BufferHeights
    <2>2. /\ chain' \in Seq(Block) /\ blocks' \in Seq(Block)
          /\ Len(blocks') = Keep(Len(chain')) /\ BlockBuffer \in Nat \ {0}
      BY ServerAssumption DEF LookupInv, BufferInv, TypeOK, Tracks
    <2>3. Len(chain') \in Nat /\ Len(blocks') \in Nat /\ Len(blocks') <= Len(chain')
      BY <2>2 DEF Keep
    <2> QED
      BY <2>1, <2>3
  <1>2. CASE Commit
    <2>1. /\ chain \in Seq(Block) /\ draft \in Block /\ chain' = Append(chain, draft)
          /\ Len(blocks) = Keep(Len(chain)) /\ Len(blocks') = Keep(Len(chain'))
          /\ BlockBuffer \in Nat \ {0}
      BY <1>2, ServerAssumption DEF LookupInv, BufferInv, TypeOK, Tracks, Commit
    <2>2. /\ Len(chain') = Len(chain) + 1
          /\ \A h \in 1 .. Len(chain) : chain'[h] = chain[h]
      BY <2>1
    <2>3. Len(blocks') <= Len(blocks) + 1
      BY <1>1, <2>1, <2>2 DEF Keep
    <2> QED
      BY <1>1, <2>2, <2>3 DEF Oldest
  <1>3. CASE ~Commit
    <2>1. UNCHANGED <<blocks, chain>>
      BY <1>3 DEF Next, vars, stateVars, chainVars, PostTx, OnTxSubmit, OnTxAnnounce,
         OnApp, Serve, HandshakeFails, Register, ReaderEnds, Cleanup, Producer, Arm,
         Wake, Propose, Snapshot, SendBlock, EndBroadcast, Tick, Horizon
    <2> QED
      BY <1>1, <2>1 DEF Oldest
  <1> QED
    BY <1>2, <1>3

(***************************************************************************)
(* A lookup never goes back to an older block, and what it called final    *)
(* stays final unless the transaction is included a second time.           *)
(***************************************************************************)
THEOREM ReportsCorrect == Spec => ReportedFinalStays
  <1> DEFINE Stays ==
                 \A t \in Tx : FoundInBlock(t) /\ FoundInBlock(t)' =>
                     LET before == GetTxById(t).block
                         after == GetTxById(t)'.block
                     IN  /\ after.height >= before.height
                         /\ after.height = before.height /\ before.finalized
                                => after.finalized
             Named == \A t \in Tx : FoundInBlock(t) => NamesHighest(t)
  <1>1. LookupInv /\ LookupInv' /\ Named /\ Named' /\ [Next]_vars => [Stays]_vars
    <2> SUFFICES ASSUME LookupInv, LookupInv', Named, Named', [Next]_vars,
                        NEW t \in Tx, FoundInBlock(t), FoundInBlock(t)'
                 PROVE  LET before == GetTxById(t).block
                            after == GetTxById(t)'.block
                        IN  /\ after.height >= before.height
                            /\ after.height = before.height /\ before.finalized
                                   => after.finalized
      OBVIOUS
    <2> DEFINE b == GetTxById(t).block.height
               a == GetTxById(t)'.block.height
    <2>1. /\ b \in Oldest .. Len(chain) /\ t \in chain[b].txs
          /\ GetTxById(t).block.finalized <=> b <= finalized
      BY DEF NamesHighest
    <2>2. /\ a \in Oldest' .. Len(chain')
          /\ \A h \in Oldest' .. Len(chain') : t \in chain'[h].txs => h <= a
          /\ GetTxById(t)'.block.finalized <=> a <= finalized'
      BY DEF NamesHighest
    <2>3. finalized \in Nat /\ finalized' \in Nat /\ finalized' >= finalized
      <3>1. [finalized' >= finalized]_finalized
        BY FinalityStep DEF LookupInv
      <3>2. finalized \in Nat /\ finalized' \in Nat
        BY DEF LookupInv, BufferInv, TypeOK
      <3> QED
        BY <3>1, <3>2
    <2> HIDE DEF a, b
    <2>4. a >= b
      <3>1. CASE b \in Oldest' .. Len(chain')
        <4>1. b \in 1 .. Len(chain)
          BY <2>1, WindowMoves
        <4>2. t \in chain'[b].txs
          BY <2>1, <4>1, WindowMoves
        <4> QED
          BY <2>1, <2>2, <3>1, <4>2, WindowMoves
      <3>2. CASE b \notin Oldest' .. Len(chain')
        BY <2>1, <2>2, <3>2, WindowMoves
      <3> QED
        BY <3>1, <3>2
    <2>5. a \in Nat /\ b \in Nat
      BY <2>1, <2>2, WindowMoves
    <2>6. a = b /\ b <= finalized => a <= finalized'
      BY <2>3, <2>5
    <2> QED
      BY <2>1, <2>2, <2>4, <2>6 DEF a, b
  <1>2. LookupInv => Named
    BY LookupNamesHighest
  <1> QED
    BY <1>1, <1>2, LookupCorrect, PTL DEF Spec, ReportedFinalStays

-----------------------------------------------------------------------------
(***************************************************************************)
(* Slot starts.                                                            *)
(***************************************************************************)

\* The slot that slot_of reads has begun.
LEMMA SlotHasBegun ==
    ASSUME NEW g \in Nat, NEW t \in Nat, g <= t
    PROVE  g + SlotOf(g, t) * SlotSeconds <= t
  <1> DEFINE e == t - g
             q == e \div SlotSeconds
  <1>1. e \in Nat /\ SaturatingSub(t, g) = e /\ SlotSeconds \in Nat \ {0}
    BY SlotClockAssumption DEF SaturatingSub
  <1> HIDE DEF e
  <1>2. /\ q \in Nat /\ e % SlotSeconds \in 0 .. (SlotSeconds - 1)
        /\ e = SlotSeconds * q + (e % SlotSeconds)
    BY <1>1, DivMod
  <1>3. SlotOf(g, t) = q
    BY <1>1 DEF SlotOf
  <1>4. SlotSeconds * q \in Nat /\ SlotSeconds * q = q * SlotSeconds
    BY <1>2, SlotClockAssumption
  <1>5. q * SlotSeconds <= e
    BY <1>1, <1>2, <1>4
  <1> QED
    BY <1>1, <1>3, <1>4, <1>5 DEF e

\* A time less than a slot is in slot 0.
LEMMA BelowOneSlot ==
    ASSUME NEW r \in Nat, r < SlotSeconds
    PROVE  r \div SlotSeconds = 0
  <1>1. SlotSeconds \in Nat \ {0} /\ SlotSeconds * 0 + r = r
    BY SlotClockAssumption
  <1>2. (SlotSeconds * 0 + r) \div SlotSeconds = 0
    BY <1>1, DivisionUnique
  <1> QED
    BY <1>1, <1>2

\* The start of a block's slot is a time.
LEMMA SlotStartType ==
    ASSUME TypeOK, NEW b \in Block
    PROVE  SlotStart(b) \in Nat
  <1>1. b.slot \in Nat /\ genesis \in Nat /\ SlotSeconds \in Nat
    BY SlotClockAssumption DEF TypeOK, Block
  <1>2. b.slot * SlotSeconds \in Nat
    BY <1>1
  <1> QED
    BY <1>1, <1>2 DEF SlotStart

-----------------------------------------------------------------------------
(***************************************************************************)
(* Expiry.  Once a transaction is in a block of a slot that began after    *)
(* its expiry, the clock has passed the expiry and nothing holds it.       *)
(***************************************************************************)
Late(b, t) == SlotStart(b) > Expiry[t]

Gone(t) == Expiry[t] < now /\ t \notin pool.byId /\ t \notin InFlight

ExpiryInv ==
    /\ genesis <= now
    /\ ppc \in {"propose", "commit"} => SlotStart(draft) <= now
    /\ ppc = "commit" => \A t \in draft.txs : Late(draft, t) => t \notin pool.byId
    /\ \A i \in DOMAIN chain : \A t \in chain[i].txs : Late(chain[i], t) => Gone(t)
    /\ ExpiredIsLastInclusion

\* The invariant of expiry holds at the start.
LEMMA ExpiryInit == Init => ExpiryInv
  <1> SUFFICES ASSUME Init PROVE ExpiryInv
    OBVIOUS
  <1>1. genesis <= now
    BY AlignedGenesisType, ServerAssumption DEF Init
  <1>2. DOMAIN chain = {}
    BY DEF Init
  <1> QED
    BY <1>1, <1>2 DEF Init, ExpiryInv, ExpiredIsLastInclusion

\* A transaction comes in: it has not expired, so no late block holds it.
LEMMA ExpiryInserted ==
    ASSUME TypeOK, ExpiryInv, NEW t \in Tx, Inserted(t), Serve
    PROVE  ExpiryInv'
  <1>1. /\ UNCHANGED <<ppc, draft, genesis, chain, now>>
        /\ InFlight' = InFlight
        /\ \A b : SlotStart(b)' = SlotStart(b)
    BY DEF Serve, chainVars, producerVars, InFlight, SlotStart
  <1>2. pool'.byId \subseteq pool.byId \cup {t}
    BY DEF Inserted, Insert
  <1>3. Expiry[t] >= now /\ Expiry[t] \in Nat /\ now \in Nat
    BY TxStoreAssumption DEF Inserted, Admits, VerifyTx, TypeOK
  <1>4. ASSUME ppc = "commit", NEW u \in draft.txs, Late(draft, u)
        PROVE  u \notin pool'.byId
    <2>1. draft \in Block /\ u \notin pool.byId /\ SlotStart(draft) <= now
      BY <1>4 DEF ExpiryInv, TypeOK
    <2>2. SlotStart(draft) \in Nat
      BY <2>1, SlotStartType
    <2>3. u # t
      BY <1>3, <1>4, <2>1, <2>2 DEF Late
    <2> QED
      BY <1>2, <2>1, <2>3
  <1>5. ASSUME NEW i \in DOMAIN chain, NEW u \in chain[i].txs, Late(chain[i], u)
        PROVE  Expiry[u] < now /\ u \notin pool'.byId /\ u \notin InFlight
    <2>1. Gone(u)
      BY <1>5 DEF ExpiryInv
    <2>2. u # t
      BY <1>3, <2>1 DEF Gone
    <2> QED
      BY <1>2, <2>1, <2>2 DEF Gone
  <1> QED
    BY <1>1, <1>4, <1>5 DEF ExpiryInv, ExpiredIsLastInclusion, Late, Gone

\* The producer opens a slot that has begun.
LEMMA ExpiryWake == TypeOK /\ ExpiryInv /\ Wake => ExpiryInv'
  <1> SUFFICES ASSUME TypeOK, ExpiryInv, Wake PROVE ExpiryInv'
    OBVIOUS
  <1>1. /\ UNCHANGED <<pool, genesis, chain, now>>
        /\ InFlight = {} /\ InFlight' = {}
        /\ ppc' = "propose"
        /\ draft'.slot = SlotOf(genesis, now)
        /\ \A b : SlotStart(b)' = SlotStart(b)
    BY DEF Wake, stateVars, InFlight, SlotStart, NoDraft
  <1>2. genesis \in Nat /\ now \in Nat /\ genesis <= now
    BY DEF TypeOK, ExpiryInv
  <1>3. SlotStart(draft)' <= now
    BY <1>1, <1>2, SlotHasBegun DEF SlotStart
  <1> QED
    BY <1>1, <1>3 DEF ExpiryInv, ExpiredIsLastInclusion, Late, Gone

\* What the producer takes leaves the pool.
LEMMA ExpiryPropose == TypeOK /\ ExpiryInv /\ Propose => ExpiryInv'
  <1> SUFFICES ASSUME TypeOK, ExpiryInv, Propose PROVE ExpiryInv'
    OBVIOUS
  <1>1. PICK S \in Drainable(pool, MaxTxsPerBlock) :
            /\ pool' = Drain(pool, S)
            /\ draft' = [draft EXCEPT !.height = tipHeight + 1,
                                      !.parent = tipHash,
                                      !.txs = S]
    BY DEF Propose
  <1>2. draft \in Block /\ pool \in Store
    BY DEF TypeOK, FiniteStore
  <1>3. draft'.slot = draft.slot /\ draft'.txs = S
    BY <1>1, <1>2 DEF Block
  <1>4. pool'.byId = pool.byId \ S /\ S \subseteq pool.byId
    BY <1>1, <1>2 DEF Drain, Drainable, Store
  <1>5. /\ UNCHANGED <<genesis, chain, now>>
        /\ InFlight' = S
        /\ ppc = "propose" /\ ppc' = "commit"
    BY <1>3 DEF Propose, chainVars, InFlight
  <1>6. (\A b : SlotStart(b)' = SlotStart(b)) /\ SlotStart(draft)' = SlotStart(draft)
    BY <1>3, <1>5 DEF SlotStart
  <1>7. ASSUME NEW i \in DOMAIN chain, NEW u \in chain[i].txs, Late(chain[i], u)
        PROVE  Expiry[u] < now /\ u \notin pool'.byId /\ u \notin InFlight'
    BY <1>4, <1>5, <1>7 DEF ExpiryInv, Gone
  <1> QED
    BY <1>3, <1>4, <1>5, <1>6, <1>7
    DEF ExpiryInv, ExpiredIsLastInclusion, Late, Gone

\* A new block holds nothing that a late block holds.
LEMMA ExpiryCommit == TypeOK /\ ExpiryInv /\ Commit => ExpiryInv'
  <1> SUFFICES ASSUME TypeOK, ExpiryInv, Commit PROVE ExpiryInv'
    OBVIOUS
  <1> DEFINE n == Len(chain)
  <1>1. /\ UNCHANGED <<pool, genesis, now>>
        /\ InFlight = draft.txs /\ InFlight' = {}
        /\ ppc = "commit" /\ ppc' = "snapshot"
        /\ \A b : SlotStart(b)' = SlotStart(b)
    BY DEF Commit, InFlight, SlotStart
  <1>2. chain \in Seq(Block) /\ draft \in Block /\ chain' = Append(chain, draft)
    BY DEF TypeOK, Commit
  <1>3. /\ n \in Nat /\ DOMAIN chain = 1 .. n /\ DOMAIN chain' = 1 .. (n + 1)
        /\ chain'[n + 1] = draft
        /\ \A i \in 1 .. n : chain'[i] = chain[i]
    BY <1>2
  <1>4. ASSUME NEW t \in draft.txs, Late(draft, t)
        PROVE  Expiry[t] < now /\ t \notin pool.byId
    <2>1. t \in Tx /\ Expiry[t] \in Nat /\ now \in Nat
      BY <1>2, TxStoreAssumption DEF Block, TypeOK
    <2>2. SlotStart(draft) \in Nat /\ SlotStart(draft) <= now
      BY <1>1, <1>2, SlotStartType DEF ExpiryInv
    <2> QED
      BY <1>1, <1>4, <2>1, <2>2 DEF ExpiryInv, Late
  <1>5. ASSUME NEW i \in DOMAIN chain', NEW t \in chain'[i].txs, Late(chain'[i], t)
        PROVE  Expiry[t] < now /\ t \notin pool.byId
    <2>1. CASE i = n + 1
      BY <1>3, <1>4, <1>5, <2>1
    <2>2. CASE i \in 1 .. n
      BY <1>3, <1>5, <2>2 DEF ExpiryInv, Gone
    <2> QED
      BY <1>3, <2>1, <2>2
  <1>6. ASSUME NEW i \in DOMAIN chain', NEW j \in DOMAIN chain',
               NEW t \in chain'[i].txs \cap chain'[j].txs, i < j
        PROVE  SlotStart(chain'[i]) <= Expiry[t]
    <2>1. i \in 1 .. n
      BY <1>3, <1>6
    <2>2. CASE j \in 1 .. n
      BY <1>3, <1>6, <2>1, <2>2 DEF ExpiryInv, ExpiredIsLastInclusion
    <2>3. CASE j = n + 1
      <3>1. t \in InFlight /\ t \in chain[i].txs
        BY <1>1, <1>3, <2>1, <2>3
      <3>2. ~Late(chain[i], t)
        BY <1>3, <2>1, <3>1 DEF ExpiryInv, Gone
      <3>3. chain[i] \in Block
        BY <1>2, <1>3, <2>1
      <3>4. t \in Tx
        BY <3>1, <3>3 DEF Block
      <3>5. SlotStart(chain[i]) \in Nat /\ Expiry[t] \in Nat
        BY <3>3, <3>4, SlotStartType, TxStoreAssumption
      <3> QED
        BY <1>3, <2>1, <3>2, <3>5 DEF Late
    <2> QED
      BY <1>3, <2>2, <2>3
  <1> QED
    BY <1>1, <1>5, <1>6 DEF ExpiryInv, ExpiredIsLastInclusion, Late, Gone

\* Every step keeps the invariant of expiry.
LEMMA ExpiryStep == TypeOK /\ ExpiryInv /\ [Next]_vars => ExpiryInv'
  <1> SUFFICES ASSUME TypeOK, ExpiryInv, [Next]_vars PROVE ExpiryInv'
    OBVIOUS
  <1>1. ASSUME NEW t \in Tx, Inserted(t) /\ Serve PROVE ExpiryInv'
    BY <1>1, ExpiryInserted
  <1>2. CASE Wake \/ Propose \/ Commit
    BY <1>2, ExpiryWake, ExpiryPropose, ExpiryCommit
  <1>3. CASE Tick
    <2>1. /\ UNCHANGED <<pool, genesis, chain, draft, ppc>> /\ now' = now + 1
          /\ InFlight' = InFlight
          /\ \A b : SlotStart(b)' = SlotStart(b)
      BY <1>3 DEF Tick, stateVars, producerVars, InFlight, SlotStart
    <2>2. now \in Nat /\ genesis \in Nat /\ SlotStart(draft) \in Nat
      BY SlotStartType DEF TypeOK
    <2>3. \A t \in Tx : Gone(t) => Gone(t)'
      <3>1. \A t \in Tx : Expiry[t] \in Nat
        BY TxStoreAssumption
      <3> QED
        BY <2>1, <2>2, <3>1 DEF Gone
    <2>4. \A i \in DOMAIN chain : chain[i].txs \subseteq Tx
      <3>1. chain \in Seq(Block)
        BY DEF TypeOK
      <3>2. \A i \in DOMAIN chain : chain[i] \in Block
        BY <3>1
      <3> QED
        BY <3>2 DEF Block
    <2> QED
      BY <2>1, <2>2, <2>3, <2>4 DEF ExpiryInv, ExpiredIsLastInclusion, Late
  <1>4. CASE /\ ~Wake /\ ~Propose /\ ~Commit /\ ~Tick
             /\ ~ \E t \in Tx : Inserted(t) /\ Serve
    <2>1. UNCHANGED <<pool, genesis, chain, now>>
      BY <1>4 DEF Next, vars, stateVars, chainVars, producerVars, PostTx, OnTxSubmit,
         Refused, Known, OnTxAnnounce, OnApp, Serve, HandshakeFails, Register,
         ReaderEnds, Cleanup, Producer, Arm, Snapshot, SendBlock, EndBroadcast,
         Horizon
    <2>2. \/ UNCHANGED <<ppc, draft>>
          \/ ppc \notin {"propose", "commit"} /\ ppc' \notin {"propose", "commit"}
      BY <1>4 DEF Next, vars, stateVars, chainVars, producerVars, PostTx, OnTxSubmit,
         OnTxAnnounce, OnApp, Serve, HandshakeFails, Register, ReaderEnds, Cleanup,
         Producer, Arm, Snapshot, SendBlock, EndBroadcast, Horizon
    <2>3. InFlight' = InFlight /\ \A b : SlotStart(b)' = SlotStart(b)
      BY <2>1, <2>2 DEF InFlight, SlotStart
    <2> QED
      BY <2>1, <2>2, <2>3 DEF ExpiryInv, ExpiredIsLastInclusion, Late, Gone
  <1> QED
    BY <1>1, <1>2, <1>3, <1>4

(***************************************************************************)
(* A transaction that expires while it is pending is included once at      *)
(* most after its expiry, however late the producer runs and whatever is   *)
(* submitted again.                                                        *)
(***************************************************************************)
THEOREM ExpiryCorrect == Spec => []ExpiredIsLastInclusion
  <1>1. Spec => []ExpiryInv
    BY ExpiryInit, ExpiryStep, TypeCorrect, PTL DEF Spec
  <1>2. ExpiryInv => ExpiredIsLastInclusion
    BY DEF ExpiryInv
  <1> QED
    BY <1>1, <1>2, PTL

-----------------------------------------------------------------------------
(***************************************************************************)
(* The hint for the next slot.  The producer's clock starts on a multiple  *)
(* of the slot length and it sleeps until one, a slot away at most.        *)
(***************************************************************************)
OnGrid(t) == \E k \in Nat : t = SlotSeconds * k

HintInv ==
    /\ genesis <= now
    /\ OnGrid(genesis)
    /\ ppc = "sleep" => OnGrid(wakeAt) /\ wakeAt <= now + SlotSeconds

\* An aligned clock starts on the grid.
LEMMA AlignedIsOnGrid ==
    ASSUME NEW t \in Nat
    PROVE  /\ AlignedGenesis(t) = SlotSeconds * (t \div SlotSeconds)
           /\ OnGrid(AlignedGenesis(t))
  <1> DEFINE q == t \div SlotSeconds
  <1>1. SlotSeconds \in Nat \ {0}
    BY SlotClockAssumption
  <1>2. q \in Nat /\ t % SlotSeconds \in Nat /\ t = SlotSeconds * q + (t % SlotSeconds)
    BY <1>1, DivMod
  <1>3. SlotSeconds * q \in Nat
    BY <1>1, <1>2
  <1>4. AlignedGenesis(t) = SlotSeconds * q
    BY <1>2, <1>3 DEF AlignedGenesis
  <1> QED
    BY <1>2, <1>4 DEF OnGrid

\* The next slot of a clock on the grid starts on the grid, within a slot.
LEMMA NextSlotIsOnGrid ==
    ASSUME NEW g \in Nat, NEW t \in Nat, g <= t, OnGrid(g)
    PROVE  OnGrid(NextSlotStart(g, t)) /\ NextSlotStart(g, t) <= t + SlotSeconds
  <1> DEFINE s == SlotOf(g, t)
  <1>1. PICK k \in Nat : g = SlotSeconds * k
    BY DEF OnGrid
  <1>2. s \in Nat /\ SlotSeconds \in Nat /\ g + s * SlotSeconds <= t
    BY SlotOfType, SlotHasBegun, SlotClockAssumption
  <1> HIDE DEF s
  <1>3. /\ (s + 1) * SlotSeconds = s * SlotSeconds + SlotSeconds
        /\ SlotSeconds * (k + s + 1) = SlotSeconds * k + (s + 1) * SlotSeconds
        /\ s * SlotSeconds \in Nat
        /\ k + s + 1 \in Nat
    BY <1>2
  <1>4. NextSlotStart(g, t) = g + (s + 1) * SlotSeconds
    BY DEF NextSlotStart, s
  <1>5. NextSlotStart(g, t) = SlotSeconds * (k + s + 1)
    BY <1>1, <1>3, <1>4
  <1>6. NextSlotStart(g, t) <= t + SlotSeconds
    BY <1>2, <1>3, <1>4
  <1> QED
    BY <1>3, <1>5, <1>6 DEF OnGrid

\* The next slot of a clock that is aligned at time t starts where the grid
\* goes on.
LEMMA NextOfAligned ==
    ASSUME NEW t \in Nat
    PROVE  NextSlotStart(AlignedGenesis(t), t) =
               SlotSeconds * (t \div SlotSeconds) + SlotSeconds
  <1> DEFINE g == AlignedGenesis(t)
             q == t \div SlotSeconds
             r == t % SlotSeconds
  <1>1. SlotSeconds \in Nat \ {0}
    BY SlotClockAssumption
  <1>2. q \in Nat /\ r \in 0 .. (SlotSeconds - 1) /\ t = SlotSeconds * q + r
    BY <1>1, DivMod
  <1>3. g = SlotSeconds * q /\ g \in Nat
    BY AlignedIsOnGrid, AlignedGenesisType
  <1> HIDE DEF g, q, r
  <1>4. r \in Nat /\ r < SlotSeconds /\ SaturatingSub(t, g) = r
    BY <1>1, <1>2, <1>3 DEF SaturatingSub
  <1>5. SlotOf(g, t) = 0
    BY <1>4, BelowOneSlot DEF SlotOf
  <1>6. NextSlotStart(g, t) = g + SlotSeconds
    BY <1>1, <1>5 DEF NextSlotStart
  <1> QED
    BY <1>3, <1>6 DEF g, q

\* There is one multiple of the slot length within the slot ahead.
LEMMA GridAhead ==
    ASSUME NEW t \in Nat, NEW w \in Nat, OnGrid(w), t < w, w <= t + SlotSeconds
    PROVE  w = SlotSeconds * (t \div SlotSeconds) + SlotSeconds
  <1> DEFINE q == t \div SlotSeconds
             r == t % SlotSeconds
  <1>1. SlotSeconds \in Nat \ {0}
    BY SlotClockAssumption
  <1>2. q \in Nat /\ r \in 0 .. (SlotSeconds - 1) /\ t = SlotSeconds * q + r
    BY <1>1, DivMod
  <1> HIDE DEF q, r
  <1>3. PICK k \in Nat : w = SlotSeconds * k
    BY DEF OnGrid
  <1>4. /\ SlotSeconds * q \in Nat /\ SlotSeconds * k \in Nat
        /\ SlotSeconds * (q + 1) = SlotSeconds * q + SlotSeconds
        /\ SlotSeconds * (q + 2) = SlotSeconds * q + SlotSeconds + SlotSeconds
    BY <1>1, <1>2
  <1>5. k > q
    <2> SUFFICES ASSUME k <= q PROVE FALSE
      BY <1>2
    <2>1. SlotSeconds * k <= SlotSeconds * q
      BY <1>1, <1>2, TimesMonotone
    <2> QED
      BY <1>1, <1>2, <1>3, <1>4, <2>1
  <1>6. k < q + 2
    <2> SUFFICES ASSUME q + 2 <= k PROVE FALSE
      BY <1>2
    <2>1. q + 2 \in Nat
      BY <1>2
    <2>2. SlotSeconds * (q + 2) <= SlotSeconds * k
      BY <1>1, <2>1, TimesMonotone
    <2> QED
      BY <1>1, <1>2, <1>3, <1>4, <2>2
  <1>7. k = q + 1
    BY <1>2, <1>5, <1>6
  <1> QED
    BY <1>3, <1>4, <1>7 DEF q

\* Every step keeps the invariant of the hint.
LEMMA HintStep == TypeOK /\ HintInv /\ [Next]_vars => HintInv'
  <1> SUFFICES ASSUME TypeOK, HintInv, [Next]_vars PROVE HintInv'
    OBVIOUS
  <1>1. /\ genesis \in Nat /\ now \in Nat /\ wakeAt \in Nat /\ genesis <= now
        /\ SlotSeconds \in Nat
    BY SlotClockAssumption DEF TypeOK, HintInv
  <1>2. CASE Arm
    <2>1. /\ UNCHANGED <<genesis, now>>
          /\ wakeAt' = NextSlotStart(genesis, now)
      BY <1>2 DEF Arm
    <2> QED
      BY <1>1, <2>1, NextSlotIsOnGrid DEF HintInv
  <1>3. CASE Tick
    <2>1. UNCHANGED <<genesis, wakeAt, ppc>> /\ now' = now + 1
      BY <1>3 DEF Tick, producerVars
    <2> QED
      BY <1>1, <2>1 DEF HintInv
  <1>4. CASE ~Arm /\ ~Tick
    <2>1. UNCHANGED <<genesis, now, wakeAt>> /\ (ppc' = "sleep" => ppc = "sleep")
      BY <1>4 DEF Next, vars, stateVars, chainVars, producerVars, PostTx, OnTxSubmit,
         OnTxAnnounce, OnApp, Serve, HandshakeFails, Register, ReaderEnds, Cleanup,
         Producer, Wake, Propose, Commit, Snapshot, SendBlock, EndBroadcast, Horizon
    <2> QED
      BY <2>1 DEF HintInv
  <1> QED
    BY <1>2, <1>3, <1>4

(***************************************************************************)
(* The clock that a request makes for itself points to the moment at which *)
(* the producer will wake, whenever the two were made.                     *)
(***************************************************************************)
THEOREM HintCorrect == Spec => []HintIsWakeTime
  <1>1. Init => HintInv
    BY AlignedGenesisType, AlignedIsOnGrid, ServerAssumption DEF Init, HintInv
  <1>2. Spec => []HintInv
    BY <1>1, HintStep, TypeCorrect, PTL DEF Spec
  <1>3. TypeOK /\ HintInv => HintIsWakeTime
    <2> SUFFICES ASSUME TypeOK, HintInv, ppc = "sleep", now < wakeAt
                 PROVE  TimeToNextSlot = (wakeAt - now) * 1000
      BY DEF HintIsWakeTime
    <2>1. wakeAt \in Nat /\ now \in Nat
      BY DEF TypeOK
    <2>2. wakeAt = NextSlotStart(AlignedGenesis(now), now)
      BY <2>1, NextOfAligned, GridAhead DEF HintInv
    <2> QED
      BY <2>1, <2>2 DEF TimeToNextSlot, SaturatingSub
  <1> QED
    BY <1>2, <1>3, TypeCorrect, PTL

-----------------------------------------------------------------------------
(***************************************************************************)
(* A prompt producer.  It wakes as its slot starts and works in no time,   *)
(* so that the block of height n is of slot n, and what is final is what   *)
(* the last boundary at or below the tip finalized.                        *)
(***************************************************************************)
StartOf(n) == genesis + n * SlotSeconds

PromptInv ==
    /\ ppc = "arm" => SlotOf(genesis, now) = Len(chain)
    /\ ppc = "sleep" => wakeAt = StartOf(Len(chain) + 1) /\ now <= wakeAt
    /\ ppc \in {"propose", "commit"} =>
           now = StartOf(Len(chain) + 1) /\ draft.slot = Len(chain) + 1
    /\ ppc \in {"snapshot", "broadcast"} => now = StartOf(Len(chain))
    /\ LastSlot(chain) = Len(chain)
    /\ finalized = FinalizedAt(EpochOfSlot(Len(chain)))

\* Where slot k starts, slot_of reads k.
LEMMA SlotOfStart ==
    ASSUME NEW g \in Nat, NEW k \in Nat
    PROVE  SlotOf(g, g + k * SlotSeconds) = k
  <1> DEFINE e == k * SlotSeconds
  <1>1. /\ SlotSeconds \in Nat \ {0} /\ e \in Nat
        /\ SlotSeconds * k + 0 = e /\ 0 < SlotSeconds
    BY SlotClockAssumption
  <1> HIDE DEF e
  <1>2. e \div SlotSeconds = k
    <2>1. (SlotSeconds * k + 0) \div SlotSeconds = k
      BY <1>1, DivisionUnique
    <2> QED
      BY <1>1, <2>1
  <1>3. SaturatingSub(g + e, g) = e
    BY <1>1 DEF SaturatingSub
  <1> QED
    BY <1>2, <1>3 DEF SlotOf, e

\* A clock that is aligned now reads slot 0.
LEMMA AlignedReadsZero ==
    ASSUME NEW t \in Nat
    PROVE  SlotOf(AlignedGenesis(t), t) = 0
  <1>1. SlotSeconds \in Nat \ {0}
    BY SlotClockAssumption
  <1>2. t % SlotSeconds \in 0 .. (SlotSeconds - 1)
    BY <1>1, DivMod
  <1>3. AlignedGenesis(t) \in Nat /\ AlignedGenesis(t) <= t
    BY AlignedGenesisType
  <1>4. SaturatingSub(t, AlignedGenesis(t)) = t % SlotSeconds
    BY <1>2, <1>3 DEF SaturatingSub, AlignedGenesis
  <1> QED
    BY <1>1, <1>2, <1>4, BelowOneSlot DEF SlotOf

\* Between two boundaries the epoch does not change.
LEMMA SameEpoch ==
    ASSUME NEW n \in Nat, SlotInEpoch(n + 1) # 0
    PROVE  EpochOfSlot(n + 1) = EpochOfSlot(n)
  <1> DEFINE q == EpochOfSlot(n + 1)
             r == SlotInEpoch(n + 1)
  <1>1. EpochSlots \in Nat \ {0} /\ n + 1 \in Nat
    BY SlotClockAssumption
  <1>2. q \in Nat /\ r \in 0 .. (EpochSlots - 1) /\ n + 1 = EpochSlots * q + r
    BY <1>1, DivMod DEF EpochOfSlot, SlotInEpoch
  <1> HIDE DEF q, r
  <1>3. r # 0
    BY DEF r
  <1>4. EpochSlots * q \in Nat /\ r - 1 \in Nat /\ r - 1 < EpochSlots
    BY <1>1, <1>2, <1>3
  <1>5. n = EpochSlots * q + (r - 1)
    <2>1. PICK p \in Nat : p = EpochSlots * q
      BY <1>4
    <2>2. n + 1 = p + r /\ r \in Nat
      BY <1>1, <1>2, <2>1
    <2>3. n = p + (r - 1)
      BY <2>2
    <2> QED
      BY <2>1, <2>3
  <1>6. (EpochSlots * q + (r - 1)) \div EpochSlots = q
    BY <1>1, <1>2, <1>4, DivisionUnique
  <1> QED
    BY <1>5, <1>6 DEF EpochOfSlot, q

\* The rule keeps what the last boundary finalized.
LEMMA FinalityFollows ==
    ASSUME NEW n \in Nat
    PROVE  FinalityAfter(FinalizedAt(EpochOfSlot(n)), n + 1) =
               FinalizedAt(EpochOfSlot(n + 1))
  <1>1. CASE SlotInEpoch(n + 1) = 0
    BY <1>1 DEF FinalityAfter
  <1>2. CASE SlotInEpoch(n + 1) # 0
    BY <1>2, SameEpoch DEF FinalityAfter
  <1> QED
    BY <1>1, <1>2

\* At start the producer is on time: it has nothing to make yet.
LEMMA PromptInit == Init => PromptInv
  <1> SUFFICES ASSUME Init PROVE PromptInv
    OBVIOUS
  <1>1. now \in Nat /\ genesis = AlignedGenesis(now) /\ chain = <<>> /\ Len(<<>>) = 0
    BY ServerAssumption DEF Init
  <1>2. SlotOf(genesis, now) = 0
    BY <1>1, AlignedReadsZero
  <1>3. EpochOfSlot(0) = 0
    <2>1. EpochSlots \in Nat \ {0} /\ EpochSlots * 0 + 0 = 0 /\ 0 < EpochSlots
      BY SlotClockAssumption
    <2>2. (EpochSlots * 0 + 0) \div EpochSlots = 0
      BY <2>1, DivisionUnique
    <2> QED
      BY <2>1, <2>2 DEF EpochOfSlot
  <1>4. FinalizedAt(0) = 0
    BY DEF FinalizedAt
  <1> QED
    BY <1>1, <1>2, <1>3, <1>4 DEF Init, PromptInv, LastSlot

\* Every step of a node with a prompt producer keeps the invariant.
LEMMA PromptStep ==
    PromptProducer /\ TypeOK /\ ChainInv /\ PromptInv /\ [Next]_vars => PromptInv'
  <1> SUFFICES ASSUME PromptProducer, TypeOK, ChainInv, PromptInv, [Next]_vars
               PROVE  PromptInv'
    OBVIOUS
  <1> DEFINE n == Len(chain)
  <1>1. /\ n \in Nat /\ genesis \in Nat /\ now \in Nat /\ wakeAt \in Nat
        /\ chain \in Seq(Block) /\ draft \in Block
    BY DEF TypeOK
  <1>2. CASE Arm
    <2>1. /\ ppc = "arm" /\ ppc' = "sleep"
          /\ wakeAt' = genesis + (SlotOf(genesis, now) + 1) * SlotSeconds
          /\ UNCHANGED <<chain, finalized, genesis, now>>
      BY <1>2 DEF Arm, NextSlotStart, stateVars
    <2>2. SlotOf(genesis, now) = n
      BY <2>1 DEF PromptInv
    <2>3. wakeAt' = StartOf(n + 1)
      BY <2>1, <2>2 DEF StartOf
    <2>4. now <= wakeAt'
      <3>1. /\ n + 1 \in Nat /\ wakeAt' = genesis + (n + 1) * SlotSeconds
            /\ (n + 1) * SlotSeconds \in Nat
        BY <1>1, <2>1, <2>2, SlotClockAssumption
      <3>2. wakeAt' \in Nat
        BY <1>1, <3>1
      <3> SUFFICES ASSUME wakeAt' <= now PROVE FALSE
        BY <1>1, <3>2
      <3>3. SlotOf(genesis, now) >= n + 1
        BY <1>1, <3>1, SlotOfReached
      <3> QED
        BY <1>1, <2>2, <3>3
    <2> QED
      BY <2>1, <2>3, <2>4 DEF PromptInv, StartOf
  <1>3. CASE Wake
    <2>1. /\ ppc = "sleep" /\ ppc' = "propose" /\ now >= wakeAt
          /\ draft'.slot = SlotOf(genesis, now)
          /\ UNCHANGED <<chain, finalized, genesis, now>>
      BY <1>3 DEF Wake, NoDraft, stateVars
    <2>2. now = genesis + (n + 1) * SlotSeconds
      BY <1>1, <2>1 DEF PromptInv, StartOf
    <2>3. draft'.slot = n + 1
      BY <1>1, <2>1, <2>2, SlotOfStart
    <2> QED
      BY <2>1, <2>2, <2>3 DEF PromptInv, StartOf
  <1>4. CASE Propose
    <2>1. PICK S : draft' = [draft EXCEPT !.height = tipHeight + 1,
                                          !.parent = tipHash,
                                          !.txs = S]
      BY <1>4 DEF Propose
    <2>2. draft'.slot = draft.slot
      BY <1>1, <2>1 DEF Block
    <2>3. /\ ppc = "propose" /\ ppc' = "commit"
          /\ UNCHANGED <<chain, finalized, genesis, now>>
      BY <1>4 DEF Propose, chainVars
    <2> QED
      BY <2>2, <2>3 DEF PromptInv, StartOf
  <1>5. CASE Commit
    <2>1. /\ ppc = "commit" /\ ppc' = "snapshot" /\ chain' = Append(chain, draft)
          /\ finalized' = FinalityAfter(finalized, draft.slot)
          /\ UNCHANGED <<genesis, now>>
      BY <1>5 DEF Commit
    <2>2. draft.slot = n + 1 /\ now = StartOf(n + 1)
      BY <2>1 DEF PromptInv
    <2>3. Len(chain') = n + 1 /\ LastSlot(chain') = n + 1
      BY <1>1, <2>1, <2>2, LastOfAppend
    <2>4. finalized' = FinalizedAt(EpochOfSlot(n + 1))
      BY <1>1, <2>1, <2>2, FinalityFollows DEF PromptInv
    <2> QED
      BY <2>1, <2>2, <2>3, <2>4 DEF PromptInv, StartOf
  <1>6. CASE Snapshot
    BY <1>6 DEF Snapshot, stateVars, PromptInv, StartOf
  <1>7. CASE EndBroadcast
    <2>1. /\ ppc = "broadcast" /\ ppc' = "arm"
          /\ UNCHANGED <<chain, finalized, genesis, now>>
      BY <1>7 DEF EndBroadcast, stateVars
    <2>2. SlotOf(genesis, now) = n
      BY <1>1, <2>1, SlotOfStart DEF PromptInv, StartOf
    <2> QED
      BY <2>1, <2>2 DEF PromptInv
  <1>8. CASE Tick
    <2>1. /\ ppc = "sleep" /\ now < wakeAt /\ now' = now + 1
          /\ UNCHANGED <<ppc, chain, finalized, genesis, wakeAt>>
      BY <1>8 DEF Tick, stateVars, producerVars
    <2>2. now' <= wakeAt
      BY <1>1, <2>1
    <2> QED
      BY <2>1, <2>2 DEF PromptInv, StartOf
  <1>9. CASE ~(Arm \/ Wake \/ Propose \/ Commit \/ Snapshot \/ EndBroadcast \/ Tick)
    <2>1. UNCHANGED <<ppc, chain, finalized, genesis, now, wakeAt, draft>>
      BY <1>9 DEF Next, vars, stateVars, chainVars, producerVars, PostTx, OnTxSubmit,
         OnTxAnnounce, OnApp, Serve, HandshakeFails, Register, ReaderEnds, Cleanup,
         Producer, SendBlock, Horizon
    <2> QED
      BY <2>1 DEF PromptInv, StartOf
  <1> QED
    BY <1>2, <1>3, <1>4, <1>5, <1>6, <1>7, <1>8, <1>9

\* Slots and heights run together.
LEMMA PromptCorrect == PromptProducer => (Spec => []PromptInv)
  <1> SUFFICES ASSUME PromptProducer PROVE Spec => []PromptInv
    OBVIOUS
  <1>1. TypeOK /\ ChainInv /\ PromptInv /\ [Next]_vars => PromptInv'
    BY PromptStep
  <1>2. Spec => []ChainInv
    BY ChainInit, ChainStep, PTL DEF Spec
  <1> QED
    BY <1>1, <1>2, PromptInit, TypeCorrect, PTL DEF Spec

(***************************************************************************)
(* With a producer that misses no slot, what is final is a block that      *)
(* exists, a full epoch below the tip at least; for every epoch length.    *)
(***************************************************************************)
THEOREM FinalityInChain == PromptProducer => (Spec => []FinalityBehindTip)
  <1> SUFFICES ASSUME PromptProducer PROVE Spec => []FinalityBehindTip
    OBVIOUS
  <1>1. ChainInv /\ PromptInv => FinalityBehindTip
    <2> SUFFICES ASSUME ChainInv, PromptInv PROVE FinalityBehindTip
      OBVIOUS
    <2>1. finalized \in Nat /\ LastSlot(chain) = tipHeight
      BY DEF ChainInv, TypeOK, ChainIsLinked, PromptInv
    <2> QED
      BY <2>1 DEF ChainInv, FinalityTrailsSlots, FinalityBehindTip
  <1>2. Spec => []ChainInv
    BY ChainInit, ChainStep, PTL DEF Spec
  <1>3. Spec => []PromptInv
    BY PromptCorrect
  <1> QED
    BY <1>1, <1>2, <1>3, PTL

\* Two epochs less a slot below the tip everything is final.
LEMMA TwoEpochsBelow ==
    ASSUME NEW n \in Nat, NEW i \in Nat \ {0}, i + 2 * EpochSlots - 1 <= n
    PROVE  i <= FinalizedAt(EpochOfSlot(n))
  <1> DEFINE q == EpochOfSlot(n)
             r == SlotInEpoch(n)
             e == EpochSlots
  <1>1. e \in Nat \ {0}
    BY SlotClockAssumption
  <1>2. q \in Nat /\ r \in 0 .. (e - 1) /\ n = e * q + r
    BY <1>1, DivMod DEF EpochOfSlot, SlotInEpoch
  <1> HIDE DEF q, r, e
  <1>3. q >= 2
    <2> SUFFICES ASSUME q = 0 \/ q = 1 PROVE FALSE
      BY <1>2
    <2>1. e * q = 0 \/ e * q = e
      BY <1>1
    <2> QED
      BY <1>1, <1>2, <2>1 DEF e
  <1>4. /\ q - 2 \in Nat /\ e * (q - 2) \in Nat
        /\ e * q = e * (q - 2) + e + e
        /\ (q - 2 + 1) * e = e * (q - 2) + e
    BY <1>1, <1>2, <1>3
  <1>5. FinalizedAt(q) = e * (q - 2) + e
    BY <1>3, <1>4 DEF FinalizedAt, e
  <1>6. i + e + e - 1 <= n
    BY <1>1 DEF e
  <1>7. i <= e * (q - 2) + e
    BY <1>1, <1>2, <1>4, <1>6
  <1> QED
    BY <1>5, <1>7 DEF q

(***************************************************************************)
(* With a producer that misses no slot and a buffer of at least two epochs *)
(* less a slot (256 and 32 in the code), a block is final before it leaves *)
(* the buffer.                                                             *)
(***************************************************************************)
THEOREM FinalBeforeItLeaves ==
    PromptProducer /\ BlockBuffer >= 2 * EpochSlots - 1
        => (Spec => []LeavesBufferFinalized)
  <1> SUFFICES ASSUME PromptProducer, BlockBuffer >= 2 * EpochSlots - 1
               PROVE  Spec => []LeavesBufferFinalized
    OBVIOUS
  <1>1. LookupInv /\ PromptInv => LeavesBufferFinalized
    <2> SUFFICES ASSUME LookupInv, PromptInv,
                        NEW i \in 1 .. (Len(chain) - Len(blocks))
                 PROVE  chain[i].height <= finalized
      BY DEF LeavesBufferFinalized
    <2> DEFINE n == Len(chain)
    <2>1. /\ n \in Nat /\ Len(blocks) \in Nat /\ DOMAIN chain = 1 .. n
          /\ Len(blocks) = Keep(n) /\ BlockBuffer \in Nat /\ EpochSlots \in Nat \ {0}
      BY BufferHeights, ServerAssumption, SlotClockAssumption
      DEF LookupInv, BufferInv, Tracks
    <2>2. i \in Nat \ {0} /\ i \in DOMAIN chain /\ i + BlockBuffer <= n
      BY <2>1 DEF Keep
    <2>3. i + 2 * EpochSlots - 1 <= n
      BY <2>1, <2>2
    <2>4. i <= FinalizedAt(EpochOfSlot(n))
      BY <2>1, <2>2, <2>3, TwoEpochsBelow
    <2>5. chain[i].height = i
      BY <2>2 DEF LookupInv, ChainInv, ChainIsLinked
    <2> QED
      BY <2>4, <2>5 DEF PromptInv
  <1>2. Spec => []PromptInv
    BY PromptCorrect
  <1> QED
    BY <1>1, <1>2, LookupCorrect, PTL

=============================================================================
