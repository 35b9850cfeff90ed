---------------------------- MODULE ServerProofs ----------------------------
(***************************************************************************)
(* Theorems about the listening node, for every set of transactions,       *)
(* connections and node ids, and every capacity, buffer, slot and epoch    *)
(* length: first what the operators of SlotClock and TxStore compute,      *)
(* then the invariants of the node, then that it implements Ledger.        *)
(***************************************************************************)
EXTENDS ServerLedger, Facts

-----------------------------------------------------------------------------
(***************************************************************************)
(* new_aligned_now never yields a genesis in the future.                   *)
(***************************************************************************)
LEMMA AlignedGenesisType ==
    ASSUME NEW t \in Nat
    PROVE  AlignedGenesis(t) \in Nat /\ AlignedGenesis(t) <= t
  <1>1. /\ t % SlotSeconds \in Nat
        /\ t \div SlotSeconds \in Nat
        /\ t = SlotSeconds * (t \div SlotSeconds) + (t % SlotSeconds)
    BY DivMod, SlotClockAssumption
  <1>2. SlotSeconds * (t \div SlotSeconds) \in Nat
    BY <1>1, SlotClockAssumption
  <1> QED
    BY <1>1, <1>2 DEF AlignedGenesis

(***************************************************************************)
(* A slot, its epoch and its place in the epoch are natural numbers.       *)
(***************************************************************************)
LEMMA SlotOfType ==
    ASSUME NEW g \in Nat, NEW t \in Nat
    PROVE  SlotOf(g, t) \in Nat
  BY DivMod, SlotClockAssumption DEF SlotOf, SaturatingSub

\* An epoch and the slots before it add up to the slot.
LEMMA EpochOfSlotType ==
    ASSUME NEW s \in Nat
    PROVE  /\ EpochOfSlot(s) \in Nat
           /\ SlotInEpoch(s) \in Nat
           /\ s = EpochSlots * EpochOfSlot(s) + SlotInEpoch(s)
  BY DivMod, SlotClockAssumption DEF EpochOfSlot, SlotInEpoch

(***************************************************************************)
(* The start of the next slot is a time.                                   *)
(***************************************************************************)
LEMMA NextSlotStartType ==
    ASSUME NEW g \in Nat, NEW t \in Nat
    PROVE  NextSlotStart(g, t) \in Nat
  <1>1. SlotOf(g, t) + 1 \in Nat /\ SlotSeconds \in Nat
    BY SlotOfType, SlotClockAssumption
  <1>2. (SlotOf(g, t) + 1) * SlotSeconds \in Nat
    BY <1>1
  <1> QED
    BY <1>2 DEF NextSlotStart

(***************************************************************************)
(* From the time slot k starts on, slot_of reads k or more.                *)
(***************************************************************************)
LEMMA SlotOfReached ==
    ASSUME NEW g \in Nat, NEW t \in Nat, NEW k \in Nat,
           t >= g + k * SlotSeconds
    PROVE  SlotOf(g, t) >= k
  <1> DEFINE e == t - g
             q == e \div SlotSeconds
             r == e % SlotSeconds
  <1>1. k * SlotSeconds \in Nat /\ SlotSeconds \in Nat \ {0}
    BY SlotClockAssumption
  <1>2. e \in Nat /\ t >= g /\ e >= k * SlotSeconds
    BY <1>1
  <1>3. q \in Nat /\ r \in 0 .. (SlotSeconds - 1) /\ e = SlotSeconds * q + r
    BY <1>1, <1>2, DivMod
  <1>4. SlotOf(g, t) = q
    BY <1>2 DEF SlotOf, SaturatingSub
  <1>5. SUFFICES ASSUME q < k PROVE FALSE
    BY <1>3, <1>4
  <1>6. q + 1 \in Nat /\ q + 1 <= k
    BY <1>3, <1>5
  <1>7. SlotSeconds * (q + 1) <= SlotSeconds * k
    BY <1>1, <1>6, TimesMonotone
  <1>8. SlotSeconds * (q + 1) = SlotSeconds * q + SlotSeconds
    BY <1>1, <1>3
  <1>9. SlotSeconds * k = k * SlotSeconds
    BY <1>1
  <1>10. SlotSeconds * q \in Nat
    BY <1>1, <1>3
  <1> QED
    BY <1>1, <1>2, <1>3, <1>7, <1>8, <1>9, <1>10

(***************************************************************************)
(* As the clock runs, the slot never steps back.                           *)
(***************************************************************************)
LEMMA SlotOfMonotone ==
    ASSUME NEW g \in Nat, NEW t \in Nat, NEW u \in Nat, t <= u
    PROVE  SlotOf(g, t) <= SlotOf(g, u)
  <1> DEFINE q == SlotOf(g, t)
  <1>1. q \in Nat /\ SlotOf(g, u) \in Nat
    BY SlotOfType
  <1>2. CASE t < g
    <2>1. SaturatingSub(t, g) = 0
      BY <1>2 DEF SaturatingSub
    <2>2. q = 0
      BY <2>1, SlotClockAssumption DEF SlotOf
    <2> QED
      BY <1>1, <2>2
  <1>3. CASE t >= g
    <2>1. t - g \in Nat /\ SaturatingSub(t, g) = t - g
      BY <1>3 DEF SaturatingSub
    <2>2. t - g = SlotSeconds * q + ((t - g) % SlotSeconds)
          /\ (t - g) % SlotSeconds \in Nat
      BY <2>1, DivMod, SlotClockAssumption DEF SlotOf
    <2>3. SlotSeconds * q \in Nat /\ SlotSeconds * q = q * SlotSeconds
      BY <1>1, SlotClockAssumption
    <2>4. u >= g + q * SlotSeconds
      BY <2>1, <2>2, <2>3
    <2> QED
      BY <1>1, <2>4, SlotOfReached
  <1> QED
    BY <1>2, <1>3

(***************************************************************************)
(* A sleep that is armed in slot s and not cut short ends in slot s + 1 or *)
(* later.                                                                  *)
(***************************************************************************)
LEMMA NextSlotStartLeavesSlot ==
    ASSUME NEW g \in Nat, NEW t \in Nat, NEW s \in Nat, s <= SlotOf(g, t)
    PROVE  NextSlotStart(g, t) >= g + (s + 1) * SlotSeconds
  <1>1. SlotOf(g, t) \in Nat /\ SlotSeconds \in Nat
    BY SlotOfType, SlotClockAssumption
  <1>2. SlotSeconds * (s + 1) <= SlotSeconds * (SlotOf(g, t) + 1)
    BY <1>1, TimesMonotone
  <1>3. /\ SlotSeconds * (s + 1) = (s + 1) * SlotSeconds
        /\ SlotSeconds * (SlotOf(g, t) + 1) = (SlotOf(g, t) + 1) * SlotSeconds
    BY <1>1
  <1>4. (s + 1) * SlotSeconds \in Nat /\ (SlotOf(g, t) + 1) * SlotSeconds \in Nat
    BY <1>1
  <1> QED
    BY <1>2, <1>3, <1>4 DEF NextSlotStart

-----------------------------------------------------------------------------
(***************************************************************************)
(* The finality rule.  Below a slot s that comes after the slot last, what *)
(* trailed `last` by an epoch trails s by an epoch, and never shrinks.     *)
(***************************************************************************)
LEMMA FinalityAfterTrails ==
    ASSUME NEW f \in Nat, NEW last \in Nat, NEW s \in Nat, last < s,
           f > 0 => f + EpochSlots <= last
    PROVE  /\ FinalityAfter(f, s) \in Nat
           /\ FinalityAfter(f, s) >= f
           /\ FinalityAfter(f, s) > 0 => FinalityAfter(f, s) + EpochSlots <= s
  <1> DEFINE e == EpochOfSlot(s)
  <1>1. /\ e \in Nat
        /\ SlotInEpoch(s) \in Nat
        /\ s = EpochSlots * e + SlotInEpoch(s)
    BY EpochOfSlotType
  <1>2. EpochSlots \in Nat \ {0}
    BY SlotClockAssumption
  <1>3. CASE SlotInEpoch(s) # 0
    <2>1. FinalityAfter(f, s) = f
      BY <1>3 DEF FinalityAfter
    <2> QED
      BY <2>1, <1>2
  <1>4. CASE SlotInEpoch(s) = 0 /\ e >= 2
    <2>1. FinalityAfter(f, s) = (e - 1) * EpochSlots
      BY <1>1, <1>4 DEF FinalityAfter, FinalizedAt
    <2>2. e - 1 \in Nat /\ (e - 1) * EpochSlots \in Nat
      BY <1>1, <1>2, <1>4
    <2>3. (e - 1) * EpochSlots + EpochSlots = EpochSlots * e
      BY <1>1, <1>2
    <2>4. EpochSlots * e = s
      BY <1>1, <1>2, <1>4
    <2> QED
      BY <1>2, <2>1, <2>2, <2>3, <2>4
  <1>5. CASE SlotInEpoch(s) = 0 /\ ~(e >= 2)
    <2>1. FinalityAfter(f, s) = 0
      BY <1>5 DEF FinalityAfter, FinalizedAt
    <2>2. e = 0 \/ e = 1
      BY <1>1, <1>5
    <2>3. s <= EpochSlots
      BY <1>1, <1>2, <1>5, <2>2
    <2>4. f = 0
      BY <1>2, <2>3
    <2> QED
      BY <2>1, <2>4
  <1> QED
    BY <1>3, <1>4, <1>5

-----------------------------------------------------------------------------
(***************************************************************************)
(* TxStore::default() is a store within its capacity that has seen no      *)
(* nonce.                                                                  *)
(***************************************************************************)
LEMMA EmptyStoreGood ==
    FiniteStore(EmptyStore) /\ WithinCapacity(EmptyStore) /\ NonceExact(EmptyStore)
  <1>1. EmptyStore \in Store
    BY DEF EmptyStore, Store
  <1>2. EmptyStore.byId = {} /\ EmptyStore.seen = {}
        /\ EmptyStore.maxNonce = [k \in Key |-> 0]
    BY DEF EmptyStore
  <1>3. IsFiniteSet({}) /\ Cardinality({}) = 0
    BY FS_EmptySet
  <1> QED
    BY <1>1, <1>2, <1>3, TxStoreAssumption
    DEF FiniteStore, WithinCapacity, NonceExact

(***************************************************************************)
(* insert_if_new yields a store.                                           *)
(***************************************************************************)
LEMMA InsertType ==
    ASSUME NEW s, FiniteStore(s), NEW t \in Tx, NEW out \in Evictable(s)
    PROVE  FiniteStore(Insert(s, t, out))
  <1>1. /\ s.byId \in SUBSET Tx
        /\ s.seen \in SUBSET Tx
        /\ s.maxNonce \in [Key -> Nat]
        /\ IsFiniteSet(s.byId)
    BY DEF FiniteStore, Store
  <1>2. (s.byId \ out) \cup {t} \in SUBSET Tx /\ s.seen \cup {t} \in SUBSET Tx
    BY <1>1
  <1>3. From[t] \in Key /\ Nonce[t] \in Nat
    BY TxStoreAssumption
  <1>4. [s.maxNonce EXCEPT ![From[t]] = IF Nonce[t] > @ THEN Nonce[t] ELSE @]
            \in [Key -> Nat]
    BY <1>1, <1>3
  <1>5. IsFiniteSet((s.byId \ out) \cup {t})
    BY <1>1, FS_Difference, FS_AddElement
  <1> QED
    BY <1>2, <1>4, <1>5 DEF FiniteStore, Store, Insert

(***************************************************************************)
(* A store within its capacity is still within it after an insertion: the  *)
(* eviction makes the room that the new entry takes.                       *)
(***************************************************************************)
LEMMA InsertWithinCapacity ==
    ASSUME NEW s, FiniteStore(s), WithinCapacity(s), NEW t \in Tx,
           NEW out \in Evictable(s)
    PROVE  WithinCapacity(Insert(s, t, out))
  <1> DEFINE rest == s.byId \ out
  <1>1. IsFiniteSet(s.byId) /\ Cardinality(s.byId) \in Nat
    BY FS_CardinalityType DEF FiniteStore
  <1>2. IsFiniteSet(rest) /\ Cardinality(rest) \in Nat
    BY <1>1, FS_Difference, FS_CardinalityType
  <1>3. Cardinality(rest) < Capacity
    <2>1. CASE Cardinality(s.byId) >= Capacity
      <3>1. PICK v \in s.byId : out = {v}
        BY <2>1 DEF Evictable
      <3>2. Cardinality(rest) = Cardinality(s.byId) - 1
        BY <1>1, <3>1, FS_RemoveElement
      <3> QED
        BY <1>1, <1>2, <3>2, TxStoreAssumption DEF WithinCapacity
    <2>2. CASE ~(Cardinality(s.byId) >= Capacity)
      <3>1. out = {}
        BY <2>2 DEF Evictable
      <3>2. rest = s.byId
        BY <3>1
      <3> QED
        BY <1>1, <2>2, <3>2, TxStoreAssumption
    <2> QED
      BY <2>1, <2>2
  <1>4. Cardinality(rest \cup {t}) <= Cardinality(rest) + 1
    <2>1. CASE t \in rest
      <3>1. rest \cup {t} = rest
        BY <2>1
      <3> HIDE DEF rest
      <3>2. Cardinality(rest \cup {t}) = Cardinality(rest)
        BY <3>1
      <3> QED
        BY <1>2, <3>2
    <2>2. CASE t \notin rest
      <3> HIDE DEF rest
      <3>1. Cardinality(rest \cup {t}) = Cardinality(rest) + 1
        BY <1>2, <2>2, FS_AddElement
      <3> QED
        BY <1>2, <3>1
    <2> QED
      BY <2>1, <2>2
  <1>5. IsFiniteSet(rest \cup {t}) /\ Cardinality(rest \cup {t}) \in Nat
    BY <1>2, FS_AddElement, FS_CardinalityType
  <1>6. Insert(s, t, out).byId = rest \cup {t}
    BY DEF Insert
  <1> QED
    BY <1>2, <1>3, <1>4, <1>5, <1>6, TxStoreAssumption DEF WithinCapacity

(***************************************************************************)
(* The nonce memory stays exact.                                           *)
(***************************************************************************)
LEMMA InsertNonceExact ==
    ASSUME NEW s, FiniteStore(s), NonceExact(s), NEW t \in Tx,
           NEW out \in Evictable(s)
    PROVE  NonceExact(Insert(s, t, out))
  <1> DEFINE r == Insert(s, t, out)
             m == s.maxNonce
             k == From[t]
  <1>1. s.seen \in SUBSET Tx /\ m \in [Key -> Nat]
    BY DEF FiniteStore, Store
  <1>2. k \in Key /\ Nonce[t] \in Nat /\ m[k] \in Nat
    BY <1>1, TxStoreAssumption
  <1>3. r.seen = s.seen \cup {t}
    BY DEF Insert
  <1>4. r.maxNonce = [m EXCEPT ![k] = IF Nonce[t] > m[k] THEN Nonce[t] ELSE m[k]]
    BY DEF Insert
  <1>5. ASSUME NEW u \in r.seen
        PROVE  Nonce[u] <= r.maxNonce[From[u]]
    <2>1. u \in Tx /\ From[u] \in Key /\ Nonce[u] \in Nat /\ m[From[u]] \in Nat
      BY <1>1, <1>3, TxStoreAssumption
    <2>2. r.maxNonce[From[u]] =
              IF From[u] = k THEN IF Nonce[t] > m[k] THEN Nonce[t] ELSE m[k]
                             ELSE m[From[u]]
      BY <1>1, <1>4, <2>1
    <2>3. u = t \/ Nonce[u] <= m[From[u]]
      BY <1>3 DEF NonceExact
    <2> QED
      BY <1>2, <2>1, <2>2, <2>3
  <1>6. ASSUME NEW j \in Key
        PROVE  \/ r.maxNonce[j] = 0
               \/ \E u \in r.seen : From[u] = j /\ Nonce[u] = r.maxNonce[j]
    <2>1. CASE j = k /\ Nonce[t] > m[k]
      BY <1>1, <1>2, <1>3, <1>4, <2>1
    <2>2. CASE ~(j = k /\ Nonce[t] > m[k])
      <3>1. r.maxNonce[j] = m[j]
        BY <1>1, <1>2, <1>4, <2>2
      <3>2. m[j] = 0 \/ \E u \in s.seen : From[u] = j /\ Nonce[u] = m[j]
        BY DEF NonceExact
      <3> QED
        BY <1>3, <3>1, <3>2
    <2> QED
      BY <2>1, <2>2
  <1> QED
    BY <1>5, <1>6 DEF NonceExact

(***************************************************************************)
(* drain_block takes entries of the store and leaves a store that is no    *)
(* larger and remembers the same nonces.                                   *)
(***************************************************************************)
LEMMA DrainGood ==
    ASSUME NEW s, FiniteStore(s), NEW n \in Nat, NEW S \in Drainable(s, n)
    PROVE  /\ S \subseteq s.byId
           /\ FiniteStore(Drain(s, S))
           /\ WithinCapacity(s) => WithinCapacity(Drain(s, S))
           /\ NonceExact(s) => NonceExact(Drain(s, S))
  <1> DEFINE r == Drain(s, S)
  <1>1. s \in Store /\ IsFiniteSet(s.byId) /\ S \subseteq s.byId
    BY DEF FiniteStore, Drainable
  <1>2. r = [byId |-> s.byId \ S, seen |-> s.seen, maxNonce |-> s.maxNonce]
    BY <1>1 DEF Drain, Store
  <1>3. IsFiniteSet(s.byId \ S)
    BY <1>1, FS_Difference
  <1>4. Cardinality(s.byId \ S) <= Cardinality(s.byId)
    BY <1>1, <1>3, FS_Subset
  <1>5. FiniteStore(r)
    BY <1>1, <1>2, <1>3 DEF FiniteStore, Store
  <1>6. Cardinality(s.byId \ S) \in Nat /\ Cardinality(s.byId) \in Nat
    BY <1>1, <1>3, FS_CardinalityType
  <1>7. WithinCapacity(s) => WithinCapacity(r)
    BY <1>2, <1>4, <1>6, TxStoreAssumption DEF WithinCapacity
  <1>8. NonceExact(s) => NonceExact(r)
    BY <1>2 DEF NonceExact
  <1> QED
    BY <1>1, <1>5, <1>7, <1>8

-----------------------------------------------------------------------------
(***************************************************************************)
(* The messages the server sends, and what a send does to the channels.    *)
(***************************************************************************)
LEMMA MsgType ==
    /\ Ack \in Msg
    /\ \A M \in SUBSET NodeId : Peers(M) \in Msg
    /\ \A t \in Tx : TxAck(t, TRUE) \in Msg /\ TxAck(t, FALSE) \in Msg
    /\ \A t \in Tx : TxAnnounce(t) \in Msg
    /\ \A b \in Block : NewBlock(b) \in Msg
  BY DEF Msg, Ack, Peers, TxAck, TxAnnounce, NewBlock

\* A send leaves streams of messages behind.
LEMMA SentToType ==
    ASSUME chan \in [Conn -> Seq(Msg)], NEW S, NEW m \in Msg
    PROVE  SentTo(S, m) \in [Conn -> Seq(Msg)]
  BY DEF SentTo

(***************************************************************************)
(* The recent-block buffer holds blocks.                                   *)
(***************************************************************************)
LEMMA RecentAfterType ==
    ASSUME NEW recent \in Seq(Block), NEW b \in Block
    PROVE  RecentAfter(recent, b) \in Seq(Block)
  <1>1. Append(recent, b) \in Seq(Block) /\ Len(Append(recent, b)) = Len(recent) + 1
    OBVIOUS
  <1>2. Append(recent, b) # <<>>
    <2>1. Len(recent) \in Nat /\ Len(<<>>) = 0
      OBVIOUS
    <2> QED
      BY <1>1, <2>1
  <1>3. Tail(Append(recent, b)) \in Seq(Block)
    BY <1>1, <1>2
  <1> QED
    BY <1>1, <1>3 DEF RecentAfter

(***************************************************************************)
(* finalized_height is a height whatever the slot of the block.            *)
(***************************************************************************)
LEMMA FinalityAfterType ==
    ASSUME NEW f \in Nat, NEW s \in Nat
    PROVE  FinalityAfter(f, s) \in Nat
  <1>1. EpochOfSlot(s) \in Nat /\ EpochSlots \in Nat
    BY EpochOfSlotType, SlotClockAssumption
  <1>2. CASE EpochOfSlot(s) >= 2
    <2>1. EpochOfSlot(s) - 2 + 1 \in Nat
      BY <1>1, <1>2
    <2>2. (EpochOfSlot(s) - 2 + 1) * EpochSlots \in Nat
      BY <1>1, <2>1
    <2> QED
      BY <2>2 DEF FinalityAfter, FinalizedAt
  <1>3. CASE ~(EpochOfSlot(s) >= 2)
    BY <1>3 DEF FinalityAfter, FinalizedAt
  <1> QED
    BY <1>2, <1>3

(***************************************************************************)
(* An accepted transaction leaves a store behind.                          *)
(***************************************************************************)
LEMMA InsertedType ==
    ASSUME FiniteStore(pool), evicted \in SUBSET Tx, NEW t \in Tx, Inserted(t)
    PROVE  FiniteStore(pool') /\ evicted' \in SUBSET Tx
  <1>1. PICK out \in Evictable(pool) :
            pool' = Insert(pool, t, out) /\ evicted' = evicted \cup out
    BY DEF Inserted
  <1>2. out \in SUBSET Tx
    BY DEF Evictable, FiniteStore, Store
  <1> QED
    BY <1>1, <1>2, InsertType

-----------------------------------------------------------------------------
\* The first state is well typed.
LEMMA TypeInit == Init => TypeOK
  <1> SUFFICES ASSUME Init PROVE TypeOK
    OBVIOUS
  <1>1. now \in Nat /\ genesis \in Nat
    BY AlignedGenesisType, ServerAssumption DEF Init
  <1>2. NoDraft \in Block
    BY DEF NoDraft, Block, GENESIS, Hash
  <1>3. FiniteStore(pool)
    BY EmptyStoreGood DEF Init
  <1>4. tipHash \in Hash
    BY DEF Init, GENESIS, Hash
  <1> QED
    BY <1>1, <1>2, <1>3, <1>4 DEF Init, TypeOK, ConnStage, ProducerStage

\* Every step keeps the types.
LEMMA TypeStep == TypeOK /\ [Next]_vars => TypeOK'
  <1> SUFFICES ASSUME TypeOK, [Next]_vars PROVE TypeOK'
    OBVIOUS
  <1> USE DEF stateVars, chainVars, producerVars
  <1>1. ASSUME NEW t \in Tx, PostTx(t) PROVE TypeOK'
    <2>1. FiniteStore(pool') /\ evicted' \in SUBSET Tx
      BY <1>1, InsertedType DEF PostTx, TypeOK
    <2>2. chan' \in [Conn -> Seq(Msg)]
      BY <1>1, MsgType, SentToType DEF PostTx, TypeOK
    <2> QED
      BY <1>1, <2>1, <2>2 DEF PostTx, Serve, TypeOK
  <1>2. ASSUME NEW c \in Conn, NEW t \in Tx, OnTxSubmit(c, t) PROVE TypeOK'
    <2>1. FiniteStore(pool') /\ evicted' \in SUBSET Tx
      BY <1>2, InsertedType DEF OnTxSubmit, Refused, Known, TypeOK
    <2>2. chan' \in [Conn -> Seq(Msg)]
      <3>1. CASE Refused(t) /\ chan' = Answer(c, TxAck(t, FALSE))
        BY <3>1, MsgType, SentToType DEF Answer, TypeOK
      <3>2. CASE Known(t) /\ chan' = Answer(c, TxAck(t, TRUE))
        BY <3>2, MsgType, SentToType DEF Answer, TypeOK
      <3>3. CASE chan' = [d \in Conn |->
                     IF d = peers[NodeOf[c]] THEN Append(chan[d], TxAck(t, TRUE))
                     ELSE IF d \in Registered THEN Append(chan[d], TxAnnounce(t))
                     ELSE chan[d]]
        <4>1. TxAck(t, TRUE) \in Msg /\ TxAnnounce(t) \in Msg
          BY MsgType
        <4>2. chan \in [Conn -> Seq(Msg)]
          BY DEF TypeOK
        <4>3. \A s \in Seq(Msg), m \in Msg : Append(s, m) \in Seq(Msg)
          OBVIOUS
        <4> QED
          BY <3>3, <4>1, <4>2, <4>3
      <3> QED
        BY <1>2, <3>1, <3>2, <3>3 DEF OnTxSubmit
    <2> QED
      BY <1>2, <2>1, <2>2 DEF OnTxSubmit, Serve, TypeOK
  <1>3. ASSUME NEW c \in Conn, NEW t \in Tx, OnTxAnnounce(c, t) PROVE TypeOK'
    <2>1. FiniteStore(pool') /\ evicted' \in SUBSET Tx
      BY <1>3, InsertedType DEF OnTxAnnounce, TypeOK
    <2> QED
      BY <1>3, <2>1 DEF OnTxAnnounce, Serve, TypeOK
  <1>4. ASSUME NEW c \in Conn, OnApp(c) PROVE TypeOK'
    <2>1. chan' \in [Conn -> Seq(Msg)]
      BY <1>4, MsgType, SentToType DEF OnApp, Answer, TypeOK
    <2> QED
      BY <1>4, <2>1 DEF OnApp, Serve, TypeOK
  <1>5. ASSUME NEW c \in Conn, HandshakeFails(c) PROVE TypeOK'
    BY <1>5 DEF HandshakeFails, TypeOK, ConnStage
  <1>6. ASSUME NEW c \in Conn, Register(c) PROVE TypeOK'
    <2>1. NodeOf[c] \in NodeId
      BY ServerAssumption
    <2>2. Peers({n \in NodeId : peers[n] # NoConn} \cup {NodeOf[c]}) \in Msg
      BY <2>1, MsgType
    <2>3. chan' \in [Conn -> Seq(Msg)]
      BY <1>6, <2>2 DEF Register, TypeOK
    <2> QED
      BY <1>6, <2>1, <2>3 DEF Register, TypeOK, ConnStage
  <1>7. ASSUME NEW c \in Conn, ReaderEnds(c) PROVE TypeOK'
    BY <1>7 DEF ReaderEnds, TypeOK, ConnStage
  <1>8. ASSUME NEW c \in Conn, Cleanup(c) PROVE TypeOK'
    BY <1>8 DEF Cleanup, TypeOK, ConnStage
  <1>9. CASE Arm
    <2>1. wakeAt' \in Nat
      BY <1>9, NextSlotStartType DEF Arm, TypeOK
    <2> QED
      BY <1>9, <2>1 DEF Arm, TypeOK, ProducerStage
  <1>10. CASE Wake
    <2>1. SlotOf(genesis, now) \in Nat /\ EpochOfSlot(SlotOf(genesis, now)) \in Nat
      BY SlotOfType, EpochOfSlotType DEF TypeOK
    <2>2. draft' \in Block
      BY <1>10, <2>1 DEF Wake, NoDraft, Block, GENESIS, Hash
    <2> QED
      BY <1>10, <2>2 DEF Wake, TypeOK, ProducerStage
  <1>11. CASE Propose
    <2>1. PICK S \in Drainable(pool, MaxTxsPerBlock) :
              /\ pool' = Drain(pool, S)
              /\ draft' = [draft EXCEPT !.height = tipHeight + 1,
                                        !.parent = tipHash,
                                        !.txs = S]
      BY <1>11 DEF Propose
    <2>2. S \subseteq pool.byId /\ FiniteStore(pool')
      BY <2>1, DrainGood, ServerAssumption DEF TypeOK
    <2>3. draft' \in Block
      <3>1. tipHeight + 1 \in Nat /\ tipHash \in Hash /\ S \in SUBSET Tx
        BY <2>2 DEF TypeOK, FiniteStore, Store
      <3>2. draft \in Block
        BY DEF TypeOK
      <3> QED
        BY <2>1, <3>1, <3>2 DEF Block
    <2> QED
      BY <1>11, <2>2, <2>3 DEF Propose, TypeOK, ProducerStage
  <1>12. CASE Commit
    <2>1. draft.height \in Nat /\ draft.slot \in Nat /\ HeaderHash(draft) \in Hash
      BY DEF TypeOK, Block, HeaderHash, Hash
    <2>2. finalized' \in Nat
      BY <1>12, <2>1, FinalityAfterType DEF Commit, TypeOK
    <2>3. blocks' \in Seq(Block) /\ chain' \in Seq(Block)
      BY <1>12, RecentAfterType DEF Commit, TypeOK
    <2> QED
      BY <1>12, <2>1, <2>2, <2>3 DEF Commit, TypeOK, ProducerStage
  <1>13. CASE Snapshot
    <2>1. Registered \in SUBSET Conn
      BY DEF Registered, TypeOK
    <2> QED
      BY <1>13, <2>1 DEF Snapshot, TypeOK, ProducerStage
  <1>14. ASSUME NEW c \in Conn, SendBlock(c) PROVE TypeOK'
    <2>1. chan' \in [Conn -> Seq(Msg)]
      BY <1>14, MsgType, SentToType DEF SendBlock, TypeOK
    <2> QED
      BY <1>14, <2>1 DEF SendBlock, TypeOK
  <1>15. CASE EndBroadcast
    <2>1. NoDraft \in Block
      BY DEF NoDraft, Block, GENESIS, Hash
    <2> QED
      BY <1>15, <2>1 DEF EndBroadcast, TypeOK, ProducerStage
  <1>16. CASE Tick
    BY <1>16 DEF Tick, TypeOK
  <1>17. CASE UNCHANGED vars
    BY <1>17 DEF vars, TypeOK
  <1> QED
    BY <1>1, <1>2, <1>3, <1>4, <1>5, <1>6, <1>7, <1>8, <1>9, <1>10, <1>11,
       <1>12, <1>13, <1>14, <1>15, <1>16, <1>17
    DEF Next, Producer, Horizon

(***************************************************************************)
(* The State struct, the tasks' locals and every channel keep their types. *)
(***************************************************************************)
THEOREM TypeCorrect == Spec => []TypeOK
  BY TypeInit, TypeStep, PTL DEF Spec

-----------------------------------------------------------------------------
(***************************************************************************)
(* The chain.  ChainIsLinked is not inductive: that slots strictly         *)
(* increase rests on where the producer is between two blocks.             *)
(***************************************************************************)
SlotInv ==
    /\ LastSlot(chain) <= SlotOf(genesis, now)
    /\ ppc = "sleep" => wakeAt >= genesis + (LastSlot(chain) + 1) * SlotSeconds
    /\ ppc \in {"propose", "commit"} =>
           LastSlot(chain) < draft.slot /\ draft.slot <= SlotOf(genesis, now)

ChainInv ==
    /\ TypeOK
    /\ SlotInv
    /\ ChainIsLinked
    /\ DraftExtendsTip
    /\ FinalityTrailsSlots

\* The slot of the last block of a chain is a slot.
LEMMA LastSlotType ==
    ASSUME NEW s \in Seq(Block)
    PROVE  LastSlot(s) \in Nat
  <1>1. CASE s = <<>>
    BY <1>1 DEF LastSlot
  <1>2. CASE s # <<>>
    <2>1. Len(s) \in DOMAIN s
      BY <1>2
    <2>2. s[Len(s)] \in Block
      BY <2>1
    <2> QED
      BY <1>2, <2>2 DEF LastSlot, Block
  <1> QED
    BY <1>1, <1>2

\* What the last block of a chain is after an append.
LEMMA LastOfAppend ==
    ASSUME NEW s \in Seq(Block), NEW b \in Block
    PROVE  /\ LastSlot(Append(s, b)) = b.slot
           /\ LastHash(Append(s, b)) = HeaderHash(b)
  <1>1. /\ Len(Append(s, b)) = Len(s) + 1
        /\ Len(s) \in Nat
        /\ Len(<<>>) = 0
        /\ Append(s, b)[Len(s) + 1] = b
    OBVIOUS
  <1>2. Append(s, b) # <<>>
    BY <1>1
  <1> QED
    BY <1>1, <1>2 DEF LastSlot, LastHash

(***************************************************************************)
(* A block that extends the tip leaves a linked chain behind.              *)
(***************************************************************************)
LEMMA CommitLinks ==
    ASSUME TypeOK, ChainIsLinked, DraftExtendsTip, Commit
    PROVE  ChainIsLinked'
  <1> DEFINE n == Len(chain)
  <1>1. /\ chain \in Seq(Block) /\ draft \in Block
        /\ tipHeight = n /\ tipHash = LastHash(chain)
    BY DEF TypeOK, ChainIsLinked
  <1>2. /\ draft.height = n + 1
        /\ draft.parent = LastHash(chain)
        /\ draft.slot > LastSlot(chain)
    BY <1>1 DEF DraftExtendsTip, Commit
  <1>3. /\ n \in Nat /\ DOMAIN chain = 1 .. n
        /\ Len(chain') = n + 1 /\ DOMAIN chain' = 1 .. (n + 1)
        /\ chain'[n + 1] = draft
        /\ \A i \in 1 .. n : chain'[i] = chain[i]
    BY <1>1 DEF Commit
  <1>4. \A i \in DOMAIN chain' : chain'[i].height = i
    BY <1>2, <1>3 DEF ChainIsLinked
  <1>5. ASSUME NEW i \in DOMAIN chain', i > 1
        PROVE  /\ chain'[i].parent = HeaderHash(chain'[i - 1])
               /\ chain'[i].slot > chain'[i - 1].slot
    <2>1. CASE i \in 1 .. n
      <3>1. i - 1 \in 1 .. n
        BY <1>3, <1>5, <2>1
      <3> QED
        BY <1>3, <1>5, <2>1, <3>1 DEF ChainIsLinked
    <2>2. CASE i = n + 1
      <3>1. n \in 1 .. n /\ i - 1 = n
        BY <1>3, <1>5, <2>2
      <3>2. chain # <<>>
        BY <1>3, <3>1
      <3> QED
        BY <1>2, <1>3, <2>2, <3>1, <3>2 DEF LastHash, LastSlot
    <2> QED
      BY <1>3, <2>1, <2>2
  <1>6. chain'[1].parent = GENESIS /\ chain'[1].slot > 0
    <2>1. CASE chain = <<>>
      BY <1>2, <1>3, <2>1 DEF LastHash, LastSlot
    <2>2. CASE chain # <<>>
      <3>1. 1 \in 1 .. n
        BY <1>1, <1>3, <2>2
      <3> QED
        BY <1>3, <2>2, <3>1 DEF ChainIsLinked
    <2> QED
      BY <2>1, <2>2
  <1>7. tipHeight' = Len(chain') /\ tipHash' = LastHash(chain')
    BY <1>1, <1>2, <1>3, LastOfAppend DEF Commit
  <1> QED
    BY <1>4, <1>5, <1>6, <1>7 DEF ChainIsLinked

\* The invariant of the chain holds at the start.
LEMMA ChainInit == Init => ChainInv
  <1> SUFFICES ASSUME Init PROVE ChainInv
    OBVIOUS
  <1>1. TypeOK
    BY TypeInit
  <1>2. LastSlot(chain) = 0 /\ LastHash(chain) = GENESIS
    BY DEF Init, LastSlot, LastHash
  <1>3. SlotOf(genesis, now) \in Nat
    BY <1>1, SlotOfType DEF TypeOK
  <1>4. SlotInv
    BY <1>2, <1>3 DEF Init, SlotInv
  <1>5. ChainIsLinked
    BY <1>2 DEF Init, ChainIsLinked
  <1> QED
    BY <1>1, <1>4, <1>5 DEF Init, ChainInv, DraftExtendsTip, FinalityTrailsSlots

\* Every step keeps the invariant of the chain.
LEMMA ChainStep == ChainInv /\ [Next]_vars => ChainInv'
  <1> SUFFICES ASSUME ChainInv, [Next]_vars PROVE ChainInv'
    OBVIOUS
  <1>1. TypeOK /\ TypeOK'
    BY TypeStep DEF ChainInv
  <1>2. /\ SlotInv /\ ChainIsLinked /\ DraftExtendsTip /\ FinalityTrailsSlots
        /\ LastSlot(chain) \in Nat
        /\ SlotOf(genesis, now) \in Nat
    BY <1>1, LastSlotType, SlotOfType DEF ChainInv, TypeOK
  <1>3. CASE UNCHANGED <<chainVars, ppc, wakeAt, draft, genesis, now>>
    BY <1>1, <1>2, <1>3
    DEF ChainInv, SlotInv, ChainIsLinked, DraftExtendsTip, FinalityTrailsSlots,
        chainVars
  <1>4. CASE Arm
    <2>1. wakeAt' >= genesis + (LastSlot(chain) + 1) * SlotSeconds
      BY <1>1, <1>2, <1>4, NextSlotStartLeavesSlot DEF Arm, SlotInv, TypeOK
    <2>2. UNCHANGED <<tipHash, tipHeight, finalized, chain, genesis, now>>
          /\ ppc' = "sleep"
      BY <1>4 DEF Arm, stateVars
    <2> QED
      BY <1>1, <1>2, <2>1, <2>2
      DEF ChainInv, SlotInv, ChainIsLinked, DraftExtendsTip, FinalityTrailsSlots
  <1>5. CASE Wake
    <2>1. /\ UNCHANGED <<tipHash, tipHeight, finalized, chain, genesis, now>>
          /\ ppc = "sleep" /\ ppc' = "propose"
          /\ now >= wakeAt
      BY <1>5 DEF Wake, stateVars
    <2>2. draft'.slot = SlotOf(genesis, now)
      BY <1>5 DEF Wake, NoDraft
    <2>3. wakeAt >= genesis + (LastSlot(chain) + 1) * SlotSeconds
      BY <1>2, <2>1 DEF SlotInv
    <2>4. (LastSlot(chain) + 1) * SlotSeconds \in Nat
      <3>1. LastSlot(chain) + 1 \in Nat /\ SlotSeconds \in Nat
        BY <1>2, SlotClockAssumption
      <3> QED
        BY <3>1
    <2>5. now >= genesis + (LastSlot(chain) + 1) * SlotSeconds
      BY <1>1, <2>1, <2>3, <2>4 DEF TypeOK
    <2>6. SlotOf(genesis, now) >= LastSlot(chain) + 1
      BY <1>1, <1>2, <2>5, SlotOfReached DEF TypeOK
    <2> QED
      BY <1>1, <1>2, <2>1, <2>2, <2>6
      DEF ChainInv, SlotInv, ChainIsLinked, DraftExtendsTip, FinalityTrailsSlots
  <1>6. CASE Propose
    <2>1. /\ UNCHANGED <<tipHash, tipHeight, finalized, chain, genesis, now>>
          /\ ppc = "propose" /\ ppc' = "commit"
      BY <1>6 DEF Propose, chainVars
    <2>2. /\ draft'.slot = draft.slot
          /\ draft'.height = tipHeight + 1
          /\ draft'.parent = tipHash
      BY <1>1, <1>6 DEF Propose, TypeOK, Block
    <2> QED
      BY <1>1, <1>2, <2>1, <2>2
      DEF ChainInv, SlotInv, ChainIsLinked, DraftExtendsTip, FinalityTrailsSlots
  <1>7. CASE Commit
    <2>1. /\ ppc = "commit" /\ ppc' = "snapshot"
          /\ chain' = Append(chain, draft)
          /\ finalized' = FinalityAfter(finalized, draft.slot)
          /\ UNCHANGED <<genesis, now>>
      BY <1>7 DEF Commit
    <2>2. draft \in Block /\ draft.slot \in Nat /\ chain \in Seq(Block)
          /\ finalized \in Nat
      BY <1>1 DEF TypeOK, Block
    <2>3. LastSlot(chain') = draft.slot
      BY <2>1, <2>2, LastOfAppend
    <2>4. LastSlot(chain) < draft.slot /\ draft.slot <= SlotOf(genesis, now)
      BY <1>2, <2>1 DEF SlotInv
    <2>5. FinalityTrailsSlots'
      BY <1>2, <2>1, <2>2, <2>3, <2>4, FinalityAfterTrails DEF FinalityTrailsSlots
    <2>6. ChainIsLinked'
      BY <1>1, <1>2, <1>7, CommitLinks
    <2> QED
      BY <1>1, <2>1, <2>3, <2>4, <2>5, <2>6 DEF ChainInv, SlotInv, DraftExtendsTip
  <1>8. CASE Snapshot \/ EndBroadcast
    <2>1. /\ UNCHANGED <<tipHash, tipHeight, finalized, chain, genesis, now>>
          /\ ppc' \in {"broadcast", "arm"}
      BY <1>8 DEF Snapshot, EndBroadcast, stateVars
    <2> QED
      BY <1>1, <1>2, <2>1
      DEF ChainInv, SlotInv, ChainIsLinked, DraftExtendsTip, FinalityTrailsSlots
  <1>9. CASE Tick
    <2>1. /\ UNCHANGED <<tipHash, tipHeight, finalized, chain, genesis, ppc, wakeAt, draft>>
          /\ now' = now + 1
      BY <1>9 DEF Tick, stateVars, producerVars
    <2>2. SlotOf(genesis, now) <= SlotOf(genesis, now') /\ SlotOf(genesis, now') \in Nat
      <3>1. genesis \in Nat /\ now \in Nat /\ now' \in Nat /\ now <= now'
        BY <1>1, <2>1 DEF TypeOK
      <3> QED
        BY <3>1, SlotOfMonotone, SlotOfType
    <2>3. draft.slot \in Nat
      BY <1>1 DEF TypeOK, Block
    <2> QED
      BY <1>1, <1>2, <2>1, <2>2, <2>3
      DEF ChainInv, SlotInv, ChainIsLinked, DraftExtendsTip, FinalityTrailsSlots
  <1>10. CASE \E c \in Conn, t \in Tx : OnTxSubmit(c, t) \/ OnTxAnnounce(c, t)
    BY <1>3, <1>10 DEF OnTxSubmit, OnTxAnnounce, Serve, producerVars
  <1>11. CASE \E t \in Tx : PostTx(t)
    BY <1>3, <1>11 DEF PostTx, Serve, producerVars
  <1>12. CASE \E c \in Conn : \/ OnApp(c) \/ HandshakeFails(c) \/ Register(c)
                              \/ ReaderEnds(c) \/ Cleanup(c) \/ SendBlock(c)
    BY <1>3, <1>12
    DEF OnApp, Serve, HandshakeFails, Register, ReaderEnds, Cleanup, SendBlock,
        producerVars, stateVars, chainVars
  <1>13. CASE UNCHANGED vars
    BY <1>3, <1>13 DEF vars, chainVars
  <1> QED
    BY <1>4, <1>5, <1>6, <1>7, <1>8, <1>9, <1>10, <1>11, <1>12, <1>13
    DEF Next, Producer, Horizon

(***************************************************************************)
(* The committed blocks form one chain with strictly increasing slots and  *)
(* the tip is its last block, however late the producer runs; the tip read *)
(* under the producer's first guard is still the tip under the second.     *)
(***************************************************************************)
THEOREM ChainCorrect == Spec => [](ChainIsLinked /\ DraftExtendsTip)
  <1>1. Spec => []ChainInv
    BY ChainInit, ChainStep, PTL DEF Spec
  <1>2. ChainInv => ChainIsLinked /\ DraftExtendsTip
    BY DEF ChainInv
  <1> QED
    BY <1>1, <1>2, PTL

(***************************************************************************)
(* What is final lies a full epoch of slots below the last block, however  *)
(* many slots the producer missed.                                         *)
(***************************************************************************)
THEOREM FinalityTrails == Spec => []FinalityTrailsSlots
  <1>1. Spec => []ChainInv
    BY ChainInit, ChainStep, PTL DEF Spec
  <1>2. ChainInv => FinalityTrailsSlots
    BY DEF ChainInv
  <1> QED
    BY <1>1, <1>2, PTL

\* The second critical section alone moves finalized_height.
LEMMA OnlyCommitFinalizes ==
    ASSUME [Next]_vars, ~Commit
    PROVE  UNCHANGED finalized
  BY DEF Next, vars, stateVars, chainVars, PostTx, OnTxSubmit, OnTxAnnounce, OnApp,
     Serve, HandshakeFails, Register, ReaderEnds, Cleanup, Producer, Arm, Wake,
     Propose, Snapshot, SendBlock, EndBroadcast, Tick, Horizon

\* No step moves finalized_height back.
LEMMA FinalityStep == ChainInv /\ [Next]_vars => [finalized' >= finalized]_finalized
  <1> SUFFICES ASSUME ChainInv, [Next]_vars
               PROVE  [finalized' >= finalized]_finalized
    OBVIOUS
  <1>1. CASE Commit
    <2>1. /\ finalized \in Nat /\ draft.slot \in Nat
          /\ LastSlot(chain) \in Nat
      BY LastSlotType DEF ChainInv, TypeOK, Block
    <2>2. /\ LastSlot(chain) < draft.slot
          /\ finalized > 0 => finalized + EpochSlots <= LastSlot(chain)
          /\ finalized' = FinalityAfter(finalized, draft.slot)
      BY <1>1 DEF ChainInv, SlotInv, FinalityTrailsSlots, Commit
    <2> QED
      BY <2>1, <2>2, FinalityAfterTrails
  <1>2. CASE ~Commit
    BY <1>2, OnlyCommitFinalizes
  <1> QED
    BY <1>1, <1>2

(***************************************************************************)
(* finalized_height never goes back, also over slots the producer missed.  *)
(***************************************************************************)
THEOREM FinalityMonotone == Spec => FinalityNeverRetreats
  <1>1. Spec => []ChainInv
    BY ChainInit, ChainStep, PTL DEF Spec
  <1> QED
    BY <1>1, FinalityStep, PTL DEF Spec, FinalityNeverRetreats

-----------------------------------------------------------------------------
(***************************************************************************)
(* The mempool.                                                            *)
(***************************************************************************)
PoolInv == TypeOK /\ PoolWithinCapacity /\ MaxNonceExact

\* The invariant of the pool holds at the start.
LEMMA PoolInit == Init => PoolInv
  BY TypeInit, EmptyStoreGood DEF Init, PoolInv, PoolWithinCapacity, MaxNonceExact

\* Every step keeps the invariant of the pool.
LEMMA PoolStep == PoolInv /\ [Next]_vars => PoolInv'
  <1> SUFFICES ASSUME PoolInv, [Next]_vars PROVE PoolInv'
    OBVIOUS
  <1> USE DEF PoolWithinCapacity, MaxNonceExact
  <1>1. TypeOK' /\ FiniteStore(pool) /\ WithinCapacity(pool) /\ NonceExact(pool)
    BY TypeStep DEF PoolInv, TypeOK
  <1>2. ASSUME NEW t \in Tx, Inserted(t)
        PROVE  WithinCapacity(pool') /\ NonceExact(pool')
    <2>1. PICK out \in Evictable(pool) : pool' = Insert(pool, t, out)
      BY <1>2 DEF Inserted
    <2> QED
      BY <1>1, <2>1, InsertWithinCapacity, InsertNonceExact
  <1>3. CASE Propose
    <2>1. PICK S \in Drainable(pool, MaxTxsPerBlock) : pool' = Drain(pool, S)
      BY <1>3 DEF Propose
    <2> QED
      BY <1>1, <2>1, DrainGood, ServerAssumption DEF PoolInv
  <1>4. CASE ~Propose /\ ~ \E t \in Tx : Inserted(t)
    <2>1. pool' = pool
      BY <1>4 DEF Next, vars, stateVars, chainVars, PostTx, OnTxSubmit, Refused,
         Known, OnTxAnnounce, OnApp, Serve, HandshakeFails, Register, ReaderEnds,
         Cleanup, Producer, Arm, Wake, Commit, Snapshot, SendBlock, EndBroadcast,
         Tick, Horizon
    <2> QED
      BY <1>1, <2>1 DEF PoolInv
  <1> QED
    BY <1>1, <1>2, <1>3, <1>4 DEF PoolInv

(***************************************************************************)
(* The pool never outgrows its capacity, for every capacity and every way  *)
(* insertions, evictions and drains interleave.                            *)
(***************************************************************************)
THEOREM PoolCorrect == Spec => []PoolWithinCapacity
  <1>1. Spec => []PoolInv
    BY PoolInit, PoolStep, PTL DEF Spec
  <1>2. PoolInv => PoolWithinCapacity
    BY DEF PoolInv
  <1> QED
    BY <1>1, <1>2, PTL

(***************************************************************************)
(* max_seen_nonce is exactly the largest nonce ever accepted from each     *)
(* key, whatever became of the transaction that raised it.                 *)
(***************************************************************************)
THEOREM NonceCorrect == Spec => []MaxNonceExact
  <1>1. Spec => []PoolInv
    BY PoolInit, PoolStep, PTL DEF Spec
  <1>2. PoolInv => MaxNonceExact
    BY DEF PoolInv
  <1> QED
    BY <1>1, <1>2, PTL

(***************************************************************************)
(* Only the transaction with its sender's latest nonce can enter the pool  *)
(* a second time.                                                          *)
(***************************************************************************)
THEOREM ReadmissionCorrect == Spec => ReadmitsOnlyLatestNonce
  <1> DEFINE Readmits ==
                 \A t \in (pool'.byId \ pool.byId) \cap pool.seen :
                     \A u \in pool.seen : From[u] = From[t] => Nonce[u] <= Nonce[t]
  <1>1. PoolInv /\ [Next]_vars => [Readmits]_vars
    <2> SUFFICES ASSUME PoolInv, [Next]_vars,
                        NEW t \in (pool'.byId \ pool.byId) \cap pool.seen,
                        NEW u \in pool.seen, From[u] = From[t]
                 PROVE  Nonce[u] <= Nonce[t]
      OBVIOUS
    <2>1. pool \in Store /\ NonceExact(pool)
      BY DEF PoolInv, TypeOK, FiniteStore, MaxNonceExact
    <2>2. PICK v \in Tx : Inserted(v)
      <3>1. CASE Propose
        <4>1. PICK S \in Drainable(pool, MaxTxsPerBlock) : pool' = Drain(pool, S)
          BY <3>1 DEF Propose
        <4>2. pool'.byId = pool.byId \ S
          BY <2>1, <4>1 DEF Drain, Store
        <4> QED
          BY <4>2
      <3>2. CASE ~Propose /\ ~ \E v \in Tx : Inserted(v)
        <4>1. pool' = pool
          BY <3>2 DEF Next, vars, stateVars, chainVars, PostTx, OnTxSubmit, Refused,
             Known, OnTxAnnounce, OnApp, Serve, HandshakeFails, Register,
             ReaderEnds, Cleanup, Producer, Arm, Wake, Commit, Snapshot, SendBlock,
             EndBroadcast, Tick, Horizon
        <4> QED
          BY <4>1
      <3> QED
        BY <3>1, <3>2
    <2>3. PICK out : pool' = Insert(pool, v, out)
      BY <2>2 DEF Inserted
    <2>4. t = v
      BY <2>3 DEF Insert
    <2>5. ~(Nonce[t] < pool.maxNonce[From[t]])
      BY <2>2, <2>4 DEF Inserted, Admits, NonceTooLow
    <2>6. Nonce[u] <= pool.maxNonce[From[t]]
      BY <2>1 DEF NonceExact
    <2>7. /\ t \in Tx /\ u \in Tx /\ From[t] \in Key
          /\ Nonce[t] \in Nat /\ Nonce[u] \in Nat
          /\ pool.maxNonce[From[t]] \in Nat
      BY <2>1, TxStoreAssumption DEF Store
    <2> QED
      BY <2>5, <2>6, <2>7
  <1>2. Spec => []PoolInv
    BY PoolInit, PoolStep, PTL DEF Spec
  <1> QED
    BY <1>1, <1>2, PTL DEF Spec, ReadmitsOnlyLatestNonce

-----------------------------------------------------------------------------
(***************************************************************************)
(* The peers map.                                                          *)
(***************************************************************************)
PeersInv == TypeOK /\ EntriesAreLive

\* The invariant of the peers map holds at the start.
LEMMA PeersInit == Init => PeersInv
  BY TypeInit DEF Init, PeersInv, EntriesAreLive

\* Every step keeps the invariant of the peers map.
LEMMA PeersStep == PeersInv /\ [Next]_vars => PeersInv'
  <1> SUFFICES ASSUME PeersInv, [Next]_vars PROVE PeersInv'
    OBVIOUS
  <1>1. /\ TypeOK' /\ EntriesAreLive
        /\ peers \in [NodeId -> Conn \cup {NoConn}]
        /\ conn \in [Conn -> ConnStage]
        /\ NodeOf \in [Conn -> NodeId] /\ NoConn \notin Conn
    BY TypeStep, ServerAssumption DEF PeersInv, TypeOK
  <1>2. ASSUME NEW c \in Conn, Register(c) PROVE EntriesAreLive'
    BY <1>1, <1>2 DEF Register, EntriesAreLive
  <1>3. ASSUME NEW c \in Conn, Cleanup(c) PROVE EntriesAreLive'
    BY <1>1, <1>3 DEF Cleanup, EntriesAreLive
  <1>4. ASSUME NEW c \in Conn, HandshakeFails(c) \/ ReaderEnds(c)
        PROVE  EntriesAreLive'
    <2>1. /\ peers' = peers
          /\ \/ conn[c] = "handshake" /\ conn' = [conn EXCEPT ![c] = "closed"]
             \/ conn[c] = "open" /\ conn' = [conn EXCEPT ![c] = "ended"]
      BY <1>4 DEF HandshakeFails, ReaderEnds, stateVars
    <2>2. ASSUME NEW n \in NodeId, peers[n] # NoConn
          PROVE  NodeOf[peers[n]] = n /\ conn'[peers[n]] \in {"open", "ended"}
      <3>1. /\ peers[n] \in Conn /\ NodeOf[peers[n]] = n
            /\ conn[peers[n]] \in {"open", "ended"}
        BY <1>1, <2>2 DEF EntriesAreLive
      <3> QED
        BY <1>1, <2>1, <3>1
    <2> QED
      BY <2>1, <2>2 DEF EntriesAreLive
  <1>5. ASSUME ~ \E c \in Conn : \/ Register(c) \/ Cleanup(c)
                                 \/ HandshakeFails(c) \/ ReaderEnds(c)
        PROVE  EntriesAreLive'
    <2>1. UNCHANGED <<peers, conn>>
      BY <1>5 DEF Next, vars, stateVars, chainVars, PostTx, OnTxSubmit,
         OnTxAnnounce, OnApp, Serve, Producer, Arm, Wake, Propose, Commit,
         Snapshot, SendBlock, EndBroadcast, Tick, Horizon
    <2> QED
      BY <1>1, <2>1 DEF EntriesAreLive
  <1> QED
    BY <1>1, <1>2, <1>3, <1>4, <1>5 DEF PeersInv

(***************************************************************************)
(* An entry of the peers map belongs to a connection that is registered    *)
(* and not yet cleaned up, under the id it proved, for any number of       *)
(* connections and also when they share node ids.                          *)
(***************************************************************************)
THEOREM PeersCorrect == Spec => []EntriesAreLive
  <1>1. Spec => []PeersInv
    BY PeersInit, PeersStep, PTL DEF Spec
  <1> QED
    BY <1>1, PTL DEF PeersInv

(***************************************************************************)
(* When no two connections share a node id, nothing but its own cleanup    *)
(* takes a registered connection out of the map.                           *)
(***************************************************************************)
OwnNodeIds == \A c, d \in Conn : NodeOf[c] = NodeOf[d] => c = d

\* Every step keeps registered connections reachable.
LEMMA RegisteredStep ==
    OwnNodeIds /\ TypeOK /\ OpenIsRegistered /\ [Next]_vars => OpenIsRegistered'
  <1> SUFFICES ASSUME OwnNodeIds, TypeOK, OpenIsRegistered, [Next]_vars
               PROVE  OpenIsRegistered'
    OBVIOUS
  <1>1. /\ peers \in [NodeId -> Conn \cup {NoConn}]
        /\ conn \in [Conn -> ConnStage]
        /\ NodeOf \in [Conn -> NodeId]
    BY ServerAssumption DEF TypeOK
  <1>2. ASSUME NEW c \in Conn, Register(c) PROVE OpenIsRegistered'
    BY <1>1, <1>2 DEF Register, OpenIsRegistered, OwnNodeIds
  <1>3. ASSUME NEW c \in Conn, Cleanup(c) PROVE OpenIsRegistered'
    BY <1>1, <1>3 DEF Cleanup, OpenIsRegistered, OwnNodeIds
  <1>4. ASSUME NEW c \in Conn, HandshakeFails(c) \/ ReaderEnds(c)
        PROVE  OpenIsRegistered'
    <2>1. /\ peers' = peers
          /\ \/ conn' = [conn EXCEPT ![c] = "closed"]
             \/ conn[c] = "open" /\ conn' = [conn EXCEPT ![c] = "ended"]
      BY <1>4 DEF HandshakeFails, ReaderEnds, stateVars
    <2>2. ASSUME NEW d \in Conn, conn'[d] \in {"open", "ended"}
          PROVE  conn[d] \in {"open", "ended"}
      BY <1>1, <2>1, <2>2
    <2> QED
      BY <2>1, <2>2 DEF OpenIsRegistered
  <1>5. CASE ~ \E c \in Conn : \/ Register(c) \/ Cleanup(c)
                               \/ HandshakeFails(c) \/ ReaderEnds(c)
    <2>1. UNCHANGED <<peers, conn>>
      BY <1>5 DEF Next, vars, stateVars, chainVars, PostTx, OnTxSubmit,
         OnTxAnnounce, OnApp, Serve, Producer, Arm, Wake, Propose, Commit,
         Snapshot, SendBlock, EndBroadcast, Tick, Horizon
    <2> QED
      BY <2>1 DEF OpenIsRegistered
  <1> QED
    BY <1>2, <1>3, <1>4, <1>5

(***************************************************************************)
(* With node ids of their own, registered connections stay reachable until *)
(* their own handlers clean up, whatever other connections do.             *)
(***************************************************************************)
THEOREM RegistrationCorrect == OwnNodeIds => (Spec => []OpenIsRegistered)
  <1>1. Init => OpenIsRegistered
    BY DEF Init, OpenIsRegistered
  <1>2. SUFFICES ASSUME OwnNodeIds PROVE Spec => []OpenIsRegistered
    OBVIOUS
  <1>3. TypeOK /\ OpenIsRegistered /\ [Next]_vars => OpenIsRegistered'
    BY <1>2, RegisteredStep
  <1> QED
    BY <1>1, <1>3, TypeCorrect, PTL DEF Spec

-----------------------------------------------------------------------------
(***************************************************************************)
(* The listening node implements Ledger.                                   *)
(***************************************************************************)

(***************************************************************************)
(* What the simulation needs to know of a state: that max_seen_nonce is    *)
(* exact (PoolInv), and that the producer holds no more than a block takes.*)
(***************************************************************************)
LedgerInv ==
    /\ PoolInv
    /\ IsFiniteSet(InFlight)
    /\ Cardinality(InFlight) <= MaxTxsPerBlock

\* A step of the producer or of a connection that moves no transaction.
LEMMA OthersMoveNothing ==
    ASSUME [Next]_vars, ~Propose, ~Commit, ~ \E t \in Tx : Inserted(t)
    PROVE  pool' = pool /\ chain' = chain /\ InFlight' = InFlight
  BY DEF Next, vars, stateVars, chainVars, producerVars, PostTx, OnTxSubmit, Refused,
     Known, OnTxAnnounce, OnApp, Serve, HandshakeFails, Register, ReaderEnds, Cleanup,
     Producer, Arm, Wake, Snapshot, SendBlock, EndBroadcast, Tick, Horizon, InFlight

\* An accepted transaction touches neither the chain nor the producer.
LEMMA InsertedMovesOne ==
    ASSUME PoolInv, [Next]_vars, NEW t \in Tx, Inserted(t)
    PROVE  chain' = chain /\ InFlight' = InFlight
  <1>1. t \notin pool.byId /\ t \in pool'.byId
    BY DEF Inserted, Admits, Insert
  <1>2. ~Propose
    <2>1. SUFFICES ASSUME Propose PROVE FALSE
      OBVIOUS
    <2>2. PICK S \in Drainable(pool, MaxTxsPerBlock) : pool' = Drain(pool, S)
      BY <2>1 DEF Propose
    <2>3. pool'.byId = pool.byId \ S
      BY <2>2 DEF Drain, PoolInv, TypeOK, FiniteStore, Store
    <2> QED
      BY <1>1, <2>3
  <1> QED
    BY <1>1, <1>2 DEF Next, vars, stateVars, chainVars, producerVars, PostTx, OnTxSubmit,
       Refused, Known, OnTxAnnounce, OnApp, Serve, HandshakeFails, Register,
       ReaderEnds, Cleanup, Producer, Arm, Wake, Commit, Snapshot, SendBlock,
       EndBroadcast, Tick, Horizon, InFlight

\* The first write guard moves transactions from the pool to the producer.
LEMMA ProposeMoves ==
    ASSUME LedgerInv, Propose
    PROVE  \E S \in Drainable(pool, MaxTxsPerBlock) :
               /\ pool'.byId = pool.byId \ S
               /\ pool'.seen = pool.seen
               /\ S \subseteq pool.byId
               /\ InFlight = {} /\ InFlight' = S
               /\ chain' = chain
  <1>1. PICK S \in Drainable(pool, MaxTxsPerBlock) :
            /\ pool' = Drain(pool, S)
            /\ draft' = [draft EXCEPT !.height = tipHeight + 1,
                                      !.parent = tipHash,
                                      !.txs = S]
    BY DEF Propose
  <1>2. pool \in Store /\ draft \in Block
    BY DEF LedgerInv, PoolInv, TypeOK, FiniteStore
  <1>3. pool'.byId = pool.byId \ S /\ pool'.seen = pool.seen
    BY <1>1, <1>2 DEF Drain, Store
  <1>4. draft'.txs = S /\ S \subseteq pool.byId
    BY <1>1, <1>2 DEF Block, Drainable
  <1>5. ppc = "propose" /\ ppc' = "commit" /\ chain' = chain
    BY DEF Propose, chainVars
  <1> QED
    BY <1>3, <1>4, <1>5 DEF InFlight

-----------------------------------------------------------------------------
\* The invariant holds at the start.
LEMMA LedgerInvInit == Init => LedgerInv
  <1> SUFFICES ASSUME Init PROVE LedgerInv
    OBVIOUS
  <1>1. InFlight = {}
    BY DEF Init, InFlight
  <1> QED
    BY <1>1, PoolInit, FS_EmptySet, ServerAssumption DEF LedgerInv

\* Every step keeps the invariant.
LEMMA LedgerInvStep == LedgerInv /\ [Next]_vars => LedgerInv'
  <1> SUFFICES ASSUME LedgerInv, [Next]_vars PROVE LedgerInv'
    OBVIOUS
  <1>1. PoolInv'
    BY PoolStep DEF LedgerInv
  <1>2. CASE Propose
    <2>1. PICK S \in Drainable(pool, MaxTxsPerBlock) :
              S \subseteq pool.byId /\ InFlight' = S
      BY <1>2, ProposeMoves
    <2>2. IsFiniteSet(S)
      BY <2>1, FS_Subset DEF LedgerInv, PoolInv, TypeOK, FiniteStore
    <2>3. Cardinality(S) <= MaxTxsPerBlock
      BY <2>1, <2>2, FS_CardinalityType, ServerAssumption DEF Drainable
    <2> QED
      BY <1>1, <2>1, <2>2, <2>3 DEF LedgerInv
  <1>3. CASE Commit
    <2>1. InFlight' = {}
      BY <1>3 DEF Commit, InFlight
    <2> QED
      BY <1>1, <2>1, FS_EmptySet, ServerAssumption DEF LedgerInv
  <1>4. CASE \E t \in Tx : Inserted(t)
    BY <1>1, <1>4, InsertedMovesOne DEF LedgerInv
  <1>5. CASE ~Propose /\ ~Commit /\ ~ \E t \in Tx : Inserted(t)
    BY <1>1, <1>5, OthersMoveNothing DEF LedgerInv
  <1> QED
    BY <1>2, <1>3, <1>4, <1>5

-----------------------------------------------------------------------------
\* Both modules count with the same operator.
LEMMA SameCardinality == \A S : L!Cardinality(S) = Cardinality(S)
  BY Zenon DEF L!Cardinality, Cardinality

\* The pending transactions are those of the pool and of the producer.
LEMMA SupportOfCopies ==
    /\ L!Support(Copies) = {t \in Tx : t \in pool.byId \/ t \in InFlight}
    /\ \A t \in Tx : Copies[t] \in Nat
  BY DEF L!Support, Copies

\* An accepted transaction is an Accept of the ledger.
LEMMA InsertedIsAccept ==
    ASSUME LedgerInv, [Next]_vars, NEW t \in Tx, Inserted(t)
    PROVE  \E out \in SUBSET Tx : L!Accept(t, out)
  <1>1. PICK out \in Evictable(pool) : pool' = Insert(pool, t, out)
    BY DEF Inserted
  <1>2. /\ pool \in Store /\ IsFiniteSet(pool.byId) /\ NonceExact(pool)
        /\ pool.byId \subseteq Tx /\ pool.seen \subseteq Tx
        /\ IsFiniteSet(InFlight)
    BY DEF LedgerInv, PoolInv, TypeOK, FiniteStore, Store, MaxNonceExact
  <1>3. chain' = chain /\ InFlight' = InFlight
    BY InsertedMovesOne DEF LedgerInv
  <1>4. pool'.byId = (pool.byId \ out) \cup {t} /\ pool'.seen = pool.seen \cup {t}
    BY <1>1 DEF Insert
  <1>5. t \notin pool.byId /\ ~(Nonce[t] < pool.maxNonce[From[t]])
    BY DEF Inserted, Admits, NonceTooLow
  <1>6. out \subseteq pool.byId
    BY <1>1 DEF Evictable
  <1>7. out = {} \/ ((\E u \in Tx : out = {u}) /\ Cardinality(pool.byId) >= Capacity)
    BY <1>1, <1>2 DEF Evictable
  <1>8. L!IsLatest(t)
    <2>1. SUFFICES ASSUME NEW u \in pool.seen, From[u] = From[t]
                   PROVE  Nonce[u] <= Nonce[t]
      BY DEF L!IsLatest
    <2>2. Nonce[u] <= pool.maxNonce[From[t]]
      BY <1>2, <2>1 DEF NonceExact
    <2>3. /\ Nonce[u] \in Nat /\ Nonce[t] \in Nat
          /\ pool.maxNonce[From[t]] \in Nat
      BY <1>2, TxStoreAssumption DEF Store
    <2> QED
      BY <1>5, <2>2, <2>3
  <1>9. Cardinality(pool.byId) >= Capacity
            => Cardinality(L!Support(Copies)) >= Capacity
    <2>1. /\ pool.byId \subseteq L!Support(Copies)
          /\ L!Support(Copies) \subseteq pool.byId \cup InFlight
      BY <1>2, SupportOfCopies
    <2>2. IsFiniteSet(L!Support(Copies))
      BY <1>2, <2>1, FS_Union, FS_Subset
    <2>3. Cardinality(pool.byId) <= Cardinality(L!Support(Copies))
      BY <2>1, <2>2, FS_Subset
    <2>4. /\ Cardinality(pool.byId) \in Nat
          /\ Cardinality(L!Support(Copies)) \in Nat
      BY <1>2, <2>2, FS_CardinalityType
    <2> QED
      BY <2>3, <2>4, TxStoreAssumption
  <1>10. Copies' = [u \in Tx |-> IF u = t THEN Copies[u] + 1
                                 ELSE IF u \in out THEN Copies[u] - 1
                                 ELSE Copies[u]]
    <2>1. \A u \in Tx : u \in pool'.byId <=> (u \in pool.byId /\ u \notin out) \/ u = t
      BY <1>4
    <2> QED
      BY <1>3, <1>5, <1>6, <2>1 DEF Copies
  <1>11. Blocks' = Blocks
    BY <1>3 DEF Blocks
  <1>12. out \subseteq L!Support(Copies)
    BY <1>2, <1>6, SupportOfCopies
  <1>13. L!Accept(t, out)
    BY <1>4, <1>5, <1>6, <1>7, <1>8, <1>9, <1>10, <1>11, <1>12,
       SameCardinality DEF L!Accept
  <1> QED
    BY <1>2, <1>6, <1>13

\* The second write guard is an Include of the ledger.
LEMMA CommitIsInclude ==
    ASSUME LedgerInv, Commit
    PROVE  L!Include(draft.txs)
  <1>1. /\ ppc = "commit" /\ ppc' = "snapshot"
        /\ pool' = pool /\ chain' = Append(chain, draft)
    BY DEF Commit
  <1>2. InFlight = draft.txs /\ InFlight' = {}
    BY <1>1 DEF InFlight
  <1>3. /\ draft.txs \subseteq Tx
        /\ chain \in Seq(Block) /\ draft \in Block
    BY DEF LedgerInv, PoolInv, TypeOK, Block
  <1>4. draft.txs \subseteq L!Support(Copies)
    BY <1>2, <1>3, SupportOfCopies
  <1>5. Cardinality(draft.txs) <= MaxTxsPerBlock
    BY <1>2 DEF LedgerInv
  <1>6. Copies' = [u \in Tx |-> IF u \in draft.txs THEN Copies[u] - 1 ELSE Copies[u]]
    BY <1>1, <1>2 DEF Copies
  <1>7. Blocks' = Append(Blocks, draft.txs)
    <2>1. /\ Len(chain') = Len(chain) + 1
          /\ \A i \in 1 .. Len(chain) : chain'[i] = chain[i]
          /\ chain'[Len(chain) + 1] = draft
      BY <1>1, <1>3
    <2>2. DOMAIN chain = 1 .. Len(chain) /\ DOMAIN chain' = 1 .. Len(chain')
          /\ Len(chain) \in Nat
      BY <1>1, <1>3
    <2>3. Blocks \in Seq(SUBSET Tx) /\ Len(Blocks) = Len(chain)
      <3>1. \A b \in Block : b.txs \in SUBSET Tx
        BY DEF Block
      <3>2. \A i \in 1 .. Len(chain) : chain[i] \in Block
        BY <1>3, <2>2
      <3>3. Blocks = [i \in 1 .. Len(chain) |-> chain[i].txs]
        BY <2>2 DEF Blocks
      <3> QED
        BY <2>2, <3>1, <3>2, <3>3
    <2> QED
      BY <2>1, <2>2, <2>3, <1>3 DEF Blocks
  <1> QED
    BY <1>1, <1>4, <1>5, <1>6, <1>7, SameCardinality DEF L!Include

\* Every other step leaves the ledger as it is.
LEMMA OthersStutter ==
    ASSUME LedgerInv, [Next]_vars, ~Commit, ~ \E t \in Tx : Inserted(t)
    PROVE  UNCHANGED L!ledgerVars
  <1>1. CASE Propose
    <2>1. PICK S \in Drainable(pool, MaxTxsPerBlock) :
               /\ pool'.byId = pool.byId \ S
               /\ pool'.seen = pool.seen
               /\ S \subseteq pool.byId
               /\ InFlight = {} /\ InFlight' = S
               /\ chain' = chain
      BY <1>1, ProposeMoves
    <2>2. Copies' = Copies
      BY <2>1 DEF Copies
    <2> QED
      BY <2>1, <2>2 DEF L!ledgerVars, Blocks
  <1>2. CASE ~Propose
    BY <1>2, OthersMoveNothing DEF L!ledgerVars, Copies, Blocks
  <1> QED
    BY <1>1, <1>2

(***************************************************************************)
(* The node implements the ledger: the first state maps to an empty        *)
(* ledger, an accepted transaction to Accept, the second write guard of    *)
(* the producer to Include, and every other step to a stutter.             *)
(***************************************************************************)
THEOREM LedgerImplemented == Spec => ImplementsLedger
  <1>1. Init => L!LedgerInit
    <2> SUFFICES ASSUME Init PROVE L!LedgerInit
      OBVIOUS
    <2>1. pool.byId = {} /\ pool.seen = {} /\ InFlight = {} /\ chain = <<>>
      BY DEF Init, EmptyStore, InFlight
    <2> QED
      BY <2>1 DEF L!LedgerInit, Copies, Blocks
  <1>2. LedgerInv /\ [Next]_vars => [L!LedgerNext]_(L!ledgerVars)
    <2> SUFFICES ASSUME LedgerInv, [Next]_vars
                 PROVE  [L!LedgerNext]_(L!ledgerVars)
      OBVIOUS
    <2>1. CASE \E t \in Tx : Inserted(t)
      BY <2>1, InsertedIsAccept DEF L!LedgerNext
    <2>2. CASE Commit
      <3>1. draft.txs \in SUBSET Tx
        BY DEF LedgerInv, PoolInv, TypeOK, Block
      <3> QED
        BY <2>2, <3>1, CommitIsInclude DEF L!LedgerNext
    <2>3. CASE ~Commit /\ ~ \E t \in Tx : Inserted(t)
      BY <2>3, OthersStutter
    <2> QED
      BY <2>1, <2>2, <2>3
  <1>3. Spec => []LedgerInv
    BY LedgerInvInit, LedgerInvStep, PTL DEF Spec
  <1> QED
    BY <1>1, <1>2, <1>3, PTL DEF Spec, ImplementsLedger, L!LedgerSpec

=============================================================================
