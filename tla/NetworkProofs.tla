---------------------------- MODULE NetworkProofs ---------------------------
(***************************************************************************)
(* What the server puts in the channels of its connections and what the    *)
(* clients make of it: answers, announcements and blocks, the clients'     *)
(* mempools and their view of finality, for every number of connections    *)
(* and requests and every pace of reading.                                 *)
(***************************************************************************)
EXTENDS Network, ServerProofs

-----------------------------------------------------------------------------
(***************************************************************************)
(* One step puts one message at most in a channel, and every message has   *)
(* its cause in that step.                                                 *)
(***************************************************************************)
Justified(c, m) ==
    /\ IsType(m, "TxAnnounce") => Inserted(m.tx) /\ Serve
    /\ IsType(m, "TxAck") => IF m.ok THEN Inserted(m.tx) \/ Known(m.tx)
                             ELSE Refused(m.tx)
    /\ IsType(m, "NewBlock") => SendBlock(c)

Gets(c, m) == chan'[c] = Append(chan[c], m)

\* The fields of the messages about transactions and blocks.
LEMMA MsgFields ==
    ASSUME NEW m \in Msg
    PROVE  /\ IsType(m, "TxAnnounce") => m = TxAnnounce(m.tx) /\ m.tx \in Tx
           /\ IsType(m, "TxAck") => m.tx \in Tx /\ m.ok \in BOOLEAN
           /\ IsType(m, "NewBlock") => m.block \in Block
  BY DEF Msg, IsType, Ack, TxAnnounce

\* What a send does to one channel.
LEMMA SentToOne ==
    ASSUME NEW c \in Conn, NEW S, NEW m, chan' = SentTo(S, m)
    PROVE  chan'[c] = chan[c] \/ Gets(c, m)
  BY DEF SentTo, Gets

\* What is in a channel that one message was appended to.
LEMMA OneMessage ==
    ASSUME TypeOK, [Next]_vars, NEW c \in Conn
    PROVE  \/ chan'[c] = chan[c]
           \/ \E m \in Msg : Gets(c, m) /\ Justified(c, m)
  <1> SUFFICES ASSUME chan'[c] # chan[c]
               PROVE  \E m \in Msg : Gets(c, m) /\ Justified(c, m)
    OBVIOUS
  <1>1. ASSUME NEW t \in Tx, PostTx(t)
        PROVE  \E m \in Msg : Gets(c, m) /\ Justified(c, m)
    <2>1. Gets(c, TxAnnounce(t)) /\ Inserted(t) /\ Serve
      BY <1>1, SentToOne DEF PostTx
    <2>2. Justified(c, TxAnnounce(t))
      BY <2>1 DEF Justified, IsType, TxAnnounce
    <2> QED
      BY <2>1, <2>2, MsgType
  <1>2. ASSUME NEW d \in Conn, NEW t \in Tx, OnTxSubmit(d, t)
        PROVE  \E m \in Msg : Gets(c, m) /\ Justified(c, m)
    <2>1. CASE Refused(t) /\ chan' = Answer(d, TxAck(t, FALSE))
      <3>1. Gets(c, TxAck(t, FALSE))
        BY <2>1, SentToOne DEF Answer
      <3>2. Justified(c, TxAck(t, FALSE))
        BY <2>1 DEF Justified, IsType, TxAck
      <3> QED
        BY <3>1, <3>2, MsgType
    <2>2. CASE Known(t) /\ chan' = Answer(d, TxAck(t, TRUE))
      <3>1. Gets(c, TxAck(t, TRUE))
        BY <2>2, SentToOne DEF Answer
      <3>2. Justified(c, TxAck(t, TRUE))
        BY <2>2 DEF Justified, IsType, TxAck
      <3> QED
        BY <3>1, <3>2, MsgType
    <2>3. CASE /\ Inserted(t)
               /\ chan' = [e \in Conn |->
                      IF e = peers[NodeOf[d]] THEN Append(chan[e], TxAck(t, TRUE))
                      ELSE IF e \in Registered THEN Append(chan[e], TxAnnounce(t))
                      ELSE chan[e]]
      <3>1. Gets(c, TxAck(t, TRUE)) \/ Gets(c, TxAnnounce(t))
        BY <2>3 DEF Gets
      <3>2. Justified(c, TxAck(t, TRUE))
        BY <2>3 DEF Justified, IsType, TxAck
      <3>3. Justified(c, TxAnnounce(t))
        BY <1>2, <2>3 DEF Justified, IsType, TxAnnounce, OnTxSubmit
      <3> QED
        BY <3>1, <3>2, <3>3, MsgType
    <2> QED
      BY <1>2, <2>1, <2>2, <2>3 DEF OnTxSubmit
  <1>3. ASSUME NEW d \in Conn, OnApp(d)
        PROVE  \E m \in Msg : Gets(c, m) /\ Justified(c, m)
    <2>1. Gets(c, Ack)
      BY <1>3, SentToOne DEF OnApp, Answer
    <2>2. Justified(c, Ack)
      BY DEF Justified, IsType, Ack
    <2> QED
      BY <2>1, <2>2, MsgType
  <1>4. ASSUME NEW d \in Conn, Register(d)
        PROVE  \E m \in Msg : Gets(c, m) /\ Justified(c, m)
    <2> DEFINE m == Peers({n \in NodeId : peers[n] # NoConn} \cup {NodeOf[d]})
    <2>1. chan \in [Conn -> Seq(Msg)]
      BY DEF TypeOK
    <2>2. Gets(c, m)
      BY <1>4, <2>1 DEF Register, Gets
    <2>3. m \in Msg
      <3>1. NodeOf[d] \in NodeId
        BY ServerAssumption
      <3> QED
        BY <3>1, MsgType
    <2>4. Justified(c, m)
      BY DEF Justified, IsType, Peers
    <2> QED
      BY <2>2, <2>3, <2>4
  <1>5. ASSUME NEW d \in Conn, SendBlock(d)
        PROVE  \E m \in Msg : Gets(c, m) /\ Justified(c, m)
    <2>1. chan' = SentTo({d}, NewBlock(draft))
      BY <1>5 DEF SendBlock
    <2>2. c = d /\ Gets(c, NewBlock(draft))
      BY <2>1 DEF SentTo, Gets
    <2>3. Justified(c, NewBlock(draft))
      BY <1>5, <2>2 DEF Justified, IsType, NewBlock
    <2> QED
      BY <2>2, <2>3, MsgType DEF TypeOK
  <1>6. CASE ~ \E d \in Conn : \/ OnApp(d) \/ Register(d) \/ SendBlock(d)
                               \/ \E t \in Tx : PostTx(t) \/ OnTxSubmit(d, t)
    BY <1>6 DEF Next, vars, stateVars, chainVars, producerVars, OnTxAnnounce,
       HandshakeFails, ReaderEnds, Cleanup, Producer, Arm, Wake, Propose, Commit,
       Snapshot, EndBroadcast, Tick, Horizon
  <1> QED
    BY <1>1, <1>2, <1>3, <1>4, <1>5, <1>6

-----------------------------------------------------------------------------
(***************************************************************************)
(* Answers.                                                                *)
(***************************************************************************)
Truthful(m) ==
    IF m.ok THEN m.tx \in pool.seen
    ELSE m.tx \notin WellSigned \/ Expiry[m.tx] < now \/ Overtaken(m.tx)

PoolIsSeen == pool.byId \subseteq pool.seen

\* What is in the pool was accepted, and what was accepted stays so.
LEMMA SeenGrows ==
    ASSUME TypeOK, PoolIsSeen, [Next]_vars
    PROVE  pool.seen \subseteq pool'.seen /\ PoolIsSeen' /\ now <= now'
  <1>1. pool \in Store /\ now \in Nat
    BY DEF TypeOK, FiniteStore
  <1>2. now <= now'
    <2>1. now' = now + 1 \/ now' = now
      BY DEF Next, vars, stateVars, chainVars, producerVars, PostTx, OnTxSubmit,
         OnTxAnnounce, OnApp, Serve, HandshakeFails, Register, ReaderEnds, Cleanup,
         Producer, Arm, Wake, Propose, Commit, Snapshot, SendBlock, EndBroadcast,
         Tick, Horizon
    <2> QED
      BY <1>1, <2>1
  <1>3. ASSUME NEW t \in Tx, Inserted(t)
        PROVE  pool.seen \subseteq pool'.seen /\ PoolIsSeen'
    BY <1>3 DEF Inserted, Insert, PoolIsSeen
  <1>4. ASSUME Propose
        PROVE  pool.seen \subseteq pool'.seen /\ PoolIsSeen'
    <2>1. PICK S : pool' = Drain(pool, S)
      BY <1>4 DEF Propose
    <2>2. pool'.byId = pool.byId \ S /\ pool'.seen = pool.seen
      BY <1>1, <2>1 DEF Drain, Store
    <2> QED
      BY <2>2 DEF PoolIsSeen
  <1>5. ASSUME ~Propose, ~ \E t \in Tx : Inserted(t)
        PROVE  pool.seen \subseteq pool'.seen /\ PoolIsSeen'
    <2>1. pool' = pool
      BY <1>5 DEF Next, vars, stateVars, chainVars, PostTx, OnTxSubmit, Refused,
         Known, OnTxAnnounce, OnApp, Serve, HandshakeFails, Register, ReaderEnds,
         Cleanup, Producer, Arm, Wake, Commit, Snapshot, SendBlock, EndBroadcast,
         Tick, Horizon
    <2> QED
      BY <2>1 DEF PoolIsSeen
  <1> QED
    BY <1>2, <1>3, <1>4, <1>5

\* An answer that is true when it is given.
LEMMA NewAckIsTruthful ==
    ASSUME PoolInv, PoolIsSeen, [Next]_vars, NEW c, NEW m \in Msg,
           IsType(m, "TxAck"), Justified(c, m)
    PROVE  Truthful(m)'
  <1> DEFINE t == m.tx
  <1>1. /\ t \in Tx /\ m.ok \in BOOLEAN
        /\ pool \in Store /\ NonceExact(pool) /\ now \in Nat
    BY MsgFields DEF PoolInv, TypeOK, FiniteStore, MaxNonceExact
  <1>2. pool.seen \subseteq pool'.seen /\ now <= now' /\ now' \in Nat
    BY SeenGrows, TypeStep DEF PoolInv, TypeOK
  <1>3. CASE m.ok /\ Inserted(t)
    BY <1>3 DEF Inserted, Insert, Truthful
  <1>4. CASE m.ok /\ Known(t)
    BY <1>2, <1>4 DEF Known, Knows, PoolIsSeen, Truthful
  <1>5. CASE ~m.ok /\ ~VerifyTx(t, now)
    <2>1. t \notin WellSigned \/ Expiry[t] < now'
      BY <1>1, <1>2, <1>5, TxStoreAssumption DEF VerifyTx
    <2> QED
      BY <1>5, <2>1 DEF Truthful
  <1>6. CASE ~m.ok /\ NonceTooLow(pool, t)
    <2>1. /\ From[t] \in Key /\ Nonce[t] \in Nat
          /\ Nonce[t] < pool.maxNonce[From[t]]
      BY <1>1, <1>6, TxStoreAssumption DEF NonceTooLow
    <2>2. PICK u \in pool.seen :
              From[u] = From[t] /\ Nonce[u] = pool.maxNonce[From[t]]
      BY <1>1, <2>1 DEF NonceExact
    <2>3. Overtaken(t)'
      BY <1>2, <2>1, <2>2 DEF Overtaken
    <2> QED
      BY <1>6, <2>3 DEF Truthful
  <1> QED
    BY <1>1, <1>3, <1>4, <1>5, <1>6 DEF Justified, Refused, Refuses

AnswerInv == PoolInv /\ PoolIsSeen /\ AckIsTruthful

\* Every step keeps the answers true.
LEMMA AnswerStep == AnswerInv /\ [Next]_vars => AnswerInv'
  <1> SUFFICES ASSUME AnswerInv, [Next]_vars PROVE AnswerInv'
    OBVIOUS
  <1>1. /\ PoolInv /\ PoolInv' /\ PoolIsSeen /\ TypeOK
        /\ chan \in [Conn -> Seq(Msg)]
    BY PoolStep DEF AnswerInv, PoolInv, TypeOK
  <1>2. pool.seen \subseteq pool'.seen /\ PoolIsSeen' /\ now <= now'
    BY <1>1, SeenGrows
  <1>3. ASSUME NEW m \in Msg, IsType(m, "TxAck"), Truthful(m)
        PROVE  Truthful(m)'
    <2>1. Expiry[m.tx] \in Nat /\ now \in Nat /\ now' \in Nat
      BY <1>1, <1>3, MsgFields, TypeStep, TxStoreAssumption DEF TypeOK
    <2> QED
      BY <1>2, <1>3, <2>1 DEF Truthful, Overtaken
  <1>4. ASSUME NEW c \in Conn, NEW i \in DOMAIN chan'[c], NEW a,
               a = chan'[c][i], IsType(a, "TxAck")
        PROVE  Truthful(a)'
    <2>1. ASSUME i \in DOMAIN chan[c], a = chan[c][i]
          PROVE  Truthful(a)'
      <3>1. a \in Msg
        BY <1>1, <2>1
      <3>2. Truthful(a)
        BY <1>4, <2>1 DEF AnswerInv, AckIsTruthful, Truthful
      <3> QED
        BY <1>3, <1>4, <3>1, <3>2
    <2>2. ASSUME NEW m \in Msg, Gets(c, m), Justified(c, m)
          PROVE  Truthful(a)'
      <3>1. chan[c] \in Seq(Msg) /\ chan'[c] = Append(chan[c], m)
        BY <1>1, <2>2 DEF Gets
      <3>2. (i \in DOMAIN chan[c] /\ a = chan[c][i]) \/ a = m
        BY <1>4, <3>1
      <3>3. CASE a = m
        BY <1>1, <1>4, <2>2, <3>3, NewAckIsTruthful DEF AnswerInv
      <3> QED
        BY <2>1, <3>2, <3>3
    <2>3. CASE chan'[c] = chan[c]
      BY <1>4, <2>1, <2>3
    <2> QED
      BY <1>1, <2>2, <2>3, OneMessage
  <1>5. AckIsTruthful'
    <2> SUFFICES ASSUME NEW c \in Conn, NEW i \in DOMAIN chan'[c],
                        IsType(chan'[c][i], "TxAck")
                 PROVE  \E a : a = chan'[c][i] /\ Truthful(a)'
      BY DEF AckIsTruthful, Truthful, Overtaken
    <2> QED
      BY <1>4
  <1> QED
    BY <1>1, <1>2, <1>5 DEF AnswerInv

(***************************************************************************)
(* Behind an `ok` there is an accepted transaction; one that was refused   *)
(* is badly signed, has expired, or was overtaken by a larger nonce of its *)
(* sender.                                                                 *)
(***************************************************************************)
THEOREM AnswersCorrect == Spec => []AckIsTruthful
  <1>1. Init => AnswerInv
    <2> SUFFICES ASSUME Init PROVE AnswerInv
      OBVIOUS
    <2>1. PoolIsSeen
      BY DEF Init, EmptyStore, PoolIsSeen
    <2>2. \A c \in Conn : DOMAIN chan[c] = {}
      BY DEF Init
    <2> QED
      BY <2>1, <2>2, PoolInit DEF AnswerInv, AckIsTruthful
  <1>2. AnswerInv => AckIsTruthful
    BY DEF AnswerInv
  <1> QED
    BY <1>1, <1>2, AnswerStep, PTL DEF Spec

-----------------------------------------------------------------------------
(***************************************************************************)
(* Announcements.  What was announced was accepted, so that the nonce      *)
(* policy puts every newcomer after it.                                    *)
(***************************************************************************)
AnnouncedIsSeen ==
    \A c \in Conn : \A i \in DOMAIN chan[c] :
        IsType(chan[c][i], "TxAnnounce") => chan[c][i].tx \in pool.seen

OrderInv == PoolInv /\ PoolIsSeen /\ AnnouncedIsSeen /\ AnnouncedInNonceOrder

\* A newcomer has no smaller nonce than anything of its sender seen before.
LEMMA NewcomerIsLast ==
    ASSUME PoolInv, NEW t \in Tx, Inserted(t)
    PROVE  /\ t \in pool'.seen
           /\ \A u \in pool.seen : From[u] = From[t] => Nonce[u] <= Nonce[t]
  <1>1. t \in pool'.seen
    BY DEF Inserted, Insert
  <1>2. pool \in Store /\ NonceExact(pool)
    BY DEF PoolInv, TypeOK, FiniteStore, MaxNonceExact
  <1>3. ASSUME NEW u \in pool.seen, From[u] = From[t] PROVE Nonce[u] <= Nonce[t]
    <2>1. /\ u \in Tx /\ From[t] \in Key /\ Nonce[u] \in Nat /\ Nonce[t] \in Nat
          /\ pool.maxNonce[From[t]] \in Nat
      BY <1>2, TxStoreAssumption DEF Store
    <2>2. ~(Nonce[t] < pool.maxNonce[From[t]])
      BY DEF Inserted, Admits, NonceTooLow
    <2>3. Nonce[u] <= pool.maxNonce[From[t]]
      BY <1>2, <1>3 DEF NonceExact
    <2> QED
      BY <2>1, <2>2, <2>3
  <1> QED
    BY <1>1, <1>3

\* Every step keeps the announcements in order.
LEMMA OrderStep == OrderInv /\ [Next]_vars => OrderInv'
  <1> SUFFICES ASSUME OrderInv, [Next]_vars PROVE OrderInv'
    OBVIOUS
  <1>1. /\ PoolInv /\ PoolInv' /\ PoolIsSeen /\ TypeOK
        /\ chan \in [Conn -> Seq(Msg)]
    BY PoolStep DEF OrderInv, PoolInv, TypeOK
  <1>2. pool.seen \subseteq pool'.seen /\ PoolIsSeen'
    BY <1>1, SeenGrows
  <1>3. ASSUME NEW c \in Conn
        PROVE  /\ \A i \in DOMAIN chan'[c] :
                      IsType(chan'[c][i], "TxAnnounce") => chan'[c][i].tx \in pool'.seen
               /\ \A i, j \in DOMAIN chan'[c] :
                      /\ i < j
                      /\ IsType(chan'[c][i], "TxAnnounce")
                      /\ IsType(chan'[c][j], "TxAnnounce")
                      /\ From[chan'[c][i].tx] = From[chan'[c][j].tx]
                      => Nonce[chan'[c][i].tx] <= Nonce[chan'[c][j].tx]
    <2>1. CASE chan'[c] = chan[c]
      BY <1>2, <2>1 DEF OrderInv, AnnouncedIsSeen, AnnouncedInNonceOrder
    <2>2. ASSUME NEW m \in Msg, Gets(c, m), Justified(c, m)
          PROVE  /\ \A i \in DOMAIN chan'[c] : IsType(chan'[c][i], "TxAnnounce") =>
                        chan'[c][i].tx \in pool'.seen
                 /\ \A i, j \in DOMAIN chan'[c] :
                        /\ i < j
                        /\ IsType(chan'[c][i], "TxAnnounce")
                        /\ IsType(chan'[c][j], "TxAnnounce")
                        /\ From[chan'[c][i].tx] = From[chan'[c][j].tx]
                        => Nonce[chan'[c][i].tx] <= Nonce[chan'[c][j].tx]
      <3> DEFINE n == Len(chan[c])
      <3>1. chan[c] \in Seq(Msg) /\ chan'[c] = Append(chan[c], m)
        BY <1>1, <2>2 DEF Gets
      <3>2. /\ n \in Nat /\ DOMAIN chan[c] = 1 .. n /\ DOMAIN chan'[c] = 1 .. (n + 1)
            /\ chan'[c][n + 1] = m
            /\ \A i \in 1 .. n : chan'[c][i] = chan[c][i]
        BY <3>1
      <3>3. IsType(m, "TxAnnounce") =>
                /\ m.tx \in pool'.seen
                /\ \A u \in pool.seen : From[u] = From[m.tx] => Nonce[u] <= Nonce[m.tx]
        BY <1>1, <2>2, MsgFields, NewcomerIsLast DEF Justified
      <3>4. \A i \in 1 .. n :
                IsType(chan[c][i], "TxAnnounce") => chan[c][i].tx \in pool.seen
        BY <3>2 DEF OrderInv, AnnouncedIsSeen
      <3>5. ASSUME NEW i \in 1 .. (n + 1), IsType(chan'[c][i], "TxAnnounce")
            PROVE  chan'[c][i].tx \in pool'.seen
        <4>1. i \in 1 .. n \/ i = n + 1
          BY <3>2
        <4> QED
          BY <1>2, <3>2, <3>3, <3>4, <3>5, <4>1
      <3>6. ASSUME NEW i \in 1 .. (n + 1), NEW j \in 1 .. (n + 1), i < j,
                   IsType(chan'[c][i], "TxAnnounce"),
                   IsType(chan'[c][j], "TxAnnounce"),
                   From[chan'[c][i].tx] = From[chan'[c][j].tx]
            PROVE  Nonce[chan'[c][i].tx] <= Nonce[chan'[c][j].tx]
        <4>1. i \in 1 .. n /\ (j \in 1 .. n \/ j = n + 1)
          BY <3>2, <3>6
        <4>2. CASE j \in 1 .. n
          BY <3>2, <3>6, <4>1, <4>2 DEF OrderInv, AnnouncedInNonceOrder
        <4>3. CASE j = n + 1
          <5>1. chan'[c][i] = chan[c][i] /\ chan'[c][j] = m
            BY <3>2, <4>1, <4>3
          <5>2. chan[c][i].tx \in pool.seen
            BY <3>4, <3>6, <4>1, <5>1
          <5> QED
            BY <3>3, <3>6, <5>1, <5>2
        <4> QED
          BY <4>1, <4>2, <4>3
      <3> QED
        BY <3>2, <3>5, <3>6
    <2> QED
      BY <1>1, <2>1, <2>2, OneMessage
  <1>4. AnnouncedIsSeen' /\ AnnouncedInNonceOrder'
    BY <1>3 DEF AnnouncedIsSeen, AnnouncedInNonceOrder, IsType
  <1> QED
    BY <1>1, <1>2, <1>4 DEF OrderInv

(***************************************************************************)
(* Every stream announces the transactions of a sender in nonce order,     *)
(* however requests of different connections interleave.                   *)
(***************************************************************************)
THEOREM OrderCorrect == Spec => []AnnouncedInNonceOrder
  <1>1. Init => OrderInv
    <2> SUFFICES ASSUME Init PROVE OrderInv
      OBVIOUS
    <2>1. PoolIsSeen
      BY DEF Init, EmptyStore, PoolIsSeen
    <2>2. \A c \in Conn : DOMAIN chan[c] = {}
      BY DEF Init
    <2> QED
      BY <2>1, <2>2, PoolInit DEF OrderInv, AnnouncedIsSeen, AnnouncedInNonceOrder
  <1>2. OrderInv => AnnouncedInNonceOrder
    BY DEF OrderInv
  <1> QED
    BY <1>1, <1>2, OrderStep, PTL DEF Spec

-----------------------------------------------------------------------------
(***************************************************************************)
(* Streams.  The blocks of a sequence of messages, whether they follow one *)
(* another, and what the last of them is.                                  *)
(***************************************************************************)
BlocksAt(s) == {i \in DOMAIN s : IsType(s[i], "NewBlock")}

Contiguous(s) ==
    \A i, j \in BlocksAt(s) :
        /\ i < j
        /\ ~ \E k \in BlocksAt(s) : i < k /\ k < j
        => /\ s[j].block.height = s[i].block.height + 1
           /\ s[j].block.parent = HeaderHash(s[i].block)

EndsBelow(s, height, parent) ==
    \A k \in BlocksAt(s) : (\A j \in BlocksAt(s) : j <= k) =>
        height = s[k].block.height + 1 /\ parent = HeaderHash(s[k].block)

\* t is announced and no block after it contains t.
Leaves(s, t) ==
    \E i \in DOMAIN s :
        /\ s[i] = TxAnnounce(t)
        /\ \A j \in BlocksAt(s) : j > i => t \notin s[j].block.txs

\* The positions of a stream after one more message.
LEMMA AppendPositions ==
    ASSUME NEW s \in Seq(Msg), NEW m \in Msg
    PROVE  LET n == Len(s)
           IN  /\ n \in Nat /\ DOMAIN s = 1 .. n
               /\ DOMAIN Append(s, m) = 1 .. (n + 1)
               /\ Append(s, m)[n + 1] = m
               /\ \A i \in 1 .. n : Append(s, m)[i] = s[i]
               /\ BlocksAt(s) \subseteq 1 .. n
               /\ BlocksAt(Append(s, m)) =
                      IF IsType(m, "NewBlock") THEN BlocksAt(s) \cup {n + 1}
                      ELSE BlocksAt(s)
  <1> DEFINE n == Len(s)
             r == Append(s, m)
  <1>1. /\ n \in Nat /\ DOMAIN s = 1 .. n /\ DOMAIN r = 1 .. (n + 1)
        /\ r[n + 1] = m
        /\ \A i \in 1 .. n : r[i] = s[i]
    OBVIOUS
  <1> HIDE DEF n, r
  <1>2. BlocksAt(s) = {i \in 1 .. n : IsType(s[i], "NewBlock")}
    BY <1>1 DEF BlocksAt
  <1>3. BlocksAt(r) = {i \in 1 .. (n + 1) : IsType(r[i], "NewBlock")}
    BY <1>1 DEF BlocksAt
  <1>4. 1 .. (n + 1) = (1 .. n) \cup {n + 1} /\ n + 1 \notin 1 .. n
    BY <1>1
  <1>5. BlocksAt(r) = {i \in 1 .. n : IsType(r[i], "NewBlock")} \cup
                      {i \in {n + 1} : IsType(r[i], "NewBlock")}
    BY <1>3, <1>4
  <1>6. BlocksAt(r) = IF IsType(m, "NewBlock") THEN BlocksAt(s) \cup {n + 1}
                      ELSE BlocksAt(s)
    BY <1>1, <1>2, <1>5
  <1> QED
    BY <1>1, <1>2, <1>6 DEF n, r

\* A message that is no block leaves the blocks of a stream as they were.
LEMMA AppendOther ==
    ASSUME NEW s \in Seq(Msg), NEW m \in Msg, ~IsType(m, "NewBlock"), Contiguous(s)
    PROVE  /\ Contiguous(Append(s, m))
           /\ \A h, p : EndsBelow(s, h, p) => EndsBelow(Append(s, m), h, p)
  <1> DEFINE r == Append(s, m)
  <1>1. /\ BlocksAt(r) = BlocksAt(s)
        /\ \A i \in BlocksAt(s) : r[i] = s[i]
    BY AppendPositions
  <1> HIDE DEF r
  <1>2. Contiguous(r)
    BY <1>1 DEF Contiguous
  <1>3. \A h, p : EndsBelow(s, h, p) => EndsBelow(r, h, p)
    BY <1>1 DEF EndsBelow
  <1> QED
    BY <1>2, <1>3 DEF r

\* A block that comes after the last one of a stream continues it.
LEMMA AppendBlock ==
    ASSUME NEW s \in Seq(Msg), NEW b \in Block, Contiguous(s),
           EndsBelow(s, b.height, b.parent)
    PROVE  /\ Contiguous(Append(s, NewBlock(b)))
           /\ EndsBelow(Append(s, NewBlock(b)), b.height + 1, HeaderHash(b))
  <1> DEFINE m == NewBlock(b)
             n == Len(s)
             r == Append(s, m)
  <1>1. m \in Msg /\ IsType(m, "NewBlock") /\ m.block = b
    BY MsgType DEF NewBlock, IsType
  <1>2. /\ n \in Nat
        /\ r[n + 1] = m
        /\ BlocksAt(s) \subseteq 1 .. n
        /\ BlocksAt(r) = BlocksAt(s) \cup {n + 1}
        /\ \A i \in BlocksAt(s) : r[i] = s[i]
    BY <1>1, AppendPositions
  <1> HIDE DEF m, n, r
  <1>3. ASSUME NEW i \in BlocksAt(r), NEW j \in BlocksAt(r), i < j,
               ~ \E k \in BlocksAt(r) : i < k /\ k < j
        PROVE  /\ r[j].block.height = r[i].block.height + 1
               /\ r[j].block.parent = HeaderHash(r[i].block)
    <2>1. i \in BlocksAt(s)
      BY <1>2, <1>3
    <2>2. CASE j \in BlocksAt(s)
      BY <1>2, <1>3, <2>1, <2>2 DEF Contiguous
    <2>3. CASE j = n + 1
      <3>1. \A k \in BlocksAt(s) : k <= i
        BY <1>2, <1>3, <2>3
      <3>2. b.height = s[i].block.height + 1 /\ b.parent = HeaderHash(s[i].block)
        BY <2>1, <3>1 DEF EndsBelow
      <3> QED
        BY <1>1, <1>2, <2>1, <2>3, <3>2
    <2> QED
      BY <1>2, <1>3, <2>2, <2>3
  <1>4. ASSUME NEW k \in BlocksAt(r), \A j \in BlocksAt(r) : j <= k
        PROVE  b.height + 1 = r[k].block.height + 1 /\ HeaderHash(b) = HeaderHash(r[k].block)
    <2>1. k = n + 1
      BY <1>2, <1>4
    <2> QED
      BY <1>1, <1>2, <2>1
  <1>5. Contiguous(r) /\ EndsBelow(r, b.height + 1, HeaderHash(b))
    BY <1>3, <1>4 DEF Contiguous, EndsBelow
  <1> QED
    BY <1>5 DEF r, m

\* What a stream leaves pending after one more message.
LEMMA AppendLeaves ==
    ASSUME NEW s \in Seq(Msg), NEW m \in Msg, NEW t, Leaves(Append(s, m), t)
    PROVE  /\ Leaves(s, t) \/ m = TxAnnounce(t)
           /\ IsType(m, "NewBlock") => t \notin m.block.txs
  <1> DEFINE n == Len(s)
             r == Append(s, m)
  <1>1. /\ n \in Nat /\ DOMAIN s = 1 .. n /\ DOMAIN r = 1 .. (n + 1)
        /\ r[n + 1] = m
        /\ \A i \in 1 .. n : r[i] = s[i]
        /\ BlocksAt(s) \subseteq 1 .. n
        /\ BlocksAt(r) = IF IsType(m, "NewBlock") THEN BlocksAt(s) \cup {n + 1}
                         ELSE BlocksAt(s)
    BY AppendPositions
  <1>2. PICK i \in DOMAIN r :
            /\ r[i] = TxAnnounce(t)
            /\ \A j \in BlocksAt(r) : j > i => t \notin r[j].block.txs
    BY DEF Leaves
  <1> HIDE DEF n, r
  <1>3. i \in 1 .. n \/ i = n + 1
    BY <1>1
  <1>4. CASE i = n + 1
    <2>1. m = TxAnnounce(t)
      BY <1>1, <1>2, <1>4
    <2>2. ~IsType(m, "NewBlock")
      BY <2>1 DEF IsType, TxAnnounce
    <2> QED
      BY <2>1, <2>2
  <1>5. CASE i \in 1 .. n
    <2>1. s[i] = TxAnnounce(t) /\ \A j \in BlocksAt(s) : j > i => t \notin s[j].block.txs
      BY <1>1, <1>2, <1>5
    <2>2. IsType(m, "NewBlock") => t \notin m.block.txs
      BY <1>1, <1>2, <1>5
    <2> QED
      BY <1>1, <1>5, <2>1, <2>2 DEF Leaves
  <1> QED
    BY <1>3, <1>4, <1>5

-----------------------------------------------------------------------------
(***************************************************************************)
(* A connection that is not registered yet has an empty channel and is no  *)
(* target of a broadcast.                                                  *)
(***************************************************************************)
FreshInv ==
    /\ PeersInv
    /\ \A c \in Conn : conn[c] = "handshake" => chan[c] = <<>> /\ c \notin targets

\* Only what the peers map or a broadcast holds gets a message.
LEMMA OnlyHeldGet ==
    ASSUME TypeOK, [Next]_vars, NEW c \in Conn, c \notin Registered, c \notin targets,
           ~Register(c)
    PROVE  chan'[c] = chan[c]
  <1>1. chan \in [Conn -> Seq(Msg)] /\ peers \in [NodeId -> Conn \cup {NoConn}]
        /\ NodeOf \in [Conn -> NodeId] /\ NoConn \notin Conn
    BY ServerAssumption DEF TypeOK
  <1>2. \A S, m : c \notin S /\ chan' = SentTo(S, m) => chan'[c] = chan[c]
    BY <1>1 DEF SentTo
  <1>3. ASSUME NEW t \in Tx, PostTx(t) PROVE chan'[c] = chan[c]
    BY <1>2, <1>3 DEF PostTx
  <1>4. ASSUME NEW d \in Conn, NEW t \in Tx, OnTxSubmit(d, t)
        PROVE  chan'[c] = chan[c]
    <2>1. c # peers[NodeOf[d]]
      BY <1>1 DEF Registered
    <2> QED
      BY <1>1, <1>2, <1>4, <2>1 DEF OnTxSubmit, Answer
  <1>5. ASSUME NEW d \in Conn, OnApp(d) PROVE chan'[c] = chan[c]
    BY <1>2, <1>5 DEF OnApp, Answer
  <1>6. ASSUME NEW d \in Conn, Register(d) PROVE chan'[c] = chan[c]
    BY <1>1, <1>6 DEF Register
  <1>7. ASSUME NEW d \in Conn, SendBlock(d) PROVE chan'[c] = chan[c]
    BY <1>2, <1>7 DEF SendBlock
  <1>8. CASE ~ \E d \in Conn : \/ OnApp(d) \/ Register(d) \/ SendBlock(d)
                               \/ \E t \in Tx : PostTx(t) \/ OnTxSubmit(d, t)
    BY <1>3, <1>8 DEF Next, vars, stateVars, chainVars, producerVars, OnTxAnnounce,
       HandshakeFails, ReaderEnds, Cleanup, Producer, Arm, Wake, Propose, Commit,
       Snapshot, EndBroadcast, Tick, Horizon
  <1> QED
    BY <1>3, <1>4, <1>5, <1>6, <1>7, <1>8

\* A handler never goes back to its handshake.
LEMMA StaysRegistered ==
    ASSUME TypeOK, [Next]_vars, NEW c \in Conn, conn'[c] = "handshake"
    PROVE  conn[c] = "handshake" /\ ~Register(c)
  <1>1. conn \in [Conn -> ConnStage]
    BY DEF TypeOK
  <1>2. \/ conn' = conn
        \/ \E d \in Conn, x \in {"open", "ended", "closed"} :
               conn' = [conn EXCEPT ![d] = x]
    BY DEF Next, vars, stateVars, chainVars, producerVars, PostTx, OnTxSubmit,
       OnTxAnnounce, OnApp, Serve, HandshakeFails, Register, ReaderEnds, Cleanup,
       Producer, Arm, Wake, Propose, Commit, Snapshot, SendBlock, EndBroadcast,
       Tick, Horizon
  <1>3. ~Register(c)
    BY <1>1 DEF Register
  <1> QED
    BY <1>1, <1>2, <1>3

\* The producer's targets were registered.
LEMMA TargetsAreRegistered ==
    ASSUME [Next]_vars, NEW c, c \in targets'
    PROVE  c \in targets \/ c \in Registered
  <1>1. CASE Snapshot
    BY <1>1 DEF Snapshot
  <1>2. ASSUME NEW d \in Conn, SendBlock(d) PROVE c \in targets
    BY <1>2 DEF SendBlock
  <1>3. CASE ~Snapshot /\ ~ \E d \in Conn : SendBlock(d)
    BY <1>3 DEF Next, vars, stateVars, chainVars, producerVars, PostTx, OnTxSubmit,
       OnTxAnnounce, OnApp, Serve, HandshakeFails, Register, ReaderEnds, Cleanup,
       Producer, Arm, Wake, Propose, Commit, EndBroadcast, Tick, Horizon
  <1> QED
    BY <1>1, <1>2, <1>3

\* Every step keeps unregistered connections fresh.
LEMMA FreshStep == FreshInv /\ [Next]_vars => FreshInv'
  <1> SUFFICES ASSUME FreshInv, [Next]_vars PROVE FreshInv'
    OBVIOUS
  <1>1. TypeOK /\ PeersInv /\ PeersInv' /\ EntriesAreLive
        /\ conn \in [Conn -> ConnStage] /\ peers \in [NodeId -> Conn \cup {NoConn}]
    BY PeersStep DEF FreshInv, PeersInv, TypeOK
  <1>2. ASSUME NEW c \in Conn, conn'[c] = "handshake"
        PROVE  chan'[c] = <<>> /\ c \notin targets'
    <2>1. conn[c] = "handshake" /\ ~Register(c)
      BY <1>1, <1>2, StaysRegistered
    <2>2. chan[c] = <<>> /\ c \notin targets
      BY <2>1 DEF FreshInv
    <2>3. c \notin Registered
      BY <1>1, <2>1 DEF Registered, EntriesAreLive
    <2> QED
      BY <1>1, <2>1, <2>2, <2>3, OnlyHeldGet, TargetsAreRegistered
  <1> QED
    BY <1>1, <1>2 DEF FreshInv

\* At first nobody is registered and nothing was sent.
LEMMA FreshInit == Init => FreshInv
  BY PeersInit DEF Init, FreshInv

\* Only registration adds a connection to the peers map.
LEMMA RegisteredAfter ==
    ASSUME TypeOK, [Next]_vars, NEW c \in Conn, c \in Registered'
    PROVE  c \in Registered \/ Register(c)
  <1>1. /\ peers \in [NodeId -> Conn \cup {NoConn}]
        /\ NodeOf \in [Conn -> NodeId] /\ NoConn \notin Conn
    BY ServerAssumption DEF TypeOK
  <1>2. ASSUME NEW d \in Conn, Register(d) PROVE c \in Registered \/ c = d
    BY <1>1, <1>2 DEF Register, Registered
  <1>3. ASSUME NEW d \in Conn, Cleanup(d) PROVE c \in Registered
    BY <1>1, <1>3 DEF Cleanup, Registered
  <1>4. CASE ~ \E d \in Conn : Register(d) \/ Cleanup(d)
    <2>1. peers' = peers
      BY <1>4 DEF Next, vars, stateVars, chainVars, PostTx, OnTxSubmit,
         OnTxAnnounce, OnApp, Serve, HandshakeFails, ReaderEnds, Producer, Arm,
         Wake, Propose, Commit, Snapshot, SendBlock, EndBroadcast, Tick, Horizon
    <2> QED
      BY <2>1 DEF Registered
  <1> QED
    BY <1>2, <1>3, <1>4

-----------------------------------------------------------------------------
(***************************************************************************)
(* Blocks in a stream.  A registered peer's stream, and that of a target   *)
(* of the broadcast that has lost its entry meanwhile, ends with the tip,  *)
(* or with the block before it while the broadcast of the tip is due.      *)
(***************************************************************************)
Awaits(c) == ppc = "snapshot" \/ (ppc = "broadcast" /\ c \in targets)

UpToDate(c) ==
    IF Awaits(c) THEN EndsBelow(chan[c], draft.height, draft.parent)
    ELSE EndsBelow(chan[c], tipHeight + 1, tipHash)

Followed == Registered \cup (IF ppc = "broadcast" THEN targets ELSE {})

StreamInv ==
    /\ FreshInv
    /\ ChainInv
    /\ ppc \in {"snapshot", "broadcast"} =>
           tipHeight = draft.height /\ tipHash = HeaderHash(draft)
    /\ \A c \in Conn : Contiguous(chan[c])
    /\ \A c \in Followed : UpToDate(c)

\* What the producer does to its draft, the tip and the broadcast.
LEMMA ProducerMoves ==
    ASSUME [Next]_vars, ~Commit, ~Snapshot, \A c \in Conn : ~SendBlock(c)
    PROVE  /\ UNCHANGED <<tipHeight, tipHash>>
           /\ \/ UNCHANGED <<ppc, draft, targets>>
              \/ /\ ppc' \notin {"snapshot", "broadcast"}
                 /\ \/ ppc \notin {"snapshot", "broadcast"}
                    \/ ppc = "broadcast" /\ targets = {}
  BY DEF Next, vars, stateVars, chainVars, producerVars, PostTx, OnTxSubmit,
     OnTxAnnounce, OnApp, Serve, HandshakeFails, Register, ReaderEnds, Cleanup,
     Producer, Arm, Wake, Propose, EndBroadcast, Tick, Horizon

\* Only registration adds a connection to those that blocks still go to.
LEMMA FollowedAfter ==
    ASSUME TypeOK, [Next]_vars, NEW c \in Conn, c \in Followed'
    PROVE  c \in Followed \/ Register(c)
  <1>1. CASE c \in Registered'
    BY <1>1, RegisteredAfter DEF Followed
  <1>2. CASE ppc' = "broadcast" /\ c \in targets'
    <2>1. CASE Snapshot
      BY <1>2, <2>1 DEF Snapshot, Followed
    <2>2. CASE Commit
      BY <1>2, <2>2 DEF Commit
    <2>3. ASSUME NEW d \in Conn, SendBlock(d) PROVE c \in Followed
      BY <1>2, <2>3 DEF SendBlock, Followed
    <2>4. CASE ~Commit /\ ~Snapshot /\ \A d \in Conn : ~SendBlock(d)
      BY <1>2, <2>4, ProducerMoves DEF Followed
    <2> QED
      BY <2>1, <2>2, <2>3, <2>4
  <1> QED
    BY <1>1, <1>2 DEF Followed

\* Every step keeps the streams.
LEMMA StreamStep == StreamInv /\ [Next]_vars => StreamInv'
  <1> SUFFICES ASSUME StreamInv, [Next]_vars PROVE StreamInv'
    OBVIOUS
  <1>1. /\ TypeOK /\ FreshInv /\ FreshInv' /\ ChainInv /\ ChainInv'
        /\ chan \in [Conn -> Seq(Msg)] /\ draft \in Block
        /\ Registered' \subseteq Conn /\ Followed' \subseteq Conn
    <2>1. TypeOK /\ TypeOK'
      BY TypeStep DEF StreamInv, ChainInv
    <2>2. Registered' \subseteq Conn /\ Followed' \subseteq Conn
      BY <2>1 DEF TypeOK, Registered, Followed
    <2> QED
      BY <2>1, <2>2, FreshStep, ChainStep DEF StreamInv, TypeOK
  <1>2. ppc' \in {"snapshot", "broadcast"} =>
            tipHeight' = draft'.height /\ tipHash' = HeaderHash(draft')
    <2>1. CASE Commit
      BY <2>1 DEF Commit
    <2>2. CASE Snapshot \/ \E c \in Conn : SendBlock(c)
      BY <2>2 DEF Snapshot, SendBlock, stateVars, StreamInv
    <2>3. CASE ~Commit /\ ~Snapshot /\ \A c \in Conn : ~SendBlock(c)
      BY <2>3, ProducerMoves DEF StreamInv
    <2> QED
      BY <2>1, <2>2, <2>3
  <1>3. ASSUME NEW c \in Conn, ~SendBlock(c)
        PROVE  /\ Contiguous(chan'[c])
               /\ \A h, p : EndsBelow(chan[c], h, p) => EndsBelow(chan'[c], h, p)
    <2>1. chan'[c] # chan[c] => \E m \in Msg : Gets(c, m) /\ ~IsType(m, "NewBlock")
      BY <1>1, <1>3, OneMessage DEF Justified
    <2>2. chan[c] \in Seq(Msg) /\ Contiguous(chan[c])
      BY <1>1 DEF StreamInv
    <2> QED
      BY <2>1, <2>2, AppendOther DEF Gets
  <1>4. ASSUME NEW c \in Conn, SendBlock(c)
        PROVE  Contiguous(chan'[c]) /\ UpToDate(c)'
    <2>1. /\ ppc = "broadcast" /\ ppc' = "broadcast" /\ c \in targets /\ c \notin targets'
          /\ UNCHANGED <<tipHeight, tipHash>>
          /\ chan'[c] = Append(chan[c], NewBlock(draft))
      BY <1>4 DEF SendBlock, stateVars, SentTo
    <2>2. Contiguous(chan[c]) /\ EndsBelow(chan[c], draft.height, draft.parent)
      BY <2>1 DEF StreamInv, UpToDate, Awaits, Followed
    <2>3. Contiguous(chan'[c]) /\ EndsBelow(chan'[c], draft.height + 1, HeaderHash(draft))
      BY <1>1, <2>1, <2>2, AppendBlock
    <2>4. tipHeight = draft.height /\ tipHash = HeaderHash(draft)
      BY <2>1 DEF StreamInv
    <2> QED
      BY <2>1, <2>3, <2>4 DEF UpToDate, Awaits
  <1>5. ASSUME NEW c \in Followed' PROVE UpToDate(c)'
    <2>1. c \in Conn
      BY <1>1
    <2>2. CASE SendBlock(c)
      BY <1>4, <2>1, <2>2
    <2>3. CASE ~SendBlock(c) /\ Register(c)
      <3>1. chan[c] = <<>>
        BY <2>1, <2>3 DEF Register, FreshInv, StreamInv
      <3>2. \A h, p : EndsBelow(chan[c], h, p)
        BY <3>1 DEF EndsBelow, BlocksAt
      <3>3. \A h, p : EndsBelow(chan'[c], h, p)
        BY <1>3, <2>1, <2>3, <3>2
      <3> QED
        BY <3>3 DEF UpToDate
    <2>4. CASE ~SendBlock(c) /\ c \in Followed
      <3>1. UpToDate(c) /\ \A h, p : EndsBelow(chan[c], h, p) => EndsBelow(chan'[c], h, p)
        BY <1>3, <2>1, <2>4 DEF StreamInv
      <3>2. CASE Commit
        <4>1. /\ ppc = "commit" /\ ppc' = "snapshot" /\ draft' = draft
              /\ draft.height = tipHeight + 1 /\ draft.parent = tipHash
          BY <1>1, <3>2 DEF Commit, ChainInv, DraftExtendsTip
        <4>2. EndsBelow(chan[c], draft.height, draft.parent)
          BY <3>1, <4>1 DEF UpToDate, Awaits
        <4> QED
          BY <3>1, <4>1, <4>2 DEF UpToDate, Awaits
      <3>3. CASE Snapshot
        <4>1. UNCHANGED <<tipHeight, tipHash, draft, chan>> /\ ppc = "snapshot"
              /\ ppc' = "broadcast" /\ targets' = Registered /\ Registered' = Registered
          BY <3>3 DEF Snapshot, stateVars, Registered
        <4>2. Awaits(c) /\ Awaits(c)'
          BY <1>5, <4>1 DEF Awaits, Followed
        <4> QED
          BY <3>1, <4>1, <4>2 DEF UpToDate
      <3>4. CASE \E d \in Conn : SendBlock(d)
        <4>1. /\ UNCHANGED <<tipHeight, tipHash, draft>>
              /\ Awaits(c)' = Awaits(c)
          BY <2>4, <3>4 DEF SendBlock, stateVars, Awaits
        <4> QED
          BY <3>1, <4>1 DEF UpToDate
      <3>5. CASE ~Commit /\ ~Snapshot /\ \A d \in Conn : ~SendBlock(d)
        <4>1. /\ UNCHANGED <<tipHeight, tipHash>>
              /\ \/ UNCHANGED <<ppc, draft, targets>>
                 \/ ~Awaits(c) /\ ~Awaits(c)'
          BY <3>5, ProducerMoves DEF Awaits
        <4> QED
          BY <3>1, <4>1 DEF UpToDate, Awaits
      <3> QED
        BY <3>2, <3>3, <3>4, <3>5
    <2> QED
      BY <1>1, <1>5, <2>1, <2>2, <2>3, <2>4, FollowedAfter
  <1> QED
    BY <1>1, <1>2, <1>3, <1>4, <1>5 DEF StreamInv

\* At first nothing was sent and nobody is registered.
LEMMA StreamInit == Init => StreamInv
  <1> SUFFICES ASSUME Init PROVE StreamInv
    OBVIOUS
  <1>1. Registered = {} /\ ppc = "arm"
    BY DEF Init, Registered
  <1>2. \A c \in Conn : Contiguous(chan[c])
    BY DEF Init, Contiguous, BlocksAt
  <1> QED
    BY <1>1, <1>2, FreshInit, ChainInit DEF StreamInv, Followed

(***************************************************************************)
(* The blocks of every stream follow one another without a hole, whoever   *)
(* connects, leaves or takes the peer's place in the meantime.             *)
(***************************************************************************)
THEOREM StreamsCorrect == Spec => []StreamIsContiguous
  <1>1. StreamInv => StreamIsContiguous
    BY DEF StreamInv, StreamIsContiguous, Contiguous, BlockPositions, BlocksAt
  <1> QED
    BY <1>1, StreamInit, StreamStep, PTL DEF Spec

-----------------------------------------------------------------------------
(***************************************************************************)
(* Pending transactions of the peers.                                      *)
(***************************************************************************)
Settles(c, t) ==
    t \in pool.byId \/ t \in evicted \/ (t \in draft.txs /\ BlockStillDue(c))

PendingInv ==
    /\ FreshInv
    /\ \A c \in Registered, t \in Tx : Leaves(chan[c], t) => Settles(c, t)

\* What is settled for a peer stays so, but for the block the peer is sent.
LEMMA SettlesStep ==
    ASSUME TypeOK, [Next]_vars, NEW c \in Registered, NEW t \in Tx, Settles(c, t),
           SendBlock(c) => t \notin draft.txs
    PROVE  Settles(c, t)'
  <1>1. ASSUME NEW u \in Tx, Inserted(u), Serve PROVE Settles(c, t)'
    <2>1. PICK out : pool' = Insert(pool, u, out) /\ evicted' = evicted \cup out
      BY <1>1 DEF Inserted
    <2>2. pool'.byId = (pool.byId \ out) \cup {u}
      BY <2>1 DEF Insert
    <2>3. UNCHANGED <<draft, ppc, targets>>
      BY <1>1 DEF Serve, producerVars
    <2> QED
      BY <2>1, <2>2, <2>3 DEF Settles, BlockStillDue
  <1>2. CASE Propose
    <2>1. PICK S \in Drainable(pool, MaxTxsPerBlock) :
              /\ pool' = Drain(pool, S)
              /\ draft' = [draft EXCEPT !.height = tipHeight + 1,
                                        !.parent = tipHash,
                                        !.txs = S]
      BY <1>2 DEF Propose
    <2>2. draft \in Block /\ pool \in Store
      BY DEF TypeOK, FiniteStore
    <2>3. pool'.byId = pool.byId \ S /\ draft'.txs = S
      BY <2>1, <2>2 DEF Drain, Store, Block
    <2>4. ppc = "propose" /\ ppc' = "commit" /\ evicted' = evicted
      BY <1>2 DEF Propose
    <2> QED
      BY <2>3, <2>4 DEF Settles, BlockStillDue
  <1>3. CASE Commit \/ Snapshot \/ EndBroadcast \/ Wake \/ \E d \in Conn : SendBlock(d)
    BY <1>3 DEF Commit, Snapshot, EndBroadcast, Wake, SendBlock, stateVars, Settles,
       BlockStillDue
  <1>4. CASE /\ ~(Propose \/ Commit \/ Snapshot \/ EndBroadcast \/ Wake)
             /\ ~ \E d \in Conn : SendBlock(d)
             /\ ~ \E u \in Tx : Inserted(u) /\ Serve
    <2>1. /\ UNCHANGED <<pool, evicted, draft, targets>>
          /\ ppc' = ppc \/ ppc = "arm"
      BY <1>4 DEF Next, vars, stateVars, chainVars, producerVars, PostTx, OnTxSubmit,
         Refused, Known, OnTxAnnounce, OnApp, Serve, HandshakeFails, Register,
         ReaderEnds, Cleanup, Producer, Arm, Tick, Horizon
    <2> QED
      BY <2>1 DEF Settles, BlockStillDue
  <1> QED
    BY <1>1, <1>2, <1>3, <1>4

\* Every step keeps what peers have pending settled.
LEMMA PendingStep == PendingInv /\ [Next]_vars => PendingInv'
  <1> SUFFICES ASSUME PendingInv, [Next]_vars PROVE PendingInv'
    OBVIOUS
  <1>1. /\ TypeOK /\ FreshInv /\ FreshInv'
        /\ chan \in [Conn -> Seq(Msg)]
        /\ Registered' \subseteq Conn
    <2>1. TypeOK /\ TypeOK'
      BY TypeStep DEF PendingInv, FreshInv, PeersInv
    <2>2. Registered' \subseteq Conn
      BY <2>1 DEF TypeOK, Registered
    <2> QED
      BY <2>1, <2>2, FreshStep DEF PendingInv, TypeOK
  <1>2. ASSUME NEW c \in Registered', NEW t \in Tx, Leaves(chan'[c], t)
        PROVE  Settles(c, t)'
    <2>1. c \in Conn /\ chan[c] \in Seq(Msg)
      BY <1>1, <1>2
    <2>2. CASE chan'[c] # chan[c]
      <3>1. PICK m \in Msg : Gets(c, m) /\ Justified(c, m)
        BY <1>1, <2>1, <2>2, OneMessage
      <3>2. /\ Leaves(chan[c], t) \/ m = TxAnnounce(t)
            /\ IsType(m, "NewBlock") => t \notin m.block.txs
        BY <1>2, <2>1, <3>1, AppendLeaves DEF Gets
      <3>3. CASE m = TxAnnounce(t)
        <4>1. Inserted(t)
          BY <3>1, <3>3 DEF Justified, IsType, TxAnnounce
        <4> QED
          BY <4>1 DEF Inserted, Insert, Settles
      <3>4. CASE Leaves(chan[c], t)
        <4>1. c \in Registered
          <5>1. ~Register(c)
            BY <2>1, <3>4 DEF Register, Leaves, FreshInv, PendingInv
          <5> QED
            BY <1>1, <1>2, <2>1, <5>1, RegisteredAfter
        <4>2. SendBlock(c) => t \notin draft.txs
          <5> SUFFICES ASSUME SendBlock(c) PROVE t \notin draft.txs
            OBVIOUS
          <5>1. chan'[c] = Append(chan[c], NewBlock(draft)) /\ NewBlock(draft) \in Msg
            BY <1>1, <2>1, MsgType DEF SendBlock, SentTo, TypeOK
          <5>2. IsType(NewBlock(draft), "NewBlock") /\ NewBlock(draft).block = draft
            BY DEF IsType, NewBlock
          <5> QED
            BY <1>2, <2>1, <5>1, <5>2, AppendLeaves
        <4> QED
          BY <1>1, <3>4, <4>1, <4>2, SettlesStep DEF PendingInv
      <3> QED
        BY <3>2, <3>3, <3>4
    <2>3. CASE chan'[c] = chan[c]
      <3>1. Leaves(chan[c], t)
        BY <1>2, <2>3
      <3>2. ~Register(c)
        BY <2>1, <3>1 DEF Register, Leaves, FreshInv, PendingInv
      <3>3. ~SendBlock(c)
        <4>1. Append(chan[c], NewBlock(draft)) # chan[c]
          BY <2>1
        <4> QED
          BY <2>1, <2>3, <4>1 DEF SendBlock, SentTo
      <3> QED
        BY <1>1, <1>2, <2>1, <3>1, <3>2, <3>3, RegisteredAfter, SettlesStep DEF PendingInv
    <2> QED
      BY <2>2, <2>3
  <1> QED
    BY <1>1, <1>2 DEF PendingInv

\* At first nobody is registered.
LEMMA PendingInit == Init => PendingInv
  <1> SUFFICES ASSUME Init PROVE PendingInv
    OBVIOUS
  <1>1. Registered = {}
    BY DEF Init, Registered
  <1> QED
    BY <1>1, FreshInit DEF PendingInv

(***************************************************************************)
(* What a registered peer's stream leaves pending is in the server's pool, *)
(* was evicted, or is in a block on its way to the peer: a peer's mempool  *)
(* keeps no included transaction.                                          *)
(***************************************************************************)
THEOREM PendingCorrect == Spec => []PendingAtPeerIsPending
  <1>1. PendingInv => PendingAtPeerIsPending
    BY DEF PendingInv, PendingAtPeerIsPending, LeftPending, Leaves, BlockPositions,
       BlocksAt, Settles
  <1> QED
    BY <1>1, PendingInit, PendingStep, PTL DEF Spec

-----------------------------------------------------------------------------
(***************************************************************************)
(* What a client's mempool holds was announced in the part of the stream s *)
(* the client has read, its first n messages, and is in no block there     *)
(* after the announcement.                                                 *)
(***************************************************************************)
Told(s, n, t) ==
    \E i \in 1 .. n :
        /\ s[i] = TxAnnounce(t)
        /\ \A j \in (i + 1) .. n : IsType(s[j], "NewBlock") => t \notin s[j].block.txs

ClientType ==
    /\ cpool \in [Conn -> Store]
    /\ cread \in [Conn -> Nat]

ClientInv ==
    /\ PendingInv
    /\ ClientType
    /\ \A c \in Conn :
           /\ cread[c] <= Len(chan[c])
           /\ \A t \in cpool[c].byId : Told(chan[c], cread[c], t)

\* Reading one more message, which includes no t, keeps what was told of t.
LEMMA ToldOn ==
    ASSUME NEW s, NEW n \in Nat, NEW t, Told(s, n, t),
           IsType(s[n + 1], "NewBlock") => t \notin s[n + 1].block.txs
    PROVE  Told(s, n + 1, t)
  <1>1. PICK i \in 1 .. n :
            /\ s[i] = TxAnnounce(t)
            /\ \A j \in (i + 1) .. n :
                   IsType(s[j], "NewBlock") => t \notin s[j].block.txs
    BY DEF Told
  <1>2. \A j \in (i + 1) .. (n + 1) : j \in (i + 1) .. n \/ j = n + 1
    OBVIOUS
  <1>3. \A j \in (i + 1) .. (n + 1) :
            IsType(s[j], "NewBlock") => t \notin s[j].block.txs
    BY <1>1, <1>2
  <1>4. i \in 1 .. (n + 1)
    OBVIOUS
  <1> QED
    BY <1>1, <1>3, <1>4 DEF Told

\* An announcement just read tells of its transaction.
LEMMA ToldNow ==
    ASSUME NEW s, NEW n \in Nat, NEW t, s[n + 1] = TxAnnounce(t)
    PROVE  Told(s, n + 1, t)
  BY DEF Told

\* What the server appends to a stream leaves what was read as it is.
LEMMA ToldStays ==
    ASSUME NEW s \in Seq(Msg), NEW m \in Msg, NEW n \in Nat, n <= Len(s),
           NEW t, Told(s, n, t)
    PROVE  Told(Append(s, m), n, t)
  <1>1. \A j \in 1 .. n : Append(s, m)[j] = s[j]
    OBVIOUS
  <1>2. PICK i \in 1 .. n :
            /\ s[i] = TxAnnounce(t)
            /\ \A j \in (i + 1) .. n :
                   IsType(s[j], "NewBlock") => t \notin s[j].block.txs
    BY DEF Told
  <1>3. \A j \in (i + 1) .. n : j \in 1 .. n
    OBVIOUS
  <1> QED
    BY <1>1, <1>2, <1>3 DEF Told

-----------------------------------------------------------------------------
\* A client starts with an empty mempool and nothing read.
LEMMA ClientInit == NetInit => ClientInv
  <1> SUFFICES ASSUME NetInit PROVE ClientInv
    OBVIOUS
  <1>1. PendingInv
    BY PendingInit DEF NetInit
  <1>2. EmptyStore \in Store /\ EmptyStore.byId = {}
    BY EmptyStoreGood DEF FiniteStore, EmptyStore
  <1>3. \A c \in Conn : Len(chan[c]) \in Nat
    BY <1>1 DEF PendingInv, FreshInv, PeersInv, TypeOK
  <1> QED
    BY <1>1, <1>2, <1>3 DEF NetInit, ClientInv, ClientType

\* The server's steps leave the clients what they have.
LEMMA ServerKeeps ==
    ASSUME ClientInv, [Next]_vars, UNCHANGED clientVars
    PROVE  ClientInv'
  <1>1. PendingInv' /\ TypeOK
    BY PendingStep DEF ClientInv, PendingInv, FreshInv, PeersInv
  <1>2. cpool' = cpool /\ cread' = cread
    BY DEF clientVars
  <1>3. ASSUME NEW c \in Conn
        PROVE  /\ cread[c] <= Len(chan'[c])
               /\ \A t \in cpool[c].byId : Told(chan'[c], cread[c], t)
    <2>1. /\ chan[c] \in Seq(Msg) /\ cread[c] \in Nat /\ cread[c] <= Len(chan[c])
          /\ \A t \in cpool[c].byId : Told(chan[c], cread[c], t)
      BY <1>1 DEF TypeOK, ClientInv, ClientType
    <2>2. CASE chan'[c] = chan[c]
      BY <2>1, <2>2
    <2>3. ASSUME NEW m \in Msg, Gets(c, m)
          PROVE  /\ cread[c] <= Len(chan'[c])
                 /\ \A t \in cpool[c].byId : Told(chan'[c], cread[c], t)
      <3>1. chan'[c] = Append(chan[c], m)
        BY <2>3 DEF Gets
      <3>2. cread[c] <= Len(chan'[c])
        BY <2>1, <3>1
      <3> QED
        BY <2>1, <3>1, <3>2, ToldStays
    <2> QED
      BY <1>1, <2>2, <2>3, OneMessage
  <1> QED
    BY <1>1, <1>2, <1>3 DEF ClientInv, ClientType

\* A client that has handled its next message knows no more than it was told.
LEMMA ReadingKeeps ==
    ASSUME ClientInv, NEW c \in Conn, NEW m, Receive(c, m),
           NEW p \in Store, cpool' = [cpool EXCEPT ![c] = p],
           \A t \in p.byId : t \in cpool[c].byId \/ m = TxAnnounce(t),
           IsType(m, "NewBlock") => \A t \in p.byId : t \notin m.block.txs
    PROVE  ClientInv'
  <1> DEFINE n == cread[c]
  <1>1. /\ n \in Nat /\ n < Len(chan[c]) /\ m = chan[c][n + 1]
        /\ cread' = [cread EXCEPT ![c] = n + 1]
        /\ UNCHANGED vars
    BY DEF Receive, ClientInv, ClientType
  <1>2. PendingInv' /\ chan' = chan
    BY <1>1, PendingStep DEF ClientInv, vars
  <1>3. Len(chan[c]) \in Nat
    BY DEF ClientInv, PendingInv, FreshInv, PeersInv, TypeOK
  <1>4. ClientType'
    BY <1>1 DEF ClientInv, ClientType
  <1>5. \A t \in p.byId : Told(chan[c], n + 1, t)
    <2> SUFFICES ASSUME NEW t \in p.byId PROVE Told(chan[c], n + 1, t)
      OBVIOUS
    <2>1. CASE m = TxAnnounce(t)
      BY <1>1, <2>1, ToldNow
    <2>2. CASE t \in cpool[c].byId
      <3>1. Told(chan[c], n, t)
        BY <2>2 DEF ClientInv
      <3> QED
        BY <1>1, <3>1, ToldOn
    <2> QED
      BY <2>1, <2>2
  <1>6. /\ cread'[c] = n + 1 /\ cpool'[c] = p
        /\ \A d \in Conn \ {c} : cread'[d] = cread[d] /\ cpool'[d] = cpool[d]
    BY <1>1 DEF ClientInv, ClientType
  <1>7. ASSUME NEW d \in Conn
        PROVE  /\ cread'[d] <= Len(chan[d])
               /\ \A t \in cpool'[d].byId : Told(chan[d], cread'[d], t)
    <2>1. CASE d = c
      BY <1>1, <1>3, <1>5, <1>6, <2>1
    <2>2. CASE d # c
      BY <1>6, <2>2 DEF ClientInv
    <2> QED
      BY <2>1, <2>2
  <1> QED
    BY <1>2, <1>4, <1>7 DEF ClientInv

\* Every step of the network keeps what the clients hold explained.
LEMMA ClientInvStep == ClientInv /\ [NetNext]_netVars => ClientInv'
  <1> SUFFICES ASSUME ClientInv, [NetNext]_netVars PROVE ClientInv'
    OBVIOUS
  <1>1. CASE [Next]_vars /\ UNCHANGED clientVars
    BY <1>1, ServerKeeps
  <1>2. ASSUME NEW c \in Conn, ClientOnTxAnnounce(c)
        PROVE  ClientInv'
    <2>1. PICK t \in Tx :
              /\ Receive(c, TxAnnounce(t))
              /\ \/ cpool' = cpool
                 \/ \E out \in Evictable(cpool[c]) :
                        cpool' = [cpool EXCEPT ![c] = Insert(@, t, out)]
      BY <1>2 DEF ClientOnTxAnnounce
    <2>2. cpool \in [Conn -> Store] /\ cpool[c] \in Store
      BY DEF ClientInv, ClientType
    <2>3. ~IsType(TxAnnounce(t), "NewBlock")
      BY DEF IsType, TxAnnounce
    <2>4. CASE cpool' = cpool
      <3>1. cpool' = [cpool EXCEPT ![c] = cpool[c]]
        BY <2>2, <2>4
      <3> QED
        BY <2>1, <2>2, <2>3, <3>1, ReadingKeeps
    <2>5. ASSUME NEW out \in Evictable(cpool[c]),
                 cpool' = [cpool EXCEPT ![c] = Insert(cpool[c], t, out)]
          PROVE  ClientInv'
      <3>1. Insert(cpool[c], t, out) \in Store
        BY <2>2, TxStoreAssumption DEF Insert, Store
      <3>2. Insert(cpool[c], t, out).byId = (cpool[c].byId \ out) \cup {t}
        BY DEF Insert
      <3>3. \A u \in Insert(cpool[c], t, out).byId :
                u \in cpool[c].byId \/ TxAnnounce(t) = TxAnnounce(u)
        BY <3>2
      <3> QED
        BY <2>1, <2>3, <2>5, <3>1, <3>3, ReadingKeeps
    <2> QED
      BY <2>1, <2>4, <2>5
  <1>3. ASSUME NEW c \in Conn, ClientOnNewBlock(c)
        PROVE  ClientInv'
    <2> DEFINE m == chan[c][cread[c] + 1]
               p == [cpool[c] EXCEPT !.byId = @ \ m.block.txs]
    <2>1. /\ IsType(m, "NewBlock") /\ Receive(c, m)
          /\ cpool' = [cpool EXCEPT ![c] = p]
      BY <1>3 DEF ClientOnNewBlock, OnNewBlock
    <2>2. cpool[c] \in Store
      BY DEF ClientInv, ClientType
    <2>3. p \in Store /\ p.byId = cpool[c].byId \ m.block.txs
      BY <2>2 DEF Store
    <2> HIDE DEF m, p
    <2> QED
      BY <2>1, <2>3, ReadingKeeps
  <1>4. ASSUME NEW c \in Conn, ClientOnOther(c)
        PROVE  ClientInv'
    <2> DEFINE m == chan[c][cread[c] + 1]
    <2>1. /\ m.type \in {"Ack", "Peers", "TxAck"} /\ Receive(c, m)
          /\ cpool' = cpool
      BY <1>4 DEF ClientOnOther
    <2> HIDE DEF m
    <2>2. cpool[c] \in Store /\ cpool' = [cpool EXCEPT ![c] = cpool[c]]
      BY <2>1 DEF ClientInv, ClientType
    <2>3. ~IsType(m, "NewBlock")
      BY <2>1 DEF IsType
    <2> QED
      BY <2>1, <2>2, <2>3, ReadingKeeps
  <1> QED
    BY <1>1, <1>2, <1>3, <1>4 DEF NetNext, netVars

(***************************************************************************)
(* What a registered client holds in its mempool is pending at the server, *)
(* was evicted there, or is in a block on its way to the client, although  *)
(* announcements and blocks are sent by different tasks of the server.     *)
(***************************************************************************)
THEOREM ClientPoolsCorrect == NetSpec => []ClientPoolIsPending
  <1>1. ClientInv => ClientPoolIsPending
    <2> SUFFICES ASSUME ClientInv, NEW c \in Registered, NEW t \in cpool[c].byId,
                        ~BlockUnread(c, t)
                 PROVE  Settles(c, t)
      BY DEF ClientPoolIsPending, Settles
    <2>1. /\ c \in Conn /\ chan[c] \in Seq(Msg)
          /\ cread[c] \in Nat /\ cread[c] <= Len(chan[c])
      BY DEF ClientInv, ClientType, PendingInv, FreshInv, PeersInv, TypeOK, Registered
    <2>2. t \in Tx /\ Told(chan[c], cread[c], t)
      BY <2>1 DEF ClientInv, ClientType, Store
    <2>3. PICK i \in 1 .. cread[c] :
              /\ chan[c][i] = TxAnnounce(t)
              /\ \A j \in (i + 1) .. cread[c] :
                     IsType(chan[c][j], "NewBlock") => t \notin chan[c][j].block.txs
      BY <2>2 DEF Told
    <2>4. i \in DOMAIN chan[c]
      BY <2>1
    <2>5. ASSUME NEW j \in DOMAIN chan[c], j > i, IsType(chan[c][j], "NewBlock")
          PROVE  t \notin chan[c][j].block.txs
      <3>1. j \in (i + 1) .. cread[c] \/ j > cread[c]
        BY <2>1, <2>5
      <3> QED
        BY <2>3, <2>5, <3>1 DEF BlockUnread
    <2>6. Leaves(chan[c], t)
      BY <2>3, <2>4, <2>5 DEF Leaves, BlocksAt
    <2> QED
      BY <2>2, <2>6 DEF ClientInv, PendingInv
  <1> QED
    BY <1>1, ClientInit, ClientInvStep, PTL DEF NetSpec

-----------------------------------------------------------------------------
(***************************************************************************)
(* The clients' view of finality.  The chain up to a height decides what   *)
(* was final at that height.                                               *)
(***************************************************************************)
\* Nothing is final before the first block.
LEMMA FinalityAtStart == \A s : FinalityAt(s, 0) = 0
  BY DEF FinalityAt, Boundaries

\* finalized_height after a block comes from the one before it.
LEMMA FinalityAtNext ==
    ASSUME NEW s, NEW n \in Nat
    PROVE  FinalityAt(s, n + 1) = FinalityAfter(FinalityAt(s, n), s[n + 1].slot)
  <1> DEFINE B == Boundaries(s, n)
             C == Boundaries(s, n + 1)
  <1>1. 1 .. (n + 1) = (1 .. n) \cup {n + 1} /\ n + 1 \notin 1 .. n
    OBVIOUS
  <1>2. CASE SlotInEpoch(s[n + 1].slot) = 0
    <2>1. n + 1 \in C /\ C \subseteq 1 .. (n + 1)
      BY <1>1, <1>2 DEF Boundaries
    <2> HIDE DEF C
    <2>2. \A j \in C : j <= n + 1
      BY <2>1
    <2>3. (CHOOSE i \in C : \A j \in C : j <= i) = n + 1
      <3>1. \A i \in C : (\A j \in C : j <= i) => i = n + 1
        BY <2>1, <2>2
      <3> QED
        BY <2>1, <2>2, <3>1
    <2>4. FinalityAt(s, n + 1) = FinalizedAt(EpochOfSlot(s[n + 1].slot))
      BY <2>1, <2>3 DEF FinalityAt, C
    <2> QED
      BY <1>2, <2>4 DEF FinalityAfter
  <1>3. CASE SlotInEpoch(s[n + 1].slot) # 0
    <2>1. B = C
      BY <1>1, <1>3 DEF Boundaries
    <2>2. FinalityAt(s, n + 1) = FinalityAt(s, n)
      BY <2>1 DEF FinalityAt
    <2> QED
      BY <1>3, <2>2 DEF FinalityAfter
  <1> QED
    BY <1>2, <1>3

\* A chain that keeps its blocks up to h keeps what was final at h.
LEMMA FinalityAtStays ==
    ASSUME NEW s, NEW r, NEW h \in Nat, \A i \in 1 .. h : r[i] = s[i]
    PROVE  FinalityAt(r, h) = FinalityAt(s, h)
  <1> DEFINE B == Boundaries(s, h)
  <1>1. Boundaries(r, h) = B /\ B \subseteq 1 .. h
    BY DEF Boundaries
  <1> HIDE DEF B
  <1>2. CASE B = {}
    BY <1>1, <1>2 DEF FinalityAt, B
  <1>3. CASE B # {}
    <2> DEFINE newest == CHOOSE i \in B : \A j \in B : j <= i
    <2>1. newest \in B
      <3>1. B \in SUBSET Nat /\ \A i \in B : i <= h
        BY <1>1
      <3> QED
        BY <1>3, <3>1, Largest
    <2>2. r[newest] = s[newest]
      BY <1>1, <2>1
    <2>3. FinalityAt(s, h) = FinalizedAt(EpochOfSlot(s[newest].slot))
      BY <1>3 DEF FinalityAt, B
    <2>4. FinalityAt(r, h) = FinalizedAt(EpochOfSlot(r[newest].slot))
      BY <1>1, <1>3 DEF FinalityAt
    <2> QED
      BY <2>2, <2>3, <2>4
  <1> QED
    BY <1>2, <1>3

\* finalized_height is what the chain decides, and was never higher.
FinalityInv ==
    /\ ChainInv
    /\ finalized = FinalityAt(chain, Len(chain))
    /\ \A h \in 0 .. Len(chain) : FinalityAt(chain, h) \in 0 .. finalized

\* At first there is no block and nothing is final.
LEMMA FinalityInvInit == Init => FinalityInv
  <1> SUFFICES ASSUME Init PROVE FinalityInv
    OBVIOUS
  <1>1. Len(chain) = 0 /\ finalized = 0
    BY DEF Init
  <1> QED
    BY <1>1, ChainInit, FinalityAtStart DEF FinalityInv

\* The chain grows at its end, by the producer's draft.
LEMMA ChainGrows ==
    ASSUME TypeOK, [Next]_vars
    PROVE  /\ ~Commit => chain' = chain
           /\ Len(chain) \in Nat /\ Len(chain') \in Nat
           /\ Len(chain) <= Len(chain')
           /\ \A i \in 1 .. Len(chain) : chain'[i] = chain[i]
  <1>1. chain \in Seq(Block) /\ draft \in Block
    BY DEF TypeOK
  <1>2. CASE Commit
    <2>1. chain' = Append(chain, draft)
      BY <1>2 DEF Commit
    <2> QED
      BY <1>1, <1>2, <2>1
  <1>3. ASSUME ~Commit PROVE chain' = chain
    BY <1>3 DEF Next, vars, stateVars, chainVars, PostTx, OnTxSubmit, OnTxAnnounce,
       OnApp, Serve, HandshakeFails, Register, ReaderEnds, Cleanup, Producer, Arm,
       Wake, Propose, Snapshot, SendBlock, EndBroadcast, Tick, Horizon
  <1>4. CASE ~Commit
    BY <1>1, <1>3, <1>4
  <1> QED
    BY <1>2, <1>3, <1>4

\* Every step keeps finalized_height what the chain decides.
LEMMA FinalityInvStep == FinalityInv /\ [Next]_vars => FinalityInv'
  <1> SUFFICES ASSUME FinalityInv, [Next]_vars PROVE FinalityInv'
    OBVIOUS
  <1> DEFINE n == Len(chain)
  <1>1. /\ TypeOK /\ ChainInv /\ ChainInv' /\ n \in Nat /\ finalized \in Nat
        /\ \A i \in 1 .. n : chain'[i] = chain[i]
    BY ChainStep, ChainGrows DEF FinalityInv, ChainInv, TypeOK
  <1>2. ASSUME NEW h \in 0 .. n
        PROVE  FinalityAt(chain', h) = FinalityAt(chain, h) /\ FinalityAt(chain, h) \in 0 .. finalized
    BY <1>1, <1>2, FinalityAtStays DEF FinalityInv
  <1>3. finalized' >= finalized /\ finalized' \in Nat
    <2>1. [finalized' >= finalized]_finalized
      BY <1>1, FinalityStep
    <2> QED
      BY <1>1, <2>1 DEF ChainInv, TypeOK
  <1>4. CASE Commit
    <2>1. /\ chain' = Append(chain, draft) /\ chain \in Seq(Block) /\ draft \in Block
          /\ finalized' = FinalityAfter(finalized, draft.slot)
      BY <1>1, <1>4 DEF Commit, TypeOK
    <2>2. Len(chain') = n + 1 /\ chain'[n + 1] = draft
      BY <1>1, <2>1
    <2>3. FinalityAt(chain', n + 1) = FinalityAfter(FinalityAt(chain', n), draft.slot)
      BY <1>1, <2>2, FinalityAtNext
    <2>4. finalized' = FinalityAt(chain', n + 1)
      BY <1>1, <1>2, <2>1, <2>3 DEF FinalityInv
    <2>5. \A h \in 0 .. (n + 1) : h \in 0 .. n \/ h = n + 1
      BY <1>1
    <2>6. \A h \in 0 .. (n + 1) : FinalityAt(chain', h) \in 0 .. finalized'
      BY <1>1, <1>2, <1>3, <2>4, <2>5
    <2> QED
      BY <1>1, <2>2, <2>4, <2>6 DEF FinalityInv
  <1>5. CASE ~Commit
    <2>1. chain' = chain /\ finalized' = finalized
      BY <1>1, <1>5, ChainGrows, OnlyCommitFinalizes
    <2> QED
      BY <1>1, <1>2, <2>1 DEF FinalityInv
  <1> QED
    BY <1>4, <1>5

-----------------------------------------------------------------------------
(***************************************************************************)
(* Every block in a stream is the block of its height in the chain.        *)
(***************************************************************************)
Committed(s, b) == b.height \in 1 .. Len(s) /\ s[b.height] = b

CommittedInv ==
    /\ StreamInv
    /\ ppc \in {"snapshot", "broadcast"} => Committed(chain, draft)
    /\ \A c \in Conn : \A i \in BlocksAt(chan[c]) : Committed(chain, chan[c][i].block)

\* At first nothing was sent.
LEMMA CommittedInit == Init => CommittedInv
  <1> SUFFICES ASSUME Init PROVE CommittedInv
    OBVIOUS
  <1>1. \A c \in Conn : BlocksAt(chan[c]) = {}
    BY DEF Init, BlocksAt
  <1> QED
    BY <1>1, StreamInit DEF Init, CommittedInv

\* Every step sends committed blocks only.
LEMMA CommittedStep == CommittedInv /\ [Next]_vars => CommittedInv'
  <1> SUFFICES ASSUME CommittedInv, [Next]_vars PROVE CommittedInv'
    OBVIOUS
  <1>1. /\ TypeOK /\ ChainInv /\ StreamInv' /\ chan \in [Conn -> Seq(Msg)]
        /\ chain \in Seq(Block) /\ draft \in Block
    BY StreamStep DEF CommittedInv, StreamInv, ChainInv, TypeOK
  <1>2. /\ Len(chain) \in Nat /\ Len(chain') \in Nat /\ Len(chain) <= Len(chain')
        /\ \A i \in 1 .. Len(chain) : chain'[i] = chain[i]
    BY <1>1, ChainGrows
  <1>3. \A b : Committed(chain, b) => Committed(chain', b)
    BY <1>2 DEF Committed
  <1>4. ppc' \in {"snapshot", "broadcast"} => Committed(chain', draft')
    <2>1. CASE Commit
      <3>1. /\ chain' = Append(chain, draft) /\ draft' = draft
            /\ draft.height = Len(chain) + 1
        BY <1>1, <2>1 DEF Commit, ChainInv, DraftExtendsTip, ChainIsLinked
      <3>2. Len(chain') = Len(chain) + 1 /\ chain'[Len(chain) + 1] = draft
        BY <1>1, <3>1
      <3> QED
        BY <1>2, <3>1, <3>2 DEF Committed
    <2>2. CASE Snapshot \/ \E c \in Conn : SendBlock(c)
      <3>1. Committed(chain, draft) /\ draft' = draft
        BY <2>2 DEF Snapshot, SendBlock, CommittedInv
      <3> QED
        BY <1>3, <3>1
    <2>3. CASE ~Commit /\ ~Snapshot /\ \A c \in Conn : ~SendBlock(c)
      BY <1>3, <2>3, ProducerMoves DEF CommittedInv
    <2> QED
      BY <2>1, <2>2, <2>3
  <1>5. ASSUME NEW c \in Conn, NEW i \in BlocksAt(chan'[c])
        PROVE  Committed(chain', chan'[c][i].block)
    <2>1. CASE chan'[c] = chan[c]
      BY <1>3, <1>5, <2>1 DEF CommittedInv
    <2>2. ASSUME NEW m \in Msg, Gets(c, m), Justified(c, m)
          PROVE  Committed(chain', chan'[c][i].block)
      <3> DEFINE n == Len(chan[c])
      <3>1. /\ chan'[c] = Append(chan[c], m) /\ chan[c] \in Seq(Msg)
            /\ n \in Nat
            /\ chan'[c][n + 1] = m
            /\ \A j \in 1 .. n : chan'[c][j] = chan[c][j]
            /\ BlocksAt(chan[c]) \subseteq 1 .. n
            /\ BlocksAt(chan'[c]) = IF IsType(m, "NewBlock") THEN BlocksAt(chan[c]) \cup {n + 1}
                                    ELSE BlocksAt(chan[c])
        BY <1>1, <2>2, AppendPositions DEF Gets
      <3> HIDE DEF n
      <3>2. CASE i \in BlocksAt(chan[c])
        BY <1>3, <3>1, <3>2 DEF CommittedInv
      <3>3. CASE i = n + 1 /\ IsType(m, "NewBlock")
        <4>1. SendBlock(c) /\ chan'[c] = Append(chan[c], NewBlock(draft))
          BY <2>2, <3>3 DEF Justified, SendBlock, SentTo
        <4>2. Committed(chain, draft)
          BY <4>1 DEF SendBlock, CommittedInv
        <4>3. chan'[c][i] = NewBlock(draft)
          BY <3>1, <3>3, <4>1 DEF n
        <4> QED
          BY <1>3, <4>2, <4>3 DEF NewBlock
      <3> QED
        BY <1>5, <3>1, <3>2, <3>3
    <2> QED
      BY <1>1, <2>1, <2>2, OneMessage
  <1> QED
    BY <1>1, <1>4, <1>5 DEF CommittedInv

-----------------------------------------------------------------------------
(***************************************************************************)
(* The tip of a client is the last block it has read, and its finalized    *)
(* height is the one of that block in the chain, or 0.                     *)
(***************************************************************************)
BlocksRead(s, n) == {i \in BlocksAt(s) : i <= n}

Follows(tip, final, s, b) ==
    tip = b.height /\ final \in {0, FinalityAt(s, b.height)}

AtLastBlock(c) ==
    LET read == BlocksRead(chan[c], cread[c])
    IN  \/ read = {} /\ ctip[c] = 0 /\ cfinal[c] = 0
        \/ \E i \in read :
               /\ \A j \in read : j <= i
               /\ Follows(ctip[c], cfinal[c], chain, chan[c][i].block)

TipType ==
    /\ ctip \in [Conn -> Nat]
    /\ cfinal \in [Conn -> Nat]
    /\ cread \in [Conn -> Nat]
    /\ \A c \in Conn : cread[c] <= Len(chan[c])

TipInv == CommittedInv /\ FinalityInv /\ TipType /\ \A c \in Conn : AtLastBlock(c)

\* At first nothing was read.
LEMMA TipInit == NetInit => TipInv
  <1> SUFFICES ASSUME NetInit PROVE TipInv
    OBVIOUS
  <1>1. CommittedInv /\ FinalityInv
    BY CommittedInit, FinalityInvInit DEF NetInit
  <1>2. TipType
    BY DEF NetInit, Init, TipType
  <1>3. \A c \in Conn : BlocksRead(chan[c], cread[c]) = {}
    BY DEF NetInit, Init, BlocksRead, BlocksAt
  <1> QED
    BY <1>1, <1>2, <1>3 DEF NetInit, TipInv, AtLastBlock

\* The server's steps leave what was read, and what it made final, as it was.
LEMMA TipServerKeeps ==
    ASSUME TipInv, [Next]_vars, UNCHANGED clientVars
    PROVE  TipInv'
  <1>1. /\ CommittedInv /\ CommittedInv' /\ FinalityInv' /\ TypeOK
        /\ chan \in [Conn -> Seq(Msg)]
        /\ UNCHANGED <<ctip, cfinal, cread>>
    BY CommittedStep, FinalityInvStep
    DEF TipInv, CommittedInv, StreamInv, ChainInv, TypeOK, clientVars
  <1>2. ASSUME NEW h \in 1 .. Len(chain)
        PROVE  FinalityAt(chain', h) = FinalityAt(chain, h)
    <2>1. Len(chain) \in Nat /\ \A i \in 1 .. Len(chain) : chain'[i] = chain[i]
      BY <1>1, ChainGrows
    <2> QED
      BY <1>2, <2>1, FinalityAtStays
  <1>3. ASSUME NEW c \in Conn
        PROVE  cread[c] <= Len(chan'[c]) /\ AtLastBlock(c)'
    <2> DEFINE k == cread[c]
               n == Len(chan[c])
    <2>1. k \in Nat /\ n \in Nat /\ k <= n /\ AtLastBlock(c)
      BY <1>1 DEF TipInv, TipType
    <2>2. /\ k <= Len(chan'[c])
          /\ BlocksRead(chan'[c], k) = BlocksRead(chan[c], k)
          /\ \A i \in BlocksRead(chan[c], k) : chan'[c][i] = chan[c][i]
      <3>1. CASE chan'[c] = chan[c]
        BY <2>1, <3>1
      <3>2. ASSUME NEW m \in Msg, chan'[c] = Append(chan[c], m)
            PROVE  /\ k <= Len(chan'[c])
                   /\ BlocksRead(chan'[c], k) = BlocksRead(chan[c], k)
                   /\ \A i \in BlocksRead(chan[c], k) : chan'[c][i] = chan[c][i]
        <4>1. /\ Len(chan'[c]) = n + 1
              /\ \A i \in 1 .. n : chan'[c][i] = chan[c][i]
              /\ BlocksAt(chan[c]) \subseteq 1 .. n
              /\ BlocksAt(chan'[c]) = IF IsType(m, "NewBlock")
                                      THEN BlocksAt(chan[c]) \cup {n + 1}
                                      ELSE BlocksAt(chan[c])
          BY <1>1, <3>2, AppendPositions
        <4> QED
          BY <2>1, <4>1 DEF BlocksRead
      <3> QED
        BY <1>1, <3>1, <3>2, OneMessage DEF Gets
    <2>3. \A i \in BlocksRead(chan[c], k) : chan[c][i].block.height \in 1 .. Len(chain)
      BY <1>1 DEF CommittedInv, Committed, BlocksRead
    <2> HIDE DEF k, n
    <2>4. AtLastBlock(c)'
      <3>1. CASE BlocksRead(chan[c], k) = {} /\ ctip[c] = 0 /\ cfinal[c] = 0
        BY <1>1, <2>2, <3>1 DEF AtLastBlock, k
      <3>2. ASSUME NEW i \in BlocksRead(chan[c], k),
                   \A j \in BlocksRead(chan[c], k) : j <= i,
                   Follows(ctip[c], cfinal[c], chain, chan[c][i].block)
            PROVE  AtLastBlock(c)'
        <4>1. Follows(ctip'[c], cfinal'[c], chain', chan'[c][i].block)
          BY <1>1, <1>2, <2>2, <2>3, <3>2 DEF Follows
        <4> QED
          BY <1>1, <2>2, <3>2, <4>1 DEF AtLastBlock, k
      <3> QED
        BY <2>1, <3>1, <3>2 DEF AtLastBlock, k
    <2> QED
      BY <2>2, <2>4 DEF k
  <1>4. TipType'
    BY <1>1, <1>3 DEF TipInv, TipType
  <1> QED
    BY <1>1, <1>3, <1>4 DEF TipInv

\* A message that is no block leaves the last block read, the tip and finality.
LEMMA TipOtherKeeps ==
    ASSUME TipInv, NEW c \in Conn, NEW m, Receive(c, m), ~IsType(m, "NewBlock"),
           UNCHANGED <<ctip, cfinal>>
    PROVE  TipInv'
  <1> DEFINE n == cread[c]
             s == chan[c]
  <1>1. /\ n \in Nat /\ n < Len(s) /\ m = s[n + 1]
        /\ cread' = [cread EXCEPT ![c] = n + 1] /\ UNCHANGED vars
        /\ s \in Seq(Msg) /\ Len(s) \in Nat
    BY DEF Receive, TipInv, TipType, CommittedInv, StreamInv, ChainInv, TypeOK
  <1>2. CommittedInv' /\ FinalityInv' /\ chan' = chan /\ chain' = chain
    BY <1>1, CommittedStep, FinalityInvStep DEF TipInv, vars
  <1>3. TipType'
    BY <1>1, <1>2 DEF TipInv, TipType
  <1>4. BlocksAt(s) \subseteq Nat /\ n + 1 \notin BlocksAt(s)
    BY <1>1 DEF BlocksAt
  <1>5. BlocksRead(s, n + 1) = BlocksRead(s, n)
    BY <1>1, <1>4 DEF BlocksRead
  <1>6. ASSUME NEW d \in Conn PROVE AtLastBlock(d)'
    <2>1. AtLastBlock(d)
      BY DEF TipInv
    <2>2. BlocksRead(chan[d], cread'[d]) = BlocksRead(chan[d], cread[d])
      BY <1>1, <1>5 DEF TipInv, TipType
    <2> QED
      BY <1>2, <2>1, <2>2 DEF AtLastBlock
  <1> QED
    BY <1>2, <1>3, <1>6 DEF TipInv

\* Reading a block moves the tip to it, and finality as the server moved it.
LEMMA TipBlockKeeps ==
    ASSUME TipInv, NEW c \in Conn, ClientOnNewBlock(c)
    PROVE  TipInv'
  <1> DEFINE n == cread[c]
             s == chan[c]
             b == s[n + 1].block
  <1>1. /\ n \in Nat /\ n < Len(s)
        /\ cread' = [cread EXCEPT ![c] = n + 1] /\ UNCHANGED vars
        /\ IsType(s[n + 1], "NewBlock")
        /\ ctip' = [ctip EXCEPT ![c] = b.height]
        /\ cfinal' = [cfinal EXCEPT ![c] = FinalityAfter(@, b.slot)]
        /\ s \in Seq(Msg) /\ Len(s) \in Nat
    BY DEF ClientOnNewBlock, OnNewBlock, Receive, TipInv, TipType, CommittedInv,
       StreamInv, ChainInv, TypeOK
  <1>2. /\ CommittedInv' /\ FinalityInv' /\ chan' = chan /\ chain' = chain
        /\ CommittedInv /\ FinalityInv /\ TipType /\ AtLastBlock(c)
        /\ Contiguous(s)
    BY <1>1, CommittedStep, FinalityInvStep DEF TipInv, vars, CommittedInv, StreamInv
  <1>3. n + 1 \in BlocksAt(s) /\ BlocksAt(s) \subseteq Nat
    BY <1>1 DEF BlocksAt
  <1>4. /\ BlocksRead(s, n + 1) = BlocksRead(s, n) \cup {n + 1}
        /\ \A j \in BlocksRead(s, n) : j < n + 1
    BY <1>1, <1>3 DEF BlocksRead
  <1>5. Committed(chain, b)
    BY <1>2, <1>3 DEF CommittedInv
  <1> HIDE DEF n, s, b
  <1>6. b.height \in Nat \ {0} /\ b = chain[b.height] /\ b.slot \in Nat
    <2>1. chain \in Seq(Block)
      BY <1>2 DEF FinalityInv, ChainInv, TypeOK
    <2>2. b.height \in 1 .. Len(chain) /\ b \in Block
      BY <1>5, <2>1 DEF Committed
    <2> QED
      BY <1>5, <2>1, <2>2 DEF Committed, Block
  <1>7. FinalityAt(chain, b.height) = FinalityAfter(FinalityAt(chain, b.height - 1), b.slot)
    <2>1. b.height - 1 \in Nat /\ (b.height - 1) + 1 = b.height
      BY <1>6
    <2> QED
      BY <1>6, <2>1, FinalityAtNext
  <1>8. cfinal[c] \in {0, FinalityAt(chain, b.height - 1)}
    <2>1. CASE BlocksRead(s, n) = {} /\ ctip[c] = 0 /\ cfinal[c] = 0
      BY <2>1
    <2>2. ASSUME NEW i \in BlocksRead(s, n), \A j \in BlocksRead(s, n) : j <= i,
                 Follows(ctip[c], cfinal[c], chain, s[i].block)
          PROVE  cfinal[c] \in {0, FinalityAt(chain, b.height - 1)}
      <3>1. /\ i \in BlocksAt(s) /\ i < n + 1
            /\ ~ \E k \in BlocksAt(s) : i < k /\ k < n + 1
        BY <1>1, <1>3, <1>4, <2>2 DEF BlocksRead
      <3>2. b.height = s[i].block.height + 1
        BY <1>2, <1>3, <3>1 DEF Contiguous, b
      <3>3. s[i].block.height \in Nat
        BY <1>2, <3>1 DEF CommittedInv, Committed, s
      <3>4. b.height - 1 = s[i].block.height
        BY <3>2, <3>3
      <3> QED
        BY <2>2, <3>4 DEF Follows
    <2> QED
      BY <1>2, <2>1, <2>2 DEF AtLastBlock, n, s
  <1>9. ctip'[c] = b.height /\ cfinal'[c] = FinalityAfter(cfinal[c], b.slot)
    BY <1>1, <1>2 DEF TipType
  <1>10. Follows(ctip'[c], cfinal'[c], chain, b)
    BY <1>7, <1>8, <1>9 DEF Follows, FinalityAfter
  <1>11. TipType'
    <2>1. cfinal[c] \in Nat
      BY <1>2 DEF TipType
    <2>2. FinalityAfter(cfinal[c], b.slot) \in Nat
      BY <1>6, <2>1, FinalityAfterType
    <2> QED
      BY <1>1, <1>2, <1>6, <2>2 DEF TipType, n, s
  <1>12. ASSUME NEW d \in Conn PROVE AtLastBlock(d)'
    <2>1. CASE d = c
      <3>1. cread'[c] = n + 1
        BY <1>1, <1>2 DEF TipType, n
      <3>2. n + 1 \in BlocksRead(s, n + 1) /\ \A j \in BlocksRead(s, n + 1) : j <= n + 1
        <4>1. BlocksRead(s, n) \subseteq Nat
          BY <1>3 DEF BlocksRead
        <4> QED
          BY <1>1, <1>4, <4>1
      <3> QED
        BY <1>2, <1>10, <2>1, <3>1, <3>2 DEF AtLastBlock, s, b
    <2>2. CASE d # c
      <3>1. AtLastBlock(d)
        BY DEF TipInv
      <3>2. cread'[d] = cread[d] /\ ctip'[d] = ctip[d] /\ cfinal'[d] = cfinal[d]
        BY <1>1, <1>2, <2>2 DEF TipType
      <3> QED
        BY <1>2, <3>1, <3>2 DEF AtLastBlock
    <2> QED
      BY <2>1, <2>2
  <1> QED
    BY <1>2, <1>11, <1>12 DEF TipInv

\* Every step of the network keeps the clients at the last block read.
LEMMA TipStep == TipInv /\ [NetNext]_netVars => TipInv'
  <1> SUFFICES ASSUME TipInv, [NetNext]_netVars PROVE TipInv'
    OBVIOUS
  <1>1. CASE [Next]_vars /\ UNCHANGED clientVars
    BY <1>1, TipServerKeeps
  <1>2. ASSUME NEW c \in Conn, ClientOnTxAnnounce(c) PROVE TipInv'
    <2>1. PICK t \in Tx : Receive(c, TxAnnounce(t)) /\ UNCHANGED <<ctip, cfinal>>
      BY <1>2 DEF ClientOnTxAnnounce
    <2>2. ~IsType(TxAnnounce(t), "NewBlock")
      BY DEF IsType, TxAnnounce
    <2> QED
      BY <2>1, <2>2, TipOtherKeeps
  <1>3. ASSUME NEW c \in Conn, ClientOnNewBlock(c) PROVE TipInv'
    BY <1>3, TipBlockKeeps
  <1>4. ASSUME NEW c \in Conn, ClientOnOther(c) PROVE TipInv'
    <2> DEFINE m == chan[c][cread[c] + 1]
    <2>1. ~IsType(m, "NewBlock") /\ Receive(c, m) /\ UNCHANGED <<ctip, cfinal>>
      BY <1>4 DEF ClientOnOther, IsType
    <2> HIDE DEF m
    <2> QED
      BY <2>1, TipOtherKeeps
  <1> QED
    BY <1>1, <1>2, <1>3, <1>4 DEF NetNext, netVars

(***************************************************************************)
(* A client at tip h has the finalized height that the server had after    *)
(* block h, or 0 when no boundary block has reached it since it joined,    *)
(* and never one ahead of the server's, however late it joined and         *)
(* whichever slots the producer missed.                                    *)
(***************************************************************************)
THEOREM ClientFinalityCorrect == NetSpec => []ClientAgreesOnFinality
  <1>1. TipInv => ClientAgreesOnFinality
    <2> SUFFICES ASSUME TipInv, NEW c \in Conn
                 PROVE  /\ ctip[c] <= tipHeight
                        /\ cfinal[c] \in {0, FinalityAt(chain, ctip[c])}
                        /\ cfinal[c] <= finalized
      BY DEF ClientAgreesOnFinality
    <2>1. /\ AtLastBlock(c) /\ CommittedInv /\ FinalityInv
          /\ tipHeight = Len(chain) /\ Len(chain) \in Nat /\ finalized \in Nat
      BY DEF TipInv, FinalityInv, ChainInv, ChainIsLinked, TypeOK
    <2>2. CASE ctip[c] = 0 /\ cfinal[c] = 0
      BY <2>1, <2>2
    <2>3. ASSUME NEW i \in BlocksAt(chan[c]),
                 Follows(ctip[c], cfinal[c], chain, chan[c][i].block)
          PROVE  /\ ctip[c] <= tipHeight
                 /\ cfinal[c] \in {0, FinalityAt(chain, ctip[c])}
                 /\ cfinal[c] <= finalized
      <3>1. ctip[c] \in 1 .. Len(chain) /\ cfinal[c] \in {0, FinalityAt(chain, ctip[c])}
        BY <2>1, <2>3 DEF Follows, CommittedInv, Committed
      <3>2. FinalityAt(chain, ctip[c]) \in 0 .. finalized
        BY <2>1, <3>1 DEF FinalityInv
      <3> QED
        BY <2>1, <3>1, <3>2
    <2> QED
      BY <2>1, <2>2, <2>3 DEF AtLastBlock, BlocksRead
  <1> QED
    BY <1>1, TipInit, TipStep, PTL DEF NetSpec

=============================================================================
