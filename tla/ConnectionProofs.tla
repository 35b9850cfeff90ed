--------------------------- MODULE ConnectionProofs ----------------------------
(***************************************************************************)
(* What the end of a connection leaves behind, for every number of         *)
(* connections, keys, requests and broadcasts, and every way the clients   *)
(* share keys.                                                             *)
(***************************************************************************)
EXTENDS Connection, FiniteSetTheorems, TLAPS

-----------------------------------------------------------------------------
HandlerStage ==
    {"challenge", "identity", "reply", "register", "serve", "drop", "await", "done"}
TaskStage == {"none", "running", "ended"}
ClientStage == {"challenge", "identity", "welcome", "run", "gone"}

Queued == {Plain("Peers"), Plain("Answer"), Plain("NewBlock")}

Typed ==
    /\ handler \in [Conn -> HandlerStage]
    /\ reader \in [Conn -> TaskStage]
    /\ writer \in [Conn -> TaskStage]
    /\ queue \in [Conn -> Seq(Queued)]
    /\ txHeld \in [Conn -> BOOLEAN]
    /\ peers \in [Key -> Conn \cup {NoConn}]
    /\ keyOf \in [Conn -> Key]
    /\ client \in [Conn -> ClientStage]

(***************************************************************************)
(* What the handler of c has started and holds at each of its stages.      *)
(***************************************************************************)
StageInv(c) ==
    /\ handler[c] \in {"challenge", "identity", "reply", "register"} =>
           reader[c] = "none" /\ writer[c] = "none"
    /\ handler[c] = "serve" => reader[c] # "none"
    /\ handler[c] \in {"drop", "await", "done"} => reader[c] # "running"
    /\ handler[c] \in {"serve", "drop", "await"} => writer[c] # "none"
    /\ handler[c] = "done" => writer[c] # "running"
    /\ txHeld[c] <=> handler[c] \in {"serve", "drop"}

\* An entry of the peers map is filed under the key of its connection, whose
\* handler serves.
EntriesServe ==
    \A k \in Key : peers[k] # NoConn =>
        keyOf[peers[k]] = k /\ handler[peers[k]] = "serve"

\* All that is sent to c from now on is lost.
Closed(c) == queue[c] = <<>> /\ ChannelClosed(c)

ConnInv ==
    /\ Typed
    /\ \A c \in Conn : StageInv(c)
    /\ EntriesServe
    /\ CleanClose

-----------------------------------------------------------------------------
\* A message that is put in channels keeps their type.
LEMMA PutType ==
    ASSUME queue \in [Conn -> Seq(Queued)], NEW S, NEW m \in Queued
    PROVE  Put(S, m) \in [Conn -> Seq(Queued)]
  BY DEF Put

\* Nothing is put in a channel whose writer has ended.
LEMMA PutEnded ==
    ASSUME NEW c \in Conn, writer[c] = "ended", NEW S, NEW m
    PROVE  Put(S, m)[c] = queue[c]
  BY DEF Put

\* Before any handshake no task runs and no sender of a channel exists.
LEMMA ConnInit == Init => ConnInv
  <1> SUFFICES ASSUME Init PROVE ConnInv
    OBVIOUS
  <1>1. Typed
    BY ConnectionAssumption
    DEF Init, ServerInit, ClientInit, Typed, HandlerStage, TaskStage, ClientStage
  <1>2. \A c \in Conn : StageInv(c)
    BY DEF Init, ServerInit, StageInv
  <1>3. EntriesServe /\ CleanClose
    BY DEF Init, ServerInit, EntriesServe, CleanClose
  <1> QED
    BY <1>1, <1>2, <1>3 DEF ConnInv

-----------------------------------------------------------------------------
(***************************************************************************)
(* The steps of a handler.                                                 *)
(***************************************************************************)
LEMMA HandshakeKeeps ==
    ASSUME ConnInv, NEW c \in Conn, SendChallenge(c) \/ RecvIdentity(c) \/ Reply(c)
    PROVE  ConnInv'
  <1>1. /\ UNCHANGED <<reader, writer, queue, txHeld, peers, held, client, keyOf>>
        /\ handler[c] \in {"challenge", "identity", "reply"}
        /\ \/ handler' = [handler EXCEPT ![c] = "identity"]
           \/ handler' = [handler EXCEPT ![c] = "reply"]
           \/ handler' = [handler EXCEPT ![c] = "register"]
           \/ handler' = [handler EXCEPT ![c] = "done"]
    BY DEF SendChallenge, Reply, HandlerSends, RecvIdentity, producerVars, clientVars
  <1>2. Typed'
    BY <1>1 DEF ConnInv, Typed, HandlerStage
  <1>3. \A d \in Conn : StageInv(d)'
    BY <1>1 DEF ConnInv, Typed, StageInv
  <1>4. EntriesServe'
    BY <1>1, ConnectionAssumption DEF ConnInv, Typed, EntriesServe
  <1>5. CleanClose'
    BY <1>1 DEF ConnInv, CleanClose, ChannelClosed, Registered
  <1> QED
    BY <1>2, <1>3, <1>4, <1>5 DEF ConnInv

\* Registration starts both tasks and puts a sender into the map.
LEMMA RegisterKeeps ==
    ASSUME ConnInv, NEW c \in Conn, Register(c)
    PROVE  ConnInv'
  <1>1. /\ handler[c] = "register" /\ writer[c] = "none"
        /\ UNCHANGED <<held, client, keyOf>>
        /\ handler' = [handler EXCEPT ![c] = "serve"]
        /\ peers' = [peers EXCEPT ![keyOf[c]] = c]
        /\ txHeld' = [txHeld EXCEPT ![c] = TRUE]
        /\ reader' = [reader EXCEPT ![c] = "running"]
        /\ writer' = [writer EXCEPT ![c] = "running"]
        /\ queue' = Put({c}, Plain("Peers"))
    BY DEF Register, producerVars, clientVars, ConnInv, StageInv
  <1>2. Typed'
    BY <1>1, PutType DEF ConnInv, Typed, HandlerStage, TaskStage, Queued
  <1>3. \A d \in Conn : StageInv(d)'
    BY <1>1 DEF ConnInv, Typed, StageInv
  <1>4. EntriesServe'
    BY <1>1, ConnectionAssumption DEF ConnInv, Typed, EntriesServe
  <1>5. ASSUME NEW d \in Conn, writer'[d] = "ended", client'[d] # "gone"
        PROVE  Closed(d)'
    <2>1. d # c /\ writer[d] = "ended" /\ client[d] # "gone"
      BY <1>1, <1>5 DEF ConnInv, Typed
    <2>2. Closed(d)
      BY <2>1 DEF ConnInv, CleanClose, Closed
    <2>3. queue'[d] = queue[d] /\ txHeld'[d] = txHeld[d]
      BY <1>1, <2>1, PutEnded DEF ConnInv, Typed
    <2>4. d \notin Registered'
      BY <1>1, <2>1, <2>2 DEF Closed, ChannelClosed, Registered, ConnInv, Typed
    <2> QED
      BY <1>1, <2>2, <2>3, <2>4 DEF Closed, ChannelClosed
  <1> QED
    BY <1>2, <1>3, <1>4, <1>5 DEF ConnInv, CleanClose, Closed

\* The end of a handler: it drops its sender, removes the entry, waits.
LEMMA ClosingKeeps ==
    ASSUME ConnInv, NEW c \in Conn, Cleanup(c) \/ DropTx(c) \/ Finish(c)
    PROVE  ConnInv'
  <1>1. UNCHANGED <<reader, writer, queue, held, client, keyOf>>
    BY DEF Cleanup, DropTx, Finish, producerVars, clientVars
  <1>2. \/ /\ handler[c] = "serve" /\ reader[c] = "ended" /\ txHeld' = txHeld
           /\ handler' = [handler EXCEPT ![c] = "drop"]
           /\ peers' = [peers EXCEPT ![keyOf[c]] = NoConn]
        \/ /\ handler[c] = "drop" /\ peers' = peers
           /\ handler' = [handler EXCEPT ![c] = "await"]
           /\ txHeld' = [txHeld EXCEPT ![c] = FALSE]
        \/ /\ handler[c] = "await" /\ writer[c] = "ended" /\ UNCHANGED <<txHeld, peers>>
           /\ handler' = [handler EXCEPT ![c] = "done"]
    BY DEF Cleanup, DropTx, Finish
  <1>3. Typed'
    BY <1>1, <1>2 DEF ConnInv, Typed, HandlerStage
  <1>4. \A d \in Conn : StageInv(d)'
    BY <1>1, <1>2 DEF ConnInv, Typed, StageInv
  <1>5. EntriesServe'
    BY <1>1, <1>2, ConnectionAssumption DEF ConnInv, Typed, EntriesServe
  <1>6. ASSUME NEW d \in Conn, ChannelClosed(d) PROVE ChannelClosed(d)'
    <2>1. d \notin Registered'
      BY <1>1, <1>2, <1>6, ConnectionAssumption
      DEF ChannelClosed, Registered, ConnInv, Typed
    <2>2. ~txHeld'[d]
      BY <1>2, <1>6 DEF ChannelClosed, ConnInv, Typed
    <2> QED
      BY <1>1, <1>6, <2>1, <2>2 DEF ChannelClosed
  <1>7. CleanClose'
    BY <1>1, <1>6 DEF ConnInv, CleanClose
  <1> QED
    BY <1>3, <1>4, <1>5, <1>7 DEF ConnInv

-----------------------------------------------------------------------------
(***************************************************************************)
(* The steps of the tasks, the producer and the clients: none of them      *)
(* moves a handler, takes a sender or touches the peers map.               *)
(***************************************************************************)
LEMMA ReaderKeeps ==
    ASSUME ConnInv, NEW c \in Conn, OnRequest(c) \/ ReaderEnds(c)
    PROVE  ConnInv'
  <1>1. /\ UNCHANGED <<handler, writer, txHeld, peers, held, client, keyOf>>
        /\ \/ /\ reader' = reader
              /\ \E S : queue' = Put(S, Plain("Answer"))
           \/ /\ queue' = queue /\ reader[c] = "running"
              /\ reader' = [reader EXCEPT ![c] = "ended"]
    BY DEF OnRequest, ReaderEnds, producerVars, clientVars
  <1>2. Typed'
    <2>1. queue' \in [Conn -> Seq(Queued)]
      BY <1>1, PutType DEF ConnInv, Typed, Queued
    <2>2. reader' \in [Conn -> TaskStage]
      BY <1>1 DEF ConnInv, Typed, TaskStage
    <2> QED
      BY <1>1, <2>1, <2>2 DEF ConnInv, Typed
  <1>3. \A d \in Conn : StageInv(d)'
    <2>1. CASE reader' = reader
      BY <1>1, <2>1 DEF ConnInv, StageInv
    <2>2. CASE reader[c] = "running" /\ reader' = [reader EXCEPT ![c] = "ended"]
      BY <1>1, <2>2 DEF ConnInv, Typed, StageInv
    <2> QED
      BY <1>1, <2>1, <2>2
  <1>4. EntriesServe'
    BY <1>1 DEF ConnInv, EntriesServe
  <1>5. \A d \in Conn : writer[d] = "ended" => queue'[d] = queue[d]
    BY <1>1, PutEnded
  <1>6. CleanClose'
    BY <1>1, <1>5 DEF ConnInv, CleanClose, ChannelClosed, Registered
  <1> QED
    BY <1>2, <1>3, <1>4, <1>6 DEF ConnInv

\* The writer task moves messages from the channel to the socket.
LEMMA WriterKeeps ==
    ASSUME ConnInv, NEW c \in Conn, WriterStep(c)
    PROVE  ConnInv'
  <1>1. /\ UNCHANGED <<handler, reader, txHeld, peers, held, client, keyOf>>
        /\ writer[c] = "running"
        /\ \/ /\ queue[c] # <<>> /\ writer' = writer
              /\ queue' = [queue EXCEPT ![c] = Tail(@)]
           \/ /\ client[c] = "gone"
              /\ writer' = [writer EXCEPT ![c] = "ended"]
              /\ queue' = [queue EXCEPT ![c] = <<>>]
           \/ /\ Closed(c) /\ queue' = queue
              /\ writer' = [writer EXCEPT ![c] = "ended"]
    BY DEF WriterStep, WriterWrites, WriterEnds, Closed, producerVars, clientVars
  <1>2. Typed'
    <2>1. queue[c] \in Seq(Queued) /\ <<>> \in Seq(Queued)
      BY DEF ConnInv, Typed
    <2>2. queue[c] # <<>> => Tail(queue[c]) \in Seq(Queued)
      BY <2>1
    <2>3. queue' \in [Conn -> Seq(Queued)]
      BY <1>1, <2>1, <2>2 DEF ConnInv, Typed
    <2> QED
      BY <1>1, <2>3 DEF ConnInv, Typed, TaskStage
  <1>3. \A d \in Conn : StageInv(d)'
    BY <1>1 DEF ConnInv, Typed, StageInv
  <1>4. EntriesServe'
    BY <1>1 DEF ConnInv, EntriesServe
  <1>5. ASSUME NEW d \in Conn, writer'[d] = "ended", client'[d] # "gone"
        PROVE  Closed(d)'
    <2>1. ChannelClosed(d)' = ChannelClosed(d)
      BY <1>1 DEF ChannelClosed, Registered
    <2>2. CASE d = c
      BY <1>1, <1>5, <2>1, <2>2 DEF ConnInv, Typed, Closed
    <2>3. CASE d # c
      <3>1. writer[d] = "ended" /\ client[d] # "gone" /\ queue'[d] = queue[d]
        BY <1>1, <1>5, <2>3 DEF ConnInv, Typed
      <3> QED
        BY <2>1, <3>1 DEF ConnInv, CleanClose, Closed
    <2> QED
      BY <2>2, <2>3
  <1> QED
    BY <1>2, <1>3, <1>4, <1>5 DEF ConnInv, CleanClose, Closed

\* A broadcast clones the senders in the map and drops them after sending.
LEMMA BroadcastKeeps ==
    ASSUME ConnInv, Snapshot \/ \E c \in Conn : SendBlock(c)
    PROVE  ConnInv'
  <1>1. /\ UNCHANGED <<handler, reader, writer, txHeld, peers, client, keyOf>>
        /\ held' \subseteq held \/ held' = Registered
        /\ queue' = queue \/ \E S : queue' = Put(S, Plain("NewBlock"))
    BY DEF Snapshot, SendBlock, serverVars, clientVars
  <1>2. Typed'
    BY <1>1, PutType DEF ConnInv, Typed, Queued
  <1>3. \A d \in Conn : StageInv(d)'
    BY <1>1 DEF ConnInv, StageInv
  <1>4. EntriesServe'
    BY <1>1 DEF ConnInv, EntriesServe
  <1>5. \A d \in Conn : writer[d] = "ended" => queue'[d] = queue[d]
    BY <1>1, PutEnded
  <1>6. \A d \in Conn : ChannelClosed(d) => ChannelClosed(d)'
    BY <1>1 DEF ChannelClosed, Registered
  <1>7. CleanClose'
    BY <1>1, <1>5, <1>6 DEF ConnInv, CleanClose
  <1> QED
    BY <1>2, <1>3, <1>4, <1>7 DEF ConnInv

\* The client writes to the socket, reads from it and closes its end.
LEMMA ClientKeeps ==
    ASSUME ConnInv, NEW c \in Conn,
           ClientReceives(c) \/ ClientAsks(c) \/ ClientLeaves(c)
    PROVE  ConnInv'
  <1>1. UNCHANGED <<handler, reader, writer, queue, txHeld, peers, held, keyOf>>
    BY DEF ClientReceives, ClientAsks, ClientLeaves, serverVars, producerVars
  <1>2. \/ client' = client
        \/ /\ client[c] # "gone"
           /\ \E x \in ClientStage : client' = [client EXCEPT ![c] = x]
    <2>1. CASE ClientReceives(c)
      BY <2>1 DEF ClientReceives, ClientStage
    <2>2. CASE ClientAsks(c)
      BY <2>2 DEF ClientAsks
    <2>3. CASE ClientLeaves(c)
      BY <2>3 DEF ClientLeaves, ClientStage
    <2> QED
      BY <2>1, <2>2, <2>3
  <1>3. /\ client' \in [Conn -> ClientStage]
        /\ \A d \in Conn : client'[d] # "gone" => client[d] # "gone"
    BY <1>2 DEF ConnInv, Typed
  <1>4. Typed'
    BY <1>1, <1>3 DEF ConnInv, Typed
  <1>5. (\A d \in Conn : StageInv(d)') /\ EntriesServe'
    BY <1>1 DEF ConnInv, StageInv, EntriesServe
  <1>6. CleanClose'
    BY <1>1, <1>3 DEF ConnInv, CleanClose, ChannelClosed, Registered
  <1> QED
    BY <1>4, <1>5, <1>6 DEF ConnInv

\* Every step keeps the invariant.
LEMMA ConnStep == ConnInv /\ [Next]_vars => ConnInv'
  <1> SUFFICES ASSUME ConnInv, [Next]_vars PROVE ConnInv'
    OBVIOUS
  <1>1. ASSUME NEW c \in Conn, HandlerStep(c) PROVE ConnInv'
    BY <1>1, HandshakeKeeps, RegisterKeeps, ClosingKeeps DEF HandlerStep
  <1>2. ASSUME NEW c \in Conn, OnRequest(c) \/ ReaderEnds(c) PROVE ConnInv'
    BY <1>2, ReaderKeeps
  <1>3. ASSUME NEW c \in Conn, WriterStep(c) PROVE ConnInv'
    BY <1>3, WriterKeeps
  <1>4. CASE Snapshot \/ \E c \in Conn : SendBlock(c)
    BY <1>4, BroadcastKeeps
  <1>5. ASSUME NEW c \in Conn, ClientReceives(c) \/ ClientAsks(c) \/ ClientLeaves(c)
        PROVE  ConnInv'
    BY <1>5, ClientKeeps
  <1>6. CASE UNCHANGED vars
    BY <1>6 DEF vars, serverVars, producerVars, clientVars, ConnInv, Typed, StageInv,
       EntriesServe, CleanClose, ChannelClosed, Registered
  <1> QED
    BY <1>1, <1>2, <1>3, <1>4, <1>5, <1>6 DEF Next, Settled

\* The inductive invariant holds throughout.
LEMMA ConnCorrect == Spec => []ConnInv
  BY ConnInit, ConnStep, PTL DEF Spec

(***************************************************************************)
(* A handler that has returned has let go of everything, also when another *)
(* connection proved the same id meanwhile.                                *)
(***************************************************************************)
THEOREM ReleaseCorrect == Spec => []DoneIsReleased
  <1>1. ConnInv => DoneIsReleased
    <2> SUFFICES ASSUME ConnInv, NEW c \in Conn, handler[c] = "done"
                 PROVE  /\ reader[c] # "running" /\ writer[c] # "running"
                        /\ ~txHeld[c] /\ c \notin Registered
      BY DEF DoneIsReleased
    <2>1. c \notin Registered
      BY DEF ConnInv, EntriesServe, Registered
    <2> QED
      BY <2>1 DEF ConnInv, StageInv
  <1> QED
    BY <1>1, ConnCorrect, PTL

(***************************************************************************)
(* Unless the client has gone, a writer ends only when all that was sent   *)
(* has been written and nobody is left who could send more.                *)
(***************************************************************************)
THEOREM CloseCorrect == Spec => []CleanClose
  <1>1. ConnInv => CleanClose
    BY DEF ConnInv
  <1> QED
    BY <1>1, ConnCorrect, PTL

(***************************************************************************)
(* A handler whose reader has ended never waits in vain: what              *)
(* HandlerFinishes rests on, without any fairness.                         *)
(***************************************************************************)
THEOREM HandlerCorrect == Spec => []HandlerNeverStuck
  <1>1. ConnInv => HandlerNeverStuck
    <2> SUFFICES ASSUME ConnInv, NEW c \in Conn, reader[c] = "ended"
                 PROVE  \/ handler[c] \in {"serve", "drop", "done"}
                        \/ /\ handler[c] = "await"
                           /\ \/ writer[c] = "ended"
                              \/ /\ writer[c] = "running"
                                 /\ \/ queue[c] # <<>>
                                    \/ ChannelClosed(c) \/ c \in held
      BY DEF HandlerNeverStuck
    <2>1. handler[c] \in {"serve", "drop", "await", "done"}
      BY DEF ConnInv, Typed, StageInv, HandlerStage
    <2>2. CASE handler[c] = "await"
      <3>1. writer[c] \in {"running", "ended"} /\ ~txHeld[c]
        BY <2>2 DEF ConnInv, Typed, StageInv, TaskStage
      <3>2. c \notin Registered
        BY <2>2 DEF ConnInv, EntriesServe, Registered
      <3> QED
        BY <2>2, <3>1, <3>2 DEF ChannelClosed
    <2> QED
      BY <2>1, <2>2
  <1> QED
    BY <1>1, ConnCorrect, PTL

-----------------------------------------------------------------------------
(***************************************************************************)
(* The handshake.  What is on the wire fits the places of the two ends, so *)
(* that one of them can always go on.                                      *)
(***************************************************************************)
Challenge(c) == [type |-> "Challenge", nonce |-> c]

Message ==
    Queued \cup {Plain("Welcome"), Plain("Request")}
           \cup {Challenge(c) : c \in Conn}
           \cup {Identity(k, c) : k \in Key, c \in Conn}

Verified == {"register", "serve", "drop", "await", "done"}

\* Handler h and client cl of connection c, whose client has key k, with s on
\* its way to the server and r on its way back.
InStep(c, k, h, cl, s, r) ==
    \/ h = "challenge" /\ cl = "challenge" /\ s = <<>> /\ r = <<>>
    \/ h = "identity" /\ cl = "challenge" /\ s = <<>> /\ r = <<Challenge(c)>>
    \/ h = "identity" /\ cl = "identity" /\ s = <<Identity(k, c)>> /\ r = <<>>
    \/ h = "reply" /\ cl = "identity" /\ s = <<>> /\ r = <<>>
    \/ /\ h \in Verified /\ cl = "identity" /\ s = <<>>
       /\ r # <<>> /\ Head(r) = Identity(ServerKey, c)
       /\ Tail(r) # <<>> /\ Head(Tail(r)) = Plain("Welcome")
    \/ /\ h \in Verified /\ cl = "welcome" /\ s = <<>>
       /\ r # <<>> /\ Head(r) = Plain("Welcome")
    \/ h \in Verified /\ cl = "run" /\ s \in Seq({Plain("Request")})

WireTyped ==
    /\ toServer \in [Conn -> Seq(Message)]
    /\ toClient \in [Conn -> Seq(Message)]
    /\ asked \in [Conn -> Nat]
    /\ answered \in [Conn -> Nat]

TalkInv ==
    /\ WireTyped
    /\ \A c \in Conn : client[c] # "gone" =>
           InStep(c, keyOf[c], handler[c], client[c], toServer[c], toClient[c])
    /\ \A c \in Conn : handler[c] = "done" /\ writer[c] = "none" => client[c] = "gone"

\* Nothing has been said at first.
LEMMA TalkInit == Init => TalkInv
  BY DEF Init, ServerInit, ClientInit, TalkInv, WireTyped, InStep

\* A step of one connection leaves the others where they are.
LEMMA TalkLocal ==
    ASSUME TalkInv, WireTyped', keyOf' = keyOf, NEW c \in Conn,
           \A d \in Conn \ {c} :
               /\ handler'[d] = handler[d] /\ client'[d] = client[d]
               /\ writer'[d] = writer[d]
               /\ toServer'[d] = toServer[d] /\ toClient'[d] = toClient[d],
           client'[c] # "gone" =>
               InStep(c, keyOf[c], handler'[c], client'[c], toServer'[c], toClient'[c]),
           handler'[c] = "done" /\ writer'[c] = "none" => client'[c] = "gone"
    PROVE  TalkInv'
  <1>1. ASSUME NEW d \in Conn, client'[d] # "gone"
        PROVE  InStep(d, keyOf'[d], handler'[d], client'[d], toServer'[d], toClient'[d])
    BY <1>1 DEF TalkInv
  <1>2. ASSUME NEW d \in Conn, handler'[d] = "done", writer'[d] = "none"
        PROVE  client'[d] = "gone"
    BY <1>2 DEF TalkInv
  <1> QED
    BY <1>1, <1>2 DEF TalkInv

\* What is written to the wire of c.
LEMMA WrittenIs ==
    ASSUME WireTyped, NEW c \in Conn, NEW S \in Seq(Message)
    PROVE  /\ Written(c, S) \in [Conn -> Seq(Message)]
           /\ \A d \in Conn \ {c} : Written(c, S)[d] = toClient[d]
           /\ client[c] # "gone" => Written(c, S)[c] = toClient[c] \o S
  BY DEF Written, WireTyped

\* The challenge is the first that is said.
LEMMA SendChallengeTalks ==
    ASSUME ConnInv, TalkInv, NEW c \in Conn, SendChallenge(c)
    PROVE  TalkInv'
  <1>1. /\ handler[c] = "challenge"
        /\ \/ handler' = [handler EXCEPT ![c] = "identity"]
           \/ client[c] = "gone" /\ handler' = [handler EXCEPT ![c] = "done"]
        /\ toClient' = Written(c, <<Challenge(c)>>)
        /\ UNCHANGED <<writer, client, keyOf, toServer, asked, answered>>
    BY DEF SendChallenge, HandlerSends, Challenge, clientVars
  <1>2. <<Challenge(c)>> \in Seq(Message)
    BY DEF Message
  <1>3. /\ toClient' \in [Conn -> Seq(Message)]
        /\ \A d \in Conn \ {c} : toClient'[d] = toClient[d]
        /\ client[c] # "gone" => toClient'[c] = toClient[c] \o <<Challenge(c)>>
    BY <1>1, <1>2, WrittenIs DEF TalkInv
  <1>4. WireTyped'
    BY <1>1, <1>3 DEF TalkInv, WireTyped
  <1>5. ASSUME client'[c] # "gone"
        PROVE  /\ InStep(c, keyOf[c], handler'[c], client'[c], toServer'[c], toClient'[c])
               /\ handler'[c] # "done"
    <2>1. client[c] = "challenge" /\ toServer[c] = <<>> /\ toClient[c] = <<>>
      BY <1>1, <1>5 DEF TalkInv, InStep, Verified
    <2>2. handler'[c] = "identity"
      BY <1>1, <1>5 DEF ConnInv, Typed
    <2>3. toClient'[c] = <<Challenge(c)>>
      BY <1>1, <1>3, <1>5, <2>1
    <2> QED
      BY <1>1, <2>1, <2>2, <2>3 DEF InStep
  <1>6. \A d \in Conn \ {c} : handler'[d] = handler[d]
    BY <1>1 DEF ConnInv, Typed
  <1> QED
    BY <1>1, <1>3, <1>4, <1>5, <1>6, TalkLocal

\* The identity proves the key and the nonce of this connection.
LEMMA RecvIdentityTalks ==
    ASSUME ConnInv, TalkInv, NEW c \in Conn, RecvIdentity(c)
    PROVE  TalkInv'
  <1>1. /\ handler[c] = "identity"
        /\ UNCHANGED <<writer, client, keyOf, toClient, asked, answered>>
    BY DEF RecvIdentity, clientVars
  <1>2. \/ toServer[c] # <<>> /\ toServer' = [toServer EXCEPT ![c] = Tail(@)]
        \/ toServer[c] = <<>> /\ client[c] = "gone" /\ toServer' = toServer
    BY DEF RecvIdentity
  <1>3. \E h : handler' = [handler EXCEPT ![c] = h]
    BY DEF RecvIdentity
  <1>4. WireTyped'
    <2>1. toServer \in [Conn -> Seq(Message)]
      BY DEF TalkInv, WireTyped
    <2>2. toServer[c] # <<>> => Tail(toServer[c]) \in Seq(Message)
      BY <2>1
    <2>3. toServer' \in [Conn -> Seq(Message)]
      BY <1>2, <2>1, <2>2
    <2> QED
      BY <1>1, <2>3 DEF TalkInv, WireTyped
  <1>5. ASSUME client[c] # "gone"
        PROVE  /\ InStep(c, keyOf[c], handler'[c], client'[c], toServer'[c], toClient'[c])
               /\ handler'[c] # "done"
    <2>1. /\ client[c] = "identity" /\ toClient[c] = <<>>
          /\ toServer[c] = <<Identity(keyOf[c], c)>>
      BY <1>1, <1>2, <1>5 DEF TalkInv, InStep, Verified
    <2>2. LET m == Identity(keyOf[c], c)
          IN  m.type = "Identity" /\ VerifyIdentity(c, m)
      BY DEF Identity, VerifyIdentity
    <2>3. Head(toServer[c]) = Identity(keyOf[c], c) /\ toServer[c] # <<>>
      BY <2>1
    <2>4. handler' = [handler EXCEPT ![c] = "reply"]
      BY <2>2, <2>3 DEF RecvIdentity
    <2>5. toServer'[c] = <<>> /\ handler'[c] = "reply"
      BY <1>2, <2>1, <2>4 DEF TalkInv, WireTyped, ConnInv, Typed
    <2> QED
      BY <1>1, <2>1, <2>5 DEF InStep
  <1>6. \A d \in Conn \ {c} : handler'[d] = handler[d] /\ toServer'[d] = toServer[d]
    BY <1>2, <1>3 DEF ConnInv, Typed, TalkInv, WireTyped
  <1> QED
    BY <1>1, <1>4, <1>5, <1>6, TalkLocal

\* The server answers with its own identity and a welcome.
LEMMA ReplyTalks ==
    ASSUME ConnInv, TalkInv, NEW c \in Conn, Reply(c)
    PROVE  TalkInv'
  <1> DEFINE S == <<Identity(ServerKey, c), Plain("Welcome")>>
  <1>1. /\ handler[c] = "reply"
        /\ \/ handler' = [handler EXCEPT ![c] = "register"]
           \/ client[c] = "gone" /\ handler' = [handler EXCEPT ![c] = "done"]
        /\ toClient' = Written(c, S)
        /\ UNCHANGED <<writer, client, keyOf, toServer, asked, answered>>
    BY DEF Reply, HandlerSends, clientVars
  <1>2. S \in Seq(Message)
    BY ConnectionAssumption DEF Message
  <1>3. /\ toClient' \in [Conn -> Seq(Message)]
        /\ \A d \in Conn \ {c} : toClient'[d] = toClient[d]
        /\ client[c] # "gone" => toClient'[c] = toClient[c] \o S
    <2> HIDE DEF S
    <2> QED
      BY <1>1, <1>2, WrittenIs DEF TalkInv
  <1>4. WireTyped'
    BY <1>1, <1>3 DEF TalkInv, WireTyped
  <1>5. ASSUME client'[c] # "gone"
        PROVE  /\ InStep(c, keyOf[c], handler'[c], client'[c], toServer'[c], toClient'[c])
               /\ handler'[c] # "done"
    <2>1. client[c] = "identity" /\ toServer[c] = <<>> /\ toClient[c] = <<>>
      BY <1>1, <1>5 DEF TalkInv, InStep, Verified
    <2>2. handler'[c] = "register"
      BY <1>1, <1>5 DEF ConnInv, Typed
    <2>3. toClient'[c] = S
      <3> HIDE DEF S
      <3>1. <<>> \o S = S
        BY <1>2
      <3> QED
        BY <1>1, <1>3, <1>5, <2>1, <3>1
    <2>4. /\ S # <<>> /\ Head(S) = Identity(ServerKey, c)
          /\ Tail(S) # <<>> /\ Head(Tail(S)) = Plain("Welcome")
      OBVIOUS
    <2> QED
      BY <1>1, <2>1, <2>2, <2>3, <2>4 DEF InStep, Verified
  <1>6. \A d \in Conn \ {c} : handler'[d] = handler[d]
    BY <1>1 DEF ConnInv, Typed
  <1> QED
    BY <1>1, <1>3, <1>4, <1>5, <1>6, TalkLocal

\* Once the client is verified its handler says nothing more.
LEMMA ServingTalks ==
    ASSUME ConnInv, TalkInv, NEW c \in Conn,
           Register(c) \/ Cleanup(c) \/ DropTx(c) \/ Finish(c)
    PROVE  TalkInv'
  <1>1. /\ UNCHANGED <<client, keyOf, toServer, toClient, asked, answered>>
        /\ handler[c] \in Verified
        /\ \E h \in Verified : handler' = [handler EXCEPT ![c] = h]
        /\ writer'[c] # "none"
        /\ \A d \in Conn \ {c} : writer'[d] = writer[d]
    <2>1. CASE Register(c)
      BY <2>1 DEF Register, Verified, clientVars, ConnInv, Typed
    <2>2. CASE Cleanup(c) \/ DropTx(c) \/ Finish(c)
      BY <2>2 DEF Cleanup, DropTx, Finish, Verified, clientVars, ConnInv, StageInv
    <2> QED
      BY <2>1, <2>2
  <1>2. /\ handler'[c] \in Verified
        /\ \A d \in Conn \ {c} : handler'[d] = handler[d]
    BY <1>1 DEF ConnInv, Typed
  <1>3. WireTyped'
    BY <1>1 DEF TalkInv, WireTyped
  <1>4. ASSUME client[c] # "gone"
        PROVE  InStep(c, keyOf[c], handler'[c], client'[c], toServer'[c], toClient'[c])
    <2>1. InStep(c, keyOf[c], handler[c], client[c], toServer[c], toClient[c])
      BY <1>4 DEF TalkInv
    <2> QED
      BY <1>1, <1>2, <2>1 DEF InStep, Verified
  <1> QED
    BY <1>1, <1>2, <1>3, <1>4, TalkLocal

\* Requests go to a handler that serves, which takes them or stops to read.
LEMMA ReaderTalks ==
    ASSUME ConnInv, TalkInv, NEW c \in Conn, OnRequest(c) \/ ReaderEnds(c)
    PROVE  TalkInv'
  <1>1. /\ UNCHANGED <<handler, writer, client, keyOf, toClient, asked, answered>>
        /\ reader[c] = "running"
        /\ \/ toServer[c] # <<>> /\ toServer' = [toServer EXCEPT ![c] = Tail(@)]
           \/ toServer' = [toServer EXCEPT ![c] = <<>>]
    BY DEF OnRequest, ReaderEnds, clientVars
  <1>2. handler[c] = "serve"
    BY <1>1 DEF ConnInv, Typed, StageInv, HandlerStage
  <1>3. WireTyped'
    <2>1. toServer \in [Conn -> Seq(Message)]
      BY DEF TalkInv, WireTyped
    <2>2. /\ toServer[c] # <<>> => Tail(toServer[c]) \in Seq(Message)
          /\ <<>> \in Seq(Message)
      BY <2>1
    <2>3. toServer' \in [Conn -> Seq(Message)]
      BY <1>1, <2>1, <2>2
    <2> QED
      BY <1>1, <2>3 DEF TalkInv, WireTyped
  <1>4. ASSUME client[c] # "gone"
        PROVE  InStep(c, keyOf[c], handler'[c], client'[c], toServer'[c], toClient'[c])
    <2>1. InStep(c, keyOf[c], handler[c], client[c], toServer[c], toClient[c])
      BY <1>4 DEF TalkInv
    <2>2. CASE toServer[c] = <<>>
      <3>1. toServer'[c] = toServer[c]
        BY <1>1, <2>2 DEF TalkInv, WireTyped
      <3> QED
        BY <1>1, <2>1, <3>1
    <2>3. CASE toServer[c] # <<>>
      <3>1. client[c] = "run" /\ toServer[c] \in Seq({Plain("Request")})
        BY <1>2, <2>1, <2>3 DEF InStep
      <3>2. toServer'[c] = Tail(toServer[c]) \/ toServer'[c] = <<>>
        BY <1>1 DEF TalkInv, WireTyped
      <3>3. /\ Tail(toServer[c]) \in Seq({Plain("Request")})
            /\ <<>> \in Seq({Plain("Request")})
        BY <2>3, <3>1
      <3>4. toServer'[c] \in Seq({Plain("Request")})
        BY <3>2, <3>3
      <3> QED
        BY <1>1, <1>2, <3>1, <3>4 DEF InStep, Verified
    <2> QED
      BY <2>2, <2>3
  <1>5. \A d \in Conn \ {c} : toServer'[d] = toServer[d]
    BY <1>1 DEF TalkInv, WireTyped
  <1>6. ~(handler'[c] = "done" /\ writer'[c] = "none")
    BY <1>1, <1>2
  <1> QED
    BY <1>1, <1>3, <1>4, <1>5, <1>6, TalkLocal

\* More behind what the client is about to read changes nothing for it.
LEMMA InStepAppend ==
    ASSUME NEW c, NEW k, NEW h \in Verified, NEW cl, NEW s,
           NEW r \in Seq(Message), NEW e \in Message, InStep(c, k, h, cl, s, r)
    PROVE  InStep(c, k, h, cl, s, Append(r, e))
  <1>1. r # <<>> =>
            /\ Append(r, e) # <<>> /\ Head(Append(r, e)) = Head(r)
            /\ Tail(Append(r, e)) = Append(Tail(r), e) /\ Tail(r) \in Seq(Message)
    OBVIOUS
  <1>2. r # <<>> /\ Tail(r) # <<>> =>
            Append(Tail(r), e) # <<>> /\ Head(Append(Tail(r), e)) = Head(Tail(r))
    BY <1>1
  <1> QED
    BY <1>1, <1>2 DEF InStep, Verified

\* The writer puts the messages of the channel behind what is on the wire.
LEMMA WriterTalks ==
    ASSUME ConnInv, TalkInv, NEW c \in Conn, WriterStep(c)
    PROVE  TalkInv'
  <1>1. /\ UNCHANGED <<handler, client, keyOf, toServer, asked, answered>>
        /\ writer[c] = "running"
        /\ writer' = writer \/ writer' = [writer EXCEPT ![c] = "ended"]
        /\ \/ queue[c] # <<>> /\ toClient' = Written(c, <<Head(queue[c])>>)
           \/ toClient' = toClient
    BY DEF WriterStep, WriterWrites, WriterEnds, clientVars
  <1>2. handler[c] \in Verified
    BY <1>1 DEF ConnInv, Typed, StageInv, HandlerStage, Verified
  <1>3. /\ writer'[c] # "none"
        /\ \A d \in Conn \ {c} : writer'[d] = writer[d]
    BY <1>1 DEF ConnInv, Typed
  <1>4. queue[c] # <<>> =>
            Head(queue[c]) \in Message /\ <<Head(queue[c])>> \in Seq(Message)
    BY DEF ConnInv, Typed, Message
  <1>5. /\ toClient' \in [Conn -> Seq(Message)]
        /\ \A d \in Conn \ {c} : toClient'[d] = toClient[d]
        /\ client[c] # "gone" =>
               \/ toClient'[c] = toClient[c]
               \/ queue[c] # <<>> /\ toClient'[c] = toClient[c] \o <<Head(queue[c])>>
    <2>1. CASE queue[c] # <<>> /\ toClient' = Written(c, <<Head(queue[c])>>)
      BY <1>4, <2>1, WrittenIs DEF TalkInv
    <2>2. CASE toClient' = toClient
      BY <2>2 DEF TalkInv, WireTyped
    <2> QED
      BY <1>1, <2>1, <2>2
  <1>6. WireTyped'
    BY <1>1, <1>5 DEF TalkInv, WireTyped
  <1>7. ASSUME client[c] # "gone"
        PROVE  InStep(c, keyOf[c], handler'[c], client'[c], toServer'[c], toClient'[c])
    <2>1. InStep(c, keyOf[c], handler[c], client[c], toServer[c], toClient[c])
      BY <1>7 DEF TalkInv
    <2>2. CASE toClient'[c] = toClient[c]
      BY <1>1, <2>1, <2>2
    <2>3. CASE queue[c] # <<>> /\ toClient'[c] = toClient[c] \o <<Head(queue[c])>>
      <3>1. toClient[c] \in Seq(Message)
        BY DEF TalkInv, WireTyped
      <3>2. toClient'[c] = Append(toClient[c], Head(queue[c]))
        BY <1>4, <2>3, <3>1
      <3>3. InStep(c, keyOf[c], handler[c], client[c], toServer[c],
                   Append(toClient[c], Head(queue[c])))
        BY <1>2, <1>4, <2>1, <2>3, <3>1, InStepAppend
      <3> QED
        BY <1>1, <3>2, <3>3
    <2> QED
      BY <1>5, <1>7, <2>2, <2>3
  <1> QED
    BY <1>1, <1>3, <1>5, <1>6, <1>7, TalkLocal

\* What a client receives is what it waits for, and its answer fits.
LEMMA ClientReceivesTalks ==
    ASSUME ConnInv, TalkInv, NEW c \in Conn, ClientReceives(c)
    PROVE  TalkInv' /\ client'[c] # "gone"
  <1> DEFINE m == Head(toClient[c])
             k == keyOf[c]
  <1>1. /\ UNCHANGED <<handler, writer, keyOf, asked>>
        /\ client[c] # "gone" /\ toClient[c] # <<>>
        /\ toClient' = [toClient EXCEPT ![c] = Tail(@)]
    BY DEF ClientReceives, serverVars
  <1>2. /\ toServer \in [Conn -> Seq(Message)] /\ toClient \in [Conn -> Seq(Message)]
        /\ client \in [Conn -> ClientStage] /\ k \in Key
        /\ answered \in [Conn -> Nat]
    BY DEF ConnInv, Typed, TalkInv, WireTyped
  <1>3. Tail(toClient[c]) \in Seq(Message) /\ toClient'[c] = Tail(toClient[c])
    BY <1>1, <1>2
  <1>4. toClient' \in [Conn -> Seq(Message)]
    BY <1>1, <1>2, <1>3
  <1>5. InStep(c, k, handler[c], client[c], toServer[c], toClient[c])
    BY <1>1 DEF TalkInv
  <1>6. \A d \in Conn \ {c} : toClient'[d] = toClient[d]
    BY <1>1, <1>2
  <1>7. CASE client[c] = "challenge"
    <2>1. /\ handler[c] = "identity" /\ toServer[c] = <<>>
          /\ toClient[c] = <<Challenge(c)>>
      BY <1>1, <1>5, <1>7 DEF InStep
    <2>2. m.type = "Challenge" /\ m.nonce = c
      BY <2>1 DEF Challenge
    <2>3. /\ client' = [client EXCEPT ![c] = "identity"]
          /\ toServer' = [toServer EXCEPT ![c] = Append(@, Identity(k, c))]
          /\ answered' = answered
      BY <1>7, <2>2 DEF ClientReceives
    <2>4. Identity(k, c) \in Message
      BY <1>2 DEF Message
    <2>5. /\ toServer' \in [Conn -> Seq(Message)]
          /\ toServer'[c] = <<Identity(k, c)>>
          /\ \A d \in Conn \ {c} : toServer'[d] = toServer[d]
      BY <1>2, <2>1, <2>3, <2>4
    <2>6. /\ client'[c] = "identity"
          /\ \A d \in Conn \ {c} : client'[d] = client[d]
      BY <1>2, <2>3
    <2>7. toClient'[c] = <<>>
      BY <1>3, <2>1
    <2>8. WireTyped'
      BY <1>1, <1>4, <2>3, <2>5 DEF TalkInv, WireTyped
    <2>9. InStep(c, k, handler'[c], client'[c], toServer'[c], toClient'[c])
      BY <1>1, <2>1, <2>5, <2>6, <2>7 DEF InStep
    <2> QED
      BY <1>1, <1>6, <2>1, <2>5, <2>6, <2>8, <2>9, TalkLocal
  <1>8. CASE client[c] # "challenge"
    <2>1. /\ handler[c] \in Verified
          /\ client[c] = "identity" => /\ m = Identity(ServerKey, c)
                                       /\ Tail(toClient[c]) # <<>>
                                       /\ Head(Tail(toClient[c])) = Plain("Welcome")
          /\ client[c] # "run" => toServer[c] = <<>>
      BY <1>1, <1>5, <1>8 DEF InStep
    <2>2. /\ \/ client[c] = "identity" /\ client' = [client EXCEPT ![c] = "welcome"]
             \/ client[c] = "welcome" /\ client' = [client EXCEPT ![c] = "run"]
             \/ client[c] = "run" /\ client' = client
          /\ toServer' = toServer
          /\ answered' = answered \/ answered' = [answered EXCEPT ![c] = @ + 1]
      <3>1. CASE client[c] = "identity"
        <4>1. m.type = "Identity" /\ VerifyIdentity(c, m)
          BY <2>1, <3>1 DEF Identity, VerifyIdentity
        <4> QED
          BY <3>1, <4>1 DEF ClientReceives
      <3>2. CASE client[c] = "welcome"
        BY <3>2 DEF ClientReceives
      <3>3. CASE client[c] = "run"
        BY <1>2, <3>3 DEF ClientReceives
      <3> QED
        BY <1>1, <1>2, <1>8, <3>1, <3>2, <3>3 DEF ClientStage
    <2>3. /\ \/ client[c] = "identity" /\ client'[c] = "welcome"
             \/ client[c] = "welcome" /\ client'[c] = "run"
             \/ client[c] = "run" /\ client'[c] = "run"
          /\ \A d \in Conn \ {c} : client'[d] = client[d]
      BY <1>2, <2>2
    <2>4. answered' \in [Conn -> Nat]
      <3>1. answered[c] + 1 \in Nat
        BY <1>2
      <3> QED
        BY <1>2, <2>2, <3>1
    <2>5. WireTyped'
      BY <1>1, <1>4, <2>2, <2>4 DEF TalkInv, WireTyped
    <2>6. toServer[c] = <<>> => toServer[c] \in Seq({Plain("Request")})
      OBVIOUS
    <2>7. InStep(c, k, handler'[c], client'[c], toServer'[c], toClient'[c])
      BY <1>1, <1>3, <1>5, <2>1, <2>2, <2>3, <2>6 DEF InStep, Verified
    <2>8. ~(handler'[c] = "done" /\ writer'[c] = "none")
      BY <1>1 DEF TalkInv
    <2> QED
      BY <1>1, <1>6, <2>2, <2>3, <2>5, <2>7, <2>8, TalkLocal
  <1> QED
    BY <1>7, <1>8

\* A client in its loop adds a request; one that leaves owes nothing.
LEMMA ClientActsTalks ==
    ASSUME ConnInv, TalkInv, NEW c \in Conn, ClientAsks(c) \/ ClientLeaves(c)
    PROVE  TalkInv'
  <1>1. UNCHANGED <<handler, writer, keyOf, answered>>
    BY DEF ClientAsks, ClientLeaves, serverVars
  <1>2. /\ toServer \in [Conn -> Seq(Message)] /\ toClient \in [Conn -> Seq(Message)]
        /\ client \in [Conn -> ClientStage] /\ asked \in [Conn -> Nat]
    BY DEF ConnInv, Typed, TalkInv, WireTyped
  <1>3. CASE ClientAsks(c)
    <2>1. /\ client[c] = "run" /\ client' = client /\ toClient' = toClient
          /\ asked' = [asked EXCEPT ![c] = @ + 1]
          /\ \/ toServer' = toServer
             \/ toServer' = [toServer EXCEPT ![c] = Append(@, Plain("Request"))]
      BY <1>3 DEF ClientAsks
    <2>2. Plain("Request") \in Message
      BY DEF Message
    <2>3. /\ toServer' \in [Conn -> Seq(Message)]
          /\ \A d \in Conn \ {c} : toServer'[d] = toServer[d]
          /\ toServer'[c] = toServer[c] \/ toServer'[c] = Append(toServer[c], Plain("Request"))
      <3>1. Append(toServer[c], Plain("Request")) \in Seq(Message)
        BY <1>2, <2>2
      <3> QED
        BY <1>2, <2>1, <3>1
    <2>4. asked' \in [Conn -> Nat]
      BY <1>2, <2>1
    <2>5. WireTyped'
      BY <1>1, <1>2, <2>1, <2>3, <2>4 DEF TalkInv, WireTyped
    <2>6. handler[c] \in Verified /\ toServer[c] \in Seq({Plain("Request")})
      BY <2>1 DEF TalkInv, InStep
    <2>7. toServer'[c] \in Seq({Plain("Request")})
      BY <2>3, <2>6
    <2>8. InStep(c, keyOf[c], handler'[c], client'[c], toServer'[c], toClient'[c])
      BY <1>1, <2>1, <2>6, <2>7 DEF InStep, Verified
    <2>9. ~(handler'[c] = "done" /\ writer'[c] = "none")
      BY <1>1, <2>1 DEF TalkInv
    <2> QED
      BY <1>1, <2>1, <2>3, <2>5, <2>8, <2>9, TalkLocal
  <1>4. CASE ClientLeaves(c)
    <2>1. /\ client' = [client EXCEPT ![c] = "gone"] /\ UNCHANGED <<asked, toServer>>
          /\ toClient' = [toClient EXCEPT ![c] = <<>>]
      BY <1>4 DEF ClientLeaves
    <2>2. <<>> \in Seq(Message)
      OBVIOUS
    <2>3. /\ toClient' \in [Conn -> Seq(Message)]
          /\ \A d \in Conn \ {c} : toClient'[d] = toClient[d] /\ client'[d] = client[d]
          /\ client'[c] = "gone"
      BY <1>2, <2>1, <2>2
    <2>4. WireTyped'
      BY <1>1, <1>2, <2>1, <2>3 DEF TalkInv, WireTyped
    <2> QED
      BY <1>1, <2>1, <2>3, <2>4, TalkLocal
  <1> QED
    BY <1>3, <1>4

\* Every step keeps it.
LEMMA TalkStep == ConnInv /\ TalkInv /\ [Next]_vars => TalkInv'
  <1> SUFFICES ASSUME ConnInv, TalkInv, [Next]_vars PROVE TalkInv'
    OBVIOUS
  <1>1. ASSUME NEW c \in Conn, HandlerStep(c) PROVE TalkInv'
    BY <1>1, SendChallengeTalks, RecvIdentityTalks, ReplyTalks, ServingTalks DEF HandlerStep
  <1>2. ASSUME NEW c \in Conn, OnRequest(c) \/ ReaderEnds(c) PROVE TalkInv'
    BY <1>2, ReaderTalks
  <1>3. ASSUME NEW c \in Conn, WriterStep(c) PROVE TalkInv'
    BY <1>3, WriterTalks
  <1>4. ASSUME NEW c \in Conn, ClientReceives(c) PROVE TalkInv'
    BY <1>4, ClientReceivesTalks
  <1>5. ASSUME NEW c \in Conn, ClientAsks(c) \/ ClientLeaves(c) PROVE TalkInv'
    BY <1>5, ClientActsTalks
  <1>6. ASSUME UNCHANGED <<handler, writer, client, keyOf, toServer, toClient, asked, answered>>
        PROVE  TalkInv'
    BY <1>6 DEF TalkInv, WireTyped
  <1>7. CASE Snapshot \/ \E c \in Conn : SendBlock(c)
    BY <1>6, <1>7 DEF Snapshot, SendBlock, serverVars, clientVars
  <1>8. CASE UNCHANGED vars
    BY <1>6, <1>8 DEF vars, serverVars, clientVars
  <1> QED
    BY <1>1, <1>2, <1>3, <1>4, <1>5, <1>7, <1>8 DEF Next, Settled

\* It holds throughout.
LEMMA TalkCorrect == Spec => []TalkInv
  BY ConnCorrect, TalkInit, TalkStep, PTL DEF Spec

(***************************************************************************)
(* The two ends of a handshake never wait for each other, a client in its  *)
(* loop has been verified, and no handler gives up on a client that stays: *)
(* what HandshakeCompletes rests on, without any fairness.                 *)
(***************************************************************************)
THEOREM HandshakeCorrect == Spec => []HandshakeNeverStuck
  <1>1. ConnInv /\ TalkInv => HandshakeNeverStuck
    <2> SUFFICES ASSUME ConnInv, TalkInv, NEW c \in Conn
                 PROVE  /\ client[c] \in {"challenge", "identity", "welcome"} =>
                               \/ handler[c] \in {"challenge", "reply", "register"}
                               \/ handler[c] = "identity" /\ toServer[c] # <<>>
                               \/ toClient[c] # <<>>
                        /\ client[c] \in {"welcome", "run"} =>
                               handler[c] \notin {"challenge", "identity", "reply"}
                        /\ handler[c] = "done" /\ writer[c] = "none" => client[c] = "gone"
      BY DEF HandshakeNeverStuck
    <2>1. client[c] # "gone" =>
              InStep(c, keyOf[c], handler[c], client[c], toServer[c], toClient[c])
      BY DEF TalkInv
    <2>2. <<Identity(keyOf[c], c)>> # <<>> /\ <<Challenge(c)>> # <<>>
      OBVIOUS
    <2>3. client[c] = "challenge" =>
              \/ handler[c] = "challenge"
              \/ handler[c] = "identity" /\ toClient[c] # <<>>
      BY <2>1, <2>2 DEF InStep
    <2>4. client[c] = "identity" =>
              \/ handler[c] = "reply" \/ toClient[c] # <<>>
              \/ handler[c] = "identity" /\ toServer[c] # <<>>
      BY <2>1, <2>2 DEF InStep
    <2>5. client[c] \in {"welcome", "run"} =>
              /\ handler[c] \in Verified
              /\ client[c] = "welcome" => toClient[c] # <<>>
      BY <2>1 DEF InStep
    <2> QED
      BY <2>3, <2>4, <2>5 DEF TalkInv, Verified
  <1> QED
    BY <1>1, ConnCorrect, TalkCorrect, PTL

(***************************************************************************)
(* No client that is in a handshake is turned away by what it receives:    *)
(* what reaches it is always what it waits for, of the right nonce.        *)
(***************************************************************************)
THEOREM NobodyRejected == Spec => NobodyIsRejected
  <1>1. ConnInv /\ TalkInv /\ [Next]_vars
            => [\A c \in Conn : ClientReceives(c) => client'[c] # "gone"]_vars
    BY ClientReceivesTalks
  <1> QED
    BY <1>1, ConnCorrect, TalkCorrect, PTL DEF Spec, NobodyIsRejected

-----------------------------------------------------------------------------
(***************************************************************************)
(* Requests and answers, counted by their type.                            *)
(***************************************************************************)

\* Where the messages of a type are in a sequence.
Places(type, s) == {i \in 1 .. Len(s) : s[i].type = type}

LEMMA CountIs ==
    ASSUME NEW T, NEW s \in Seq(T), NEW type
    PROVE  /\ Count(type, s) = Cardinality(Places(type, s))
           /\ IsFiniteSet(Places(type, s))
           /\ Count(type, s) \in Nat
  <1>1. DOMAIN s = 1 .. Len(s) /\ Len(s) \in Nat
    OBVIOUS
  <1>2. IsFiniteSet(1 .. Len(s))
    BY <1>1, FS_Interval
  <1>3. IsFiniteSet(Places(type, s))
    BY <1>2, FS_Subset DEF Places
  <1> QED
    BY <1>1, <1>3, FS_CardinalityType DEF Count, Places

\* Nothing is in the empty sequence.
LEMMA CountEmpty == ASSUME NEW type PROVE Count(type, <<>>) = 0
  <1>1. {i \in DOMAIN <<>> : <<>>[i].type = type} = {}
    OBVIOUS
  <1> QED
    BY <1>1, FS_EmptySet DEF Count

\* A message that is appended is one more of its type.
LEMMA CountAppend ==
    ASSUME NEW T, NEW s \in Seq(T), NEW e \in T, NEW type
    PROVE  Count(type, Append(s, e))
               = IF e.type = type THEN Count(type, s) + 1 ELSE Count(type, s)
  <1> DEFINE n == Len(s)
             a == Append(s, e)
  <1>1. /\ n \in Nat /\ a \in Seq(T) /\ Len(a) = n + 1 /\ a[n + 1] = e
        /\ \A i \in 1 .. n : a[i] = s[i]
    OBVIOUS
  <1>2. 1 .. n + 1 = (1 .. n) \cup {n + 1} /\ n + 1 \notin 1 .. n
    BY <1>1
  <1>3. Places(type, a) = IF e.type = type THEN Places(type, s) \cup {n + 1}
                          ELSE Places(type, s)
    BY <1>1, <1>2 DEF Places
  <1>4. n + 1 \notin Places(type, s)
    BY <1>2 DEF Places
  <1>5. Cardinality(Places(type, s) \cup {n + 1}) = Cardinality(Places(type, s)) + 1
    BY <1>4, CountIs, FS_AddElement
  <1> QED
    BY <1>1, <1>3, <1>5, CountIs

\* One of another type makes no difference.
LEMMA CountOther ==
    ASSUME NEW T, NEW s \in Seq(T), NEW e \in T, NEW type, e.type # type
    PROVE  Count(type, Append(s, e)) = Count(type, s)
  BY CountAppend

\* A message that is taken from the front is one less of its type.
LEMMA CountTail ==
    ASSUME NEW T, NEW s \in Seq(T), s # <<>>, NEW type
    PROVE  Count(type, s) = IF Head(s).type = type THEN Count(type, Tail(s)) + 1
                            ELSE Count(type, Tail(s))
  <1> DEFINE t == Tail(s)
             n == Len(t)
             A == Places(type, t)
             B == {i \in 2 .. n + 1 : s[i].type = type}
             f == [i \in A |-> i + 1]
  <1>1. /\ n \in Nat /\ t \in Seq(T) /\ Len(s) = n + 1 /\ Head(s) = s[1]
        /\ \A i \in 1 .. n : t[i] = s[i + 1]
    OBVIOUS
  <1>2. IsFiniteSet(A) /\ Count(type, t) = Cardinality(A)
    BY <1>1, CountIs
  <1>3. IsFiniteSet(B) /\ Cardinality(B) = Cardinality(A)
    <2>1. A \subseteq 1 .. n
      BY DEF Places
    <2>2. f \in [A -> B]
      BY <1>1, <2>1 DEF Places
    <2>3. \A i, j \in A : f[i] = f[j] => i = j
      BY <1>1, <2>1
    <2>4. ASSUME NEW k \in B PROVE \E i \in A : f[i] = k
      <3>1. k - 1 \in 1 .. n /\ (k - 1) + 1 = k
        BY <1>1
      <3>2. k - 1 \in A
        BY <1>1, <3>1 DEF Places
      <3> QED
        BY <3>1, <3>2
    <2>5. ExistsBijection(A, B)
      <3> HIDE DEF A, B, f
      <3> QED
        BY <2>2, <2>3, <2>4
        DEF ExistsBijection, Bijection, Injection, Surjection, IsInjective
    <2> QED
      BY <1>2, <2>5, FS_Bijection
  <1>4. 1 .. n + 1 = {1} \cup (2 .. n + 1) /\ 1 \notin B
    BY <1>1
  <1>5. Places(type, s) = IF Head(s).type = type THEN B \cup {1} ELSE B
    BY <1>1, <1>4 DEF Places
  <1>6. Cardinality(B \cup {1}) = Cardinality(B) + 1
    BY <1>3, <1>4, FS_AddElement
  <1> QED
    BY <1>2, <1>3, <1>5, <1>6, CountIs

-----------------------------------------------------------------------------
(***************************************************************************)
(* No request is lost.                                                     *)
(***************************************************************************)

\* A served connection with an id of its own has the entry of that id.
EntryInv ==
    \A c \in Conn : OwnKey(c) /\ handler[c] = "serve" => peers[keyOf[c]] = c

\* The requests that s, q and r hold in some form, beside n that are done.
DueOf(s, q, r, n) == Count("Request", s) + Count("Answer", q) + Count("Answer", r) + n

Due(c) == asked[c] = DueOf(toServer[c], queue[c], toClient[c], answered[c])

KeptInv == EntryInv /\ RequestsAreKept

\* Nobody is served and nothing is asked at first.
LEMMA KeptInit == Init => KeptInv
  <1> SUFFICES ASSUME Init PROVE KeptInv
    OBVIOUS
  <1>1. EntryInv
    BY DEF Init, ServerInit, EntryInv
  <1>2. ASSUME NEW c \in Conn
        PROVE  asked[c] = Count("Request", toServer[c]) + Count("Answer", queue[c])
                              + Count("Answer", toClient[c]) + answered[c]
    BY CountEmpty DEF Init, ServerInit, ClientInit
  <1> QED
    BY <1>1, <1>2 DEF KeptInv, RequestsAreKept

\* Only registration and cleanup touch the map, each under its own key.
LEMMA EntryStep == ConnInv /\ EntryInv /\ [Next]_vars => EntryInv'
  <1> SUFFICES ASSUME ConnInv, EntryInv, [Next]_vars PROVE EntryInv'
    OBVIOUS
  <1>1. ASSUME UNCHANGED <<handler, peers, keyOf>> PROVE EntryInv'
    BY <1>1 DEF EntryInv, OwnKey
  <1>2. ASSUME NEW d \in Conn, NEW h \in HandlerStage \ {"serve"},
               handler' = [handler EXCEPT ![d] = h],
               peers' = peers \/ (handler[d] = "serve" /\ peers' = [peers EXCEPT ![keyOf[d]] = NoConn]),
               keyOf' = keyOf
        PROVE  EntryInv'
    BY <1>2 DEF ConnInv, Typed, EntryInv, OwnKey
  <1>3. ASSUME NEW d \in Conn, Register(d) PROVE EntryInv'
    BY <1>3 DEF ConnInv, Typed, EntryInv, OwnKey, Register, clientVars
  <1>4. ASSUME NEW d \in Conn, SendChallenge(d) \/ RecvIdentity(d) \/ Reply(d)
        PROVE  EntryInv'
    <2>1. \E h \in HandlerStage \ {"serve"} : handler' = [handler EXCEPT ![d] = h]
      BY <1>4 DEF SendChallenge, Reply, HandlerSends, RecvIdentity, HandlerStage
    <2>2. peers' = peers /\ keyOf' = keyOf
      BY <1>4 DEF SendChallenge, Reply, HandlerSends, RecvIdentity, clientVars
    <2> QED
      BY <1>2, <2>1, <2>2
  <1>5. ASSUME NEW d \in Conn, Cleanup(d) \/ DropTx(d) \/ Finish(d)
        PROVE  EntryInv'
    <2>1. \E h \in HandlerStage \ {"serve"} : handler' = [handler EXCEPT ![d] = h]
      BY <1>5 DEF Cleanup, DropTx, Finish, HandlerStage
    <2>2. /\ \/ peers' = peers
             \/ handler[d] = "serve" /\ peers' = [peers EXCEPT ![keyOf[d]] = NoConn]
          /\ keyOf' = keyOf
      BY <1>5 DEF Cleanup, DropTx, Finish, clientVars
    <2> QED
      BY <1>2, <2>1, <2>2
  <1>6. ASSUME NEW d \in Conn,
               \/ OnRequest(d) \/ ReaderEnds(d) \/ WriterStep(d) \/ SendBlock(d)
               \/ ClientReceives(d) \/ ClientAsks(d) \/ ClientLeaves(d)
        PROVE  EntryInv'
    BY <1>1, <1>6
    DEF OnRequest, ReaderEnds, WriterStep, WriterWrites, WriterEnds, SendBlock,
        ClientReceives, ClientAsks, ClientLeaves, serverVars, clientVars
  <1>7. CASE Snapshot
    BY <1>1, <1>7 DEF Snapshot, serverVars, clientVars
  <1>8. CASE UNCHANGED vars
    BY <1>1, <1>8 DEF vars, serverVars, clientVars
  <1> QED
    BY <1>3, <1>4, <1>5, <1>6, <1>7, <1>8 DEF Next, Settled, HandlerStep

\* The balance of c is that of a step that leaves its channel and wires alone.
LEMMA DueSame ==
    ASSUME NEW c \in Conn, Due(c), asked' = asked, answered' = answered,
           toServer'[c] = toServer[c], queue'[c] = queue[c], toClient'[c] = toClient[c]
    PROVE  Due(c)'
  BY DEF Due

\* The types of the messages that are neither a request nor an answer.
LEMMA OtherTypes ==
    /\ \A k, c : Identity(k, c).type = "Identity"
    /\ \A c : Challenge(c).type = "Challenge"
    /\ \A t : Plain(t).type = t
  BY DEF Identity, Challenge, Plain

\* What is put in channels and does not answer owes and pays nothing.
LEMMA PutOther ==
    ASSUME queue \in [Conn -> Seq(Queued)], NEW S, NEW m \in Queued, m.type # "Answer",
           NEW c \in Conn
    PROVE  Count("Answer", Put(S, m)[c]) = Count("Answer", queue[c])
  <1>1. queue[c] \in Seq(Queued)
    OBVIOUS
  <1>2. Count("Answer", Append(queue[c], m)) = Count("Answer", queue[c])
    BY <1>1, CountAppend
  <1> QED
    BY <1>2 DEF Put

\* The handshake carries no requests and no answers.
LEMMA HandshakeOwes ==
    ASSUME ConnInv, TalkInv, NEW d \in Conn, SendChallenge(d) \/ RecvIdentity(d) \/ Reply(d),
           NEW c \in Conn, client[c] # "gone", Due(c)
    PROVE  Due(c)'
  <1>1. /\ UNCHANGED <<queue, asked, answered, client, keyOf>>
        /\ \/ /\ toServer' = toServer
              /\ \/ handler[d] = "challenge" /\ toClient' = Written(d, <<Challenge(d)>>)
                 \/ /\ handler[d] = "reply"
                    /\ toClient' = Written(d, <<Identity(ServerKey, d), Plain("Welcome")>>)
           \/ /\ handler[d] = "identity" /\ toClient' = toClient
              /\ \/ toServer' = toServer
                 \/ toServer[d] # <<>> /\ toServer' = [toServer EXCEPT ![d] = Tail(@)]
    BY DEF SendChallenge, Reply, HandlerSends, RecvIdentity, clientVars, Challenge
  <1>2. /\ toServer \in [Conn -> Seq(Message)] /\ toClient \in [Conn -> Seq(Message)]
        /\ <<Challenge(d)>> \in Seq(Message)
        /\ <<Identity(ServerKey, d), Plain("Welcome")>> \in Seq(Message)
    <2>1. /\ Challenge(d) \in Message /\ Plain("Welcome") \in Message
          /\ Identity(ServerKey, d) \in Message
      BY ConnectionAssumption DEF Message
    <2> QED
      BY <2>1 DEF TalkInv, WireTyped
  <1>3. CASE c # d
    <2>1. toServer'[c] = toServer[c]
      BY <1>1, <1>2, <1>3
    <2>2. ASSUME NEW S \in Seq(Message), toClient' = Written(d, S)
          PROVE  toClient'[c] = toClient[c]
      BY <1>3, <2>2, WrittenIs DEF TalkInv
    <2>3. toClient'[c] = toClient[c]
      BY <1>1, <1>2, <2>2
    <2> QED
      BY <1>1, <2>1, <2>3, DueSame
  <1>4. CASE c = d
    <2>1. InStep(c, keyOf[c], handler[c], client[c], toServer[c], toClient[c])
      BY DEF TalkInv
    <2>2. CASE handler[d] = "challenge"
      <3>1. toClient[c] = <<>> /\ toServer'[c] = toServer[c]
        BY <1>1, <1>4, <2>1, <2>2 DEF InStep, Verified
      <3>2. toClient'[c] = toClient[c] \o <<Challenge(d)>>
        BY <1>1, <1>2, <1>4, <2>2, WrittenIs DEF TalkInv
      <3>3. Challenge(d) \in Message /\ Challenge(d).type # "Answer"
        BY OtherTypes DEF Message
      <3>4. Count("Answer", toClient'[c]) = Count("Answer", toClient[c])
        <4> DEFINE e == Challenge(d)
        <4> HIDE DEF e
        <4>1. e \in Message /\ e.type # "Answer"
          BY <3>3 DEF e
        <4>2. toClient'[c] = Append(toClient[c], e)
          BY <1>2, <3>2, <4>1 DEF e
        <4>3. toClient[c] \in Seq(Message)
          BY <1>2
        <4>4. Count("Answer", Append(toClient[c], e)) = Count("Answer", toClient[c])
          BY <4>1, <4>3, CountOther
        <4> QED
          BY <4>2, <4>4
      <3> QED
        BY <1>1, <3>1, <3>4 DEF Due, DueOf
    <2>3. CASE handler[d] = "reply"
      <3> DEFINE I == Identity(ServerKey, d)
                 W == Plain("Welcome")
      <3>1. toClient[c] = <<>> /\ toServer'[c] = toServer[c]
        BY <1>1, <1>4, <2>1, <2>3 DEF InStep, Verified
      <3>2. I \in Message /\ W \in Message /\ I.type # "Answer" /\ W.type # "Answer"
        BY ConnectionAssumption, OtherTypes DEF Message
      <3>3. toClient'[c] = toClient[c] \o <<I, W>>
        BY <1>1, <1>2, <1>4, <2>3, WrittenIs DEF TalkInv
      <3> HIDE DEF I, W
      <3>4. PICK a : a = Append(toClient[c], I)
        OBVIOUS
      <3>5. Count("Answer", a) = Count("Answer", toClient[c]) /\ a \in Seq(Message)
        <4>1. toClient[c] \in Seq(Message)
          BY <1>2
        <4>2. Count("Answer", Append(toClient[c], I)) = Count("Answer", toClient[c])
          BY <3>2, <4>1, CountOther
        <4> QED
          BY <3>2, <3>4, <4>1, <4>2
      <3>6. toClient'[c] = Append(a, W)
        BY <3>1, <3>2, <3>3, <3>4
      <3>7. Count("Answer", toClient'[c]) = Count("Answer", a)
        <4>1. Count("Answer", Append(a, W)) = Count("Answer", a)
          BY <3>2, <3>5, CountOther
        <4> QED
          BY <3>6, <4>1
      <3> QED
        BY <1>1, <3>1, <3>5, <3>7 DEF Due, DueOf
    <2>4. CASE handler[d] = "identity"
      <3>1. toClient' = toClient
        BY <1>1, <2>4
      <3>2. CASE toServer' = toServer
        BY <1>1, <3>1, <3>2, DueSame
      <3>3. CASE toServer[d] # <<>> /\ toServer' = [toServer EXCEPT ![d] = Tail(@)]
        <4>1. Head(toServer[c]) = Identity(keyOf[c], c)
          BY <1>4, <2>1, <2>4, <3>3 DEF InStep, Verified
        <4>2. toServer'[c] = Tail(toServer[c])
          BY <1>2, <1>4, <3>3
        <4>3. Count("Request", toServer'[c]) = Count("Request", toServer[c])
          BY <1>2, <1>4, <3>3, <4>1, <4>2, CountTail, OtherTypes
        <4> QED
          BY <1>1, <3>1, <4>3 DEF Due, DueOf
      <3> QED
        BY <1>1, <2>4, <3>2, <3>3
    <2> QED
      BY <1>1, <2>2, <2>3, <2>4
  <1> QED
    BY <1>3, <1>4

\* Registration sends the list of peers, a broadcast a block.
LEMMA ServingOwes ==
    ASSUME ConnInv, NEW c \in Conn, Due(c),
           \/ \E d \in Conn : Register(d) \/ Cleanup(d) \/ DropTx(d) \/ Finish(d)
           \/ Snapshot \/ \E d \in Conn : SendBlock(d)
    PROVE  Due(c)'
  <1>1. /\ UNCHANGED <<asked, answered, toServer, toClient>>
        /\ \/ queue' = queue
           \/ \E S : queue' = Put(S, Plain("Peers"))
           \/ \E S : queue' = Put(S, Plain("NewBlock"))
    BY DEF Register, Cleanup, DropTx, Finish, Snapshot, SendBlock, serverVars, clientVars
  <1>2. /\ queue \in [Conn -> Seq(Queued)]
        /\ Plain("Peers") \in Queued /\ Plain("NewBlock") \in Queued
    BY DEF ConnInv, Typed, Queued
  <1>3. Plain("Peers").type # "Answer" /\ Plain("NewBlock").type # "Answer"
    BY OtherTypes
  <1>4. ASSUME NEW S, NEW m \in Queued, m.type # "Answer", queue' = Put(S, m)
        PROVE  Count("Answer", queue'[c]) = Count("Answer", queue[c])
    BY <1>2, <1>4, PutOther
  <1>5. Count("Answer", queue'[c]) = Count("Answer", queue[c])
    BY <1>1, <1>2, <1>3, <1>4
  <1> QED
    BY <1>1, <1>5 DEF Due, DueOf

\* A request that the reader takes becomes an answer in the asker's channel.
LEMMA ReaderOwes ==
    ASSUME ConnInv, TalkInv, EntryInv, NEW d \in Conn, OnRequest(d) \/ ReaderEnds(d),
           NEW c \in Conn, OwnKey(c), client[c] # "gone", reader'[c] # "ended", Due(c)
    PROVE  Due(c)'
  <1>1. /\ UNCHANGED <<asked, answered, toClient>>
        /\ toServer \in [Conn -> Seq(Message)] /\ queue \in [Conn -> Seq(Queued)]
        /\ reader \in [Conn -> TaskStage] /\ keyOf \in [Conn -> Key]
        /\ Plain("Answer") \in Queued
    BY DEF OnRequest, ReaderEnds, clientVars, ConnInv, Typed, TalkInv, WireTyped, Queued
  <1>2. CASE ReaderEnds(d)
    <2>1. d # c
      BY <1>1, <1>2 DEF ReaderEnds
    <2>2. toServer'[c] = toServer[c] /\ queue' = queue
      BY <1>1, <1>2, <2>1 DEF ReaderEnds
    <2> QED
      BY <1>1, <2>2, DueSame
  <1>3. CASE OnRequest(d) /\ d # c
    <2>1. /\ toServer' = [toServer EXCEPT ![d] = Tail(@)]
          /\ queue' = Put(Registered \cap {peers[keyOf[d]]}, Plain("Answer"))
      BY <1>3 DEF OnRequest
    <2>2. c \notin Registered \cap {peers[keyOf[d]]}
      <3>1. SUFFICES ASSUME c = peers[keyOf[d]] PROVE FALSE
        OBVIOUS
      <3>2. keyOf[c] = keyOf[d]
        BY <1>1, <3>1, ConnectionAssumption DEF ConnInv, EntriesServe
      <3> QED
        BY <1>3, <3>2 DEF OwnKey
    <2>3. toServer'[c] = toServer[c] /\ queue'[c] = queue[c]
      BY <1>1, <1>3, <2>1, <2>2 DEF Put
    <2> QED
      BY <1>1, <2>3, DueSame
  <1>4. CASE OnRequest(d) /\ d = c
    <2>1. /\ reader[c] = "running" /\ toServer[c] # <<>>
          /\ toServer' = [toServer EXCEPT ![c] = Tail(@)]
          /\ queue' = Put(Registered \cap {peers[keyOf[c]]}, Plain("Answer"))
      BY <1>4 DEF OnRequest
    <2>2. handler[c] = "serve"
      BY <2>1 DEF ConnInv, Typed, StageInv, HandlerStage
    <2>3. peers[keyOf[c]] = c /\ c \in Registered
      BY <1>1, <2>2, ConnectionAssumption DEF EntryInv, Registered
    <2>4. writer[c] # "ended"
      BY <2>3 DEF ConnInv, CleanClose, ChannelClosed
    <2>5. queue'[c] = Append(queue[c], Plain("Answer"))
      BY <2>1, <2>3, <2>4 DEF Put
    <2>6. Count("Answer", queue'[c]) = Count("Answer", queue[c]) + 1
      <3>1. queue[c] \in Seq(Queued) /\ Plain("Answer").type = "Answer"
        BY <1>1, OtherTypes
      <3>2. Count("Answer", Append(queue[c], Plain("Answer"))) = Count("Answer", queue[c]) + 1
        BY <1>1, <3>1, CountAppend
      <3> QED
        BY <2>5, <3>2
    <2>7. toServer[c] \in Seq({Plain("Request")})
      BY <2>1, <2>2 DEF TalkInv, InStep
    <2>8. Head(toServer[c]).type = "Request"
      <3>1. Head(toServer[c]) = Plain("Request")
        BY <2>1, <2>7
      <3> QED
        BY <3>1, OtherTypes
    <2>9. Count("Request", toServer[c]) = Count("Request", toServer'[c]) + 1
      <3>1. toServer[c] \in Seq(Message) /\ toServer'[c] = Tail(toServer[c])
        BY <1>1, <2>1
      <3>2. Count("Request", toServer[c]) = Count("Request", Tail(toServer[c])) + 1
        BY <2>1, <2>8, <3>1, CountTail
      <3> QED
        BY <3>1, <3>2
    <2>10. /\ Count("Request", toServer'[c]) \in Nat /\ Count("Answer", queue[c]) \in Nat
           /\ Count("Answer", toClient[c]) \in Nat /\ answered[c] \in Nat
      <3>1. /\ toServer[c] \in Seq(Message) /\ Tail(toServer[c]) \in Seq(Message)
            /\ toServer'[c] = Tail(toServer[c]) /\ toClient[c] \in Seq(Message)
            /\ queue[c] \in Seq(Queued) /\ answered[c] \in Nat
        BY <1>1, <2>1 DEF TalkInv, WireTyped
      <3> QED
        BY <3>1, CountIs
    <2> QED
      BY <1>1, <2>6, <2>9, <2>10 DEF Due, DueOf
  <1> QED
    BY <1>2, <1>3, <1>4

\* The writer takes an answer from the channel to the wire.
LEMMA WriterOwes ==
    ASSUME ConnInv, TalkInv, NEW d \in Conn, WriterStep(d),
           NEW c \in Conn, client[c] # "gone", Due(c)
    PROVE  Due(c)'
  <1>1. /\ UNCHANGED <<asked, answered, toServer>>
        /\ toClient \in [Conn -> Seq(Message)] /\ queue \in [Conn -> Seq(Queued)]
    BY DEF WriterStep, WriterWrites, WriterEnds, clientVars, ConnInv, Typed, TalkInv, WireTyped
  <1>2. \/ /\ queue[d] # <<>> /\ queue' = [queue EXCEPT ![d] = Tail(@)]
           /\ toClient' = Written(d, <<Head(queue[d])>>)
        \/ /\ queue' = [queue EXCEPT ![d] = <<>>] /\ toClient' = toClient
           /\ client[d] = "gone"
        \/ queue' = queue /\ toClient' = toClient
    BY DEF WriterStep, WriterWrites, WriterEnds
  <1>3. CASE queue' = queue /\ toClient' = toClient
    BY <1>1, <1>3, DueSame
  <1>4. CASE /\ queue' = [queue EXCEPT ![d] = <<>>] /\ toClient' = toClient
             /\ client[d] = "gone"
    <2>1. queue'[c] = queue[c]
      BY <1>1, <1>4
    <2> QED
      BY <1>1, <1>4, <2>1, DueSame
  <1>5. CASE /\ queue[d] # <<>> /\ queue' = [queue EXCEPT ![d] = Tail(@)]
             /\ toClient' = Written(d, <<Head(queue[d])>>)
    <2> DEFINE e == Head(queue[d])
    <2>1. e \in Message /\ <<e>> \in Seq(Message)
      BY <1>1, <1>5 DEF Message
    <2> HIDE DEF e
    <2>2. /\ \A b \in Conn \ {d} : toClient'[b] = toClient[b]
          /\ client[d] # "gone" => toClient'[d] = toClient[d] \o <<e>>
      BY <1>5, <2>1, WrittenIs DEF TalkInv, e
    <2>3. CASE c # d
      <3>1. queue'[c] = queue[c] /\ toClient'[c] = toClient[c]
        BY <1>1, <1>5, <2>2, <2>3
      <3> QED
        BY <1>1, <3>1, DueSame
    <2>4. CASE c = d
      <3>1. /\ queue[c] \in Seq(Queued) /\ toClient[c] \in Seq(Message) /\ queue[c] # <<>>
            /\ queue'[c] = Tail(queue[c]) /\ Tail(queue[c]) \in Seq(Queued)
        BY <1>1, <1>5, <2>4
      <3>2. toClient'[c] = Append(toClient[c], e)
        BY <2>1, <2>2, <2>4, <3>1
      <3>3. Count("Answer", queue[c])
                = IF e.type = "Answer" THEN Count("Answer", Tail(queue[c])) + 1
                  ELSE Count("Answer", Tail(queue[c]))
        BY <2>4, <3>1, CountTail DEF e
      <3>4. Count("Answer", Append(toClient[c], e))
                = IF e.type = "Answer" THEN Count("Answer", toClient[c]) + 1
                  ELSE Count("Answer", toClient[c])
        BY <2>1, <3>1, CountAppend
      <3>5. /\ Count("Answer", Tail(queue[c])) \in Nat /\ Count("Answer", toClient[c]) \in Nat
            /\ Count("Request", toServer[c]) \in Nat /\ answered[c] \in Nat
        <4>1. toServer[c] \in Seq(Message) /\ answered[c] \in Nat
          BY DEF TalkInv, WireTyped
        <4> QED
          BY <3>1, <4>1, CountIs
      <3>6. /\ Count("Answer", queue'[c]) = Count("Answer", Tail(queue[c]))
            /\ Count("Answer", toClient'[c]) = Count("Answer", Append(toClient[c], e))
        BY <3>1, <3>2
      <3>7. Count("Answer", queue'[c]) + Count("Answer", toClient'[c])
                = Count("Answer", queue[c]) + Count("Answer", toClient[c])
        BY <3>3, <3>4, <3>5, <3>6
      <3>8. Count("Answer", queue'[c]) \in Nat /\ Count("Answer", toClient'[c]) \in Nat
            /\ Count("Answer", queue[c]) \in Nat
        BY <3>3, <3>4, <3>5, <3>6
      <3>9. /\ Count("Request", toServer'[c]) = Count("Request", toServer[c])
            /\ answered'[c] = answered[c] /\ asked'[c] = asked[c]
        BY <1>1
      <3>10. asked[c] = Count("Request", toServer[c]) + Count("Answer", queue[c])
                            + Count("Answer", toClient[c]) + answered[c]
        BY DEF Due, DueOf
      <3>11. asked'[c] = Count("Request", toServer'[c]) + Count("Answer", queue'[c])
                             + Count("Answer", toClient'[c]) + answered'[c]
        BY <3>5, <3>7, <3>8, <3>9, <3>10
      <3> QED
        BY <3>11 DEF Due, DueOf
    <2> QED
      BY <2>3, <2>4
  <1> QED
    BY <1>2, <1>3, <1>4, <1>5

\* An answer that the client reads is counted; nothing else it reads is one.
LEMMA ClientReceivesOwes ==
    ASSUME ConnInv, TalkInv, NEW d \in Conn, ClientReceives(d), NEW c \in Conn, Due(c)
    PROVE  Due(c)'
  <1>1. /\ toServer \in [Conn -> Seq(Message)] /\ toClient \in [Conn -> Seq(Message)]
        /\ answered \in [Conn -> Nat] /\ queue \in [Conn -> Seq(Queued)]
        /\ queue' = queue /\ asked' = asked /\ keyOf[d] \in Key
        /\ client[d] # "gone" /\ toClient[d] # <<>>
        /\ toClient' = [toClient EXCEPT ![d] = Tail(@)]
    BY DEF ClientReceives, serverVars, ConnInv, Typed, TalkInv, WireTyped
  <1>2. InStep(d, keyOf[d], handler[d], client[d], toServer[d], toClient[d])
    BY <1>1 DEF TalkInv
  <1> DEFINE m == Head(toClient[d])
  <1>3. \/ /\ client[d] = "run" /\ toServer' = toServer
           /\ answered' = [answered EXCEPT ![d] = IF m.type = "Answer" THEN @ + 1 ELSE @]
        \/ /\ client[d] # "run" /\ m.type # "Answer" /\ answered' = answered
           /\ \/ toServer' = toServer
              \/ toServer' = [toServer EXCEPT ![d] = Append(@, Identity(keyOf[d], d))]
    <2>1. CASE client[d] = "run"
      BY <2>1 DEF ClientReceives
    <2>2. CASE client[d] = "challenge"
      <3>1. m = Challenge(d)
        BY <1>1, <1>2, <2>2 DEF InStep
      <3>2. m.type = "Challenge" /\ m.nonce = d
        BY <3>1 DEF Challenge
      <3> QED
        BY <2>2, <3>2 DEF ClientReceives
    <2>3. CASE client[d] \in {"identity", "welcome"}
      <3>1. m = Identity(ServerKey, d) \/ m = Plain("Welcome")
        BY <1>1, <1>2, <2>3 DEF InStep
      <3>2. m.type # "Answer"
        BY <3>1, OtherTypes
      <3> QED
        BY <2>3, <3>2 DEF ClientReceives
    <2> QED
      BY <2>1, <2>2, <2>3 DEF ClientReceives
  <1>4. CASE c # d
    <2>1. /\ toServer'[c] = toServer[c] /\ toClient'[c] = toClient[c]
          /\ answered'[c] = answered[c]
      BY <1>1, <1>3, <1>4
    <2> QED
      BY <1>1, <2>1 DEF Due
  <1>5. CASE c = d
    <2>1. /\ toClient[c] \in Seq(Message) /\ Tail(toClient[c]) \in Seq(Message)
          /\ toClient[c] # <<>> /\ toClient'[c] = Tail(toClient[c])
          /\ toServer[c] \in Seq(Message) /\ queue[c] \in Seq(Queued)
      BY <1>1, <1>5
    <2>2. Count("Answer", toClient[c])
              = IF m.type = "Answer" THEN Count("Answer", toClient'[c]) + 1
                ELSE Count("Answer", toClient'[c])
      <3>1. Count("Answer", toClient[c])
                = IF Head(toClient[c]).type = "Answer"
                  THEN Count("Answer", Tail(toClient[c])) + 1
                  ELSE Count("Answer", Tail(toClient[c]))
        BY <2>1, CountTail
      <3> QED
        BY <1>5, <2>1, <3>1
    <2>3. answered'[c] = IF m.type = "Answer" THEN answered[c] + 1 ELSE answered[c]
      BY <1>1, <1>3, <1>5
    <2>4. Count("Request", toServer'[c]) = Count("Request", toServer[c])
      <3>1. CASE toServer' = toServer
        BY <3>1
      <3>2. CASE toServer' = [toServer EXCEPT ![d] = Append(@, Identity(keyOf[d], d))]
        <4> DEFINE e == Identity(keyOf[d], d)
        <4>1. e \in Message /\ e.type # "Request"
          BY <1>1, OtherTypes DEF Message
        <4>2. toServer'[c] = Append(toServer[c], e)
          BY <1>1, <1>5, <3>2
        <4> HIDE DEF e
        <4>3. Count("Request", Append(toServer[c], e)) = Count("Request", toServer[c])
          BY <2>1, <4>1, CountOther
        <4> QED
          BY <4>2, <4>3
      <3> QED
        BY <1>3, <3>1, <3>2
    <2>5. /\ Count("Answer", toClient'[c]) \in Nat /\ Count("Request", toServer[c]) \in Nat
          /\ Count("Answer", queue[c]) \in Nat /\ answered[c] \in Nat
      <3>1. Count("Answer", Tail(toClient[c])) \in Nat
        BY <2>1, CountIs
      <3> QED
        BY <1>1, <2>1, <3>1, CountIs
    <2>6. asked[c] = Count("Request", toServer[c]) + Count("Answer", queue[c])
                         + Count("Answer", toClient[c]) + answered[c]
      BY DEF Due, DueOf
    <2>7. asked'[c] = asked[c] /\ Count("Answer", queue'[c]) = Count("Answer", queue[c])
      BY <1>1
    <2>8. asked'[c] = Count("Request", toServer'[c]) + Count("Answer", queue'[c])
                          + Count("Answer", toClient'[c]) + answered'[c]
      <3>1. CASE m.type = "Answer"
        BY <2>2, <2>3, <2>4, <2>5, <2>6, <2>7, <3>1
      <3>2. CASE m.type # "Answer"
        BY <2>2, <2>3, <2>4, <2>5, <2>6, <2>7, <3>2
      <3> QED
        BY <3>1, <3>2
    <2> QED
      BY <2>8 DEF Due, DueOf
  <1> QED
    BY <1>4, <1>5

\* What is asked is on its way, unless the server's reader is gone.
LEMMA ClientActsOwes ==
    ASSUME ConnInv, TalkInv, NEW d \in Conn, ClientAsks(d) \/ ClientLeaves(d),
           NEW c \in Conn, client'[c] # "gone", reader[c] # "ended", Due(c)
    PROVE  Due(c)'
  <1>1. /\ toServer \in [Conn -> Seq(Message)] /\ toClient \in [Conn -> Seq(Message)]
        /\ answered \in [Conn -> Nat] /\ asked \in [Conn -> Nat]
        /\ queue \in [Conn -> Seq(Queued)] /\ client \in [Conn -> ClientStage]
        /\ queue' = queue /\ answered' = answered
    BY DEF ClientAsks, ClientLeaves, serverVars, ConnInv, Typed, TalkInv, WireTyped
  <1>2. CASE ClientLeaves(d)
    <2>1. c # d
      BY <1>1, <1>2 DEF ClientLeaves
    <2>2. asked' = asked /\ toServer' = toServer /\ toClient'[c] = toClient[c]
      BY <1>1, <1>2, <2>1 DEF ClientLeaves
    <2> QED
      BY <1>1, <2>2, DueSame
  <1>3. CASE ClientAsks(d) /\ c # d
    <2>1. /\ asked'[c] = asked[c] /\ toServer'[c] = toServer[c] /\ toClient' = toClient
      BY <1>1, <1>3 DEF ClientAsks
    <2> QED
      BY <1>1, <2>1 DEF Due
  <1>4. CASE ClientAsks(d) /\ c = d
    <2>1. /\ asked'[c] = asked[c] + 1 /\ toClient' = toClient
          /\ toServer'[c] = Append(toServer[c], Plain("Request"))
      BY <1>1, <1>4 DEF ClientAsks
    <2>2. Count("Request", Append(toServer[c], Plain("Request")))
              = Count("Request", toServer[c]) + 1
      <3>1. Plain("Request") \in Message /\ Plain("Request").type = "Request"
        BY OtherTypes DEF Message
      <3>2. toServer[c] \in Seq(Message)
        BY <1>1
      <3> QED
        BY <3>1, <3>2, CountAppend
    <2>3. /\ Count("Answer", toClient[c]) \in Nat /\ Count("Request", toServer[c]) \in Nat
          /\ Count("Answer", queue[c]) \in Nat /\ answered[c] \in Nat
      <3>1. toServer[c] \in Seq(Message) /\ toClient[c] \in Seq(Message)
            /\ queue[c] \in Seq(Queued)
        BY <1>1
      <3> QED
        BY <1>1, <3>1, CountIs
    <2>4. asked[c] = Count("Request", toServer[c]) + Count("Answer", queue[c])
                         + Count("Answer", toClient[c]) + answered[c]
      BY DEF Due, DueOf
    <2>5. Count("Request", toServer'[c]) = Count("Request", toServer[c]) + 1
      BY <2>1, <2>2
    <2>6. asked'[c] = Count("Request", toServer'[c]) + Count("Answer", queue'[c])
                          + Count("Answer", toClient'[c]) + answered'[c]
      BY <1>1, <2>1, <2>3, <2>4, <2>5
    <2> QED
      BY <2>6 DEF Due, DueOf
  <1> QED
    BY <1>2, <1>3, <1>4

\* Neither a client nor a reader that has gone comes back, and keys stay.
LEMMA GoneStay ==
    ASSUME ConnInv, TalkInv, [Next]_vars, NEW c \in Conn,
           client'[c] # "gone", reader'[c] # "ended"
    PROVE  client[c] # "gone" /\ reader[c] # "ended" /\ keyOf' = keyOf
  <1>1. ASSUME NEW d \in Conn, HandlerStep(d)
        PROVE  /\ client' = client /\ keyOf' = keyOf
               /\ \/ reader' = reader
                  \/ reader[d] = "none" /\ reader' = [reader EXCEPT ![d] = "running"]
    BY <1>1 DEF HandlerStep, SendChallenge, Reply, HandlerSends, RecvIdentity, Register,
       Cleanup, DropTx, Finish, clientVars, ConnInv, StageInv
  <1>2. ASSUME NEW d \in Conn, OnRequest(d) \/ ReaderEnds(d)
        PROVE  /\ client' = client /\ keyOf' = keyOf
               /\ reader' = reader \/ reader' = [reader EXCEPT ![d] = "ended"]
    BY <1>2 DEF OnRequest, ReaderEnds, clientVars
  <1>3. ASSUME \/ \E d \in Conn : WriterStep(d) \/ SendBlock(d)
               \/ Snapshot \/ UNCHANGED vars
        PROVE  UNCHANGED <<client, keyOf, reader>>
    BY <1>3 DEF WriterStep, WriterWrites, WriterEnds, SendBlock, Snapshot, serverVars,
       clientVars, vars
  <1>4. ASSUME NEW d \in Conn, ClientReceives(d)
        PROVE  /\ UNCHANGED <<keyOf, reader>> /\ client[d] # "gone"
               /\ \/ client' = client
                  \/ \E x : client' = [client EXCEPT ![d] = x]
    BY <1>4 DEF ClientReceives, serverVars
  <1>5. ASSUME NEW d \in Conn, ClientAsks(d) \/ ClientLeaves(d)
        PROVE  /\ UNCHANGED <<keyOf, reader>>
               /\ client' = client \/ client' = [client EXCEPT ![d] = "gone"]
    BY <1>5 DEF ClientAsks, ClientLeaves, serverVars
  <1>6. client \in [Conn -> ClientStage] /\ reader \in [Conn -> TaskStage]
    BY DEF ConnInv, Typed
  <1>7. CASE \E d \in Conn : HandlerStep(d)
    BY <1>1, <1>6, <1>7
  <1>8. CASE \E d \in Conn : OnRequest(d) \/ ReaderEnds(d)
    BY <1>2, <1>6, <1>8
  <1>9. CASE \E d \in Conn : ClientReceives(d)
    BY <1>4, <1>6, <1>9
  <1>10. CASE \E d \in Conn : ClientAsks(d) \/ ClientLeaves(d)
    BY <1>5, <1>6, <1>10
  <1>11. CASE \/ \E d \in Conn : WriterStep(d) \/ SendBlock(d)
              \/ Snapshot \/ UNCHANGED vars
    BY <1>3, <1>11
  <1> QED
    BY <1>7, <1>8, <1>9, <1>10, <1>11 DEF Next, Settled

\* Every step keeps the balance of every connection it is about.
LEMMA KeptStep == ConnInv /\ TalkInv /\ KeptInv /\ [Next]_vars => KeptInv'
  <1> SUFFICES ASSUME ConnInv, TalkInv, KeptInv, [Next]_vars PROVE KeptInv'
    OBVIOUS
  <1>1. EntryInv /\ EntryInv'
    BY EntryStep DEF KeptInv
  <1>2. ASSUME NEW c \in Conn, OwnKey(c)', client'[c] # "gone", reader'[c] # "ended"
        PROVE  Due(c)'
    <2>1. client[c] # "gone" /\ reader[c] # "ended" /\ keyOf' = keyOf
      BY <1>2, GoneStay
    <2>2. OwnKey(c) /\ Due(c)
      BY <1>2, <2>1 DEF OwnKey, KeptInv, RequestsAreKept, Due, DueOf
    <2>3. ASSUME NEW d \in Conn, HandlerStep(d) PROVE Due(c)'
      BY <2>1, <2>2, <2>3, HandshakeOwes, ServingOwes DEF HandlerStep
    <2>4. ASSUME NEW d \in Conn, OnRequest(d) \/ ReaderEnds(d) PROVE Due(c)'
      BY <1>1, <1>2, <2>1, <2>2, <2>4, ReaderOwes
    <2>5. ASSUME NEW d \in Conn, WriterStep(d) PROVE Due(c)'
      BY <2>1, <2>2, <2>5, WriterOwes
    <2>6. CASE Snapshot \/ \E d \in Conn : SendBlock(d)
      BY <2>2, <2>6, ServingOwes
    <2>7. ASSUME NEW d \in Conn, ClientReceives(d) PROVE Due(c)'
      BY <2>2, <2>7, ClientReceivesOwes
    <2>8. ASSUME NEW d \in Conn, ClientAsks(d) \/ ClientLeaves(d) PROVE Due(c)'
      BY <1>2, <2>1, <2>2, <2>8, ClientActsOwes
    <2>9. CASE UNCHANGED vars
      BY <2>2, <2>9 DEF Due, vars, serverVars, clientVars
    <2> QED
      BY <2>3, <2>4, <2>5, <2>6, <2>7, <2>8, <2>9 DEF Next, Settled
  <1> QED
    BY <1>1, <1>2 DEF KeptInv, RequestsAreKept, Due, DueOf

(***************************************************************************)
(* While both ends stay, no request of a client with an id of its own is   *)
(* lost and none is answered twice: what RequestsAreAnswered rests on,     *)
(* without any fairness.                                                   *)
(***************************************************************************)
THEOREM RequestsKept == Spec => []RequestsAreKept
  <1>1. KeptInv => RequestsAreKept
    BY DEF KeptInv
  <1>2. Spec => []KeptInv
    BY ConnCorrect, TalkCorrect, KeptInit, KeptStep, PTL DEF Spec
  <1> QED
    BY <1>1, <1>2, PTL

=============================================================================
