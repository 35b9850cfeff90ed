------------------------------ MODULE Connection ------------------------------
(***************************************************************************)
(* The life of connections at both ends: the handshake of run_client and   *)
(* handle_server_conn, then the reader and writer tasks and the unbounded  *)
(* channel between the server's State and the writer.  A channel is closed *)
(* when its last sender is dropped: the handler's own `tx`, the one in the *)
(* peers map, and the clones in the block producer's hands.                *)
(*                                                                         *)
(* Both ends follow the protocol; either may go away at any point.  The    *)
(* challenge of connection c is c: 32 random bytes, no two alike.          *)
(***************************************************************************)
EXTENDS Naturals, Sequences, FiniteSets

CONSTANTS
    Conn,           \* connections
    Key,            \* key pairs
    KeyChoices,     \* the ways the clients may come by their key pairs
    ServerKey,      \* the server's key pair
    NoConn,         \* the absent entry of the peers map
    Askers,         \* bound: the connections whose clients make requests
    MaxAsked,       \* bound: requests of one client
    MaxBlocks       \* bound: broadcasts

ASSUME ConnectionAssumption ==
    /\ KeyChoices \subseteq [Conn -> Key]
    /\ ServerKey \in Key
    /\ NoConn \notin Conn
    /\ Askers \subseteq Conn
    /\ MaxAsked \in Nat
    /\ MaxBlocks \in Nat

VARIABLES
    handler,    \* where handle_server_conn is
    client,     \* where run_client is
    keyOf,      \* the client's key pair on each connection
    reader,     \* the server's reader task
    writer,     \* the server's writer task
    toServer,   \* bytes on their way to the server, as messages
    toClient,   \* bytes on their way to the client, as messages
    queue,      \* the channel
    txHeld,     \* the handler still holds `tx`
    peers,      \* the peers map: the connection whose sender each id has
    held,       \* the channels the producer holds a clone of the sender of
    broadcasts, \* bound: broadcasts begun
    asked,      \* requests a client has sent
    answered    \* answers a client has read

serverVars == <<handler, reader, writer, queue, txHeld, peers>>
producerVars == <<held, broadcasts>>
clientVars == <<client, keyOf, asked, answered>>
vars == <<serverVars, producerVars, clientVars, toServer, toClient>>

-----------------------------------------------------------------------------
NodeId(k) == <<"sha256", k>>
Identity(k, nonce) == [type |-> "Identity", id |-> NodeId(k), key |-> k, sig |-> <<k, nonce>>]
Plain(type) == [type |-> type]

VerifyIdentity(nonce, m) == m.id = NodeId(m.key) /\ m.sig = <<m.key, nonce>>

Registered == {peers[k] : k \in Key} \ {NoConn}
ChannelClosed(c) == ~txHeld[c] /\ c \notin Registered /\ c \notin held

\* queue after m is sent to the channels of S; a send to a channel whose
\* receiver is gone is lost.
Put(S, m) ==
    [c \in Conn |-> IF c \in S /\ writer[c] # "ended" THEN Append(queue[c], m) ELSE queue[c]]

\* toClient after the bytes of S are written to c; nobody will read what is
\* written to a client that is gone.
Written(c, S) ==
    IF client[c] = "gone" THEN toClient ELSE [toClient EXCEPT ![c] = @ \o S]

\* Every connection is accepted; nothing has been said.
ServerInit ==
    /\ handler = [c \in Conn |-> "challenge"]
    /\ reader = [c \in Conn |-> "none"]
    /\ writer = [c \in Conn |-> "none"]
    /\ toServer = [c \in Conn |-> <<>>]
    /\ toClient = [c \in Conn |-> <<>>]
    /\ queue = [c \in Conn |-> <<>>]
    /\ txHeld = [c \in Conn |-> FALSE]
    /\ peers = [k \in Key |-> NoConn]
    /\ held = {}
    /\ broadcasts = 0

\* Every client has its keys and its socket.
ClientInit ==
    /\ client = [c \in Conn |-> "challenge"]
    /\ keyOf \in KeyChoices
    /\ asked = [c \in Conn |-> 0]
    /\ answered = [c \in Conn |-> 0]

Init == ServerInit /\ ClientInit

-----------------------------------------------------------------------------
\* The handler moves on; the handshake sends S to the client, or fails when
\* the client is gone.
HandlerSends(c, from, to, S) ==
    /\ handler[c] = from
    /\ \/ handler' = [handler EXCEPT ![c] = to]
       \/ client[c] = "gone" /\ handler' = [handler EXCEPT ![c] = "done"]
    /\ toClient' = Written(c, S)
    /\ UNCHANGED <<reader, writer, queue, txHeld, peers, producerVars, clientVars, toServer>>

\* An accept loop that runs each handshake before it accepts the next client.
SendChallengeInTurn(c) ==
    /\ \A d \in Conn : handler[d] # "identity"
    /\ HandlerSends(c, "challenge", "identity", <<[type |-> "Challenge", nonce |-> c]>>)

SendChallenge(c) ==
    HandlerSends(c, "challenge", "identity", <<[type |-> "Challenge", nonce |-> c]>>)

RecvIdentity(c) ==
    /\ handler[c] = "identity"
    /\ \/ /\ toServer[c] # <<>>
          /\ toServer' = [toServer EXCEPT ![c] = Tail(@)]
          /\ LET m == Head(toServer[c])
                 ok == m.type = "Identity" /\ VerifyIdentity(c, m)
             IN  handler' = [handler EXCEPT ![c] = IF ok THEN "reply" ELSE "done"]
       \/ /\ toServer[c] = <<>>
          /\ client[c] = "gone"
          /\ handler' = [handler EXCEPT ![c] = "done"]
          /\ UNCHANGED toServer
    /\ UNCHANGED <<reader, writer, queue, txHeld, peers, producerVars, clientVars, toClient>>

Reply(c) ==
    HandlerSends(c, "reply", "register", <<Identity(ServerKey, c), Plain("Welcome")>>)

\* The entry goes into the map and the tasks start.
Register(c) ==
    /\ handler[c] = "register"
    /\ handler' = [handler EXCEPT ![c] = "serve"]
    /\ peers' = [peers EXCEPT ![keyOf[c]] = c]
    /\ txHeld' = [txHeld EXCEPT ![c] = TRUE]
    /\ queue' = Put({c}, Plain("Peers"))
    /\ reader' = [reader EXCEPT ![c] = "running"]
    /\ writer' = [writer EXCEPT ![c] = "running"]
    /\ UNCHANGED <<producerVars, clientVars, toServer, toClient>>

\* A handler that answers everyone but who asked.
OnRequestOthers(c) ==
    /\ reader[c] = "running"
    /\ toServer[c] # <<>>
    /\ toServer' = [toServer EXCEPT ![c] = Tail(@)]
    /\ queue' = Put(Registered \ {peers[keyOf[c]]}, Plain("Answer"))
    /\ UNCHANGED <<handler, reader, writer, txHeld, peers, producerVars, clientVars, toClient>>

\* The reader answers a request through the entry of the peer's id.
OnRequest(c) ==
    /\ reader[c] = "running"
    /\ toServer[c] # <<>>
    /\ toServer' = [toServer EXCEPT ![c] = Tail(@)]
    /\ queue' = Put(Registered \cap {peers[keyOf[c]]}, Plain("Answer"))
    /\ UNCHANGED <<handler, reader, writer, txHeld, peers, producerVars, clientVars, toClient>>

\* End of stream, a connection reset under the server, a bad line or a panic.
ReaderEnds(c) ==
    /\ reader[c] = "running"
    /\ reader' = [reader EXCEPT ![c] = "ended"]
    /\ toServer' = [toServer EXCEPT ![c] = <<>>]
    /\ UNCHANGED <<handler, writer, queue, txHeld, peers, producerVars, clientVars, toClient>>

\* A cleanup that leaves the entry where it is.
CleanupLeavingEntry(c) ==
    /\ handler[c] = "serve"
    /\ reader[c] = "ended"
    /\ handler' = [handler EXCEPT ![c] = "drop"]
    /\ UNCHANGED <<reader, writer, queue, txHeld, peers, producerVars, clientVars,
                   toServer, toClient>>

Cleanup(c) ==
    /\ handler[c] = "serve"
    /\ reader[c] = "ended"
    /\ handler' = [handler EXCEPT ![c] = "drop"]
    /\ peers' = [peers EXCEPT ![keyOf[c]] = NoConn]
    /\ UNCHANGED <<reader, writer, queue, txHeld, producerVars, clientVars,
                   toServer, toClient>>

\* A handler that waits for the writer before it drops `tx`.
DropTxLater(c) ==
    /\ handler[c] = "drop"
    /\ handler' = [handler EXCEPT ![c] = "await"]
    /\ UNCHANGED <<reader, writer, queue, txHeld, peers, producerVars, clientVars,
                   toServer, toClient>>

DropTx(c) ==
    /\ handler[c] = "drop"
    /\ handler' = [handler EXCEPT ![c] = "await"]
    /\ txHeld' = [txHeld EXCEPT ![c] = FALSE]
    /\ UNCHANGED <<reader, writer, queue, peers, producerVars, clientVars, toServer, toClient>>

Finish(c) ==
    /\ handler[c] = "await"
    /\ writer[c] = "ended"
    /\ handler' = [handler EXCEPT ![c] = "done"]
    /\ UNCHANGED <<reader, writer, queue, txHeld, peers, producerVars, clientVars,
                   toServer, toClient>>

-----------------------------------------------------------------------------
\* The writer puts the next message on the wire, or stops at an error.
WriterWrites(c) ==
    /\ writer[c] = "running"
    /\ queue[c] # <<>>
    /\ \/ /\ queue' = [queue EXCEPT ![c] = Tail(@)]
          /\ toClient' = Written(c, <<Head(queue[c])>>)
          /\ UNCHANGED writer
       \/ /\ client[c] = "gone"
          /\ writer' = [writer EXCEPT ![c] = "ended"]
          /\ queue' = [queue EXCEPT ![c] = <<>>]
          /\ UNCHANGED toClient
    /\ UNCHANGED <<handler, reader, txHeld, peers, producerVars, clientVars, toServer>>

\* A writer that is stopped with the handler, whatever its channel holds.
WriterEndsEarly(c) ==
    /\ writer[c] = "running"
    /\ handler[c] = "await"
    /\ writer' = [writer EXCEPT ![c] = "ended"]
    /\ UNCHANGED <<handler, reader, queue, txHeld, peers, producerVars, clientVars,
                   toServer, toClient>>

\* rx.recv() returns None: the channel is empty and closed.
WriterEnds(c) ==
    /\ writer[c] = "running"
    /\ queue[c] = <<>>
    /\ ChannelClosed(c)
    /\ writer' = [writer EXCEPT ![c] = "ended"]
    /\ UNCHANGED <<handler, reader, queue, txHeld, peers, producerVars, clientVars,
                   toServer, toClient>>

\* The producer takes a clone of every sender, and uses them one by one.  A
\* block for nobody is left out.
Snapshot ==
    /\ held = {}
    /\ Registered # {}
    /\ broadcasts < MaxBlocks
    /\ broadcasts' = broadcasts + 1
    /\ held' = Registered
    /\ UNCHANGED <<serverVars, clientVars, toServer, toClient>>

\* A channel with room for one message, whose sender waits.
SendBlockBounded(c) ==
    /\ c \in held
    /\ queue[c] = <<>>
    /\ held' = held \ {c}
    /\ queue' = Put({c}, Plain("NewBlock"))
    /\ UNCHANGED <<handler, reader, writer, txHeld, peers, broadcasts, clientVars,
                   toServer, toClient>>

SendBlock(c) ==
    /\ c \in held
    /\ held' = held \ {c}
    /\ queue' = Put({c}, Plain("NewBlock"))
    /\ UNCHANGED <<handler, reader, writer, txHeld, peers, broadcasts, clientVars,
                   toServer, toClient>>

-----------------------------------------------------------------------------
(***************************************************************************)
(* The client.  Where a Welcome is due, any message passes for it.         *)
(***************************************************************************)
ClientReceives(c) ==
    /\ client[c] # "gone"
    /\ toClient[c] # <<>>
    /\ toClient' = [toClient EXCEPT ![c] = Tail(@)]
    /\ LET m == Head(toClient[c])
           is(type) == m.type = type
       IN  \/ /\ client[c] = "challenge"
              /\ IF is("Challenge")
                 THEN /\ client' = [client EXCEPT ![c] = "identity"]
                      /\ toServer' = [toServer EXCEPT ![c] =
                                          Append(@, Identity(keyOf[c], m.nonce))]
                 ELSE client' = [client EXCEPT ![c] = "gone"] /\ UNCHANGED toServer
              /\ UNCHANGED answered
           \/ /\ client[c] = "identity"
              /\ client' = [client EXCEPT ![c] =
                     IF is("Identity") /\ VerifyIdentity(c, m) THEN "welcome" ELSE "gone"]
              /\ UNCHANGED <<toServer, answered>>
           \/ /\ client[c] = "welcome"
              /\ client' = [client EXCEPT ![c] = "run"]
              /\ UNCHANGED <<toServer, answered>>
           \/ /\ client[c] = "run"
              /\ answered' = [answered EXCEPT ![c] = IF is("Answer") THEN @ + 1 ELSE @]
              /\ UNCHANGED <<client, toServer>>
    /\ UNCHANGED <<serverVars, producerVars, keyOf, asked>>

\* A line typed at the client: /tx or plain text.
ClientAsks(c) ==
    /\ client[c] = "run"
    /\ c \in Askers
    /\ asked[c] < MaxAsked
    /\ asked' = [asked EXCEPT ![c] = @ + 1]
    /\ toServer' = IF reader[c] = "ended" THEN toServer
                   ELSE [toServer EXCEPT ![c] = Append(@, Plain("Request"))]
    /\ UNCHANGED <<serverVars, producerVars, client, keyOf, answered, toClient>>

\* The client returns or dies; also the only end of a stream that has ended.
ClientLeaves(c) ==
    /\ client[c] # "gone"
    /\ client' = [client EXCEPT ![c] = "gone"]
    /\ toClient' = [toClient EXCEPT ![c] = <<>>]
    /\ UNCHANGED <<serverVars, producerVars, keyOf, asked, answered, toServer>>

\* Nobody is left to act but the handlers, whose end HandlerFinishes is about.
Settled ==
    /\ \A c \in Conn : client[c] = "gone"
    /\ UNCHANGED vars

HandlerStep(c) ==
    \/ SendChallenge(c) \/ RecvIdentity(c) \/ Reply(c) \/ Register(c)
    \/ Cleanup(c) \/ DropTx(c) \/ Finish(c)

WriterStep(c) == WriterWrites(c) \/ WriterEnds(c)

Next ==
    \/ \E c \in Conn : HandlerStep(c)
    \/ \E c \in Conn : OnRequest(c)
    \/ \E c \in Conn : ReaderEnds(c)
    \/ \E c \in Conn : WriterStep(c)
    \/ Snapshot
    \/ \E c \in Conn : SendBlock(c)
    \/ \E c \in Conn : ClientReceives(c)
    \/ \E c \in Conn : ClientAsks(c)
    \/ \E c \in Conn : ClientLeaves(c)
    \/ Settled

Spec == Init /\ [][Next]_vars

(***************************************************************************)
(* The server's tasks are polled.  Nobody has to type, leave, fail, speak  *)
(* or read: what a property needs of a client is in its own antecedent.    *)
(***************************************************************************)
FairSpec ==
    /\ Spec
    /\ \A c \in Conn :
           /\ WF_vars(HandlerStep(c))
           /\ WF_vars(OnRequest(c))
           /\ WF_vars(WriterEnds(c))
           /\ WF_vars(SendBlock(c))

\* The client on c speaks when it should, and reads what the server writes.
Attentive(c) == WF_vars(ClientReceives(c)) /\ WF_vars(WriterStep(c))

-----------------------------------------------------------------------------
(***************************************************************************)
(* A handler that has returned has let go of everything: its tasks are     *)
(* over and neither it nor the peers map holds a sender of its channel,    *)
(* also when another connection proved the same id meanwhile.              *)
(***************************************************************************)
DoneIsReleased ==
    \A c \in Conn : handler[c] = "done" =>
        /\ reader[c] # "running" /\ writer[c] # "running"
        /\ ~txHeld[c] /\ c \notin Registered

(***************************************************************************)
(* Nothing is lost when the server closes first: unless the client has     *)
(* gone, a writer ends only when all that was sent has been written and    *)
(* nobody is left who could send more.                                     *)
(***************************************************************************)
CleanClose ==
    \A c \in Conn : writer[c] = "ended" /\ client[c] # "gone" =>
        queue[c] = <<>> /\ ChannelClosed(c)

(***************************************************************************)
(* A handshake with an attentive client that nobody breaks off ends with   *)
(* the client in its loop and the server serving it: the two ends never    *)
(* wait for each other, nor for a client that says nothing, whose handler  *)
(* stays where it is (no read of the handshake has a time limit).          *)
(***************************************************************************)
HandshakeCompletes ==
    \A c \in Conn :
        Attentive(c) =>
            (TRUE ~> \/ client[c] = "run" /\ handler[c] \in {"serve", "drop", "await", "done"}
                     \/ client[c] = "gone")

(***************************************************************************)
(* The two ends of a handshake never wait for each other: while the client *)
(* is in it, the server has something to do or there is something for the  *)
(* client to read.  The client comes to its loop only when the server has  *)
(* verified its identity, and the server gives up on none that stays.      *)
(***************************************************************************)
HandshakeNeverStuck ==
    \A c \in Conn :
        /\ client[c] \in {"challenge", "identity", "welcome"} =>
               \/ handler[c] \in {"challenge", "reply", "register"}
               \/ handler[c] = "identity" /\ toServer[c] # <<>>
               \/ toClient[c] # <<>>
        /\ client[c] \in {"welcome", "run"} =>
               handler[c] \notin {"challenge", "identity", "reply"}
        /\ handler[c] = "done" /\ writer[c] = "none" => client[c] = "gone"

\* No client that is in a handshake is turned away by what it receives.
NobodyIsRejected ==
    [][\A c \in Conn : ClientReceives(c) => client'[c] # "gone"]_vars

(***************************************************************************)
(* A handler whose reader has ended returns, if its client reads or goes:  *)
(* dropping its sender and the entry closes the channel, which ends the    *)
(* writer it waits for.                                                    *)
(***************************************************************************)
HandlerFinishes ==
    \A c \in Conn : WF_vars(WriterStep(c)) => (reader[c] = "ended" ~> handler[c] = "done")

(***************************************************************************)
(* A handler whose reader has ended never waits in vain: the writer it     *)
(* waits for has ended, or has something to write, or finds its channel    *)
(* closed, at the latest when the producer has let go of its clone.        *)
(***************************************************************************)
HandlerNeverStuck ==
    \A c \in Conn : reader[c] = "ended" =>
        \/ handler[c] \in {"serve", "drop", "done"}
        \/ /\ handler[c] = "await"
           /\ \/ writer[c] = "ended"
              \/ /\ writer[c] = "running"
                 /\ queue[c] # <<>> \/ ChannelClosed(c) \/ c \in held

(***************************************************************************)
(* With an id of its own, every request of an attentive client is answered *)
(* to who asked, also one sent before the server has registered it, as     *)
(* long as neither end goes away, and whether or not others read theirs.   *)
(***************************************************************************)
OwnKey(c) == \A d \in Conn \ {c} : keyOf[d] # keyOf[c]

RequestsAreAnswered ==
    \A c \in Conn : \A n \in 1 .. MaxAsked :
        Attentive(c) =>
            (asked[c] >= n /\ OwnKey(c)
                ~> (answered[c] >= n \/ client[c] = "gone" \/ reader[c] = "ended"))

(***************************************************************************)
(* While both ends stay, no request of a client with an id of its own is   *)
(* lost and none is answered twice: each is still on its way, or its       *)
(* answer is in the channel, on its way back, or read.                     *)
(***************************************************************************)
Count(type, s) == Cardinality({i \in DOMAIN s : s[i].type = type})

RequestsAreKept ==
    \A c \in Conn : OwnKey(c) /\ client[c] # "gone" /\ reader[c] # "ended" =>
        asked[c] = Count("Request", toServer[c]) + Count("Answer", queue[c])
                       + Count("Answer", toClient[c]) + answered[c]

(***************************************************************************)
(* The producer never waits for a peer: it gets rid of every block whether *)
(* or not any peer reads (the price is a channel without a limit).         *)
(***************************************************************************)
BroadcastEnds == held # {} ~> held = {}

=============================================================================
