------------------------------- MODULE Network -------------------------------
(***************************************************************************)
(* The listening node together with the clients of src/net/client.rs: the  *)
(* process at the other end of connection c follows the stream chan[c].    *)
(*                                                                         *)
(* The stream is delivered in order and at any pace.  What the client      *)
(* types reaches the server as OnTxSubmit and OnApp of Server, at any      *)
(* time.  A client that leaves its loop just stops taking steps.  All      *)
(* nodes read the same clock.                                              *)
(***************************************************************************)
EXTENDS ServerProps

VARIABLES
    cpool,      \* mempool of the client on each connection
    ctip,       \* tip_height
    cfinal,     \* finalized_height
    cread       \* how many messages of its stream it has handled

clientVars == <<cpool, ctip, cfinal, cread>>
netVars == <<vars, clientVars>>

NetInit ==
    /\ Init
    /\ cpool = [c \in Conn |-> EmptyStore]
    /\ ctip = [c \in Conn |-> 0]
    /\ cfinal = [c \in Conn |-> 0]
    /\ cread = [c \in Conn |-> 0]

-----------------------------------------------------------------------------
\* recv on connection c has returned m, the next message of the stream.
Receive(c, m) ==
    /\ cread[c] < Len(chan[c])
    /\ m = chan[c][cread[c] + 1]
    /\ cread' = [cread EXCEPT ![c] = @ + 1]
    /\ UNCHANGED vars

(***************************************************************************)
(* Msg::TxAnnounce: insert_if_new on the client's own mempool, whatever    *)
(* its outcome.                                                            *)
(***************************************************************************)
ClientOnTxAnnounce(c) ==
    \E t \in Tx :
        /\ Receive(c, TxAnnounce(t))
        /\ \/ /\ Refuses(cpool[c], t, now) \/ Knows(cpool[c], t, now)
              /\ UNCHANGED cpool
           \/ /\ Admits(cpool[c], t, now)
              /\ \E out \in Evictable(cpool[c]) :
                     cpool' = [cpool EXCEPT ![c] = Insert(@, t, out)]
        /\ UNCHANGED <<ctip, cfinal>>

\* A client that takes the boundary of an epoch from the height of the block.
OnNewBlockByHeight(c, b) ==
    /\ cpool' = [cpool EXCEPT ![c].byId = @ \ b.txs]
    /\ ctip' = [ctip EXCEPT ![c] = b.height]
    /\ cfinal' = [cfinal EXCEPT ![c] = FinalityAfter(@, b.height)]

\* A client that leaves included transactions in its mempool.
OnNewBlockKeeping(c, b) ==
    /\ ctip' = [ctip EXCEPT ![c] = b.height]
    /\ cfinal' = [cfinal EXCEPT ![c] = FinalityAfter(@, b.slot)]
    /\ UNCHANGED cpool

\* A client that takes only the block after its tip, which it may have joined
\* too late to have.
OnNewBlockInSequence(c, b) ==
    IF b.height = ctip[c] + 1
    THEN /\ cpool' = [cpool EXCEPT ![c].byId = @ \ b.txs]
         /\ ctip' = [ctip EXCEPT ![c] = b.height]
         /\ cfinal' = [cfinal EXCEPT ![c] = FinalityAfter(@, b.slot)]
    ELSE UNCHANGED <<cpool, ctip, cfinal>>

(***************************************************************************)
(* on_new_block: prune, tip, finality.  The header hash and the proposer's *)
(* signature verify, the blocks being those of the server it shook hands   *)
(* with.                                                                   *)
(***************************************************************************)
OnNewBlock(c, b) ==
    /\ cpool' = [cpool EXCEPT ![c].byId = @ \ b.txs]
    /\ ctip' = [ctip EXCEPT ![c] = b.height]
    /\ cfinal' = [cfinal EXCEPT ![c] = FinalityAfter(@, b.slot)]

ClientOnNewBlock(c) ==
    /\ cread[c] < Len(chan[c])
    /\ LET m == chan[c][cread[c] + 1]
       IN  /\ IsType(m, "NewBlock")
           /\ Receive(c, m)
           /\ OnNewBlock(c, m.block)

\* Msg::Ack, Msg::Peers, Msg::TxAck: printed.
ClientOnOther(c) ==
    /\ cread[c] < Len(chan[c])
    /\ LET m == chan[c][cread[c] + 1]
       IN  /\ m.type \in {"Ack", "Peers", "TxAck"}
           /\ Receive(c, m)
           /\ UNCHANGED <<cpool, ctip, cfinal>>

ClientStep(c) == ClientOnTxAnnounce(c) \/ ClientOnNewBlock(c) \/ ClientOnOther(c)

NetNext ==
    \/ Next /\ UNCHANGED clientVars
    \/ \E c \in Conn : ClientOnTxAnnounce(c)
    \/ \E c \in Conn : ClientOnNewBlock(c)
    \/ \E c \in Conn : ClientOnOther(c)

NetSpec == NetInit /\ [][NetNext]_netVars

(***************************************************************************)
(* Besides the server's fairness: a client goes on handling what has been  *)
(* sent to it (its loop is polled and the connection delivers).            *)
(***************************************************************************)
FairNetSpec ==
    /\ NetSpec
    /\ WF_netVars(Producer /\ UNCHANGED clientVars)
    /\ WF_netVars(Tick /\ UNCHANGED clientVars)
    /\ \A c \in Conn : WF_netVars(ClientStep(c))

-----------------------------------------------------------------------------
\* The heights up to h of the blocks in s whose slot opens an epoch.
Boundaries(s, h) == {i \in 1 .. h : SlotInEpoch(s[i].slot) = 0}

\* finalized_height as the server had it after block h of the chain s: what the
\* newest of them finalized.
FinalityAt(s, h) ==
    LET newest == CHOOSE i \in Boundaries(s, h) : \A j \in Boundaries(s, h) : j <= i
    IN  IF Boundaries(s, h) = {} THEN 0 ELSE FinalizedAt(EpochOfSlot(s[newest].slot))

(***************************************************************************)
(* A client agrees with the server on finality: at tip h its finalized     *)
(* height is the one the server had after block h, or 0 when no boundary   *)
(* block has reached it since it joined; never ahead of the server's.      *)
(***************************************************************************)
ClientAgreesOnFinality ==
    \A c \in Conn :
        /\ ctip[c] <= tipHeight
        /\ cfinal[c] \in {0, FinalityAt(chain, ctip[c])}
        /\ cfinal[c] <= finalized

\* A block with t that the client on c has not handled yet.
BlockUnread(c, t) ==
    \E j \in DOMAIN chan[c] :
        /\ j > cread[c]
        /\ IsType(chan[c][j], "NewBlock")
        /\ t \in chan[c][j].block.txs

(***************************************************************************)
(* What a registered client holds in its mempool is pending at the server, *)
(* was evicted there, or is in a block on its way to the client: once it   *)
(* has caught up, a client keeps no included transaction, although         *)
(* announcements and blocks come from different tasks of the server.       *)
(***************************************************************************)
ClientPoolIsPending ==
    \A c \in Registered : \A t \in cpool[c].byId :
        \/ t \in pool.byId
        \/ t \in evicted
        \/ t \in draft.txs /\ BlockStillDue(c)
        \/ BlockUnread(c, t)

(***************************************************************************)
(* A block whose broadcast is to reach c gets to the client on c, while    *)
(* the connection lasts.                                                   *)
(***************************************************************************)
BroadcastArrives ==
    \A c \in Conn : \A h \in 1 .. MaxTime :
        (ppc = "broadcast" /\ c \in targets /\ draft.height = h)
            ~> (ctip[c] >= h \/ conn[c] # "open")

(***************************************************************************)
(* A client's mempool is emptied by the blocks that include what was       *)
(* announced to it, or the transaction was evicted at the server.          *)
(***************************************************************************)
ClientPoolDrains ==
    \A c \in Conn : \A t \in Tx :
        t \in cpool[c].byId
            ~> (t \notin cpool[c].byId \/ t \in evicted \/ conn[c] # "open")

=============================================================================
