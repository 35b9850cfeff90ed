-------------------------------- MODULE Http ---------------------------------
(***************************************************************************)
(* What the readers of the HTTP API answer, each under one read guard of   *)
(* the State: the answers that a caller would get in the current state.    *)
(* An answer of 404 is a record with found |-> FALSE.                      *)
(***************************************************************************)
EXTENDS Server

NotFound == [found |-> FALSE]

-----------------------------------------------------------------------------
\* GET /api/mempool: the entries, in the map's arbitrary order.
GetMempool == pool.byId

BlockListEntry(b) ==
    [height |-> b.height, hash |-> HeaderHash(b), slot |-> b.slot,
     epoch |-> b.epoch, txs |-> Cardinality(b.txs)]

\* GET /api/blocks: the buffer, newest first.
GetBlocks ==
    [i \in DOMAIN blocks |-> BlockListEntry(blocks[Len(blocks) + 1 - i])]

\* GET /api/blocks/height/:height: the first of that height.
GetBlockByHeight(h) ==
    LET at == {i \in DOMAIN blocks : blocks[i].height = h}
    IN  IF at = {} THEN NotFound
        ELSE [found |-> TRUE,
              block |-> blocks[CHOOSE i \in at : \A j \in at : i <= j]]

-----------------------------------------------------------------------------
Holding(t) == {i \in DOMAIN blocks : t \in blocks[i].txs}

InBlock(t) == Holding(t) # {}

\* The search runs from the newest block back.
NewestHolding(t) == blocks[CHOOSE i \in Holding(t) : \A j \in Holding(t) : j <= i]

BlockRef(b) ==
    [height |-> b.height, hash |-> HeaderHash(b), slot |-> b.slot,
     epoch |-> b.epoch, finalized |-> b.height <= finalized]

\* GET /api/tx/:id: the mempool first, then the recent blocks.
GetTxById(t) ==
    IF t \in pool.byId THEN [location |-> "mempool"]
    ELSE IF InBlock(t)
         THEN [location |-> "block", block |-> BlockRef(NewestHolding(t))]
         ELSE [location |-> "none"]

\* GET /api/receipt/:id: found whenever a recent block holds t, all receipts
\* being of success.
GetReceiptById(t) ==
    IF InBlock(t) THEN [found |-> TRUE, status |-> TRUE] ELSE NotFound

-----------------------------------------------------------------------------
\* The hint of post_tx and get_debug: milliseconds from now to the next slot
\* of a clock made for the request.
TimeToNextSlot == SaturatingSub(NextSlotStart(AlignedGenesis(now), now), now) * 1000

\* GET /api/debug.  Its slot and epoch are those of the clock made for the
\* request, not of the producer's.
GetDebug ==
    LET slot == SlotOf(AlignedGenesis(now), now)
    IN  [tipHeight |-> tipHeight, finalizedHeight |-> finalized,
         mempoolSize |-> Cardinality(pool.byId), slot |-> slot,
         epoch |-> EpochOfSlot(slot), nextSlotInMs |-> TimeToNextSlot]

=============================================================================
