----------------------------- MODULE ServerLedger -----------------------------
(***************************************************************************)
(* The listening node implements Ledger.                                   *)
(***************************************************************************)
EXTENDS ServerProps

\* Pending is what is in the pool and what the producer has drained from it
\* and not yet committed.
Copies ==
    [t \in Tx |-> (IF t \in pool.byId THEN 1 ELSE 0) + (IF t \in InFlight THEN 1 ELSE 0)]

Blocks == [i \in DOMAIN chain |-> chain[i].txs]

L == INSTANCE Ledger WITH accepted <- pool.seen, pending <- Copies, ledger <- Blocks

(***************************************************************************)
(* Every step of the node, however its tasks interleave, is a step of the  *)
(* ledger or none: what is committed was pending and stops being so once,  *)
(* nothing else leaves but one entry of a full pool at a time, and only a  *)
(* sender's latest transaction is accepted or accepted again.              *)
(***************************************************************************)
ImplementsLedger == L!LedgerSpec

=============================================================================
