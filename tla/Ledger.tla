-------------------------------- MODULE Ledger --------------------------------
(***************************************************************************)
(* What the listening node promises whoever submits a transaction, without *)
(* its tasks, locks, peers and clock.  An accepted transaction is pending; *)
(* it leaves that state in a block, or to make room for another one.       *)
(* post_tx, the reader tasks, drain_block and run_block_producer of        *)
(* src/net/server.rs together implement it.                                *)
(*                                                                         *)
(* A transaction may be pending twice: while it is on its way into a block *)
(* it can be accepted again.                                               *)
(***************************************************************************)
EXTENDS Naturals, Sequences, FiniteSets

CONSTANTS
    Tx,
    From,
    Nonce,
    Capacity,       \* from so many pending transactions on, one may have to go
    MaxTxsPerBlock

VARIABLES
    accepted,   \* every transaction ever accepted
    pending,    \* pending[t]: how many times t is pending
    ledger      \* the transactions of the blocks

ledgerVars == <<accepted, pending, ledger>>

Support(p) == {t \in Tx : p[t] > 0}

LedgerInit ==
    /\ accepted = {}
    /\ pending = [t \in Tx |-> 0]
    /\ ledger = <<>>

-----------------------------------------------------------------------------
\* No transaction of the same sender with a larger nonce has been accepted.
IsLatest(t) == \A u \in accepted : From[u] = From[t] => Nonce[u] <= Nonce[t]

\* t becomes pending, and the one in out, if any, makes room.
Accept(t, out) ==
    /\ IsLatest(t)
    /\ t \notin out
    /\ out \subseteq Support(pending)
    /\ \/ out = {}
       \/ /\ \E u \in Tx : out = {u}
          /\ Cardinality(Support(pending)) >= Capacity
    /\ pending' = [u \in Tx |-> IF u = t THEN pending[u] + 1
                                ELSE IF u \in out THEN pending[u] - 1
                                ELSE pending[u]]
    /\ accepted' = accepted \cup {t}
    /\ UNCHANGED ledger

\* A block is added to the ledger; it takes what it contains from pending.
Include(S) ==
    /\ S \subseteq Support(pending)
    /\ Cardinality(S) <= MaxTxsPerBlock
    /\ ledger' = Append(ledger, S)
    /\ pending' = [u \in Tx |-> IF u \in S THEN pending[u] - 1 ELSE pending[u]]
    /\ UNCHANGED accepted

LedgerNext ==
    \/ \E t \in Tx, out \in SUBSET Tx : Accept(t, out)
    \/ \E S \in SUBSET Tx : Include(S)

LedgerSpec == LedgerInit /\ [][LedgerNext]_ledgerVars

=============================================================================
