------------------------------- MODULE TxStore -------------------------------
(***************************************************************************)
(* The mempool of src/rpc/mempool.rs, which the server and every client    *)
(* own one of.  A transaction is a value of Tx; tx_id is the identity of   *)
(* that value (a digest of the canonical bytes), so the maps keyed by id   *)
(* are sets of transactions.                                               *)
(***************************************************************************)
EXTENDS Naturals, FiniteSets

CONSTANTS
    Tx,             \* transactions
    Key,            \* from_pubkey_b64 values
    From,           \* From[t]: the signer of t
    Nonce,          \* Nonce[t]: t.nonce
    Expiry,         \* Expiry[t]: t.expiry, in seconds
    WellSigned,     \* the transactions whose algorithm, key, signature and
                    \* fee (min_fee is 0) pass verify_tx and insert_if_new
    Capacity        \* TxStore::capacity, 50_000 in the code

ASSUME TxStoreAssumption ==
    /\ From \in [Tx -> Key]
    /\ Nonce \in [Tx -> Nat]
    /\ Expiry \in [Tx -> Nat]
    /\ WellSigned \subseteq Tx
    /\ Capacity \in Nat \ {0}

-----------------------------------------------------------------------------
(***************************************************************************)
(* A key with no entry in max_seen_nonce reads as 0 (unwrap_or(&0)).       *)
(***************************************************************************)
Store == [byId : SUBSET Tx, seen : SUBSET Tx, maxNonce : [Key -> Nat]]

EmptyStore == [byId |-> {}, seen |-> {}, maxNonce |-> [k \in Key |-> 0]]

\* A verification that does not look at the expiry.
VerifyTxEver(t, now) == t \in WellSigned

VerifyTx(t, now) == t \in WellSigned /\ Expiry[t] >= now

\* A policy that never refuses a nonce.
NonceNeverTooLow(s, t) == FALSE

\* A policy that wants every nonce to be larger than the last.
NonceNotNew(s, t) == Nonce[t] <= s.maxNonce[From[t]]

NonceTooLow(s, t) == Nonce[t] < s.maxNonce[From[t]]

(***************************************************************************)
(* insert_if_new has three outcomes: Err, Ok(_, false, _), Ok(_, true, _). *)
(* An id that is in by_id is reported before its nonce is looked at.       *)
(***************************************************************************)
Refuses(s, t, now) ==
    \/ ~VerifyTx(t, now)
    \/ t \notin s.byId /\ NonceTooLow(s, t)

Knows(s, t, now) == VerifyTx(t, now) /\ t \in s.byId

Admits(s, t, now) ==
    /\ VerifyTx(t, now)
    /\ t \notin s.byId
    /\ ~NonceTooLow(s, t)

-----------------------------------------------------------------------------
\* An off-by-one of the capacity test.
EvictableTooLate(s) ==
    IF Cardinality(s.byId) > Capacity THEN {{v} : v \in s.byId} ELSE {{}}

\* What an insertion may evict: one entry, the first in the map's arbitrary
\* order, when the store is full, and nothing otherwise.
Evictable(s) ==
    IF Cardinality(s.byId) >= Capacity THEN {{v} : v \in s.byId} ELSE {{}}

\* An insertion that leaves the nonce policy's memory alone.
InsertForgettingNonce(s, t, out) ==
    [s EXCEPT !.byId = (@ \ out) \cup {t}, !.seen = @ \cup {t}]

Insert(s, t, out) ==
    [byId |-> (s.byId \ out) \cup {t},
     seen |-> s.seen \cup {t},
     maxNonce |-> [s.maxNonce EXCEPT
                       ![From[t]] = IF Nonce[t] > @ THEN Nonce[t] ELSE @]]

\* What drain_block(n) may take: n entries in the map's arbitrary order,
\* or all of them when there are fewer.
Drainable(s, n) ==
    {S \in SUBSET s.byId :
        \/ Cardinality(S) = n
        \/ Cardinality(S) < n /\ S = s.byId}

\* A drain that empties the map whatever it returns.
DrainAll(s, S) == [s EXCEPT !.byId = {}]

\* A drain that copies entries out and leaves them in the map.
DrainCopy(s, S) == s

Drain(s, S) == [s EXCEPT !.byId = @ \ S]

-----------------------------------------------------------------------------
(***************************************************************************)
(* What every store built by these operations promises.                    *)
(***************************************************************************)
FiniteStore(s) == s \in Store /\ IsFiniteSet(s.byId)

WithinCapacity(s) == Cardinality(s.byId) <= Capacity

\* maxNonce is the largest nonce seen of each key, and 0 before any.
NonceExact(s) ==
    /\ \A t \in s.seen : Nonce[t] <= s.maxNonce[From[t]]
    /\ \A k \in Key :
           \/ s.maxNonce[k] = 0
           \/ \E t \in s.seen : From[t] = k /\ Nonce[t] = s.maxNonce[k]

=============================================================================
