------------------------------ MODULE TxEncoding ------------------------------
(***************************************************************************)
(* The transactions of src/rpc/types.rs: what sign_tx signs, what tx_id    *)
(* digests and what verify_tx accepts.  TxStore takes a transaction for    *)
(* its own id and for well signed or not; this module is why it may.       *)
(*                                                                         *)
(* A byte is a digit; every integer has a fixed number of them.  SHA-256   *)
(* and the signature scheme are injective: a digest is the bytes it is of, *)
(* a signature is the pair of the key and the bytes signed.  The prefix    *)
(* "TX|v1|" is the same in every encoding and is left out, as are version  *)
(* and sig_alg, which sign_tx sets to constants and the bytes do not have. *)
(***************************************************************************)
EXTENDS Naturals, Sequences, FiniteSets

CONSTANTS
    Base,       \* a byte is one of 0 .. Base - 1, Base being 256 in the code
    U32,        \* bytes of a u32, a u64 and a u128
    U64,
    U128,
    KeyLen,     \* bytes of a public key, 32 in the code
    Keys,       \* public keys, as bytes
    Nonces,     \* the nonces that random_nonce draws from
    Payloads,   \* contents of data_b64, as bytes of any length
    Addresses,  \* values of `to` in a wallet's transactions, as bytes
    Amounts,    \* values in a wallet's transactions
    Ttl,        \* ttl_secs, 600 in the code
    MaxTime,    \* bound: time stops here
    MaxMade     \* bound: transactions made

\* What is left of n after its k last digits.
Rest(n) == LET rest[k \in Nat] == IF k = 0 THEN n ELSE rest[k - 1] \div Base IN rest

\* n is a value of an unsigned integer of this many bytes.
Fits(n, width) == n \in Nat /\ Rest(n)[width] = 0

ASSUME TxEncodingAssumption ==
    /\ Base \in Nat \ {0, 1}
    /\ {U32, U64, U128, KeyLen, Ttl, MaxTime, MaxMade} \subseteq Nat
    /\ \A k \in Keys : k \in Seq(0 .. (Base - 1)) /\ Len(k) = KeyLen
    /\ Payloads \cup Addresses \subseteq Seq(0 .. (Base - 1))
    /\ \A n \in Nonces : Fits(n, U64)
    /\ \A v \in Amounts \cup {0} : Fits(v, U128)
    /\ \A t \in 0 .. (MaxTime + Ttl) : Fits(t, U64)

VARIABLES
    made,   \* the transactions signed so far, by nodes and wallets
    now     \* now_secs()

vars == <<made, now>>

-----------------------------------------------------------------------------
\* to_be_bytes without its leading zeros.
ShortBytes(n, width) ==
    LET digits == CHOOSE w \in 1 .. width : Rest(n)[w] = 0 /\ (w = 1 \/ Rest(n)[w - 1] # 0)
    IN  [i \in 1 .. digits |-> Rest(n)[digits - i] % Base]

\* to_be_bytes: the last digits of n, the most significant first.
Bytes(n, width) == [i \in 1 .. width |-> Rest(n)[width - i] % Base]

\* `to` has no length in front of it and no mark for None: None is <<>>.
CanonicalBytes(tx) ==
    Bytes(tx.chain_id, U32) \o tx.from \o Bytes(tx.nonce, U64) \o tx.to
        \o Bytes(tx.value, U128) \o Bytes(tx.max_fee, U64) \o tx.data
        \o Bytes(tx.timestamp, U64) \o Bytes(tx.expiry, U64)

TxId(tx) == CanonicalBytes(tx)

Sign(key, bytes) == <<key, bytes>>

\* SignedTx as the callers of sign_tx fill it in.
Unsigned(key, nonce, to, value, data, expiry) ==
    [chain_id |-> 1, from |-> key, nonce |-> nonce, to |-> to, value |-> value,
     max_fee |-> 1, data |-> data, timestamp |-> now, expiry |-> expiry, sig |-> <<>>]

\* A signer that fills in the expiry after it has signed.
SignTxThenExpiry(key, nonce, to, value, data) ==
    LET tx == Unsigned(key, nonce, to, value, data, 0)
    IN  [tx EXCEPT !.expiry = now + Ttl, !.sig = Sign(tx.from, CanonicalBytes(tx))]

SignTx(key, nonce, to, value, data) ==
    LET tx == Unsigned(key, nonce, to, value, data, now + Ttl)
    IN  [tx EXCEPT !.sig = Sign(tx.from, CanonicalBytes(tx))]

VerifyTx(tx) == tx.expiry >= now /\ tx.sig = Sign(tx.from, CanonicalBytes(tx))

-----------------------------------------------------------------------------
Init == made = {} /\ now = 0

Make(tx) ==
    /\ Cardinality(made) < MaxMade
    /\ made' = made \cup {tx}
    /\ UNCHANGED now

\* The `message` form of POST /api/tx, and `/tx` typed at a client.
MakeMessage == \E k \in Keys, n \in Nonces, d \in Payloads : Make(SignTx(k, n, <<>>, 0, d))

\* A wallet's transaction, which arrives as the `tx` form of POST /api/tx.
MakeTransfer ==
    \E k \in Keys, n \in Nonces, to \in Addresses, v \in Amounts, d \in Payloads :
        Make(SignTx(k, n, to, v, d))

Tick == now < MaxTime /\ now' = now + 1 /\ UNCHANGED made

Over == now = MaxTime /\ UNCHANGED vars

Next == MakeMessage \/ MakeTransfer \/ Tick \/ Over

Spec == Init /\ [][Next]_vars

-----------------------------------------------------------------------------
(***************************************************************************)
(* A transaction that sign_tx made verifies, whoever carried it, from the  *)
(* second it was made through the last second of its time to live, and     *)
(* not after.                                                              *)
(***************************************************************************)
VerifiesWhileItLives ==
    \A tx \in made : VerifyTx(tx) <=> now <= tx.timestamp + Ttl

(***************************************************************************)
(* Among transactions whose `to` has the same length (all those the        *)
(* program makes itself have none) tx_id is an identity: the mempool takes *)
(* no two different ones for one, although the payload between the fixed   *)
(* fields has a length of its own and the encoding has no separators.      *)
(***************************************************************************)
IdIsIdentity ==
    \A a, b \in made : TxId(a) = TxId(b) /\ Len(a.to) = Len(b.to) => a = b

=============================================================================
