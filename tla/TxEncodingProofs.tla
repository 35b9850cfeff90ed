--------------------------- MODULE TxEncodingProofs ---------------------------
(***************************************************************************)
(* TxEncoding for every width, key, nonce, payload and time: what sign_tx  *)
(* makes verifies exactly while it lives, and its id identifies it.        *)
(***************************************************************************)
EXTENDS TxEncoding, Facts

-----------------------------------------------------------------------------
(***************************************************************************)
(* Digits.                                                                 *)
(***************************************************************************)
Byte == 0 .. (Base - 1)

LEMMA RestRecursive ==
    ASSUME NEW n \in Nat
    PROVE  /\ Rest(n) \in [Nat -> Nat]
           /\ Rest(n)[0] = n
           /\ \A k \in Nat : Rest(n)[k + 1] = Rest(n)[k] \div Base
  <1> DEFINE g == [x \in Nat |-> x \div Base]
  <1>1. Base \in Nat \ {0}
    BY TxEncodingAssumption
  <1>2. g \in [Nat -> Nat]
    <2>1. \A x \in Nat : x \div Base \in Nat
      BY <1>1, DivMod
    <2> QED
      BY <2>1
  <1>3. PICK f : Repeats(f, Nat, n, g)
    <2> HIDE DEF g
    <2> QED
      BY <1>2, Recursion
  <1>4. \A k \in Nat : f[k + 1] = f[k] \div Base
    BY <1>3 DEF Repeats
  <1>5. f = [k \in Nat |-> IF k = 0 THEN n ELSE f[k - 1] \div Base]
    <2>1. ASSUME NEW k \in Nat PROVE f[k] = IF k = 0 THEN n ELSE f[k - 1] \div Base
      <3>1. CASE k = 0
        BY <1>3, <3>1 DEF Repeats
      <3>2. CASE k # 0
        <4>1. k - 1 \in Nat /\ (k - 1) + 1 = k
          BY <3>2
        <4> QED
          BY <1>4, <3>2, <4>1
      <3> QED
        BY <3>1, <3>2
    <2> QED
      BY <1>3, <2>1 DEF Repeats
  <1> HIDE DEF g
  <1>6. Rest(n) = [k \in Nat |-> IF k = 0 THEN n ELSE Rest(n)[k - 1] \div Base]
    BY <1>5 DEF Rest
  <1>7. Rest(n)[0] = n
    BY <1>6
  <1>8. ASSUME NEW k \in Nat PROVE Rest(n)[k + 1] = Rest(n)[k] \div Base
    <2>1. k + 1 \in Nat /\ k + 1 # 0 /\ (k + 1) - 1 = k
      OBVIOUS
    <2> QED
      BY <1>6, <2>1
  <1>9. \A k \in Nat : Rest(n)[k] \in Nat
    <2> DEFINE T == {k \in Nat : Rest(n)[k] \notin Nat}
    <2>1. T = {}
      <3> SUFFICES ASSUME T # {} PROVE FALSE
        OBVIOUS
      <3>1. PICK k \in T : \A j \in T : k <= j
        BY Smallest
      <3>2. k # 0
        BY <1>7
      <3>3. k - 1 \in Nat /\ (k - 1) + 1 = k /\ k - 1 \notin T
        BY <3>1, <3>2
      <3>4. Rest(n)[k - 1] \in Nat /\ Rest(n)[k] = Rest(n)[k - 1] \div Base
        BY <1>8, <3>3
      <3>5. Rest(n)[k] \in Nat
        BY <1>1, <3>4, DivMod
      <3> QED
        BY <3>5
    <2> QED
      BY <2>1
  <1> QED
    BY <1>6, <1>7, <1>8, <1>9

LEMMA BytesType ==
    ASSUME NEW n \in Nat, NEW width \in Nat
    PROVE  Bytes(n, width) \in Seq(Byte) /\ Len(Bytes(n, width)) = width
  <1>1. ASSUME NEW i \in 1 .. width PROVE Rest(n)[width - i] % Base \in Byte
    <2>1. width - i \in Nat /\ Base \in Nat \ {0}
      BY TxEncodingAssumption
    <2>2. Rest(n)[width - i] \in Nat
      BY <2>1, RestRecursive
    <2> QED
      BY <2>1, <2>2, DivMod DEF Byte
  <1>2. Bytes(n, width) \in [1 .. width -> Byte]
    BY <1>1 DEF Bytes
  <1> QED
    BY <1>2

(***************************************************************************)
(* Two integers that fit and have the same bytes are the same: they agree  *)
(* in what is left after all digits, and then, digit by digit, in what is  *)
(* left after fewer.                                                       *)
(***************************************************************************)
LEMMA BytesInjective ==
    ASSUME NEW m, NEW n, NEW width \in Nat, Fits(m, width), Fits(n, width),
           Bytes(m, width) = Bytes(n, width)
    PROVE  m = n
  <1>1. /\ m \in Nat /\ n \in Nat
        /\ Rest(m)[width] = 0 /\ Rest(n)[width] = 0
    BY DEF Fits
  <1>2. Base \in Nat \ {0}
    BY TxEncodingAssumption
  <1>3. \A k \in Nat : Rest(m)[k] \in Nat /\ Rest(n)[k] \in Nat
    BY <1>1, RestRecursive
  <1>4. ASSUME NEW k \in 0 .. (width - 1), Rest(m)[k + 1] = Rest(n)[k + 1]
        PROVE  Rest(m)[k] = Rest(n)[k]
    <2>1. k \in Nat /\ width - k \in 1 .. width /\ width - (width - k) = k
      OBVIOUS
    <2>2. Rest(m)[k] % Base = Rest(n)[k] % Base
      <3>1. /\ Bytes(m, width)[width - k] = Rest(m)[width - (width - k)] % Base
            /\ Bytes(n, width)[width - k] = Rest(n)[width - (width - k)] % Base
        BY <2>1 DEF Bytes
      <3> QED
        BY <2>1, <3>1
    <2>3. Rest(m)[k + 1] = Rest(m)[k] \div Base
      BY <1>1, <2>1, RestRecursive
    <2>4. Rest(n)[k + 1] = Rest(n)[k] \div Base
      BY <1>1, <2>1, RestRecursive
    <2>5. Rest(m)[k] = Base * (Rest(m)[k] \div Base) + (Rest(m)[k] % Base)
      BY <1>2, <1>3, <2>1, DivMod
    <2>6. Rest(n)[k] = Base * (Rest(n)[k] \div Base) + (Rest(n)[k] % Base)
      BY <1>2, <1>3, <2>1, DivMod
    <2> QED
      BY <1>4, <2>2, <2>3, <2>4, <2>5, <2>6
  <1> DEFINE T == {k \in 0 .. width : Rest(m)[k] # Rest(n)[k]}
  <1>5. T = {}
    <2> SUFFICES ASSUME T # {} PROVE FALSE
      OBVIOUS
    <2>1. PICK k \in T : \A j \in T : j <= k
      <3>1. T \in SUBSET Nat /\ \A j \in T : j <= width
        OBVIOUS
      <3> HIDE DEF T
      <3> QED
        BY <3>1, Largest
    <2>2. k # width
      BY <1>1
    <2>3. k \in 0 .. (width - 1) /\ k + 1 \in 0 .. width /\ k + 1 \notin T
      BY <2>1, <2>2
    <2> QED
      BY <1>4, <2>3
  <1>6. 0 \in 0 .. width /\ Rest(m)[0] = Rest(n)[0]
    BY <1>5
  <1> QED
    BY <1>1, <1>6, RestRecursive

-----------------------------------------------------------------------------
(***************************************************************************)
(* The invariant: what sign_tx made has the fields its caller gave it, was *)
(* made no later than now, lives for Ttl seconds and carries a signature   *)
(* of its own bytes.                                                       *)
(***************************************************************************)
WellFilled(tx) ==
    /\ tx = [chain_id |-> tx.chain_id, from |-> tx.from, nonce |-> tx.nonce, to |-> tx.to,
             value |-> tx.value, max_fee |-> tx.max_fee, data |-> tx.data,
             timestamp |-> tx.timestamp, expiry |-> tx.expiry, sig |-> tx.sig]
    /\ tx.chain_id = 1 /\ tx.from \in Keys /\ tx.nonce \in Nonces
    /\ tx.to \in Addresses \cup {<<>>} /\ tx.value \in Amounts \cup {0}
    /\ tx.max_fee = 1 /\ tx.data \in Payloads
    /\ tx.timestamp \in 0 .. now /\ tx.expiry = tx.timestamp + Ttl

WellMade(tx) ==
    /\ WellFilled(tx)
    /\ tx.sig = Sign(tx.from, CanonicalBytes(tx))

MadeInv ==
    /\ now \in 0 .. MaxTime
    /\ \A tx \in made : WellMade(tx)
-----------------------------------------------------------------------------
(***************************************************************************)
(* The encoding, field by field.                                           *)
(***************************************************************************)
ChainIdBytes(tx)   == Bytes(tx.chain_id, U32)
NonceBytes(tx)     == Bytes(tx.nonce, U64)
ValueBytes(tx)     == Bytes(tx.value, U128)
MaxFeeBytes(tx)    == Bytes(tx.max_fee, U64)
TimestampBytes(tx) == Bytes(tx.timestamp, U64)
ExpiryBytes(tx)    == Bytes(tx.expiry, U64)

UpToFrom(tx)      == ChainIdBytes(tx) \o tx.from
UpToNonce(tx)     == UpToFrom(tx) \o NonceBytes(tx)
UpToTo(tx)        == UpToNonce(tx) \o tx.to
UpToValue(tx)     == UpToTo(tx) \o ValueBytes(tx)
UpToFee(tx)       == UpToValue(tx) \o MaxFeeBytes(tx)
UpToData(tx)      == UpToFee(tx) \o tx.data
UpToTimestamp(tx) == UpToData(tx) \o TimestampBytes(tx)

LEMMA FieldByField ==
    ASSUME NEW tx
    PROVE  CanonicalBytes(tx) = UpToTimestamp(tx) \o ExpiryBytes(tx)
  BY DEF CanonicalBytes, UpToFrom, UpToNonce, UpToTo, UpToValue, UpToFee, UpToData, UpToTimestamp,
         ChainIdBytes, NonceBytes, ValueBytes, MaxFeeBytes, TimestampBytes, ExpiryBytes

\* A concatenation's type and length, as one fact.
Is(s, n) == s \in Seq(Byte) /\ Len(s) = n

LEMMA Joined ==
    ASSUME NEW s, NEW t, NEW m \in Nat, NEW n \in Nat, Is(s, m), Is(t, n)
    PROVE  Is(s \o t, m + n)
  <1>1. s \o t \in Seq(Byte) /\ Len(s \o t) = Len(s) + Len(t)
    BY ConcatProperties DEF Is
  <1> QED
    BY <1>1 DEF Is

\* Sequences of one length.
Alike(s, t) == s \in Seq(Byte) /\ t \in Seq(Byte) /\ Len(s) = Len(t)

LEMMA BothAre ==
    ASSUME NEW s, NEW t, NEW n, Is(s, n), Is(t, n)
    PROVE  Alike(s, t)
  BY DEF Is, Alike

\* Equal concatenations of parts that are alike have equal parts.
LEMMA Parted ==
    ASSUME NEW s, NEW t, NEW u, NEW v, Alike(s, t), Alike(u, v), s \o u = t \o v
    PROVE  s = t /\ u = v
  BY SplitsAlike DEF Alike

LEMMA Widths ==
    {U32, U64, U128, KeyLen, Ttl, MaxTime} \subseteq Nat
  BY TxEncodingAssumption

\* What is in the fields fits in them.
LEMMA FieldsFit ==
    ASSUME NEW tx, WellFilled(tx), now \in 0 .. MaxTime
    PROVE  /\ Fits(tx.nonce, U64) /\ Fits(tx.value, U128)
           /\ Fits(tx.timestamp, U64) /\ Fits(tx.expiry, U64)
           /\ tx.chain_id = 1 /\ tx.max_fee = 1
           /\ tx.from \in Keys /\ Is(tx.from, KeyLen)
           /\ Len(tx.to) \in Nat /\ Is(tx.to, Len(tx.to))
           /\ Len(tx.data) \in Nat /\ Is(tx.data, Len(tx.data))
  <1>1. tx.timestamp \in 0 .. (MaxTime + Ttl) /\ tx.expiry \in 0 .. (MaxTime + Ttl)
    <2>1. tx.timestamp \in 0 .. now /\ tx.expiry = tx.timestamp + Ttl
      BY DEF WellFilled
    <2> QED
      BY <2>1, Widths
  <1>2. Fits(tx.timestamp, U64) /\ Fits(tx.expiry, U64)
    BY <1>1, TxEncodingAssumption
  <1>3. tx.nonce \in Nonces /\ tx.value \in Amounts \cup {0} /\ tx.from \in Keys
    BY DEF WellFilled
  <1>4. Fits(tx.nonce, U64) /\ Fits(tx.value, U128)
    BY <1>3, TxEncodingAssumption
  <1>5. Is(tx.from, KeyLen)
    BY <1>3, TxEncodingAssumption DEF Is, Byte
  <1>6. tx.to \in Seq(Byte) /\ tx.data \in Seq(Byte)
    <2>1. tx.to \in Addresses \cup {<<>>} /\ tx.data \in Payloads
      BY DEF WellFilled
    <2>2. Payloads \subseteq Seq(Byte) /\ Addresses \subseteq Seq(Byte)
      BY TxEncodingAssumption DEF Byte
    <2>3. <<>> \in Seq(Byte)
      OBVIOUS
    <2> QED
      BY <2>1, <2>2, <2>3
  <1>7. Len(tx.to) \in Nat /\ Len(tx.data) \in Nat
    BY <1>6
  <1>8. tx.chain_id = 1 /\ tx.max_fee = 1
    BY DEF WellFilled
  <1> QED
    BY <1>2, <1>3, <1>4, <1>5, <1>6, <1>7, <1>8 DEF Is

LEMMA BytesIs ==
    ASSUME NEW n \in Nat, NEW width \in Nat
    PROVE  Is(Bytes(n, width), width)
  BY BytesType DEF Is

LEMMA BytesAlike ==
    ASSUME NEW m \in Nat, NEW n \in Nat, NEW width \in Nat
    PROVE  Alike(Bytes(m, width), Bytes(n, width))
  BY BytesIs, BothAre

\* How long each part is.
LEMMA PartLengths ==
    ASSUME NEW tx, WellFilled(tx), now \in 0 .. MaxTime
    PROVE  /\ Is(UpToFrom(tx), U32 + KeyLen)
           /\ Is(UpToNonce(tx), U32 + KeyLen + U64)
           /\ Is(UpToTo(tx), U32 + KeyLen + U64 + Len(tx.to))
           /\ Is(UpToValue(tx), U32 + KeyLen + U64 + Len(tx.to) + U128)
           /\ Is(UpToFee(tx), U32 + KeyLen + U64 + Len(tx.to) + U128 + U64)
           /\ Is(UpToData(tx), U32 + KeyLen + U64 + Len(tx.to) + U128 + U64 + Len(tx.data))
           /\ Is(UpToTimestamp(tx),
                 U32 + KeyLen + U64 + Len(tx.to) + U128 + U64 + Len(tx.data) + U64)
           /\ Is(CanonicalBytes(tx),
                 U32 + KeyLen + U64 + Len(tx.to) + U128 + U64 + Len(tx.data) + U64 + U64)
  <1> DEFINE lt == Len(tx.to)
             ld == Len(tx.data)
  <1>1. /\ tx.chain_id \in Nat /\ tx.nonce \in Nat /\ tx.value \in Nat /\ tx.max_fee \in Nat
        /\ tx.timestamp \in Nat /\ tx.expiry \in Nat
    BY FieldsFit DEF Fits
  <1>2. /\ Is(ChainIdBytes(tx), U32) /\ Is(NonceBytes(tx), U64)
        /\ Is(ValueBytes(tx), U128) /\ Is(MaxFeeBytes(tx), U64)
        /\ Is(TimestampBytes(tx), U64) /\ Is(ExpiryBytes(tx), U64)
    BY <1>1, BytesIs, Widths DEF ChainIdBytes, NonceBytes, ValueBytes, MaxFeeBytes,
           TimestampBytes, ExpiryBytes
  <1>3. Is(tx.from, KeyLen) /\ lt \in Nat /\ Is(tx.to, lt) /\ ld \in Nat /\ Is(tx.data, ld)
    BY FieldsFit
  <1>4. /\ U32 \in Nat /\ U64 \in Nat /\ U128 \in Nat /\ KeyLen \in Nat
    BY Widths
  <1> HIDE DEF lt, ld
  <1>5. Is(UpToFrom(tx), U32 + KeyLen)
    BY <1>2, <1>3, <1>4, Joined DEF UpToFrom
  <1>6. Is(UpToNonce(tx), U32 + KeyLen + U64)
    BY <1>2, <1>4, <1>5, Joined DEF UpToNonce
  <1>7. Is(UpToTo(tx), U32 + KeyLen + U64 + lt)
    BY <1>3, <1>4, <1>6, Joined DEF UpToTo
  <1>8. Is(UpToValue(tx), U32 + KeyLen + U64 + lt + U128)
    BY <1>2, <1>3, <1>4, <1>7, Joined DEF UpToValue
  <1>9. Is(UpToFee(tx), U32 + KeyLen + U64 + lt + U128 + U64)
    BY <1>2, <1>3, <1>4, <1>8, Joined DEF UpToFee
  <1>10. Is(UpToData(tx), U32 + KeyLen + U64 + lt + U128 + U64 + ld)
    BY <1>3, <1>4, <1>9, Joined DEF UpToData
  <1>11. Is(UpToTimestamp(tx), U32 + KeyLen + U64 + lt + U128 + U64 + ld + U64)
    BY <1>2, <1>3, <1>4, <1>10, Joined DEF UpToTimestamp
  <1>12. Is(CanonicalBytes(tx), U32 + KeyLen + U64 + lt + U128 + U64 + ld + U64 + U64)
    <2>1. Is(UpToTimestamp(tx) \o ExpiryBytes(tx),
             U32 + KeyLen + U64 + lt + U128 + U64 + ld + U64 + U64)
      BY <1>2, <1>3, <1>4, <1>11, Joined
    <2> QED
      BY <2>1, FieldByField
  <1> QED
    BY <1>5, <1>6, <1>7, <1>8, <1>9, <1>10, <1>11, <1>12 DEF lt, ld

(***************************************************************************)
(* The bytes identify the transaction among those with a `to` of the same  *)
(* length.  Every field but the payload has its length; so the payloads of *)
(* two transactions with the same bytes are equally long too, and the      *)
(* fields can be read off from the last to the first.                      *)
(***************************************************************************)
LEMMA BytesIdentify ==
    ASSUME NEW a, NEW b, WellMade(a), WellMade(b), now \in 0 .. MaxTime,
           CanonicalBytes(a) = CanonicalBytes(b), Len(a.to) = Len(b.to)
    PROVE  a = b
  <1>0. WellFilled(a) /\ WellFilled(b)
    BY DEF WellMade
  <1>1. /\ U32 \in Nat /\ U64 \in Nat /\ U128 \in Nat /\ KeyLen \in Nat
    BY Widths
  <1>2. PICK lt \in Nat, la \in Nat, lb \in Nat :
            Len(a.to) = lt /\ Len(b.to) = lt /\ Len(a.data) = la /\ Len(b.data) = lb
    BY <1>0, FieldsFit
  <1>3. lb = la
    <2>1. Len(CanonicalBytes(a)) = U32 + KeyLen + U64 + lt + U128 + U64 + la + U64 + U64
      BY <1>2, <1>0, PartLengths DEF Is
    <2>2. Len(CanonicalBytes(b)) = U32 + KeyLen + U64 + lt + U128 + U64 + lb + U64 + U64
      BY <1>2, <1>0, PartLengths DEF Is
    <2>3. U32 + KeyLen + U64 + lt + U128 + U64 + la + U64 + U64
            = U32 + KeyLen + U64 + lt + U128 + U64 + lb + U64 + U64
      BY <2>1, <2>2
    <2> QED
      BY ONLY <1>1, <2>3, la \in Nat, lb \in Nat, lt \in Nat
  <1>4. /\ Alike(UpToFrom(a), UpToFrom(b)) /\ Alike(UpToNonce(a), UpToNonce(b))
        /\ Alike(UpToTo(a), UpToTo(b)) /\ Alike(UpToValue(a), UpToValue(b))
        /\ Alike(UpToFee(a), UpToFee(b)) /\ Alike(UpToData(a), UpToData(b))
        /\ Alike(UpToTimestamp(a), UpToTimestamp(b))
    BY <1>2, <1>3, <1>0, PartLengths, BothAre
  <1>5. /\ Alike(a.from, b.from) /\ Alike(a.to, b.to) /\ Alike(a.data, b.data)
    BY <1>2, <1>3, <1>0, FieldsFit, BothAre
  <1>6. /\ a.chain_id \in Nat /\ b.chain_id \in Nat
        /\ a.nonce \in Nat /\ a.value \in Nat /\ a.max_fee \in Nat
        /\ a.timestamp \in Nat /\ a.expiry \in Nat
        /\ b.nonce \in Nat /\ b.value \in Nat /\ b.max_fee \in Nat
        /\ b.timestamp \in Nat /\ b.expiry \in Nat
    BY <1>0, FieldsFit DEF Fits
  <1>7. /\ Alike(ChainIdBytes(a), ChainIdBytes(b)) /\ Alike(NonceBytes(a), NonceBytes(b))
        /\ Alike(ValueBytes(a), ValueBytes(b)) /\ Alike(MaxFeeBytes(a), MaxFeeBytes(b))
        /\ Alike(TimestampBytes(a), TimestampBytes(b)) /\ Alike(ExpiryBytes(a), ExpiryBytes(b))
    BY <1>1, <1>6, BytesAlike
       DEF ChainIdBytes, NonceBytes, ValueBytes, MaxFeeBytes, TimestampBytes, ExpiryBytes
  <1>8. UpToTimestamp(a) = UpToTimestamp(b) /\ ExpiryBytes(a) = ExpiryBytes(b)
    <2>1. UpToTimestamp(a) \o ExpiryBytes(a) = UpToTimestamp(b) \o ExpiryBytes(b)
      BY FieldByField
    <2> QED
      BY <1>4, <1>7, <2>1, Parted
  <1>9. UpToData(a) = UpToData(b) /\ TimestampBytes(a) = TimestampBytes(b)
    <2>1. Alike(UpToData(a), UpToData(b)) /\ Alike(TimestampBytes(a), TimestampBytes(b))
      BY <1>4, <1>7
    <2> QED
      BY <1>8, <2>1, Parted DEF UpToTimestamp
  <1>10. UpToFee(a) = UpToFee(b) /\ a.data = b.data
    <2>1. Alike(UpToFee(a), UpToFee(b)) /\ Alike(a.data, b.data)
      BY <1>4, <1>5
    <2> QED
      BY <1>9, <2>1, Parted DEF UpToData
  <1>11. UpToValue(a) = UpToValue(b)
    <2>1. Alike(UpToValue(a), UpToValue(b)) /\ Alike(MaxFeeBytes(a), MaxFeeBytes(b))
      BY <1>4, <1>7
    <2> QED
      BY <1>10, <2>1, Parted DEF UpToFee
  <1>12. UpToTo(a) = UpToTo(b) /\ ValueBytes(a) = ValueBytes(b)
    <2>1. Alike(UpToTo(a), UpToTo(b)) /\ Alike(ValueBytes(a), ValueBytes(b))
      BY <1>4, <1>7
    <2> QED
      BY <1>11, <2>1, Parted DEF UpToValue
  <1>13. UpToNonce(a) = UpToNonce(b) /\ a.to = b.to
    <2>1. Alike(UpToNonce(a), UpToNonce(b)) /\ Alike(a.to, b.to)
      BY <1>4, <1>5
    <2> QED
      BY <1>12, <2>1, Parted DEF UpToTo
  <1>14. UpToFrom(a) = UpToFrom(b) /\ NonceBytes(a) = NonceBytes(b)
    <2>1. Alike(UpToFrom(a), UpToFrom(b)) /\ Alike(NonceBytes(a), NonceBytes(b))
      BY <1>4, <1>7
    <2> QED
      BY <1>13, <2>1, Parted DEF UpToNonce
  <1>15. a.from = b.from
    BY <1>5, <1>7, <1>14, Parted DEF UpToFrom
  <1>16. /\ Fits(a.nonce, U64) /\ Fits(b.nonce, U64) /\ Fits(a.value, U128) /\ Fits(b.value, U128)
         /\ Fits(a.timestamp, U64) /\ Fits(b.timestamp, U64)
         /\ Fits(a.expiry, U64) /\ Fits(b.expiry, U64)
         /\ a.chain_id = b.chain_id /\ a.max_fee = b.max_fee
    BY <1>0, FieldsFit
  <1>17. /\ a.nonce = b.nonce /\ a.value = b.value
         /\ a.timestamp = b.timestamp /\ a.expiry = b.expiry
    BY <1>1, <1>8, <1>9, <1>12, <1>14, <1>16, BytesInjective
       DEF NonceBytes, ValueBytes, TimestampBytes, ExpiryBytes
  <1>18. a.sig = b.sig
    BY <1>15 DEF WellMade
  <1> QED
    BY <1>10, <1>13, <1>15, <1>16, <1>17, <1>18, <1>0 DEF WellFilled

-----------------------------------------------------------------------------
(***************************************************************************)
(* The invariant holds.                                                    *)
(***************************************************************************)
\* What sign_tx makes now is well made: the signature is none of the bytes it signs.
LEMMA SignTxMakes ==
    ASSUME now \in 0 .. MaxTime, NEW k \in Keys, NEW n \in Nonces, NEW to \in Addresses \cup {<<>>},
           NEW v \in Amounts \cup {0}, NEW d \in Payloads
    PROVE  WellMade(SignTx(k, n, to, v, d))
  <1> DEFINE tx == Unsigned(k, n, to, v, d, now + Ttl)
             bytes == CanonicalBytes(tx)
             made1 == [tx EXCEPT !.sig = Sign(k, bytes)]
  <1>1. /\ tx.chain_id = 1 /\ tx.from = k /\ tx.nonce = n /\ tx.to = to /\ tx.value = v
        /\ tx.max_fee = 1 /\ tx.data = d /\ tx.timestamp = now /\ tx.expiry = now + Ttl
    BY DEF Unsigned
  <1>2. SignTx(k, n, to, v, d) = made1
    BY <1>1 DEF SignTx
  <1>3. CanonicalBytes(made1) = bytes
    BY DEF CanonicalBytes, Unsigned
  <1>4. now + Ttl \in Nat
    BY Widths
  <1>5. made1 = [chain_id |-> 1, from |-> k, nonce |-> n, to |-> to, value |-> v, max_fee |-> 1,
                 data |-> d, timestamp |-> now, expiry |-> now + Ttl, sig |-> <<k, bytes>>]
    BY DEF Unsigned, Sign
  <1> HIDE DEF tx, bytes, made1
  <1>6. WellFilled(made1)
    BY <1>4, <1>5 DEF WellFilled
  <1> QED
    BY <1>2, <1>3, <1>5, <1>6 DEF WellMade, Sign

LEMMA MadeInit == Init => MadeInv
  BY Widths DEF Init, MadeInv

LEMMA MadeStep == MadeInv /\ [Next]_vars => MadeInv'
  <1> SUFFICES ASSUME MadeInv, [Next]_vars PROVE MadeInv'
    OBVIOUS
  <1>1. now \in 0 .. MaxTime /\ \A tx \in made : WellMade(tx)
    BY DEF MadeInv
  <1>2. ASSUME NEW tx, WellMade(tx), UNCHANGED now PROVE WellMade(tx)'
    BY <1>2 DEF WellMade, WellFilled
  <1>3. ASSUME NEW tx, WellMade(tx), Make(tx) PROVE MadeInv'
    <2>1. UNCHANGED now /\ made' = made \cup {tx}
      BY <1>3 DEF Make
    <2>2. ASSUME NEW x \in made' PROVE WellMade(x)'
      BY <1>1, <1>2, <1>3, <2>1
    <2> QED
      BY <1>1, <2>1, <2>2 DEF MadeInv
  <1>4. CASE MakeMessage
    <2>1. PICK k \in Keys, n \in Nonces, d \in Payloads : Make(SignTx(k, n, <<>>, 0, d))
      BY <1>4 DEF MakeMessage
    <2>2. WellMade(SignTx(k, n, <<>>, 0, d))
      BY <1>1, SignTxMakes
    <2> QED
      BY <1>3, <2>1, <2>2
  <1>5. CASE MakeTransfer
    <2>1. PICK k \in Keys, n \in Nonces, to \in Addresses, v \in Amounts, d \in Payloads :
              Make(SignTx(k, n, to, v, d))
      BY <1>5 DEF MakeTransfer
    <2>2. WellMade(SignTx(k, n, to, v, d))
      BY <1>1, SignTxMakes
    <2> QED
      BY <1>3, <2>1, <2>2
  <1>6. CASE Tick
    <2>1. now < MaxTime /\ now' = now + 1 /\ made' = made
      BY <1>6 DEF Tick
    <2>2. now' \in 0 .. MaxTime /\ 0 .. now \subseteq 0 .. now'
      BY <1>1, <2>1, Widths
    <2>3. ASSUME NEW tx, WellMade(tx) PROVE WellMade(tx)'
      BY <2>2, <2>3 DEF WellMade, WellFilled
    <2> QED
      BY <1>1, <2>1, <2>2, <2>3 DEF MadeInv
  <1>7. CASE UNCHANGED vars
    <2>1. UNCHANGED now /\ UNCHANGED made
      BY <1>7 DEF vars
    <2> QED
      BY <1>1, <1>2, <2>1 DEF MadeInv
  <1>8. CASE Over
    BY <1>7, <1>8 DEF Over
  <1> QED
    BY <1>4, <1>5, <1>6, <1>7, <1>8 DEF Next

\* Every transaction made is well made.
THEOREM MadeInvariant == Spec => []MadeInv
  <1>1. MadeInv /\ [Next]_vars => MadeInv'
    BY MadeStep
  <1> QED
    BY MadeInit, <1>1, PTL DEF Spec

-----------------------------------------------------------------------------
(***************************************************************************)
(* The two properties of TxEncoding.                                       *)
(***************************************************************************)
\* sign_tx and verify_tx agree on every transaction sign_tx makes, and only
\* the expiry, checked against verify_tx's own clock, ever makes it invalid.
THEOREM SignedVerifies == Spec => []VerifiesWhileItLives
  <1>1. MadeInv => VerifiesWhileItLives
    <2> SUFFICES ASSUME MadeInv, NEW tx \in made
                 PROVE  VerifyTx(tx) <=> now <= tx.timestamp + Ttl
      BY DEF VerifiesWhileItLives
    <2>1. WellMade(tx) /\ now \in Nat
      BY DEF MadeInv
    <2>2. /\ tx.expiry = tx.timestamp + Ttl
          /\ tx.sig = Sign(tx.from, CanonicalBytes(tx))
          /\ tx.timestamp \in Nat /\ tx.expiry \in Nat
      BY <2>1, Widths DEF WellMade, WellFilled
    <2>3. VerifyTx(tx) <=> tx.expiry >= now
      BY <2>2 DEF VerifyTx
    <2> QED
      BY <2>1, <2>2, <2>3
  <1> QED
    BY MadeInvariant, <1>1, PTL

\* tx_id tells any two transactions that sign_tx made apart, if their `to`
\* are equally long.
THEOREM IdIdentifies == Spec => []IdIsIdentity
  <1>1. MadeInv => IdIsIdentity
    <2> SUFFICES ASSUME MadeInv, NEW a \in made, NEW b \in made,
                        TxId(a) = TxId(b), Len(a.to) = Len(b.to)
                 PROVE  a = b
      BY DEF IdIsIdentity
    <2>1. WellMade(a) /\ WellMade(b) /\ now \in 0 .. MaxTime
      BY DEF MadeInv
    <2>2. CanonicalBytes(a) = CanonicalBytes(b)
      BY DEF TxId
    <2> QED
      BY <2>1, <2>2, BytesIdentify
  <1> QED
    BY MadeInvariant, <1>1, PTL

=============================================================================
