-------------------------------- MODULE Facts -------------------------------
(***************************************************************************)
(* Facts about numbers and positions that the proofs of several modules    *)
(* use.                                                                    *)
(***************************************************************************)
EXTENDS Integers, FiniteSetTheorems, SequenceTheorems, WellFoundedInduction, TLAPS

-----------------------------------------------------------------------------
(***************************************************************************)
(* Division by a positive number leaves a remainder below it; the two      *)
(* facts every lemma below starts from.                                    *)
(***************************************************************************)
LEMMA DivMod ==
    ASSUME NEW a \in Nat, NEW d \in Nat \ {0}
    PROVE  /\ a \div d \in Nat
           /\ a % d \in 0 .. (d - 1)
           /\ a = d * (a \div d) + (a % d)
  OBVIOUS

(***************************************************************************)
(* Multiplication by a natural number is monotone.                         *)
(***************************************************************************)
LEMMA TimesMonotone ==
    ASSUME NEW d \in Nat, NEW a \in Nat, NEW b \in Nat, a <= b
    PROVE  d * a <= d * b
  <1> DEFINE k == b - a
  <1>1. k \in Nat /\ b = a + k
    OBVIOUS
  <1>2. d * b = d * a + d * k
    BY <1>1
  <1>3. d * k \in Nat /\ d * a \in Nat /\ d * b \in Nat
    BY <1>1
  <1> QED
    BY <1>2, <1>3

\* Quotient and remainder are unique.
LEMMA DivisionUnique ==
    ASSUME NEW d \in Nat \ {0}, NEW q \in Nat, NEW r \in Nat, r < d
    PROVE  (d * q + r) \div d = q /\ (d * q + r) % d = r
  <1> DEFINE a == d * q + r
             p == a \div d
             x == a % d
  <1>1. d * q \in Nat /\ a \in Nat /\ a = d * q + r
    OBVIOUS
  <1>2. p \in Nat /\ x \in 0 .. (d - 1) /\ a = d * p + x
    BY <1>1
  <1> HIDE DEF a, p, x
  <1>3. ASSUME NEW m \in Nat, NEW n \in Nat, m < n
        PROVE  d * m + d <= d * n
    <2>1. PICK k \in Nat : n = m + 1 + k
      <3>1. n - m - 1 \in Nat /\ n = m + 1 + (n - m - 1)
        BY <1>3
      <3> QED
        BY <3>1
    <2>2. d * n = d * m + d + d * k /\ d * k \in Nat /\ d * m \in Nat
      BY <2>1
    <2> QED
      BY <2>2
  <1>4. d * p \in Nat
    BY <1>2
  <1>5. ~(p < q)
    BY <1>1, <1>2, <1>3, <1>4
  <1>6. ~(q < p)
    BY <1>1, <1>2, <1>3, <1>4
  <1>7. p = q
    BY <1>2, <1>5, <1>6
  <1>8. x = r
    BY <1>1, <1>2, <1>4, <1>7
  <1> QED
    BY <1>7, <1>8 DEF a, p, x

-----------------------------------------------------------------------------
(***************************************************************************)
(* Positions.                                                              *)
(***************************************************************************)
\* A set of natural numbers has a smallest.
LEMMA Smallest ==
    ASSUME NEW T \in SUBSET Nat, T # {}
    PROVE  \E x \in T : \A y \in T : x <= y
  <1> DEFINE below == OpToRel(<, Nat)
  <1>1. \A x, y \in Nat : x < y => <<x, y>> \in below
    BY DEF OpToRel
  <1>2. IsWellFoundedOn(below, Nat)
    BY NatLessThanWellFounded
  <1> HIDE DEF below
  <1>3. PICK x \in T : \A y \in T : ~ (<<y, x>> \in below)
    BY <1>2, WFMin
  <1>4. ASSUME NEW y \in T PROVE x <= y
    <2>1. x \in Nat /\ y \in Nat /\ ~ (<<y, x>> \in below)
      BY <1>3
    <2>2. ~(y < x)
      BY <1>1, <2>1
    <2> QED
      BY <2>1, <2>2
  <1> QED
    BY <1>4

\* A set of natural numbers that has a bound has a largest.
LEMMA Largest ==
    ASSUME NEW n \in Nat, NEW T \in SUBSET Nat, T # {}, \A x \in T : x <= n
    PROVE  \E x \in T : \A y \in T : y <= x
  <1> DEFINE U == {n - x : x \in T}
  <1>1. U \in SUBSET Nat /\ U # {}
    <2>1. \A x \in T : n - x \in Nat
      OBVIOUS
    <2> QED
      BY <2>1
  <1>2. PICK u \in U : \A v \in U : u <= v
    BY <1>1, Smallest
  <1>3. PICK x \in T : u = n - x
    BY <1>2
  <1>4. ASSUME NEW y \in T PROVE y <= x
    <2>1. n - y \in U /\ x \in Nat /\ y \in Nat
      OBVIOUS
    <2>2. n - x <= n - y
      BY <1>2, <1>3, <2>1
    <2> QED
      BY <2>1, <2>2
  <1> QED
    BY <1>4

-----------------------------------------------------------------------------
(***************************************************************************)
(* Recursion.  A function that a starts and g continues exists: it is put  *)
(* together from those that get as far as n.                               *)
(***************************************************************************)
StartsAndContinues(h, n, a, g) ==
    h[0] = a /\ \A k \in 0 .. (n - 1) : h[k + 1] = g[h[k]]

\* For every n there is one that gets as far as n.
LEMMA RecursionReaches ==
    ASSUME NEW S, NEW a \in S, NEW g \in [S -> S], NEW n \in Nat
    PROVE  \E h \in [0 .. n -> S] : StartsAndContinues(h, n, a, g)
  <1> DEFINE Reached(m) == \E h \in [0 .. m -> S] : StartsAndContinues(h, m, a, g)
             T == {m \in Nat : ~Reached(m)}
  <1>1. Reached(0)
    <2> DEFINE h == [k \in 0 .. 0 |-> a]
    <2>1. h \in [0 .. 0 -> S] /\ StartsAndContinues(h, 0, a, g)
      BY DEF StartsAndContinues
    <2> QED
      BY <2>1
  <1>2. ASSUME NEW m \in Nat, Reached(m) PROVE Reached(m + 1)
    <2>1. PICK h \in [0 .. m -> S] : StartsAndContinues(h, m, a, g)
      BY <1>2
    <2> DEFINE r == [k \in 0 .. (m + 1) |-> IF k <= m THEN h[k] ELSE g[h[m]]]
    <2>2. r \in [0 .. (m + 1) -> S]
      OBVIOUS
    <2>3. r[0] = a
      BY <2>1 DEF StartsAndContinues
    <2>4. ASSUME NEW k \in 0 .. m PROVE r[k + 1] = g[r[k]]
      <3>1. CASE k = m
        BY <3>1
      <3>2. CASE k \in 0 .. (m - 1)
        BY <2>1, <3>2 DEF StartsAndContinues
      <3> QED
        BY <3>1, <3>2
    <2>5. StartsAndContinues(r, m + 1, a, g)
      <3>1. 0 .. ((m + 1) - 1) = 0 .. m
        OBVIOUS
      <3> HIDE DEF r
      <3> QED
        BY <2>3, <2>4, <3>1 DEF StartsAndContinues
    <2> QED
      BY <2>2, <2>5
  <1> HIDE DEF Reached
  <1>3. T = {}
    <2> SUFFICES ASSUME T # {} PROVE FALSE
      OBVIOUS
    <2>1. PICK m \in T : \A k \in T : m <= k
      BY Smallest
    <2>2. m # 0 /\ m - 1 \in Nat /\ (m - 1) + 1 = m
      BY <1>1
    <2>3. m - 1 \notin T
      BY <2>1, <2>2
    <2> QED
      BY <1>2, <2>2, <2>3
  <1>4. Reached(n)
    BY <1>3
  <1> QED
    BY <1>4 DEF Reached

\* Two of them agree as far as both get.
LEMMA RecursionAgrees ==
    ASSUME NEW a, NEW g, NEW m \in Nat, NEW n \in Nat, m <= n, NEW h, NEW r,
           StartsAndContinues(h, m, a, g), StartsAndContinues(r, n, a, g)
    PROVE  h[m] = r[m]
  <1> DEFINE T == {k \in Nat : k <= m /\ h[k] # r[k]}
  <1>1. T = {}
    <2> SUFFICES ASSUME T # {} PROVE FALSE
      OBVIOUS
    <2>1. PICK k \in T : \A j \in T : k <= j
      BY Smallest
    <2>2. k # 0
      BY <2>1 DEF StartsAndContinues
    <2>3. /\ k - 1 \in Nat /\ (k - 1) + 1 = k
          /\ k - 1 \in 0 .. (m - 1) /\ k - 1 \in 0 .. (n - 1)
      BY <2>2
    <2>4. h[k - 1] = r[k - 1]
      BY <2>1, <2>3
    <2>5. h[k] = g[h[k - 1]] /\ r[k] = g[r[k - 1]]
      BY <2>3 DEF StartsAndContinues
    <2> QED
      BY <2>4, <2>5
  <1> QED
    BY <1>1

\* f is repeated application of g to a.
Repeats(f, S, a, g) ==
    f \in [Nat -> S] /\ f[0] = a /\ \A k \in Nat : f[k + 1] = g[f[k]]

LEMMA Recursion ==
    ASSUME NEW S, NEW a \in S, NEW g \in [S -> S]
    PROVE  \E f : Repeats(f, S, a, g)
  <1> DEFINE Reach(n) == {h \in [0 .. n -> S] : StartsAndContinues(h, n, a, g)}
             Upto(n) == CHOOSE h \in Reach(n) : TRUE
             f == [n \in Nat |-> Upto(n)[n]]
  <1>1. ASSUME NEW n \in Nat
        PROVE  Upto(n) \in [0 .. n -> S] /\ StartsAndContinues(Upto(n), n, a, g)
    BY RecursionReaches
  <1> HIDE DEF Upto
  <1>2. f \in [Nat -> S]
    BY <1>1
  <1>3. f[0] = a
    BY <1>1 DEF StartsAndContinues
  <1>4. ASSUME NEW k \in Nat PROVE f[k + 1] = g[f[k]]
    <2>1. Upto(k)[k] = Upto(k + 1)[k]
      BY <1>1, RecursionAgrees
    <2>2. Upto(k + 1)[k + 1] = g[Upto(k + 1)[k]]
      BY <1>1 DEF StartsAndContinues
    <2> QED
      BY <2>1, <2>2
  <1>5. Repeats(f, S, a, g)
    BY <1>2, <1>3, <1>4 DEF Repeats
  <1> QED
    BY <1>5

-----------------------------------------------------------------------------
(***************************************************************************)
(* Concatenations that agree, and whose first parts are of one length,     *)
(* agree in both parts.                                                    *)
(***************************************************************************)
LEMMA SplitsAlike ==
    ASSUME NEW S, NEW s \in Seq(S), NEW t \in Seq(S), NEW u \in Seq(S), NEW v \in Seq(S),
           s \o u = t \o v, Len(s) = Len(t)
    PROVE  s = t /\ u = v
  <1>1. /\ Len(s \o u) = Len(s) + Len(u) /\ Len(t \o v) = Len(t) + Len(v)
        /\ Len(s) \in Nat /\ Len(t) \in Nat /\ Len(u) \in Nat /\ Len(v) \in Nat
    <2>1. Len(s \o u) = Len(s) + Len(u)
      BY ConcatProperties
    <2>2. Len(t \o v) = Len(t) + Len(v)
      BY ConcatProperties
    <2>3. Len(s) \in Nat /\ Len(t) \in Nat /\ Len(u) \in Nat /\ Len(v) \in Nat
      OBVIOUS
    <2> QED
      BY <2>1, <2>2, <2>3
  <1>2. Len(u) = Len(v)
    BY <1>1
  <1>3. \A i \in 1 .. Len(s) + Len(u) :
            (IF i <= Len(s) THEN s[i] ELSE u[i - Len(s)])
                = (IF i <= Len(s) THEN t[i] ELSE v[i - Len(s)])
    <2>1. \A i \in 1 .. Len(s) + Len(u) :
              (s \o u)[i] = IF i <= Len(s) THEN s[i] ELSE u[i - Len(s)]
      BY ConcatProperties
    <2>2. \A i \in 1 .. Len(t) + Len(v) :
              (t \o v)[i] = IF i <= Len(t) THEN t[i] ELSE v[i - Len(t)]
      BY ConcatProperties
    <2> QED
      BY <1>2, <2>1, <2>2
  <1>4. ASSUME NEW i \in 1 .. Len(s) PROVE s[i] = t[i]
    <2>1. i \in 1 .. Len(s) + Len(u) /\ i <= Len(s)
      BY <1>1
    <2> QED
      BY <1>3, <2>1
  <1>5. ASSUME NEW i \in 1 .. Len(u) PROVE u[i] = v[i]
    <2> DEFINE k == i + Len(s)
    <2>1. /\ k \in 1 .. Len(s) + Len(u) /\ ~(k <= Len(s)) /\ k - Len(s) = i
      BY <1>1
    <2> HIDE DEF k
    <2> QED
      BY <1>3, <2>1
  <1>6. s = t
    BY <1>4, SeqEqual
  <1>7. u = v
    BY <1>2, <1>5, SeqEqual
  <1> QED
    BY <1>6, <1>7

=============================================================================
