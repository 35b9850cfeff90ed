---------------------------- MODULE ListRootProofs ----------------------------
(***************************************************************************)
(* ListRoot for lists of every length: the loop over layers computes the   *)
(* root of the binary tree, and the root identifies the list.              *)
(***************************************************************************)
EXTENDS ListRoot, Facts

-----------------------------------------------------------------------------
(***************************************************************************)
(* Powers of two.                                                          *)
(***************************************************************************)
LEMMA TwoToRecursive ==
    /\ TwoTo \in [Nat -> Nat]
    /\ TwoTo[0] = 1
    /\ \A l \in Nat : TwoTo[l + 1] = 2 * TwoTo[l]
  <1> DEFINE double == [x \in Nat |-> 2 * x]
  <1>1. double \in [Nat -> Nat]
    OBVIOUS
  <1>2. PICK f : Repeats(f, Nat, 1, double)
    <2> HIDE DEF double
    <2> QED
      BY <1>1, Recursion
  <1>3. f \in [Nat -> Nat] /\ f[0] = 1 /\ \A l \in Nat : f[l + 1] = 2 * f[l]
    BY <1>2 DEF Repeats
  <1>4. f = [l \in Nat |-> IF l = 0 THEN 1 ELSE 2 * f[l - 1]]
    <2>1. ASSUME NEW l \in Nat PROVE f[l] = IF l = 0 THEN 1 ELSE 2 * f[l - 1]
      <3>1. CASE l = 0
        BY <1>3, <3>1
      <3>2. CASE l # 0
        <4>1. l - 1 \in Nat /\ (l - 1) + 1 = l
          BY <3>2
        <4> QED
          BY <1>3, <3>2, <4>1
      <3> QED
        BY <3>1, <3>2
    <2> QED
      BY <1>3, <2>1
  <1>5. TwoTo = [l \in Nat |-> IF l = 0 THEN 1 ELSE 2 * TwoTo[l - 1]]
    BY <1>4 DEF TwoTo
  <1>6. TwoTo[0] = 1
    BY <1>5
  <1>7. ASSUME NEW l \in Nat PROVE TwoTo[l + 1] = 2 * TwoTo[l]
    <2>1. l + 1 \in Nat /\ l + 1 # 0 /\ (l + 1) - 1 = l
      OBVIOUS
    <2> QED
      BY <1>5, <2>1
  <1>8. \A l \in Nat : TwoTo[l] \in Nat
    <2> DEFINE T == {l \in Nat : TwoTo[l] \notin Nat}
    <2>1. T = {}
      <3> SUFFICES ASSUME T # {} PROVE FALSE
        OBVIOUS
      <3>1. PICK l \in T : \A k \in T : l <= k
        BY Smallest
      <3>2. l # 0
        BY <1>6
      <3>3. l - 1 \in Nat /\ (l - 1) + 1 = l /\ l - 1 \notin T
        BY <3>1, <3>2
      <3>4. TwoTo[l - 1] \in Nat /\ TwoTo[l] = 2 * TwoTo[l - 1]
        BY <1>7, <3>3
      <3> QED
        BY <3>4
    <2> QED
      BY <2>1
  <1> QED
    BY <1>5, <1>6, <1>7, <1>8

\* A power of two exceeds its exponent.
LEMMA TwoToExceeds ==
    \A l \in Nat : TwoTo[l] \in Nat /\ TwoTo[l] > l
  <1> DEFINE T == {l \in Nat : ~(TwoTo[l] > l)}
  <1>1. \A l \in Nat : TwoTo[l] \in Nat
    BY TwoToRecursive
  <1>2. T = {}
    <2> SUFFICES ASSUME T # {} PROVE FALSE
      OBVIOUS
    <2>1. PICK l \in T : \A k \in T : l <= k
      BY Smallest
    <2>2. l # 0
      BY TwoToRecursive
    <2>3. l - 1 \in Nat /\ (l - 1) + 1 = l /\ l - 1 \notin T
      BY <2>1, <2>2
    <2>4. TwoTo[l - 1] > l - 1 /\ TwoTo[l] = 2 * TwoTo[l - 1]
      BY <2>3, TwoToRecursive
    <2> QED
      BY <1>1, <2>3, <2>4
  <1> QED
    BY <1>1, <1>2

-----------------------------------------------------------------------------
(***************************************************************************)
(* The places of a level.                                                  *)
(***************************************************************************)
\* With no string at level 0 left out.
LEMMA LowestPlaces ==
    ASSUME NEW n \in Nat
    PROVE  Places(n, 0) = 1 .. n
  BY TwoToRecursive DEF Places

\* Every node has a left half, and a right half when that covers a string;
\* every half has a node.
LEMMA Halves ==
    ASSUME NEW n \in Nat, NEW l \in Nat
    PROVE  /\ \A i \in Places(n, l + 1) : i \in Nat /\ 2 * i - 1 \in Places(n, l)
           /\ \A i \in Nat : 2 * i \in Places(n, l) => i \in Places(n, l + 1)
           /\ \A i \in Nat : 2 * i - 1 \in Places(n, l) => i \in Places(n, l + 1)
  <1> DEFINE p == TwoTo[l]
             q == TwoTo[l + 1]
  <1>1. p \in Nat /\ p > 0 /\ q = 2 * p
    BY TwoToExceeds, TwoToRecursive
  <1>2. \A i : i \in Places(n, l) <=> i \in 1 .. n /\ (i - 1) * p < n
    BY DEF Places
  <1>3. \A i : i \in Places(n, l + 1) <=> i \in 1 .. n /\ (i - 1) * q < n
    BY DEF Places
  <1> HIDE DEF p, q
  <1>4. ASSUME NEW i \in Nat \ {0}
        PROVE  /\ (i - 1) * q = (2 * i - 2) * p
               /\ (2 * i - 1) * p = (2 * i - 2) * p + p
               /\ (2 * i - 2) * p >= 2 * i - 2
               /\ (2 * i - 2) * p \in Nat
    <2>1. PICK k \in Nat : i = k + 1
      <3>1. i - 1 \in Nat /\ i = (i - 1) + 1
        OBVIOUS
      <3> QED
        BY <3>1
    <2>2. 2 * i - 2 = 2 * k /\ i - 1 = k /\ 2 * i - 1 = 2 * k + 1
      BY <2>1
    <2>3. k * q = 2 * (k * p) /\ (2 * k) * p = 2 * (k * p) /\ (2 * k + 1) * p = 2 * (k * p) + p
      BY <1>1
    <2>4. k * p \in Nat /\ k * p >= k
      <3>1. k * 1 <= k * p
        BY <1>1, TimesMonotone
      <3> QED
        BY <1>1, <3>1
    <2> HIDE DEF p, q
    <2> QED
      BY <1>1, <2>1, <2>2, <2>3, <2>4
  <1>5. ASSUME NEW i \in Places(n, l + 1) PROVE i \in Nat /\ 2 * i - 1 \in Places(n, l)
    <2>1. i \in 1 .. n /\ (i - 1) * q < n
      BY <1>3, <1>5
    <2>2. (2 * i - 2) * p < n /\ 2 * i - 2 < n
      BY <1>4, <2>1
    <2>3. 2 * i - 1 \in 1 .. n /\ (2 * i - 1) - 1 = 2 * i - 2
      BY <2>1, <2>2
    <2> QED
      BY <1>2, <2>1, <2>2, <2>3
  <1>6. ASSUME NEW i \in Nat, 2 * i - 1 \in Places(n, l) PROVE i \in Places(n, l + 1)
    <2>1. 2 * i - 1 \in 1 .. n /\ ((2 * i - 1) - 1) * p < n
      BY <1>2, <1>6
    <2>2. i \in 1 .. n /\ (2 * i - 1) - 1 = 2 * i - 2
      BY <2>1
    <2>3. (i - 1) * q < n
      BY <1>4, <2>1, <2>2
    <2> QED
      BY <1>3, <2>2, <2>3
  <1>7. ASSUME NEW i \in Nat, 2 * i \in Places(n, l) PROVE i \in Places(n, l + 1)
    <2>1. 2 * i \in 1 .. n /\ (2 * i - 1) * p < n
      BY <1>2, <1>7
    <2>2. i \in 1 .. n
      BY <2>1
    <2>3. (i - 1) * q < n
      BY <1>1, <1>4, <2>1, <2>2
    <2> QED
      BY <1>3, <2>2, <2>3
  <1> QED
    BY <1>5, <1>6, <1>7

\* A level that reaches the whole list has one node.
LEMMA TopPlace ==
    ASSUME NEW n \in Nat \ {0}, NEW l \in Nat, TwoTo[l] >= n
    PROVE  Places(n, l) = {1}
  <1> DEFINE p == TwoTo[l]
  <1>1. p \in Nat /\ p >= n
    BY TwoToExceeds
  <1>2. Places(n, l) = {i \in 1 .. n : (i - 1) * p < n}
    BY DEF Places
  <1> HIDE DEF p
  <1>3. 1 \in 1 .. n /\ (1 - 1) * p < n
    BY <1>1
  <1>4. ASSUME NEW i \in 1 .. n, i # 1 PROVE ~((i - 1) * p < n)
    <2>1. i - 1 \in Nat /\ 1 <= i - 1
      BY <1>4
    <2>2. p * 1 <= p * (i - 1)
      BY <1>1, <2>1, TimesMonotone
    <2>3. p * (i - 1) = (i - 1) * p /\ p * 1 = p /\ (i - 1) * p \in Nat
      BY <1>1, <2>1
    <2> QED
      BY <1>1, <2>2, <2>3
  <1> QED
    BY <1>2, <1>3, <1>4
-----------------------------------------------------------------------------
(***************************************************************************)
(* The levels of the tree exist: each is a function of the one below, and  *)
(* those that climb m levels agree with those that climb further.          *)
(***************************************************************************)
Lowest(s) == [i \in Places(Len(s), 0) |-> Digest(s[i])]

Above(n, l, below) ==
    [i \in Places(n, l + 1) |->
        DigestOfTwo(below[2 * i - 1],
                    below[IF 2 * i \in Places(n, l) THEN 2 * i ELSE 2 * i - 1])]

Climbs(h, m, s) ==
    h[0] = Lowest(s) /\ \A k \in 0 .. (m - 1) : h[k + 1] = Above(Len(s), k, h[k])

LEMMA ClimbReaches ==
    ASSUME NEW s, NEW n \in Nat
    PROVE  \E h : Climbs(h, n, s)
  <1> DEFINE Reached(m) == \E h : Climbs(h, m, s)
             T == {m \in Nat : ~Reached(m)}
  <1>1. Reached(0)
    <2> DEFINE h == [k \in 0 .. 0 |-> Lowest(s)]
    <2>1. Climbs(h, 0, s)
      BY DEF Climbs
    <2> QED
      BY <2>1
  <1>2. ASSUME NEW m \in Nat, Reached(m) PROVE Reached(m + 1)
    <2>1. PICK h : Climbs(h, m, s)
      BY <1>2
    <2> DEFINE r == [k \in 0 .. (m + 1) |-> IF k <= m THEN h[k] ELSE Above(Len(s), m, h[m])]
    <2>2. r[0] = Lowest(s)
      BY <2>1 DEF Climbs
    <2>3. ASSUME NEW k \in 0 .. m PROVE r[k + 1] = Above(Len(s), k, r[k])
      <3>1. CASE k = m
        BY <3>1
      <3>2. CASE k \in 0 .. (m - 1)
        BY <2>1, <3>2 DEF Climbs
      <3> QED
        BY <3>1, <3>2
    <2>4. Climbs(r, m + 1, s)
      <3>1. 0 .. ((m + 1) - 1) = 0 .. m
        OBVIOUS
      <3> HIDE DEF r
      <3> QED
        BY <2>2, <2>3, <3>1 DEF Climbs
    <2> QED
      BY <2>4
  <1> HIDE DEF Reached
  <1>3. T = {}
    <2> SUFFICES ASSUME T # {} PROVE FALSE
      OBVIOUS
    <2>1. PICK m \in T : \A k \in T : m <= k
      BY Smallest
    <2>2. m # 0 /\ m - 1 \in Nat /\ (m - 1) + 1 = m
      BY <1>1
    <2>3. m - 1 \notin T
      BY <2>1, <2>2
    <2> QED
      BY <1>2, <2>2, <2>3
  <1>4. Reached(n)
    BY <1>3
  <1> QED
    BY <1>4 DEF Reached

LEMMA ClimbAgrees ==
    ASSUME NEW s, NEW m \in Nat, NEW n \in Nat, m <= n, NEW h, NEW r,
           Climbs(h, m, s), Climbs(r, n, s)
    PROVE  h[m] = r[m]
  <1> DEFINE T == {k \in Nat : k <= m /\ h[k] # r[k]}
  <1>1. T = {}
    <2> SUFFICES ASSUME T # {} PROVE FALSE
      OBVIOUS
    <2>1. PICK k \in T : \A j \in T : k <= j
      BY Smallest
    <2>2. k # 0
      BY <2>1 DEF Climbs
    <2>3. /\ k - 1 \in Nat /\ (k - 1) + 1 = k
          /\ k - 1 \in 0 .. (m - 1) /\ k - 1 \in 0 .. (n - 1)
      BY <2>2
    <2>4. h[k - 1] = r[k - 1]
      BY <2>1, <2>3
    <2>5. /\ h[k] = Above(Len(s), k - 1, h[k - 1])
          /\ r[k] = Above(Len(s), k - 1, r[k - 1])
      BY <2>3 DEF Climbs
    <2> QED
      BY <2>4, <2>5
  <1> QED
    BY <1>1

\* The levels, as the definition has them.
LEMMA LevelsRecursive ==
    ASSUME NEW s
    PROVE  /\ Levels(s)[0] = Lowest(s)
           /\ \A l \in Nat : Levels(s)[l + 1] = Above(Len(s), l, Levels(s)[l])
  <1> DEFINE Upto(n) == CHOOSE h : Climbs(h, n, s)
             f == [n \in Nat |-> Upto(n)[n]]
             Body(g, l) ==
                [i \in Places(Len(s), l) |->
                    IF l = 0 THEN Digest(s[i])
                    ELSE DigestOfTwo(g[l - 1][2 * i - 1],
                             g[l - 1][IF 2 * i \in Places(Len(s), l - 1)
                                      THEN 2 * i ELSE 2 * i - 1])]
  <1>1. ASSUME NEW n \in Nat PROVE Climbs(Upto(n), n, s)
    BY ClimbReaches
  <1> HIDE DEF Upto
  <1>2. f[0] = Lowest(s)
    BY <1>1 DEF Climbs
  <1>3. ASSUME NEW l \in Nat PROVE f[l + 1] = Above(Len(s), l, f[l])
    <2>1. Upto(l)[l] = Upto(l + 1)[l]
      BY <1>1, ClimbAgrees
    <2>2. Upto(l + 1)[l + 1] = Above(Len(s), l, Upto(l + 1)[l])
      BY <1>1 DEF Climbs
    <2> QED
      BY <2>1, <2>2
  <1>4. ASSUME NEW g PROVE Body(g, 0) = Lowest(s)
    BY DEF Lowest
  <1>5. ASSUME NEW g, NEW l \in Nat PROVE Body(g, l + 1) = Above(Len(s), l, g[l])
    <2>1. l + 1 # 0 /\ (l + 1) - 1 = l
      OBVIOUS
    <2> QED
      BY <2>1 DEF Above
  <1>6. f = [l \in Nat |-> Body(f, l)]
    <2>1. ASSUME NEW l \in Nat PROVE f[l] = Body(f, l)
      <3>1. CASE l = 0
        BY <1>2, <1>4, <3>1
      <3>2. CASE l # 0
        <4>1. l - 1 \in Nat /\ (l - 1) + 1 = l
          BY <3>2
        <4> HIDE DEF Body, f
        <4>2. Body(f, l) = Above(Len(s), l - 1, f[l - 1])
          BY <1>5, <4>1
        <4> QED
          BY <1>3, <4>1, <4>2
      <3> QED
        BY <3>1, <3>2
    <2>2. f = [l \in Nat |-> f[l]]
      OBVIOUS
    <2> HIDE DEF Body, f
    <2> QED
      BY <2>1, <2>2
  <1>7. Levels(s) = [l \in Nat |-> Body(Levels(s), l)]
    <2> HIDE DEF f
    <2> QED
      BY <1>6 DEF Levels
  <1> HIDE DEF Body, f
  <1>8. Levels(s)[0] = Lowest(s)
    BY <1>4, <1>7
  <1>9. ASSUME NEW l \in Nat PROVE Levels(s)[l + 1] = Above(Len(s), l, Levels(s)[l])
    BY <1>5, <1>7
  <1> QED
    BY <1>8, <1>9
-----------------------------------------------------------------------------
(***************************************************************************)
(* Digests are injective, and those of strings, those of two digests and   *)
(* the zeros differ.                                                       *)
(***************************************************************************)
LEMMA DigestsTell ==
    /\ \A x, y : Digest(x) = Digest(y) => x = y
    /\ \A a, b, c, d : DigestOfTwo(a, b) = DigestOfTwo(c, d) => a = c /\ b = d
    /\ \A x, a, b : Digest(x) # DigestOfTwo(a, b)
    /\ \A x : Digest(x) # Zeros /\ Digest(x) # <<>>
    /\ \A a, b : DigestOfTwo(a, b) # Zeros /\ DigestOfTwo(a, b) # <<>>
    /\ Zeros # <<>>
  <1>1. \A x, y : Digest(x) = Digest(y) => x = y
    BY DEF Digest
  <1>2. \A a, b, c, d : DigestOfTwo(a, b) = DigestOfTwo(c, d) => a = c /\ b = d
    BY DEF DigestOfTwo
  <1>3. \A x, a, b : Digest(x) # DigestOfTwo(a, b)
    BY DEF Digest, DigestOfTwo
  <1>4. \A x : Digest(x) # Zeros /\ Digest(x) # <<>>
    BY DEF Digest, Zeros
  <1>5. \A a, b : DigestOfTwo(a, b) # Zeros /\ DigestOfTwo(a, b) # <<>>
    BY DEF DigestOfTwo, Zeros
  <1>6. Zeros # <<>>
    BY DEF Zeros
  <1> QED
    BY <1>1, <1>2, <1>3, <1>4, <1>5, <1>6

-----------------------------------------------------------------------------
(***************************************************************************)
(* The tree over a list of distinct strings.                               *)
(***************************************************************************)
\* s is a list of n distinct strings.
IsList(s, n) ==
    /\ n \in Nat /\ s \in [1 .. n -> Strings] /\ Len(s) = n
    /\ \A i, j \in 1 .. n : s[i] = s[j] => i = j

LEMMA ListsAre ==
    ASSUME NEW s \in Lists
    PROVE  \E n \in Nat : IsList(s, n)
  <1>1. PICK n \in 0 .. MaxLen : s \in [1 .. n -> Strings]
    BY DEF Lists
  <1>2. n \in Nat
    BY ListRootAssumption
  <1>3. \A i, j \in 1 .. n : s[i] = s[j] => i = j
    BY <1>1 DEF Lists
  <1>4. Len(s) = n
    BY <1>1, <1>2
  <1> QED
    BY <1>1, <1>2, <1>3, <1>4 DEF IsList

LEMMA EmptyList ==
    ASSUME NEW s, NEW n, IsList(s, n)
    PROVE  s = <<>> <=> n = 0
  BY DEF IsList

\* What the levels hold.
LEMMA LevelValues ==
    ASSUME NEW s, NEW n, IsList(s, n)
    PROVE  /\ \A i \in 1 .. n : Levels(s)[0][i] = Digest(s[i])
           /\ \A l \in Nat : \A i \in Places(n, l + 1) :
                 Levels(s)[l + 1][i]
                     = DigestOfTwo(Levels(s)[l][2 * i - 1],
                           Levels(s)[l][IF 2 * i \in Places(n, l) THEN 2 * i ELSE 2 * i - 1])
  <1>1. n \in Nat /\ Len(s) = n /\ Places(n, 0) = 1 .. n
    BY LowestPlaces DEF IsList
  <1>2. ASSUME NEW i \in 1 .. n PROVE Levels(s)[0][i] = Digest(s[i])
    BY <1>1, LevelsRecursive DEF Lowest
  <1>3. ASSUME NEW l \in Nat, NEW i \in Places(n, l + 1)
        PROVE  Levels(s)[l + 1][i]
                   = DigestOfTwo(Levels(s)[l][2 * i - 1],
                         Levels(s)[l][IF 2 * i \in Places(n, l) THEN 2 * i ELSE 2 * i - 1])
    <2>1. Levels(s)[l + 1] = Above(n, l, Levels(s)[l])
      BY <1>1, LevelsRecursive
    <2> QED
      BY <2>1 DEF Above
  <1> QED
    BY <1>2, <1>3

\* No two nodes of a level have the same digest.
LEMMA LevelInjective ==
    ASSUME NEW s, NEW n, IsList(s, n), NEW l \in Nat
    PROVE  \A i, j \in Places(n, l) : Levels(s)[l][i] = Levels(s)[l][j] => i = j
  <1> DEFINE Injective(k) ==
                \A i, j \in Places(n, k) : Levels(s)[k][i] = Levels(s)[k][j] => i = j
             T == {k \in Nat : ~Injective(k)}
  <1>1. n \in Nat
    BY DEF IsList
  <1>2. Injective(0)
    <2> SUFFICES ASSUME NEW i \in 1 .. n, NEW j \in 1 .. n, Levels(s)[0][i] = Levels(s)[0][j]
                 PROVE  i = j
      BY <1>1, LowestPlaces
    <2>1. Digest(s[i]) = Digest(s[j])
      BY LevelValues
    <2> QED
      BY <2>1, DigestsTell DEF IsList
  <1>3. ASSUME NEW k \in Nat, Injective(k) PROVE Injective(k + 1)
    <2> SUFFICES ASSUME NEW i \in Places(n, k + 1), NEW j \in Places(n, k + 1),
                        Levels(s)[k + 1][i] = Levels(s)[k + 1][j]
                 PROVE  i = j
      OBVIOUS
    <2>1. Levels(s)[k][2 * i - 1] = Levels(s)[k][2 * j - 1]
      BY LevelValues, DigestsTell
    <2>2. /\ 2 * i - 1 \in Places(n, k) /\ 2 * j - 1 \in Places(n, k)
          /\ i \in Nat /\ j \in Nat
      BY <1>1, Halves
    <2>3. 2 * i - 1 = 2 * j - 1
      BY <1>3, <2>1, <2>2
    <2> QED
      BY <2>2, <2>3
  <1> HIDE DEF Injective
  <1>4. T = {}
    <2> SUFFICES ASSUME T # {} PROVE FALSE
      OBVIOUS
    <2>1. PICK k \in T : \A m \in T : k <= m
      BY Smallest
    <2>2. k # 0 /\ k - 1 \in Nat /\ (k - 1) + 1 = k
      BY <1>2
    <2>3. k - 1 \notin T
      BY <2>1, <2>2
    <2> QED
      BY <1>3, <2>2, <2>3
  <1>5. Injective(l)
    BY <1>4
  <1> QED
    BY <1>5 DEF Injective

\* The lowest level with one node: it is there, and it is one.
LEMMA DepthIs ==
    ASSUME NEW s, NEW n \in Nat \ {0}, Len(s) = n
    PROVE  /\ Depth(s) \in 0 .. n /\ TwoTo[Depth(s)] >= n
           /\ \A l \in Nat : TwoTo[l] >= n /\ (\A k \in 0 .. (l - 1) : TwoTo[k] < n) => l = Depth(s)
  <1> DEFINE Fits(l) == TwoTo[l] >= n /\ \A k \in 0 .. (l - 1) : TwoTo[k] < n
             T == {l \in Nat : TwoTo[l] >= n}
  <1>1. n \in T
    BY TwoToExceeds
  <1>2. PICK l \in T : \A k \in T : l <= k
    BY <1>1, Smallest
  <1>3. l \in 0 .. n
    BY <1>1, <1>2
  <1>4. ASSUME NEW k \in 0 .. (l - 1) PROVE TwoTo[k] < n
    <2>1. k \in Nat /\ k \notin T
      BY <1>2
    <2> QED
      BY <2>1, TwoToExceeds
  <1>5. Fits(l)
    BY <1>2, <1>4
  <1>6. Depth(s) = CHOOSE m \in 0 .. n : Fits(m)
    BY DEF Depth
  <1>7. ASSUME NEW m \in Nat, NEW k \in Nat, Fits(m), Fits(k) PROVE ~(m < k)
    <2>1. m < k => m \in 0 .. (k - 1)
      OBVIOUS
    <2> QED
      BY <1>7, <2>1, TwoToExceeds
  <1> HIDE DEF Fits
  <1>8. Depth(s) \in 0 .. n /\ Fits(Depth(s))
    BY <1>3, <1>5, <1>6
  <1>9. ASSUME NEW m \in Nat, Fits(m) PROVE m = Depth(s)
    <2>1. Depth(s) \in Nat
      BY <1>8
    <2>2. ~(m < Depth(s)) /\ ~(Depth(s) < m)
      BY <1>7, <1>8, <1>9, <2>1
    <2> QED
      BY <2>1, <2>2
  <1> QED
    BY <1>8, <1>9 DEF Fits
-----------------------------------------------------------------------------
(***************************************************************************)
(* The root identifies the list.                                           *)
(***************************************************************************)
\* A tree's root is not an inner node of the left edge of another.
LEMMA DepthsAlike ==
    ASSUME NEW s, NEW t, NEW m, NEW n, IsList(s, m), IsList(t, n), m # 0, n # 0,
           NEW d \in Nat, NEW e \in Nat, d < e,
           Levels(s)[d][1] = Levels(t)[e][1]
    PROVE  FALSE
  <1>1. m \in Nat \ {0} /\ n \in Nat \ {0}
    BY DEF IsList
  <1>2. PICK x \in Nat : x > 0 /\ e = d + x
    <2>1. e - d \in Nat /\ e - d > 0 /\ e = d + (e - d)
      OBVIOUS
    <2> QED
      BY <2>1
  <1>3. \A l \in Nat : 1 \in Places(m, l) /\ 1 \in Places(n, l)
    BY <1>1, TwoToExceeds DEF Places
  <1>4. ASSUME NEW l \in Nat, Levels(s)[l + 1][1] = Levels(t)[l + 1 + x][1]
        PROVE  Levels(s)[l][1] = Levels(t)[l + x][1]
    <2>1. l + x \in Nat /\ l + 1 + x = (l + x) + 1 /\ 2 * 1 - 1 = 1
      BY <1>2
    <2>2. PICK a : Levels(s)[l + 1][1] = DigestOfTwo(Levels(s)[l][1], a)
      BY <1>3, <2>1, LevelValues
    <2>3. PICK b : Levels(t)[(l + x) + 1][1] = DigestOfTwo(Levels(t)[l + x][1], b)
      BY <1>3, <2>1, LevelValues
    <2> QED
      <3>1. Levels(s)[l + 1][1] = Levels(t)[(l + x) + 1][1]
        BY <1>4, <2>1
      <3>2. DigestOfTwo(Levels(s)[l][1], a) = DigestOfTwo(Levels(t)[l + x][1], b)
        BY <2>2, <2>3, <3>1
      <3> QED
        BY <3>2, DigestsTell
  <1> DEFINE T == {l \in 0 .. d : Levels(s)[l][1] # Levels(t)[l + x][1]}
  <1>5. T = {}
    <2> SUFFICES ASSUME T # {} PROVE FALSE
      OBVIOUS
    <2>1. PICK l \in T : \A k \in T : k <= l
      <3>1. T \in SUBSET Nat /\ \A k \in T : k <= d
        OBVIOUS
      <3> HIDE DEF T
      <3> QED
        BY <3>1, Largest
    <2>2. l # d
      BY <1>2
    <2>3. l \in Nat /\ l + 1 \in 0 .. d /\ l + 1 \notin T
      BY <2>1, <2>2
    <2> QED
      BY <1>4, <2>3
  <1>6. Levels(s)[0][1] = Levels(t)[0 + x][1]
    BY <1>5
  <1>7. Levels(s)[0][1] = Digest(s[1])
    BY <1>1, LevelValues
  <1>8. x - 1 \in Nat /\ 0 + x = (x - 1) + 1
    BY <1>2
  <1>9. PICK a, b : Levels(t)[(x - 1) + 1][1] = DigestOfTwo(a, b)
    BY <1>3, <1>8, LevelValues
  <1> QED
    <2>1. Digest(s[1]) = DigestOfTwo(a, b)
      BY <1>6, <1>7, <1>8, <1>9
    <2> QED
      BY <2>1, DigestsTell

\* Trees that agree in a level agree in the one below: a node with two
\* different halves is not one that counts its left half twice.
LEMMA BelowAlike ==
    ASSUME NEW s, NEW t, NEW m, NEW n, IsList(s, m), IsList(t, n), NEW l \in Nat,
           \A i \in Places(m, l + 1) :
               i \in Places(n, l + 1) /\ Levels(s)[l + 1][i] = Levels(t)[l + 1][i]
    PROVE  \A i \in Places(m, l) : i \in Places(n, l) /\ Levels(s)[l][i] = Levels(t)[l][i]
  <1>1. m \in Nat /\ n \in Nat
    BY DEF IsList
  <1>2. ASSUME NEW i \in Places(m, l + 1)
        PROVE  /\ i \in Nat /\ 2 * i - 1 \in Places(m, l) /\ 2 * i - 1 \in Places(n, l)
               /\ Levels(s)[l][2 * i - 1] = Levels(t)[l][2 * i - 1]
               /\ 2 * i \in Places(m, l) =>
                     2 * i \in Places(n, l) /\ Levels(s)[l][2 * i] = Levels(t)[l][2 * i]
    <2>1. /\ i \in Nat /\ 2 * i - 1 \in Places(m, l) /\ 2 * i - 1 \in Places(n, l)
          /\ i \in Places(n, l + 1)
      BY <1>1, Halves
    <2>2. /\ Levels(s)[l][2 * i - 1] = Levels(t)[l][2 * i - 1]
          /\ Levels(s)[l][IF 2 * i \in Places(m, l) THEN 2 * i ELSE 2 * i - 1]
                = Levels(t)[l][IF 2 * i \in Places(n, l) THEN 2 * i ELSE 2 * i - 1]
      BY <2>1, LevelValues, DigestsTell
    <2>3. ASSUME 2 * i \in Places(m, l), 2 * i \notin Places(n, l) PROVE FALSE
      <3>1. Levels(s)[l][2 * i] = Levels(s)[l][2 * i - 1]
        BY <2>2, <2>3
      <3>2. 2 * i = 2 * i - 1
        BY <2>1, <2>3, <3>1, LevelInjective
      <3> QED
        BY <2>1, <3>2
    <2> QED
      BY <2>1, <2>2, <2>3
  <1>3. ASSUME NEW j \in Places(m, l)
        PROVE  j \in Places(n, l) /\ Levels(s)[l][j] = Levels(t)[l][j]
    <2>1. j \in Nat /\ j >= 1
      BY DEF Places
    <2>2. PICK i \in Nat : j = 2 * i \/ j = 2 * i - 1
      <3>1. /\ (j + 1) \div 2 \in Nat
            /\ j = 2 * ((j + 1) \div 2) \/ j = 2 * ((j + 1) \div 2) - 1
        BY <2>1
      <3> QED
        BY <3>1
    <2>3. i \in Places(m, l + 1)
      BY <1>1, <2>2, Halves
    <2> QED
      BY <1>2, <2>2, <2>3
  <1> QED
    BY <1>3

\* Lists with the same root are the same.
LEMMA RootTells ==
    ASSUME NEW s \in Lists, NEW t \in Lists, Reference(s) = Reference(t)
    PROVE  s = t
  <1>1. PICK m \in Nat, n \in Nat : IsList(s, m) /\ IsList(t, n)
    BY ListsAre
  <1>2. ASSUME NEW u, NEW k, IsList(u, k), k # 0
        PROVE  /\ k \in Nat \ {0} /\ Len(u) = k /\ u # <<>>
               /\ Depth(u) \in Nat /\ TwoTo[Depth(u)] >= k
               /\ Reference(u) = Levels(u)[Depth(u)][1] /\ Reference(u) # Zeros
    <2>1. k \in Nat \ {0} /\ Len(u) = k /\ u # <<>>
      BY <1>2, EmptyList DEF IsList
    <2>2. Depth(u) \in Nat /\ TwoTo[Depth(u)] >= k
      BY <2>1, DepthIs
    <2>3. Reference(u) = Levels(u)[Depth(u)][1]
      BY <2>1 DEF Reference
    <2>4. Levels(u)[Depth(u)][1] # Zeros
      <3>1. CASE Depth(u) = 0
        <4>1. 1 \in 1 .. k
          BY <2>1
        <4>2. Levels(u)[0][1] = Digest(u[1])
          BY <1>2, <4>1, LevelValues
        <4> QED
          BY <3>1, <4>2, DigestsTell
      <3>2. CASE Depth(u) # 0
        <4>1. PICK l \in Nat : Depth(u) = l + 1
          <5>1. Depth(u) - 1 \in Nat /\ Depth(u) = (Depth(u) - 1) + 1
            BY <2>2, <3>2
          <5> QED
            BY <5>1
        <4>2. 1 \in Places(k, l + 1)
          BY <2>1, TwoToExceeds DEF Places
        <4>3. PICK a, b : Levels(u)[l + 1][1] = DigestOfTwo(a, b)
          BY <1>2, <4>2, LevelValues
        <4> QED
          BY <4>1, <4>3, DigestsTell
      <3> QED
        BY <3>1, <3>2
    <2> QED
      BY <2>1, <2>2, <2>3, <2>4
  <1>3. CASE m = 0 \/ n = 0
    <2>1. m = 0 => Reference(s) = Zeros /\ s = <<>>
      BY <1>1, EmptyList DEF Reference
    <2>2. n = 0 => Reference(t) = Zeros /\ t = <<>>
      BY <1>1, EmptyList DEF Reference
    <2>3. m # 0 => Reference(s) # Zeros
      BY <1>1, <1>2
    <2>4. n # 0 => Reference(t) # Zeros
      BY <1>1, <1>2
    <2> QED
      BY <1>3, <2>1, <2>2, <2>3, <2>4
  <1>4. CASE m # 0 /\ n # 0
    <2>1. /\ m \in Nat \ {0} /\ n \in Nat \ {0}
          /\ Depth(s) \in Nat /\ Depth(t) \in Nat
          /\ TwoTo[Depth(s)] >= m /\ TwoTo[Depth(t)] >= n
          /\ Levels(s)[Depth(s)][1] = Levels(t)[Depth(t)][1]
      BY <1>1, <1>2, <1>4
    <2>2. ~(Depth(s) < Depth(t))
      BY <1>1, <1>4, <2>1, DepthsAlike
    <2>3. ~(Depth(t) < Depth(s))
      BY <1>1, <1>4, <2>1, DepthsAlike
    <2>4. PICK d \in Nat : Depth(s) = d /\ Depth(t) = d
      BY <2>1, <2>2, <2>3
    <2> DEFINE Alike(l) ==
                  /\ \A i \in Places(m, l) : i \in Places(n, l) /\ Levels(s)[l][i] = Levels(t)[l][i]
                  /\ \A i \in Places(n, l) : i \in Places(m, l) /\ Levels(s)[l][i] = Levels(t)[l][i]
               T == {l \in 0 .. d : ~Alike(l)}
    <2>5. Alike(d)
      <3>1. Places(m, d) = {1} /\ Places(n, d) = {1}
        BY <2>1, <2>4, TopPlace
      <3> QED
        BY <2>1, <2>4, <3>1
    <2>6. ASSUME NEW l \in Nat, Alike(l + 1) PROVE Alike(l)
      <3>1. \A i \in Places(m, l) : i \in Places(n, l) /\ Levels(s)[l][i] = Levels(t)[l][i]
        BY <1>1, <2>6, BelowAlike
      <3>2. \A i \in Places(n, l) : i \in Places(m, l) /\ Levels(t)[l][i] = Levels(s)[l][i]
        BY <1>1, <2>6, BelowAlike
      <3> QED
        BY <3>1, <3>2
    <2> HIDE DEF Alike
    <2>7. T = {}
      <3> SUFFICES ASSUME T # {} PROVE FALSE
        OBVIOUS
      <3>1. PICK l \in T : \A k \in T : k <= l
        <4>1. T \in SUBSET Nat /\ \A k \in T : k <= d
          OBVIOUS
        <4> HIDE DEF T
        <4> QED
          BY <4>1, Largest
      <3>2. l # d
        BY <2>5
      <3>3. l \in Nat /\ l + 1 \in 0 .. d /\ l + 1 \notin T
        BY <3>1, <3>2
      <3> QED
        BY <2>6, <3>3
    <2>8. Alike(0)
      BY <2>7
    <2>9. Places(m, 0) = 1 .. m /\ Places(n, 0) = 1 .. n
      BY LowestPlaces
    <2>10. m = n
      <3>1. m \in Places(m, 0) /\ n \in Places(n, 0)
        BY <2>1, <2>9
      <3>2. m \in Places(n, 0) /\ n \in Places(m, 0)
        BY <2>8, <3>1 DEF Alike
      <3> QED
        BY <2>1, <2>9, <3>2
    <2>11. ASSUME NEW i \in 1 .. n PROVE s[i] = t[i]
      <3>1. Levels(s)[0][i] = Levels(t)[0][i]
        BY <2>8, <2>9 DEF Alike
      <3>2. Levels(s)[0][i] = Digest(s[i]) /\ Levels(t)[0][i] = Digest(t[i])
        BY <1>1, <2>10, LevelValues
      <3> QED
        BY <3>1, <3>2, DigestsTell
    <2> QED
      BY <1>1, <2>10, <2>11 DEF IsList
  <1> QED
    BY <1>3, <1>4
-----------------------------------------------------------------------------
(***************************************************************************)
(* The loop.  Its layer is a level of the tree, and every level below had  *)
(* more than one node.                                                     *)
(***************************************************************************)
AtLevel(l, w) ==
    /\ layer = Levels(strings)[l]
    /\ Len(layer) = w
    /\ Places(Len(strings), l) = 1 .. w
    /\ \A k \in 0 .. (l - 1) : TwoTo[k] < Len(strings)

LoopInv ==
    /\ strings \in Lists
    /\ root \in {<<>>, Reference(strings)}
    /\ strings = <<>> => root = Zeros /\ Len(layer) = 0
    /\ strings # <<>> => \E l \in Nat, w \in Nat : AtLevel(l, w)

LEMMA LenOf ==
    ASSUME NEW n \in Nat, NEW f, f = [i \in 1 .. n |-> f[i]]
    PROVE  Len(f) = n
  <1> DEFINE S == {f[i] : i \in 1 .. n}
  <1>1. f \in [1 .. n -> S]
    OBVIOUS
  <1> HIDE DEF S
  <1> QED
    BY <1>1

LEMMA LoopInit == Init => LoopInv
  <1> SUFFICES ASSUME Init PROVE LoopInv
    OBVIOUS
  <1>1. strings \in Lists
    BY DEF Init
  <1>2. PICK n \in Nat : IsList(strings, n)
    BY <1>1, ListsAre
  <1>3. Len(strings) = n /\ DOMAIN strings = 1 .. n
    BY <1>2 DEF IsList
  <1>4. layer = [i \in 1 .. n |-> Digest(strings[i])]
    BY <1>3 DEF Init
  <1>5. Len(layer) = n
    BY <1>4, LenOf
  <1>6. CASE strings = <<>>
    <2>1. n = 0
      BY <1>2, <1>6, EmptyList
    <2>2. root = Zeros /\ Reference(strings) = Zeros
      BY <1>6 DEF Init, Reference
    <2> QED
      BY <1>1, <1>5, <1>6, <2>1, <2>2 DEF LoopInv
  <1>7. CASE strings # <<>>
    <2>1. root = <<>>
      BY <1>7 DEF Init
    <2>2. Places(n, 0) = 1 .. n
      BY LowestPlaces
    <2>3. Levels(strings)[0] = layer
      BY <1>3, <1>4, <2>2, LevelsRecursive DEF Lowest
    <2>4. AtLevel(0, n)
      BY <1>3, <1>5, <2>2, <2>3 DEF AtLevel
    <2> QED
      BY <1>1, <1>7, <2>1, <2>4 DEF LoopInv
  <1> QED
    BY <1>6, <1>7

\* A level with one node reaches the whole list, one with more does not.
LEMMA ReachesAll ==
    ASSUME NEW n \in Nat \ {0}, NEW l \in Nat, NEW w \in Nat, Places(n, l) = 1 .. w
    PROVE  w > 1 <=> TwoTo[l] < n
  <1> DEFINE p == TwoTo[l]
  <1>1. p \in Nat /\ p > 0
    BY TwoToExceeds
  <1>2. 2 \in Places(n, l) <=> 2 \in 1 .. n /\ (2 - 1) * p < n
    BY DEF Places
  <1> HIDE DEF p
  <1>3. (2 - 1) * p = p
    BY <1>1
  <1>4. 2 \in Places(n, l) <=> p < n
    BY <1>1, <1>2, <1>3
  <1> QED
    BY <1>4 DEF p

LEMMA CombineClimbs ==
    ASSUME LoopInv, NEW l \in Nat, NEW w \in Nat, AtLevel(l, w), strings # <<>>, NextLayer
    PROVE  \E v \in Nat : AtLevel(l + 1, v)'
  <1>1. PICK n \in Nat : IsList(strings, n)
    BY ListsAre DEF LoopInv
  <1>2. n \in Nat \ {0} /\ Len(strings) = n
    BY <1>1, EmptyList DEF IsList
  <1>3. /\ layer = Levels(strings)[l] /\ Len(layer) = w /\ Places(n, l) = 1 .. w
        /\ \A k \in 0 .. (l - 1) : TwoTo[k] < n
    BY <1>2 DEF AtLevel
  <1>4. w > 1 /\ layer' = Combine(layer) /\ strings' = strings
    BY <1>3 DEF NextLayer
  <1> DEFINE v == (w + 1) \div 2
  <1>5. v \in Nat /\ \A i \in Nat : i >= 1 => (i <= v <=> 2 * i - 1 <= w)
    OBVIOUS
  <1>6. Places(n, l + 1) = 1 .. v
    <2>1. ASSUME NEW i \in Places(n, l + 1) PROVE i \in 1 .. v
      <3>1. i \in Nat /\ i >= 1
        BY <1>2 DEF Places
      <3>2. 2 * i - 1 \in 1 .. w
        BY <1>2, <1>3, Halves
      <3> QED
        BY <1>5, <3>1, <3>2
    <2>2. ASSUME NEW i \in 1 .. v PROVE i \in Places(n, l + 1)
      <3>1. i \in Nat /\ 2 * i - 1 \in 1 .. w
        BY <1>5
      <3> QED
        BY <1>2, <1>3, <3>1, Halves
    <2> HIDE DEF v
    <2> QED
      BY <2>1, <2>2
  <1>7. layer' = [j \in 1 .. v |->
                    DigestOfTwo(layer[2 * j - 1], IF 2 * j <= w THEN layer[2 * j] ELSE layer[2 * j - 1])]
    BY <1>3, <1>4 DEF Combine
  <1> HIDE DEF v
  <1>8. Levels(strings)[l + 1]
          = [j \in 1 .. v |->
                DigestOfTwo(layer[2 * j - 1], layer[IF 2 * j \in 1 .. w THEN 2 * j ELSE 2 * j - 1])]
    <2>1. Levels(strings)[l + 1] = Above(n, l, layer)
      BY <1>2, <1>3, LevelsRecursive
    <2> QED
      BY <1>3, <1>6, <2>1 DEF Above
  <1>9. layer' = Levels(strings)[l + 1]
    <2>1. ASSUME NEW j \in 1 .. v PROVE 2 * j <= w <=> 2 * j \in 1 .. w
      BY <1>5
    <2> QED
      BY <1>7, <1>8, <2>1
  <1>10. Len(layer') = v
    BY <1>5, <1>7, LenOf
  <1>11. ASSUME NEW k \in 0 .. ((l + 1) - 1) PROVE TwoTo[k] < n
    <2>1. CASE k = l
      BY <1>2, <1>3, <1>4, <2>1, ReachesAll
    <2>2. CASE k \in 0 .. (l - 1)
      BY <1>3, <2>2
    <2> QED
      BY <2>1, <2>2
  <1>12. AtLevel(l + 1, v)'
    BY <1>2, <1>4, <1>6, <1>9, <1>10, <1>11 DEF AtLevel
  <1> QED
    BY <1>5, <1>12

LEMMA LoopStep == LoopInv /\ [Next]_vars => LoopInv'
  <1> SUFFICES ASSUME LoopInv, [Next]_vars PROVE LoopInv'
    OBVIOUS
  <1>1. CASE NextLayer
    <2>1. UNCHANGED <<strings, root>> /\ Len(layer) > 1
      BY <1>1 DEF NextLayer
    <2>2. strings # <<>>
      BY <2>1 DEF LoopInv
    <2>3. PICK l \in Nat, w \in Nat : AtLevel(l, w)
      BY <2>2 DEF LoopInv
    <2>4. l + 1 \in Nat /\ \E v \in Nat : AtLevel(l + 1, v)'
      BY <1>1, <2>2, <2>3, CombineClimbs
    <2> QED
      BY <2>1, <2>2, <2>4 DEF LoopInv
  <1>2. CASE Return
    <2>1. root = <<>> /\ Len(layer) = 1 /\ root' = layer[1] /\ UNCHANGED <<strings, layer>>
      BY <1>2 DEF Return
    <2>2. strings # <<>>
      BY <2>1 DEF LoopInv
    <2>3. PICK l \in Nat, w \in Nat : AtLevel(l, w)
      BY <2>2 DEF LoopInv
    <2>4. AtLevel(l, w)'
      BY <2>1, <2>3 DEF AtLevel
    <2>5. PICK n \in Nat : IsList(strings, n)
      BY ListsAre DEF LoopInv
    <2>6. n \in Nat \ {0} /\ Len(strings) = n
      BY <2>2, <2>5, EmptyList DEF IsList
    <2>7. ~(TwoTo[l] < n)
      <3>1. w = 1 /\ Places(n, l) = 1 .. w
        BY <2>1, <2>3, <2>6 DEF AtLevel
      <3> QED
        <4>1. w > 1 <=> TwoTo[l] < n
          BY <2>6, <3>1, ReachesAll
        <4> QED
          BY <3>1, <4>1
    <2>8. l = Depth(strings)
      <3>1. TwoTo[l] >= n
        BY <2>6, <2>7, TwoToExceeds
      <3>2. \A k \in 0 .. (l - 1) : TwoTo[k] < n
        BY <2>3, <2>6 DEF AtLevel
      <3> QED
        BY <2>6, <3>1, <3>2, DepthIs
    <2>9. root' = Reference(strings)
      BY <2>1, <2>2, <2>3, <2>8 DEF AtLevel, Reference
    <2> QED
      BY <2>1, <2>2, <2>4, <2>9 DEF LoopInv
  <1>3. CASE UNCHANGED vars
    BY <1>3 DEF LoopInv, AtLevel, vars
  <1>4. CASE Returned
    BY <1>3, <1>4 DEF Returned
  <1> QED
    BY <1>1, <1>2, <1>3, <1>4 DEF Next

\* The layer is always a level of the tree, and what is returned its root.
THEOREM LoopInvariant == Spec => []LoopInv
  <1>1. LoopInv /\ [Next]_vars => LoopInv'
    BY LoopStep
  <1> QED
    BY LoopInit, <1>1, PTL DEF Spec

-----------------------------------------------------------------------------
(***************************************************************************)
(* The two properties of ListRoot.                                         *)
(***************************************************************************)
\* list_root_hex returns the root of the binary tree, however many digests
\* its layers have.
THEOREM ReturnsReference == Spec => []RootIsReference
  <1>1. LoopInv => RootIsReference
    BY DEF LoopInv, RootIsReference, References
  <1> QED
    BY LoopInvariant, <1>1, PTL

\* list_root_hex returns different roots for different lists of distinct ids.
THEOREM RootIdentifies == Spec => []RootIdentifiesList
  <1>1. LoopInv => RootIdentifiesList
    <2> SUFFICES ASSUME LoopInv, root # <<>>, NEW s \in Lists, References[s] = root
                 PROVE  s = strings
      BY DEF RootIdentifiesList
    <2>1. strings \in Lists /\ root = Reference(strings) /\ Reference(s) = root
      BY DEF LoopInv, References
    <2> QED
      BY <2>1, RootTells
  <1> QED
    BY LoopInvariant, <1>1, PTL

=============================================================================
