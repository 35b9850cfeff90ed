------------------------------- MODULE ListRoot -------------------------------
(***************************************************************************)
(* list_root_hex of src/chain/types.rs: the root over the ids of a block's *)
(* transactions that its header commits to.  Server takes header_hash to   *)
(* tell two blocks with different transactions apart; this module is why   *)
(* it may.                                                                 *)
(*                                                                         *)
(* SHA-256 is injective here, and the digest of a string is never that of  *)
(* two digests put together.                                               *)
(***************************************************************************)
EXTENDS Naturals, Sequences

CONSTANTS
    Strings,    \* the ids
    MaxLen      \* bound: length of a list, MAX_TXS_PER_BLOCK in the code

ASSUME ListRootAssumption == MaxLen \in Nat

VARIABLES
    strings,    \* the argument
    layer,      \* the digests of the layer
    root        \* <<>>, or what the call has returned

vars == <<strings, layer, root>>

-----------------------------------------------------------------------------
Digest(s) == <<"string", s>>
DigestOfTwo(a, b) == <<"pair", a, b>>
Zeros == <<"zeros">>

\* The ids come from drain_block, which drains no id twice.
Lists ==
    {s \in UNION {[1 .. n -> Strings] : n \in 0 .. MaxLen} :
        \A i, j \in DOMAIN s : s[i] = s[j] => i = j}

Init ==
    /\ strings \in Lists
    /\ layer = [i \in DOMAIN strings |-> Digest(strings[i])]
    /\ root = IF strings = <<>> THEN Zeros ELSE <<>>

\* chunks_exact(2): an odd last digest falls out.
CombineWholePairs(L) ==
    [j \in 1 .. Len(L) \div 2 |-> DigestOfTwo(L[2 * j - 1], L[2 * j])]

\* An odd last digest goes up as it is.
CombinePromoting(L) ==
    [j \in 1 .. (Len(L) + 1) \div 2 |->
        IF 2 * j > Len(L) THEN L[2 * j - 1] ELSE DigestOfTwo(L[2 * j - 1], L[2 * j])]

\* Chunks of two; an odd last digest is its own partner.
Combine(L) ==
    [j \in 1 .. (Len(L) + 1) \div 2 |->
        LET a == L[2 * j - 1]
            b == IF 2 * j <= Len(L) THEN L[2 * j] ELSE a
        IN  DigestOfTwo(a, b)]

\* while layer.len() > 1
NextLayer ==
    /\ Len(layer) > 1
    /\ layer' = Combine(layer)
    /\ UNCHANGED <<strings, root>>

Return ==
    /\ root = <<>>
    /\ Len(layer) = 1
    /\ root' = layer[1]
    /\ UNCHANGED <<strings, layer>>

Returned == root # <<>> /\ UNCHANGED vars

Next == NextLayer \/ Return \/ Returned

Spec == Init /\ [][Next]_vars

-----------------------------------------------------------------------------
(***************************************************************************)
(* The binary tree over s, from the top down.  The node at place i of      *)
(* level l covers the 2^l strings that begin after the first (i - 1) * 2^l *)
(* of s; it is there when it covers one.  Its left and right halves are    *)
(* the nodes at places 2i - 1 and 2i of the level below; with an empty     *)
(* right half, the left one counts twice.                                  *)
(***************************************************************************)
TwoTo[l \in Nat] == IF l = 0 THEN 1 ELSE 2 * TwoTo[l - 1]

Places(n, l) == {i \in 1 .. n : (i - 1) * TwoTo[l] < n}

Levels(s) ==
    LET level[l \in Nat] ==
            [i \in Places(Len(s), l) |->
                IF l = 0 THEN Digest(s[i])
                ELSE LET right == IF 2 * i \in Places(Len(s), l - 1) THEN 2 * i ELSE 2 * i - 1
                     IN  DigestOfTwo(level[l - 1][2 * i - 1], level[l - 1][right])]
    IN  level

\* The lowest level with one node.
Depth(s) ==
    CHOOSE l \in 0 .. Len(s) : TwoTo[l] >= Len(s) /\ \A k \in 0 .. (l - 1) : TwoTo[k] < Len(s)

Reference(s) == IF s = <<>> THEN Zeros ELSE Levels(s)[Depth(s)][1]

References == [s \in Lists |-> Reference(s)]

(***************************************************************************)
(* The loop over layers computes the root of the binary tree over the      *)
(* list, for every length, odd layers included.                            *)
(***************************************************************************)
RootIsReference == root # <<>> => root = References[strings]

(***************************************************************************)
(* No two lists of distinct ids, of whatever lengths and orders, have the  *)
(* same root, although an odd last id is hashed twice: a header commits to *)
(* the transactions of its block.                                          *)
(***************************************************************************)
RootIdentifiesList ==
    root # <<>> => \A s \in Lists : References[s] = root => s = strings

=============================================================================
