------------------------------ MODULE MCServer -------------------------------
(***************************************************************************)
(* Constant values for TLC's runs of Server.                               *)
(***************************************************************************)
EXTENDS ServerLedger, TLC

CONSTANTS k1, k2, a1, a2, b1, x, c1, c2, c3, n1, n2

\* Two nonces of one key, one of another, and a badly signed transaction.
MCFrom == (a1 :> k1) @@ (a2 :> k1) @@ (b1 :> k2) @@ (x :> k2)
MCNonce == (a1 :> 1) @@ (a2 :> 2) @@ (b1 :> 0) @@ (x :> 1)

\* b1 expires during the run.
MCExpiry == (a1 :> 99) @@ (a2 :> 99) @@ (b1 :> 2) @@ (x :> 99)
MCWellSigned == {a1, a2, b1}

\* The transactions of one key.
OneKeyFrom == (a1 :> k1) @@ (a2 :> k1)
OneKeyNonce == (a1 :> 1) @@ (a2 :> 2)
OneKeyExpiry == (a1 :> 99) @@ (a2 :> 2)
OneKeyWellSigned == {a1, a2}

\* No transactions, no connections.
Nothing == [i \in {} |-> i]

OneNode == c1 :> n1
TwoNodes == (c1 :> n1) @@ (c2 :> n2)

\* Swapping the two peers, connection and node id together, changes nothing.
SwapPeers == {(c1 :> c2) @@ (c2 :> c1) @@ (n1 :> n2) @@ (n2 :> n1)}

\* c1 and c3 authenticate the same node id.
SharedNode == (c1 :> n1) @@ (c2 :> n2) @@ (c3 :> n1)

=============================================================================
