----------------------------- MODULE MCConnection -----------------------------
(***************************************************************************)
(* Constant values for TLC's runs of Connection.                           *)
(***************************************************************************)
EXTENDS Connection, TLC

CONSTANTS c1, c2, k1, k2, ks

\* A key of its own for each client, or one key for both.
MCKeyChoices == {(c1 :> k1) @@ (c2 :> k2), (c1 :> k1) @@ (c2 :> k1)}

=============================================================================
