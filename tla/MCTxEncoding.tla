----------------------------- MODULE MCTxEncoding -----------------------------
(***************************************************************************)
(* Constant values for TLC's run of TxEncoding.                            *)
(***************************************************************************)
EXTENDS TxEncoding

MCKeys == {<<0>>, <<1>>}
MCPayloads == {<<>>, <<0>>, <<1>>, <<0, 1>>}
MCAddresses == {<<0, 1>>, <<1, 0>>}

=============================================================================
