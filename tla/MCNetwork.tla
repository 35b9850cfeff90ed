------------------------------ MODULE MCNetwork ------------------------------
(***************************************************************************)
(* Constant values for TLC's runs of Network: those of MCServer.           *)
(***************************************************************************)
EXTENDS Network, MCServer

=============================================================================
