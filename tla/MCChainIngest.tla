---------------------------- MODULE MCChainIngest ----------------------------
(***************************************************************************)
(* Small instances of ChainIngest.                                         *)
(***************************************************************************)
EXTENDS ChainIngest

MCAddresses == {1, 2}
=============================================================================
