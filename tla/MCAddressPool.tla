---------------------------- MODULE MCAddressPool ----------------------------
(***************************************************************************)
(* Small instances of AddressPool.                                         *)
(***************************************************************************)
EXTENDS AddressPool, TLC

CONSTANTS orderA, orderB, siteA, siteB, xpubA, xpubB

MCOrders == {orderA, orderB}
MCSites  == {siteA, siteB}
MCXpubs  == {xpubA, xpubB}
MCIndexes == (xpubA :> 1) @@ (xpubB :> 0)
MCSymmetry == Permutations(MCOrders) \union Permutations(MCSites)
=============================================================================
