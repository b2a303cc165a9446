----------------------------- MODULE MCMatching -----------------------------
(***************************************************************************)
(* Every table of two small rows and every small transfer.                 *)
(***************************************************************************)
EXTENDS MatchingInputs

CONSTANTS orderA, orderB, tokenX, tokenY, memoA

MCOrders == {orderA, orderB}

Absent == [status |-> "absent", mode |-> "B", scope |-> tokenX, addr |-> "wallet",
           payable |-> 200, memo |-> NoMemo, created |-> 0, expires |-> 1]
Waiting == [status : {"pending_payment"}, mode : AllModes, scope : {tokenX, tokenY},
            addr : {"wallet", "other"}, payable : {200, 201}, memo : {NoMemo, memoA},
            created : {0, 1}, expires : {2}]
Settled == [status : {"verifying", "expired"}, mode : {"B", "S"}, scope : {tokenX},
            addr : {"wallet"}, payable : {200}, memo : {NoMemo}, created : {0}, expires : {1}]

MCRows == Waiting \union Settled \union {Absent}
MCTransfers == [scope : {tokenX}, addr : {"wallet"}, amount : {1, 200, 202},
                memo : {NoMemo, memoA}, at : 0..2]
=============================================================================
