--------------------------- MODULE MCPaymentOrders ---------------------------
(***************************************************************************)
(* Small instances of PaymentOrders.                                       *)
(***************************************************************************)
EXTENDS PaymentOrders, TLC

CONSTANTS o1, o2, t1, t2, h1, h2, usdt, usdc, addrW, addrV, memoA

MCOrders == {o1, o2}
MCOneOrder == {o1}
MCTransfers == {t1, t2}
MCOneTransfer == {t1}
MCHashOf == (t1 :> h1) @@ (t2 :> h2)
MCSharedHash == (t1 :> h1) @@ (t2 :> h1)
MCOneHashOf == t1 :> h1
MCMemos == {memoA}

\* One token, or two tokens of one network received at the same wallet.
MCScopes == {usdt}
MCRails == {usdt, usdc}
Everywhere(x) == [s \in Scopes |-> x]
MCNetworkOf == Everywhere("ethereum")
MCOneWallet == Everywhere({addrW})
MCWalletChanges == Everywhere({addrW, addrV})
MCWalletMoves == [s \in Scopes |-> IF s = usdt THEN {addrW, addrV} ELSE {addrW}]
MCWalletPerToken == [s \in Scopes |-> IF s = usdt THEN {addrW} ELSE {addrV}]
MCOneConfirmation == Everywhere(1)
MCThreeConfirmations == Everywhere(3)

PayTo(w, s, amount) == [scope |-> s, addr |-> w, amount |-> amount, memo |-> None]
Pay(s, amount, memo) == [PayTo(addrW, s, amount) EXCEPT !.memo = memo]

\* Two amounts within the dust of each other, the memo or none, and a mismatch.
MCPaymentsModes == {Pay(usdt, 200, None), Pay(usdt, 200, memoA), Pay(usdt, 201, None),
                    Pay(usdt, 210, None), PayTo(addrV, usdt, 200)}
MCPaymentsRails == {Pay(usdt, 200, None), Pay(usdc, 200, None), PayTo(addrV, usdt, 200)}
MCPaymentExact == {Pay(usdt, 200, None)}

\* Orders are alike, and so are transfers when each has its own transaction.
MCSymmetry ==
    {(t1 :> t1) @@ (t2 :> t2), (t1 :> t2) @@ (t2 :> t1) @@ (h1 :> h2) @@ (h2 :> h1)}
        \union Permutations(MCOrders)
MCOrderSymmetry == Permutations(MCOrders)
=============================================================================
