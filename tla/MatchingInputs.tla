--------------------------- MODULE MatchingInputs ---------------------------
(***************************************************************************)
(* The matching rules over any table of order rows and any transfer,       *)
(* against declarative statements of what a transfer may do.  Each state   *)
(* is one input; there is nothing to step.                                 *)
(***************************************************************************)
EXTENDS Matching

CONSTANTS
    Orders,     \* order ids
    Rows,       \* the rows an order may have
    Transfers   \* the transfers the watcher may read

ASSUME InputAssumption ==
    /\ IsFiniteSet(Orders)
    /\ \A r \in Rows : r.mode \in AllModes /\ r.created \in Int /\ r.expires \in Int
    /\ \A t \in Transfers : t.at \in Int

VARIABLES transfer, row

Init == transfer \in Transfers /\ row \in [Orders -> Rows]
Next == UNCHANGED <<transfer, row>>
Spec == Init /\ [][Next]_<<transfer, row>>

Result == MatchInbound(transfer, row)

\* An order the transfer could be the payment of: it waits on the transfer's rail, existed
\* when it was mined, and had not lapsed.
Payable(o) == /\ row[o].status \in AwaitingStatuses
              /\ row[o].scope = transfer.scope /\ row[o].addr = transfer.addr
              /\ row[o].created <= transfer.at /\ transfer.at < row[o].expires
Named(o) == row[o].mode = "D" => transfer.memo # NoMemo /\ transfer.memo = row[o].memo
PaidBy(o) == Payable(o) /\ AmountFits(row[o].payable, transfer.amount) /\ Named(o)

\* matchInboundTransfer never guesses: a payment settles an order only when it pays that order
\* and no other order of its mode that waits at the address.
NeverGuesses ==
    Result.status = "verifying" =>
        \E o \in Orders :
            /\ Result.ids = {o}
            /\ PaidBy(o)
            /\ \A p \in Orders \ {o} : row[p].mode = row[o].mode => ~PaidBy(p)

\* The one order of a wallet with a single mode that is paid in full is settled: nothing else
\* listed with it, lapsed, younger or already matched, takes the payment away.
FullPaymentSettles ==
    \A o \in Orders :
        /\ PaidBy(o)
        /\ MemoSupported \/ row[o].mode # "D"
        /\ \A p \in Orders \ {o} :
              /\ row[p].status \in AwaitingStatuses
              /\ row[p].scope = transfer.scope /\ row[p].addr = transfer.addr
              => row[p].mode = row[o].mode /\ ~PaidBy(p)
        => Result.status = "verifying" /\ Result.ids = {o}

\* A transfer concerns only orders at its address that existed when it was mined, and orders of
\* another rail only when no order of its own rail was listed there.
OnlyConcernedOrders ==
    \A o \in Result.ids :
        /\ row[o].addr = transfer.addr
        /\ row[o].created <= transfer.at
        /\ row[o].scope # transfer.scope =>
              \A p \in Orders : row[p].status # "absent" /\ row[p].addr = transfer.addr =>
                  row[p].scope # transfer.scope
=============================================================================
