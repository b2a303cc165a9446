--------------------------- MODULE OrderLifecycle ---------------------------
(***************************************************************************)
(* What a merchant may rely on about an order, whatever the API and the    *)
(* watcher do and however they interleave.  An order has a stage and, once *)
(* a payment has been credited to it, that payment: an output of a         *)
(* transaction on a network.                                               *)
(*                                                                         *)
(*   - stages move only along Allowed; closed and settled orders are final *)
(*   - a credit is written once and never changed or taken back            *)
(*   - an output is credited to at most one order                          *)
(*   - an order verifies, and so completes, only with a credit             *)
(*                                                                         *)
(* One database statement may move several orders, so a step moves any     *)
(* number of them.                                                         *)
(***************************************************************************)
CONSTANTS Orders, Credits, NoCredit

VARIABLES stage, credit

Stages == {"absent", "pending_payment", "expired", "verifying", "payment_anomaly",
           "completed", "cancelled"}

\* The stages an order without a credit may move to, or stay in.
Uncredited(s) ==
    CASE s = "absent" -> {"absent", "pending_payment"}
      [] s = "pending_payment" -> {"pending_payment", "expired", "cancelled",
                                   "verifying", "payment_anomaly"}
      [] s = "expired" -> {"expired", "verifying", "payment_anomaly"}
      [] s = "payment_anomaly" -> {"payment_anomaly", "verifying", "cancelled"}
      [] OTHER -> {s}

\* The stages an order with a credit may move to.
Credited(s) ==
    CASE s = "verifying" -> {"verifying", "completed", "payment_anomaly"}
      [] s = "payment_anomaly" -> {"payment_anomaly", "verifying", "cancelled"}
      [] OTHER -> {s}

Allowed(o) == IF credit[o] = NoCredit THEN Uncredited(stage[o]) ELSE Credited(stage[o])

\* A credit comes with the step that takes the order to verifying or to review.
Gains(o) == /\ credit[o] = NoCredit
            /\ credit'[o] \in Credits
            /\ stage'[o] \in {"verifying", "payment_anomaly"}

Unique(c) == \A o, p \in Orders : o # p /\ c[o] = c[p] => c[o] = NoCredit

Init ==
    /\ stage = [o \in Orders |-> "absent"]
    /\ credit = [o \in Orders |-> NoCredit]

Next ==
    /\ stage' \in [Orders -> Stages]
    /\ credit' \in [Orders -> Credits \union {NoCredit}]
    /\ \A o \in Orders :
          /\ stage'[o] \in Allowed(o)
          /\ credit'[o] = credit[o] \/ Gains(o)
          /\ stage'[o] = "verifying" => credit'[o] # NoCredit
    /\ Unique(credit')

Spec == Init /\ [][Next]_<<stage, credit>>
=============================================================================
