--------------------------- MODULE MCServiceBills ---------------------------
(***************************************************************************)
(* Small instances of ServiceBills.                                        *)
(***************************************************************************)
EXTENDS ServiceBills, TLC

CONSTANTS p1, p2

MCInvoicers == {p1, p2}
MCSymmetry  == Permutations(MCInvoicers)

Limits(working, creating, doing, asking, granting, dying, sending) ==
    [jobs |-> working, routes |-> creating, ops |-> doing, requests |-> asking,
     credit |-> granting, crashes |-> dying, sends |-> sending]

(* Two processes that may die, with the route for missed invoices beside   *)
(* them or with a clerk who takes no payments and bills a cancelled period *)
(* again; one process with a clerk who does take payments, of bills sent   *)
(* by the job or by the clerk.                                             *)
MCBounds ==
    {Limits(2, {"missed"}, {}, 0, 2, 1, TRUE),
     Limits(2, {"gap"}, {"waive", "cancel"}, 1, 0, 1, TRUE),
     Limits(1, {"gap"}, {"pay", "waive", "cancel"}, 2, 1, 0, TRUE),
     Limits(1, {"gap"}, {"send", "pay"}, 2, 0, 0, FALSE)}
MCMissed == {Limits(2, {"missed"}, {}, 0, 0, 0, TRUE)}
=============================================================================
