-------------------------- MODULE MCWebhookDelivery --------------------------
(***************************************************************************)
(* Small instances of WebhookDelivery.                                     *)
(***************************************************************************)
EXTENDS WebhookDelivery

CONSTANTS order, hookA, w1, w2

MCOrders == {order}
MCHooks == {hookA}
MCWorkers == {w1, w2}
MCSubscribedOne == [h \in Hooks |-> {"completed"}]
MCSubscribedAll == [h \in Hooks |-> {"pending_payment", "verifying", "completed"}]
MCOneRetry == <<1>>
=============================================================================
