---------------------------- MODULE ServiceBills ----------------------------
(***************************************************************************)
(* The monthly bills of one merchant: the daily invoice job that every API *)
(* process runs at its start and at midnight, the platform's route that    *)
(* creates a missed invoice, the overdue job that pauses the merchant, and *)
(* a clerk who sends, pays, waives or cancels bills and grants credit.     *)
(* None of them holds a transaction over its statements.                   *)
(*                                                                         *)
(* A bill stands for the orders completed on the days of its window that   *)
(* were over when it was made.  Its amount is Fee less the credit it used. *)
(* The merchant is activated: activation bills, fee waivers and the        *)
(* adjustment of amounts are left out.                                     *)
(***************************************************************************)
EXTENDS Integers, Sequences, FiniteSets

Operations == {"send", "pay", "waive", "cancel"}

CONSTANTS
    Invoicers,    \* runs of the daily job and of the missed-invoice route
    Month,        \* days from one invoice to the next
    PayDays,      \* days to pay a bill in
    Fee,          \* the amount of a bill
    Horizon,      \* bound: the last day
    Bounds        \* what may happen, one of these in each behaviour

ASSUME BillsAssumption ==
    /\ {Month, PayDays, Fee} \subseteq Nat \ {0}
    /\ Horizon \in Nat
    \* jobs: invoicers at work at one time; routes: what the platform may
    \* create beside the daily job's bills; ops and requests: what the clerk
    \* does and how often; credit: granted; crashes: of invoicers; sends:
    \* the setting autoSendInvoices.
    /\ Bounds \subseteq [jobs : Nat, routes : SUBSET {"missed", "gap"},
                        ops : SUBSET Operations, requests : Nat,
                        credit : Nat, crashes : Nat, sends : BOOLEAN]

VARIABLES
    bound,      \* the member of Bounds chosen for this behaviour
    today,
    plan,       \* merchant_commercial: volume_period_start and next_invoice_on
    credit,     \* merchant_commercial.service_bill_credit_usd
    granted,    \* credit granted so far
    bills,      \* service_bills of kind monthly, in the order of insertion
    org,        \* org_accounts: paused or not and the bill that is the reason
    inv,        \* what each invoicer is doing
    clerk,      \* the PATCH request in flight
    overdue,    \* bills the overdue job has marked and not yet paused for
    requests, crashes

vars == <<bound, today, plan, credit, granted, bills, org, inv, clerk, overdue, requests, crashes>>
counters == <<requests, crashes>>
merchant == <<plan, credit, org>>

NoBill == 0
Active == [paused |-> FALSE, bill |-> NoBill]
PausedBy(b) == [paused |-> TRUE, bill |-> b]
\* A bill for the days from start to on, and whether the schedule moves after it.
Billing(pc, start, on, moves, due) ==
    [pc |-> pc, start |-> start, on |-> on, moves |-> moves, due |-> due,
     discount |-> 0, bill |-> NoBill, seen |-> 0]
Rest == Billing("rest", 0, 0, FALSE, 0)
Request(pc, b, op, amount) == [pc |-> pc, bill |-> b, op |-> op, amount |-> amount,
                               seen |-> 0, other |-> NoBill]
Free == Request("rest", NoBill, "none", 0)

Live(b) == bills[b].status # "cancelled"
\* The unique index service_bills_org_period_active_uidx, and findActiveServiceBillForPeriod.
ActiveAt(start) == \E b \in DOMAIN bills : bills[b].start = start /\ Live(b)
Owing == {b \in DOMAIN bills : bills[b].status = "overdue"}

-----------------------------------------------------------------------------
(***************************************************************************)
(* An invoicer: read the schedule, look for a bill, spend credit, insert,  *)
(* note the credit on the bill, move the schedule.                         *)
(***************************************************************************)
Rests(p) ==
    /\ inv[p].pc = "rest"
    /\ Cardinality({q \in Invoicers : inv[q].pc # "rest"}) < bound.jobs

Goto(p, pc) == inv' = [inv EXCEPT ![p].pc = pc]
Finish(p) == inv' = [inv EXCEPT ![p] = Rest]

\* The head of the schedule, due from its invoice day or from today.
DueHead(from) == Billing("check", plan.start, plan.next, TRUE, from + PayDays)

StartDaily(p) ==
    /\ Rests(p)
    /\ plan.next <= today
    /\ inv' = [inv EXCEPT ![p] = DueHead(plan.next)]
    /\ UNCHANGED <<bound, today, merchant, granted, bills, clerk, overdue, counters>>

\* The periods findMissedInvoices takes from a schedule whose head is due and has no bill.
Scheduled ==
    IF plan.next > today \/ ActiveAt(plan.start) THEN {}
    ELSE {plan.start} \union {d \in plan.next..(today - Month) : (d - plan.next) % Month = 0}

StartMissed(p) ==
    /\ "missed" \in bound.routes
    /\ Rests(p)
    /\ plan.start \in Scheduled
    /\ ~org.paused
    /\ Goto(p, "reread")
    /\ UNCHANGED <<bound, today, merchant, granted, bills, clerk, overdue, counters>>

\* createMissedInvoice reads the schedule again and bills whatever is its head by now.
Reread(p) ==
    /\ inv[p].pc = "reread"
    /\ inv' = [inv EXCEPT ![p] = DueHead(today)]
    /\ UNCHANGED <<bound, today, merchant, granted, bills, clerk, overdue, counters>>

\* listCancelledGaps: a period whose only bill was cancelled, unless the schedule has it.
StartGap(p) ==
    /\ "gap" \in bound.routes
    /\ Rests(p)
    /\ ~org.paused
    /\ \E b \in DOMAIN bills :
          /\ bills[b].on <= today
          /\ ~ActiveAt(bills[b].start) /\ bills[b].start \notin Scheduled
          /\ inv' = [inv EXCEPT ![p] = Billing("credit", bills[b].start, bills[b].on, FALSE,
                                               today + PayDays)]
    /\ UNCHANGED <<bound, today, merchant, granted, bills, clerk, overdue, counters>>

\* The merchant is read first, its active bill of the period by a later statement.
Check(p) ==
    /\ inv[p].pc = "check"
    /\ IF org.paused THEN Finish(p) ELSE Goto(p, "look")
    /\ UNCHANGED <<bound, today, merchant, granted, bills, clerk, overdue, counters>>

LookForBill(p) ==
    /\ inv[p].pc = "look"
    /\ Goto(p, IF ActiveAt(inv[p].start) THEN "advance" ELSE "credit")
    /\ UNCHANGED <<bound, today, merchant, granted, bills, clerk, overdue, counters>>

\* Mutant: a bill takes its whole amount from whatever credit there is.
SpendFee(balance) == IF balance = 0 THEN 0 ELSE Fee
\* consumeMerchantServiceBillCredit, one locked statement.
Spend(balance) == IF balance < Fee THEN balance ELSE Fee

Consume(p) ==
    /\ inv[p].pc = "credit"
    /\ credit' = credit - Spend(credit)
    /\ inv' = [inv EXCEPT ![p].pc = "insert", ![p].discount = Spend(credit)]
    /\ UNCHANGED <<bound, today, plan, org, granted, bills, clerk, overdue, counters>>

NewBill(job, status) ==
    [start |-> job.start, on |-> job.on, made |-> today, status |-> status,
     due |-> job.due, discount |-> job.discount, applied |-> 0]

\* The unique index refuses a second bill: the credit goes back.
\* Mutant: the credit of a refused bill is gone.
ForgetCredit(discount) == "rest"
AfterRefusal(discount) == IF discount > 0 THEN "refund" ELSE "rest"

Insert(p) ==
    /\ inv[p].pc = "insert"
    /\ \/ /\ ActiveAt(inv[p].start)
          /\ IF AfterRefusal(inv[p].discount) = "rest" THEN Finish(p)
             ELSE Goto(p, AfterRefusal(inv[p].discount))
          /\ UNCHANGED bills
       \/ /\ ~ActiveAt(inv[p].start)
          /\ bills' = Append(bills, NewBill(inv[p], IF bound.sends THEN "issued" ELSE "draft"))
          /\ CASE inv[p].discount > 0 ->
                     inv' = [inv EXCEPT ![p].pc = "note", ![p].bill = Len(bills) + 1]
               [] inv[p].discount = 0 /\ inv[p].moves -> Goto(p, "advance")
               [] OTHER -> Finish(p)
    /\ UNCHANGED <<bound, today, merchant, granted, clerk, overdue, counters>>

\* adjustServiceBillLines with the credit, when there is any.
Note(p) ==
    LET b == inv[p].bill
    IN  /\ inv[p].pc = "note"
        /\ bills' = IF bills[b].status \in {"draft", "issued", "overdue"}
                    THEN [bills EXCEPT ![b].applied = inv[p].discount] ELSE bills
        /\ IF inv[p].moves THEN Goto(p, "advance") ELSE Finish(p)
        /\ UNCHANGED <<bound, today, merchant, granted, clerk, overdue, counters>>

\* advanceNextInvoiceOn.
\* Mutant: the next period starts with the last day of this one.
AdvancedEarly(on) == [start |-> on - 1, next |-> on + Month]
Advanced(on) == [start |-> on, next |-> on + Month]

Advance(p) ==
    /\ inv[p].pc = "advance"
    /\ plan' = Advanced(inv[p].on)
    /\ Finish(p)
    /\ UNCHANGED <<bound, today, credit, org, granted, bills, clerk, overdue, counters>>

\* addMerchantServiceBillCredit: a read and a write.
RefundRead(p) ==
    /\ inv[p].pc = "refund"
    /\ inv' = [inv EXCEPT ![p].pc = "refunding", ![p].seen = credit]
    /\ UNCHANGED <<bound, today, merchant, granted, bills, clerk, overdue, counters>>

RefundWrite(p) ==
    /\ inv[p].pc = "refunding"
    /\ credit' = inv[p].seen + inv[p].discount
    /\ Finish(p)
    /\ UNCHANGED <<bound, today, plan, org, granted, bills, clerk, overdue, counters>>

Crash(p) ==
    /\ crashes < bound.crashes
    /\ inv[p].pc # "rest"
    /\ Finish(p)
    /\ crashes' = crashes + 1
    /\ UNCHANGED <<bound, today, merchant, granted, bills, clerk, overdue, requests>>

-----------------------------------------------------------------------------
(***************************************************************************)
(* The clerk: read the bill, change its status, give credit back, then     *)
(* look at the merchant and resume it unless another bill is overdue.      *)
(***************************************************************************)
Closable == {"draft", "issued", "overdue"}
From(op) == CASE op = "send" -> {"draft"}
              [] op = "pay" -> {"issued", "overdue"}
              [] op \in {"waive", "cancel"} -> Closable

Open(b, op) ==
    /\ clerk.pc = "rest"
    /\ bills[b].status \in From(op)
    /\ requests < bound.requests
    /\ requests' = requests + 1
    /\ clerk' = Request("update", b, op, bills[b].applied)
    /\ UNCHANGED <<bound, today, merchant, granted, bills, inv, overdue, crashes>>

Becomes(op) == CASE op = "send" -> "issued"
                 [] op = "pay" -> "paid"
                 [] op = "waive" -> "waived"
                 [] op = "cancel" -> "cancelled"

\* The UPDATE looks at the status again; a bill it does not change ends the request.
Update ==
    LET b == clerk.bill
    IN  /\ clerk.pc = "update"
        /\ \/ /\ bills[b].status \notin From(clerk.op)
              /\ clerk' = Free
              /\ UNCHANGED bills
           \/ /\ bills[b].status \in From(clerk.op)
              /\ bills' = [bills EXCEPT ![b].status = Becomes(clerk.op),
                    ![b].due = IF clerk.op = "send" THEN today + PayDays ELSE @]
              /\ clerk' = CASE clerk.op = "send" -> Free
                            [] clerk.op = "cancel" /\ clerk.amount > 0 ->
                                  [clerk EXCEPT !.pc = "credit"]
                            [] OTHER -> [clerk EXCEPT !.pc = "org"]
        /\ UNCHANGED <<bound, today, merchant, granted, inv, overdue, counters>>

GrantCredit ==
    /\ clerk.pc = "rest"
    /\ requests < bound.requests
    /\ granted < bound.credit
    /\ \E b \in DOMAIN bills : bills[b].status = "paid"
    /\ requests' = requests + 1
    /\ granted' = granted + 1
    /\ clerk' = Request("credit", NoBill, "grant", 1)
    /\ UNCHANGED <<bound, today, merchant, bills, inv, overdue, crashes>>

ReadCredit ==
    /\ clerk.pc = "credit"
    /\ clerk' = [clerk EXCEPT !.pc = "crediting", !.seen = credit]
    /\ UNCHANGED <<bound, today, merchant, granted, bills, inv, overdue, counters>>

WriteCredit ==
    /\ clerk.pc = "crediting"
    /\ credit' = clerk.seen + clerk.amount
    /\ clerk' = IF clerk.op = "grant" THEN Free ELSE [clerk EXCEPT !.pc = "org"]
    /\ UNCHANGED <<bound, today, plan, org, granted, bills, inv, overdue, counters>>

\* A payment counts for any pause over a bill, a waived or cancelled bill for its own.
ReadOrg ==
    /\ clerk.pc = "org"
    /\ clerk' = CASE org.paused /\ clerk.op = "pay" -> [clerk EXCEPT !.pc = "reset"]
                  [] org.paused /\ clerk.op # "pay" /\ org.bill = clerk.bill ->
                        [clerk EXCEPT !.pc = "other"]
                  [] OTHER -> Free
    /\ UNCHANGED <<bound, today, merchant, granted, bills, inv, overdue, counters>>

\* resetBillingAnchorAfterLatePay keeps the start, so that no day is left out.
\* Mutant: the period starts with the payment.
ResetAll(day) == [start |-> day, next |-> day + Month]
ResetTo(day) == [plan EXCEPT !.next = day + Month]

ResetAnchor ==
    /\ clerk.pc = "reset"
    /\ plan' = ResetTo(today)
    /\ clerk' = [clerk EXCEPT !.pc = "other"]
    /\ UNCHANGED <<bound, today, credit, org, granted, bills, inv, overdue, counters>>

\* findOtherOverdueBillId: the one due first.
OtherOverdue(b) ==
    LET others == Owing \ {b}
    IN  IF others = {} THEN {NoBill}
        ELSE {o \in others : \A q \in others : bills[o].due <= bills[q].due}

FindOther ==
    /\ clerk.pc = "other"
    /\ \E o \in OtherOverdue(clerk.bill) :
          clerk' = [clerk EXCEPT !.pc = "resume", !.other = o]
    /\ UNCHANGED <<bound, today, merchant, granted, bills, inv, overdue, counters>>

Resume ==
    /\ clerk.pc = "resume"
    /\ org' = IF clerk.other = NoBill THEN Active ELSE PausedBy(clerk.other)
    /\ clerk' = Free
    /\ UNCHANGED <<bound, today, plan, credit, granted, bills, inv, overdue, counters>>

-----------------------------------------------------------------------------
(* The overdue job; time.                                                  *)

Late == {b \in DOMAIN bills : bills[b].status = "issued" /\ bills[b].due < today}

MarkOverdue ==
    /\ overdue = {}
    /\ Late # {}
    /\ bills' = [b \in DOMAIN bills |->
                    IF b \in Late THEN [bills[b] EXCEPT !.status = "overdue"] ELSE bills[b]]
    /\ overdue' = Late
    /\ UNCHANGED <<bound, today, merchant, granted, inv, clerk, counters>>

Pause(b) ==
    /\ org' = PausedBy(b)
    /\ overdue' = overdue \ {b}
    /\ UNCHANGED <<bound, today, plan, credit, granted, bills, inv, clerk, counters>>

\* No request and no run of a job is in flight for a whole day.
AtRest == /\ \A p \in Invoicers : inv[p].pc = "rest"
          /\ clerk.pc = "rest"
          /\ overdue = {}

Tick ==
    /\ AtRest
    /\ today < Horizon
    /\ today' = today + 1
    /\ UNCHANGED <<bound, merchant, granted, bills, inv, clerk, overdue, counters>>

-----------------------------------------------------------------------------
Init ==
    /\ bound \in Bounds
    /\ today = 0
    /\ plan = [start |-> 0, next |-> Month]
    /\ granted \in 0..bound.credit
    /\ credit = granted
    /\ bills = <<>>
    /\ org = Active
    /\ inv = [p \in Invoicers |-> Rest]
    /\ clerk = Free
    /\ overdue = {}
    /\ requests = 0 /\ crashes = 0

InvoicerStep(p) ==
    \/ Reread(p) \/ Check(p) \/ LookForBill(p) \/ Consume(p) \/ Insert(p) \/ Note(p)
    \/ Advance(p) \/ RefundRead(p) \/ RefundWrite(p)

ClerkStep ==
    \/ Update \/ ReadCredit \/ WriteCredit \/ ReadOrg \/ ResetAnchor \/ FindOther \/ Resume

OverdueStep == MarkOverdue \/ \E b \in overdue : Pause(b)

Next ==
    \/ \E p \in Invoicers :
          InvoicerStep(p) \/ StartDaily(p) \/ StartMissed(p) \/ StartGap(p) \/ Crash(p)
    \/ \E b \in DOMAIN bills, op \in bound.ops : Open(b, op)
    \/ GrantCredit
    \/ ClerkStep
    \/ OverdueStep
    \/ Tick

Spec == Init /\ [][Next]_vars

-----------------------------------------------------------------------------
Statuses == {"draft", "issued", "overdue", "paid", "waived", "cancelled"}
Bill == [start : Nat, on : Nat, made : Nat, status : Statuses, due : Nat,
         discount : 0..Fee, applied : 0..Fee]
Job == [pc : {"rest", "reread", "check", "look", "credit", "insert", "note", "advance",
              "refund", "refunding"},
        start : Nat, on : Nat, moves : BOOLEAN, due : Nat, discount : 0..Fee, bill : Nat,
        seen : Nat]
Requests == [pc : {"rest", "update", "credit", "crediting", "org", "reset", "other", "resume"},
             bill : Nat, op : Operations \union {"grant", "none"}, amount : Nat, seen : Nat,
             other : Nat]

(* The tables and what is in flight have the shapes the code gives them; a *)
(* balance of credit never falls below zero.                               *)
TypeOK ==
    /\ bound \in Bounds
    /\ today \in Nat
    /\ plan \in [start : Nat, next : Nat]
    /\ credit \in Nat /\ granted \in Nat
    /\ bills \in Seq(Bill)
    /\ org \in [paused : BOOLEAN, bill : Nat]
    /\ inv \in [Invoicers -> Job]
    /\ clerk \in Requests /\ (clerk.pc = "update" => clerk.op \in Operations)
    /\ overdue \subseteq DOMAIN bills
    /\ requests \in Nat /\ crashes \in Nat

Days(b) == bills[b].start..(bills[b].on - 1)

(* Two bills never charge for the same day, whichever processes made them  *)
(* in whatever order, however late the schedule was moved on and whatever  *)
(* period was billed again.  With a late payment it takes one process at a *)
(* time, see the README.                                                   *)
NoDayBilledTwice ==
    \A b, c \in DOMAIN bills :
        b # c /\ Live(b) /\ Live(c) => Days(b) \intersect Days(c) = {}

(* The schedule never moves past a day that no bill was made for: not when *)
(* two processes bill the same month or die on the way, nor when a late    *)
(* payment moves the next invoice ("Keeps volume_period_start so gap       *)
(* volume is included on the next bill", merchant-commercial-store.mjs).   *)
(* A late payment is taken with one process at a time and no crash: beside *)
(* a second process, or after a crash, days are left out, see the README.  *)
NoDayLeftOut ==
    \A d \in 0..(plan.start - 1) : \E b \in DOMAIN bills : d \in Days(b)

(* "create recurring invoices due on or before today"                      *)
(* (daily-invoice.mjs:192); the route that makes a missed invoice "rechecks *)
(* it is still missed, so a bill the daily job created in the meantime is  *)
(* never duplicated" (missed-invoices.mjs:154-155).  A bill made before    *)
(* its period is over leaves out the orders of the days to come.           *)
OnlyDueBilled == \A b \in DOMAIN bills : bills[b].on <= bills[b].made

(* Credit is spent once: what was granted is what is left and what the     *)
(* bills were reduced by, when several processes bill the same month and   *)
(* one of them is refused (review M22), provided the credit does not       *)
(* exceed one bill.  A larger one can be in two hands at once, and then    *)
(* the refused process writes back what it read before the other spent     *)
(* more: addMerchantServiceBillCredit reads and writes.  A clerk's         *)
(* requests and crashes lose credit too, see the README.                   *)
Discounts ==
    LET sum[n \in 0..Len(bills)] ==
            IF n = 0 THEN 0
            ELSE sum[n - 1] + (IF Live(n) THEN bills[n].discount ELSE 0)
    IN  sum[Len(bills)]

CreditSpentOnce ==
    AtRest /\ requests = 0 /\ crashes = 0 /\ granted <= Fee => granted = credit + Discounts
=============================================================================
