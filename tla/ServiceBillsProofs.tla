-------------------------- MODULE ServiceBillsProofs --------------------------
(***************************************************************************)
(* However many processes bill a merchant at one time, wherever they stop, *)
(* and whatever else a clerk does than taking late payments: no day is     *)
(* billed twice and none is left out, for any month, fee and horizon.      *)
(***************************************************************************)
EXTENDS ServiceBills, SequenceTheorems, WellFoundedInduction, TLAPS

LEMMA Constants ==
    /\ Month \in Nat /\ PayDays \in Nat /\ Fee \in Nat
    /\ Month > 0 /\ PayDays > 0 /\ Fee > 0 /\ Horizon \in Nat
    /\ \A b \in Bounds : b.credit \in Nat /\ b.ops \subseteq Operations
  BY BillsAssumption DEF BillsAssumption

USE Constants

-----------------------------------------------------------------------------
(* Types, variable by variable.                                            *)

LEMMA BillsAreSequence ==
    ASSUME TypeOK
    PROVE  /\ Len(bills) \in Nat /\ DOMAIN bills = 1..Len(bills)
           /\ \A b \in DOMAIN bills : b \in Nat /\ bills[b] \in Bill
           /\ \A b \in overdue : b \in Nat
  BY LenProperties, ElementOfSeq DEF TypeOK

LEMMA SpendTypes ==
    ASSUME NEW balance \in Nat
    PROVE  Spend(balance) \in 0..Fee /\ balance - Spend(balance) \in Nat
  BY DEF Spend

LEMMA NewBillTypes ==
    ASSUME TypeOK, NEW job \in Job, NEW status \in Statuses
    PROVE  NewBill(job, status) \in Bill
  BY DEF NewBill, Bill, Job, TypeOK

LEMMA InitTypes == Init => TypeOK
<1> SUFFICES ASSUME Init PROVE TypeOK
  OBVIOUS
<1>1. bills \in Seq(Bill) /\ overdue \subseteq DOMAIN bills
  BY EmptySeq DEF Init
<1>2. inv \in [Invoicers -> Job] /\ clerk \in Requests /\ clerk.pc # "update"
  BY DEF Init, Rest, Billing, Free, Request, Job, Requests, NoBill
<1>3. bound \in Bounds /\ credit \in Nat /\ granted \in Nat
  BY DEF Init
<1> QED BY <1>1, <1>2, <1>3 DEF Init, TypeOK, Active, NoBill

(* A step keeps the bills it finds, or adds one.                           *)
Changed(b, new) == [bills EXCEPT ![b] = new]

LEMMA ChangeTypes ==
    ASSUME TypeOK, NEW b, NEW new, b \in DOMAIN bills => new \in Bill
    PROVE  Changed(b, new) \in Seq(Bill) /\ DOMAIN Changed(b, new) = DOMAIN bills
<1>1. DOMAIN Changed(b, new) = DOMAIN bills
  BY DEF Changed
<1>2. CASE b \in DOMAIN bills
  BY <1>1, <1>2, BillsAreSequence, ExceptSeq DEF Changed, TypeOK
<1>3. CASE b \notin DOMAIN bills
  <2>1. Changed(b, new) = bills
    BY <1>3, BillsAreSequence, LenProperties DEF Changed, TypeOK
  <2> QED BY <2>1 DEF TypeOK
<1> QED BY <1>2, <1>3

LEMMA UpdateTypes == TypeOK /\ Update => bills' \in Seq(Bill) /\ DOMAIN bills' = DOMAIN bills
<1> SUFFICES ASSUME TypeOK, Update
             PROVE  bills' \in Seq(Bill) /\ DOMAIN bills' = DOMAIN bills
  OBVIOUS
<1> DEFINE b == clerk.bill
<1>1. CASE UNCHANGED bills
  BY <1>1 DEF TypeOK
<1>2. CASE bills[b].status \in From(clerk.op) /\ ~UNCHANGED bills
  <2> DEFINE due == IF clerk.op = "send" THEN today + PayDays ELSE bills[b].due
             new == [bills[b] EXCEPT !.status = Becomes(clerk.op), !.due = due]
  <2>1. bills' = Changed(b, new)
    BY <1>2 DEF Update, Changed
  <2>2. clerk.op \in Operations
    BY DEF TypeOK, Update
  <2>3. Becomes(clerk.op) \in Statuses
    BY <2>2 DEF Becomes, Operations, Statuses
  <2>4. ASSUME b \in DOMAIN bills PROVE new \in Bill
    <3>1. bills[b] \in Bill
      BY <2>4, BillsAreSequence
    <3>2. today \in Nat
      BY DEF TypeOK
    <3>3. due \in Nat
      BY <3>1, <3>2 DEF Bill
    <3> QED BY <2>3, <3>1, <3>3 DEF Bill
  <2> QED BY <2>1, <2>4, ChangeTypes
<1> QED BY <1>1, <1>2 DEF Update

LEMMA NoteTypes ==
    ASSUME TypeOK, NEW p \in Invoicers, Note(p)
    PROVE  bills' \in Seq(Bill) /\ DOMAIN bills' = DOMAIN bills
<1> DEFINE b == inv[p].bill
           new == [bills[b] EXCEPT !.applied = inv[p].discount]
<1>1. bills' = bills \/ bills' = Changed(b, new)
  BY DEF Note, Changed
<1>2. inv[p].discount \in 0..Fee
  BY DEF TypeOK, Job
<1>3. ASSUME b \in DOMAIN bills PROVE new \in Bill
  BY <1>2, <1>3, BillsAreSequence DEF Bill
<1> QED BY <1>1, <1>3, ChangeTypes DEF TypeOK

LEMMA MarkTypes == TypeOK /\ MarkOverdue => bills' \in Seq(Bill) /\ DOMAIN bills' = DOMAIN bills
<1> SUFFICES ASSUME TypeOK, MarkOverdue
             PROVE  bills' \in Seq(Bill) /\ DOMAIN bills' = DOMAIN bills
  OBVIOUS
<1>1. DOMAIN bills' = 1..Len(bills) /\ Len(bills) \in Nat
  BY BillsAreSequence DEF MarkOverdue
<1>2. ASSUME NEW b \in DOMAIN bills PROVE bills'[b] \in Bill
  <2>1. bills[b] \in Bill
    BY BillsAreSequence
  <2>2. [bills[b] EXCEPT !.status = "overdue"] \in Bill
    BY <2>1 DEF Bill, Statuses
  <2>3. bills'[b] = bills[b] \/ bills'[b] = [bills[b] EXCEPT !.status = "overdue"]
    BY DEF MarkOverdue
  <2> QED BY <2>1, <2>2, <2>3
<1>3. bills' = [b \in 1..Len(bills) |-> bills'[b]]
  BY <1>1 DEF MarkOverdue
<1>4. bills' \in [1..Len(bills) -> Bill]
  BY <1>1, <1>2, <1>3, BillsAreSequence
<1> QED BY <1>1, <1>4, SeqDef, BillsAreSequence

(* What an invoicer does to its own record.                                *)
LEMMA JobTypes ==
    ASSUME TypeOK, NEW p \in Invoicers,
           InvoicerStep(p) \/ StartDaily(p) \/ StartMissed(p) \/ StartGap(p) \/ Crash(p)
    PROVE  inv' \in [Invoicers -> Job]
<1>0. inv[p] \in Job /\ plan.start \in Nat /\ plan.next \in Nat /\ credit \in Nat
  BY DEF TypeOK
<1>1. Rest \in Job
  BY DEF Rest, Billing, Job, NoBill
<1>2. ASSUME NEW j \in Job, inv' = [inv EXCEPT ![p] = j] PROVE inv' \in [Invoicers -> Job]
  BY <1>2 DEF TypeOK
<1>3. ASSUME NEW pc \in {"rest", "reread", "check", "look", "credit", "insert", "note",
                          "advance", "refund", "refunding"}, Goto(p, pc)
      PROVE  inv' \in [Invoicers -> Job]
  <2>1. [inv[p] EXCEPT !.pc = pc] \in Job
    BY <1>0 DEF Job
  <2> QED BY <1>2, <1>3, <2>1 DEF Goto
<1>4. ASSUME Finish(p) PROVE inv' \in [Invoicers -> Job]
  BY <1>1, <1>2, <1>4 DEF Finish
<1>5. ASSUME StartDaily(p) \/ Reread(p) PROVE inv' \in [Invoicers -> Job]
  <2>1. ASSUME NEW from \in Nat PROVE DueHead(from) \in Job
    <3>1. from + PayDays \in Nat
      OBVIOUS
    <3> QED BY <1>0, <3>1 DEF DueHead, Billing, Job, NoBill
  <2> QED BY <1>0, <1>2, <1>5, <2>1 DEF StartDaily, Reread, TypeOK
<1>6. ASSUME StartGap(p) PROVE inv' \in [Invoicers -> Job]
  <2>1. PICK b \in DOMAIN bills :
           inv' = [inv EXCEPT ![p] =
                     Billing("credit", bills[b].start, bills[b].on, FALSE, today + PayDays)]
    BY <1>6 DEF StartGap
  <2>2. bills[b] \in Bill
    BY BillsAreSequence
  <2>4. today + PayDays \in Nat
    BY DEF TypeOK
  <2>3. Billing("credit", bills[b].start, bills[b].on, FALSE, today + PayDays) \in Job
    BY <2>2, <2>4 DEF Billing, Job, NoBill, Bill
  <2> QED BY <1>2, <2>1, <2>3
<1>7. ASSUME Consume(p) PROVE inv' \in [Invoicers -> Job]
  <2>1. [inv[p] EXCEPT !.pc = "insert", !.discount = Spend(credit)] \in Job
    BY <1>0, SpendTypes DEF Job
  <2>2. inv' = [inv EXCEPT ![p] = [inv[p] EXCEPT !.pc = "insert", !.discount = Spend(credit)]]
    BY <1>7 DEF Consume
  <2> QED BY <1>2, <2>1, <2>2
<1>8. ASSUME Insert(p) PROVE inv' \in [Invoicers -> Job]
  <2>4. Len(bills) + 1 \in Nat
    BY BillsAreSequence
  <2>1. [inv[p] EXCEPT !.pc = "note", !.bill = Len(bills) + 1] \in Job
    BY <1>0, <2>4 DEF Job
  <2>2. AfterRefusal(inv[p].discount) \in {"rest", "refund"}
    BY DEF AfterRefusal
  <2>3. \/ Finish(p) \/ Goto(p, "refund") \/ Goto(p, "rest") \/ Goto(p, "advance")
        \/ inv' = [inv EXCEPT ![p] = [inv[p] EXCEPT !.pc = "note", !.bill = Len(bills) + 1]]
    <3>1. inv[p].discount > 0 \/ inv[p].discount = 0
      BY <1>0 DEF Job
    <3> QED BY <1>8, <2>2, <3>1 DEF Insert
  <2> QED BY <1>2, <1>3, <1>4, <2>1, <2>3
<1>9. ASSUME RefundRead(p) PROVE inv' \in [Invoicers -> Job]
  <2>1. [inv[p] EXCEPT !.pc = "refunding", !.seen = credit] \in Job
    BY <1>0 DEF Job
  <2>2. inv' = [inv EXCEPT ![p] = [inv[p] EXCEPT !.pc = "refunding", !.seen = credit]]
    BY <1>9 DEF RefundRead
  <2> QED BY <1>2, <2>1, <2>2
<1>10. ASSUME \/ StartMissed(p) \/ Check(p) \/ LookForBill(p) \/ Note(p)
               \/ Advance(p) \/ RefundWrite(p) \/ Crash(p)
       PROVE  inv' \in [Invoicers -> Job]
  BY <1>3, <1>4, <1>10 DEF StartMissed, Check, LookForBill, Note, Advance, RefundWrite, Crash
<1> QED BY <1>5, <1>6, <1>7, <1>8, <1>9, <1>10 DEF InvoicerStep

LEMMA InvoicerTypes ==
    ASSUME TypeOK, NEW p \in Invoicers,
           InvoicerStep(p) \/ StartDaily(p) \/ StartMissed(p) \/ StartGap(p) \/ Crash(p)
    PROVE  TypeOK'
<1>0. inv' \in [Invoicers -> Job]
  BY JobTypes
<1>1. inv[p] \in Job /\ credit \in Nat /\ Len(bills) \in Nat /\ DOMAIN bills = 1..Len(bills)
  BY BillsAreSequence DEF TypeOK
<1>2. bills' \in Seq(Bill) /\ overdue \subseteq DOMAIN bills'
  <2>1. CASE Note(p)
    BY <2>1, NoteTypes DEF TypeOK
  <2>2. ASSUME NEW status \in Statuses,
               bills' = Append(bills, NewBill(inv[p], status))
        PROVE  bills' \in Seq(Bill) /\ overdue \subseteq DOMAIN bills'
    <3>1. NewBill(inv[p], status) \in Bill
      BY <1>1, NewBillTypes DEF Job
    <3>2. bills' \in Seq(Bill) /\ Len(bills') = Len(bills) + 1
      BY <2>2, <3>1 DEF TypeOK
    <3> QED BY <1>1, <3>2, LenProperties DEF TypeOK
  <2>3. CASE Insert(p)
    BY <2>2, <2>3 DEF Insert, TypeOK, Statuses
  <2>4. CASE bills' = bills
    BY <2>4 DEF TypeOK
  <2>5. bills' = bills \/ Note(p) \/ Insert(p)
    BY DEF InvoicerStep, StartDaily, StartMissed, StartGap, Crash, Reread, Check, LookForBill,
           Consume, Advance, RefundRead, RefundWrite
  <2> QED BY <2>1, <2>3, <2>4, <2>5
<1>3. credit' \in Nat
  <2>1. CASE Consume(p)
    BY <1>1, <2>1, SpendTypes DEF Consume
  <2>2. CASE RefundWrite(p)
    BY <1>1, <2>2 DEF RefundWrite, Job
  <2>3. credit' = credit \/ Consume(p) \/ RefundWrite(p)
    BY DEF InvoicerStep, StartDaily, StartMissed, StartGap, Crash, Reread, Check, LookForBill,
           Insert, Note, Advance, RefundRead, merchant
  <2> QED BY <1>1, <2>1, <2>2, <2>3
<1>4. plan' \in [start : Nat, next : Nat]
  <2>1. plan' = plan \/ plan' = [start |-> inv[p].on, next |-> inv[p].on + Month]
    BY DEF InvoicerStep, StartDaily, StartMissed, StartGap, Crash, Reread, Check, LookForBill,
           Consume, Insert, Note, Advance, Advanced, RefundRead, RefundWrite, merchant
  <2>2. inv[p].on \in Nat /\ inv[p].on + Month \in Nat
    BY <1>1 DEF Job
  <2> QED BY <2>1, <2>2 DEF TypeOK
<1>5. /\ UNCHANGED <<bound, today, granted, org, clerk, overdue, requests>>
      /\ crashes' = crashes \/ crashes' = crashes + 1
  BY DEF InvoicerStep, StartDaily, StartMissed, StartGap, Crash, Reread, Check, LookForBill,
         Consume, Insert, Note, Advance, RefundRead, RefundWrite, merchant, counters
<1> QED BY <1>0, <1>2, <1>3, <1>4, <1>5 DEF TypeOK

(* What a clerk's step does to the request.                                *)
LEMMA ClerkTypes ==
    ASSUME TypeOK, ClerkStep
    PROVE  clerk' \in Requests /\ clerk'.pc # "update"
<1>0. clerk \in Requests /\ credit \in Nat
  BY DEF TypeOK
<1>1. Free \in Requests /\ Free.pc # "update"
  BY DEF Free, Request, Requests, NoBill
<1>2. ASSUME NEW pc \in {"rest", "credit", "crediting", "org", "reset", "other", "resume"}
      PROVE  /\ [clerk EXCEPT !.pc = pc] \in Requests
             /\ [clerk EXCEPT !.pc = pc].pc # "update"
  BY <1>0 DEF Requests
<1>3. [clerk EXCEPT !.pc = "crediting", !.seen = credit] \in Requests
  BY <1>0 DEF Requests
<1>4. CASE Update
  <2>1. \/ clerk' = Free
        \/ clerk' = [clerk EXCEPT !.pc = "credit"]
        \/ clerk' = [clerk EXCEPT !.pc = "org"]
    BY <1>4 DEF Update
  <2> QED BY <1>1, <1>2, <2>1
<1>5. CASE ReadCredit
  BY <1>0, <1>3, <1>5 DEF ReadCredit, Requests
<1>6. CASE FindOther
  <2>1. PICK o \in OtherOverdue(clerk.bill) : clerk' = [clerk EXCEPT !.pc = "resume", !.other = o]
    BY <1>6 DEF FindOther
  <2>2. o \in Nat
    BY BillsAreSequence, <2>1 DEF OtherOverdue, Owing, NoBill
  <2> QED BY <1>0, <2>1, <2>2 DEF Requests
<1>7. CASE ReadOrg
  <2>1. \/ clerk' = Free
        \/ clerk' = [clerk EXCEPT !.pc = "reset"]
        \/ clerk' = [clerk EXCEPT !.pc = "other"]
    BY <1>7 DEF ReadOrg
  <2> QED BY <1>1, <1>2, <2>1
<1>8. CASE WriteCredit \/ ResetAnchor \/ Resume
  BY <1>1, <1>2, <1>8 DEF WriteCredit, ResetAnchor, Resume
<1> QED BY <1>4, <1>5, <1>6, <1>7, <1>8 DEF ClerkStep

LEMMA TypeStep == TypeOK /\ [Next]_vars => TypeOK'
<1> SUFFICES ASSUME TypeOK, [Next]_vars PROVE TypeOK'
  OBVIOUS
<1>0. /\ clerk \in Requests /\ today \in Nat /\ bills \in Seq(Bill)
      /\ overdue \subseteq DOMAIN bills
  BY DEF TypeOK
<1>1. ASSUME NEW p \in Invoicers,
             InvoicerStep(p) \/ StartDaily(p) \/ StartMissed(p) \/ StartGap(p) \/ Crash(p)
      PROVE  TypeOK'
  BY <1>1, InvoicerTypes
<1>2. ASSUME NEW b \in DOMAIN bills, NEW op \in bound.ops, Open(b, op) PROVE TypeOK'
  <2>1. op \in Operations /\ b \in Nat /\ bills[b] \in Bill
    BY BillsAreSequence DEF TypeOK
  <2>2. Request("update", b, op, bills[b].applied) \in Requests
    BY <2>1 DEF Request, Requests, Bill, NoBill
  <2>3. clerk' \in Requests /\ clerk'.op \in Operations
    BY <1>2, <2>1, <2>2 DEF Open, Request
  <2>4. requests' \in Nat
    BY <1>2 DEF Open, TypeOK
  <2> QED BY <1>2, <2>3, <2>4 DEF Open, merchant, TypeOK
<1>3. CASE GrantCredit
  <2>1. Request("credit", NoBill, "grant", 1) \in Requests
    BY DEF Request, Requests, NoBill
  <2>2. clerk' \in Requests /\ clerk'.pc # "update"
    BY <1>3, <2>1 DEF GrantCredit, Request
  <2>3. requests' \in Nat /\ granted' \in Nat
    BY <1>3 DEF GrantCredit, TypeOK
  <2> QED BY <1>3, <2>2, <2>3 DEF GrantCredit, merchant, TypeOK
<1>4. CASE ClerkStep
  <2>1. clerk' \in Requests /\ clerk'.pc # "update"
    BY <1>4, ClerkTypes
  <2>2. bills' \in Seq(Bill) /\ overdue \subseteq DOMAIN bills'
    <3>1. CASE Update
      BY <1>0, <3>1, UpdateTypes
    <3>2. Update \/ bills' = bills
      BY <1>4 DEF ClerkStep, ReadCredit, WriteCredit, ReadOrg, ResetAnchor, FindOther, Resume
    <3> QED BY <1>0, <3>1, <3>2
  <2>3. credit' \in Nat
    <3>1. credit' = credit \/ credit' = clerk.seen + clerk.amount
      BY <1>4 DEF ClerkStep, Update, ReadCredit, WriteCredit, ReadOrg, ResetAnchor, FindOther,
                  Resume, merchant
    <3> QED BY <1>0, <3>1 DEF Requests, TypeOK
  <2>4. plan' \in [start : Nat, next : Nat]
    <3>1. plan' = plan \/ plan' = [plan EXCEPT !.next = today + Month]
      BY <1>4 DEF ClerkStep, Update, ReadCredit, WriteCredit, ReadOrg, ResetAnchor, ResetTo,
                  FindOther, Resume, merchant
    <3> QED BY <1>0, <3>1 DEF TypeOK
  <2>5. org' \in [paused : BOOLEAN, bill : Nat]
    <3>1. org' = org \/ org' = Active \/ org' = PausedBy(clerk.other)
      BY <1>4 DEF ClerkStep, Update, ReadCredit, WriteCredit, ReadOrg, ResetAnchor, FindOther,
                  Resume, merchant
    <3>2. clerk.other \in Nat
      BY <1>0 DEF Requests
    <3>3. Active \in [paused : BOOLEAN, bill : Nat]
      BY DEF Active, NoBill
    <3>4. PausedBy(clerk.other) \in [paused : BOOLEAN, bill : Nat]
      BY <3>2 DEF PausedBy
    <3>5. org \in [paused : BOOLEAN, bill : Nat]
      BY DEF TypeOK
    <3> QED BY <3>1, <3>3, <3>4, <3>5
  <2>6. UNCHANGED <<bound, today, granted, inv, overdue, counters>>
    BY <1>4 DEF ClerkStep, Update, ReadCredit, WriteCredit, ReadOrg, ResetAnchor, FindOther,
                Resume
  <2> QED BY <2>1, <2>2, <2>3, <2>4, <2>5, <2>6 DEF counters, TypeOK
<1>5. CASE MarkOverdue
  <2>1. bills' \in Seq(Bill) /\ DOMAIN bills' = DOMAIN bills
    BY <1>5, MarkTypes
  <2>2. overdue' \subseteq DOMAIN bills'
    BY <1>5, <2>1 DEF MarkOverdue, Late
  <2> QED BY <1>5, <2>1, <2>2 DEF MarkOverdue, merchant, counters, TypeOK
<1>6. ASSUME NEW b \in overdue, Pause(b) PROVE TypeOK'
  <2>1. b \in Nat
    BY BillsAreSequence
  <2> QED BY <1>6, <2>1 DEF Pause, PausedBy, counters, TypeOK
<1>7. CASE Tick
  BY <1>0, <1>7 DEF Tick, merchant, counters, TypeOK
<1>8. CASE UNCHANGED vars
  BY <1>8 DEF vars, TypeOK
<1> QED BY <1>1, <1>2, <1>3, <1>4, <1>5, <1>6, <1>7, <1>8 DEF Next, OverdueStep

(* The tables keep their types, and credit never falls below zero. *)
THEOREM BillingTypes == Spec => []TypeOK
<1> QED BY InitTypes, TypeStep, PTL DEF Spec

-----------------------------------------------------------------------------
(***************************************************************************)
(* Without late payments every period starts a whole number of months      *)
(* after the first, so that two periods with different starts have no day  *)
(* in common, and a job that is about to move the schedule to a day finds  *)
(* a bill for every day before it.                                         *)
(***************************************************************************)
Grid(x) == x \in Nat /\ \E k \in Nat : x = k * Month

Billed(x, bs) == \A d \in 0..(x - 1) : \E b \in DOMAIN bs : d \in bs[b].start..(bs[b].on - 1)

PeriodsOK ==
    /\ \A b \in DOMAIN bills : Grid(bills[b].start) /\ bills[b].on = bills[b].start + Month
    /\ \A b, c \in DOMAIN bills :
          b # c /\ Live(b) /\ Live(c) => bills[b].start # bills[c].start

ScheduleOK == Grid(plan.start) /\ plan.next = plan.start + Month /\ Billed(plan.start, bills)

JobOK(j) ==
    /\ j.pc \notin {"rest", "reread", "refund", "refunding"} =>
          Grid(j.start) /\ j.on = j.start + Month
    /\ j.pc \in {"check", "look"} \/ (j.pc \in {"credit", "insert"} /\ j.moves) =>
          Billed(j.start, bills)
    /\ j.pc = "advance" \/ (j.pc = "note" /\ j.moves) => Billed(j.on, bills)

NoReset == clerk.op # "pay" /\ clerk.pc # "reset"

Inv == TypeOK /\ PeriodsOK /\ ScheduleOK /\ (\A p \in Invoicers : JobOK(inv[p])) /\ NoReset

NoPayments == \A b \in Bounds : "pay" \notin b.ops

LEMMA GridApart ==
    ASSUME NEW x, NEW y, Grid(x), Grid(y), x < y
    PROVE  x + Month <= y
<1>1. PICK i \in Nat : x = i * Month
  BY DEF Grid
<1>2. PICK k \in Nat : y = k * Month
  BY DEF Grid
<1>3. i < k
  <2>1. ASSUME k <= i PROVE k * Month <= i * Month
    BY <2>1
  <2> QED BY <1>1, <1>2, <2>1 DEF Grid
<1>4. (i + 1) * Month <= k * Month
  BY <1>3
<1>5. (i + 1) * Month = i * Month + Month
  OBVIOUS
<1> QED BY <1>1, <1>2, <1>4, <1>5

LEMMA GridNext ==
    ASSUME NEW x, Grid(x)
    PROVE  Grid(x + Month)
<1>1. PICK k \in Nat : x = k * Month
  BY DEF Grid
<1>2. (k + 1) * Month = k * Month + Month /\ k + 1 \in Nat
  OBVIOUS
<1> QED BY <1>1, <1>2 DEF Grid

LEMMA InitInv == Init => Inv
<1> SUFFICES ASSUME Init PROVE Inv
  OBVIOUS
<1>1. DOMAIN bills = {}
  BY DEF Init
<1>2. Grid(0) /\ Grid(Month)
  <2>1. 0 = 0 * Month /\ Month = 1 * Month
    OBVIOUS
  <2> QED BY <2>1 DEF Grid
<1>3. PeriodsOK
  BY <1>1 DEF PeriodsOK
<1>4. ScheduleOK
  BY <1>2 DEF Init, ScheduleOK, Billed
<1>5. (\A p \in Invoicers : JobOK(inv[p])) /\ NoReset
  BY DEF Init, JobOK, Rest, Billing, NoReset, Free, Request
<1> QED BY <1>3, <1>4, <1>5, InitTypes DEF Inv

(* A step keeps the periods of the bills and never revives a cancelled one. *)
Kept(b) == /\ b \in DOMAIN bills'
           /\ bills'[b].start = bills[b].start /\ bills'[b].on = bills[b].on
           /\ bills'[b].status # "cancelled" => bills[b].status # "cancelled"

Appended(p) ==
    \E status \in {"draft", "issued"} :
        bills' = Append(bills, NewBill(inv[p], status))

LEMMA BillsKept ==
    ASSUME TypeOK, [Next]_vars, ~ \E p \in Invoicers : Insert(p)
    PROVE  DOMAIN bills' = DOMAIN bills /\ \A b \in DOMAIN bills : Kept(b)
<1>1. CASE bills' = bills
  BY <1>1 DEF Kept
<1>2. CASE Update
  <2>1. DOMAIN bills' = DOMAIN bills
    BY <1>2, UpdateTypes
  <2>2. ASSUME NEW b \in DOMAIN bills PROVE Kept(b)
    <3>1. CASE bills' # bills /\ b = clerk.bill
      <4>1. /\ bills' = [bills EXCEPT ![b] = [bills[b] EXCEPT !.status = Becomes(clerk.op),
                 !.due = IF clerk.op = "send" THEN today + PayDays ELSE bills[b].due]]
            /\ bills[b].status \in From(clerk.op)
        BY <1>2, <3>1 DEF Update
      <4>2. clerk.op \in Operations
        BY <1>2 DEF TypeOK, Update
      <4>3. bills[b].status # "cancelled"
        BY <4>1, <4>2 DEF From, Operations, Closable
      <4>4. bills[b] \in Bill
        BY BillsAreSequence
      <4>5. bills'[b].start = bills[b].start /\ bills'[b].on = bills[b].on
        BY <4>1, <4>4 DEF Bill
      <4> QED BY <2>1, <4>3, <4>5 DEF Kept
    <3>2. CASE bills' = bills \/ b # clerk.bill
      <4>1. bills'[b] = bills[b]
        BY <1>2, <3>2 DEF Update
      <4> QED BY <2>1, <4>1 DEF Kept
    <3> QED BY <3>1, <3>2
  <2> QED BY <2>1, <2>2
<1>3. ASSUME NEW p \in Invoicers, Note(p)
      PROVE  DOMAIN bills' = DOMAIN bills /\ \A b \in DOMAIN bills : Kept(b)
  <2>1. DOMAIN bills' = DOMAIN bills
    BY <1>3, NoteTypes
  <2>2. ASSUME NEW b \in DOMAIN bills PROVE Kept(b)
    <3>1. bills'[b] = bills[b] \/ bills'[b] = [bills[b] EXCEPT !.applied = inv[p].discount]
      BY <1>3 DEF Note
    <3>2. bills[b] \in Bill
      BY BillsAreSequence
    <3> QED BY <2>1, <3>1, <3>2 DEF Kept, Bill
  <2> QED BY <2>1, <2>2
<1>4. CASE MarkOverdue
  <2>1. DOMAIN bills' = DOMAIN bills
    BY <1>4, MarkTypes
  <2>2. ASSUME NEW b \in DOMAIN bills PROVE Kept(b)
    <3>1. \/ bills'[b] = bills[b]
          \/ /\ bills'[b] = [bills[b] EXCEPT !.status = "overdue"]
             /\ bills[b].status = "issued"
      BY <1>4 DEF MarkOverdue, Late
    <3>2. bills[b] \in Bill
      BY BillsAreSequence
    <3> QED BY <2>1, <3>1, <3>2 DEF Kept, Bill
  <2> QED BY <2>1, <2>2
<1>5. bills' = bills \/ Update \/ MarkOverdue \/ \E p \in Invoicers : Note(p)
  <2>1. ASSUME NEW p \in Invoicers,
               InvoicerStep(p) \/ StartDaily(p) \/ StartMissed(p) \/ StartGap(p) \/ Crash(p)
        PROVE  bills' = bills \/ Note(p)
    BY <2>1 DEF InvoicerStep, StartDaily, StartMissed, StartGap, Crash, Reread, Check,
           LookForBill, Consume, Advance, RefundRead, RefundWrite
  <2>2. ASSUME \/ \E b \in DOMAIN bills, op \in bound.ops : Open(b, op)
               \/ GrantCredit \/ (\E b \in overdue : Pause(b)) \/ Tick \/ UNCHANGED vars
        PROVE  bills' = bills
    BY <2>2 DEF Open, GrantCredit, Pause, Tick, vars
  <2>3. ASSUME ClerkStep PROVE bills' = bills \/ Update
    BY <2>3 DEF ClerkStep, ReadCredit, WriteCredit, ReadOrg, ResetAnchor, FindOther, Resume
  <2> QED BY <2>1, <2>2, <2>3 DEF Next, OverdueStep
<1> QED BY <1>1, <1>2, <1>3, <1>4, <1>5

LEMMA BillAppended ==
    ASSUME TypeOK, NEW p \in Invoicers, Appended(p)
    PROVE  /\ DOMAIN bills' = DOMAIN bills \union {Len(bills) + 1}
           /\ Len(bills) + 1 \notin DOMAIN bills
           /\ \A b \in DOMAIN bills : bills'[b] = bills[b] /\ Kept(b)
           /\ bills'[Len(bills) + 1].start = inv[p].start
           /\ bills'[Len(bills) + 1].on = inv[p].on
           /\ bills'[Len(bills) + 1].status \in {"draft", "issued"}
           /\ bills'[Len(bills) + 1].made = today
           /\ bills'[Len(bills) + 1].discount = inv[p].discount
<1>1. PICK status \in {"draft", "issued"} :
         bills' = Append(bills, NewBill(inv[p], status))
  BY DEF Appended
<1> DEFINE new == NewBill(inv[p], status)
<1>2. new \in Bill
  <2>1. inv[p] \in Job /\ status \in Statuses
    BY DEF TypeOK, Statuses
  <2> QED BY <2>1, NewBillTypes
<1>3. Len(bills) \in Nat /\ DOMAIN bills = 1..Len(bills)
  BY BillsAreSequence
<1>4. /\ bills' \in Seq(Bill) /\ Len(bills') = Len(bills) + 1
      /\ bills'[Len(bills) + 1] = new
      /\ \A b \in 1..Len(bills) : bills'[b] = bills[b]
  <2> HIDE DEF new
  <2>1. bills' = Append(bills, new)
    BY <1>1 DEF new
  <2> QED BY <1>2, <2>1 DEF TypeOK
<1>5. DOMAIN bills' = 1..(Len(bills) + 1)
  BY <1>4, LenProperties
<1>6. /\ new.start = inv[p].start /\ new.on = inv[p].on /\ new.status \in {"draft", "issued"}
      /\ new.made = today /\ new.discount = inv[p].discount
  BY DEF NewBill
<1> QED BY <1>3, <1>4, <1>5, <1>6 DEF Kept

LEMMA InsertBills ==
    ASSUME TypeOK, NEW p \in Invoicers, Insert(p)
    PROVE  bills' = bills \/ (Appended(p) /\ ~ActiveAt(inv[p].start))
  BY DEF Insert, Appended, TypeOK, Statuses

LEMMA AllKept ==
    ASSUME TypeOK, [Next]_vars
    PROVE  \A b \in DOMAIN bills : Kept(b)
<1>1. ASSUME NEW p \in Invoicers, Insert(p) PROVE \A b \in DOMAIN bills : Kept(b)
  BY <1>1, InsertBills, BillAppended DEF Kept
<1> QED BY <1>1, BillsKept

LEMMA BilledKept ==
    ASSUME \A b \in DOMAIN bills : Kept(b), NEW x, Billed(x, bills)
    PROVE  Billed(x, bills')
<1> SUFFICES ASSUME NEW d \in 0..(x - 1)
             PROVE  \E b \in DOMAIN bills' : d \in bills'[b].start..(bills'[b].on - 1)
  BY DEF Billed
<1>1. PICK b \in DOMAIN bills : d \in bills[b].start..(bills[b].on - 1)
  BY DEF Billed
<1> QED BY <1>1 DEF Kept

(* The unique index keeps two live bills from starting on the same day.    *)
LEMMA PeriodsStep == Inv /\ [Next]_vars => PeriodsOK'
<1> SUFFICES ASSUME Inv, [Next]_vars PROVE PeriodsOK'
  OBVIOUS
<1>0. TypeOK /\ PeriodsOK
  BY DEF Inv
<1>1. ASSUME ~ \E p \in Invoicers : Insert(p) PROVE PeriodsOK'
  BY <1>0, <1>1, BillsKept DEF PeriodsOK, Kept, Live
<1>2. ASSUME NEW p \in Invoicers, Insert(p) PROVE PeriodsOK'
  <2>1. CASE bills' = bills
    BY <1>0, <2>1 DEF PeriodsOK, Live
  <2>2. CASE Appended(p) /\ ~ActiveAt(inv[p].start)
    <3>1. /\ DOMAIN bills' = DOMAIN bills \union {Len(bills) + 1}
          /\ \A b \in DOMAIN bills : bills'[b] = bills[b]
          /\ bills'[Len(bills) + 1].start = inv[p].start
          /\ bills'[Len(bills) + 1].on = inv[p].on
      BY <1>0, <2>2, BillAppended
    <3>2. Grid(inv[p].start) /\ inv[p].on = inv[p].start + Month
      BY <1>2 DEF Inv, JobOK, Insert
    <3>3. \A b \in DOMAIN bills : bills[b].start = inv[p].start => bills[b].status = "cancelled"
      BY <2>2 DEF ActiveAt, Live
    <3> QED BY <1>0, <3>1, <3>2, <3>3 DEF PeriodsOK, Live
  <2> QED BY <1>0, <1>2, <2>1, <2>2, InsertBills
<1> QED BY <1>1, <1>2

LEMMA ResetStep ==
    ASSUME NoPayments, Inv, [Next]_vars
    PROVE  NoReset' /\ ~ResetAnchor
<1>0. TypeOK /\ clerk.op # "pay" /\ clerk.pc # "reset" /\ clerk \in Requests
  BY DEF Inv, NoReset, TypeOK
<1>1. ~ResetAnchor
  BY <1>0 DEF ResetAnchor
<1>2. NoReset'
  <2>1. ASSUME NEW b \in DOMAIN bills, NEW op \in bound.ops, Open(b, op) PROVE NoReset'
    BY <1>0, <2>1 DEF Open, Request, NoReset, NoPayments, TypeOK
  <2>2. CASE GrantCredit
    BY <2>2 DEF GrantCredit, Request, NoReset
  <2>3. CASE ClerkStep
    <3>1. clerk' = Free \/ (clerk'.op = clerk.op /\ clerk'.pc # "reset")
      BY <1>0, <1>1, <2>3 DEF ClerkStep, Update, ReadCredit, WriteCredit, ReadOrg, FindOther,
                              Resume, Requests
    <3> QED BY <1>0, <3>1 DEF NoReset, Free, Request
  <2>4. ASSUME \/ \E p \in Invoicers :
                     InvoicerStep(p) \/ StartDaily(p) \/ StartMissed(p) \/ StartGap(p) \/ Crash(p)
               \/ OverdueStep \/ Tick \/ UNCHANGED vars
        PROVE  NoReset'
    BY <1>0, <2>4 DEF InvoicerStep, StartDaily, StartMissed, StartGap, Crash, Reread, Check,
         LookForBill, Consume, Insert, Note, Advance, RefundRead, RefundWrite, OverdueStep,
         MarkOverdue, Pause, Tick, vars, NoReset
  <2> QED BY <2>1, <2>2, <2>3, <2>4 DEF Next
<1> QED BY <1>1, <1>2

(* The schedule moves only to a day before which all is billed.            *)
LEMMA ScheduleStep ==
    ASSUME NoPayments, Inv, [Next]_vars
    PROVE  ScheduleOK'
<1>0. TypeOK /\ ScheduleOK /\ \A b \in DOMAIN bills : Kept(b)
  BY AllKept DEF Inv
<1>1. plan' = plan \/ \E p \in Invoicers : Advance(p)
  <2>1. ASSUME NEW p \in Invoicers,
               InvoicerStep(p) \/ StartDaily(p) \/ StartMissed(p) \/ StartGap(p) \/ Crash(p)
        PROVE  plan' = plan \/ Advance(p)
    BY <2>1 DEF InvoicerStep, StartDaily, StartMissed, StartGap, Crash, Reread, Check,
           LookForBill, Consume, Insert, Note, RefundRead, RefundWrite, merchant
  <2>2. ASSUME \/ \E b \in DOMAIN bills, op \in bound.ops : Open(b, op)
               \/ GrantCredit \/ OverdueStep \/ Tick \/ UNCHANGED vars
        PROVE  plan' = plan
    BY <2>2 DEF Open, GrantCredit, OverdueStep, MarkOverdue, Pause, Tick, vars, merchant
  <2>3. ASSUME ClerkStep PROVE plan' = plan
    BY <2>3, ResetStep DEF ClerkStep, Update, ReadCredit, WriteCredit, ReadOrg, FindOther, Resume,
           merchant
  <2> QED BY <2>1, <2>2, <2>3 DEF Next
<1>2. CASE plan' = plan
  <2>1. Billed(plan.start, bills')
    BY <1>0, BilledKept DEF ScheduleOK
  <2> QED BY <1>0, <1>2, <2>1 DEF ScheduleOK
<1>3. ASSUME NEW p \in Invoicers, Advance(p) PROVE ScheduleOK'
  <2> DEFINE on == inv[p].on
  <2>1. Grid(inv[p].start) /\ on = inv[p].start + Month /\ Billed(on, bills)
    BY <1>3 DEF Inv, JobOK, Advance
  <2>2. Grid(on)
    BY <2>1, GridNext
  <2>3. Billed(on, bills')
    BY <1>0, <2>1, BilledKept
  <2>4. plan'.start = on /\ plan'.next = on + Month
    BY <1>3 DEF Advance, Advanced
  <2> QED BY <2>2, <2>3, <2>4 DEF ScheduleOK
<1> QED BY <1>1, <1>2, <1>3

(* Each invoicer's record stays good: no other step takes a billed day away. *)
LEMMA JobsStep == Inv /\ [Next]_vars => \A p \in Invoicers : JobOK(inv[p])'
<1> SUFFICES ASSUME Inv, [Next]_vars, NEW p \in Invoicers PROVE JobOK(inv[p])'
  OBVIOUS
<1>0. /\ TypeOK /\ PeriodsOK /\ ScheduleOK /\ JobOK(inv[p]) /\ inv[p] \in Job
      /\ \A b \in DOMAIN bills : Kept(b)
  BY AllKept DEF Inv, TypeOK
<1>1. \A x : Billed(x, bills) => Billed(x, bills')
  BY <1>0, BilledKept
<1>2. CASE inv'[p] = inv[p]
  BY <1>0, <1>1, <1>2 DEF JobOK
<1>3. ASSUME inv'[p] = Rest PROVE JobOK(inv[p])'
  BY <1>3 DEF JobOK, Rest, Billing
<1>4. ASSUME NEW pc \in {"rest", "reread", "refund"}, Goto(p, pc) PROVE JobOK(inv[p])'
  <2>1. inv'[p] = [inv[p] EXCEPT !.pc = pc]
    BY <1>0, <1>4 DEF Goto, TypeOK
  <2>2. inv'[p].pc = pc
    BY <1>0, <2>1 DEF Job
  <2> QED BY <2>2 DEF JobOK
<1>5. CASE StartDaily(p) \/ Reread(p)
  <2>1. inv'[p] \in {DueHead(plan.next), DueHead(today)}
    BY <1>0, <1>5 DEF StartDaily, Reread, TypeOK
  <2> QED BY <1>0, <1>1, <2>1 DEF JobOK, DueHead, Billing, ScheduleOK
<1>6. CASE StartGap(p)
  <2>1. PICK b \in DOMAIN bills :
           inv'[p] = Billing("credit", bills[b].start, bills[b].on, FALSE, today + PayDays)
    BY <1>0, <1>6 DEF StartGap, TypeOK
  <2> QED BY <1>0, <2>1 DEF JobOK, Billing, PeriodsOK
<1>7. CASE Check(p)
  <2>1. inv'[p] = Rest \/ inv'[p] = [inv[p] EXCEPT !.pc = "look"]
    BY <1>0, <1>7 DEF Check, Finish, Goto, TypeOK
  <2>2. CASE inv'[p] = [inv[p] EXCEPT !.pc = "look"]
    <3>1. inv[p].pc = "check"
      BY <1>7 DEF Check
    <3> QED BY <1>0, <1>1, <2>2, <3>1 DEF JobOK, Job
  <2> QED BY <1>3, <2>1, <2>2
<1>8. CASE LookForBill(p)
  <2>1. CASE ActiveAt(inv[p].start)
    <3>1. PICK b \in DOMAIN bills : bills[b].start = inv[p].start
      BY <2>1 DEF ActiveAt
    <3>2. /\ Grid(inv[p].start) /\ inv[p].on = inv[p].start + Month /\ Billed(inv[p].start, bills)
          /\ bills[b].on = inv[p].on
      BY <1>0, <1>8, <3>1 DEF LookForBill, JobOK, PeriodsOK
    <3>3. Billed(inv[p].on, bills)
      <4> SUFFICES ASSUME NEW d \in 0..(inv[p].on - 1)
                   PROVE  \E c \in DOMAIN bills : d \in bills[c].start..(bills[c].on - 1)
        BY DEF Billed
      <4>1. CASE d < inv[p].start
        BY <3>2, <4>1 DEF Billed, Grid
      <4>2. CASE d >= inv[p].start
        BY <3>1, <3>2, <4>2 DEF Grid
      <4> QED BY <3>2, <4>1, <4>2 DEF Grid
    <3>4. inv'[p] = [inv[p] EXCEPT !.pc = "advance"]
      BY <1>0, <1>8, <2>1 DEF LookForBill, Goto, TypeOK
    <3> QED BY <1>0, <1>1, <3>2, <3>3, <3>4 DEF JobOK, Job
  <2>2. CASE ~ActiveAt(inv[p].start)
    <3>1. inv'[p] = [inv[p] EXCEPT !.pc = "credit"] /\ inv[p].pc = "look"
      BY <1>0, <1>8, <2>2 DEF LookForBill, Goto, TypeOK
    <3> QED BY <1>0, <1>1, <3>1 DEF JobOK, Job
  <2> QED BY <2>1, <2>2
<1>9. CASE Consume(p)
  <2>1. /\ inv'[p] = [inv[p] EXCEPT !.pc = "insert", !.discount = Spend(credit)]
        /\ inv[p].pc = "credit"
    BY <1>0, <1>9 DEF Consume, TypeOK
  <2>2. /\ inv'[p].pc = "insert" /\ inv'[p].start = inv[p].start /\ inv'[p].on = inv[p].on
        /\ inv'[p].moves = inv[p].moves
    BY <1>0, <2>1 DEF Job
  <2> QED BY <1>0, <1>1, <2>1, <2>2 DEF JobOK
<1>10. CASE Insert(p)
  <2>1. CASE ActiveAt(inv[p].start)
    <3>1. Finish(p) \/ Goto(p, "refund")
      BY <1>10, <2>1 DEF Insert, AfterRefusal
    <3> QED BY <1>0, <1>3, <1>4, <3>1 DEF Finish, TypeOK
  <2>2. CASE ~ActiveAt(inv[p].start)
    <3>1. Appended(p)
      BY <1>10, <2>2 DEF Insert, Appended, TypeOK, Statuses
    <3>2. inv[p].pc = "insert" /\ Grid(inv[p].start) /\ inv[p].on = inv[p].start + Month
      BY <1>0, <1>10 DEF Insert, JobOK
    <3>3. ASSUME inv[p].moves PROVE Billed(inv[p].on, bills')
      <4>1. Billed(inv[p].start, bills)
        BY <1>0, <3>2, <3>3 DEF JobOK
      <4> SUFFICES ASSUME NEW d \in 0..(inv[p].on - 1)
                   PROVE  \E c \in DOMAIN bills' : d \in bills'[c].start..(bills'[c].on - 1)
        BY DEF Billed
      <4>2. CASE d < inv[p].start
        <5>1. Billed(inv[p].start, bills')
          BY <1>1, <4>1
        <5>2. d \in 0..(inv[p].start - 1)
          BY <3>2, <4>2 DEF Grid
        <5> QED BY <5>1, <5>2 DEF Billed
      <4>3. CASE d >= inv[p].start
        BY <1>0, <3>1, <3>2, <4>3, BillAppended DEF Grid
      <4> QED BY <3>2, <4>2, <4>3 DEF Grid
    <3>4. \/ inv'[p] = [inv[p] EXCEPT !.pc = "note", !.bill = Len(bills) + 1]
          \/ inv'[p] = [inv[p] EXCEPT !.pc = "advance"] /\ inv[p].moves
          \/ inv'[p] = Rest
      <4>1. inv[p].discount > 0 \/ inv[p].discount = 0
        BY <1>0 DEF Job
      <4> QED BY <1>0, <1>10, <2>2, <4>1 DEF Insert, Goto, Finish, TypeOK
    <3>5. CASE inv'[p] = [inv[p] EXCEPT !.pc = "note", !.bill = Len(bills) + 1]
      <4>1. /\ inv'[p].pc = "note" /\ inv'[p].start = inv[p].start /\ inv'[p].on = inv[p].on
            /\ inv'[p].moves = inv[p].moves
        BY <1>0, <3>5 DEF Job
      <4> QED BY <3>2, <3>3, <4>1 DEF JobOK
    <3>6. CASE inv'[p] = [inv[p] EXCEPT !.pc = "advance"] /\ inv[p].moves
      <4>1. inv'[p].pc = "advance" /\ inv'[p].start = inv[p].start /\ inv'[p].on = inv[p].on
        BY <1>0, <3>6 DEF Job
      <4> QED BY <3>2, <3>3, <3>6, <4>1 DEF JobOK
    <3> QED BY <1>3, <3>4, <3>5, <3>6
  <2> QED BY <2>1, <2>2
<1>11. CASE Note(p)
  <2>1. \/ inv'[p] = Rest
        \/ /\ inv'[p] = [inv[p] EXCEPT !.pc = "advance"]
           /\ inv[p].pc = "note" /\ inv[p].moves
    BY <1>0, <1>11 DEF Note, Goto, Finish, TypeOK
  <2>2. CASE inv'[p] = [inv[p] EXCEPT !.pc = "advance"] /\ inv[p].pc = "note" /\ inv[p].moves
    <3>1. inv'[p].pc = "advance" /\ inv'[p].start = inv[p].start /\ inv'[p].on = inv[p].on
      BY <1>0, <2>2 DEF Job
    <3> QED BY <1>0, <1>1, <2>2, <3>1 DEF JobOK
  <2> QED BY <1>3, <2>1, <2>2
<1>12. CASE RefundRead(p)
  BY <1>0, <1>12 DEF RefundRead, JobOK, TypeOK, Job
<1>13. CASE StartMissed(p) \/ Advance(p) \/ RefundWrite(p) \/ Crash(p)
  BY <1>0, <1>3, <1>4, <1>13 DEF StartMissed, Advance, RefundWrite, Crash, Finish, TypeOK
<1>14. ASSUME ~(InvoicerStep(p) \/ StartDaily(p) \/ StartMissed(p) \/ StartGap(p) \/ Crash(p))
       PROVE  inv'[p] = inv[p]
  <2>1. ASSUME NEW q \in Invoicers, q # p,
               InvoicerStep(q) \/ StartDaily(q) \/ StartMissed(q) \/ StartGap(q) \/ Crash(q)
        PROVE  inv'[p] = inv[p]
    BY <1>0, <2>1 DEF InvoicerStep, StartDaily, StartMissed, StartGap, Crash, Reread, Check,
         LookForBill, Consume, Insert, Note, Advance, RefundRead, RefundWrite, Goto, Finish, TypeOK
  <2>2. ASSUME \/ \E b \in DOMAIN bills, op \in bound.ops : Open(b, op)
               \/ GrantCredit \/ ClerkStep \/ OverdueStep \/ Tick \/ UNCHANGED vars
        PROVE  inv' = inv
    BY <2>2 DEF Open, GrantCredit, ClerkStep, Update, ReadCredit, WriteCredit, ReadOrg,
         ResetAnchor, FindOther, Resume, OverdueStep, MarkOverdue, Pause, Tick, vars
  <2> QED BY <1>14, <2>1, <2>2 DEF Next
<1> QED BY <1>2, <1>5, <1>6, <1>7, <1>8, <1>9, <1>10, <1>11, <1>12, <1>13, <1>14
        DEF InvoicerStep

LEMMA Invariance == NoPayments => (Spec => []Inv)
<1> SUFFICES ASSUME NoPayments PROVE Spec => []Inv
  OBVIOUS
<1>1. Inv /\ [Next]_vars => Inv'
  BY TypeStep, PeriodsStep, ScheduleStep, JobsStep, ResetStep DEF Inv
<1> QED BY InitInv, <1>1, PTL DEF Spec

(* Any number of processes, dying anywhere, the platform's routes and a    *)
(* clerk who sends, waives and cancels never bill a day twice.             *)
THEOREM DaysAreBilledOnce == NoPayments => (Spec => []NoDayBilledTwice)
<1> SUFFICES ASSUME NoPayments PROVE Spec => []NoDayBilledTwice
  OBVIOUS
<1>1. Inv => NoDayBilledTwice
  <2> SUFFICES ASSUME Inv, NEW b \in DOMAIN bills, NEW c \in DOMAIN bills, b # c, Live(b), Live(c)
               PROVE  Days(b) \intersect Days(c) = {}
    BY DEF NoDayBilledTwice
  <2>1. /\ Grid(bills[b].start) /\ bills[b].on = bills[b].start + Month
        /\ Grid(bills[c].start) /\ bills[c].on = bills[c].start + Month
        /\ bills[b].start # bills[c].start
    BY DEF Inv, PeriodsOK
  <2>2. CASE bills[b].start < bills[c].start
    <3>1. bills[b].on <= bills[c].start
      BY <2>1, <2>2, GridApart
    <3> QED BY <2>1, <3>1 DEF Days, Grid
  <2>3. CASE bills[c].start < bills[b].start
    <3>1. bills[c].on <= bills[b].start
      BY <2>1, <2>3, GridApart
    <3> QED BY <2>1, <3>1 DEF Days, Grid
  <2> QED BY <2>1, <2>2, <2>3 DEF Grid
<1> QED BY Invariance, <1>1, PTL

(* Nor do they leave a day out: the schedule moves over billed days only.  *)
THEOREM AllDaysAreBilled == NoPayments => (Spec => []NoDayLeftOut)
<1> SUFFICES ASSUME NoPayments PROVE Spec => []NoDayLeftOut
  OBVIOUS
<1>1. Inv => NoDayLeftOut
  BY DEF Inv, ScheduleOK, Billed, NoDayLeftOut, Days
<1> QED BY Invariance, <1>1, PTL

-----------------------------------------------------------------------------
(***************************************************************************)
(* Without the route for missed invoices a bill is made when its period is *)
(* over: the daily job starts with a due schedule and today only grows.    *)
(***************************************************************************)
NoMissedRoute == \A b \in Bounds : "missed" \notin b.routes

JobsDue == \A p \in Invoicers : /\ inv[p].pc # "reread"
                                /\ inv[p].pc # "rest" => inv[p].on <= today

DueInv == TypeOK /\ JobsDue /\ OnlyDueBilled

LEMMA InitDue == Init => DueInv
<1> SUFFICES ASSUME Init PROVE DueInv
  OBVIOUS
<1>1. JobsDue
  BY DEF Init, JobsDue, Rest, Billing
<1>2. OnlyDueBilled
  BY DEF Init, OnlyDueBilled
<1> QED BY <1>1, <1>2, InitTypes DEF DueInv

(* An invoicer's record changes in its own steps only.                     *)
LEMMA JobWrites ==
    ASSUME TypeOK, [Next]_vars, NEW p \in Invoicers
    PROVE  \/ inv'[p] = inv[p] \/ inv'[p] = Rest
           \/ Check(p) \/ LookForBill(p) \/ Consume(p) \/ Insert(p) \/ Note(p) \/ Advance(p)
           \/ RefundRead(p) \/ StartDaily(p) \/ StartMissed(p) \/ StartGap(p) \/ Reread(p)
<1>0. inv \in [Invoicers -> Job]
  BY DEF TypeOK
<1>1. CASE RefundWrite(p) \/ Crash(p)
  BY <1>0, <1>1 DEF RefundWrite, Crash, Finish
<1>2. ASSUME NEW q \in Invoicers, q # p,
             InvoicerStep(q) \/ StartDaily(q) \/ StartMissed(q) \/ StartGap(q) \/ Crash(q)
      PROVE  inv'[p] = inv[p]
  BY <1>0, <1>2 DEF InvoicerStep, StartDaily, StartMissed, StartGap, Crash, Reread, Check,
       LookForBill, Consume, Insert, Note, Advance, RefundRead, RefundWrite, Goto, Finish
<1>3. ASSUME \/ \E b \in DOMAIN bills, op \in bound.ops : Open(b, op)
             \/ GrantCredit \/ ClerkStep \/ OverdueStep \/ Tick \/ UNCHANGED vars
      PROVE  inv' = inv
  BY <1>3 DEF Open, GrantCredit, ClerkStep, Update, ReadCredit, WriteCredit, ReadOrg,
       ResetAnchor, FindOther, Resume, OverdueStep, MarkOverdue, Pause, Tick, vars
<1> QED BY <1>1, <1>2, <1>3 DEF Next, InvoicerStep

(* No step but a start gives an invoicer another day to bill up to.        *)
JobSteps(p) ==
    \/ inv'[p] = inv[p] \/ inv'[p] = Rest
    \/ \E pc \in {"look", "credit", "note", "advance", "refund", "refunding", "insert"} :
          inv'[p].pc = pc /\ inv'[p].on = inv[p].on /\ inv[p].pc # "rest"
    \/ StartDaily(p) \/ StartMissed(p) \/ StartGap(p) \/ Reread(p)

LEMMA JobMoves ==
    ASSUME TypeOK, [Next]_vars, NEW p \in Invoicers
    PROVE  JobSteps(p)
<1>0. inv \in [Invoicers -> Job] /\ inv[p] \in Job
  BY DEF TypeOK
<1>1. CASE Check(p) \/ LookForBill(p)
  BY <1>0, <1>1 DEF Check, LookForBill, Finish, Goto, JobSteps, Job
<1>2. CASE Consume(p) \/ RefundRead(p)
  BY <1>0, <1>2 DEF Consume, RefundRead, JobSteps, Job
<1>3. CASE Insert(p)
  <2>1. inv[p].discount > 0 \/ inv[p].discount = 0
    BY <1>0 DEF Job
  <2>2. \/ inv'[p] = Rest
        \/ inv'[p] = [inv[p] EXCEPT !.pc = "refund"]
        \/ inv'[p] = [inv[p] EXCEPT !.pc = "advance"]
        \/ inv'[p] = [inv[p] EXCEPT !.pc = "note", !.bill = Len(bills) + 1]
    BY <1>0, <1>3, <2>1 DEF Insert, AfterRefusal, Finish, Goto
  <2> QED BY <1>0, <1>3, <2>2 DEF Insert, JobSteps, Job
<1>4. CASE Note(p)
  BY <1>0, <1>4 DEF Note, Finish, Goto, JobSteps, Job
<1>5. CASE Advance(p)
  BY <1>0, <1>5 DEF Advance, Finish, JobSteps
<1>6. CASE \/ inv'[p] = inv[p] \/ inv'[p] = Rest
           \/ StartDaily(p) \/ StartMissed(p) \/ StartGap(p) \/ Reread(p)
  BY <1>6 DEF JobSteps
<1> QED BY <1>1, <1>2, <1>3, <1>4, <1>5, <1>6, JobWrites

(* A step changes the bills in one of these ways: only an insert adds one, *)
(* and nothing changes when a bill was made, for what, or what it was      *)
(* reduced by.                                                             *)
Untouched(b) == /\ bills'[b].on = bills[b].on /\ bills'[b].made = bills[b].made
                /\ bills'[b].discount = bills[b].discount
                /\ ~Update => (Live(b) => bills'[b].status # "cancelled")

LEMMA BillMoves ==
    ASSUME TypeOK, [Next]_vars
    PROVE  \/ \E p \in Invoicers : Insert(p) /\ Appended(p)
           \/ /\ DOMAIN bills' = DOMAIN bills
              /\ \A b \in DOMAIN bills : Untouched(b)
<1>1. CASE bills' = bills
  BY <1>1 DEF Untouched, Live
<1>2. CASE Update
  <2>1. DOMAIN bills' = DOMAIN bills
    BY <1>2, UpdateTypes
  <2>2. ASSUME NEW b \in DOMAIN bills PROVE Untouched(b)
    <3>1. bills[b] \in Bill
      BY BillsAreSequence
    <3>2. \/ bills'[b] = bills[b]
          \/ /\ b = clerk.bill
             /\ bills'[b] = [bills[b] EXCEPT !.status = Becomes(clerk.op),
                  !.due = IF clerk.op = "send" THEN today + PayDays ELSE bills[b].due]
      BY <1>2 DEF Update
    <3> QED BY <1>2, <3>1, <3>2 DEF Untouched, Live, Bill
  <2> QED BY <2>1, <2>2
<1>3. ASSUME NEW p \in Invoicers, Note(p)
      PROVE  DOMAIN bills' = DOMAIN bills /\ \A b \in DOMAIN bills : Untouched(b)
  <2>1. DOMAIN bills' = DOMAIN bills
    BY <1>3, NoteTypes
  <2>2. ASSUME NEW b \in DOMAIN bills PROVE Untouched(b)
    <3>1. bills'[b] = bills[b] \/ bills'[b] = [bills[b] EXCEPT !.applied = inv[p].discount]
      BY <1>3 DEF Note
    <3>2. bills[b] \in Bill
      BY BillsAreSequence
    <3> QED BY <2>1, <3>1, <3>2 DEF Untouched, Live, Bill
  <2> QED BY <2>1, <2>2
<1>4. CASE MarkOverdue
  <2>1. DOMAIN bills' = DOMAIN bills
    BY <1>4, MarkTypes
  <2>2. ASSUME NEW b \in DOMAIN bills PROVE Untouched(b)
    <3>1. bills'[b] = bills[b] \/ bills'[b] = [bills[b] EXCEPT !.status = "overdue"]
      BY <1>4 DEF MarkOverdue, Late
    <3>2. bills[b] \in Bill
      BY BillsAreSequence
    <3> QED BY <2>1, <3>1, <3>2 DEF Untouched, Live, Bill
  <2> QED BY <2>1, <2>2
<1>5. \/ bills' = bills \/ Update \/ MarkOverdue
      \/ \E p \in Invoicers : Note(p) \/ (Insert(p) /\ Appended(p))
  <2>1. ASSUME NEW p \in Invoicers,
               InvoicerStep(p) \/ StartDaily(p) \/ StartMissed(p) \/ StartGap(p) \/ Crash(p)
        PROVE  bills' = bills \/ Note(p) \/ (Insert(p) /\ Appended(p))
    BY <2>1, InsertBills DEF InvoicerStep, StartDaily, StartMissed, StartGap, Crash, Reread,
       Check, LookForBill, Consume, Advance, RefundRead, RefundWrite
  <2>2. ASSUME \/ \E b \in DOMAIN bills, op \in bound.ops : Open(b, op)
               \/ GrantCredit \/ (\E b \in overdue : Pause(b)) \/ Tick \/ UNCHANGED vars
        PROVE  bills' = bills
    BY <2>2 DEF Open, GrantCredit, Pause, Tick, vars
  <2>3. ASSUME ClerkStep PROVE bills' = bills \/ Update
    BY <2>3 DEF ClerkStep, ReadCredit, WriteCredit, ReadOrg, ResetAnchor, FindOther, Resume
  <2> QED BY <2>1, <2>2, <2>3 DEF Next, OverdueStep
<1> QED BY <1>1, <1>2, <1>3, <1>4, <1>5

LEMMA DueStep ==
    ASSUME NoMissedRoute, DueInv, [Next]_vars
    PROVE  DueInv'
<1>0. /\ TypeOK /\ TypeOK' /\ JobsDue /\ OnlyDueBilled
      /\ today \in Nat /\ today' \in Nat /\ today <= today'
  <2>1. today' = today \/ Tick
    BY DEF Next, InvoicerStep, StartDaily, StartMissed, StartGap, Crash, Reread, Check,
         LookForBill, Consume, Insert, Note, Advance, RefundRead, RefundWrite, Open,
         GrantCredit, ClerkStep, Update, ReadCredit, WriteCredit, ReadOrg, ResetAnchor,
         FindOther, Resume, OverdueStep, MarkOverdue, Pause, vars
  <2> QED BY <2>1, TypeStep DEF DueInv, Tick, TypeOK
<1>1. ASSUME NEW p \in Invoicers
      PROVE  inv'[p].pc # "reread" /\ (inv'[p].pc # "rest" => inv'[p].on <= today')
  <2>0. inv[p] \in Job /\ inv'[p] \in Job /\ plan.next \in Nat
    BY <1>0 DEF TypeOK
  <2>1. ~StartMissed(p) /\ ~Reread(p)
    BY <1>0 DEF StartMissed, Reread, NoMissedRoute, JobsDue, TypeOK
  <2>2. CASE StartDaily(p)
    BY <1>0, <2>0, <2>2 DEF StartDaily, DueHead, Billing, TypeOK
  <2>3. CASE StartGap(p)
    <3>1. PICK b \in DOMAIN bills :
             /\ bills[b].on <= today
             /\ inv' = [inv EXCEPT ![p] = Billing("credit", bills[b].start, bills[b].on, FALSE,
                                                  today + PayDays)]
      BY <2>3 DEF StartGap
    <3>2. bills[b].on \in Nat
      BY <1>0, BillsAreSequence DEF Bill
    <3> QED BY <1>0, <3>1, <3>2 DEF Billing, TypeOK
  <2>4. CASE inv'[p] = Rest
    BY <2>4 DEF Rest, Billing
  <2>5. ASSUME NEW pc \in {"look", "credit", "note", "advance", "refund", "refunding",
                          "insert"},
               inv'[p].pc = pc, inv'[p].on = inv[p].on, inv[p].pc # "rest"
        PROVE  inv'[p].pc # "reread" /\ inv'[p].on <= today'
    <3>1. inv[p].on <= today /\ inv[p].on \in Nat
      BY <1>0, <2>0, <2>5 DEF JobsDue, Job
    <3> QED BY <1>0, <2>5, <3>1
  <2>6. CASE inv'[p] = inv[p]
    <3>1. inv[p].on \in Nat
      BY <2>0 DEF Job
    <3> QED BY <1>0, <2>6, <3>1 DEF JobsDue
  <2> QED BY <1>0, <2>1, <2>2, <2>3, <2>4, <2>5, <2>6, JobMoves DEF JobSteps
<1>2. OnlyDueBilled'
  <2>1. CASE DOMAIN bills' = DOMAIN bills /\ \A b \in DOMAIN bills : Untouched(b)
    BY <1>0, <2>1 DEF OnlyDueBilled, Untouched
  <2>2. ASSUME NEW p \in Invoicers, Insert(p), Appended(p) PROVE OnlyDueBilled'
    <3>1. inv[p].on <= today
      BY <1>0, <2>2 DEF Insert, JobsDue
    <3>2. bills'[Len(bills) + 1].made = today
      BY <1>0, <2>2, BillAppended
    <3> QED BY <1>0, <2>2, <3>1, <3>2, BillAppended DEF OnlyDueBilled
  <2> QED BY <1>0, <2>1, <2>2, BillMoves
<1> QED BY <1>0, <1>1, <1>2 DEF DueInv, JobsDue

(* "create recurring invoices due on or before today": neither the daily   *)
(* job of any number of processes nor the route that bills a cancelled     *)
(* period again bills a period before it is over.  Only the route for      *)
(* missed invoices does, which the run that has it shows.                  *)
THEOREM OnlyDuePeriodsAreBilled == NoMissedRoute => (Spec => []OnlyDueBilled)
<1> SUFFICES ASSUME NoMissedRoute PROVE Spec => []OnlyDueBilled
  OBVIOUS
<1>1. DueInv /\ [Next]_vars => DueInv'
  BY DueStep
<1>2. DueInv => OnlyDueBilled
  BY DEF DueInv
<1> QED BY InitDue, <1>1, <1>2, PTL DEF Spec

-----------------------------------------------------------------------------
(***************************************************************************)
(* Credit that one bill can use up is in one place at a time: in the       *)
(* balance, in the hands of one invoicer, or in one bill.                  *)
(***************************************************************************)
Holds(p) == inv[p].pc \in {"insert", "refund", "refunding"} /\ inv[p].discount > 0
Reduced(b) == bills[b].discount > 0
Elsewhere == (\E p \in Invoicers : Holds(p)) \/ (\E b \in DOMAIN bills : Reduced(b))

OnePlace ==
    /\ Elsewhere => credit = 0
    /\ ~Elsewhere => credit = granted
    /\ \A p \in Invoicers : Holds(p) => /\ inv[p].discount = granted
                                        /\ inv[p].pc = "refunding" => inv[p].seen = 0
    /\ \A b \in DOMAIN bills : Reduced(b) => bills[b].discount = granted
    /\ \A p, q \in Invoicers : Holds(p) /\ Holds(q) => p = q
    /\ \A b, c \in DOMAIN bills : Reduced(b) /\ Reduced(c) => b = c
    /\ \A p \in Invoicers, b \in DOMAIN bills : ~(Holds(p) /\ Reduced(b))

Unasked == requests = 0 => clerk.pc = "rest" /\ \A b \in DOMAIN bills : Live(b)

Refunds == \A p \in Invoicers : inv[p].pc \in {"refund", "refunding"} => inv[p].discount > 0

PlaceInv ==
    /\ TypeOK /\ Unasked /\ Refunds
    /\ requests = 0 /\ crashes = 0 /\ granted <= Fee => OnePlace

(* Induction over the bills, by the least one for which a claim fails.     *)
LEMMA LeastElement ==
    ASSUME NEW T, T \subseteq Nat, T # {}
    PROVE  \E x \in T : \A y \in T : x <= y
<1>1. PICK x \in T : \A y \in T : ~(<<y, x>> \in OpToRel(<, Nat))
  BY WFMin, NatLessThanWellFounded
<1>2. ASSUME NEW y \in T PROVE x <= y
  <2>1. ~(y < x)
    BY <1>1 DEF OpToRel
  <2> QED BY <2>1
<1> QED BY <1>2

IsSum(f, n, a) == f = [k \in 0..n |-> IF k = 0 THEN 0 ELSE f[k - 1] + a[k]]

LEMMA SumExists ==
    ASSUME NEW n \in Nat, NEW a
    PROVE  \E f : IsSum(f, n, a)
<1> DEFINE Bad == {k \in Nat : ~ \E f : IsSum(f, k, a)}
<1> SUFFICES ASSUME Bad # {} PROVE FALSE
  OBVIOUS
<1>1. PICK k \in Bad : \A j \in Bad : k <= j
  <2> HIDE DEF Bad
  <2>1. Bad \subseteq Nat
    BY DEF Bad
  <2> QED BY <2>1, LeastElement
<1>2. CASE k = 0
  <2>1. IsSum([j \in 0..0 |-> 0], 0, a)
    BY DEF IsSum
  <2> QED BY <1>2, <2>1
<1>3. CASE k > 0
  <2>1. k - 1 \in Nat /\ k - 1 \notin Bad
    BY <1>1, <1>3
  <2>2. PICK g : IsSum(g, k - 1, a)
    BY <2>1
  <2> DEFINE f == [j \in 0..k |-> IF j = k THEN g[k - 1] + a[k] ELSE g[j]]
  <2>3. ASSUME NEW j \in 0..k
        PROVE  f[j] = IF j = 0 THEN 0 ELSE f[j - 1] + a[j]
    <3>1. CASE j = k
      BY <1>3, <3>1
    <3>2. CASE j # k
      <4>1. j \in 0..(k - 1) /\ f[j] = g[j]
        BY <3>2
      <4>2. g[j] = IF j = 0 THEN 0 ELSE g[j - 1] + a[j]
        BY <2>2, <4>1 DEF IsSum
      <4>3. j # 0 => f[j - 1] = g[j - 1]
        BY <4>1
      <4> QED BY <4>1, <4>2, <4>3
    <3> QED BY <3>1, <3>2
  <2>4. IsSum(f, k, a)
    BY <2>3 DEF IsSum
  <2> QED BY <2>4
<1> QED BY <1>1, <1>2, <1>3

Worth(b) == IF Live(b) THEN bills[b].discount ELSE 0

(* If the bills but one are worth nothing, the sum is what that one is worth. *)
LEMMA SumOfOne ==
    ASSUME TypeOK, NEW b \in Nat \ {0}, NEW w \in Nat,
           \A c \in DOMAIN bills : Worth(c) = IF c = b THEN w ELSE 0
    PROVE  Discounts = IF b <= Len(bills) THEN w ELSE 0
<1> DEFINE N == Len(bills)
           a == [c \in DOMAIN bills |-> Worth(c)]
<1>1. N \in Nat /\ DOMAIN bills = 1..N
  BY BillsAreSequence
<1>2. PICK g : IsSum(g, N, a)
  <2> HIDE DEF a, N
  <2> QED BY <1>1, SumExists
<1>3. g = [n \in 0..N |-> IF n = 0 THEN 0
                           ELSE g[n - 1] + (IF Live(n) THEN bills[n].discount ELSE 0)]
  <2>1. \A n \in 0..N : n # 0 => a[n] = IF Live(n) THEN bills[n].discount ELSE 0
    BY <1>1 DEF Worth
  <2>2. g = [n \in 0..N |-> IF n = 0 THEN 0 ELSE g[n - 1] + a[n]]
    BY <1>2 DEF IsSum
  <2> HIDE DEF a
  <2> QED BY <1>1, <2>1, <2>2
<1> DEFINE sum == CHOOSE f : f = [n \in 0..N |->
                     IF n = 0 THEN 0 ELSE f[n - 1] + (IF Live(n) THEN bills[n].discount ELSE 0)]
<1>4. sum = [n \in 0..N |-> IF n = 0 THEN 0
                             ELSE sum[n - 1] + (IF Live(n) THEN bills[n].discount ELSE 0)]
  BY <1>3
<1>5. Discounts = sum[N]
  BY DEF Discounts
<1> HIDE DEF sum
<1> DEFINE Bad == {n \in 0..N : sum[n] # IF b <= n THEN w ELSE 0}
<1>6. Bad = {}
  <2> SUFFICES ASSUME Bad # {} PROVE FALSE
    OBVIOUS
  <2>1. PICK k \in Bad : \A j \in Bad : k <= j
    <3>1. Bad \subseteq Nat
      BY <1>1
    <3> HIDE DEF Bad
    <3> QED BY <3>1, LeastElement
  <2>2. k \in 0..N /\ sum[k] # IF b <= k THEN w ELSE 0
    BY <2>1
  <2>3. k # 0
    BY <1>1, <1>4, <2>2
  <2>4. k - 1 \in 0..N /\ k - 1 \notin Bad
    BY <1>1, <2>1, <2>2, <2>3
  <2>5. sum[k - 1] = IF b <= k - 1 THEN w ELSE 0
    BY <2>4
  <2>6. sum[k] = sum[k - 1] + Worth(k)
    BY <1>1, <1>4, <2>2, <2>3 DEF Worth
  <2>7. Worth(k) = IF k = b THEN w ELSE 0
    BY <1>1, <2>2, <2>3
  <2> QED BY <1>1, <2>2, <2>3, <2>5, <2>6, <2>7
<1> QED BY <1>1, <1>5, <1>6

(* An insert that is refused keeps the discount in hand, to give it back;  *)
(* one that is not hands it to the bill.                                   *)
LEMMA InsertJob ==
    ASSUME TypeOK, NEW p \in Invoicers, Insert(p)
    PROVE  /\ inv[p].pc = "insert" /\ \A q \in Invoicers \ {p} : inv'[q] = inv[q]
           /\ \/ /\ bills' = bills /\ inv[p].discount > 0
                 /\ inv'[p].pc = "refund" /\ inv'[p].discount = inv[p].discount
              \/ bills' = bills /\ inv[p].discount = 0 /\ inv'[p].pc = "rest"
              \/ Appended(p) /\ inv'[p].pc \in {"note", "advance", "rest"}
<1>0. inv \in [Invoicers -> Job] /\ inv[p] \in Job /\ inv[p].pc = "insert"
  BY DEF TypeOK, Insert
<1>1. inv[p].discount > 0 \/ inv[p].discount = 0
  BY <1>0 DEF Job
<1>2. CASE ActiveAt(inv[p].start)
  <2>1. bills' = bills
    BY <1>2 DEF Insert
  <2>2. CASE inv[p].discount > 0
    <3>1. AfterRefusal(inv[p].discount) = "refund"
      BY <2>2 DEF AfterRefusal
    <3>2. inv' = [inv EXCEPT ![p].pc = "refund"]
      BY <1>2, <3>1 DEF Insert, Goto
    <3> QED BY <1>0, <2>1, <2>2, <3>2 DEF Job
  <2>3. CASE inv[p].discount = 0
    <3>1. AfterRefusal(inv[p].discount) = "rest"
      BY <2>3 DEF AfterRefusal
    <3>2. inv' = [inv EXCEPT ![p] = Rest]
      BY <1>2, <3>1 DEF Insert, Finish
    <3>3. inv'[p].pc = "rest" /\ \A q \in Invoicers \ {p} : inv'[q] = inv[q]
      BY <1>0, <3>2 DEF Rest, Billing
    <3> QED BY <1>0, <2>1, <2>3, <3>3
  <2> QED BY <1>1, <2>2, <2>3
<1>3. CASE ~ActiveAt(inv[p].start)
  <2>1. Appended(p)
    BY <1>3 DEF Insert, Appended
  <2>2. \/ inv' = [inv EXCEPT ![p] = Rest] \/ inv' = [inv EXCEPT ![p].pc = "advance"]
        \/ inv' = [inv EXCEPT ![p].pc = "note", ![p].bill = Len(bills) + 1]
    BY <1>1, <1>3 DEF Insert, Goto, Finish
  <2>3. /\ inv'[p].pc \in {"note", "advance", "rest"}
        /\ \A q \in Invoicers \ {p} : inv'[q] = inv[q]
    BY <1>0, <2>2 DEF Rest, Billing, Job
  <2> QED BY <1>0, <2>1, <2>3
<1> QED BY <1>2, <1>3

LEMMA InitPlace == Init => PlaceInv
<1> SUFFICES ASSUME Init PROVE PlaceInv
  OBVIOUS
<1>1. DOMAIN bills = {} /\ \A p \in Invoicers : inv[p].pc = "rest" /\ inv[p].discount = 0
  BY DEF Init, Rest, Billing
<1>2. Unasked /\ Refunds /\ ~Elsewhere
  BY <1>1 DEF Init, Unasked, Free, Request, Refunds, Elsewhere, Holds
<1>3. OnePlace
  BY <1>1, <1>2 DEF Init, OnePlace, Holds
<1> QED BY <1>2, <1>3, InitTypes DEF PlaceInv

InvoicerMoves(p) == InvoicerStep(p) \/ StartDaily(p) \/ StartMissed(p) \/ StartGap(p)

(* Without requests and crashes there are invoicers, the overdue job and time. *)
LEMMA QuietSteps ==
    ASSUME TypeOK, Unasked, [Next]_vars, requests' = 0
    PROVE  /\ requests = 0 /\ UNCHANGED clerk /\ granted' = granted /\ ~Update
           /\ crashes' = 0 => crashes = 0
           /\ \/ \E p \in Invoicers : InvoicerMoves(p) \/ (Crash(p) /\ crashes' # 0)
              \/ UNCHANGED <<credit, inv>> /\ ~ \E p \in Invoicers : Insert(p)
<1>0. requests \in Nat /\ crashes \in Nat
  BY DEF TypeOK
<1>1. ASSUME NEW b \in DOMAIN bills, NEW op \in bound.ops, Open(b, op) PROVE FALSE
  BY <1>0, <1>1 DEF Open
<1>2. ~GrantCredit
  BY <1>0 DEF GrantCredit
<1>3. requests = 0
  BY <1>1, <1>2 DEF Next, InvoicerStep, StartDaily, StartMissed, StartGap, Crash, Reread,
     Check, LookForBill, Consume, Insert, Note, Advance, RefundRead, RefundWrite, ClerkStep,
     Update, ReadCredit,
     WriteCredit, ReadOrg, ResetAnchor, FindOther, Resume, OverdueStep, MarkOverdue, Pause, Tick,
     counters, vars
<1>4. ~ClerkStep
  BY <1>3 DEF Unasked, ClerkStep, Update, ReadCredit, WriteCredit, ReadOrg, ResetAnchor,
     FindOther, Resume
<1>5. CASE OverdueStep \/ Tick \/ UNCHANGED vars
  <2>1. UNCHANGED <<credit, inv, granted, crashes, clerk>>
    BY <1>5 DEF OverdueStep, MarkOverdue, Pause, Tick, counters, merchant, vars
  <2>2. ~ \E p \in Invoicers : Insert(p)
    <3> SUFFICES ASSUME NEW p \in Invoicers, Insert(p) PROVE FALSE
      OBVIOUS
    <3>1. inv'[p] # inv[p]
      BY InsertJob
    <3> QED BY <2>1, <3>1
  <2> QED BY <1>3, <1>4, <2>1, <2>2 DEF ClerkStep
<1>6. ASSUME NEW p \in Invoicers, InvoicerMoves(p)
      PROVE  UNCHANGED <<clerk, granted, crashes>>
  BY <1>6 DEF InvoicerMoves, InvoicerStep, StartDaily, StartMissed, StartGap, Reread, Check,
     LookForBill, Consume, Insert, Note, Advance, RefundRead, RefundWrite, counters
<1>7. ASSUME NEW p \in Invoicers, Crash(p) PROVE crashes' # 0 /\ UNCHANGED <<clerk, granted>>
  BY <1>0, <1>7 DEF Crash
<1> QED BY <1>1, <1>2, <1>3, <1>4, <1>5, <1>6, <1>7 DEF Next, InvoicerMoves, ClerkStep

LEMMA UnaskedStep ==
    ASSUME TypeOK, Unasked, [Next]_vars
    PROVE  Unasked'
<1> SUFFICES ASSUME requests' = 0
             PROVE  clerk'.pc = "rest" /\ \A b \in DOMAIN bills' : bills'[b].status # "cancelled"
  BY DEF Unasked, Live
<1>1. requests = 0 /\ clerk' = clerk /\ ~Update
  BY QuietSteps
<1>2. clerk.pc = "rest" /\ \A b \in DOMAIN bills : Live(b)
  BY <1>1 DEF Unasked
<1>3. ASSUME NEW p \in Invoicers, Appended(p), NEW b \in DOMAIN bills'
      PROVE  bills'[b].status # "cancelled"
  BY <1>2, <1>3, BillAppended DEF Live
<1> QED BY <1>1, <1>2, <1>3, BillMoves DEF Untouched

LEMMA RefundsStep ==
    ASSUME TypeOK, Refunds, [Next]_vars
    PROVE  Refunds'
<1> SUFFICES ASSUME NEW p \in Invoicers, inv'[p].pc \in {"refund", "refunding"}
             PROVE  inv'[p].discount > 0
  BY DEF Refunds
<1>0. inv \in [Invoicers -> Job] /\ inv[p] \in Job
  BY DEF TypeOK
<1>1. CASE Insert(p)
  BY <1>1, InsertJob
<1>2. CASE RefundRead(p)
  BY <1>0, <1>2 DEF RefundRead, Refunds, Job
<1>3. CASE inv'[p] = inv[p]
  BY <1>3 DEF Refunds
<1>4. CASE inv'[p] = Rest
  BY <1>4 DEF Rest, Billing
<1>5. ASSUME \/ Consume(p) \/ Check(p) \/ LookForBill(p) \/ Note(p) \/ Advance(p) \/ StartDaily(p)
             \/ StartMissed(p) \/ StartGap(p) \/ Reread(p)
      PROVE  FALSE
  BY <1>0, <1>5 DEF Consume, Check, LookForBill, Note, Advance, StartDaily, StartMissed,
     StartGap, Reread, Goto, Finish, DueHead, Rest, Billing, Job
<1> QED BY <1>0, <1>1, <1>2, <1>3, <1>4, <1>5, JobWrites

(* Whatever leaves the bills, the balance and the hands as they are keeps  *)
(* the credit where it is.                                                 *)
LEMMA PlaceStays ==
    ASSUME OnePlace, credit' = credit, granted' = granted,
           \A p \in Invoicers : /\ Holds(p)' <=> Holds(p)
                                /\ Holds(p) => inv'[p] = inv[p],
           DOMAIN bills' = DOMAIN bills,
           \A b \in DOMAIN bills : bills'[b].discount = bills[b].discount
    PROVE  OnePlace'
<1>1. \A b \in DOMAIN bills : Reduced(b)' <=> Reduced(b)
  BY DEF Reduced
<1>2. Elsewhere' <=> Elsewhere
  BY <1>1 DEF Elsewhere
<1> QED BY <1>1, <1>2 DEF OnePlace

LEMMA ConsumePlace ==
    ASSUME TypeOK, OnePlace, granted <= Fee, NEW p \in Invoicers, Consume(p)
    PROVE  OnePlace'
<1>0. /\ inv \in [Invoicers -> Job] /\ inv[p] \in Job /\ inv[p].pc = "credit"
      /\ credit \in Nat /\ granted \in Nat
  BY DEF TypeOK, Consume
<1>1. /\ inv'[p].pc = "insert" /\ inv'[p].discount = Spend(credit)
      /\ \A q \in Invoicers \ {p} : inv'[q] = inv[q]
      /\ credit' = credit - Spend(credit) /\ granted' = granted /\ bills' = bills
  BY <1>0 DEF Consume, Job
<1>2. Spend(credit) = credit /\ credit' = 0
  <2>1. credit <= Fee
    BY <1>0 DEF OnePlace
  <2> QED BY <1>0, <1>1, <2>1 DEF Spend
<1>3. ~Holds(p) /\ (Holds(p)' <=> credit > 0)
  BY <1>0, <1>1, <1>2 DEF Holds
<1>4. \A q \in Invoicers \ {p} : Holds(q)' <=> Holds(q)
  BY <1>1 DEF Holds
<1>5. \A b \in DOMAIN bills : Reduced(b)' <=> Reduced(b)
  BY <1>1 DEF Reduced
<1>6. CASE credit = 0
  <2>1. Elsewhere' <=> Elsewhere
    BY <1>1, <1>3, <1>4, <1>5, <1>6 DEF Elsewhere
  <2> QED BY <1>0, <1>1, <1>2, <1>3, <1>4, <1>5, <1>6, <2>1 DEF OnePlace
<1>7. CASE credit > 0
  <2>1. ~Elsewhere /\ credit = granted
    BY <1>7 DEF OnePlace
  <2>2. Elsewhere'
    BY <1>3, <1>7 DEF Elsewhere
  <2>3. /\ \A q \in Invoicers : Holds(q)' => q = p
        /\ \A b \in DOMAIN bills : ~Reduced(b)'
    BY <1>4, <1>5, <2>1 DEF Elsewhere
  <2> QED BY <1>1, <1>2, <2>1, <2>2, <2>3 DEF OnePlace
<1> QED BY <1>0, <1>6, <1>7

LEMMA InsertPlace ==
    ASSUME TypeOK, OnePlace, NEW p \in Invoicers, Insert(p)
    PROVE  OnePlace'
<1>0. /\ inv \in [Invoicers -> Job] /\ inv[p] \in Job /\ credit' = credit /\ granted' = granted
      /\ DOMAIN bills = 1..Len(bills) /\ Len(bills) \in Nat
  BY BillsAreSequence DEF TypeOK, Insert, merchant
<1>1. \A q \in Invoicers \ {p} : Holds(q)' <=> Holds(q)
  BY InsertJob DEF Holds
<1>2. Holds(p) <=> inv[p].discount > 0
  BY InsertJob DEF Holds
<1>3. CASE bills' = bills
  <2>1. Holds(p)' <=> Holds(p)
    <3>1. \/ inv[p].discount > 0 /\ inv'[p].pc = "refund" /\ inv'[p].discount = inv[p].discount
          \/ inv[p].discount = 0 /\ inv'[p].pc = "rest"
      <4>1. ~Appended(p)
        BY <1>0, <1>3, BillAppended
      <4> QED BY <4>1, InsertJob
    <3> QED BY <1>2, <3>1 DEF Holds
  <2>2. Holds(p) => inv'[p].discount = inv[p].discount /\ inv'[p].pc = "refund"
    <3>1. ~Appended(p)
      BY <1>0, <1>3, BillAppended
    <3> QED BY <1>2, <3>1, InsertJob
  <2>3. Elsewhere' <=> Elsewhere
    BY <1>1, <1>3, <2>1 DEF Elsewhere, Reduced
  <2>4. \A q \in Invoicers \ {p} : inv'[q] = inv[q]
    BY InsertJob
  <2>5. /\ \A q \in Invoicers : Holds(q)' => /\ inv'[q].discount = granted'
                                             /\ inv'[q].pc = "refunding" => inv'[q].seen = 0
        /\ \A b \in DOMAIN bills' : Reduced(b)' => bills'[b].discount = granted'
    BY <1>0, <1>1, <1>3, <2>1, <2>2, <2>4 DEF OnePlace, Reduced
  <2>6. /\ \A q, r \in Invoicers : Holds(q)' /\ Holds(r)' => q = r
        /\ \A b, c \in DOMAIN bills' : Reduced(b)' /\ Reduced(c)' => b = c
        /\ \A q \in Invoicers, b \in DOMAIN bills' : ~(Holds(q)' /\ Reduced(b)')
    BY <1>1, <1>3, <2>1 DEF OnePlace, Reduced
  <2> QED BY <1>0, <2>3, <2>5, <2>6 DEF OnePlace
<1>4. CASE Appended(p)
  <2>0. PICK n \in Nat : n = Len(bills) + 1
    BY <1>0
  <2>1. /\ DOMAIN bills' = DOMAIN bills \union {n} /\ n \notin DOMAIN bills
        /\ \A b \in DOMAIN bills : bills'[b] = bills[b]
        /\ bills'[n].discount = inv[p].discount
    BY <1>4, <2>0, BillAppended
  <2>2. ~Holds(p)'
    <3>1. bills' # bills
      BY <2>1
    <3>2. inv'[p].pc \in {"note", "advance", "rest"}
      BY <3>1, InsertJob
    <3> QED BY <3>2 DEF Holds
  <2>3. Reduced(n)' <=> Holds(p)
    BY <1>2, <2>1 DEF Reduced
  <2>4. \A b \in DOMAIN bills : Reduced(b)' <=> Reduced(b)
    BY <2>1 DEF Reduced
  <2>5. Elsewhere' <=> Elsewhere
    BY <1>1, <2>1, <2>2, <2>3, <2>4 DEF Elsewhere
  <2>6. /\ \A q \in Invoicers : Holds(q)' => /\ inv'[q].discount = granted'
                                             /\ inv'[q].pc = "refunding" => inv'[q].seen = 0
        /\ \A b \in DOMAIN bills' : Reduced(b)' => bills'[b].discount = granted'
    BY <1>0, <1>1, <2>1, <2>2, <2>3, <2>4, InsertJob DEF OnePlace
  <2>7. /\ \A q, r \in Invoicers : Holds(q)' /\ Holds(r)' => q = r
        /\ \A b, c \in DOMAIN bills' : Reduced(b)' /\ Reduced(c)' => b = c
        /\ \A q \in Invoicers, b \in DOMAIN bills' : ~(Holds(q)' /\ Reduced(b)')
    BY <1>1, <2>1, <2>2, <2>3, <2>4 DEF OnePlace
  <2> QED BY <1>0, <2>5, <2>6, <2>7 DEF OnePlace
<1> QED BY <1>3, <1>4, InsertJob

LEMMA RefundPlace ==
    ASSUME TypeOK, OnePlace, Refunds, NEW p \in Invoicers, RefundRead(p) \/ RefundWrite(p)
    PROVE  OnePlace'
<1>0. /\ inv \in [Invoicers -> Job] /\ inv[p] \in Job /\ inv[p].discount > 0
      /\ granted' = granted /\ bills' = bills /\ granted \in Nat
  BY DEF TypeOK, Refunds, RefundRead, RefundWrite
<1>1. Holds(p) /\ credit = 0 /\ inv[p].discount = granted /\ Elsewhere
  BY <1>0 DEF Holds, RefundRead, RefundWrite, Elsewhere, OnePlace
<1>2. \A b \in DOMAIN bills : ~Reduced(b)
  BY <1>1 DEF OnePlace
<1>3. \A q \in Invoicers \ {p} : ~Holds(q) /\ inv'[q] = inv[q]
  BY <1>0, <1>1 DEF OnePlace, RefundRead, RefundWrite, Finish
<1>4. \A q \in Invoicers \ {p} : ~Holds(q)'
  BY <1>3 DEF Holds
<1>5. \A b \in DOMAIN bills' : ~Reduced(b)'
  BY <1>0, <1>2 DEF Reduced
<1>6. CASE RefundRead(p)
  <2>1. /\ inv'[p].pc = "refunding" /\ inv'[p].seen = 0 /\ inv'[p].discount = inv[p].discount
        /\ credit' = 0
    BY <1>0, <1>1, <1>6 DEF RefundRead, merchant, Job
  <2>2. Holds(p)' /\ Elsewhere'
    BY <1>0, <2>1 DEF Holds, Elsewhere
  <2> QED BY <1>0, <1>1, <1>4, <1>5, <2>1, <2>2 DEF OnePlace
<1>7. CASE RefundWrite(p)
  <2>1. inv'[p] = Rest /\ credit' = 0 + granted
    BY <1>0, <1>1, <1>7 DEF RefundWrite, Finish, OnePlace
  <2>2. ~Holds(p)'
    BY <2>1 DEF Holds, Rest, Billing
  <2>3. ~Elsewhere'
    BY <1>4, <1>5, <2>2 DEF Elsewhere
  <2> QED BY <1>0, <1>4, <1>5, <2>1, <2>2, <2>3 DEF OnePlace
<1> QED BY <1>6, <1>7

LEMMA PlaceStep ==
    ASSUME PlaceInv, [Next]_vars, requests' = 0, crashes' = 0, granted' <= Fee
    PROVE  OnePlace'
<1>0. /\ TypeOK /\ inv \in [Invoicers -> Job] /\ OnePlace /\ Refunds /\ granted <= Fee
      /\ granted' = granted /\ ~Update
  BY QuietSteps DEF PlaceInv, TypeOK
<1>1. CASE UNCHANGED <<credit, inv>> /\ ~ \E p \in Invoicers : Insert(p)
  <2>1. \A p \in Invoicers : (Holds(p)' <=> Holds(p)) /\ inv'[p] = inv[p]
    BY <1>1 DEF Holds
  <2> QED BY <1>0, <1>1, <2>1, BillMoves, PlaceStays DEF Untouched
<1>2. ASSUME NEW p \in Invoicers, InvoicerMoves(p),
             ~Consume(p), ~Insert(p), ~RefundRead(p), ~RefundWrite(p)
      PROVE  OnePlace'
  <2>1. credit' = credit
    BY <1>2 DEF InvoicerMoves, InvoicerStep, StartDaily, StartMissed, StartGap, Reread, Check,
       LookForBill, Note, Advance, merchant
  <2>2. ~Holds(p) /\ ~Holds(p)' /\ \A q \in Invoicers \ {p} : inv'[q] = inv[q]
    <3>1. inv[p] \in Job
      BY <1>0
    <3> QED BY <1>0, <1>2, <3>1 DEF InvoicerMoves, InvoicerStep, StartDaily, StartMissed,
               StartGap, Rests, Reread, Check, LookForBill, Note, Advance, Goto, Finish, DueHead, Rest,
               Billing, Job, Holds
  <2>3. \A q \in Invoicers : /\ Holds(q)' <=> Holds(q)
                             /\ Holds(q) => inv'[q] = inv[q]
    BY <2>2 DEF Holds
  <2>4. ~ \E q \in Invoicers : Insert(q)
    <3> SUFFICES ASSUME NEW q \in Invoicers, Insert(q) PROVE FALSE
      OBVIOUS
    <3>1. inv'[q] # inv[q]
      BY <1>0, InsertJob
    <3>2. q = p
      BY <2>2, <3>1
    <3> QED BY <1>2, <3>2
  <2> QED BY <1>0, <2>1, <2>3, <2>4, BillMoves, PlaceStays DEF Untouched
<1>3. ASSUME NEW p \in Invoicers, InvoicerMoves(p) PROVE OnePlace'
  BY <1>0, <1>2, <1>3, ConsumePlace, InsertPlace, RefundPlace
<1> QED BY <1>1, <1>3, QuietSteps DEF PlaceInv

(* Several processes that bill one month, one of which is refused, spend   *)
(* the credit of one bill once: at rest it is in the balance or in one     *)
(* live bill, and nowhere else.                                            *)
THEOREM CreditsAreSpentOnce == Spec => []CreditSpentOnce
<1>1. PlaceInv /\ [Next]_vars => PlaceInv'
  BY TypeStep, UnaskedStep, RefundsStep, PlaceStep DEF PlaceInv
<1>2. PlaceInv => CreditSpentOnce
  <2> SUFFICES ASSUME PlaceInv, AtRest, requests = 0, crashes = 0, granted <= Fee
               PROVE  granted = credit + Discounts
    BY DEF CreditSpentOnce
  <2>1. /\ TypeOK /\ OnePlace /\ credit \in Nat /\ granted \in Nat
        /\ \A b \in DOMAIN bills : Live(b)
    BY DEF PlaceInv, Unasked, TypeOK
  <2>2. \A p \in Invoicers : ~Holds(p)
    BY DEF AtRest, Holds
  <2>3. \A b \in DOMAIN bills : /\ Worth(b) = bills[b].discount
                                /\ bills[b].discount \in Nat /\ b \in 1..Len(bills)
    BY <2>1, BillsAreSequence DEF Worth, Bill
  <2>4. CASE Elsewhere
    <3>1. PICK b \in DOMAIN bills : Reduced(b)
      BY <2>2, <2>4 DEF Elsewhere
    <3>2. \A c \in DOMAIN bills : Worth(c) = IF c = b THEN granted ELSE 0
      BY <2>1, <2>3, <3>1 DEF OnePlace, Reduced
    <3>3. Discounts = granted
      BY <2>1, <2>3, <3>2, SumOfOne
    <3> QED BY <2>1, <2>4, <3>3 DEF OnePlace
  <2>5. CASE ~Elsewhere
    <3>1. \A c \in DOMAIN bills : Worth(c) = IF c = 1 THEN 0 ELSE 0
      BY <2>3, <2>5 DEF Elsewhere, Reduced
    <3>2. Discounts = 0
      BY <2>1, <3>1, SumOfOne
    <3> QED BY <2>1, <2>5, <3>2 DEF OnePlace
  <2> QED BY <2>4, <2>5
<1> QED BY InitPlace, <1>1, <1>2, PTL DEF Spec
=============================================================================
