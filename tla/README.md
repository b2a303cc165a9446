# CryptoGate in TLA+

This directory is a verification development of CryptoGate (PaymentGate), a
non-custodial gateway for stablecoin payments: a merchant creates an *order*, the payer
sends tokens to the merchant's own wallet, and a watcher finds the transfer on the chain,
decides which order it pays, follows its confirmations and completes the order. Nothing in
the system holds keys or signs transactions; correctness means *crediting the right order,
once, for a payment that really happened*.

## 1. Inventory

| Part | Source | State it keeps | Operations |
|---|---|---|---|
| Matching rules | `packages/matching`, `apps/watcher/src/match` | none (pure) | assign a payable or memo to a new order; decide which orders a transfer binds |
| Order API and expiry job | `apps/api/src/orders` | `payment_orders` | create, re-quote, cancel, resolve an anomaly, expire |
| Watcher, matching half | `apps/watcher/src/tick.mjs`, `orders/` | scope runs in flight, cursors, hints (memory); `payment_orders` | list, poll, match, write |
| Watcher, confirmation half | `apps/watcher/src/confirm` | streaks of missing answers (memory); `payment_orders` | list, observe, write; per scope and in a priority pass |
| Watcher loop and address budget | `apps/watcher/src/loop.mjs`, `ingest/` | per-scope cursors, queue of transfer hints | choose the addresses polled in a tick |
| Chain clients | `packages/chain-clients` | scan cursors per network and per address | list recent transfers, state of a transaction |
| Merchant webhooks | `apps/api/src/webhooks` | outbox, deliveries with lease and attempts | fan out, claim, post, retry, resend |
| Mode S address pool | `apps/api/src/mode-s` | `hd_pool_addresses` | claim, bind, cool down, release |
| Settlement addresses, xpubs | `apps/api/src/settlement`, `xpub` | current and pending address with its due time | change, activate when due |
| Service bills, commission | `apps/api/src/service-bills`, `commercial` | bills, statements, payouts | schedule, issue, pay, adjust |
| Rates | `apps/api/src/rates` | venue samples | median with outlier guard |
| Sessions, MFA, limits, POS, exports, retention, organisations, audit, dashboards | `apps/api/src/*` | their tables | administration and reporting |
| Console, payment page, cashier app | `apps/web`, `apps/payment-page`, `apps/cashier-apk` | UI state | presentation over the API |

How they interact: the API and the watcher are separate processes that share only the
`payment_orders` table. The API decides inside a transaction under an advisory lock of the
wallet and rail. The watcher holds no lock: it **lists** rows, **polls** the chain for
seconds, **decides** from what it listed, **re-reads** the rows it would write with a
SELECT, and **writes** with an UPDATE whose WHERE clause, with one unique index, is all that
protects the rows at that moment. Several scope runs (asset, network) go on at once; a run
that exceeds its timeout keeps going beside the next tick. A trigger on `payment_orders`
feeds the webhook outbox.

What is hard: stale decisions; partial writes of a group of orders; transfers seen again
and again, late, or out of order with the expiry job; a crash at any point with all of the
watcher's memory lost; lagging nodes and reorganisations; two follow-ups of one order
finishing out of order; amounts that are close but not equal. `PROJECT.json` lists each
hazard at its line.

What makes each part correct:

* matching rules: a transfer settles an order only when it pays that order and no other of
  its mode at the address; it does so whenever that is the case; it concerns no order that
  did not exist when it was mined;
* orders and watcher: stages move only along the life cycle; a credit is written once; an
  output of a transaction is credited to one order; a credited order was paid in its window;
  a payment in time is noticed even after expiry or a crash;
* confirmations: counts are real and never rewound; completion needs the required depth;
  verification ends;
* polling: a transfer to an open order is matched, in hand, or ahead of the next scan of its
  address; a payment to a pending order is found whatever the budget;
* webhooks: every status change reaches every subscribed endpoint at least once or is tried
  to the end of the schedule; it is queued once; recorded outcomes stand; no two processes
  post the same delivery at the same time;
* address pool: an address serves one payable order at a time, late payments included, and
  no order gets an address of an xpub that was replaced before it began;
* service bills: every day is billed exactly once, credit is spent exactly once.

## 2. Modules

| Module | Models | State and actions |
|---|---|---|
| `Matching` | `match-exact.ts`, `mode-d/index.ts`, `transfer-eligibility.ts`, `pickUniquePayableMinor`, `inbound.mjs`, `classify.mjs` | operators only: `MatchExact`, `MatchMemo`, `MatchInbound`, `UniquePayables` |
| `MatchingInputs` | what the rules promise | any table of rows and any transfer; `NeverGuesses`, `FullPaymentSettles`, `OnlyConcernedOrders` |
| `PaymentOrders` | the order API, the watcher, the chain as they see it | see below |
| `OrderLifecycle` | what a merchant may rely on | abstract: a stage and a credit per order |
| `WebhookDelivery` | the outbox trigger, `apps/api/src/webhooks` | see below |
| `AddressBudget` | `ingest/address-budget.mjs` | operators only: `SelectAddressesForPoll` |
| `ChainIngest` | one scope of `tick.mjs` with the chain clients under it | see below |
| `AddressPool` | `apps/api/src/mode-s`, the xpub | see below |
| `ServiceBills` | `apps/api/src/service-bills`, `merchant-commercial-store.mjs` | see below |
| `MCMatching`, `MCPaymentOrders`, `MCWebhookDelivery`, `MCChainIngest`, `MCAddressPool`, `MCServiceBills` | small instances for TLC | inputs, payments, wallets, bounds |
| `PaymentOrdersProofs`, `ConfirmationProofs`, `CreditProofs`, `ChainIngestProofs`, `AddressPoolProofs`, `ServiceBillsProofs`, `WebhookDeliveryProofs`, `MatchingProofs` | theorems | - |

`PaymentOrders` instantiates `Matching` as `M` and `OrderLifecycle` as `L`. Its variables:

* `orders`: the table, one row per order id, `absent` until created;
* `now`: the clock, in ticks;
* `tx`, `paid`: the chain: state, depth, deepest depth and reorganisations of each
  transaction, and what each mined transfer carries;
* `run[s]`: a scope run of the watcher: where it is, the rows it listed, the addresses it
  watches, the transfers it has still to process, the transactions its matches settled, and
  the match selected but not written;
* `job[c][o]`: the follow-up of order `o` by confirmer `c` (a scope run or the priority
  pass): listed, decided, selected;
* `streak[o]`: consecutive missing answers; `crashes` so far.

| Action | Code | One step because |
|---|---|---|
| `CreateOrder`, `RequoteOrder` | `handleCreatePaymentOrder`, `handleRefreshPaymentOrderQuote`, `assignOnOrderCreate` | one transaction under the advisory lock (re-quote: and the row lock) |
| `CancelOrder`, `ResolveAnomaly`, `ExpireDue` | `cancelPendingPaymentOrder`, `resolvePaymentAnomaly`, `expireDuePaymentOrders` | one guarded UPDATE |
| `ListScope` | `ingestScope` up to the poll | reads; see abstractions |
| `PollScope` | `listRecentTransfers`, hints, `listKnownTxHashes` | the answer of the chain less the known outputs |
| `SelectRows` / `SkipTransfer` | `matchInboundTransfer` and the SELECT of `applyMatchResult` | the decision uses listed rows, the filter the SELECT |
| `ApplyMatch` | the UPDATE of `applyMatchResult` | one statement; fails as a whole on the unique index |
| `EndMatching`, `EndScope`, `StartPriority` | the confirmation half of `ingestScope`, `processPriorityConfirmations` | reads |
| `ObserveTruth`, `ObserveGlitch`, `StreakAges` | `processConfirmationBatch`, `evaluateConfirmationObservation` | decision from listed values |
| `SelectConfirmation`, `WriteConfirmation` | `applyConfirmationUpdate` | its SELECT, then its guarded UPDATE |
| `CrashWatcher` | death and restart of `runWatcherLoop` | memory is lost, tables stay |
| `Mine`, `Deepen`, `Reorganise`, `Tick` | the chain and the clock | external |

`WebhookDelivery` takes the stages of an order from `OrderLifecycle`, in place of the table:
`stage[o]` moves as the life cycle allows, which `PaymentOrdersProofs` proves of the real one.
Its variables are `outbox`, `enabled`, `deliveries` (a sequence, in the order of insertion)
and `worker[w]`, the delivery job of an API process; `tries` and `accepted` of a delivery
record what the endpoint saw and guard nothing.

| Action | Code | One step because |
|---|---|---|
| `ChangeStatus` | any status write with the trigger `cg_enqueue_payment_order_webhook` | the trigger runs in the transaction of the write |
| `Disable`, `Resend` | `disableWebhookEndpoint`, `handleResendWebhookDelivery` | one statement; a closed delivery never reopens, and an endpoint disabled between the check and the insert leaves a row nobody claims |
| `StartTick`, `Enqueue`, `Commit` | `processPaymentOrderWebhookOutbox` | the claim locks rows; the inserts are seen by others, and the locks released, at the commit |
| `Claim` | `claimPendingWebhookDeliveries` | one statement |
| `StartPost`, `Answer`, `Record` | `deliverWebhookOnce`, `updateWebhookDeliveryResult` | request, answer or timeout, guarded UPDATE |
| `Crash` | death of a process, or an error caught by the tick | the transaction rolls back, the claims stay |
| `Tick` | the clock | external |

`ChainIngest` opens up the one step `PollScope` of `PaymentOrders`: which addresses a tick
asks for, which blocks each client reads, when its cursors move, and what happens to what
was read. `client` is the kind of chain client (ERC-20, native Ethereum, paged); `cursor`,
`rot` and `run` are the process's memory; `owed` is what is on the chain for an open order
and not matched yet, and `discarded` remembers, for the properties alone, what a failed run
had read.

| Action | Code | One step because |
|---|---|---|
| `ListOrders` | `ingestScope` up to the poll, `SelectAddressesForPoll`, the scope's rotation cursor | reads and process memory |
| `ReadHead`, `ReadCall` | `latestBlock`; one call of `fetchErc20TransfersForAddresses`, `fetchNativeEthTransfersForAddresses`, the Tron and Solana listings | one request each; the cursors move with the answer |
| `MatchTransfers` | the matching half of `ingestScope` | detailed in `PaymentOrders` |
| `FailRun` | the `catch` of `listRecentTransfers`, a database error in `ingestScope` | the rest of the batch is dropped |
| `Crash` | death and restart of `runWatcherLoop` | memory is lost |
| `MineBlock`, `OpenOrder`, `Lapse`, `Close` | the chain; `PaymentOrders` | external |

`AddressPool` has the orders of one pair (`stage`, `addr`, `left`), the table (`pool`), the
merchant's `xpub` and, per site, the transaction of a create or re-quote (`tx`).

| Action | Code | One step because |
|---|---|---|
| `Begin`, `Claim`, `Commit`, `Abort` | `withCreateOrderLock`, `claimHdPoolAddress`, the insert or `applyOrderRequote` with `bindHdPoolOrder`, the rollback | a transaction: what it read first, the row it locks, what others see when it ends |
| `CreateElsewhere`, `RequoteHere`, `RequoteAway`, `ChangeStatus` | creates and re-quotes that need no row, the watcher's and the clerk's UPDATEs | one transaction or statement |
| `ExpireDue`, `CooldownFinal`, `ReleaseDue` | the expiry job's statements | one UPDATE each |
| `ActivateDue`, `PutXpub` | `activateDuePendingXpubs`, `upsertXpub` | one statement |
| `Tick` | the clock | external |

`ServiceBills` has a merchant's schedule (`plan`), `credit`, `bills` and pause (`org`), the
invoicers (`inv[p]`: a run of the daily job, or the route for missed invoices), the clerk's
request and the overdue job. None of them holds a transaction: every statement is a step.

| Action | Code |
|---|---|
| `StartDaily`, `Check`, `LookForBill`, `Consume`, `Insert`, `Note`, `Advance`, `RefundRead`, `RefundWrite` | `runDailyServiceBillInvoiceJob`, `createRecurringInvoiceForMerchant`, `createRecurringBillForWindow`, `advanceNextInvoiceOn`, `addMerchantServiceBillCredit` |
| `StartMissed`, `Reread`, `StartGap` | `findMissedInvoices`, `createMissedInvoice`, `listCancelledGaps` |
| `Open`, `Update`, `GrantCredit`, `ReadCredit`, `WriteCredit`, `ReadOrg`, `ResetAnchor`, `FindOther`, `Resume` | `handleUpdateServiceBill` and what it calls |
| `MarkOverdue`, `Pause` | `markOverdueServiceBills` |
| `Crash`, `Tick` | death of an invoicer's process; the calendar |

### Abstractions

* The two lists of open orders and of orders at the watched addresses are read in one step;
  between them nothing can happen that a stale list does not already allow.
* A poll returns any set of unknown transfers to watched addresses, at most one per
  transaction and address, as the clients' deduplication leaves them; with
  `LossyPolls = FALSE` it returns one for each. Known outputs are filtered in the same step.
* Transfers of a batch are processed in any order.
* Amounts are naturals in the asset's smallest unit; memos, addresses, transactions are
  model values. One merchant's wallets; other merchants' do not interact. The settlement
  address of a scope may change between any two creates or re-quotes, each of which takes
  one member of `WalletsOf`; the cooldown before a change is left out, so a model merchant
  changes its mind faster than a real one.
* Statuses `confirmed` and `failed` are read in places but never written; they are left out.
  `required_confirmations` is constant per scope. The underpay tolerance is always "0".
* Every transfer has a block time. (Solana and Tron answers without one are not modelled.)
* `DROPPED_TX_AFTER_MS` is the boolean `streak[o].old`, set by `StreakAges` at any time
  after the first missing answer.
* A transaction that is `gone` after a reorganisation stays gone. `ObserveGlitch` is a node
  that answers "missing", "unknown" or "confirmed" at less than the real depth. A node on an
  abandoned fork that goes on confirming a transaction that is gone is not modelled.
* The backfill of payer addresses and of received amounts is left out: no decision reads
  them. The addresses it makes the watcher poll are included in `watched`.
* `WebhookDelivery` keeps times as ticks to go. Within a process no time passes between two
  posts of a batch and no post takes longer than its timeout; that is in the code's favour
  where `LeaseCoversPosting` is concerned. A claim takes any `Batch` of the due deliveries,
  and the rows of a batch are posted in any order (the join that returns them has none). The
  LIMIT of 50 of the outbox claim, test events, payloads and signatures are left out.
  Endpoints exist from the start.
* Mode S appears in `Matching` and `AddressPool`, not in `PaymentOrders`.
* `PaymentOrders` assumes that the address budget covers all watched addresses and, where
  `LossyPolls = FALSE`, that a poll lists everything new. `ChainIngest` is where these are
  examined.
* `ChainIngest` takes block numbers for the clock: the slot arithmetic of `blockAtOrBefore`
  is the order's block less the overlap, and the cap `MAX_CATCHUP_BLOCKS` is out of reach.
  All orders live equally long, so the soonest expiry is the oldest order. An address has at
  most one open order and a block pays at most one address. The rotation cursor is kept
  modulo `Turn`, which the code uses it modulo anyway. Page limits, transfer hints, the
  eviction of cursors and the extra addresses of the payer backfill are left out. The head
  moves at most `MaxDrift` blocks between the listing and the head read of one run.
* `AddressPool`: `verifying`, `confirmed` and `payment_anomaly` are one stage `open`,
  `completed`, `cancelled` and `failed` one stage `final`. Orders at the main address or on
  other pairs have no pool address. The PUT of an xpub is one step, and an activation made
  inside a create's transaction is visible at once. Keys are not derived: an address is its
  xpub and index, so indexes whose address is the main one do not occur.
* `ServiceBills`: an activated merchant, one fee, a month of a constant number of days. The
  code adds calendar months, which clamps the day of the month (31 January, 28 February, 28
  March): the days differ and the chaining of windows does not. Bills a clerk adjusts by
  hand, fee waivers and activation bills are left out. No request and no job is in flight
  for a whole day.

## 3. Runs

| Run | Configuration | Shows |
|---|---|---|
| `matching` | every table of two rows over four modes, two rails, near amounts, memos and dates, against every small transfer | `NeverGuesses`, `FullPaymentSettles`, `OnlyConcernedOrders` |
| `orders_matching` | two orders, modes B, C and D, a settlement address that changes; two transfers of 200, 201 or 210, with memo or without, to either address; one crash; lossy polls | `CreditsMatchPayments`, `CollisionsAreAmbiguous`, `ReviewWithPaymentIsFinal` |
| `orders_rails` | two orders on two tokens at one wallet, until one token gets a wallet of its own; two outputs of one transaction, re-quotes | `TypeOK`, `CreditFollowsOrder`, `ImplementsLifecycle` |
| `orders_live` | one order, three confirmations required, one reorganisation, one crash, a scope run and the priority pass both following up; fair | `CompletedByChain`, `ConfirmationsGrow`, `PaidOrderIsNoticed`, `VerifyingConcludes` |
| `webhooks` | two processes, batches of two, a post as long as the lease, one retry, one crash, one resend; fair | `TypeOK`, `QueuedOnce`, `GivenUpAfterAllAttempts`, `OutcomesStand`, `EveryEventConcludes` |
| `ingest` | two addresses, budget 1, the three kinds of client, one lagging answer or failed run, one restart; fair | `TypeOK`, `SkippedOnlyByFailure`, `PendingPaymentFound` |
| `billing` | two processes that may die beside the missed-invoice route, or beside a clerk without payments; one process beside a clerk with payments, of bills sent by the job or by hand | `TypeOK`, `NoDayBilledTwice`, `NoDayLeftOut`, `CreditSpentOnce` |
| `pool` | two orders, two sites, two xpubs, three addresses | `TypeOK`, `PoolAddressIsExclusive`, `PayableHoldsRow`, `NoRowLost`, `RetiredXpubNotReused` |
| `orders_requote` | two tokens with a wallet each, one transfer, re-quotes | `NeverTwoCompletedsFromOnePayment` is **violated** |
| `webhooks_lease` | two processes, batches of two, posts of up to two ticks under a lease of three | `LeaseCoversPosting` is **violated** |
| `ingest_skip` | as `ingest`, ERC-20, three blocks | `NeverSkipped` is **violated** |
| `billing_missed` | two processes and the missed-invoice route | `OnlyDueBilled` is **violated** |

Every property of a passing run has a mutant of the code (in the module it mutates, next to
the definition, marked *Mutant*) under which TLC finds it violated.

### Bounds, and why they suffice

Two orders and two transfers are the smallest numbers with a collision, a group write, a
contest for one output and a second payment of one order. `Horizon = 1` with
`Validity = 1` has a time inside the window and one at its end, which is where late begins;
an order created at 1 is younger than a transfer mined at 0. `Lookback = Horizon`, so that
the lookback for late payments does not close within a run: `PaidOrderIsNoticed` is about
payments the chain shows before it does (two ticks with a shorter lookback are out of reach
with fairness). Two orders and `MaxSteps = 1` do not exhaust the fingerprints of an amount;
`CollisionsAreReal` (section 5) holds for any number of orders and steps. That creates and
re-quotes are one step assumes the advisory lock: `CollisionsAreAmbiguous` shows what the
lock has to make atomic, not that it is held. Two rails of one network are
what the unique index needs. The wrong-rail answer is reached by `matching` only: in
`PaymentOrders` it takes three orders (one that keeps an old address polled on a rail, one
that lists the rail, one that waits at the old address on another), more than a run can
have; the theorems of section 5 hold for any number. `DropMin` and `MissingMin` are 2 in the
runs (3 in the code), with a required depth of 3, so that both rules can and cannot apply.
One crash restarts the watcher between any two of its steps; nothing in the tables depends
on how many went before. `Followers` restricts who follows confirmations up in a run:
nobody where the properties are about matching. `Dust < Step` is what `match-exact.ts` and
the domain constants demand; `Quotes = {200}` in `orders_matching` keeps the requests a
multiple of `Step` apart, the case in which fingerprints work (section 4 has the other). Two processes and two deliveries are what a contest for a row and a
batch need; one retry gives a delivery a first and a last attempt; a post as long as the
lease makes every lease run out under a batch.

In `ingest` a budget of 1 for two addresses makes the rotation matter; a span and a tick of
two blocks on a chain of three (0 to 2) leaves a scan behind the head; an overlap of one
block covers a lag and a drift of one, as 12 blocks and 1 block are meant to in the code.
In `pool` the cooldown is one tick longer than the late-payment window, the least that
`PoolAssumption` allows; one xpub has two indexes, so that a claim can find a free row,
derive one, or find neither, and two sites can race for one index. In `billing` three
months fit in `Horizon`: a period, its successor, and one billed late; the members of
`Bounds` say what may happen together, since everything at once is out of TLC's reach and
not true: `NoDayLeftOut` fails with a late payment beside a second process or a crash,
`NoDayBilledTwice` with one beside the missed-invoice route, `CreditSpentOnce` with a clerk's
requests, a crash or more credit than one fee (section 4). Runs about safety check no deadlock: with the bounds exhausted
the small system stops.

### Fairness

`FairSpec` assumes what the loops provide. The watcher's ticks follow one another for ever
and start every scope that needs work after the priority pass, and `runScopeOnce` keeps a
scope from waiting for anything but its own earlier run: weak fairness of each scope run and
follow-up, strong fairness of starting one. A transaction that is asked about again and
again is answered truthfully in the end (`SF ObserveTruth`): nodes lag, they do not lag for
ever. The expiry job runs every 30 seconds; blocks keep being mined; time passes. Nobody
has to pay, cancel, resolve or re-quote, and crashes are not fair.

In `WebhookDelivery` the job of each process ticks every five seconds and waits for no other
process (weak fairness of its steps); time passes whatever the processes do, whenever no
step is due at once (strong fairness of `Tick`). Nothing makes an endpoint answer. Both
fairness conditions are written as formulas about the steps with their enabling condition
spelled out (`CanTick`), which TLC evaluates faster than ENABLED.

In `ChainIngest` the loop keeps ticking while there is an open order, and every call of a
run answers or fails (`Fairness`, weak fairness of `RunStep` spelled out in the same way).
Nodes may lag and runs fail only `MaxFaults` times. Nothing of the world is fair: no block
has to be mined and no order has to end. `AddressPool` and `ServiceBills` state no
liveness: a claim may be refused, and a bill waits for a clerk.

## 4. What the violations say

1. **A stale match follows a re-quoted order** (`orders_requote`). The UPDATE of
   `applyMatchResult` does not compare the row's address and amount with the listed ones. An
   order re-quoted to another wallet in between is credited with a transfer to the old one,
   and the output, now recorded with the wrong address, can complete another order too.
2. **A batch outlasts its lease** (`webhooks_lease`). A claim leases all rows of a batch from
   the moment it is made, for 120 s in the code, and the 20 rows are posted one after the
   other with 10 s each. When endpoints are slow, the last rows are posted by two processes
   at once. `GivenUpAfterAllAttempts` and `OutcomesStand` hold nevertheless: the guard of
   `updateWebhookDeliveryResult` keeps the harm to duplicate posts.
3. **A failed poll skips what it had read** (`ingest_skip`). The cursors of the ERC-20 scan
   move with each call, before anything is matched. When a later call or the database fails,
   the transfers of the poll are dropped, and the next scan goes back no further than its
   overlap. `SkippedOnlyByFailure` is the other half: nothing else makes the watcher skip.
4. **The missed-invoice route bills too early** (`billing_missed`). It checks that a period
   is missed and then reads the schedule again; when the daily job moved it on in between,
   the route bills the next period before it is over.

TLC also found these in the models, in instances kept out of the runs:

* the first matching mode that answers anything but "no open order at address" decides, so
  that an order of an earlier mode can hide a later mode's order that was paid to the unit;
* two Mode C orders whose requests are not a multiple of the step apart can get fingerprints
  within the dust of each other (`pickUniquePayableMinor` avoids only equal amounts), and
  paying either is a collision;
* the rest tier of the address budget is not rotated fairly: with three addresses and a
  budget of two, as addresses move between the tiers, one can be passed over for ever;
* with two invoicers and a late payment (Horizon 8), or a late payment and a crash, a stale
  `Advance` and the reset of the schedule leave days unbilled, and with the missed-invoice
  route and a cancelled period beside a late payment a day is billed twice;
* a bill paid between the two statements of the overdue job leaves a merchant paused that
  owes nothing;
* credit is lost, or spent twice, when the clerk's read and write of the balance interleave
  with an invoicer's. A cancelled bill also gives back the credit noted on it when the
  request began. A process that dies between spending credit and inserting the bill loses it;
* credit is spent twice without any clerk when it exceeds one bill: two processes take a part
  each, one is refused, reads the balance to give its part back, and writes it after the
  other has taken more for its next bill. `CreditSpentOnce` is therefore about credit of at
  most one fee;
* with re-quotes an order can be flagged for a collision although it was paid to the unit: a
  Mode C order re-quoted after another expired is given that one's fingerprint, and its
  window reaches back to before the other's end.

A comment differs from the code in passing: `settlement-rules.mjs:10` says the default of
24 h "covers late-payment window", which is seven days.

`CreditsMatchPayments` is checked without re-quotes for the reason of 1.

## 5. Proofs

The runs check small instances; the theorems hold for every value of the constants that
satisfies the named assumptions of the module they are about (`TableAssumption`,
`AmountAssumption`, `TimeAssumption` and `SwitchAssumption` of `PaymentOrders`,
`IngestAssumption`, `WebhookAssumption`, `PoolAssumption` and `AddressAssumption`,
`BillsAssumption`, `InputAssumption`): any number of orders, scopes, networks, transfers,
addresses, processes and crashes. A theorem that needs more names it as a hypothesis.

* `PaymentOrdersProofs!Invariance` and `TypeCorrect` (`TypeOK`). The type invariant is not
  inductive alone. `Inv` adds: a row that exists has its scope and address, a row that was
  never matched has no transaction, a verifying or completed row has one (`RowsOK`); a run
  about to write has a transfer and a status that binds (`HitsOK`); no two rows hold the
  same output (`UniqueOutputs`). One lemma per action, a shared lemma for all steps of the
  table that touch one row.
* `PaymentOrdersProofs!LifecycleImplemented` (`ImplementsLifecycle`). Each step of the table
  satisfies a row-wise relation that maps to an abstract step; `UniqueOutputs` gives the
  abstract uniqueness of credits.
* `ConfirmationProofs!ConfirmationsAreReal` (`CompletedByChain`). What a follow-up carries
  is bounded by the deepest its transaction ever was, and a decision to complete carries at
  least the required depth (`JobsOK`); a row's transaction does not change under a
  follow-up. `CountsNeverRewind` (`ConfirmationsGrow`) follows from the guards of the three
  updates and the same invariant.
* `CreditProofs` proves what a credit is worth. A run decides from rows it listed and writes
  rows it did not lock, so the argument is that what it has in hand stays true. A row keeps
  its date and, unless it is re-quoted, all that it asks for, so a listed row is an earlier
  version of the row in the table (`Keeps`, `ListedOK`); a transfer is mined once
  (`PaidStays`, `BatchOK`); what the rules found in the listed rows (`RightInbound`)
  therefore still holds of the rows when they are written (`Deserved`, `WritesOK`).
  `CreditsFollowOrders` (`CreditFollowsOrder`) holds with re-quotes; `CreditsAreReal`
  (`CreditsMatchPayments`) assumes `~Requotes`, for with them it is not true (section 4).
  `ReviewsAreFinal` (`ReviewWithPaymentIsFinal`) adds that a transfer in the hand of a run is
  nobody's yet, or belonged to its order when the run listed (`HandsOK`). It assumes that a
  transaction carries one token transfer (`OneTransferEach`); of transactions with more
  outputs it says nothing. `CompletionsHaveTheirOwnOutputs`
  (`NeverTwoCompletedsFromOnePayment`, without re-quotes) joins two invariants: each
  completed order was credited with a transfer that pays it, and by the unique index the
  transfers of two orders differ. With re-quotes it is violated (section 4).
* `CreditProofs!CollisionsAreReal` (`CollisionsAreAmbiguous`) assumes that payers do not
  re-quote and that quotes are multiples of the step apart (`QuotesSpaced`); neither can be
  dropped (section 4). An order that can be paid at the same time as another of its mode,
  rail and address has an amount more than the dust away (`Apart`): a create checks it against the
  reservations, and an order it does not check has expired, so that their windows do not
  meet. The same is true of the rows of a run, which were listed at once (`RunsApart`). A
  collision names an order and a rival that the transfer would settle as well
  (`CollisionsHaveRivals`), so the amount paid is neither's (`HitsAmbiguous`).
* `ChainIngestProofs` proves both safety properties of the run `ingest`, for any number of
  addresses and any budget, span, chunk and tick. `IngestInvariance` is the inductive
  invariant, `IngestTypes` (`TypeOK`) and `OnlyFailureSkips` (`SkippedOnlyByFailure`) follow
  from it. A transfer to an open order is `Safe` when a failed run dropped it, when the run
  in flight holds it, or when it lies in what the next scan of its address reads; as long as
  a run still has calls to make, the last must survive them, so it lies above all that they
  can move a cursor past (`Later`), or they read it before they pass it (`Planned`). The
  latter rests on how a run plans its calls: the chunks of a list contain each of its
  addresses, and an address behind the span is read from its own cursor (`Erc20Plan`,
  `PlanReaches`). `OnlyFailureSkips` assumes `OverlapsCover`: how far a node lags, and what
  is mined between the listing and the head read, is at most the blocks that a scan reads
  again. These are 12 blocks for ERC-20 (`ERC20_RESCAN_BLOCKS`) and one for native transfers
  in the code; a node that lags further makes the watcher skip.
* `AddressPoolProofs` proves every property of the run `pool`, from `PoolAssumption` (the
  cooldown is longer than the window, the heart of the matter) and `AddressAssumption`. The
  inductive invariant ties three things together: an order that may still be paid late has
  its row in use, or cooling down for longer than the order's window has left; a claimed row
  is nobody's; a transaction writes an order that is locked and has no row.
* `ServiceBillsProofs` proves `TypeOK` for all behaviours, and `NoDayBilledTwice` and
  `NoDayLeftOut` under `NoPayments` (the clerk sends, waives and cancels but takes no
  payment), for any number of concurrent invoicers and crashes. With payments they are not
  true (section 4). The invariant says that bills lie on the grid of months (`PeriodsOK`),
  that the schedule stands on the grid and everything before it is billed (`ScheduleOK`),
  and that what an invoicer carries is a period of the grid and, once it is to move the
  schedule, a billed one (`JobOK`). `OnlyDuePeriodsAreBilled` (`OnlyDueBilled`) holds with
  payments, for every route but the one for missed invoices, which breaks it (section 4):
  whatever an invoicer carries had ended when it was taken up (`JobsDue`).
  `CreditsAreSpentOnce` (`CreditSpentOnce`) holds for any number of invoicers. Credit of at
  most one fee is in one place at a time: the balance, the hand of one process, its bill, or
  the balance that a refused process is about to write (`OnePlace`); since at most one bill
  carries any, the sum over the bills needs no induction but a least counterexample.
* `WebhookDeliveryProofs` proves every safety property of the run `webhooks`, from
  `WebhookAssumption`. `QueuedOnce` rests on the locks alone: processes hold disjoint sets of
  queued rows, and a delivery exists only for a processed row (`Locked`, `Settled`).
  `GivenUpAfterAllAttempts` rests on a count: a claim is at an attempt whose predecessors
  were all posted, and a delivery being posted at one that was posted too (`Counted`,
  `Posted`). Neither needs the lease to be long enough, which it is not (section 4).
* `MatchingProofs` proves the three properties of the run `matching` for any finite set of
  orders (`InputAssumption`), in any modes, statuses, amounts and times. `GroupOutcome` says
  what the rules answer for the orders of one mode: a settlement exactly when one open order
  fits (and is named, in mode D); `InboundCases` says that the whole answer is one group's,
  the wrong-rail answer, or none. The arithmetic of `AmountFits` is never opened: the
  theorems hold for any test of an amount.

Only model-checked: the liveness properties (`PaidOrderIsNoticed`, `VerifyingConcludes`,
`EveryEventConcludes`, `PendingPaymentFound`), which need fairness and ENABLED, and the four
violations. Every safety property of a passing run is a theorem, some under the hypotheses
named above: without re-quotes, without payments to a clerk, or with overlaps that cover the
lag of the nodes; where a hypothesis excludes something the code does, section 4 says what
happens then.

## 6. Not modelled

* Of the modelled parts: the idempotent replay of a create, maintenance and pricing checks;
  transfer hints as a queue and the payer backfill; page limits and decoding in the chain
  clients; creation of webhook endpoints and their limit; the cooldown of a settlement
  address (the same code as the xpub's); activation bills, fee waivers and estimates of
  bills. Each is named with its component in `PROJECT.json`.
* Agent commission, rates, sessions, MFA and login limits, POS terminals, exports,
  retention: their tables are read or written by one request or one job at a time, and no
  modelled part decides by them.
* User interfaces (more than half of the lines of the repository), deployment, mail and SMS,
  dashboards and reports, organisations and settings CRUD: state without the concurrency or
  ordering this development is about, or pure I/O.

Known gaps: two outputs of one transaction to one address count once (the clients
deduplicate); a transfer on a rail nobody polls is never classified as wrong network; a
failed statement inside a transaction (a unique violation caught and ignored) aborts it in
Postgres (`Abort` of `AddressPool`).
