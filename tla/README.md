# Verification of the 九小二 (jiuxiaoer) backend

TLA+ models, TLC runs and TLAPS proofs for the Go backend under `src/`: a liquor
retailer with on-demand delivery, WeChat Pay, wine-ticket assets, and workers that
talk over MySQL rows and RabbitMQ. The models follow the code; where this text and
a comment in the code disagree with the code, the code is what is modelled.

## 1. The system

The API processes and the workers share one MySQL database, Redis and RabbitMQ. A
handler runs one or more database transactions; rows are locked with `SELECT ... FOR
UPDATE`, so one transaction is one atomic step of a model, and what is hard lies
*between* transactions: provider calls, retries, callbacks, other processes, death of
a process, and what people read before they decide.

| part (`internal/...`) | state | operations | interacts with |
|---|---|---|---|
| `pkg/idempotency` | `idempotency_keys` rows: owner id, hash, status, lease, response | Start, Succeed(Owned), Fail(Owned), ReplayCompleted | every writing endpoint |
| `modules/order` | `orders`, `product_stocks`, `payments`, `payment_callbacks` | Create, Cancel, CreatePayment, callbacks, expiry, reconciliation | WeChat Pay, stock, outbox |
| `modules/order` (business payments) | payments of purchases and renewals | settlement handlers, their exceptions and refunds | wine tickets |
| `modules/mq` | `outbox_events`, dead letters, replays, `mq_consumer_receipts` | claim, publish, confirm, mark, replay; deliver, handle, retry, dead-letter | all modules, RabbitMQ |
| `modules/dispatch` | jobs, offers, assignments, rider presence | claim, offer, accept, reject, grab, time out, assign by hand | deliveries |
| `modules/delivery`, `deliveryverification`, `store`, `ops` | deliveries, pickup and delivery codes | prepare, pick up, complete, force | orders, riders |
| `modules/deliveryreturn`, `deliveryincident`, `aftersale`, `refund` | returns, incidents, cases, refund rows | apply, review, receive, submit, callback, repair, settle | WeChat Pay, orders |
| `modules/wineticket/*` | lots, ledger, gifts, redemptions, renewals, purchases, refunds, slots | purchase, hold, gift, claim, redeem, renew, refund, expire, check, remind | business payments, deliveries |
| `modules/asset`, `member` | balances, lots, holds, compensations, growth | credit, debit, reverse, freeze, pay | after-sales |
| `modules/reconciliation` | bill runs, differences | claim, download, compare, resolve | WeChat Pay |
| `modules/notification`, `printjob`, `realtime` | deliveries of notices, print tasks, alerts, connections | claim, send, retry, relay, resume | outbox, Redis |
| `modules/cart`, `product`, `home`, `customerlocation` | cart items, catalogue, caches, policies | add, select, repurchase, publish, read through a cache | orders |
| `modules/auth`, `provisioning`, `riderapplication`, `compliance` | accounts, sessions, applications, verification requests | sign in, refresh, review, switch off, verify | every request |
| `config`, `app`, `infra/nodelease` | switches, running workers, a Redis lease per process | validate, start, acquire, renew, lose | everything |

What is hard, and what the properties are for (every hazard is listed with its line in
`PROJECT.json`):

* a claim's lease lapses, or its process dies, in the middle of a provider call;
* a provider answer is read without a lock and applied after a callback, a
  cancellation or another answer; money arrives late, twice, or with data that does not
  match;
* a publisher reads a confirmation that was meant for another event; a consumer's
  failure is recorded after another copy of the message succeeded;
* a rider, a worker, an administrator and the customer decide about one delivery at the
  same time; codes, refunds and returns overtake each other;
* several businesses hold tickets of the same lot, and payments for them settle when the
  lot has changed;
* a cursor, a lease and a batch must together cover every row exactly once (the nightly
  check, the bills, the resume of a connection);
* caches, sessions and published content are used after what they were made from has
  changed.

## 2. The modules

| module | models (`internal/...`) | built on |
|---|---|---|
| `AnswerOnce` | the abstract promise of an idempotency key: one answer, chosen once | |
| `Idempotency` | `pkg/idempotency` and both ways handlers use it | implements `AnswerOnce` |
| `RetailOrder` | the rows of a retail order and every transaction on them | |
| `PaymentFlow` | who calls those transactions, and the provider | implements `RetailOrder` |
| `Outbox` | `modules/mq`: publisher, channels, dead letters, replay | |
| `Consumer` | `modules/mq`: consumer runtime, dead sink, and the database scans that stand in for the broker | |
| `PrintJob`, `Notification` | print tasks and notifications, with their workers | |
| `Realtime` | alerts over WebSocket: rows, wake-ups, relay worker, hub, connections | |
| `Delivery` | shop, pickup, completion, and the two codes | |
| `Dispatch` | jobs, offers, grab window, assignment, riders who come and go | `Delivery` |
| `Refund` | refund rows, their worker, callbacks, repair | `Delivery` |
| `DeliveryReturn` | returns, incidents, and the customer's after-sale cases | `Refund` |
| `TicketLots` | lots and ledger (`wineticket/core`) | |
| `BusinessPayment` | payments and refunds of a business other than the retail order | `TicketLots` |
| `TicketPurchase`, `TicketRenewal` | purchase and refund of tickets; renewal | `BusinessPayment` |
| `TicketGift`, `TicketRedemption` | gifts and tokens; redemptions and slots | `TicketLots` |
| `Tickets` | the four together; what customers are shown of them | the above |
| `TicketIntegrity`, `TicketReminder` | the nightly check; reminders of expiry | |
| `AssetLedger`, `Bills` | customer assets with compensations; provider bills | |
| `Cart`, `Shelf`, `Publication` | the cart; caches of the catalogue; content that is published | |
| `AccountAccess`, `RiderApplication`, `Identity` | sessions and sign-in; applications; real-name checks | |
| `Runtime` | what a configuration makes processes run; node ids and their leases | |
| `*Proofs` | theorems about the module they are named after; `PaymentFlowProofs` also about `RetailOrder`; `StorefrontProofs` about `Idempotency`, `Shelf`, `Publication` and `Cart`; `PlatformProofs`, `JobsProofs` and `FulfilmentProofs` about the parts of `MCPlatform`, `MCJobs` and `MCFulfilment`, where `PlatformProofs` rests on `TicketProofs` for the wine tickets | |
| `SumTheorems` | lemmas on sums over finite sets | |
| `MC*` | instances for TLC | |

Each module's header says what it leaves out. Some conventions are common to all. A
lease that runs out, a deadline that passes and a process that dies are steps of their
own; where only the order of times matters, time is a flag of the row, and where
durations matter (tickets, node leases), a small counter. A version a caller must name
is left out when a stale one only refuses what the model allows. External services are
modelled by what the code may observe of them: they act or refuse, and an answer may be
late or lost.

**Idempotency.** One variable per column group of `idempotency_keys` (`row`), one
program counter per request (`pc`), and the answers given (`served`). `StartAt` is
the insert-or-adopt transaction of `StartAt`; `SucceedOwned`/`FailOwned` carry the
fencing id; `Succeed`/`Fail` stand for endpoints whose claim, write and completion
share one transaction. A request is identified with its claim id and with the
response it computes, since both are fresh. `lapsed` and `effects` are history
variables. Time is the nondeterministic step `LeaseExpires`.

**RetailOrder.** `order`, `pay`, `available`/`reserved`, counts of stock records
and the outbox; one action per transaction of `service.go` and `payment_state.go`.
A provider report may be applied at any moment with any content, so what holds here
holds whoever calls. `expected_version` on cancellations is left out: it only
refuses cancellations that the model allows. Order statuses beyond payment
(picking, delivery, completion) belong to other modules and are not entered here.

**PaymentFlow.** Adds the callers: `CreatePayment` as claim, provider call and
finishing transaction (with its error and compensation paths), notifications, and
*tasks*: a customer confirmation, one reconciliation or one expiry pass, each of
which reads, asks the provider with no lock held, and then applies an answer that
may be stale. Requests and tasks may die at any step. A claim can be taken over at
any time, which covers every lease timing. WeChat Pay (`trade`) is external: it
accepts a payment number while unpaid, reports its state, may lose an answer after
acting, refuses to close a paid trade, accepts no new payer after `time_expire`,
and notifies successes until accepted. For the orders in `Suspect` it may also
report data that does not match.

**Outbox.** `row` is `outbox_events`, `letter` the publisher's dead letters,
`replays` the replay table; `job` is what `publishBatch` holds in memory (claim
token, events still to sort, events to send, and the retry counts *read at claim
time*), `chan` its AMQP channel with the messages sent and the confirmations not yet
read. One action per statement or transaction (`claimBatch`, `markPublished`,
`markNoConsumer`, `markValidationDead`, `markFailed`, `Replay`) and per branch of
`publishConfirmed`. What the registry and the envelope check make of an event is
its `Kind` ("unregistered" also stands for a malformed event without consumers:
both die and neither can be replayed); event contents are left out. Time is two
flags of a row, `due` and `leased`. A statement may fail, which the code logs and
skips. RabbitMQ is external: it answers for the messages of a channel in order, and
a message whose publisher has stopped listening (`adrift`) may still arrive or be
lost. `Emit` stands for the insert every business transaction ends with, as
`RetailOrder`'s do.

**Consumer.** The unit is the pair of a consumer and an event, since a receipt row
exists per pair. Copies wait in the queue, in the delay queues and with sessions that
handle them; `receipt`, the handler's effect and the fan-out are separate, because
processEnvelope, AfterCommit and the receipt's completion are separate transactions.
`recordFailure` writes over the receipt without looking, as the code does.

**Dispatch, Delivery.** One delivery. The worker claims a job under a lease and then acts
on what the rows say at that time; offers and the grab window have deadlines that pass
on their own; accepting, rejecting, reassigning and cancelling are transactions that may
come in between. Every code row is replaced, tried, locked, expired, unlocked,
invalidated or overridden exactly where the code does it. `ForceComplete` is the
administrator's completion without a code.

**Refund, DeliveryReturn.** One order with up to two cases for the same unit.
A refund is claimed, queried or submitted, and applied in separate steps; callbacks arrive
at any time, and the provider may take a submission whose answer is lost. A return's
approval opens a refund, and the return closes when goods and money are back.

**Tickets.** Every change of a lot writes the lot and one ledger row in the transaction of
the business (`Post`). The tables of all businesses are declared in `TicketLots` since each
looks at the others before it touches a lot. The nine phases of the nightly check are
stated here as rules of the rows (`LotRule`, `GiftRule`, ...), and `TicketsReconcile` says
that no business ever leaves a row the check would report.

**Workers.** `PrintJob`, `Notification`, `TicketReminder`, `TicketIntegrity`, `AssetLedger`
and `Bills` each keep the row that is claimed, who believes to hold it, and what really
happened outside (printed, sent, paid, downloaded), so that what a row says can be
compared with what was done. An answer of the notification provider is "ok" when it carries
no error: the worker does not read `SendResult.Status`, so a notice has `grounds`, what its
success rests on. The nightly check knows which rows are `there` and which were `present`
when a cycle began, since ids are drawn before their rows are committed and may appear below
the cursor or the watermark.

**Realtime.** One recipient, either a rider with rows of `realtime_events` or a merchant whose
wake-ups carry the alert. A wake-up is under way (`wire`), lost (`missed`) or taken by the
hub, which gives it to the connections registered at that moment, each with a bounded
queue. A connection registers, then reads the rows after its cursor page by page, then
follows; the relay worker repeats wake-ups that could not be published, a bounded number
of times. `past` keeps the rows a reading passed over because their ids are not above the
client's cursor: those committed and announced by then, and no others.

**Publication, Shelf, Cart.** Administrators act on the row their last answer showed;
readers write back to a cache what they read earlier; devices send requests again. A
history variable keeps what was seen, and properties compare it with what is in force. A
product page also shows the stock, which orders, cases, returns and redemptions move without
touching the cache (`StockMoves`). A request on the cart takes three steps: `BeginMutation`
claims the key, and with the read that ends `StartAt` fixes the snapshot of all plain reads;
`LockCart` gets the cart's row, perhaps after a wait, and checks against that snapshot;
`CommitMutation` writes.

**Access and processes.** A token carries what was read when it was issued;
`AccountAccess` compares it with the account at each request; a sign-in code is sent, lapses
after its lifetime, and may be sent again or fail late. `Runtime` reads `Validate`
and the wiring in `internal/app` as two independent definitions and compares them; for the
node ids it counts time in sixths of the lease. Any time may pass between `Acquire`
and the `Run` that starts to refresh.

## 3. The runs

| run | instance | shows |
|---|---|---|
| `idempotency` | 5 requests, 2 keys, 2 payloads | one answer per key, live claims exclude each other, transactional effects happen once, refinement of `AnswerOnce`, and every persistent client gets an outcome despite deaths |
| `order_rows` | 2 orders, 2 products (stock 3 and 1); one cart and two devices; one cache; one kind of content | stock is conserved, reservations settled once, money has an outcome, nothing is revived; the cart loses and repeats nothing; the catalogue shown is what was approved, and old only for the named reasons |
| `payment_race` | 1 order, 2 requests with different keys, 2 tasks, mismatching data | the flow refines `RetailOrder`; no invented money |
| `payment_shared_key` | 1 order, 2 requests with one key, 2 tasks | the expiry worker abandons no payer |
| `payment_live` | 2 orders, 1 unit, 1 request, 1 task, mock channel on | money is recorded; expired orders are settled |
| `outbox_race` | 1 event, 2 publishers, 3 retries, 2 faults, late confirms | a settled row stays settled, the retry budget is exact, a dead event has its letter, every event is settled whoever dies |
| `outbox_replay` | 5 events of three kinds, 1 publisher, 1 retry, 1 fault, timely confirms | only what the broker took is marked published; a letter is replayed at most once |
| `fulfilment` | 1 order, 2 riders, 2 cases, in six stretches | records of who delivers agree; the goods stay with who took them; money goes back once, for a reason, and together with the goods; a refunded order is not handed over without an administrator |
| `platform` | eight parts, see below | lots reconcile, nothing is spent twice, customers are shown the truth; rights and alerts are current; people are who they say; processes serve what is enabled, and share a node id no longer than stated |
| `jobs` | eight parts, see below | no message is lost, what reads done was done once, the nightly cycle finds everything in its rows, the books agree, and all work comes to its end |
| `outbox_at_least_once` | 2 events, 1 publisher, late confirms | a **violation**: see section 6 |
| `success_kept` | 1 order, 2 requests with different keys | a **violation**: see section 6 |

Parts. Components that share no state are checked side by side in one instance: `part`
(in `MCFulfilment`, `side`) is drawn at the start, one part moves and the others rest,
with what they would draw fixed. This is not a product of the parts, and claims nothing
about interactions the code does not have. The parts of `order_rows` are orders, cart,
shelf and published content; of `platform` tickets, access, signin, riders, identity,
processes, nodes and alerts; of `jobs` fulfilment, messages, printing, notices, integrity,
reminders, assets and bills. The stretches of fulfilment are the search for a rider, the
handover, the pickup of an order whose money goes back, the way back, one refund, and two
claims. An invariant such as `PeopleAreKnown`
or `BooksAgree` is the conjunction of the named properties of its parts, which stand with
their own comments in the modules.

Bounds. Two requests and two tasks are the smallest numbers at which every pair of
concurrent actors meets, and the conflicts in this code are between two actors on one
row; two orders and one or two units make them compete for stock and make the order of
expiry matter. Every bound is a named constant or a named conjunct of an `MC` module:

* `order_rows`: the second product is scarce, so reservations are refused.
* `Outbox`: `MaxFaults` bounds crashes, lost connections, failed statements and overrun
  leases together; one overrun is enough for a second publisher to take an event and fail
  twice while the first still works on it, which is why `outbox_race` allows three
  retries, and a second fault lets either of them die. `Tokens` is large enough that a
  fresh one is always free.
* `fulfilment`: two riders and two dispatch jobs, so that a delivery can be reassigned
  and searched for again; one failure of a worker; two interventions of an administrator.
  In the handover the rider is found by hand, in the search the shop has not begun.
* `platform`, tickets: pairs of businesses on the lots of one giver (`OneEach`: one of each
  kind when two businesses meet), and each of purchase, renewal and redemption against
  a second of its kind; the clock runs three units, enough for every deadline to pass
  before and after every step. Alerts (`FewAlerts`): two connections share one alert or two
  alerts one connection; queues and pages hold one, so both overflow; one fault. Nodes:
  two processes, three failed calls, two lease periods. Processes: every configuration
  over two sets of switches, the money side and the messaging side.
* `jobs`: two sessions or workers for one message, task, notice, fact or compensation, so
  that each lease is lost to a competitor, and one fault (`MessagesPart`: a second copy or
  a fault, of the kinds with the most steps); one wrong row for the nightly check, in the
  second phase, so that the cursor has to pass it; in the fulfilment part one job and one
  case, and provider callbacks only in the stretch about refunds.

The runs check no deadlock: a finished shop may stay as it is, and bounds end behaviours.
`WorkSettles` is what says that nothing is stuck.

Fairness. In `Idempotency` a handler that is running continues (the process may die
instead), time passes, and clients retry. In `PaymentFlow` the provider redelivers
notifications until they are accepted, and a payment being made ends. `Run` scans on
every tick, for ever, so the expiry worker's steps are strongly fair: provider calls
and passes may fail again and again, but not always. No fairness is assumed of
customers, riders, administrators, deaths, or CreatePayment. In `Outbox` the publisher loop
ticks every 2 s for ever, so its steps are weakly fair, and leases and retry delays run
out. The bound on faults matters here: a batch of 50 events at 5 s each can outlive
its 30 s lease, and if every batch did, two publishers could take an event from each
other for ever; TLC finds that loop when overruns are not bounded. In `jobs` every worker
has a ticker, so its steps are weakly fair, and a row that is due again and again is
taken in the end (strong fairness of the claim in dispatch, refund, print and
notification: every scan takes the first due rows in a fixed order); leases, offers, grab windows and retry delays end by the clock; the broker
delivers; a call to a provider ends, with any result. Faults are bounded, as in `Outbox`.

`NoPayerAbandoned` is checked where requests share one key. With two keys it does
not hold: a refused second request marks a payable trade `failed`, the worker then
cancels without asking the provider, and money that still arrives ends in
`payment_exception` (which `MoneyIsRecorded` shows).

## 4. The proofs

Checked by TLAPS for every number of requests, keys, orders, products, quantities,
tasks, events, publishers, consumers, sessions, workers, replicas, connections, retries
and faults; the theorems are listed in `PROJECT.json`. Each rests on an inductive
invariant: the property itself forgets what a process has read and is about to write,
and that is where an interleaving would break it.

* `PaymentFlowProofs`, first about the order's transactions: types, `ReservationSettledOnce` and
  `MoneyHasOutcome` are inductive together: a waiting order holds its reservation and has no money, which
  is what makes cancellation and late money safe. Lemma `OneOrder` reduces every
  transaction to the one order it is about. `NoRevival` follows from the types.
  `StockConserved` adds up what the orders hold of a product; a transaction takes one
  order out of the sum and puts it back changed.
* `SumTheorems`: the sum of a function over a finite set exists, is an integer, is the same
  whichever element is taken out first, grows with the set, and follows changes of one term or
  of all; and an amount shared out in turn adds up (`SharesAddUp`). `StockConserved`, the ledger
  of refunds and the customer's assets rest on these. The induction over finite sets is done by hand: of the subsets
  for which a claim fails, one with the least cardinality is contradictory
  (`SubsetInduction`, with the claim as a set and not as an operator).
* `PaymentFlowProofs`, then about the flow: every step of it is one transaction or leaves the rows
  alone (`RowsRefinement`), so the theorems above hold in the flow.
  `PaidHasMoney` needs more: a success report in a task's hands is true, a request
  calls the provider only after opening the row, every trade has its row, and an
  order paid through the mock channel has no request in flight. `NoPayerAbandoned`
  is proved under the hypothesis `OneKey`, that the requests of an order share a key:
  then a row that reads failed or closed is one whose trade takes no payer any more, and
  an answer an expiry pass holds cannot be overtaken. With two keys it is false (section 3).
* `OutboxProofs`: the inductive invariant `IInv` adds to the types that only a
  pending, due row has an owner (`RowsOK`), that a publisher at work holds a token and
  has an event in hand while it waits (`JobsOK`), and that the retry count read at
  claim time is still the row's while the row carries the token (`ReadsCurrent`):
  that is why writing back `read + 1` loses nothing. From it
  follow `DeadHasLetter`, `RetryBudget`, `SettledForGood` and `RetriesNeverUndone`.
  `PublishedReachedBroker` needs in addition that the one answer or message in a
  channel belongs to the event in hand, which holds only under the stated assumption
  `~LateConfirms`; without it `outbox_at_least_once` is the counterexample.
  `ReplayedOnce` has an invariant of its own (`OneReplay`): a letter reads replayed
  exactly when it has a replay, and then one.
* `JobsProofs`, about the workers. Messages (`CInv`): `NothingLost` is not inductive, since
  two copies that only wait for their ack would vouch for each other; `AckedIsSafe` leaves
  them out, and `SessionsOK` says what each step of a session already made sure of. Printing
  (`PrintInv`): what a worker read about a task is so while it owns the task, it owns it
  unless it was interrupted, and what was printed without interruption is written down or
  will be. Notices (`NotifyInv`): the attempts a sender
  read are the row's while it owns it, and a success it heard has its ground. Reminders (`ReminderInv`): a send has one worker and one consent, and a claim
  that went stale has failed and lost its consent. The nightly check (`IntegrityInv`): the
  rows of a cycle up to its cursor have been checked (`Through`) and none after it has, whatever
  rows appear meanwhile; a batch in a replica's memory is the stretch after its cursor
  (`BatchUpTo`); the version fences every replica but the last to claim; and what lies
  before a cursor a replica has left over, which seeds its next day, was passed by a cycle. Together they give `WorkIsReal` and `CycleFindsAll`.
  The provider's bills (`BillsInv`): a clerk whose file is sound holds the whole bill of its
  job, and a run that is not complete has no discrepancies. The customer's assets (`AssetInv`):
  the balances are compared with three sums, over the lots, the holds and the transactions
  (`BooksOK`). What a step moves between lots must be the amount it moves between balances,
  and that is `SharesAddUp`: lots that give all they have in turn, whatever the order, give the
  amount or all there is. `AssetsReconcile` is not inductive: it also needs that what is left of
  a hold is what is left of its parts, so that no part is asked for more than its lot has
  frozen. The two internal errors of applyHold (a hold above the frozen balance, a hold's lot above the
  frozen amount of the lot) can therefore not occur. Together: `BooksAgree`.
* `PlatformProofs`, part by part. Processes: `running` is what the configuration gives,
  and a validated configuration leaves no duty without an owner or with two (a case
  analysis over the switches). Node leases (`LeaseInv`): how far each process may believe
  in its lease, in ticks, from its Acquire, its Run and its last answer. Applications and sign-in (`ApplyInv`, `SignInv`): what a screen or a
  visit shows was so at the version it carries, and the code in Redis is the last one sent
  and lapses with its lifetime. Real-name checks (`IdentityInv`). Access
  (`AccessInv`): what was read under a version of an account stays true while the account
  has that version, and every session descends from a sign-in. Alerts (`AlertInv`): a
  connection that has read the rows has the alert, will have it, leaves it to the client,
  or the subscriber is at it with that connection on its list (`CaughtUp`).

* `TicketProofs`, for any lots, customers, gifts, redemptions, renewals, purchases and
  delivery windows; `PlatformProofs` draws the theorems from it. Gifts
  (`GiftInv`): a token is consumed only by the claim that ends the gift and revokes the
  others. Refunds of purchases and renewals (`MoneyInv`): `RefundedOnce` is not inductive; it
  needs that the provider was asked for every row but perhaps the last (`RowsOK`), so
  that a replacement is asked for only after its predecessor was closed, and that a
  business gets its first row once. With `TicketsInv` below, by which a purchase or renewal
  that is being refunded has used-up tickets or no renewed lot, these give `SpentOnce`.

  `LotsReconcile` speaks of several tables at once, and each business sees only its own; what
  makes it hold is the conjunction `TicketsInv`:
  * `LotsInv`: what is available of a lot, what the businesses claim of it and what expired
    is its total, and the rows of its ledger lead from one quantity to the next. The claims
    are three sums, over gifts, redemptions and refunds; a business moves one term of one
    of them (`GiftPartMoves`, `RedemptionPartMoves`, `RefundPartMoves`), and the asset
    service moves the lot by the same amount (`DebitFacts`, `RestoreFacts`, ...).
  * `GiftsInv`, `RedemptionsInv`: each line of a business has exactly one hold row, and one
    restore row exactly when it was given back; a held line still has the expiry it was
    allocated with, because neither a renewal nor the expiry worker takes a lot that is held.
    The lots a gift made for its receiver belong to it and to no other.
  * `ChainsInv`: old and new expiries of the completed renewals of a lot are one chain from
    the first expiry to the present one (each is the start of one link and the end of one);
    a receiver's lot continues the chain of the giver's with its own renewals.
  * `RenewalsInv`, `PaysInv`, `PurchasesInv`: the status of a business against its payment,
    its chain of refunds and the provider's word; a quote whose version still is the lot's is
    of a lot nobody holds; one renewal at most is under way on a lot; of a purchase there is
    one lot at most, and one whose money is asked back has never been touched and is used up.
  * `SlotsInv`, `QuotasInv`: seats and quotas are the numbers of redemptions and purchases
    that have one; they are cardinalities, so a step counts one set up and another down.

  The lots there are at the start were issued before (`Begun`). Sums, chains and counts are the parts that no step
  restores by itself: each step lemma first says what it does to the one account or set it is
  about, and that the others rest (`TicketsAside`).

* `FulfilmentProofs`, for any riders, dispatch workers, jobs, cases, refund workers and bounds.
  `FulfilInv` has one part for each half of the way. While a rider is sought (`SearchInv`):
  a leased job is still due, so a worker that lost time overwrites no offer
  (`LeasedIsDue`); the delivery's status says whether it has a rider, an order on the move
  and a job (`Phase`). Once the goods move (`BackInv`): what a row of a refund says against
  what the provider said of it (`RowAgrees`), a replacement only for a row the provider
  closed (`Replaced`), what was paid and what may still be paid together within the
  payment (`Ledger`), a call in progress about a row that exists and with an answer the
  provider gave (`Calls`), a return's case standing and for the whole payment
  (`ReturnInv`), and the delivery code unused (`CodeUnused`). None of the properties is
  inductive alone: `RefundedOnce` needs `Ledger`, because rows that were marked as exceptions
  still count as money until the provider has closed them, and `ReturnIsWhole` needs
  `MoneyHasReason`, because a return closes on the case's row, not on the ledger. From it follow
  `RecordsAgree`, `HandoverKept`, `RefundedOnce`, `ReturnIsWhole`, `MoneyHasReason` and the
  action property `RefundedStaysWithShop`. TLC checks `FulfilInv` on the instance
  of the run as well.

* `StorefrontProofs`, for any readers, writers, pages, administrators, papers, devices, offers, attempts and keys.
  The caches (`ShelfInv`): an entry in Redis, or a page a reader is about to store, is current,
  or somebody still has to invalidate it (`Explained`), and a version in a reader's hands is
  not ahead of the counters; a bump therefore leaves every page it covers behind. The
  published content (`PubInv`): a row seen with the version it has now is seen with the content
  it has now (`SightOK`; false of promise policies, whose version no edit changes), at most one
  is published, and what a customer was shown is no longer edited. The cart (`CartInv`): while a
  request holds the cart nobody else selects, and the rows it read for update keep their
  quantity, so what it checked still holds when it writes, unless its snapshot was stale
  when it got the cart, which `mixed` remembers (`StillTrue`); one request
  holds the cart at a time, under a key that has no answer. Together they give
  `CatalogueIsHonest` and `CartIsSerial`. The Idempotency-Key store, behind every write a
  customer sends: its invariant adds to the types what a processing
  row says about its owner, what a succeeded row says about its body, and what each
  program counter implies (an attempt at work whose lease never lapsed still owns
  its row). From it follow `AnswersAgree`, `LiveClaimExcludes`, `TxEffectOnce`,
  `SucceededIsFinal`, and the refinement of `AnswerOnce`.

The assumptions are those named in the modules (`ConstantsAssumption`,
`OrderAssumption`, `FlowAssumption`, `OutboxAssumption`, `ConsumerAssumption`,
`PrintAssumption`, `NotificationAssumption`, `ReminderAssumption`, `IntegrityAssumption`,
`LeaseAssumption`, `SignInAssumption`, `ApplyAssumption`, `AccessAssumption`,
`IdentityAssumption`, `RealtimeAssumption`, `DeliveryAssumption`, `DispatchAssumption`,
`RefundAssumption`, `FulfilAssumption`, `CartAssumption`, `PubAssumption`,
`PayablesAssumption`, `AssetAssumption`, `LotsAssumption`, `SlotsAssumption`,
`RenewalAssumption`, `PurchaseAssumption`): the types of the constants, that a bound is
positive where the code's is, that there are finitely many orders, riders, cases, transfers, holds, lots and businesses on them, that a package has bottles and a renewal extends a lot (both are validated by the catalogue), that amounts are
positive, that a compensation is never the source of another transfer, that
a purchase and a renewal have different identifiers (a payment row names the kind with
the identifier), and that the names for nobody (`None`, `NoToken`, "none", "gone", "nobody") name none of the
actors. TLC evaluates them in every run.

The type invariants of `Idempotency`, `PaymentFlow` and `Outbox`, and `RetriesNeverUndone`, are proved and no longer run.

Only model-checked are the liveness properties, and with them fairness: they are out of the
prover's reach; and `CabinetIsTrue`, which holds in every state of the run and whose proof
would need, beyond `TicketsInv`, what each refund that used up a lot has become. Every other
invariant and every action property of a passing run is proved.

## 5. Not modelled

* Search (an index rebuilt from the database), service areas and route planning
  (geometry and calls to a map service without lasting state), API documents, metrics,
  health probes, listings, exports and audit trails: they read, or keep no state that
  another step relies on.
* Adapters of external services (WeChat, SMS, identity, maps, printers, storage): they are
  modelled by their use. Shared packages other than idempotency: formatting, validation,
  pagination, money, ids.
* Tools, seeds, deployment files and the schema; unique keys are used where a module needs
  them.
* Within modelled components: prices and delivery promises of an order, scores and
  capacities of riders, incidents of the pickup stage, receipts' contents, read marks,
  rate limits, heartbeats, passwords and role editing. The notes in `PROJECT.json` say so for
  each component.
* Concurrency below a transaction: statements of one transaction are one step. This is
  justified by the row locks each handler takes first; where a handler does not lock what
  it reads (the holds a renewal looks at, caches, provider answers), the read
  is a step of its own. It is not true of the cart, whose transactions read from a snapshot
  taken before they wait for their lock; they are modelled in steps (section 2). Deadlocks inside MySQL are not modelled; they roll back.

## 6. Findings

`payment_state.go` (applyProviderPaymentStateTx) says that once a payment is
verified as paid, a stale non-success state must neither overwrite the evidence nor
schedule reconciliation again. Query answers and callbacks respect that, but
`CreatePayment` does not: with two requests of different Idempotency-Keys in flight,
one answer reaches the customer, the payment succeeds, and the finishing transaction
of the other (which refuses only `closed`) writes `pending` over `succeeded`; its
error transaction writes `creating` or `failed`. The order itself stays paid
(`MoneyHasOutcome`, `PaidHasMoney`).

`README.md` of the repository (line 201) says the outbox delivers at least once.
`publishConfirmed` reads the next confirmation of the channel without comparing its
delivery tag, and `publishBatch` goes on with the same channel after a confirmation
timed out. The late confirmation of one event is then taken for the next event's:
that one is marked `published` although the broker has not answered for it, and if
the connection is lost before it does, the event is never sent again. With timely
confirmations the promise holds (`PublishedReachedBrokerAlways`).

The properties below hold because they name an exception, and the exception is something a
comment, a message or a runbook of the repository rules out. The models contain it, and TLC
reaches it:

* `infra/nodelease/nodelease.go:26` says the lease prevents two active instances with one
  node id. A process counts its lease from the answer of a refresh, and at first from the
  start of `Run`, Redis from the request: a successor may acquire the key while the old
  process still works, for a third of the lease after its own `Acquire`, and longer where
  the start-up between `Acquire` and `Run` (`app/server.go:144-267`) took long
  (`OneNodeOneProcess` states the bounds).
* `deliveryverification/service.go:532-533` says `Invalidate` makes all unused codes of a
  delivery unusable for good, and `:586` calls `InvalidateByOrder` the boundary of a full
  refund. `InvalidateMany` takes only active and locked codes, so one that had expired
  can be made usable by `Unlock`, which looks at the delivery and not at the order; `Reassign`
  of a ready order that was refunded in full makes a new pickup code
  (`dispatch/assignment.go:152-156`, `:253-257`), and the pickup with it
  (`delivery/service.go:318-321`) a delivery code. `ForceComplete` asks for no code at all
  (`RefundedStaysWithShop` names these).
* `docs/runbooks/wine-ticket-rolling-release.md:65-66` says that facts above the
  high-watermark of a cycle enter the next day's. A replica whose cycle was cut short seeds
  the new day with the cursor it has left (`integrity/worker.go:126-134`,
  `checkpoint.go:133-155`): rows before that cursor, also those that were not there when the
  earlier cycle began, are left out of the new one, and of every one that is cut short in
  turn (`CycleFindsAll` claims of them only that an earlier cycle passed them).
* `cart/service.go:104` refuses a request since "selected cart items must belong to one
  shop". Two devices can select two: `HasSelectedOtherShop` reads the snapshot that
  `idempotency.go:175-178` took before the wait for the cart (`CartIsSerial` excepts it).
* `product/service.go:217` says only a static projection of the product is cached. The page
  has `available_qty` and `purchasable` (`:338-353`), and no mover of stock invalidates it
  (`ShelfIsHonest` excepts the stock).
* A notification is recorded as succeeded although `SendResult.Status` may say otherwise
  (`notification/worker.go:632-636`, `model.go:134-137`); the print worker does look at its
  status (`printjob/worker.go:167`). `SucceededIsSent` says no more than the code does.

Others contradict nothing that is written, and are excepted as well:

* An edit of a promise policy leaves unchanged the version that `SetAdminPolicyStatus`
  compares, so what is published may differ from what its approver saw
  (`PublishedIsApproved` excepts it).
* A return that is disputed stays so: no transition leads out of it (`ReturnsClosed`
  excepts it).
* A rejected case releases its unit, another case may claim it, and an appeal of the
  first does not look at that: both are then under review (`Appeal`). `MoneyHasReason`
  and `RefundedOnce` hold, since refunds are bounded by the payment.
* A date whose bill fails for ever is tried before the younger ones (`WorkSettles` bounds
  the failures).
* Compensations can be approved in a configuration that runs no asset worker
  (`EnabledIsServed` does not speak of them).
* An alert that commits after a younger one, below the cursor of a connection, is not found
  by resuming (`realtime/service.go:290`). If its wake-up was taken while the client had no
  connection registered, or was published and then lost, the client does not hear of it, and
  the relay worker does not repeat it (`NothingSlips` excepts both).
