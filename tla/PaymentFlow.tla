---------------------------- MODULE PaymentFlow ----------------------------
(***************************************************************************)
(* Who calls the transactions of RetailOrder, and what they do between     *)
(* them: CreatePayment's provider call between two transactions, provider  *)
(* callbacks, customer confirmation, the reconciliation worker and the     *)
(* expiry worker (internal/modules/order/service.go, payment_state.go,     *)
(* expiry_worker.go), against WeChat Pay, which is modelled only by how    *)
(* this code uses it.                                                      *)
(*                                                                         *)
(* A task is one confirmation request or one pass of a worker.  It reads   *)
(* the payment, asks the provider with no lock held, and then applies an   *)
(* answer that may be stale.                                               *)
(***************************************************************************)
EXTENDS RetailOrder

CONSTANTS Creates,    \* CreatePayment requests
          OrderOf,    \* the order a CreatePayment request is for
          KeyOf,      \* the Idempotency-Key it carries
          Tasks,      \* confirmations and worker passes that may run at once
          Suspect,    \* orders for which the provider may report mismatching data
          None

ASSUME FlowAssumption ==
    /\ OrderOf \in [Creates -> Orders]
    /\ Suspect \subseteq Orders
    /\ None \notin Creates

VARIABLES trade,      \* the provider's side of each payment
          payable,    \* orders whose pay parameters reached the customer
          notified,   \* orders whose success notification was processed
          claim,      \* the request that holds each Idempotency-Key, or None
          answered,   \* keys whose response is stored
          cpc,        \* where each CreatePayment request stands
          task,       \* where each task stands
          timedOut    \* history: orders cancelled by the expiry worker

flow == <<trade, payable, notified, claim, answered, cpc, task, timedOut>>
vars == <<rows, flow>>

Keys == {KeyOf[c] : c \in Creates}

Trades == ProviderStatuses \cup {"none"}
Live   == {"NOTPAY", "USERPAYING"}
InFlight == {"calling", "accepted", "errRetry", "errFinal", "compensating"}
CreateEnds == {"done", "claimLost", "dead", "uncompensated"}
Steps == {"query", "apply", "close", "cancel"}
Roles == {"confirm", "reconcile", "expire"}

Idle == [step |-> "idle"]
Busy == [step : Steps, role : Roles, order : Orders, report : Reports]

NoReport == [status |-> "NOTPAY", genuine |-> TRUE]

Init ==
    /\ RowsInit
    /\ trade = [o \in Orders |-> "none"]
    /\ payable = {}
    /\ notified = {}
    /\ claim = [k \in Keys |-> None]
    /\ answered = {}
    /\ cpc = [c \in Creates |-> "idle"]
    /\ task = [t \in Tasks |-> Idle]
    /\ timedOut = {}

(***************************************************************************)
(* Order commands: each is one transaction of RetailOrder.                 *)
(***************************************************************************)
OrderCommand(o) ==
    /\ Create(o) \/ CancelPendingOrder(o) \/ CancelPaidOrder(o) \/ MockPay(o)
    /\ UNCHANGED flow

(***************************************************************************)
(* CreatePayment.  The claim of a key whose holder is still at work can be *)
(* taken once its lease has run out, which time alone decides.             *)
(***************************************************************************)
GotoC(c, label) == cpc' = [cpc EXCEPT ![c] = label]

Claim(c) ==
    /\ cpc[c] = "idle"
    /\ KeyOf[c] \notin answered

\* A payment with pay parameters is answered from its row.
ReplayPayment(c) ==
    /\ Claim(c)
    /\ Payable(OrderOf[c])
    /\ HasPayload(OrderOf[c])
    /\ answered' = answered \cup {KeyOf[c]}
    /\ payable' = payable \cup {OrderOf[c]}
    /\ GotoC(c, "done")
    /\ UNCHANGED <<rows, trade, notified, claim, task, timedOut>>

BeginCreate(c) ==
    /\ Claim(c)
    /\ OpenPayment(OrderOf[c])
    /\ claim' = [claim EXCEPT ![KeyOf[c]] = c]
    /\ GotoC(c, "calling")
    /\ UNCHANGED <<answered, trade, payable, notified, task, timedOut>>

\* The provider accepts a payment number that is new or still unpaid; an answer may
\* be lost after it did; otherwise it refuses for good.
ProviderCreate(c) ==
    LET o == OrderOf[c] IN
    /\ cpc[c] = "calling"
    /\ \/ /\ trade[o] \in Live \cup {"none"}
          /\ trade' = [trade EXCEPT ![o] = IF @ = "none" THEN "NOTPAY" ELSE @]
          /\ GotoC(c, "accepted") \/ GotoC(c, "errRetry")
       \/ /\ UNCHANGED trade
          /\ GotoC(c, "errRetry") \/ GotoC(c, "errFinal")
    /\ UNCHANGED <<rows, payable, notified, claim, answered, task, timedOut>>

Owner(c) == claim[KeyOf[c]] = c /\ KeyOf[c] \notin answered

\* FailOwned, then the payment row, in one transaction.
FailCreate(c) ==
    /\ cpc[c] \in {"errRetry", "errFinal"}
    /\ \/ /\ Owner(c)
          /\ RefusePayment(OrderOf[c], cpc[c] = "errRetry")
          /\ claim' = [claim EXCEPT ![KeyOf[c]] = None]
          /\ GotoC(c, "done")
       \/ /\ ~Owner(c)
          /\ GotoC(c, "claimLost")
          /\ UNCHANGED <<rows, claim>>
    /\ UNCHANGED <<trade, payable, notified, answered, task, timedOut>>

\* SucceedOwned, then the payment row, in one transaction.  A closed payment, or a
\* database error, rolls it back and leaves the provider's trade to be closed.
FinishCreate(c) ==
    LET o == OrderOf[c] IN
    /\ cpc[c] = "accepted"
    /\ \/ /\ Owner(c)
          /\ ReadyPayment(o)
          /\ answered' = answered \cup {KeyOf[c]}
          /\ payable' = payable \cup {o}
          /\ GotoC(c, "done")
       \/ /\ Owner(c)
          /\ GotoC(c, "compensating")
          /\ UNCHANGED <<rows, answered, payable>>
       \/ /\ ~Owner(c)
          /\ GotoC(c, "claimLost")
          /\ UNCHANGED <<rows, answered, payable>>
    /\ UNCHANGED <<trade, notified, claim, task, timedOut>>

\* Close at the provider: refused for an unknown or a paid trade; a call that fails
\* may still have closed it.
Closed(o) == [trade EXCEPT ![o] = IF @ \in Live THEN "CLOSED" ELSE @]

CloseAnswers(o) == trade[o] \notin {"none", "SUCCESS"} /\ trade' = Closed(o)

CloseFails(o) == trade' \in {trade, Closed(o)}

Compensate(c) ==
    /\ cpc[c] = "compensating"
    /\ \/ CloseAnswers(OrderOf[c]) /\ GotoC(c, "done")
       \/ CloseFails(OrderOf[c]) /\ GotoC(c, "uncompensated")
    /\ UNCHANGED <<rows, payable, notified, claim, answered, task, timedOut>>

\* The API process dies with a request in flight.
CreateDies(c) ==
    /\ cpc[c] \in InFlight
    /\ GotoC(c, "dead")
    /\ UNCHANGED <<rows, trade, payable, notified, claim, answered, task, timedOut>>

(***************************************************************************)
(* The customer and the provider.                                          *)
(***************************************************************************)
\* Create hands the provider expires_at as the trade's time_expire: nobody begins to
\* pay after it, but a payment begun before it may end later.
BeginPaying(o) ==
    /\ o \in payable
    /\ o \notin Expired
    /\ trade[o] = "NOTPAY"
    /\ trade' = [trade EXCEPT ![o] = "USERPAYING"]
    /\ UNCHANGED <<rows, payable, notified, claim, answered, cpc, task, timedOut>>

EndPaying(o) ==
    /\ trade[o] = "USERPAYING"
    /\ \E result \in {"SUCCESS", "PAYERROR"} : trade' = [trade EXCEPT ![o] = result]
    /\ UNCHANGED <<rows, payable, notified, claim, answered, cpc, task, timedOut>>

\* Mutant: a notification is believed without verification.
ProcessPaymentCallback_Unverified(o) ==
    /\ o \notin notified
    /\ ApplyProviderPaymentState(o, [status |-> "SUCCESS", genuine |-> TRUE])
    /\ notified' = notified \cup {o}
    /\ UNCHANGED <<trade, payable, claim, answered, cpc, task, timedOut>>

\* The success notification (WeChat Pay sends no other), delivered until accepted: the
\* callback row, written in the same transaction, makes later deliveries no-ops.
ProcessPaymentCallback(o) ==
    /\ trade[o] = "SUCCESS"
    /\ o \notin notified
    /\ Applies(o, [status |-> "SUCCESS", genuine |-> TRUE])
    /\ ApplyProviderPaymentState(o, [status |-> "SUCCESS", genuine |-> TRUE])
    /\ notified' = notified \cup {o}
    /\ UNCHANGED <<trade, payable, claim, answered, cpc, task, timedOut>>

\* A verified notification whose data does not match the payment.
MismatchCallback(o) ==
    /\ o \in Suspect
    /\ trade[o] # "none"
    /\ ApplyProviderPaymentState(o, [status |-> "SUCCESS", genuine |-> FALSE])
    /\ UNCHANGED flow

(***************************************************************************)
(* Tasks.                                                                  *)
(***************************************************************************)
At(t, step, role, o, report) ==
    task' = [task EXCEPT ![t] = [step |-> step, role |-> role, order |-> o, report |-> report]]
Step(t, step) == At(t, step, task[t].role, task[t].order, task[t].report)
Start(t, role, o, step) == At(t, step, role, o, NoReport)
Finish(t) == task' = [task EXCEPT ![t] = Idle]

\* confirmCustomerPayment asks only about a payment it read as open.
StartConfirm(t, o) ==
    /\ task[t] = Idle
    /\ pay[o].status \in {"creating", "pending"}
    /\ Start(t, "confirm", o, "query")
    /\ UNCHANGED <<rows, trade, payable, notified, claim, answered, cpc, timedOut>>

\* ClaimNextReconcilablePayment takes its short lease.
StartReconcile(t, o) ==
    /\ task[t] = Idle
    /\ Reconcilable(o)
    /\ Reschedule(o)
    /\ Start(t, "reconcile", o, "query")
    /\ UNCHANGED <<trade, payable, notified, claim, answered, cpc, timedOut>>

\* Mutant: the scan forgets to filter on status.
NextExpiredOrder_Head(o) ==
    expired # << >> /\ expired[1] = o /\ order[o].status = "pending_payment"

\* NextExpiredOrder: the waiting order whose window closed first.
NextExpiredOrder(o) ==
    \E i \in DOMAIN expired :
        /\ expired[i] = o
        /\ order[o].status = "pending_payment"
        /\ \A j \in 1..(i - 1) : order[expired[j]].status # "pending_payment"

StartExpire(t, o) ==
    /\ task[t] = Idle
    /\ NextExpiredOrder(o)
    /\ Start(t, "expire", o, IF pay[o].status \in {"creating", "pending"} THEN "query" ELSE "cancel")
    /\ UNCHANGED <<rows, trade, payable, notified, claim, answered, cpc, timedOut>>

\* The provider answers with the trade's state, or with mismatching data.
QueryAnswers(t) ==
    LET o == task[t].order IN
    /\ task[t].step = "query"
    /\ trade[o] # "none"
    /\ \E genuine \in {TRUE, o \notin Suspect} :
          At(t, "apply", task[t].role, o, [status |-> trade[o], genuine |-> genuine])
    /\ UNCHANGED <<rows, trade, payable, notified, claim, answered, cpc, timedOut>>

\* ORDER_NOT_EXIST lets the expiry worker cancel without closing anything.
QueryNotExist(t) ==
    /\ task[t].step = "query"
    /\ task[t].role = "expire"
    /\ trade[task[t].order] = "none"
    /\ Step(t, "cancel")
    /\ UNCHANGED <<rows, trade, payable, notified, claim, answered, cpc, timedOut>>

\* Any other failed query: a reconciliation is put off, the others just end.
QueryFails(t) ==
    LET o == task[t].order IN
    /\ task[t].step = "query"
    /\ task[t].role = "expire" => trade[o] # "none"
    /\ Finish(t)
    /\ IF task[t].role = "reconcile" /\ pay[o].status \in {"creating", "pending", "exception"}
       THEN Reschedule(o)
       ELSE UNCHANGED rows
    /\ UNCHANGED <<trade, payable, notified, claim, answered, cpc, timedOut>>

\* Mutant: USERPAYING is handled like a trade that is over.
AfterApply_Userpaying(t) ==
    LET report == task[t].report IN
    IF task[t].role # "expire" \/ ~report.genuine \/ report.status = "SUCCESS"
    THEN Finish(t)
    ELSE Step(t, IF report.status = "NOTPAY" THEN "close" ELSE "cancel")

\* The answer is applied, whatever has happened since; the expiry worker goes on to
\* close an unpaid trade or to cancel, unless the report was refused or money is
\* there or on its way.
AfterApply(t) ==
    LET report == task[t].report IN
    IF task[t].role # "expire" \/ ~report.genuine \/ report.status \in {"SUCCESS", "USERPAYING"}
    THEN Finish(t)
    ELSE Step(t, IF report.status = "NOTPAY" THEN "close" ELSE "cancel")

Apply(t) ==
    /\ task[t].step = "apply"
    /\ ApplyProviderPaymentState(task[t].order, task[t].report)
    /\ AfterApply(t)
    /\ UNCHANGED <<trade, payable, notified, claim, answered, cpc, timedOut>>

CloseTrade(t) ==
    /\ task[t].step = "close"
    /\ CloseAnswers(task[t].order)
    /\ Step(t, "cancel")
    /\ UNCHANGED <<rows, payable, notified, claim, answered, cpc, timedOut>>

CloseTradeFails(t) ==
    /\ task[t].step = "close"
    /\ CloseFails(task[t].order)
    /\ Finish(t)
    /\ UNCHANGED <<rows, payable, notified, claim, answered, cpc, timedOut>>

\* Mutant: cancelLocal trusts the order it read before asking the provider.
CancelLocal_NoRecheck(t) ==
    LET o == task[t].order IN
    /\ task[t].step = "cancel"
    /\ ReleaseStock(o)
    /\ SetOrder(o, "cancelled", "closed")
    /\ Emit({"order.cancelled"}, o)
    /\ timedOut' = timedOut \cup {o}
    /\ Finish(t)
    /\ UNCHANGED <<pay, expired, trade, payable, notified, claim, answered, cpc>>

\* cancelLocal looks at the order again under its lock.
CancelLocal(t) ==
    LET o == task[t].order IN
    /\ task[t].step = "cancel"
    /\ \/ /\ order[o].status = "pending_payment" /\ o \in Expired
          /\ CancelPendingOrder(o)
          /\ timedOut' = timedOut \cup {o}
       \/ /\ ~(order[o].status = "pending_payment" /\ o \in Expired)
          /\ UNCHANGED <<rows, timedOut>>
    /\ Finish(t)
    /\ UNCHANGED <<trade, payable, notified, claim, answered, cpc>>

TaskDies(t) ==
    /\ task[t] # Idle
    /\ Finish(t)
    /\ UNCHANGED <<rows, trade, payable, notified, claim, answered, cpc, timedOut>>

Clock(o) == PaymentWindowCloses(o) /\ UNCHANGED flow

CreateStep(c) ==
    ReplayPayment(c) \/ BeginCreate(c) \/ ProviderCreate(c) \/ FailCreate(c)
    \/ FinishCreate(c) \/ Compensate(c)

TaskStep(t) ==
    QueryAnswers(t) \/ QueryNotExist(t) \/ Apply(t) \/ CloseTrade(t) \/ CancelLocal(t)

Next ==
    \/ \E o \in Orders :
          OrderCommand(o) \/ BeginPaying(o) \/ EndPaying(o) \/ ProcessPaymentCallback(o)
          \/ MismatchCallback(o) \/ Clock(o)
    \/ \E c \in Creates : CreateStep(c) \/ CreateDies(c)
    \/ \E t \in Tasks : TaskStep(t) \/ CloseTradeFails(t) \/ QueryFails(t) \/ TaskDies(t)
    \/ \E t \in Tasks, o \in Orders :
          StartConfirm(t, o) \/ StartReconcile(t, o) \/ StartExpire(t, o)

Spec == Init /\ [][Next]_vars

(***************************************************************************)
(* Fairness.  The provider redelivers a notification until it is accepted, *)
(* and a payment the customer is making ends.  The expiry worker scans on  *)
(* every tick; its calls and passes may fail or die again and again, but   *)
(* not for ever, so each of its steps is taken if it keeps being possible. *)
(* Confirmations and reconciliations end, with an answer or without.       *)
(***************************************************************************)
Expiring(t) == task[t] # Idle /\ task[t].role = "expire"

FairSpec ==
    /\ Spec
    /\ \A o \in Orders : WF_vars(ProcessPaymentCallback(o)) /\ WF_vars(EndPaying(o))
    /\ \A t \in Tasks :
          /\ WF_vars(TaskStep(t) \/ QueryFails(t) \/ CloseTradeFails(t))
          /\ SF_vars(\E o \in Orders : StartExpire(t, o))
          /\ SF_vars(Expiring(t) /\ (QueryAnswers(t) \/ QueryNotExist(t)))
          /\ SF_vars(Expiring(t) /\ Apply(t))
          /\ SF_vars(CloseTrade(t))
          /\ SF_vars(CancelLocal(t))

----------------------------------------
\* The types of the flow's own state.
FlowTypes ==
    /\ trade \in [Orders -> Trades]
    /\ payable \subseteq Orders
    /\ notified \subseteq Orders
    /\ claim \in [Keys -> Creates \cup {None}]
    /\ answered \subseteq Keys
    /\ cpc \in [Creates -> {"idle"} \cup InFlight \cup CreateEnds]
    /\ task \in [Tasks -> Busy \cup {Idle}]
    /\ timedOut \subseteq Orders

\* The types of the rows and of the flow's own state.
FlowTypeOK == RowsTypeOK /\ FlowTypes

\* Money is recorded for the order.
Money(o) == order[o].payStatus = "succeeded" \/ pay[o].status = "succeeded"

\* An order is marked as paid, or its money recorded, only when the provider really
\* holds a paid trade (or, with the mock feature on, was never asked for one):
\* stale and repeated answers, callbacks and retried creations never invent money.
PaidHasMoney ==
    \A o \in Orders :
        Money(o) => trade[o] = "SUCCESS" \/ (MockEnabled /\ trade[o] = "none")

\* The expiry worker gives the goods back only when no customer is in the middle of
\* paying for them, although it asks the provider and cancels in separate steps and
\* a CreatePayment may run between them.  Stated for orders whose payment requests
\* carry one Idempotency-Key: a request with a second key that the provider refuses
\* marks a payable trade as failed, and the worker then cancels without closing it.
NoPayerAbandoned ==
    \A o \in timedOut : trade[o] # "USERPAYING"

\* Every step of the flow, in any interleaving, is one of RetailOrder's transactions
\* or leaves the rows alone, so what RetailOrder guarantees holds here.
ImplementsRows == RowsSpec

\* Money the customer paid is recorded on the order, even when the order was
\* cancelled, has expired or was put in exception meanwhile.
MoneyIsRecorded ==
    \A o \in Orders : trade[o] = "SUCCESS" ~> order[o].payStatus = "succeeded"

\* An order nobody pays does not keep its stock for ever: once its window has closed
\* it leaves pending_payment, although the worker takes expired orders strictly in
\* order and stops a batch at the first one that is not ready.
ExpiredOrderSettles ==
    \A o \in Orders : o \in Expired ~> order[o].status # "pending_payment"

\* payment_state.go: once a payment is verified as paid, a stale non-success state
\* must neither overwrite the evidence nor schedule another reconciliation.
SuccessKept ==
    [][\A o \in Orders : pay[o].status = "succeeded" =>
         pay'[o].status = "succeeded" /\ ~pay'[o].next]_vars
=============================================================================
