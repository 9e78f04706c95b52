---------------------------- MODULE RetailOrder ----------------------------
(***************************************************************************)
(* The rows of a retail order (orders, payments, product_stocks,           *)
(* stock_records, outbox_events) and the database transactions of          *)
(* internal/modules/order that change them.  Every transaction locks the   *)
(* order, payment and stock rows it writes, so each one is a single step.  *)
(*                                                                         *)
(* Here a provider report may be applied at any time, with any content:    *)
(* the module states what the transactions guarantee whoever calls them    *)
(* and in whatever order.  PaymentFlow adds the callers.                   *)
(*                                                                         *)
(* A stock record stands for its stock.* outbox event too.  Left out are   *)
(* order.created and payment.created, which settle nothing, and            *)
(* provider_status and the log and audit rows, which no transaction reads. *)
(*                                                                         *)
(* An order has at most one payment row, since payment_no is derived from  *)
(* the order id and is unique.  REVOKED is folded into CLOSED, which the   *)
(* code treats alike.                                                      *)
(***************************************************************************)
EXTENDS Naturals, Sequences, FiniteSets, Functions

CONSTANTS Orders, Products,
          Qty,        \* Qty[o][p]: units of p on order o
          Initial,    \* Initial[p]: units on the shelf at the start
          MockEnabled \* the PAYMENT_MOCK feature flag

ASSUME OrderAssumption ==
    /\ IsFiniteSet(Orders)
    /\ Qty \in [Orders -> [Products -> Nat]]
    /\ Initial \in [Products -> Nat]
    /\ MockEnabled \in BOOLEAN

VARIABLES order,      \* orders: status and pay_status
          pay,        \* payments: status, client_payload stored, next_reconcile_at set
          available,  \* product_stocks.available_qty
          reserved,   \* product_stocks.reserved_qty
          released,   \* number of "release" stock records of the order
          deducted,   \* number of "deduct" stock records of the order
          expired,    \* orders whose expires_at has passed, in that order
          outbox      \* outbox_events written, as <<type, order>>

stock == <<available, reserved, released, deducted>>
rows  == <<order, pay, stock, expired, outbox>>

OrderStatuses == {"none", "pending_payment", "paid", "cancelled", "payment_exception", "refunding"}
PayStatuses   == {"none", "pending", "succeeded", "closed"}
PaymentStatuses == {"none", "creating", "pending", "succeeded", "closed", "failed", "exception"}
ProviderStatuses == {"NOTPAY", "USERPAYING", "SUCCESS", "CLOSED", "PAYERROR"}
EventTypes == {"order.paid", "order.cancelled", "payment.exception",
               "admin.order.refund_requested"}

\* A provider report; genuine is FALSE when its identity, amount or trade number
\* does not match the local payment.
Reports == [status : ProviderStatuses, genuine : BOOLEAN]

NoPayment == [status |-> "none", payload |-> FALSE, next |-> FALSE]

RowsInit ==
    /\ order = [o \in Orders |-> [status |-> "none", payStatus |-> "none"]]
    /\ pay = [o \in Orders |-> NoPayment]
    /\ available = Initial
    /\ reserved = [p \in Products |-> 0]
    /\ released = [o \in Orders |-> 0]
    /\ deducted = [o \in Orders |-> 0]
    /\ expired = << >>
    /\ outbox = {}

Expired == {expired[i] : i \in DOMAIN expired}

Emit(types, o) == outbox' = outbox \cup {<<t, o>> : t \in types}

\* The order row as a transaction leaves it.
SetOrder(o, status, payStatus) ==
    order' = [order EXCEPT ![o] = [status |-> status, payStatus |-> payStatus]]

\* The payment row as a transaction leaves it.
SetPay(o, status, payload, next) ==
    pay' = [pay EXCEPT ![o] = [status |-> status, payload |-> payload, next |-> next]]

(***************************************************************************)
(* Stock.                                                                  *)
(***************************************************************************)
ReserveStock(o) ==
    /\ \A p \in Products : Qty[o][p] <= available[p]
    /\ available' = [p \in Products |-> available[p] - Qty[o][p]]
    /\ reserved' = [p \in Products |-> reserved[p] + Qty[o][p]]
    /\ UNCHANGED <<released, deducted>>

\* Both ways of settling a reservation refuse when reserved_qty is too low.
Reserved(o) == \A p \in Products : Qty[o][p] <= reserved[p]

\* Mutant: reserved_qty is not lowered.
ReleaseStock_KeepsReserved(o) ==
    /\ Reserved(o)
    /\ available' = [p \in Products |-> available[p] + Qty[o][p]]
    /\ released' = [released EXCEPT ![o] = @ + 1]
    /\ UNCHANGED <<reserved, deducted>>

ReleaseStock(o) ==
    /\ Reserved(o)
    /\ available' = [p \in Products |-> available[p] + Qty[o][p]]
    /\ reserved' = [p \in Products |-> reserved[p] - Qty[o][p]]
    /\ released' = [released EXCEPT ![o] = @ + 1]
    /\ UNCHANGED deducted

DeductReservedStock(o) ==
    /\ Reserved(o)
    /\ reserved' = [p \in Products |-> reserved[p] - Qty[o][p]]
    /\ deducted' = [deducted EXCEPT ![o] = @ + 1]
    /\ UNCHANGED <<available, released>>

(***************************************************************************)
(* Order transactions.                                                     *)
(***************************************************************************)
Create(o) ==
    /\ order[o].status = "none"
    /\ ReserveStock(o)
    /\ SetOrder(o, "pending_payment", "pending")
    /\ UNCHANGED <<pay, expired, outbox>>

\* Mutant: the status is not checked under the order's lock.
CancelPendingOrder_AnyStatus(o) ==
    /\ order[o].status # "none"
    /\ ReleaseStock(o)
    /\ SetOrder(o, "cancelled", "closed")
    /\ Emit({"order.cancelled"}, o)
    /\ UNCHANGED <<pay, expired>>

\* cancelPendingOrder, for the customer, an administrator or the expiry worker.
CancelPendingOrder(o) ==
    /\ order[o].status = "pending_payment"
    /\ SetPay(o, IF pay[o].status \in {"creating", "pending"} THEN "closed" ELSE pay[o].status,
              pay[o].payload, pay[o].next)
    /\ ReleaseStock(o)
    /\ SetOrder(o, "cancelled", "closed")
    /\ Emit({"order.cancelled"}, o)
    /\ UNCHANGED expired

\* cancelPaidOrder: an administrator sends a paid, not yet picked up order to the
\* refund flow.
CancelPaidOrder(o) ==
    /\ order[o].status \notin {"none", "pending_payment", "cancelled", "refunding"}
    /\ order[o].payStatus = "succeeded"
    /\ SetOrder(o, "refunding", "succeeded")
    /\ Emit({"admin.order.refund_requested", "order.cancelled"}, o)
    /\ UNCHANGED <<pay, stock, expired>>

\* MockPay inserts its own payment row: the unique payment_no refuses a second.
MockPay(o) ==
    /\ MockEnabled
    /\ order[o].status = "pending_payment"
    /\ pay[o].status = "none"
    /\ DeductReservedStock(o)
    /\ SetPay(o, "succeeded", FALSE, FALSE)
    /\ SetOrder(o, "paid", "succeeded")
    /\ Emit({"order.paid"}, o)
    /\ UNCHANGED expired

(***************************************************************************)
(* CreatePayment's three transactions.                                     *)
(***************************************************************************)
\* The order can be paid: what the claiming transaction checks.
Payable(o) ==
    /\ order[o].status = "pending_payment"
    /\ order[o].payStatus = "pending"
    /\ o \notin Expired

\* The payment is answered from the row, without a provider call.
HasPayload(o) == pay[o].status \in {"pending", "succeeded"} /\ pay[o].payload

OpenPayment(o) ==
    /\ Payable(o)
    /\ ~HasPayload(o)
    /\ pay[o].status \notin {"closed", "succeeded"}
    /\ SetPay(o, "creating", pay[o].payload, pay[o].next)
    /\ UNCHANGED <<order, stock, expired, outbox>>

\* The provider refused the call, for good or for a reason worth a retry.
RefusePayment(o, retryable) ==
    /\ pay[o].status # "none"
    /\ SetPay(o, IF retryable THEN "creating" ELSE "failed", pay[o].payload, retryable)
    /\ UNCHANGED <<order, stock, expired, outbox>>

\* The provider accepted: the row becomes payable unless it has been closed.
ReadyPayment(o) ==
    /\ pay[o].status \notin {"none", "closed"}
    /\ SetPay(o, "pending", TRUE, TRUE)
    /\ UNCHANGED <<order, stock, expired, outbox>>

(***************************************************************************)
(* applyProviderPaymentStateTx, shared by callbacks, customer confirmation *)
(* and the workers.                                                        *)
(***************************************************************************)
\* applyPaymentSuccess.
ApplyPaymentSuccess(o) ==
    /\ DeductReservedStock(o)
    /\ SetPay(o, "succeeded", pay[o].payload, FALSE)
    /\ SetOrder(o, "paid", "succeeded")
    /\ Emit({"order.paid"}, o)

\* Mutants: late money deducts stock, leaves pay_status alone, or is dropped.
ApplyLateSuccess_Deducts(o) ==
    /\ DeductReservedStock(o)
    /\ SetPay(o, "succeeded", pay[o].payload, FALSE)
    /\ SetOrder(o, "payment_exception", "succeeded")
    /\ Emit({"payment.exception"}, o)
ApplyLateSuccess_KeepsPayStatus(o) ==
    /\ SetPay(o, "succeeded", pay[o].payload, FALSE)
    /\ SetOrder(o, "payment_exception", order[o].payStatus)
    /\ Emit({"payment.exception"}, o)
    /\ UNCHANGED stock
ApplyLateSuccess_Dropped(o) == UNCHANGED rows

\* Money confirmed for an order that is no longer waiting for it.
ApplyLateSuccess(o) ==
    /\ SetPay(o, "succeeded", pay[o].payload, FALSE)
    /\ SetOrder(o, "payment_exception", "succeeded")
    /\ Emit({"payment.exception"}, o)
    /\ UNCHANGED stock

MarkPaymentException(o) ==
    /\ SetPay(o, "exception", pay[o].payload, FALSE)
    /\ SetOrder(o, "payment_exception", order[o].payStatus)
    /\ Emit({"payment.exception"}, o)
    /\ UNCHANGED stock

\* A report that changes nothing: success is already recorded.
Ignored(o, report) ==
    pay[o].status = "succeeded" /\ (report.status # "SUCCESS" \/ report.genuine)

\* The success transaction rolls back when the reservation is missing.
Applies(o, report) ==
    /\ report.genuine /\ report.status = "SUCCESS" /\ order[o].status = "pending_payment"
    => Reserved(o)

ApplyProviderPaymentState(o, report) ==
    /\ pay[o].status # "none"
    /\ UNCHANGED expired
    /\ \/ /\ Ignored(o, report) \/ ~Applies(o, report)
          /\ UNCHANGED rows
       \/ /\ ~Ignored(o, report) /\ Applies(o, report)
          /\ \/ ~report.genuine /\ MarkPaymentException(o)
             \/ /\ report.genuine /\ report.status = "SUCCESS"
                /\ order[o].status = "pending_payment"
                /\ ApplyPaymentSuccess(o)
             \/ /\ report.genuine /\ report.status = "SUCCESS"
                /\ order[o].status # "pending_payment"
                /\ ApplyLateSuccess(o)
             \/ /\ report.genuine /\ report.status \in {"NOTPAY", "USERPAYING"}
                /\ SetPay(o, pay[o].status, pay[o].payload, TRUE)
                /\ UNCHANGED <<order, stock, outbox>>
             \/ /\ report.genuine /\ report.status \in {"CLOSED", "PAYERROR"}
                /\ SetPay(o, IF report.status = "CLOSED" THEN "closed" ELSE "failed",
                          pay[o].payload, FALSE)
                /\ UNCHANGED <<order, stock, outbox>>

(***************************************************************************)
(* The reconciliation schedule and the clock.                              *)
(***************************************************************************)
Reconcilable(o) ==
    /\ pay[o].status \in {"creating", "pending"}
    /\ order[o].status = "pending_payment"
    /\ o \notin Expired

\* ClaimNextReconcilablePayment and MarkPaymentReconcileError both move
\* next_reconcile_at; the second only for a payment still open.
Reschedule(o) ==
    /\ pay[o].status \in {"creating", "pending", "exception"}
    /\ SetPay(o, pay[o].status, pay[o].payload, TRUE)
    /\ UNCHANGED <<order, stock, expired, outbox>>

\* now passes the order's expires_at.
PaymentWindowCloses(o) ==
    /\ order[o].status # "none"
    /\ o \notin Expired
    /\ expired' = Append(expired, o)
    /\ UNCHANGED <<order, pay, stock, outbox>>

RowsNext ==
    \E o \in Orders :
        \/ Create(o) \/ CancelPaidOrder(o) \/ MockPay(o)
        \/ CancelPendingOrder(o) \/ OpenPayment(o) \/ ReadyPayment(o) \/ Reschedule(o)
        \/ \E retryable \in BOOLEAN : RefusePayment(o, retryable)
        \/ \E report \in Reports : ApplyProviderPaymentState(o, report)
        \/ PaymentWindowCloses(o)

RowsSpec == RowsInit /\ [][RowsNext]_rows

----------------------------------------
\* The types of the rows.
RowsTypeOK ==
    /\ order \in [Orders -> [status : OrderStatuses, payStatus : PayStatuses]]
    /\ pay \in [Orders -> [status : PaymentStatuses, payload : BOOLEAN, next : BOOLEAN]]
    /\ available \in [Products -> Nat]
    /\ reserved \in [Products -> Nat]
    /\ released \in [Orders -> Nat]
    /\ deducted \in [Orders -> Nat]
    /\ expired \in Seq(Orders)
    /\ outbox \subseteq EventTypes \X Orders

\* The orders that still hold their reservation.
Holding == {o \in Orders : order[o].status # "none" /\ released[o] + deducted[o] = 0}

\* The orders whose units have left the shop.
Sold == {o \in Orders : deducted[o] > 0}

\* Units of p over a set of orders.
Units(p, S) == SumFunctionOnSet([o \in Orders |-> Qty[o][p]], S)

\* No unit is lost or sold twice by any order of reservations, cancellations,
\* expiries and payments: reserved_qty is exactly what unsettled orders hold, and
\* shelf + reserved + deducted is what the shop started with.
StockConserved ==
    \A p \in Products :
        /\ reserved[p] = Units(p, Holding)
        /\ available[p] + reserved[p] + Units(p, Sold) = Initial[p]

\* The reservation of one order against its status.
SettledOnce(o) ==
    /\ released[o] + deducted[o] <= 1
    /\ order[o].status \in {"none", "pending_payment"} => released[o] + deducted[o] = 0
    /\ order[o].status = "cancelled" => released[o] = 1
    /\ order[o].status = "paid" => deducted[o] = 1

\* A reservation is settled at most once, and as the order's status says: a waiting
\* order still holds it, a cancelled one has returned it, a paid one has consumed it.
\* In particular late money never deducts stock that was already released.
ReservationSettledOnce == \A o \in Orders : SettledOnce(o)

\* The money of one order against its status and its events.
HasOutcome(o) ==
    /\ pay[o].status = "succeeded" => order[o].payStatus = "succeeded"
    /\ order[o].payStatus = "succeeded" =>
          /\ order[o].status \in {"paid", "payment_exception", "refunding"}
          /\ <<"order.paid", o>> \in outbox \/ <<"payment.exception", o>> \in outbox
    /\ <<"admin.order.refund_requested", o>> \in outbox => order[o].payStatus = "succeeded"

\* Money recorded on the payment is recorded on its order, which has then left the
\* waiting states and has announced the fact to the other modules through the outbox;
\* a refund is asked for only where money was recorded.
MoneyHasOutcome == \A o \in Orders : HasOutcome(o)

\* Where one step may take an order that has left pending_payment.
StaysDecided(o) ==
    /\ order[o].status = "cancelled" => order'[o].status \in {"cancelled", "payment_exception"}
    /\ order[o].status \in {"paid", "refunding", "payment_exception"} =>
          order'[o].status \in {order[o].status, "refunding", "payment_exception"}

\* Out of cancelled, paid, refunding and payment_exception no transaction leads back
\* to a status that sells the goods: a cancelled order is never paid afterwards and
\* no order waits for payment twice.
NoRevival == [][\A o \in Orders : StaysDecided(o)]_rows
=============================================================================
