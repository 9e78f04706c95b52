--------------------------- MODULE BusinessPayment ---------------------------
(***************************************************************************)
(* Payments of a business other than the retail order                      *)
(* (order/business_payment.go, order/payment_settlement.go): the payment   *)
(* row, its trade at the provider, and the report of the provider, applied *)
(* in one transaction with what the business makes of it. A business is a  *)
(* purchase or a renewal of wine tickets; its identifier names its payment.*)
(*                                                                         *)
(* A report that contradicts a payment already settled overwrites it: the  *)
(* subject of PaymentFlow!SuccessKept, left out here.                      *)
(***************************************************************************)
EXTENDS TicketLots

CONSTANT RefundRows  \* bound: refunds tried for one payment

\* A payment row names the kind of its business with its identifier, so no two kinds share one.
ASSUME PayablesAssumption == Renewals \cap Purchases = {}

VARIABLES pay,   \* the payment rows
          trade, \* the provider's side of each
          comp,  \* the refund rows of each payment, in order: their status
          given  \* the provider's side of each

Payables == Renewals \cup Purchases

NoPay == [status |-> "none", exp |-> 0, told |-> FALSE]

\* CreateBusinessPaymentTx, inside the transaction of the business.
NewPay(exp) == [NoPay EXCEPT !.status = "creating", !.exp = exp]

SetPay(b, status) == pay' = [pay EXCEPT ![b].status = status]

\* SubmitBusinessPayment: the call that makes the trade, and the transaction that
\* records its answer. In between the process may stop, or the answer get lost.
SubmitPayment(b) ==
    /\ pay[b].status = "creating" /\ pay[b].exp > now
    /\ trade[b] = "none"
    /\ trade' = [trade EXCEPT ![b] = "notpay"]
    /\ UNCHANGED pay

PaymentSubmitted(b) ==
    /\ pay[b].status = "creating" /\ trade[b] = "notpay"
    /\ SetPay(b, "pending")
    /\ UNCHANGED trade

PaymentRefused(b) ==
    /\ pay[b].status = "creating" /\ trade[b] = "none" /\ pay[b].exp > now
    /\ SetPay(b, "failed")
    /\ UNCHANGED trade

\* The recording transaction fails: the trade is closed again.
SubmissionUndone(b) ==
    /\ pay[b].status = "creating" /\ trade[b] = "notpay"
    /\ trade' = [trade EXCEPT ![b] = "closed"]
    /\ UNCHANGED pay

\* The customer pays a trade whose payload was handed out. One failed attempt may be
\* followed by a good one. Unpaid trades end with their time.
CustomerPays(b) ==
    /\ pay[b].status # "creating" /\ trade[b] \in {"notpay", "payerror"} /\ now < pay[b].exp
    /\ trade' = [trade EXCEPT ![b] = "paid"]
    /\ UNCHANGED pay

AttemptFails(b) ==
    /\ pay[b].status = "pending" /\ trade[b] = "notpay" /\ now < pay[b].exp
    /\ trade' = [trade EXCEPT ![b] = "payerror"]
    /\ UNCHANGED pay

TradeCloses(b) ==
    /\ trade[b] \in {"notpay", "payerror"} /\ now >= pay[b].exp
    /\ trade' = [trade EXCEPT ![b] = "closed"]
    /\ UNCHANGED pay

\* applyExternalPaymentStateTx, the part about the payment, for each report there can be:
\* by callback, by the reconciler, or because the customer asked. After a success no
\* other report counts.
Settled(b) == pay[b].status = "succeeded" \/ pay[b].told

ReportSuccess(b) ==
    /\ trade[b] = "paid" /\ pay[b].status # "succeeded"
    /\ pay' = [pay EXCEPT ![b].status = "succeeded", ![b].told = TRUE]

\* ORDER_NOT_EXIST: of an expired payment the provider knows no trade; the reconciler
\* takes that for a closed one.
NeverMade(b) ==
    /\ trade[b] = "none" /\ pay[b].exp <= now
    /\ pay[b].status \in {"creating", "pending", "exception"}

ReportTerminal(b) ==
    /\ trade[b] \in {"closed", "payerror"} \/ NeverMade(b)
    /\ ~Settled(b)
    /\ SetPay(b, IF trade[b] = "payerror" THEN "failed" ELSE "closed")

\* A report that does not fit the payment, which is not settled yet.
ReportMismatch(b) ==
    /\ trade[b] # "none" /\ ~Settled(b)
    /\ pay' = [pay EXCEPT ![b].status = "exception", ![b].told = (trade[b] = "paid")]

PaymentOutside(b) ==
    \/ SubmitPayment(b) \/ PaymentSubmitted(b) \/ PaymentRefused(b) \/ SubmissionUndone(b)
    \/ CustomerPays(b) \/ AttemptFails(b) \/ TradeCloses(b)

----------------------------------------
(* The refund rows of a business payment and the provider's side of them.   *)
(* The refund worker (module Refund) asks the provider for each row and     *)
(* hands what it answers to the business, and so do callbacks: for any row, *)
(* late or twice. A row the provider closed is replaced; the last row is    *)
(* the current one. The provider is taken at its word: that it carries out  *)
(* a refund it has closed, or closes one it reported as done, is left out.  *)

\* currentRefundTip.
Current(b) == Len(comp[b])
Undecided  == {"creating", "submission_unknown", "pending"}

AskRefund(b) ==
    /\ Current(b) # 0 /\ comp[b][Current(b)] \in Undecided
    /\ Len(given[b]) < Current(b)
    /\ given' = [given EXCEPT ![b] = Append(@, "processing")]
    /\ UNCHANGED comp

ProviderRefunds(b) ==
    \E k \in DOMAIN given[b] : \E outcome \in {"success", "closed"} :
        /\ given[b][k] = "processing"
        /\ given' = [given EXCEPT ![b][k] = outcome]
        /\ UNCHANGED comp

\* A row that succeeded or was closed does not move again.
RowMoves(b, k) == comp[b][k] \notin {"succeeded", "failed"}

SetRow(b, k, status) == comp' = [comp EXCEPT ![b][k] = status]

\* The replacement of a closed row.
Replaced(b, k) == comp' = [comp EXCEPT ![b] = Append([@ EXCEPT ![k] = "failed"], "creating")]

\* A call that failed and may be tried again: what was sent is not known.
TriedInVain(b) == SetRow(b, Current(b), IF comp[b][Current(b)] = "creating" THEN "submission_unknown"
                                        ELSE comp[b][Current(b)])

\* The customer gets back what was paid once: of all the refunds tried for a payment the
\* provider carries out one at most, and no second one is asked for while the first may
\* still be carried out (applyClosed, replaceClosedRefundTx, LockAndApply).
RefundedOnce ==
    \A b \in Payables : Cardinality({k \in DOMAIN given[b] : given[b][k] \in {"processing", "success"}}) <= 1
=============================================================================
