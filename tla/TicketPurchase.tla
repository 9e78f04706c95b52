--------------------------- MODULE TicketPurchase ---------------------------
(***************************************************************************)
(* Buying tickets (wineticket/purchase) and giving them back unused for    *)
(* the money (wineticket/refund).                                          *)
(*                                                                         *)
(* A purchase reserves the customer's quota of the package, is paid like   *)
(* any business payment, and issues one lot. When the tickets would be     *)
(* past their date already, the payment is refunded instead (issuance      *)
(* compensation). A customer's refund holds the whole lot until the        *)
(* provider has paid the money back; nothing in the code gives a held lot  *)
(* back. A purchase is of one package. The report of a success on a closed *)
(* purchase is refused (ApplySuccess), each time it comes.                 *)
(***************************************************************************)
EXTENDS BusinessPayment

CONSTANTS Bottles,       \* of one package
          Limit,         \* packages one customer may buy
          Validity,      \* of the tickets, from the payment
          PurchaseWindow,\* thirty minutes to pay
          RefundWindow,  \* from the payment
          QuoteTTL

\* A package has bottles (validation of the catalogue).
ASSUME PurchaseAssumption == Bottles \in Nat \ {0} /\ Limit \in Nat /\ Validity \in Nat

VARIABLES purchase, quota

NoPurchase == [status |-> "none", owner |-> NoOne, lot |-> 0, paidAt |-> 0]
NoRefund == [status |-> "none", kind |-> "none", lot |-> 0, alloc |-> "none", srcExp |-> 0, version |-> 0, until |-> 0]

Open(p) == purchase[p].status \in {"pending_payment", "payment_unknown", "settlement_exception"}

SetPurchase(p, status) == purchase' = [purchase EXCEPT ![p].status = status]

Reserved(c, d) == [quota EXCEPT ![c].reserved = @ + d]
Consumed(c)    == [quota EXCEPT ![c].reserved = @ - 1, ![c].consumed = @ + 1]

\* validatePurchaseQuota, under the lock of the quota row.
QuotaLeft(c) == quota[c].reserved + quota[c].consumed < Limit

\* CreatePurchase.
CreatePurchase(p, c) ==
    /\ purchase[p].status = "none"
    /\ QuotaLeft(c)
    /\ quota' = Reserved(c, 1)
    /\ purchase' = [purchase EXCEPT ![p] = [NoPurchase EXCEPT !.status = "pending_payment", !.owner = c]]
    /\ pay' = [pay EXCEPT ![p] = NewPay(now + PurchaseWindow)]
    /\ UNCHANGED <<lot, book, refund, trade, comp, given>>

ClosePurchase(p) == SetPurchase(p, "closed") /\ quota' = Reserved(purchase[p].owner, -1)

\* reflectPaymentSubmissionState, after a submission that went wrong and when the request
\* is repeated.
ReflectPurchase(p) ==
    /\ purchase[p].status = "pending_payment"
    /\ \/ pay[p].status \in {"failed", "closed"} /\ ClosePurchase(p)
       \/ pay[p].status \notin {"failed", "closed"} /\ SetPurchase(p, "payment_unknown") /\ UNCHANGED quota
    /\ UNCHANGED <<lot, book, refund, pay, trade, comp, given>>

\* The times the provider can name as the time of payment.
PaidTimes(p) == {t \in 0..now : pay[p].exp - PurchaseWindow <= t /\ t < pay[p].exp}

\* ApplySuccess: the tickets, dated from the payment.
IssueTickets(p, at) ==
    LET l == Min({k \in Lots : lot[k] = NoLot}) IN
    /\ \E k \in Lots : lot[k] = NoLot
    /\ Save([k \in {l} |-> Issue([NoLot EXCEPT !.owner = purchase[p].owner, !.total = Bottles, !.orig = at + Validity,
                                              !.exp = at + Validity, !.from = <<p>>], "purchase_issue", p)])
    /\ purchase' = [purchase EXCEPT ![p].status = "issued", ![p].lot = l, ![p].paidAt = at]
    /\ UNCHANGED <<refund, comp>>

\* createIssuanceCompensationTx.
CompensateIssuance(p, at) ==
    /\ purchase' = [purchase EXCEPT ![p].status = "refund_holding", ![p].paidAt = at]
    /\ refund' = [refund EXCEPT ![p] = [NoRefund EXCEPT !.status = "holding", !.kind = "issuance_compensation"]]
    /\ comp' = [comp EXCEPT ![p] = <<"creating">>]
    /\ UNCHANGED <<lot, book>>

PurchasePaid(p) ==
    /\ ReportSuccess(p) /\ Open(p)
    /\ quota' = Consumed(purchase[p].owner)
    /\ \E at \in PaidTimes(p) :
          IF at + Validity > now THEN IssueTickets(p, at) ELSE CompensateIssuance(p, at)
    /\ UNCHANGED <<trade, given>>

\* ApplyTerminal, ApplyException.
PurchaseUnpaid(p) ==
    /\ ReportTerminal(p)
    /\ IF Open(p) THEN ClosePurchase(p) ELSE UNCHANGED <<purchase, quota>>
    /\ UNCHANGED <<lot, book, refund, trade, comp, given>>

PurchaseDoubted(p) ==
    /\ ReportMismatch(p)
    /\ SetPurchase(p, IF purchase[p].status \in {"pending_payment", "payment_unknown"} THEN "settlement_exception"
                      ELSE purchase[p].status)
    /\ UNCHANGED <<lot, book, refund, quota, trade, comp, given>>

----------------------------------------
\* The customer's refund.

\* The history eligibilityFacts looks for, whatever became of it.
EverTouched(l) ==
    \/ \E g \in Gifts : l \in DOMAIN gift[g].alloc
    \/ \E r \in Redemptions : l \in DOMAIN redemption[r].alloc
    \/ \E n \in Renewals : renewal[n].lot = l /\ renewal[n].status \notin {"none", "quoted"}

\* evaluateRefundEligibility.
Eligible(p) ==
    LET l == purchase[p].lot IN
    /\ purchase[p].status = "issued" /\ now <= purchase[p].paidAt + RefundWindow
    /\ lot[l].owner = purchase[p].owner
    /\ lot[l].status = "active" /\ lot[l].avail = lot[l].total /\ lot[l].exp > now
    /\ ~lot[l].used /\ lot[l].renewals = 0 /\ ~EverTouched(l)
    /\ ~HeldFor(l) /\ ~RenewalUnderWay(l)
    /\ refund[p].status \in {"none", "quoted"}

\* Quote: what was seen is signed, for a short time and not past the window.
QuoteRefund(p) ==
    /\ refund[p].status = "none" /\ Eligible(p)
    /\ refund' = [refund EXCEPT ![p] =
          [NoRefund EXCEPT !.status = "quoted", !.version = lot[purchase[p].lot].version,
                           !.until = Min({now + QuoteTTL, purchase[p].paidAt + RefundWindow})]]
    /\ UNCHANGED <<lot, book, purchase, quota, comp, given>>

\* Create: everything is looked at again under the locks and compared with the quote.
CreateRefund(p) ==
    LET l == purchase[p].lot IN
    /\ refund[p].status = "quoted" /\ now <= refund[p].until
    /\ Eligible(p) /\ lot[l].version = refund[p].version
    /\ Save([k \in {l} |-> Debit(Account(l), "refund_hold", p, lot[l].total, FALSE)])
    /\ refund' = [refund EXCEPT ![p] =
          [refund[p] EXCEPT !.status = "holding", !.kind = "user_unused", !.lot = l, !.alloc = "held", !.srcExp = lot[l].exp]]
    /\ SetPurchase(p, "refund_holding")
    /\ comp' = [comp EXCEPT ![p] = <<"creating">>]
    /\ UNCHANGED <<quota, given>>

\* What LockAndApply writes besides the row itself. A purchase in refund_exception is
\* taken back to refund_holding as soon as things go on.
Follow(p, ofRefund, ofPurchase) ==
    /\ refund' = [refund EXCEPT ![p].status = ofRefund]
    /\ SetPurchase(p, ofPurchase)
    /\ UNCHANGED <<lot, book, quota, given>>

\* validateEntitlementClosure: the tickets are still there, whole and held, or were never
\* issued.
EntitlementClosed(p) ==
    LET R == refund[p] IN
    IF R.kind = "user_unused"
    THEN R.alloc = "held" /\ lot[R.lot].avail = 0 /\ lot[R.lot].status = "depleted" /\ lot[R.lot].exp = R.srcExp
    ELSE purchase[p].lot = 0

\* applySuccess.
TicketsRefunded(p, k) ==
    /\ k = Current(p) /\ RowMoves(p, k) /\ given[p][k] = "success"
    /\ EntitlementClosed(p)
    /\ SetRow(p, k, "succeeded")
    /\ IF refund[p].kind = "user_unused"
       THEN /\ lot' = [lot EXCEPT ![refund[p].lot].status = "refunded", ![refund[p].lot].version = @ + 1]
            /\ refund' = [refund EXCEPT ![p].status = "succeeded", ![p].alloc = "consumed"]
       ELSE /\ refund' = [refund EXCEPT ![p].status = "succeeded"]
            /\ UNCHANGED lot
    /\ SetPurchase(p, "refunded")
    /\ UNCHANGED <<book, quota, given>>

\* applyProcessing: only the current attempt.
RefundRuns(p, k) ==
    /\ k = Current(p) /\ RowMoves(p, k)
    /\ SetRow(p, k, "pending") /\ Follow(p, "processing", "refund_holding")

\* applyClosed.
AttemptClosed(p, k) ==
    /\ k = Current(p) /\ RowMoves(p, k) /\ given[p][k] = "closed" /\ k < RefundRows
    /\ Replaced(p, k) /\ Follow(p, "submitting", "refund_holding")

\* applyAbnormal, markProviderMismatch, and LockAndApplyFailure when trying again is of
\* no use.
AttemptDoubted(p, k) ==
    /\ k = Current(p) /\ RowMoves(p, k)
    /\ SetRow(p, k, "exception") /\ Follow(p, "exception", "refund_exception")

\* LockAndApplyFailure, to be tried again.
AttemptFailed(p) ==
    /\ Current(p) # 0 /\ comp[p][Current(p)] \in Undecided
    /\ EntitlementClosed(p)
    /\ TriedInVain(p)
    /\ Follow(p, IF comp[p][Current(p)] = "creating" THEN "submission_unknown" ELSE refund[p].status, "refund_holding")

PurchaseRefundStep(p) ==
    \/ QuoteRefund(p) \/ CreateRefund(p) \/ AttemptFailed(p)
    \/ \E k \in DOMAIN given[p] :
          TicketsRefunded(p, k) \/ RefundRuns(p, k) \/ AttemptClosed(p, k) \/ AttemptDoubted(p, k)
    \/ (AskRefund(p) \/ ProviderRefunds(p)) /\ UNCHANGED <<lot, book, purchase, quota, refund>>

PurchaseStep ==
    \E p \in Purchases :
       \/ \E c \in Customers : CreatePurchase(p, c)
       \/ ReflectPurchase(p) \/ PurchasePaid(p) \/ PurchaseUnpaid(p) \/ PurchaseDoubted(p)
       \/ PurchaseRefundStep(p) /\ UNCHANGED <<pay, trade>>
       \/ PaymentOutside(p) /\ UNCHANGED <<lot, book, purchase, quota, refund, comp, given>>

----------------------------------------
\* checkPurchasePayment, scanPurchases, checkRefundFacts: money that came in is tickets
\* or on its way back, never both; a refund holds or has used up the whole lot.
PurchaseRule(p) ==
    LET P == purchase[p]
        R == refund[p]
        owned == {l \in Lots : lot[l].from = <<p>>}
    IN  P.status # "none" =>
        /\ (pay[p].status = "succeeded" <=>
              P.status \in {"issued", "refund_holding", "refund_exception", "refunded"})
        /\ Cardinality(owned) = (IF P.lot = 0 THEN 0 ELSE 1)
        /\ (P.lot # 0 => owned = {P.lot} /\ OneRow(P.lot, "purchase_issue", p, Bottles))
        /\ (P.status \in {"issued", "closed"} => comp[p] = <<>>)
        /\ (P.status = "refunded" <=> R.status = "succeeded")
        /\ (P.status = "refunded" => comp[p][Current(p)] = "succeeded" /\ given[p][Current(p)] = "success")
        /\ (R.kind = "user_unused" =>
              /\ OneRow(R.lot, "refund_hold", p, -Bottles)
              /\ ~lot[R.lot].used /\ lot[R.lot].avail = 0 /\ lot[R.lot].exp = R.srcExp
              /\ IF R.status = "succeeded" THEN lot[R.lot].status = "refunded" /\ R.alloc = "consumed"
                 ELSE lot[R.lot].status = "depleted" /\ R.alloc = "held")
        /\ (R.kind = "issuance_compensation" => P.lot = 0)

\* A customer never gets more packages than the limit, and what is reserved is what is
\* still to be paid (validatePurchaseQuota, UpdatePurchaseQuota).
QuotaRule(c) ==
    /\ quota[c].reserved = Cardinality({p \in Purchases : purchase[p].owner = c /\ Open(p)})
    /\ quota[c].consumed = Cardinality({p \in Purchases : purchase[p].owner = c /\ pay[p].status = "succeeded"})
    /\ quota[c].reserved + quota[c].consumed <= Limit
=============================================================================
