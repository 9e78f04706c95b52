---------------------------- MODULE TicketRenewal ----------------------------
(***************************************************************************)
(* Extending the life of tickets for a fee (wineticket/renewal): quote,    *)
(* renewal, its payment, and the compensating refund when the payment can  *)
(* not be applied any more.                                                *)
(*                                                                         *)
(* A quote is signed with the version of the lot. CreateRenewal reads the  *)
(* holds of other businesses from the snapshot of its transaction, which   *)
(* may be older than the lot it has locked but not older than the quote;   *)
(* here it is as old as the quote, the worst case.                         *)
(***************************************************************************)
EXTENDS BusinessPayment

CONSTANTS Extension,  \* by how much a renewal extends a lot
          PayWindow   \* thirty minutes

\* A policy extends a lot by a day or more (validation of the catalogue).
ASSUME RenewalAssumption == Extension \in Nat \ {0}

NoRenewal == [status |-> "none", lot |-> 0, owner |-> NoOne, old |-> 0, new |-> 0, free |-> FALSE,
              version |-> 0]

\* validateRenewalEligibility, with what the two callers saw of holds and renewals.
Renewable(l, held, underWay) ==
    /\ lot[l].status = "active" /\ lot[l].avail > 0 /\ lot[l].exp > now
    /\ lot[l].renewals < MaxRenewals
    /\ ~held /\ ~underWay

\* RenewalQuote.
RenewalQuote(n, l) ==
    /\ renewal[n].status = "none"
    /\ Renewable(l, HeldFor(l), RenewalUnderWay(l))
    /\ \E free \in BOOLEAN :
          renewal' = [renewal EXCEPT ![n] =
              [NoRenewal EXCEPT !.status = "quoted", !.lot = l, !.owner = lot[l].owner, !.old = lot[l].exp,
                                !.new = lot[l].exp + Extension, !.free = free, !.version = lot[l].version]]
    /\ UNCHANGED <<lot, book, pay, trade, comp, given>>

Renewed(L, exp) == [L EXCEPT !.exp = exp, !.renewals = @ + 1, !.used = TRUE, !.version = @ + 1]

QuoteHolds(n) ==
    /\ lot[renewal[n].lot].version = renewal[n].version
    /\ lot[renewal[n].lot].owner = renewal[n].owner

\* CreateRenewal: without a fee the lot is extended at once; otherwise it is marked as
\* used and a payment is drawn up, to be paid before the tickets expire.
RenewAtOnce(n) ==
    /\ renewal' = [renewal EXCEPT ![n].status = "completed"]
    /\ lot' = [lot EXCEPT ![renewal[n].lot] = Renewed(@, renewal[n].new)]
    /\ UNCHANGED pay

RenewOncePaid(n) ==
    LET l == renewal[n].lot IN
    /\ renewal' = [renewal EXCEPT ![n].status = "pending_payment"]
    /\ lot' = [lot EXCEPT ![l].used = TRUE, ![l].version = @ + 1]
    /\ pay' = [pay EXCEPT ![n] = NewPay(Min({now + PayWindow, renewal[n].old}))]

CreateRenewal(n) ==
    LET l == renewal[n].lot IN
    /\ renewal[n].status = "quoted"
    /\ Renewable(l, FALSE, RenewalUnderWay(l)) /\ QuoteHolds(n)
    /\ IF renewal[n].free THEN RenewAtOnce(n) ELSE RenewOncePaid(n)
    /\ UNCHANGED <<book, trade, comp, given>>

\* expireLotAfterRenewalGuardRelease.
ReleaseGuard(n) ==
    LET l == renewal[n].lot IN
    IF lot[l].exp > now THEN UNCHANGED <<lot, book>>
    ELSE /\ CanExpire(Account(l), now)
         /\ Save([k \in {l} |-> Expire(Account(l), n, now)])

\* closeUnpaidRenewalTx: a renewal that is closed already releases its lot once more,
\* one that was paid is left alone.
CloseUnpaid(n) ==
    IF renewal[n].status \in {"pending_payment", "payment_unknown", "closed"}
    THEN renewal' = [renewal EXCEPT ![n].status = "closed"] /\ ReleaseGuard(n)
    ELSE UNCHANGED <<renewal, lot, book>>

\* reflectRenewalPaymentSubmission, after the submission and again whenever the customer
\* repeats the request.
ReflectSubmission(n) ==
    /\ \/ pay[n].status \in {"failed", "closed"} /\ CloseUnpaid(n)
       \/ /\ pay[n].status \in {"creating", "exception"} /\ renewal[n].status = "pending_payment"
          /\ renewal' = [renewal EXCEPT ![n].status = "payment_unknown"]
          /\ UNCHANGED <<lot, book>>
    /\ UNCHANGED <<pay, trade, comp, given>>

\* markRenewalPaymentUnknown: ConfirmRenewalPayment could not ask the provider.
ConfirmFails(n) ==
    /\ renewal[n].status = "pending_payment"
    /\ renewal' = [renewal EXCEPT ![n].status = "payment_unknown"]
    /\ UNCHANGED <<lot, book, pay, trade, comp, given>>

\* applicationFailureReason: why a renewal that is paid cannot be applied.
Applicable(n) ==
    LET l == renewal[n].lot IN
    /\ renewal[n].new > now
    /\ lot[l].owner = renewal[n].owner
    /\ lot[l].status = "active" /\ lot[l].avail > 0
    /\ lot[l].exp = renewal[n].old
    /\ lot[l].version = renewal[n].version + 1
    /\ lot[l].renewals < MaxRenewals
    /\ ~HeldFor(l)

\* enterCompensatingRefundTx.
CompensateRenewal(n) ==
    /\ renewal' = [renewal EXCEPT ![n].status = "compensating_refund"]
    /\ comp' = [comp EXCEPT ![n] = <<"creating">>]
    /\ UNCHANGED lot

\* ApplySuccess. A closed renewal that turns out to be paid is taken up again, unless
\* another renewal of the lot is under way (uk_wt_renewal_active_lot): then the report
\* fails and comes again.
ApplySuccess(n) ==
    LET l == renewal[n].lot IN
    \/ /\ renewal[n].status \in {"pending_payment", "payment_unknown", "closed"}
       /\ (renewal[n].status = "closed" => ~RenewalUnderWay(l))
       /\ IF Applicable(n)
          THEN /\ renewal' = [renewal EXCEPT ![n].status = "completed"]
               /\ lot' = [lot EXCEPT ![l] = Renewed(@, renewal[n].new)]
               /\ UNCHANGED comp
          ELSE CompensateRenewal(n)
       /\ UNCHANGED book

RenewalPaid(n) == ReportSuccess(n) /\ ApplySuccess(n) /\ UNCHANGED <<trade, given>>

\* ApplyTerminal.
RenewalUnpaid(n) == ReportTerminal(n) /\ CloseUnpaid(n) /\ UNCHANGED <<trade, comp, given>>

\* ApplyException.
RenewalDoubted(n) ==
    /\ ReportMismatch(n)
    /\ renewal' = [renewal EXCEPT ![n].status =
                     IF @ \in {"pending_payment", "payment_unknown"} THEN "payment_unknown" ELSE @]
    /\ UNCHANGED <<lot, book, trade, comp, given>>

----------------------------------------
\* The compensating refund (refund_settlement.go).

\* LockAndApply: only the current row of a renewal that is not terminal moves.
Moves(n, k) == k = Current(n) /\ RowMoves(n, k) /\ renewal[n].status # "refunded"

SetRenewal(n, status) == renewal' = [renewal EXCEPT ![n].status = status]

\* applyRefundSuccessTx.
RefundSucceeds(n, k) ==
    /\ Moves(n, k) /\ given[n][k] = "success"
    /\ SetRow(n, k, "succeeded") /\ SetRenewal(n, "refunded")
    /\ ReleaseGuard(n)
    /\ UNCHANGED given

\* applyRefundProcessingTx.
RefundProcessing(n, k) ==
    /\ Moves(n, k)
    /\ SetRow(n, k, "pending") /\ SetRenewal(n, "compensating_refund")
    /\ UNCHANGED <<lot, book, given>>

\* mutant: a refund that is still being carried out is replaced.
RefundGivenUp(n, k) ==
    /\ Moves(n, k) /\ given[n][k] # "success" /\ k < RefundRows
    /\ Replaced(n, k)
    /\ UNCHANGED <<lot, book, renewal, given>>

\* replaceClosedRefundTx: one replacement, which becomes the current row.
RefundClosed(n, k) ==
    /\ Moves(n, k) /\ given[n][k] = "closed" /\ k < RefundRows
    /\ Replaced(n, k)
    /\ UNCHANGED <<lot, book, renewal, given>>

\* markRefundExceptionTx, and LockAndApplyFailure when trying again is of no use.
RefundDoubted(n, k) ==
    /\ Moves(n, k)
    /\ SetRow(n, k, "exception") /\ SetRenewal(n, "refund_exception")
    /\ UNCHANGED <<lot, book, given>>

\* LockAndApplyFailure, to be tried again.
RefundCallFails(n) ==
    /\ Current(n) # 0 /\ comp[n][Current(n)] \in Undecided
    /\ TriedInVain(n) /\ SetRenewal(n, "compensating_refund")
    /\ UNCHANGED <<lot, book, given>>

RenewalRefundStep(n) ==
    \/ RefundCallFails(n)
    \/ \E k \in DOMAIN given[n] :
          RefundSucceeds(n, k) \/ RefundProcessing(n, k) \/ RefundClosed(n, k) \/ RefundDoubted(n, k)
    \/ (AskRefund(n) \/ ProviderRefunds(n)) /\ UNCHANGED <<lot, book, renewal>>

RenewalStep ==
    \E n \in Renewals :
       \/ \E l \in Lots : RenewalQuote(n, l)
       \/ CreateRenewal(n) \/ ReflectSubmission(n) \/ ConfirmFails(n)
       \/ RenewalPaid(n) \/ RenewalUnpaid(n) \/ RenewalDoubted(n)
       \/ RenewalRefundStep(n) /\ UNCHANGED <<pay, trade>>
       \/ PaymentOutside(n) /\ UNCHANGED <<lot, book, renewal, comp, given>>

----------------------------------------
\* checkRenewalFacts and checkRenewalPayment: one renewal of a lot at a time, the lot as
\* old as its last renewal says, and for every payment either the renewal or the money.
\* A payment the provider contradicted is in exception and left to people.
RenewalRule(n) ==
    LET R == renewal[n]
        l == R.lot
    IN  R.status \notin {"none", "quoted"} =>
        /\ lot[l].owner = R.owner
        /\ Cardinality({m \in Renewals : renewal[m].lot = l /\ renewal[m].status \in ActiveRenewalStatuses}) <= 1
        /\ (CompletedOf(l) # {} => lot[l].exp = Max({renewal[m].new : m \in CompletedOf(l)}))
        /\ (lot[l].renewals = Cardinality(CompletedOf(l)) => DescendsFrom(l, lot[l].orig))
        /\ (R.free => pay[n] = NoPay /\ R.status = "completed")
        /\ (R.status \in {"pending_payment", "payment_unknown"} => pay[n].status # "succeeded" /\ Current(n) = 0)
        /\ (R.status = "completed" =>
              /\ Current(n) = 0 /\ (R.free \/ pay[n].status = "succeeded")
              /\ lot[l].exp >= R.new /\ lot[l].renewals >= Cardinality(CompletedOf(l)))
        /\ (R.status = "closed" => Current(n) = 0 /\ pay[n].status \in {"closed", "failed", "exception"})
        /\ (R.status \in {"compensating_refund", "refund_exception"} =>
              pay[n].status = "succeeded" /\ comp[n][Current(n)] # "succeeded")
        /\ (R.status = "refunded" => pay[n].status = "succeeded" /\ comp[n][Current(n)] = "succeeded")
=============================================================================
