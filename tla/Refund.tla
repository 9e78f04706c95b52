------------------------------- MODULE Refund -------------------------------
(***************************************************************************)
(* Giving the money of a retail order back (refund/service.go, worker.go,  *)
(* repair.go, repository.go): refund rows that a worker leases, submits to *)
(* the payment provider and polls; the provider's callbacks; and the       *)
(* administrator who retries, reconciles, repairs or parks a refund.       *)
(*                                                                         *)
(* A row refunds the approved amount of its case (after_sales row) and may *)
(* be replaced once. Its version is kept as the set of those whose copy of *)
(* it is still the current one (fresh).                                    *)
(***************************************************************************)
EXTENDS Delivery, FiniteSets, Functions

CONSTANTS Cases,        \* after-sale cases of the order
          Refunders,    \* refund workers of all processes
          MaxRefundStops, \* bound: deaths of refund workers, leases lost under them
          MaxDeskActions  \* bound: interventions of the administrator

ASSUME RefundAssumption ==
    /\ IsFiniteSet(Cases) /\ Cases \subseteq Nat \ {0}
    /\ MaxRefundStops \in Nat /\ MaxDeskActions \in Nat

VARIABLES
    paid,      \* payments.amount
    refunded,  \* payments.refunded_amount, kept equal in the order
    rf,        \* refunds rows, by case: the original and its replacement
    prov,      \* what the provider ever said of each refund number
    inflight,  \* refund numbers whose timed-out submission is still on its way
    heard,     \* provider events whose callback row exists
    refunder,  \* what each worker is doing
    desk,      \* the repair an administrator is carrying out
    sale,      \* after_sales rows
    ret,       \* delivery_returns row of the order
    refundStops, deskActions

rvars == <<paid, refunded, rf, prov, inflight, heard, refunder, desk, sale, ret,
           refundStops, deskActions>>

Rows == {1, 2}
NoRow == [status |-> "none", seen |-> "none", why |-> "none", fresh |-> {}, lease |-> "free"]

ActiveRefund   == {"creating", "submission_unknown", "pending"}
ReservedRefund == ActiveRefund \cup {"exception"}
Answers        == {"PROCESSING", "SUCCESS", "CLOSED", "ABNORMAL"}

NoCall == [pc |-> "idle", case |-> 0, row |-> 0, as |-> "none", why |-> "none", res |-> "none"]
NoDesk == [case |-> 0, row |-> 0, res |-> "none"]

RefundInit ==
    /\ refunded = 0
    /\ rf = [c \in Cases |-> [k \in Rows |-> NoRow]]
    /\ prov = [c \in Cases |-> [k \in Rows |-> {}]]
    /\ inflight = {}
    /\ heard = [c \in Cases |-> [k \in Rows |-> {}]]
    /\ refunder = [w \in Refunders |-> NoCall]
    /\ desk = NoDesk
    /\ refundStops = 0
    /\ deskActions = 0

\* Repository.Update: every write gives the row a new version and takes its lease off.
Put(row, status, seen, why) ==
    [status |-> status, seen |-> seen, why |-> why, fresh |-> {}, lease |-> "free"]

SetRow(c, k, row) == rf' = [rf EXCEPT ![c][k] = row]

\* A row refunds what was approved for its case.
RefundAmounts == [x \in Cases \X Rows |-> sale[x[1]].amount]

\* ReservedRefund and ReservedExcept: the money other rows may still pay out.
Reserved(except) ==
    SumFunctionOnSet(RefundAmounts,
        {x \in (Cases \X Rows) \ except : rf[x[1]][x[2]].status \in ReservedRefund})

\* createRefundTask: the money is there and nobody else is about to pay it out.
Refundable(amount) == amount > 0 /\ refunded + Reserved({}) + amount <= paid

NewRefund == [NoRow EXCEPT !.status = "creating"]

\* RefundStatus: the latest refund of a case.
LatestRefund(c) == IF rf[c][2].status # "none" THEN rf[c][2].status ELSE rf[c][1].status

----------------------------------------
(* What a refund's end does to a delivery return (deliveryreturn/actions.go). *)

\* TryCloseByAfterSaleWithTx, with ClosureComplete: goods and money are both back.
TryClose(r, money) ==
    IF r.status \in {"received", "exception"} /\ r.receipt /\ money
    THEN [r EXCEPT !.status = "closed"] ELSE r

\* ReconcileRefundWithTx.
ReconcileRefund(r, c, status) ==
    IF r.case # c THEN r
    ELSE CASE status = "succeeded" -> TryClose(r, TRUE)
           [] status \in {"failed", "exception"} /\ r.status \in {"returning", "arrived", "received"} ->
                [r EXCEPT !.status = "exception"]
           [] OTHER -> r

----------------------------------------
(* Applying what the provider says.                                        *)

\* mutant: every answer is news.
NeverTerminal(row) == FALSE

\* isTerminalRefundRow and guardTerminalRefundTransition: nothing but a repetition of
\* the same answer is accepted, and that changes nothing.
TerminalRow(row) == row.status \in {"succeeded", "failed"} \/ row.seen = "CLOSED"

\* mutant: the codes outlive the refund.
RefundSucceedsKeepingCodes(c, k) ==
    /\ refunded' = refunded + sale[c].amount
    /\ order' = [order EXCEPT !.status = IF refunded' = paid THEN "refunded" ELSE "refunding"]
    /\ sale' = [sale EXCEPT ![c].status = "completed"]
    /\ SetRow(c, k, Put(rf[c][k], "succeeded", "SUCCESS", "none"))
    /\ ret' = ReconcileRefund(ret, c, "succeeded")
    /\ UNCHANGED code

\* applyState, SUCCESS: the ledger, the order, the case, its return and the row. That
\* the amounts fit is RefundedOnce.
RefundSucceeds(c, k) ==
    /\ refunded' = refunded + sale[c].amount
    /\ order' = [order EXCEPT !.status = IF refunded' = paid THEN "refunded" ELSE "refunding"]
    /\ code' = IF refunded' = paid THEN Invalidate(code) ELSE code
    /\ sale' = [sale EXCEPT ![c].status = "completed"]
    /\ SetRow(c, k, Put(rf[c][k], "succeeded", "SUCCESS", "none"))
    /\ ret' = ReconcileRefund(ret, c, "succeeded")

\* A write of the row alone, and what it means for the return.
RefundMarked(c, k, status, seen, why) ==
    /\ SetRow(c, k, Put(rf[c][k], status, seen, why))
    /\ ret' = ReconcileRefund(ret, c, status)
    /\ UNCHANGED <<refunded, order, code, sale>>

\* applyState.
ApplyState(c, k, answer) ==
    \/ /\ TerminalRow(rf[c][k])
       /\ UNCHANGED <<rf, refunded, order, code, sale, ret>>
    \/ /\ ~TerminalRow(rf[c][k])
       /\ \/ answer = "SUCCESS" /\ RefundSucceeds(c, k)
          \/ answer = "PROCESSING" /\ RefundMarked(c, k, "pending", answer, "none")
          \/ answer = "CLOSED" /\ RefundMarked(c, k, "failed", answer, answer)
          \/ answer = "ABNORMAL" /\ RefundMarked(c, k, "exception", answer, answer)

\* An answer whose amount or number does not fit the row.
Mismatch(c, k) ==
    \/ TerminalRow(rf[c][k]) /\ UNCHANGED <<rf, refunded, order, code, sale, ret>>
    \/ /\ ~TerminalRow(rf[c][k])
       /\ RefundMarked(c, k, "exception", rf[c][k].seen, "mismatch")

----------------------------------------
(* The worker.                                                             *)

\* Repository.Claim.
ClaimRefund(w, c, k) ==
    /\ refunder[w].pc = "idle"
    /\ rf[c][k].status \in ActiveRefund /\ rf[c][k].lease # "held"
    /\ SetRow(c, k, [rf[c][k] EXCEPT !.lease = "held", !.fresh = {w}])
    /\ refunder' = [refunder EXCEPT ![w] =
          [pc |-> IF rf[c][k].status = "creating" THEN "submit" ELSE "query", case |-> c, row |-> k,
           as |-> rf[c][k].status, why |-> rf[c][k].why, res |-> "none"]]
    /\ UNCHANGED <<dvars, paid, refunded, prov, inflight, heard, desk, sale, ret,
                   refundStops, deskActions>>

\* The state a refund number is in at the provider.
AtProvider(p) ==
    IF p = {} THEN "missing"
    ELSE IF "SUCCESS" \in p THEN "SUCCESS"
    ELSE IF "CLOSED" \in p THEN "CLOSED"
    ELSE IF "ABNORMAL" \in p THEN "ABNORMAL" ELSE "PROCESSING"

Returned(w, res) ==
    refunder' = [refunder EXCEPT ![w].pc = "answered", ![w].res = res]

\* submissionRetryAllowed.
SubmissionRetryAllowed(why) == why \in {"none", "unavailable", "manual_retry"}

\* process: QueryRefund of a row that is pending or whose submission is unknown. A
\* refund number the provider does not know is submitted again only if the first
\* submission failed for a reason that allows it.
QueryRefund(w) ==
    LET call == refunder[w]  found == AtProvider(prov[call.case][call.row]) IN
    /\ call.pc = "query"
    /\ \/ found # "missing" /\ Returned(w, found)
       \/ found = "missing" /\ call.as = "pending" /\ Returned(w, "missing")
       \/ /\ found = "missing" /\ call.as # "pending"
          /\ IF SubmissionRetryAllowed(call.why)
             THEN refunder' = [refunder EXCEPT ![w].pc = "submit"]
             ELSE Returned(w, "given_up")
    /\ UNCHANGED <<dvars, paid, refunded, rf, prov, inflight, heard, desk, sale, ret,
                   refundStops, deskActions>>

\* submit: the provider takes the refund number, or refuses it for good.
SubmitRefund(w) ==
    LET call == refunder[w] IN
    /\ call.pc = "submit"
    /\ \/ /\ prov' = [prov EXCEPT ![call.case][call.row] = @ \cup {"PROCESSING"}]
          /\ Returned(w, AtProvider(prov'[call.case][call.row]))
       \/ /\ prov[call.case][call.row] = {}
          /\ \E res \in {"not_enough", "rejected"} : Returned(w, res)
          /\ UNCHANGED prov
    /\ UNCHANGED <<dvars, paid, refunded, rf, inflight, heard, desk, sale, ret,
                   refundStops, deskActions>>

\* The call fails without an answer. Whether a submission arrived, or still will, is open.
RefundCallFails(w) ==
    LET call == refunder[w] IN
    /\ call.pc \in {"query", "submit"}
    /\ refundStops < MaxRefundStops /\ refundStops' = refundStops + 1
    /\ \E res \in {"unavailable", "other"} : Returned(w, res)
    /\ inflight' = IF call.pc = "submit" THEN inflight \cup {<<call.case, call.row>>} ELSE inflight
    /\ UNCHANGED <<dvars, paid, refunded, rf, prov, heard, desk, sale, ret, deskActions>>

\* runBatch: what the call returned is applied if nobody wrote the row since the claim
\* (workerResultApplicable, ApplyClaimedProviderState, MarkAttemptError). A refusal
\* (MarkPermanentError) does not tell the return.
ApplyResult(w) ==
    LET call == refunder[w]  c == call.case  k == call.row  row == rf[c][k] IN
    /\ call.pc = "answered"
    /\ \/ w \notin row.fresh /\ UNCHANGED <<rf, refunded, order, code, sale, ret>>
       \/ w \in row.fresh /\ call.res \in Answers /\ ApplyState(c, k, call.res)
       \/ /\ w \in row.fresh /\ call.res \in {"unavailable", "other"}
          /\ SetRow(c, k, Put(row, IF row.status = "creating" THEN "submission_unknown"
                                   ELSE row.status, row.seen, call.res))
          /\ UNCHANGED <<refunded, order, code, sale, ret>>
       \/ /\ w \in row.fresh /\ call.res \in {"not_enough", "rejected", "missing", "given_up"}
          /\ SetRow(c, k, Put(row, "exception", row.seen, call.res))
          /\ UNCHANGED <<refunded, order, code, sale, ret>>
    /\ refunder' = [refunder EXCEPT ![w] = NoCall]
    /\ UNCHANGED <<dlv, vmode, carrier, paid, prov, inflight, heard, desk, refundStops, deskActions>>

RefunderDies(w) ==
    /\ refunder[w].pc # "idle"
    /\ refundStops < MaxRefundStops /\ refundStops' = refundStops + 1
    /\ refunder' = [refunder EXCEPT ![w] = NoCall]
    /\ UNCHANGED <<dvars, paid, refunded, rf, prov, inflight, heard, desk, sale, ret, deskActions>>

\* Time passes locked_until, also of a lease whose worker is still busy.
RefundLeaseRunsOut(c, k) ==
    LET held == \E w \in Refunders : refunder[w].case = c /\ refunder[w].row = k
                                     /\ w \in rf[c][k].fresh IN
    /\ rf[c][k].lease = "held"
    /\ held => refundStops < MaxRefundStops
    /\ refundStops' = IF held THEN refundStops + 1 ELSE refundStops
    /\ SetRow(c, k, [rf[c][k] EXCEPT !.lease = "lapsed"])
    /\ UNCHANGED <<dvars, paid, refunded, prov, inflight, heard, refunder, desk, sale, ret, deskActions>>

----------------------------------------
(* The provider.                                                           *)

SetProvider(c, k, says) == prov' = [prov EXCEPT ![c][k] = @ \cup {says}]

\* A refund under way succeeds, is closed or becomes abnormal; an abnormal one is
\* settled by hand.
ProviderDecides(c, k) ==
    /\ \/ /\ AtProvider(prov[c][k]) = "PROCESSING"
          /\ \E says \in {"SUCCESS", "CLOSED", "ABNORMAL"} : SetProvider(c, k, says)
       \/ /\ AtProvider(prov[c][k]) = "ABNORMAL"
          /\ \E says \in {"SUCCESS", "CLOSED"} : SetProvider(c, k, says)
    /\ UNCHANGED <<dvars, paid, refunded, rf, inflight, heard, refunder, desk, sale, ret,
                   refundStops, deskActions>>

\* A submission that timed out arrives after all.
LateSubmission(c, k) ==
    /\ <<c, k>> \in inflight
    /\ inflight' = inflight \ {<<c, k>>}
    /\ SetProvider(c, k, "PROCESSING")
    /\ UNCHANGED <<dvars, paid, refunded, rf, heard, refunder, desk, sale, ret,
                   refundStops, deskActions>>

\* ProcessCallback: late, out of order or with the wrong amount; a second delivery of
\* an event finds its row and changes nothing. What a settled row has heard no longer
\* matters and is forgotten.
ProcessCallback(c, k, event) ==
    /\ event \notin heard[c][k]
    /\ \/ /\ event \in prov[c][k] \ {"PROCESSING"}
          /\ ApplyState(c, k, event)
       \/ /\ event = "garbled" /\ prov[c][k] # {}
          /\ Mismatch(c, k)
    /\ heard' = [heard EXCEPT ![c][k] = IF TerminalRow(rf'[c][k]) THEN {} ELSE @ \cup {event}]
    /\ UNCHANGED <<dlv, vmode, carrier, paid, prov, inflight, refunder, desk, refundStops, deskActions>>

----------------------------------------
(* The administrator.                                                      *)

DeskWrite(c, k, row) ==
    /\ deskActions < MaxDeskActions /\ deskActions' = deskActions + 1
    /\ SetRow(c, k, row)
    /\ UNCHANGED <<dvars, paid, refunded, prov, inflight, heard, refunder, desk, sale, ret, refundStops>>

\* Retry of a row that is still alive, or was refused for want of money.
RetryAlive(c, k) ==
    LET row == rf[c][k] IN
    /\ refunded + Reserved({<<c, k>>}) + sale[c].amount <= paid
    /\ \/ row.status \in {"pending", "submission_unknown"}
          /\ DeskWrite(c, k, Put(row, row.status, row.seen, row.why))
       \/ row.status = "exception" /\ row.why = "not_enough" /\ row.seen # "ABNORMAL"
          /\ DeskWrite(c, k, Put(row, "submission_unknown", row.seen, "manual_retry"))

\* Retry of a refund the provider closed: one replacement row with a number of its own.
RetryClosed(c) ==
    /\ rf[c][1].status = "failed" /\ rf[c][1].seen = "CLOSED"
    /\ rf[c][2].status = "none"
    /\ refunded + Reserved({<<c, 1>>}) + sale[c].amount <= paid
    /\ DeskWrite(c, 2, NewRefund)

\* Reconcile.
Reconcile(c, k) ==
    /\ rf[c][k].status = "exception" /\ rf[c][k].seen = "ABNORMAL"
    /\ DeskWrite(c, k, Put(rf[c][k], "pending", "ABNORMAL", "none"))

\* MarkException: whatever has not succeeded. The return is not told.
MarkException(c, k) ==
    /\ rf[c][k].status \notin {"none", "succeeded"}
    /\ DeskWrite(c, k, Put(rf[c][k], "exception", rf[c][k].seen, "manual"))

\* storedRepairEligible and storedRepairResubmissionAllowed.
RepairEligible(row) == row.status \in ReservedRefund
ResubmissionAllowed(row) ==
    \/ row.status \in ActiveRefund
    \/ row.seen \notin {"ABNORMAL", "CLOSED"} /\ row.why \in {"mismatch", "unavailable"}

\* RepairStored reads the row and asks the provider, before its transaction.
RepairReads(c, k) ==
    /\ desk = NoDesk
    /\ deskActions < MaxDeskActions /\ deskActions' = deskActions + 1
    /\ RepairEligible(rf[c][k])
    /\ desk' = [case |-> c, row |-> k, res |-> AtProvider(prov[c][k])]
    /\ SetRow(c, k, [rf[c][k] EXCEPT !.fresh = @ \cup {"desk"}])
    /\ UNCHANGED <<dvars, paid, refunded, prov, inflight, heard, refunder, sale, ret, refundStops>>

\* RepairStored applies the answer if the row is still the one it read.
RepairApplies ==
    LET c == desk.case  k == desk.row  row == rf[c][k] IN
    /\ desk # NoDesk
    /\ desk' = NoDesk
    /\ \/ "desk" \in row.fresh /\ desk.res \in Answers /\ ApplyState(c, k, desk.res)
       \/ /\ "desk" \in row.fresh /\ desk.res = "missing" /\ ResubmissionAllowed(row)
          /\ RefundMarked(c, k, "submission_unknown", row.seen, "none")
       \/ /\ "desk" \notin row.fresh \/ (desk.res = "missing" /\ ~ResubmissionAllowed(row))
          /\ UNCHANGED <<rf, refunded, order, code, sale, ret>>
    /\ UNCHANGED <<dlv, vmode, carrier, paid, prov, inflight, heard, refunder, refundStops, deskActions>>

----------------------------------------
RefundStep ==
    \/ \E w \in Refunders : \/ QueryRefund(w) \/ SubmitRefund(w) \/ RefundCallFails(w)
                            \/ ApplyResult(w) \/ RefunderDies(w)
                            \/ \E c \in Cases, k \in Rows : ClaimRefund(w, c, k)
    \/ \E c \in Cases : RetryClosed(c)
    \/ \E c \in Cases, k \in Rows :
          \/ RefundLeaseRunsOut(c, k) \/ ProviderDecides(c, k) \/ LateSubmission(c, k)
          \/ RetryAlive(c, k) \/ Reconcile(c, k) \/ MarkException(c, k) \/ RepairReads(c, k)
          \/ \E event \in Answers \cup {"garbled"} : ProcessCallback(c, k, event)
    \/ RepairApplies

\* The workers keep polling and the provider, in the end, decides: an abnormal refund
\* only when someone acts on it there.
RefundFairness ==
    LET v == <<dvars, rvars>> IN
    /\ \A w \in Refunders : WF_v(QueryRefund(w) \/ SubmitRefund(w)) /\ WF_v(ApplyResult(w))
    /\ \A c \in Cases, k \in Rows :
          /\ SF_v(\E w \in Refunders : ClaimRefund(w, c, k))
          /\ WF_v(RefundLeaseRunsOut(c, k))
          /\ WF_v(AtProvider(prov[c][k]) = "PROCESSING" /\ ProviderDecides(c, k))

----------------------------------------
\* The customer is paid at most once for a case although submissions are repeated,
\* time out, arrive late and are replaced (Retry, RepairStored, process), and the
\* books follow the provider: a row reads succeeded or failed only if the provider
\* said so, the ledger is the sum of the succeeded rows and stays within the payment.
RefundedOnce ==
    /\ \A c \in Cases :
          /\ \A k, l \in Rows : "SUCCESS" \in prov[c][k] /\ "SUCCESS" \in prov[c][l] => k = l
          /\ \A k \in Rows : /\ rf[c][k].status = "succeeded" => "SUCCESS" \in prov[c][k]
                             /\ rf[c][k].status = "failed" => "CLOSED" \in prov[c][k]
    /\ refunded = SumFunctionOnSet(RefundAmounts, {x \in Cases \X Rows : rf[x[1]][x[2]].status = "succeeded"})
    /\ refunded <= paid

\* Where every refund must get to, an end the shop can see: succeeded, closed by the
\* provider, or an exception on the administrator's list (runBatch, process,
\* MarkAttemptError).
RefundsSettled == \A c \in Cases, k \in Rows : rf[c][k].status \notin ActiveRefund
=============================================================================
