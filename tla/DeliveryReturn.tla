--------------------------- MODULE DeliveryReturn ---------------------------
(***************************************************************************)
(* Goods that come back (deliveryreturn/service.go, actions.go, sla_worker *)
(* .go): a rider who cannot deliver asks for a return, an administrator    *)
(* approves it, which starts a full refund, and the shop receives the      *)
(* goods against a handoff code. Around it, the rider's reports of an      *)
(* incident (deliveryincident/service.go), which may start a return too,   *)
(* and the customer's after-sale cases, which end in the same refunds.     *)
(*                                                                         *)
(* Retail orders, whose settlement is the cash refund of module Refund.    *)
(* Versions the caller must name are left out: a stale one changes nothing. *)
(***************************************************************************)
EXTENDS Refund

CONSTANT MaxHandoffTries   \* maxHandoffAttempts

ASSUME ReturnAssumption == MaxHandoffTries \in Nat \ {0}

VARIABLE inc   \* delivery_incidents row of the delivery stage

ActiveIncident == {"evidence_required", "open", "acknowledged"}

NoReturn == [status |-> "none", case |-> 0, incident |-> FALSE, code |-> "none", tries |-> 0,
             receipt |-> FALSE]
NoSale   == [status |-> "none", res |-> "none", amount |-> 0, appealed |-> FALSE,
             receipt |-> FALSE]

\* The rider is on the way with the goods.
OnTheWay ==
    /\ \E r \in Riders :
          /\ dlv = [status |-> "delivering", rider |-> r, dispatch |-> "assigned", pickup |-> "ready"]
          /\ carrier = r
    /\ order = [kind |-> "retail", status |-> "delivering", delivery |-> "delivering"]
    /\ vmode \in {"enforce", "observe", "off"}
    /\ code = IF vmode = "off" THEN [s \in Stages |-> NoCode]
              ELSE [s \in Stages |-> [status |-> IF s = "pickup" THEN "verified" ELSE "active",
                                      tries |-> 0]]

\* HasActiveLocked: every return that is not over counts.
ActiveReturn == ret.status \notin {"none", "closed"}

keepRefund == UNCHANGED <<paid, refunded, prov, inflight, heard, refunder, desk, refundStops, deskActions>>

----------------------------------------
\* Create: a second request finds the first.
CreateReturn(r) ==
    /\ dlv.rider = r /\ dlv.status = "delivering"
    /\ ret.status = "none"
    /\ \E linked \in BOOLEAN :
          /\ linked => inc # "none"
          /\ ret' = [NoReturn EXCEPT !.status = "requested", !.incident = linked]
    /\ UNCHANGED <<dvars, sale, rf, inc>> /\ keepRefund

\* CreateSystemDeliveryReturnWithTx: a case or refund of any kind means manual review.
SystemCaseConflicts ==
    \/ \E c \in Cases : sale[c].status \notin {"none", "rejected", "withdrawn"}
    \/ Reserved({}) > 0 \/ refunded > 0

\* The system's case is a new row.
FirstFree == {c \in Cases : /\ sale[c].status = "none"
                           /\ \A d \in Cases : sale[d].status = "none" => c <= d}

\* approveReturnLocked: the system's case with a refund of everything, the delivery and
\* the order turn round, the codes are void.
ApproveLocked(request) ==
    \E c \in FirstFree :
        /\ sale' = [sale EXCEPT ![c] = [NoSale EXCEPT !.status = "refund_processing",
                                             !.res = "refund_only", !.amount = paid]]
        /\ rf' = [rf EXCEPT ![c][1] = NewRefund]
        /\ ret' = [request EXCEPT !.status = "returning", !.case = c]
        /\ dlv' = [dlv EXCEPT !.status = "returning"]
        /\ code' = Invalidate(code)
        /\ order' = [order EXCEPT !.status = "refunding", !.delivery = "returning"]
        /\ UNCHANGED <<vmode, carrier>>

\* Approve.
ApproveReturn ==
    /\ ret.status = "requested" /\ dlv.status = "delivering"
    /\ \/ ~SystemCaseConflicts /\ ApproveLocked(ret)
       \/ /\ SystemCaseConflicts
          /\ ret' = [ret EXCEPT !.status = "disputed"]
          /\ UNCHANGED <<dvars, sale, rf>>
    /\ UNCHANGED inc /\ keepRefund

\* Arrive, also for a new handoff code when the old one is of no use.
Arrive(r) ==
    /\ dlv.rider = r /\ dlv.status = "returning"
    /\ \/ ret.status = "returning"
       \/ ret.status = "arrived" /\ (ret.code = "late" \/ ret.tries = MaxHandoffTries)
    /\ ret' = [ret EXCEPT !.status = "arrived", !.code = "active", !.tries = 0]
    /\ UNCHANGED <<dvars, sale, rf, inc>> /\ keepRefund

Receivable == ret.status \in {"arrived", "exception"} /\ ret.code # "none"

\* Receive, with the right code: the goods are counted and booked, once
\* (uk_after_sale_receipt), and the return is closed if the money is seen to be back
\* (trySettleReceivedLocked; a transaction older than the refund does not see it). A
\* count that does not fit is a dispute, even after the goods were booked.
Receive ==
    LET booked == [ret EXCEPT !.status = "received", !.receipt = TRUE] IN
    /\ Receivable /\ ret.code = "active" /\ ret.tries < MaxHandoffTries
    /\ \/ /\ ~ret.receipt
          /\ ret' \in {booked, TryClose(booked, LatestRefund(ret.case) = "succeeded")}
          /\ dlv' = [dlv EXCEPT !.status = "returned"]
          /\ order' = [order EXCEPT !.delivery = "returned"]
          /\ code' = Invalidate(code)
          /\ UNCHANGED <<vmode, carrier>>
       \/ ret' = [ret EXCEPT !.status = "disputed"] /\ UNCHANGED dvars
    /\ UNCHANGED <<sale, rf, inc>> /\ keepRefund

\* Receive, refused (persistRejectedHandoff): only the attempt is counted.
HandoffRejected ==
    /\ Receivable
    /\ ret.tries < MaxHandoffTries
    /\ ret' = [ret EXCEPT !.tries = @ + 1]
    /\ UNCHANGED <<dvars, sale, rf, inc>> /\ keepRefund

HandoffRunsOut ==
    /\ ret.code = "active"
    /\ ret.status \in {"arrived", "exception"}
    /\ ret' = [ret EXCEPT !.code = "late"]
    /\ UNCHANGED <<dvars, sale, rf, inc>> /\ keepRefund

\* SLAWorker.RunOnce, closing; the second transaction of Receive does the same.
CloseReturn ==
    /\ ret.case \in Cases
    /\ TryClose(ret, LatestRefund(ret.case) = "succeeded") # ret
    /\ ret' = TryClose(ret, LatestRefund(ret.case) = "succeeded")
    /\ UNCHANGED <<dvars, sale, rf, inc>> /\ keepRefund

\* SLAWorker.RunOnce when the receipt deadline has passed.
SlaBreach ==
    /\ ret.status \in {"returning", "arrived"}
    /\ ret' = [ret EXCEPT !.status = "exception"]
    /\ UNCHANGED <<dvars, sale, rf, inc>> /\ keepRefund

----------------------------------------
(* Incidents.                                                              *)

keepAll == UNCHANGED <<dvars, sale, rf, ret>> /\ keepRefund

\* Create and AddEvidence by the rider; evidence only while the assignment is the one
\* the incident was reported under.
ReportIncident(r) ==
    /\ dlv.rider = r /\ dlv.status = "delivering"
    /\ inc = "none"
    /\ inc' \in {"open", "evidence_required"}
    /\ keepAll

AddIncidentEvidence(r) ==
    /\ dlv.rider = r /\ dlv.status = "delivering"
    /\ inc = "evidence_required"
    /\ inc' = "open"
    /\ keepAll

\* adminTransition: acknowledge, reject, or resolve without moving the goods.
ReviewIncident ==
    /\ \/ inc = "open" /\ inc' = "acknowledged"
       \/ inc \in ActiveIncident /\ inc' = "rejected"
       \/ inc \in {"open", "acknowledged"} /\ inc' = "resolved"
    /\ keepAll

\* adminTransition with return_required: CreateApproveFromIncidentWithTx makes or
\* approves the return in the same transaction, or everything is undone.
ResolveByReturn ==
    /\ inc \in {"open", "acknowledged"} /\ dlv.status = "delivering"
    /\ ret.status \in {"none", "requested"}
    /\ ~SystemCaseConflicts
    /\ ApproveLocked(IF ret.status = "none" THEN [NoReturn EXCEPT !.incident = TRUE] ELSE ret)
    /\ inc' = "resolved"
    /\ keepRefund

----------------------------------------
\* mutant: completion does not ask for a return.
CompleteRegardless(r, entry) == /\ Complete(r, entry)
                                /\ inc' = IF inc \in ActiveIncident THEN "resolved" ELSE inc
                                /\ UNCHANGED rvars

\* CompleteWithCode with its guard and ResolveActiveLocked.
CompleteDelivery(r, entry) == /\ ~ActiveReturn
                              /\ Complete(r, entry)
                              /\ inc' = IF inc \in ActiveIncident THEN "resolved" ELSE inc
                              /\ UNCHANGED rvars

\* ForceComplete, likewise.
ForceCompleteDelivery == /\ ~ActiveReturn
                         /\ ForceComplete
                         /\ inc' = IF inc \in ActiveIncident THEN "resolved" ELSE inc
                         /\ UNCHANGED rvars

ReturnStep ==
    \/ \E r \in Riders : \/ CreateReturn(r) \/ Arrive(r) \/ ReportIncident(r) \/ AddIncidentEvidence(r)
                         \/ \E e \in Entries : \/ CompleteDelivery(r, e)
                                               \/ Refused(r, "delivery", e) /\ UNCHANGED <<rvars, inc>>
    \/ ApproveReturn \/ Receive \/ HandoffRejected \/ HandoffRunsOut \/ CloseReturn \/ SlaBreach
    \/ ReviewIncident \/ ResolveByReturn \/ ForceCompleteDelivery
    \/ CodeStep /\ UNCHANGED <<rvars, inc>>

ReturnFairness == WF_<<dvars, rvars, inc>>(CloseReturn)

----------------------------------------
\* Goods and money move together: an approved return turns the delivery round for good,
\* its goods are received before it is closed, it is closed only when the whole payment
\* is back, and a delivery with a return under way is not completed (approveReturnLocked,
\* Receive, TryCloseByAfterSaleWithTx, HasActiveLocked).
ReturnIsWhole ==
    /\ ret.case # 0 => dlv.status = IF ret.receipt THEN "returned" ELSE "returning"
    /\ dlv.status \in {"returning", "returned"} => ret.case # 0 /\ order.delivery = dlv.status
    /\ ret.status = "closed" => ret.receipt /\ refunded = paid
    /\ dlv.status = "completed" => ret.status = "none"

\* Where every return must get to: one whose goods and money are both back is closed,
\* whichever came first and even if the transaction after Receive failed
\* (SLAWorker.RunOnce), unless the shop disputes it.
ReturnsClosed ==
    ret.receipt /\ ret.case # 0 /\ refunded = paid => ret.status \in {"closed", "disputed"}

----------------------------------------
(***************************************************************************)
(* The customer's after-sale cases (aftersale/service.go): application,    *)
(* evidence, review by the shop and the platform, appeal, return of goods, *)
(* replacement, and the refund a case ends in (module Refund).             *)
(*                                                                         *)
(* Every case claims the same unit of the same order item, of price one.   *)
(***************************************************************************)

Released    == {"rejected", "withdrawn"}
Reviewable  == {"submitted", "platform_reviewing"}
Resolutions == {"refund_only", "return_and_refund", "replacement", "compensation"}

SetSale(c, status) == sale' = [sale EXCEPT ![c].status = status]
onlySale == UNCHANGED <<dvars, rf, ret, inc>> /\ keepRefund

\* ActiveRequested: the unit is claimed by a case that is not released.
Claimed == \E c \in Cases : sale[c].status \notin Released \cup {"none"}

\* Create: eligible, and no part of the item in another case. The platform takes what
\* is expensive, unclear or not the first case.
CreateSale(c) ==
    /\ sale[c].status = "none"
    /\ order.status \in {"paid", "accepted", "preparing", "ready_for_pickup", "delivering",
                         "completed"}
    /\ ~Claimed
    /\ \E res \in Resolutions, status \in Reviewable :
          /\ (\E d \in Cases : sale[d].status # "none") => status = "platform_reviewing"
          /\ sale' = [sale EXCEPT ![c] = [NoSale EXCEPT !.status = status, !.res = res, !.amount = 1]]
    /\ onlySale

\* AddEvidence: back to submitted, wherever the request for it came from.
AddEvidence(c) ==
    /\ sale[c].status = "evidence_required"
    /\ SetSale(c, "submitted")
    /\ onlySale

\* mutant: a case can be withdrawn while its refund is under way.
WithdrawAnytime(c) ==
    /\ sale[c].status \in {"submitted", "evidence_required", "refund_processing"}
    /\ SetSale(c, "withdrawn")
    /\ onlySale

\* customerTransition: Withdraw and Appeal.
Withdraw(c) ==
    /\ sale[c].status \in {"submitted", "evidence_required"}
    /\ SetSale(c, "withdrawn")
    /\ onlySale

Appeal(c) ==
    /\ sale[c].status = "rejected" /\ ~sale[c].appealed
    /\ sale' = [sale EXCEPT ![c].status = "platform_reviewing", ![c].appealed = TRUE]
    /\ onlySale

\* review: the shop may not decide what the platform reviews. Any decision but approve.
Review(c) ==
    /\ sale[c].status \in Reviewable
    /\ \E target \in {"rejected", "evidence_required", "platform_reviewing"} :
          SetSale(c, target)
    /\ onlySale

\* approve, by the resolution.
Approve(c) ==
    /\ sale[c].status \in Reviewable
    /\ \/ /\ sale[c].res = "refund_only" /\ Refundable(sale[c].amount)
          /\ SetSale(c, "refund_processing")
          /\ rf' = [rf EXCEPT ![c][1] = NewRefund]
       \/ /\ sale[c].res = "return_and_refund"
          /\ SetSale(c, "waiting_return")
          /\ UNCHANGED rf
       \/ /\ sale[c].res \in {"replacement", "compensation"}
          /\ SetSale(c, IF sale[c].res = "replacement" THEN "replacement_processing"
                        ELSE "compensation_processing")
          /\ UNCHANGED rf
    /\ UNCHANGED <<dvars, ret, inc>> /\ keepRefund

\* ReceiveReturn: intact goods start the refund, others go to the platform. There is one
\* receipt to a case (uk_after_sale_receipt).
ReceiveReturn(c) ==
    /\ sale[c].status = "waiting_return" /\ ~sale[c].receipt
    /\ \/ /\ Refundable(sale[c].amount)
          /\ sale' = [sale EXCEPT ![c].status = "refund_processing", ![c].receipt = TRUE]
          /\ rf' = [rf EXCEPT ![c][1] = NewRefund]
       \/ /\ sale' = [sale EXCEPT ![c].status = "platform_reviewing", ![c].receipt = TRUE]
          /\ UNCHANGED rf
    /\ UNCHANGED <<dvars, ret, inc>> /\ keepRefund

\* ReserveReplacement: stock is put aside for the one replacement of the case.
ReserveReplacement(c) ==
    /\ sale[c].status = "replacement_processing" /\ ~sale[c].receipt
    /\ sale' = [sale EXCEPT ![c].receipt = TRUE]
    /\ onlySale

SaleStep ==
    \E c \in Cases : \/ CreateSale(c) \/ AddEvidence(c) \/ Withdraw(c) \/ Appeal(c) \/ Review(c)
                     \/ Approve(c) \/ ReceiveReturn(c) \/ ReserveReplacement(c)

----------------------------------------
\* Money leaves only for a case that was approved and still stands, and for returned
\* goods only after their receipt; a case is completed when, and only when, its refund
\* succeeded (approve, ReceiveReturn, customerTransition, applyState).
MoneyHasReason ==
    \A c \in Cases :
        /\ (\E k \in Rows : rf[c][k].status # "none") <=>
              sale[c].status \in {"refund_processing", "completed"}
        /\ sale[c].status \in {"refund_processing", "completed"} /\ sale[c].res = "return_and_refund" =>
              sale[c].receipt
        /\ sale[c].status = "completed" <=> LatestRefund(c) = "succeeded"
=============================================================================
