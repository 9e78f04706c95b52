------------------------------- MODULE Tickets -------------------------------
(***************************************************************************)
(* The businesses that share the lots of wine tickets, and what the        *)
(* nightly reconciliation (wineticket/integrity) demands of them together; *)
(* and what a customer is shown of them: the cabinet, a purchase, a        *)
(* refund, a renewal and a redemption. The views are computed from the     *)
(* rows by code of their own (wineticket/cabinet, the dto functions), not  *)
(* by the code that decides on a request, so the two can disagree.         *)
(***************************************************************************)
EXTENDS TicketGift, TicketRenewal, TicketRedemption, TicketPurchase

tkvars == <<lot, book, gift, redemption, renewal, refund, now, pay, trade, comp, given, slot, stock, purchase, quota>>

\* The tables are empty but for the given lots, as purchases left them, and bottles.
TicketsInit(lots, bottles) ==
    /\ lot = [l \in Lots |-> IF l \in DOMAIN lots THEN lots[l].lot ELSE NoLot]
    /\ book = [l \in Lots |-> IF l \in DOMAIN lots THEN lots[l].rows ELSE <<>>]
    /\ gift = [g \in Gifts |-> NoGift] /\ redemption = [r \in Redemptions |-> NoRedemption]
    /\ renewal = [n \in Renewals |-> NoRenewal] /\ refund = [p \in Purchases |-> NoRefund]
    /\ pay = [b \in Payables |-> NoPay] /\ trade = [b \in Payables |-> "none"]
    /\ comp = [b \in Payables |-> <<>>] /\ given = [b \in Payables |-> <<>>]
    /\ slot = [s \in Slots |-> NoSlot] /\ stock = bottles
    /\ purchase = [p \in Purchases |-> NoPurchase]
    /\ quota = [c \in Customers |-> [reserved |-> 0, consumed |-> 0]]
    /\ now = 0

GiftTurn       == GiftStep /\ UNCHANGED <<redemption, renewal, refund, now, pay, trade, comp, given, slot, stock, purchase, quota>>
RenewalTurn    == RenewalStep /\ UNCHANGED <<gift, redemption, refund, now, slot, stock, purchase, quota>>
RedemptionTurn == (RedemptionStep \/ SlotStep) /\ UNCHANGED <<gift, renewal, refund, now, pay, trade, comp, given, purchase, quota>>
PurchaseTurn   == PurchaseStep /\ UNCHANGED <<gift, redemption, renewal, now, slot, stock>>
ExpiryTurn     == ExpireLotsOnce /\ UNCHANGED <<gift, redemption, renewal, refund, now, pay, trade, comp, given, slot, stock, purchase, quota>>
ClockTurn      == Tick /\ UNCHANGED <<lot, book, gift, redemption, renewal, refund, pay, trade, comp, given, slot, stock, purchase, quota>>

----------------------------------------
\* What a gift, a redemption and a refund hold of a lot or have used up, and all of them together.
OfGift(l, g, statuses) ==
    IF gift[g].allocStatus \in statuses /\ l \in DOMAIN gift[g].alloc THEN gift[g].alloc[l] ELSE 0
OfRedemption(l, r, statuses) ==
    IF redemption[r].allocStatus \in statuses /\ l \in DOMAIN redemption[r].alloc THEN redemption[r].alloc[l] ELSE 0
OfRefund(l, p, statuses) == IF refund[p].alloc \in statuses /\ refund[p].lot = l THEN lot[l].total ELSE 0

ClaimsOn(l, statuses) ==
      SumFunctionOnSet([g \in Gifts |-> OfGift(l, g, statuses)], Gifts)
    + SumFunctionOnSet([r \in Redemptions |-> OfRedemption(l, r, statuses)], Redemptions)
    + SumFunctionOnSet([p \in Purchases |-> OfRefund(l, p, statuses)], Purchases)

\* What of a lot expired while it was available.
ExpiredOf(l) ==
    SumFunctionOnSet([i \in DOMAIN book[l] |-> IF book[l][i].type = "expiry" THEN -book[l][i].delta ELSE 0],
                     DOMAIN book[l])

\* checkLotReplay and checkLotAllocationProjection: the rows of the ledger, one after the
\* other, lead from nothing to the balance; and every ticket of a lot is available, held,
\* used up or expired: none is lost, none counted twice.
LotRule(l) ==
    LET L == lot[l]
        rows == book[l]
    IN  L.status # "none" =>
        /\ rows[1].before = 0 /\ rows[1].after = L.total
        /\ \A i \in 2..Len(rows) : rows[i].before = rows[i - 1].after
        /\ rows[Len(rows)].after = L.avail
        /\ (L.status = "active" <=> L.avail > 0)
        /\ L.avail + ClaimsOn(l, {"held", "consumed", "claimed"}) + ExpiredOf(l) = L.total

TicketsReconcile ==
    /\ \A l \in Lots : LotRule(l)
    /\ \A g \in Gifts : GiftRule(g)
    /\ \A n \in Renewals : RenewalRule(n)
    /\ \A r \in Redemptions : RedemptionRule(r)
    /\ \A s \in Slots : SlotRule(s)
    /\ \A p \in Purchases : PurchaseRule(p)
    /\ \A c \in Customers : QuotaRule(c)

\* Nobody has the tickets and the money: the provider is asked for the money of a purchase
\* only when none of its tickets is left or was ever used, and for that of a renewal only
\* when the lot was not renewed for it; and what counts as refunded the provider has paid
\* (Create, createIssuanceCompensationTx, enterCompensatingRefundTx, LockAndApply).
MoneyForTickets ==
    /\ \A p \in Purchases :
          /\ (given[p] # <<>> => \A l \in Lots : lot[l].from = <<p>> => lot[l].avail = 0 /\ ~lot[l].used)
          /\ (purchase[p].status = "refunded" => given[p][Current(p)] = "success")
    /\ \A n \in Renewals :
          /\ (given[n] # <<>> => renewal[n].status \in {"compensating_refund", "refund_exception", "refunded"})
          /\ (renewal[n].status = "refunded" => given[n][Current(n)] = "success")

----------------------------------------
(* What customers are shown.                                               *)

\* mutant: tickets held for a refund are forgotten.
LotFactsPartly(l) ==
    [redeemed |-> SumFunctionOnSet([r \in Redemptions |-> OfRedemption(l, r, {"consumed"})], Redemptions),
     held     |-> IF \E r \in Redemptions : redemption[r].allocStatus = "held" /\ l \in DOMAIN redemption[r].alloc
                  THEN 1 ELSE 0,
     renewals |-> Cardinality({n \in Renewals : renewal[n].lot = l /\ renewal[n].status \in ActiveRenewalStatuses})]

\* lotFactProjection: what is held of a lot and what was taken out, summed over the
\* allocations of each business.
LotFacts(l) ==
    [redeemed |-> SumFunctionOnSet([r \in Redemptions |-> OfRedemption(l, r, {"consumed"})], Redemptions),
     held     |-> ClaimsOn(l, {"held"}),
     renewals |-> Cardinality({n \in Renewals : renewal[n].lot = l /\ renewal[n].status \in ActiveRenewalStatuses})]

\* ActiveCustomerLotFacts: the lots of the cabinet.
InCabinet(l) ==
    /\ lot[l].exp > now
    /\ \/ lot[l].status = "active" /\ lot[l].avail > 0
       \/ lot[l].status \in {"active", "depleted"} /\ LotFacts(l).held > 0

\* renewalEligibleWithPolicy.
RenewOffered(l) ==
    /\ lot[l].status = "active" /\ lot[l].avail > 0 /\ lot[l].exp > now
    /\ lot[l].renewals < MaxRenewals
    /\ LotFacts(l).held = 0 /\ LotFacts(l).renewals = 0

\* lotRecordDTO: the actions offered with a lot.
Offered(l) ==
    IF lot[l].status = "active" /\ lot[l].avail > 0 /\ lot[l].exp > now
    THEN {"redeem", "gift"} \cup (IF RenewOffered(l) THEN {"renew"} ELSE {})
    ELSE {}

\* Cabinet: the totals over a customer's lots.
Cabinet(c) ==
    LET shown == {l \in Lots : lot[l].owner = c /\ InCabinet(l)}
    IN  [available |-> SumFunctionOnSet([l \in shown |-> lot[l].avail], shown),
         held      |-> SumFunctionOnSet([l \in shown |-> LotFacts(l).held], shown),
         actions   |-> UNION {Offered(l) : l \in shown}]

\* purchaseRecordDTO: whether a refund is offered.
RefundOffered(p) ==
    LET l == purchase[p].lot
    IN  /\ purchase[p].status = "issued" /\ l # 0
        /\ ~lot[l].used /\ lot[l].avail = lot[l].total /\ LotFacts(l).held = 0

\* effectiveRefundStatus: the business row, corrected by the row of the last attempt.
RefundShown(p) ==
    LET row == comp[p][Current(p)] IN
    IF refund[p].status = "succeeded" THEN "succeeded"
    ELSE CASE row = "submission_unknown" -> "submission_unknown"
           [] row = "pending"   -> "processing"
           [] row = "failed"    -> "retry_pending"
           [] row = "exception" -> "exception"
           [] row = "succeeded" -> "succeeded"
           [] OTHER -> refund[p].status

\* refundDTO: what became of the tickets.
EntitlementShown(p) ==
    IF refund[p].kind = "issuance_compensation" THEN "not_applicable"
    ELSE IF refund[p].alloc = "consumed" THEN "consumed" ELSE "held"

\* renewalCompensationDisplay, for a renewal with a refund.
CompensationShown(n) ==
    LET row == comp[n][Current(n)] IN
    IF Len(given[n]) = Current(n) /\ row = "pending" THEN "processing" ELSE row

\* redemptionCanCancel.
CancelOffered(r) == redemption[r].status \in {"scheduled", "assigned"}

\* What a customer is shown is so: renewals are offered exactly where a quote is given,
\* a redemption can be cancelled exactly where that is offered, whoever may have the money
\* back is offered it, a refund is shown as done only when the provider has paid, tickets
\* as used up only with it; and the cabinet has no more tickets than there are
\* (lotRecordDTO, Cabinet, purchaseRecordDTO, effectiveRefundStatus, refundDTO,
\* renewalCompensationDisplay, redemptionCanCancel).
ShownIsTrue ==
    /\ \A l \in Lots : /\ ("renew" \in Offered(l) <=> Renewable(l, HeldFor(l), RenewalUnderWay(l)))
                       /\ (RenewOffered(l) => "renew" \in Cabinet(lot[l].owner).actions)
                       /\ lot[l].avail + LotFacts(l).held + LotFacts(l).redeemed <= lot[l].total
    /\ \A c \in Customers :
          LET mine == {l \in Lots : lot[l].owner = c /\ lot[l].exp > now} IN
          Cabinet(c).available + Cabinet(c).held =
             SumFunctionOnSet([l \in mine |-> lot[l].avail + ClaimsOn(l, {"held"})], mine)
    /\ \A p \in Purchases :
          /\ (Eligible(p) => RefundOffered(p))
          /\ (comp[p] # <<>> => (RefundShown(p) = "succeeded" <=> purchase[p].status = "refunded"))
          /\ (EntitlementShown(p) = "consumed" => given[p][Current(p)] = "success")
    /\ \A n \in Renewals :
          (comp[n] # <<>> /\ CompensationShown(n) = "succeeded") => given[n][Current(n)] = "success"
    /\ \A r \in Redemptions : (CancelOffered(r) <=> Cancellable(r))
=============================================================================
