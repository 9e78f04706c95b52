-------------------------- MODULE TicketRedemption --------------------------
(***************************************************************************)
(* Turning tickets into a delivery (wineticket/redemption) and the         *)
(* delivery windows it takes place in (wineticket/ops, slots): create,     *)
(* cancel, what the delivery reports (settlement.go) and the return of the *)
(* goods to the shop (return_settlement.go).                               *)
(*                                                                         *)
(* One shop, one product. The delivery itself is in Delivery and Dispatch, *)
(* the return in DeliveryReturn; here are their effects on the redemption, *)
(* which share their transactions. The allocations of a redemption change  *)
(* status together. The eligibility of the customer, address, shop and     *)
(* product is checked and refused without effect.                          *)
(***************************************************************************)
EXTENDS TicketLots

CONSTANTS Slots,
          Windows,   \* the windows that slots are made for: [start, end, cutoff]
          MaxCap     \* bound: capacity of a slot

\* "none" stands for no slot.
ASSUME SlotsAssumption == "none" \notin Slots

VARIABLES slot,      \* wine_ticket_delivery_time_slots
          stock      \* bottles the shop has

NoSlot == [status |-> "none", start |-> 0, end |-> 0, cutoff |-> 0, cap |-> 0, reserved |-> 0]

NoRedemption == [status |-> "none", owner |-> NoOne, qty |-> 0, alloc |-> <<>>, srcExp |-> <<>>,
                 allocStatus |-> "none", slot |-> "none", ret |-> FALSE]

----------------------------------------
\* The delivery windows. The row of the shop is locked, so its open windows do not change
\* underneath.

Overlaps(s, w) ==
    \E t \in Slots \ {s} : slot[t].status = "open" /\ w.start < slot[t].end /\ w.end > slot[t].start

CreateSlot(s, w, cap) ==
    /\ slot[s].status = "none"
    /\ w.cutoff < w.start /\ w.start > now /\ w.cutoff > now
    /\ ~Overlaps(s, w)
    /\ slot' = [slot EXCEPT ![s] = [status |-> "open", start |-> w.start, end |-> w.end, cutoff |-> w.cutoff,
                                    cap |-> cap, reserved |-> 0]]

MayOpen(s, cap, cutoff) ==
    /\ (slot[s].status # "open" => cap > slot[s].reserved)
    /\ slot[s].start > now /\ cutoff > now
    /\ ~Overlaps(s, slot[s])

UpdateSlot(s, cap, cutoff, status) ==
    /\ slot[s].status # "none"
    /\ cap >= slot[s].reserved
    /\ (slot[s].reserved # 0 => cutoff = slot[s].cutoff) /\ cutoff < slot[s].start
    /\ (status = "open" => MayOpen(s, cap, cutoff))
    /\ slot' = [slot EXCEPT ![s].cap = cap, ![s].cutoff = cutoff, ![s].status = status]

SlotStep ==
    /\ \E s \in Slots : \E cap \in 1..MaxCap :
          \/ \E w \in Windows : CreateSlot(s, w, cap)
          \/ \E w \in Windows : \E status \in {"open", "closed"} : UpdateSlot(s, cap, w.cutoff, status)
    /\ UNCHANGED <<lot, book, redemption, stock>>

----------------------------------------
\* validateLockedRedemptionSlot.
Bookable(s) ==
    /\ slot[s].status = "open" /\ slot[s].start > now /\ slot[s].cutoff > now
    /\ slot[s].reserved < slot[s].cap

\* lockEligibleLots and redemptionLotsWithoutGuards: tickets that outlive the window, of
\* lots no renewal is under way for.
Redeemable(c, s) == {l \in Usable(c) : lot[l].exp > slot[s].end /\ ~RenewalUnderWay(l)}

\* reserveRedemptionSlot, deductRedemptionStock and their opposites. A window gives back
\* only what it had taken.
ReserveSlot(s) == slot' = [slot EXCEPT ![s].reserved = @ + 1]
ReleaseSlot(s) == slot[s].reserved > 0 /\ slot' = [slot EXCEPT ![s].reserved = @ - 1]
DeductStock(q) == stock >= q /\ stock' = stock - q
RestoreStock(q) == stock' = stock + q

\* holdRedemptionLots.
HoldLots(r, taken) ==
    Save([l \in DOMAIN taken |-> Debit(Account(l), "redemption_hold", r, taken[l], TRUE)])

\* The rows of a new redemption: its order, its delivery task, the allocations.
NewRedemption(c, q, s, taken) ==
    [status |-> "scheduled", owner |-> c, qty |-> q, alloc |-> taken,
     srcExp |-> [l \in DOMAIN taken |-> lot[l].exp], allocStatus |-> "held", slot |-> s, ret |-> FALSE]

CreateRedemption(r, c, q, s) ==
    /\ redemption[r].status = "none"
    /\ Enough(Redeemable(c, s), q)
    /\ Bookable(s)
    /\ LET taken == Allocation(Redeemable(c, s), q)
       IN  /\ HoldLots(r, taken)
           /\ redemption' = [redemption EXCEPT ![r] = NewRedemption(c, q, s, taken)]
    /\ ReserveSlot(s) /\ DeductStock(q)

\* restoreCancellationLots, and the same for goods that came back.
TicketsBack(r, type) ==
    LET R == redemption[r] IN
    /\ R.allocStatus = "held"
    /\ \A l \in DOMAIN R.alloc : CanRestore(Account(l), R.owner, R.alloc[l])
    /\ Save([l \in DOMAIN R.alloc |-> Restore(Account(l), type, r, R.alloc[l], now)])

\* validateCancellableRedemption: until the goods are picked up, unless a return is
\* under way.
Cancellable(r) == redemption[r].status \in {"scheduled", "assigned"} /\ ~redemption[r].ret

\* Cancel. The delivery is cancelled with it.
CancelRedemption(r) ==
    /\ Cancellable(r)
    /\ TicketsBack(r, "redemption_restore")
    /\ ReleaseSlot(redemption[r].slot) /\ RestoreStock(redemption[r].qty)
    /\ redemption' = [redemption EXCEPT ![r].status = "cancelled", ![r].allocStatus = "restored"]

\* validateFulfillmentEvidence. When it fails the transaction of the delivery fails with
\* it: the rider cannot go on.
DeliveryEvidence(r) ==
    LET R == redemption[r] IN
    /\ \A l \in DOMAIN R.alloc : lot[l].owner = R.owner /\ lot[l].exp = R.srcExp[l]
    /\ SumFunctionOnSet(R.alloc, DOMAIN R.alloc) = R.qty

\* apply, for the three things a delivery reports.
Fulfil(r, from, to, allocStatus) ==
    /\ redemption[r].status \in from
    /\ DeliveryEvidence(r) /\ redemption[r].allocStatus = "held"
    /\ redemption' = [redemption EXCEPT ![r].status = to, ![r].allocStatus = allocStatus]
    /\ UNCHANGED <<lot, book, slot, stock>>

Assigned(r)  == Fulfil(r, {"scheduled"}, "assigned", "held")
PickedUp(r)  == Fulfil(r, {"scheduled", "assigned"}, "picked_up", "held")
Delivered(r) == Fulfil(r, {"picked_up"}, "delivered", "consumed")

\* InitialBinding: a return of the goods is asked for. Approve: it is accepted.
ReturnAsked(r) ==
    /\ redemption[r].status \in {"picked_up", "return_in_progress"} /\ ~redemption[r].ret
    /\ redemption' = [redemption EXCEPT ![r].ret = TRUE]
    /\ UNCHANGED <<lot, book, slot, stock>>

ReturnApproved(r) ==
    /\ redemption[r].ret /\ redemption[r].status = "picked_up"
    /\ redemption' = [redemption EXCEPT ![r].status = "return_in_progress"]
    /\ UNCHANGED <<lot, book, slot, stock>>

\* ApplyReceived: the shop has the goods, the customer the tickets. The window stays used;
\* the goods are booked by the return.
ReturnReceived(r) ==
    /\ redemption[r].status = "return_in_progress"
    /\ TicketsBack(r, "redemption_return_restore")
    /\ redemption' = [redemption EXCEPT ![r].status = "restored", ![r].allocStatus = "restored"]
    /\ UNCHANGED <<slot, stock>>

RedemptionStep ==
    \E r \in Redemptions :
       \/ \E c \in Customers, q \in 1..3, s \in Slots : CreateRedemption(r, c, q, s)
       \/ CancelRedemption(r)
       \/ Assigned(r) \/ PickedUp(r) \/ Delivered(r)
       \/ ReturnAsked(r) \/ ReturnApproved(r) \/ ReturnReceived(r)

----------------------------------------
\* checkRedemptionFacts: tickets held, consumed or given back as the status of the
\* redemption says, each with its rows in the ledger. While they are held the date of
\* their lots does not move (validateFulfillmentEvidence would stop the rider).
RedemptionRule(r) ==
    LET R == redemption[r] IN
    R.status # "none" =>
        /\ SumFunctionOnSet(R.alloc, DOMAIN R.alloc) = R.qty
        /\ R.allocStatus = (CASE R.status = "delivered" -> "consumed"
                              [] R.status \in {"cancelled", "restored"} -> "restored"
                              [] OTHER -> "held")
        /\ \A l \in DOMAIN R.alloc :
              /\ lot[l].owner = R.owner /\ R.alloc[l] <= lot[l].total
              /\ (R.allocStatus = "held" => lot[l].exp = R.srcExp[l])
              /\ OneRow(l, "redemption_hold", r, -R.alloc[l])
              /\ (R.status = "cancelled" <=> OneRow(l, "redemption_restore", r, R.alloc[l]))
              /\ (R.status = "restored" <=> OneRow(l, "redemption_return_restore", r, R.alloc[l]))

\* scanSlots: the places taken are the redemptions that were not cancelled, and never
\* more than there are; no two open windows of a shop overlap.
SlotRule(s) ==
    slot[s].status # "none" =>
        /\ slot[s].reserved = Cardinality({r \in Redemptions : redemption[r].slot = s /\ redemption[r].status # "cancelled"})
        /\ slot[s].reserved <= slot[s].cap
        /\ (slot[s].status = "open" => ~Overlaps(s, slot[s]))
=============================================================================
