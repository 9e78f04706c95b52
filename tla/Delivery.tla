------------------------------ MODULE Delivery ------------------------------
(***************************************************************************)
(* One order on its way to the customer: the shop's actions on the order   *)
(* (store/service.go), the rider's pickup and completion (delivery/        *)
(* service.go) and the two codes that guard them (deliveryverification/    *)
(* service.go). Who the rider is, is Dispatch's business; what happens     *)
(* when the goods come back is DeliveryReturn's.                           *)
(*                                                                         *)
(* Every handler is one transaction that locks the delivery row before the *)
(* order row, hence one step. A code row whose expires_at has passed while *)
(* its status still reads active is "late".                                *)
(***************************************************************************)
EXTENDS Naturals

CONSTANTS Riders,    \* riders who serve the shop
          MaxTries   \* VerificationMaxAttempts

VARIABLES
    order,    \* orders row: status, delivery_status, and what kind of order
    dlv,      \* delivery_orders row
    code,     \* delivery_verifications rows, by stage
    vmode,    \* the configured verification mode
    carrier   \* history: the rider the shop handed the goods to

dvars == <<order, dlv, code, vmode, carrier>>

NoRider == "nobody"
Stages  == {"pickup", "delivery"}

ASSUME DeliveryAssumption == MaxTries \in Nat \ {0} /\ NoRider \notin Riders

OrderStatus    == {"paid", "accepted", "preparing", "ready_for_pickup", "delivering",
                   "completed", "cancelled", "refunding", "refunded"}
DeliveryStatus == {"none", "pending_assign", "accepted", "delivering", "completed",
                   "cancelled", "returning", "returned"}
CodeStatus     == {"none", "active", "late", "locked", "expired", "verified", "invalidated",
                   "overridden"}

NoCode == [status |-> "none", tries |-> 0]

DeliveryTypeOK ==
    /\ order \in [kind : {"retail", "redemption"}, status : OrderStatus,
                  delivery : DeliveryStatus]
    /\ dlv \in [status : DeliveryStatus, rider : Riders \cup {NoRider},
                dispatch : {"none", "pending", "offering", "grab_open", "manual_required",
                            "assigned", "cancelled"},
                pickup : {"none", "waiting_store", "ready", "cancelled"}]
    /\ code \in [Stages -> [status : CodeStatus, tries : 0..MaxTries]]
    /\ vmode \in {"enforce", "observe", "off"}
    /\ carrier \in Riders \cup {NoRider}

----------------------------------------
(* Codes.                                                                  *)

\* generateStage: a fresh code; a row that exists is rotated or left alone.
GenerateStage(c, stage, rotate) ==
    IF vmode = "off" \/ (~rotate /\ c[stage].status # "none") THEN c
    ELSE [c EXCEPT ![stage] = [status |-> "active", tries |-> 0]]

\* Invalidate, InvalidateMany, InvalidateByOrder.
InvalidateStages(c, stages) ==
    [s \in Stages |->
        IF s \in stages /\ c[s].status \in {"active", "late", "locked"}
        THEN [c[s] EXCEPT !.status = "invalidated"] ELSE c[s]]

Invalidate(c) == InvalidateStages(c, Stages)

\* InvalidateAndRegenerate, when the rider changes before pickup.
InvalidateAndRegenerate(c) ==
    GenerateStage(InvalidateStages(c, {"delivery"}), "pickup", TRUE)

\* VerifyLocked: the code row after an entry (right, wrong or none).
Tried(c, entry) ==
    CASE c.status = "active" /\ entry = "right" -> [c EXCEPT !.status = "verified"]
      [] c.status = "active" /\ entry = "wrong" ->
            [status |-> IF c.tries + 1 >= MaxTries THEN "locked" ELSE "active",
             tries  |-> c.tries + 1]
      [] c.status = "late" -> [c EXCEPT !.status = "expired"]
      [] OTHER -> c

\* VerifyLocked: whether the rider may go on. Without a row only enforce refuses.
Passes(c, entry) ==
    \/ vmode # "enforce"
    \/ c.status = "verified"
    \/ c.status = "active" /\ entry = "right"

Entries == {"right", "wrong", "empty"}

----------------------------------------
(* The shop.                                                               *)

\* AcceptOrder and StartPreparingOrder: TransitionOrder, and nothing else.
StoreTransition(from, to) ==
    /\ dlv.status # "none"
    /\ order.status = from
    /\ order' = [order EXCEPT !.status = to]
    /\ UNCHANGED <<dlv, code, vmode, carrier>>

AcceptOrder         == StoreTransition("paid", "accepted")
StartPreparingOrder == StoreTransition("accepted", "preparing")

\* PrepareOrder: the delivery is ready, the pickup code exists, and the order shows
\* whether a rider is there.
PrepareOrder ==
    /\ dlv.status # "none"
    /\ order.status = "preparing"
    /\ order' = [order EXCEPT !.status = "ready_for_pickup",
                              !.delivery = IF dlv.rider = NoRider THEN "pending_assign"
                                           ELSE "accepted"]
    /\ dlv' = [dlv EXCEPT !.pickup = "ready"]
    /\ code' = GenerateStage(code, "pickup", FALSE)
    /\ UNCHANGED <<vmode, carrier>>

----------------------------------------
(* The rider.                                                              *)

\* PickupWithCode: transition with the pickup code; the delivery code starts now.
Pickup(r, entry) ==
    /\ dlv.rider = r
    /\ dlv.status = "accepted"
    /\ dlv.pickup = "ready"
    /\ Passes(code["pickup"], entry)
    /\ dlv' = [dlv EXCEPT !.status = "delivering"]
    /\ order' = [order EXCEPT !.status = "delivering", !.delivery = "delivering"]
    /\ code' = GenerateStage([code EXCEPT !["pickup"] = Tried(@, entry)], "delivery", TRUE)
    /\ carrier' = r
    /\ UNCHANGED vmode

\* CompleteWithCode: the order is written whatever its status was.
Complete(r, entry) ==
    /\ dlv.rider = r
    /\ dlv.status = "delivering"
    /\ Passes(code["delivery"], entry)
    /\ dlv' = [dlv EXCEPT !.status = "completed"]
    /\ order' = [order EXCEPT !.status = "completed", !.delivery = "completed"]
    /\ code' = Invalidate([code EXCEPT !["delivery"] = Tried(@, entry)])
    /\ UNCHANGED <<vmode, carrier>>

\* ForceComplete (ops/service.go): an administrator does without the code.
ForceComplete ==
    LET c == IF code["delivery"].status \in {"active", "late", "locked"}
             THEN [code EXCEPT !["delivery"].status = "overridden"] ELSE code
    IN  /\ dlv.status = "delivering"
        /\ dlv' = [dlv EXCEPT !.status = "completed"]
        /\ order' = [order EXCEPT !.status = "completed", !.delivery = "completed"]
        /\ code' = Invalidate(c)
        /\ UNCHANGED <<vmode, carrier>>

\* transition, refused by the code: only the attempt is committed.
Refused(r, stage, entry) ==
    /\ dlv.rider = r
    /\ dlv.status = IF stage = "pickup" THEN "accepted" ELSE "delivering"
    /\ stage = "pickup" => dlv.pickup = "ready"
    /\ ~Passes(code[stage], entry)
    /\ code' = [code EXCEPT ![stage] = Tried(@, entry)]
    /\ UNCHANGED <<order, dlv, vmode, carrier>>

----------------------------------------
\* Unlock: an administrator replaces a locked or expired code in its phase.
UnlockableIn(stage) ==
    IF stage = "pickup" THEN dlv.pickup = "ready" /\ dlv.status \in {"pending_assign", "accepted"}
    ELSE dlv.status = "delivering"

Unlock(stage) ==
    /\ UnlockableIn(stage)
    /\ code[stage].status \in {"locked", "expired", "late"}
    /\ code' = [code EXCEPT ![stage] = [status |-> "active", tries |-> 0]]
    /\ UNCHANGED <<order, dlv, vmode, carrier>>

\* Time passes expires_at.
CodeRunsOut(stage) ==
    /\ code[stage].status = "active"
    /\ code' = [code EXCEPT ![stage].status = "late"]
    /\ UNCHANGED <<order, dlv, vmode, carrier>>

\* What needs no dispatch: the shop, the codes, the rider on the way.
ShopStep == AcceptOrder \/ StartPreparingOrder \/ PrepareOrder
CodeStep == \E stage \in Stages : Unlock(stage) \/ CodeRunsOut(stage)
=============================================================================
