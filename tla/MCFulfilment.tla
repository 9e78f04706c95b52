---------------------------- MODULE MCFulfilment ----------------------------
(***************************************************************************)
(* An order between payment and its end, for TLC. The instance explores    *)
(* six stretches of the way, drawn at the start:                           *)
(*   search   - finding a rider, with workers that fail and riders who     *)
(*              come and go, while the shop has not begun;                 *)
(*   handover - the shop, the codes and reassignment, with a rider found   *)
(*              by hand;                                                   *)
(*   pickup   - the same while the customer asks for all the money back;   *)
(*   back     - the goods come back and the money with them;               *)
(*   refund   - one refund, with everything that can go wrong with it;     *)
(*   claims   - two cases of the customer for the same unit; the codes run *)
(*              out where its price is the whole payment.                  *)
(***************************************************************************)
EXTENDS Dispatch, DeliveryReturn

CONSTANTS r1, r2, w1, f1

\* The refund stretch is about case 1.
ASSUME FulfilAssumption == 1 \in Cases

VARIABLE side

all == <<side, dvars, jvars, rvars, inc>>

NothingToReturn == ret = NoReturn /\ inc = "none" /\ sale = [c \in Cases |-> NoSale]

FulfilInit ==
    /\ RefundInit /\ NothingToReturn
    /\ \/ /\ side = "search" /\ DispatchInit /\ vmode = "off" /\ paid = 1
       \/ /\ side = "handover" /\ DispatchInit /\ vmode # "off" /\ paid = 1
       \/ /\ side = "pickup" /\ DispatchInit /\ vmode = "enforce" /\ paid = 1
          /\ order.kind = "retail"
       \/ /\ side \in {"back", "refund", "claims"} /\ OnTheWay /\ dlv.rider = r1
          /\ (side = "back" => vmode = "enforce" /\ paid = 1)
          /\ (side = "refund" => vmode = "enforce" /\ paid = 2)
          /\ (side = "claims" => vmode = "enforce") /\ paid \in {1, 2}
          /\ cur = 1 /\ job = [j \in JobIds |-> IF j = 1 THEN Over("assigned") ELSE NoJob]
          /\ offer = [j \in JobIds |-> [r \in Riders |-> "none"]]
          /\ assigned = <<[rider |-> r1, status |-> "active"]>>
          /\ rider = [r \in Riders |-> [on |-> TRUE, fresh |-> TRUE]]
          /\ worker = [w \in DispatchWorkers |-> [pc |-> "idle", job |-> 0]]
          /\ stops = 0 /\ moves = 0

SearchStep ==
    /\ side = "search" /\ DispatchNext
    /\ order'.status \in {"paid", "cancelled"}
    /\ UNCHANGED <<side, rvars, inc>>

\* The administrator finds the rider.
ByHand ==
    /\ DispatchNext
    /\ job'[1].mode = "manual"
    /\ \A w \in DispatchWorkers : worker'[w].pc = "idle"
    /\ UNCHANGED <<stops, moves>>

HandoverStep == side = "handover" /\ ByHand /\ UNCHANGED <<side, rvars, inc>>

\* The one case of a customer who wants money and no goods.
OneSale == (CreateSale(1) /\ sale'[1].res = "refund_only") \/ Approve(1)

PickupStep ==
    /\ side = "pickup"
    /\ \/ ByHand /\ UNCHANGED <<rvars, inc>>
       \/ /\ OneSale \/ (RefundStep /\ UNCHANGED <<heard, refundStops, deskActions, inc>>)
          /\ UNCHANGED jvars
    /\ UNCHANGED side

BackStep ==
    /\ side = "back"
    /\ ReturnStep \/ (RefundStep /\ UNCHANGED inc)
    /\ UNCHANGED <<side, jvars, refundStops, deskActions>>

OneRefundStep ==
    /\ side = "refund"
    /\ OneSale \/ (RefundStep /\ UNCHANGED inc)
    /\ UNCHANGED <<side, jvars>>

ClaimStep ==
    /\ side = "claims"
    /\ \/ SaleStep
       \/ RefundStep /\ UNCHANGED <<heard, refundStops, deskActions, inc>>
       \/ \E r \in Riders : (paid = 2 /\ CreateReturn(r)) \/ \E e \in Entries : CompleteDelivery(r, e)
       \/ ForceCompleteDelivery
       \/ /\ paid = 1 /\ (CodeStep \/ \E r \in Riders : Refused(r, "delivery", "empty"))
          /\ UNCHANGED <<rvars, inc>>
       \/ ApproveReturn /\ ret'.status = "disputed"
    /\ UNCHANGED <<side, jvars>>

FulfilNext == SearchStep \/ HandoverStep \/ PickupStep \/ BackStep \/ OneRefundStep \/ ClaimStep

FulfilSpec == /\ FulfilInit /\ [][FulfilNext]_all
              /\ DispatchFairness /\ RefundFairness /\ ReturnFairness

\* The records of who delivers are well formed and agree whatever workers, riders,
\* administrators and customers do to them (CommitAssignment, Reassign, RetryJob,
\* cancellation).
RecordsAgree ==
    /\ DeliveryTypeOK /\ DispatchTypeOK
    /\ LiveJobIsCurrent /\ (side \in {"search", "handover", "pickup"} => OneRider)

\* The goods stay with the rider who took them over, codes included.
HandoverKept == side \in {"search", "handover", "pickup"} => GoodsWithCarrier

\* Under enforce, rider and customer alone do not hand over goods whose money went back
\* in full, before pickup or after: the refund leaves no usable code (InvalidateByOrder),
\* and a later one is an administrator's. Unlock looks at the delivery and not at the order;
\* Reassign of a delivery that is ready makes a new pickup code (InvalidateAndRegenerate);
\* and whoever picks up with such a code gets a delivery code (ActivateDelivery). Without a
\* usable code the goods are neither picked up nor delivered, but by ForceComplete
\* (applyState, VerifyLocked).
RefundedStaysWithShop ==
    [][vmode = "enforce" /\ refunded' = paid =>
          /\ code'["pickup"].status = "active" =>
                \/ refunded = paid /\ code["pickup"].status = "active"
                \/ Unlock("pickup") \/ \E r \in Riders : Reassign(r)
          /\ code'["delivery"].status = "active" =>
                \/ refunded = paid /\ code["delivery"].status = "active"
                \/ Unlock("delivery")
                \/ refunded = paid /\ dlv.status = "accepted" /\ code["pickup"].status = "active"
          /\ dlv'.status = "delivering" =>
                dlv.status = "delivering" \/ code["pickup"].status = "active"
          /\ dlv'.status = "completed" =>
                dlv.status = "completed" \/ code["delivery"].status = "active" \/ ForceCompleteDelivery
      ]_<<dvars, rvars, inc>>

\* Nobody waits: deliveries have a rider or an administrator, refunds have ended, and
\* returns with goods and money back are closed.
FulfilmentSettled == DispatchSettled /\ RefundsSettled /\ ReturnsClosed
=============================================================================
