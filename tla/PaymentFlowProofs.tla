-------------------------- MODULE PaymentFlowProofs --------------------------
(***************************************************************************)
(* Proofs about orders and payments.  First the retail order's             *)
(* transactions, for any orders, products, quantities and initial stock,   *)
(* and any sequence of provider reports.  Then the payment flow: every     *)
(* interleaving of requests, callbacks and workers is a behaviour of       *)
(* RetailOrder, so its theorems hold here; no interleaving records money   *)
(* the provider does not hold; and none gives an order up while its        *)
(* customer is paying.                                                     *)
(***************************************************************************)
EXTENDS PaymentFlow, SumTheorems, TLAPS

----------------------------------------
(* The order's transactions. *)
OrderRow == [status : OrderStatuses, payStatus : PayStatuses]
PayRow   == [status : PaymentStatuses, payload : BOOLEAN, next : BOOLEAN]

\* The inductive invariant.
IInv == RowsTypeOK /\ ReservationSettledOnce /\ MoneyHasOutcome

USE DEF OrderStatuses, PayStatuses, PaymentStatuses, EventTypes

\* What SetOrder leaves in the order rows.
LEMMA SetOrderFacts ==
    ASSUME RowsTypeOK, NEW o \in Orders, NEW s \in OrderStatuses, NEW ps \in PayStatuses,
           SetOrder(o, s, ps)
    PROVE  /\ order' \in [Orders -> OrderRow] /\ order'[o].status = s /\ order'[o].payStatus = ps
           /\ \A x \in Orders : x # o => order'[x] = order[x]
  BY DEF SetOrder, RowsTypeOK, OrderRow

\* What SetPay leaves in the payment rows.
LEMMA SetPayFacts ==
    ASSUME RowsTypeOK, NEW o \in Orders, NEW s \in PaymentStatuses,
           NEW payload \in BOOLEAN, NEW next \in BOOLEAN, SetPay(o, s, payload, next)
    PROVE  /\ pay' \in [Orders -> PayRow] /\ pay'[o].status = s
           /\ \A x \in Orders : x # o => pay'[x] = pay[x]
  BY DEF SetPay, RowsTypeOK, PayRow

\* What Emit adds to the outbox.
LEMMA EmitFacts ==
    ASSUME RowsTypeOK, NEW o \in Orders, NEW types \in SUBSET EventTypes, Emit(types, o)
    PROVE  /\ outbox' \subseteq EventTypes \X Orders /\ \A t \in types : <<t, o>> \in outbox'
           /\ outbox \subseteq outbox'
           /\ \A t \in EventTypes, x \in Orders :
                 <<t, x>> \in outbox' => <<t, x>> \in outbox \/ (x = o /\ t \in types)
<1> DEFINE added == {<<t, o>> : t \in types}
<1>1. outbox' = outbox \cup added BY DEF Emit
<1>2. \A t \in types : <<t, o>> \in added OBVIOUS
<1>3. ASSUME NEW t \in EventTypes, NEW x \in Orders, <<t, x>> \in added
      PROVE  x = o /\ t \in types
 BY <1>3
<1>4. added \subseteq EventTypes \X Orders
 <2>1. SUFFICES ASSUME NEW t \in types PROVE <<t, o>> \in EventTypes \X Orders OBVIOUS
 <2>2. t \in EventTypes OBVIOUS
 <2> HIDE DEF EventTypes
 <2>3. QED BY <2>2
<1> HIDE DEF added, EventTypes
<1>5. outbox' \subseteq EventTypes \X Orders BY <1>1, <1>4 DEF RowsTypeOK
<1>6. QED BY <1>1, <1>2, <1>3, <1>5

\* Releasing stock keeps the quantities natural and counts one release.
LEMMA ReleaseFacts ==
    ASSUME RowsTypeOK, NEW o \in Orders, ReleaseStock(o)
    PROVE  /\ available' \in [Products -> Nat] /\ reserved' \in [Products -> Nat]
           /\ released' \in [Orders -> Nat] /\ deducted' = deducted /\ released'[o] = released[o] + 1
           /\ \A x \in Orders : x # o => released'[x] = released[x]
<1>1. \A p \in Products : Qty[o][p] \in Nat BY OrderAssumption
<1>2. QED BY <1>1 DEF ReleaseStock, Reserved, RowsTypeOK

\* Deducting stock keeps the quantities natural and counts one deduction.
LEMMA DeductFacts ==
    ASSUME RowsTypeOK, NEW o \in Orders, DeductReservedStock(o)
    PROVE  /\ available' = available /\ reserved' \in [Products -> Nat]
           /\ deducted' \in [Orders -> Nat] /\ released' = released /\ deducted'[o] = deducted[o] + 1
           /\ \A x \in Orders : x # o => deducted'[x] = deducted[x]
<1>1. \A p \in Products : Qty[o][p] \in Nat BY OrderAssumption
<1>2. QED BY <1>1 DEF DeductReservedStock, Reserved, RowsTypeOK

\* Reserving stock keeps the quantities natural and settles nothing.
LEMMA ReserveFacts ==
    ASSUME RowsTypeOK, NEW o \in Orders, ReserveStock(o)
    PROVE  /\ available' \in [Products -> Nat] /\ reserved' \in [Products -> Nat]
           /\ released' = released /\ deducted' = deducted
<1>1. \A p \in Products : Qty[o][p] \in Nat BY OrderAssumption
<1>2. QED BY <1>1 DEF ReserveStock, RowsTypeOK

\* Rows of the orders a transaction is not about stay as they are.
Others(o) ==
    \A x \in Orders \ {o} :
        /\ order'[x] = order[x] /\ pay'[x] = pay[x] /\ released'[x] = released[x] /\ deducted'[x] = deducted[x]
        /\ \A t \in EventTypes : <<t, x>> \in outbox' <=> <<t, x>> \in outbox

\* It is enough to look at the order the transaction is about.
LEMMA OneOrder ==
    ASSUME IInv, RowsTypeOK', NEW o \in Orders, Others(o), SettledOnce(o)', HasOutcome(o)'
    PROVE  IInv'
<1>1. ASSUME NEW x \in Orders PROVE SettledOnce(x)'
 <2>1. CASE x = o
  BY <2>1
 <2>2. CASE x # o
  BY <2>2 DEF IInv, ReservationSettledOnce, SettledOnce, Others
 <2>3. QED BY <2>1, <2>2
<1>2. ASSUME NEW x \in Orders PROVE HasOutcome(x)'
 <2>1. CASE x = o
  BY <2>1
 <2>2. CASE x # o
  BY <2>2 DEF IInv, MoneyHasOutcome, HasOutcome, Others
 <2>3. QED BY <2>1, <2>2
<1>3. QED BY <1>1, <1>2 DEF IInv, ReservationSettledOnce, MoneyHasOutcome

\* The initial rows satisfy the invariant.
LEMMA InitInv == RowsInit => IInv
<1>1. RowsInit => RowsTypeOK BY OrderAssumption DEF RowsInit, RowsTypeOK, NoPayment
<1>2. RowsInit => ReservationSettledOnce BY DEF RowsInit, ReservationSettledOnce, SettledOnce
<1>3. RowsInit => MoneyHasOutcome BY DEF RowsInit, MoneyHasOutcome, HasOutcome, NoPayment
<1>4. QED BY <1>1, <1>2, <1>3 DEF IInv

\* A transaction that only writes the payment row of o, and not "succeeded", keeps
\* the invariant.
LEMMA PayOnly ==
    ASSUME IInv, NEW o \in Orders, NEW s \in PaymentStatuses,
           NEW payload \in BOOLEAN, NEW next \in BOOLEAN, SetPay(o, s, payload, next),
           s = "succeeded" => pay[o].status = "succeeded",
           UNCHANGED <<order, stock, outbox>>, expired' \in Seq(Orders)
    PROVE  IInv'
<1>1. /\ pay' \in [Orders -> PayRow] /\ pay'[o].status = s
      /\ \A x \in Orders : x # o => pay'[x] = pay[x]
 BY SetPayFacts DEF IInv
<1>2. RowsTypeOK' BY <1>1 DEF IInv, RowsTypeOK, PayRow, stock
<1>3. Others(o) BY <1>1 DEF Others, stock
<1>4. SettledOnce(o)' BY DEF IInv, ReservationSettledOnce, SettledOnce, stock
<1>5. HasOutcome(o)' BY <1>1 DEF IInv, MoneyHasOutcome, HasOutcome, stock
<1>6. QED BY <1>2, <1>3, <1>4, <1>5, OneOrder

\* Placing an order.
LEMMA CreateInv == ASSUME IInv, NEW o \in Orders, Create(o) PROVE IInv'
<1> USE DEF IInv
<1>1. /\ order' \in [Orders -> OrderRow] /\ order'[o].status = "pending_payment" /\ order'[o].payStatus = "pending"
      /\ \A x \in Orders : x # o => order'[x] = order[x]
 BY SetOrderFacts DEF Create
<1>2. /\ available' \in [Products -> Nat] /\ reserved' \in [Products -> Nat]
      /\ released' = released /\ deducted' = deducted
 BY ReserveFacts DEF Create
<1>3. RowsTypeOK' BY <1>1, <1>2 DEF Create, RowsTypeOK, OrderRow
<1>4. Others(o) BY <1>1, <1>2 DEF Others, Create
<1>5. SettledOnce(o)' BY <1>1, <1>2 DEF Create, ReservationSettledOnce, SettledOnce
<1>6. order[o].payStatus # "succeeded" BY DEF Create, MoneyHasOutcome, HasOutcome
<1>7. HasOutcome(o)' BY <1>1, <1>6 DEF Create, MoneyHasOutcome, HasOutcome
<1>8. QED BY <1>3, <1>4, <1>5, <1>7, OneOrder

\* Cancelling a waiting order.
LEMMA CancelPendingInv ==
    ASSUME IInv, NEW o \in Orders, CancelPendingOrder(o)
    PROVE  IInv'
<1> USE DEF IInv
<1> DEFINE s == IF pay[o].status \in {"creating", "pending"} THEN "closed" ELSE pay[o].status
<1>1. /\ order' \in [Orders -> OrderRow] /\ order'[o].status = "cancelled" /\ order'[o].payStatus = "closed"
      /\ \A x \in Orders : x # o => order'[x] = order[x]
 BY SetOrderFacts DEF CancelPendingOrder
<1>2. /\ available' \in [Products -> Nat] /\ reserved' \in [Products -> Nat]
      /\ released' \in [Orders -> Nat] /\ deducted' = deducted /\ released'[o] = released[o] + 1
      /\ \A x \in Orders : x # o => released'[x] = released[x]
 BY ReleaseFacts DEF CancelPendingOrder
<1>3. /\ pay' \in [Orders -> PayRow] /\ pay'[o].status = s
      /\ \A x \in Orders : x # o => pay'[x] = pay[x]
 <2>1. s \in PaymentStatuses /\ pay[o].payload \in BOOLEAN /\ pay[o].next \in BOOLEAN BY DEF RowsTypeOK
 <2>2. QED BY <2>1, SetPayFacts DEF CancelPendingOrder
<1>4. /\ outbox' \subseteq EventTypes \X Orders /\ outbox \subseteq outbox'
      /\ \A t \in EventTypes, x \in Orders :
            <<t, x>> \in outbox' => <<t, x>> \in outbox \/ (x = o /\ t = "order.cancelled")
 <2>1. {"order.cancelled"} \in SUBSET EventTypes OBVIOUS
 <2>2. QED BY <2>1, EmitFacts DEF CancelPendingOrder
<1>5. RowsTypeOK' BY <1>1, <1>2, <1>3, <1>4 DEF CancelPendingOrder, RowsTypeOK, OrderRow, PayRow
<1>6. Others(o) BY <1>1, <1>2, <1>3, <1>4 DEF Others
<1>7. SettledOnce(o)' BY <1>1, <1>2 DEF CancelPendingOrder, ReservationSettledOnce, SettledOnce, RowsTypeOK
<1>8. order[o].payStatus # "succeeded" /\ pay[o].status # "succeeded"
 BY DEF CancelPendingOrder, MoneyHasOutcome, HasOutcome
<1>9. HasOutcome(o)' BY <1>1, <1>3, <1>4, <1>8 DEF MoneyHasOutcome, HasOutcome
<1>10. QED BY <1>5, <1>6, <1>7, <1>9, OneOrder

\* Sending a paid order to the refund flow.
LEMMA CancelPaidInv == ASSUME IInv, NEW o \in Orders, CancelPaidOrder(o) PROVE IInv'
<1> USE DEF IInv
<1>1. /\ order' \in [Orders -> OrderRow] /\ order'[o].status = "refunding" /\ order'[o].payStatus = "succeeded"
      /\ \A x \in Orders : x # o => order'[x] = order[x]
 BY SetOrderFacts DEF CancelPaidOrder
<1>2. /\ outbox' \subseteq EventTypes \X Orders /\ outbox \subseteq outbox'
      /\ \A t \in EventTypes, x \in Orders :
            <<t, x>> \in outbox' => <<t, x>> \in outbox \/ x = o
 <2>1. {"admin.order.refund_requested", "order.cancelled"} \in SUBSET EventTypes OBVIOUS
 <2>2. QED BY <2>1, EmitFacts DEF CancelPaidOrder
<1>3. RowsTypeOK' BY <1>1, <1>2 DEF CancelPaidOrder, RowsTypeOK, OrderRow, stock
<1>4. Others(o) BY <1>1, <1>2 DEF Others, CancelPaidOrder, stock
<1>5. SettledOnce(o)' BY <1>1 DEF CancelPaidOrder, ReservationSettledOnce, SettledOnce, stock
<1>6. HasOutcome(o)' BY <1>1, <1>2 DEF CancelPaidOrder, MoneyHasOutcome, HasOutcome
<1>7. QED BY <1>3, <1>4, <1>5, <1>6, OneOrder

\* Money for a waiting order, from the mock channel or from the provider.
LEMMA SuccessInv ==
    ASSUME IInv, NEW o \in Orders, NEW payload \in BOOLEAN,
           order[o].status = "pending_payment",
           DeductReservedStock(o), SetPay(o, "succeeded", payload, FALSE),
           SetOrder(o, "paid", "succeeded"), Emit({"order.paid"}, o), UNCHANGED expired
    PROVE  IInv'
<1> USE DEF IInv
<1>1. /\ order' \in [Orders -> OrderRow] /\ order'[o].status = "paid" /\ order'[o].payStatus = "succeeded"
      /\ \A x \in Orders : x # o => order'[x] = order[x]
 BY SetOrderFacts
<1>2. /\ pay' \in [Orders -> PayRow]
      /\ \A x \in Orders : x # o => pay'[x] = pay[x]
 BY SetPayFacts
<1>3. /\ available' = available /\ reserved' \in [Products -> Nat]
      /\ deducted' \in [Orders -> Nat] /\ released' = released /\ deducted'[o] = deducted[o] + 1
      /\ \A x \in Orders : x # o => deducted'[x] = deducted[x]
 BY DeductFacts
<1>4. /\ outbox' \subseteq EventTypes \X Orders /\ outbox \subseteq outbox' /\ <<"order.paid", o>> \in outbox'
      /\ \A t \in EventTypes, x \in Orders :
            <<t, x>> \in outbox' => <<t, x>> \in outbox \/ x = o
 <2>1. {"order.paid"} \in SUBSET EventTypes OBVIOUS
 <2>2. QED BY <2>1, EmitFacts
<1>5. RowsTypeOK' BY <1>1, <1>2, <1>3, <1>4 DEF RowsTypeOK, OrderRow, PayRow
<1>6. Others(o) BY <1>1, <1>2, <1>3, <1>4 DEF Others
<1>7. SettledOnce(o)' BY <1>1, <1>3 DEF ReservationSettledOnce, SettledOnce, RowsTypeOK
<1>8. HasOutcome(o)' BY <1>1, <1>4 DEF HasOutcome
<1>9. QED BY <1>5, <1>6, <1>7, <1>8, OneOrder

\* A payment put in exception, with or without money.
LEMMA ExceptionInv ==
    ASSUME IInv, NEW o \in Orders, NEW s \in {"succeeded", "exception"}, NEW ps \in PayStatuses,
           s = "succeeded" => ps = "succeeded",
           order[o].payStatus = "succeeded" => ps = "succeeded",
           SetPay(o, s, pay[o].payload, FALSE), SetOrder(o, "payment_exception", ps),
           Emit({"payment.exception"}, o), UNCHANGED <<stock, expired>>
    PROVE  IInv'
<1> USE DEF IInv
<1>1. /\ order' \in [Orders -> OrderRow] /\ order'[o].status = "payment_exception" /\ order'[o].payStatus = ps
      /\ \A x \in Orders : x # o => order'[x] = order[x]
 BY SetOrderFacts
<1>2. /\ pay' \in [Orders -> PayRow] /\ pay'[o].status = s
      /\ \A x \in Orders : x # o => pay'[x] = pay[x]
 <2>1. pay[o].payload \in BOOLEAN /\ s \in PaymentStatuses BY DEF RowsTypeOK
 <2>2. QED BY <2>1, SetPayFacts
<1>3. /\ outbox' \subseteq EventTypes \X Orders /\ outbox \subseteq outbox'
      /\ <<"payment.exception", o>> \in outbox'
      /\ \A t \in EventTypes, x \in Orders :
            <<t, x>> \in outbox' => <<t, x>> \in outbox \/ (x = o /\ t = "payment.exception")
 <2>1. {"payment.exception"} \in SUBSET EventTypes OBVIOUS
 <2>2. QED BY <2>1, EmitFacts
<1>4. RowsTypeOK' BY <1>1, <1>2, <1>3 DEF RowsTypeOK, OrderRow, PayRow, stock
<1>5. Others(o) BY <1>1, <1>2, <1>3 DEF Others, stock
<1>6. SettledOnce(o)' BY <1>1 DEF ReservationSettledOnce, SettledOnce, stock
<1>7. HasOutcome(o)' BY <1>1, <1>2, <1>3 DEF MoneyHasOutcome, HasOutcome
<1>8. QED BY <1>4, <1>5, <1>6, <1>7, OneOrder

\* Applying a provider report, whatever it says and whenever it comes.
LEMMA ApplyInv ==
    ASSUME IInv, NEW o \in Orders, NEW report \in Reports, ApplyProviderPaymentState(o, report)
    PROVE  IInv'
<1>0. /\ pay[o].status \in PaymentStatuses /\ pay[o].payload \in BOOLEAN
      /\ order[o].payStatus \in PayStatuses /\ expired \in Seq(Orders) /\ UNCHANGED expired
 BY DEF IInv, RowsTypeOK, ApplyProviderPaymentState
<1>1. CASE UNCHANGED rows
 BY <1>1 DEF IInv, RowsTypeOK, ReservationSettledOnce, SettledOnce, MoneyHasOutcome, HasOutcome,
             rows, stock
<1>2. CASE MarkPaymentException(o)
 BY <1>0, <1>2, ExceptionInv DEF MarkPaymentException
<1>3. CASE order[o].status = "pending_payment" /\ ApplyPaymentSuccess(o)
 BY <1>0, <1>3, SuccessInv DEF ApplyPaymentSuccess
<1>4. CASE ApplyLateSuccess(o)
 BY <1>0, <1>4, ExceptionInv DEF ApplyLateSuccess
<1>5. CASE /\ SetPay(o, pay[o].status, pay[o].payload, TRUE) /\ UNCHANGED <<order, stock, outbox>>
 BY <1>0, <1>5, PayOnly
<1>6. CASE /\ SetPay(o, IF report.status = "CLOSED" THEN "closed" ELSE "failed",
                     pay[o].payload, FALSE)
           /\ UNCHANGED <<order, stock, outbox>>
 BY <1>0, <1>6, PayOnly
<1>7. QED BY <1>1, <1>2, <1>3, <1>4, <1>5, <1>6 DEF ApplyProviderPaymentState

\* Every transaction keeps the invariant.
LEMMA NextInv == IInv /\ [RowsNext]_rows => IInv'
<1> SUFFICES ASSUME IInv, [RowsNext]_rows PROVE IInv'
 OBVIOUS
<1>1. CASE UNCHANGED rows
 BY <1>1 DEF IInv, RowsTypeOK, ReservationSettledOnce, SettledOnce, MoneyHasOutcome, HasOutcome,
             rows, stock
<1>2. ASSUME NEW o \in Orders,
             \/ Create(o) \/ CancelPaidOrder(o) \/ MockPay(o)
             \/ CancelPendingOrder(o) \/ OpenPayment(o) \/ ReadyPayment(o) \/ Reschedule(o)
             \/ \E retryable \in BOOLEAN : RefusePayment(o, retryable)
             \/ \E report \in Reports : ApplyProviderPaymentState(o, report)
             \/ PaymentWindowCloses(o)
      PROVE  IInv'
 <2>0. /\ pay[o].status \in PaymentStatuses /\ pay[o].payload \in BOOLEAN
       /\ pay[o].next \in BOOLEAN /\ expired \in Seq(Orders)
  BY DEF IInv, RowsTypeOK
 <2>1. CASE Create(o)
  BY <2>1, CreateInv
 <2>2. CASE CancelPaidOrder(o)
  BY <2>2, CancelPaidInv
 <2>3. CASE MockPay(o)
  BY <2>3, SuccessInv DEF MockPay
 <2>4. CASE CancelPendingOrder(o)
  BY <2>4, CancelPendingInv
 <2>5. CASE OpenPayment(o)
  BY <2>0, <2>5, PayOnly DEF OpenPayment
 <2>6. CASE ReadyPayment(o)
  BY <2>0, <2>6, PayOnly DEF ReadyPayment
 <2>7. CASE Reschedule(o)
  BY <2>0, <2>7, PayOnly DEF Reschedule
 <2>8. ASSUME NEW retryable \in BOOLEAN, RefusePayment(o, retryable)
       PROVE  IInv'
  BY <2>0, <2>8, PayOnly DEF RefusePayment
 <2>9. ASSUME NEW report \in Reports, ApplyProviderPaymentState(o, report)
       PROVE  IInv'
  BY <2>9, ApplyInv
 <2>10. CASE PaymentWindowCloses(o)
  <3>1. expired' \in Seq(Orders) BY <2>0, <2>10 DEF PaymentWindowCloses
  <3>2. QED
   BY <3>1, <2>10 DEF PaymentWindowCloses, IInv, RowsTypeOK, ReservationSettledOnce,
                      SettledOnce, MoneyHasOutcome, HasOutcome, stock
 <2>11. QED BY <1>2, <2>1, <2>2, <2>3, <2>4, <2>5, <2>6, <2>7, <2>8, <2>9, <2>10
<1>3. QED BY <1>1, <1>2 DEF RowsNext

\* The invariant holds in every state the transactions can produce.
THEOREM Invariance == RowsSpec => []IInv
  BY InitInv, NextInv, PTL DEF RowsSpec

\* The rows keep their types: quantities never go below zero.
THEOREM RowsTypeCorrect == RowsSpec => []RowsTypeOK
<1>1. IInv => RowsTypeOK BY DEF IInv
<1>2. QED BY <1>1, Invariance, PTL

\* Whatever the order in which cancellations, expiries and (late, repeated or
\* mismatching) provider reports are applied, each reservation is settled once.
THEOREM ReservationSettledOnceAlways == RowsSpec => []ReservationSettledOnce
<1>1. IInv => ReservationSettledOnce BY DEF IInv
<1>2. QED BY <1>1, Invariance, PTL

\* Recorded money always has its order status and its event.
THEOREM MoneyHasOutcomeAlways == RowsSpec => []MoneyHasOutcome
<1>1. IInv => MoneyHasOutcome BY DEF IInv
<1>2. QED BY <1>1, Invariance, PTL

\* The units of a set of orders, and of the set with one order more or less.
LEMMA UnitsFacts ==
    ASSUME NEW p \in Products, NEW S \in SUBSET Orders
    PROVE  /\ Units(p, S) \in Nat /\ \A o \in S : Units(p, S) = Qty[o][p] + Units(p, S \ {o})
           /\ \A o \in Orders \ S : Units(p, S \cup {o}) = Qty[o][p] + Units(p, S)
<1> DEFINE f == [o \in Orders |-> Qty[o][p]]
<1>1. /\ IsFiniteSet(S) /\ \A o \in Orders : f[o] = Qty[o][p] /\ f[o] \in Nat /\ f[o] \in Int
 BY OrderAssumption, FS_Subset
<1>2. \A X : Units(p, X) = SumFunctionOnSet(f, X) BY DEF Units
<1> HIDE DEF f
<1>3. Units(p, S) \in Nat BY <1>1, <1>2, SumSubset
<1>4. ASSUME NEW o \in S PROVE Units(p, S) = Qty[o][p] + Units(p, S \ {o})
 <2>1. SumFunctionOnSet(f, S) = f[o] + SumFunctionOnSet(f, S \ {o}) BY <1>1, SumTakeOut
 <2> QED BY <1>1, <1>2, <2>1
<1>5. ASSUME NEW o \in Orders \ S PROVE Units(p, S \cup {o}) = Qty[o][p] + Units(p, S)
 <2>1. SumFunctionOnSet(f, S \cup {o}) = f[o] + SumFunctionOnSet(f, S) BY <1>1, SumAdd
 <2> QED BY <1>1, <1>2, <2>1
<1> QED BY <1>3, <1>4, <1>5

\* A transaction that moves no stock and settles nothing.
LEMMA StockStays ==
    ASSUME StockConserved, UNCHANGED <<available, reserved, released, deducted>>,
           \A x \in Orders : order'[x].status = "none" <=> order[x].status = "none"
    PROVE  StockConserved'
<1>1. Holding' = Holding /\ Sold' = Sold BY DEF Holding, Sold
<1> QED BY <1>1 DEF StockConserved, Units

\* A new order adds its units to what is reserved.
LEMMA StockReserved == ASSUME IInv, StockConserved, NEW o \in Orders, Create(o) PROVE StockConserved'
<1>1. /\ order'[o].status = "pending_payment" /\ \A x \in Orders : x # o => order'[x] = order[x]
      /\ released' = released /\ deducted' = deducted /\ order[o].status = "none"
 BY SetOrderFacts, ReserveFacts DEF Create, IInv
<1>2. released[o] + deducted[o] = 0 BY <1>1 DEF IInv, ReservationSettledOnce, SettledOnce
<1>3. Holding' = Holding \cup {o} /\ o \in Orders \ Holding /\ Holding \in SUBSET Orders
 BY <1>1, <1>2 DEF Holding
<1>4. Sold' = Sold /\ Sold \in SUBSET Orders BY <1>1 DEF Sold
<1> SUFFICES ASSUME NEW p \in Products
             PROVE  /\ reserved'[p] = Units(p, Holding')
                    /\ available'[p] + reserved'[p] + Units(p, Sold') = Initial[p]
 BY DEF StockConserved, Units
<1>5. Units(p, Holding') = Qty[o][p] + Units(p, Holding) BY <1>3, UnitsFacts
<1>6. PICK h \in Nat : h = Units(p, Holding) BY <1>3, UnitsFacts
<1>7. PICK s \in Nat : s = Units(p, Sold) BY <1>4, UnitsFacts
<1>8. PICK q \in Nat : q = Qty[o][p] BY OrderAssumption
<1>9. PICK a \in Nat : a = available[p] BY DEF IInv, RowsTypeOK
<1>10. q <= a /\ available'[p] = a - q /\ reserved'[p] = reserved[p] + q
 BY <1>8, <1>9 DEF Create, ReserveStock
<1>11. reserved[p] = h /\ a + reserved[p] + s = Initial[p] BY <1>6, <1>7, <1>9 DEF StockConserved
<1>12. reserved'[p] = q + h /\ available'[p] + reserved'[p] + s = Initial[p] BY <1>10, <1>11
<1> QED BY <1>4, <1>5, <1>6, <1>7, <1>8, <1>12

\* A settled reservation takes its units from what is reserved, to the shelf or out.
LEMMA StockSettled ==
    ASSUME IInv, StockConserved, NEW o \in Orders, order[o].status = "pending_payment",
           ReleaseStock(o) \/ DeductReservedStock(o),
           order'[o].status # "none", \A x \in Orders : x # o => order'[x] = order[x]
    PROVE  StockConserved'
<1>1. released[o] + deducted[o] = 0 /\ released[o] \in Nat /\ deducted[o] \in Nat
 BY DEF IInv, ReservationSettledOnce, SettledOnce, RowsTypeOK
<1>2. released[o] = 0 /\ deducted[o] = 0 BY <1>1
<1>3. o \in Holding /\ o \notin Sold /\ Holding \in SUBSET Orders /\ Sold \in SUBSET Orders
 BY <1>2 DEF Holding, Sold
<1>4. CASE ReleaseStock(o)
 <2>1. /\ deducted' = deducted /\ released'[o] = 1
       /\ \A x \in Orders : x # o => released'[x] = released[x]
  BY <1>2, <1>4, ReleaseFacts DEF IInv
 <2>2. Holding' = Holding \ {o} /\ Sold' = Sold BY <1>2, <2>1 DEF Holding, Sold
 <2> SUFFICES ASSUME NEW p \in Products
              PROVE  /\ reserved'[p] = Units(p, Holding')
                     /\ available'[p] + reserved'[p] + Units(p, Sold') = Initial[p]
  BY DEF StockConserved, Units
 <2>3. Units(p, Holding) = Qty[o][p] + Units(p, Holding') BY <1>3, <2>2, UnitsFacts
 <2>4. PICK h \in Nat : h = Units(p, Holding') BY <1>3, <2>2, UnitsFacts
 <2>5. PICK s \in Nat : s = Units(p, Sold) BY <1>3, UnitsFacts
 <2>6. PICK q \in Nat : q = Qty[o][p] BY OrderAssumption
 <2>7. PICK a \in Nat : a = available[p] BY DEF IInv, RowsTypeOK
 <2>8. available'[p] = a + q /\ reserved'[p] = reserved[p] - q BY <1>4, <2>6, <2>7 DEF ReleaseStock
 <2>9. reserved[p] = q + h /\ a + reserved[p] + s = Initial[p]
  BY <2>3, <2>4, <2>5, <2>6, <2>7 DEF StockConserved
 <2>10. reserved'[p] = h /\ available'[p] + reserved'[p] + s = Initial[p] BY <2>8, <2>9
 <2> QED BY <2>2, <2>4, <2>5, <2>10
<1>5. CASE DeductReservedStock(o)
 <2>1. /\ released' = released /\ deducted'[o] = 1
       /\ \A x \in Orders : x # o => deducted'[x] = deducted[x]
  BY <1>2, <1>5, DeductFacts DEF IInv
 <2>2. Holding' = Holding \ {o} /\ Sold' = Sold \cup {o} BY <1>2, <2>1 DEF Holding, Sold
 <2> SUFFICES ASSUME NEW p \in Products
              PROVE  /\ reserved'[p] = Units(p, Holding')
                     /\ available'[p] + reserved'[p] + Units(p, Sold') = Initial[p]
  BY DEF StockConserved, Units
 <2>3. Units(p, Holding) = Qty[o][p] + Units(p, Holding') BY <1>3, <2>2, UnitsFacts
 <2>4. Units(p, Sold') = Qty[o][p] + Units(p, Sold) BY <1>3, <2>2, UnitsFacts
 <2>5. PICK h \in Nat : h = Units(p, Holding') BY <1>3, <2>2, UnitsFacts
 <2>6. PICK s \in Nat : s = Units(p, Sold) BY <1>3, UnitsFacts
 <2>7. PICK q \in Nat : q = Qty[o][p] BY OrderAssumption
 <2>8. PICK a \in Nat : a = available[p] BY DEF IInv, RowsTypeOK
 <2>9. available'[p] = a /\ reserved'[p] = reserved[p] - q BY <1>5, <2>7, <2>8 DEF DeductReservedStock
 <2>10. reserved[p] = q + h /\ a + reserved[p] + s = Initial[p]
  BY <2>3, <2>5, <2>6, <2>7, <2>8 DEF StockConserved
 <2>11. reserved'[p] = h /\ available'[p] + reserved'[p] + (q + s) = Initial[p] BY <2>9, <2>10
 <2> QED BY <2>4, <2>5, <2>6, <2>7, <2>11
<1> QED BY <1>4, <1>5

\* A payment row belongs to an order that was created.
PaymentHasOrder == \A o \in Orders : pay[o].status # "none" => order[o].status # "none"

\* It is enough that the order whose rows are written exists afterwards.
LEMMA HasOrderStep ==
    ASSUME PaymentHasOrder, NEW o \in Orders,
           order'[o].status # "none" \/ (order'[o] = order[o] /\ pay[o].status # "none"),
           \A x \in Orders : x # o => order'[x] = order[x] /\ pay'[x] = pay[x]
    PROVE  PaymentHasOrder'
  BY DEF PaymentHasOrder

\* Every transaction keeps that.
LEMMA PaymentHasOrderStep == RowsTypeOK /\ PaymentHasOrder /\ [RowsNext]_rows => PaymentHasOrder'
<1> SUFFICES ASSUME RowsTypeOK, PaymentHasOrder, [RowsNext]_rows PROVE PaymentHasOrder'
 OBVIOUS
<1>1. CASE UNCHANGED <<order, pay>>
 BY <1>1 DEF PaymentHasOrder
<1>2. ASSUME NEW o \in Orders, NEW s \in OrderStatuses, NEW ps \in PayStatuses, SetOrder(o, s, ps),
             s # "none",
             \/ pay' = pay
             \/ \E ns \in PaymentStatuses, payload \in BOOLEAN, next \in BOOLEAN : SetPay(o, ns, payload, next)
      PROVE  PaymentHasOrder'
 <2>1. order'[o].status = s /\ \A x \in Orders : x # o => order'[x] = order[x] BY <1>2, SetOrderFacts
 <2>2. \A x \in Orders : x # o => pay'[x] = pay[x] BY <1>2, SetPayFacts
 <2> QED BY <1>2, <2>1, <2>2, HasOrderStep
<1>3. ASSUME NEW o \in Orders, NEW ns \in PaymentStatuses, NEW payload \in BOOLEAN, NEW next \in BOOLEAN,
             SetPay(o, ns, payload, next), order' = order,
             order[o].status # "none" \/ pay[o].status # "none"
      PROVE  PaymentHasOrder'
 <2>1. \A x \in Orders : x # o => pay'[x] = pay[x] BY <1>3, SetPayFacts
 <2> QED BY <1>3, <2>1, HasOrderStep
<1>4. ASSUME NEW o \in Orders,
             \/ Create(o) \/ CancelPaidOrder(o) \/ MockPay(o)
             \/ CancelPendingOrder(o) \/ OpenPayment(o) \/ ReadyPayment(o) \/ Reschedule(o)
             \/ \E retryable \in BOOLEAN : RefusePayment(o, retryable)
             \/ \E report \in Reports : ApplyProviderPaymentState(o, report)
             \/ PaymentWindowCloses(o)
      PROVE  PaymentHasOrder'
 <2>0. /\ pay[o].status \in PaymentStatuses /\ pay[o].payload \in BOOLEAN
       /\ pay[o].next \in BOOLEAN /\ order[o].payStatus \in PayStatuses
  BY DEF RowsTypeOK
 <2>1. CASE Create(o) \/ CancelPaidOrder(o)
  BY <1>2, <2>1 DEF Create, CancelPaidOrder
 <2>2. CASE MockPay(o)
  BY <1>2, <2>2 DEF MockPay
 <2>3. CASE CancelPendingOrder(o)
  BY <1>2, <2>0, <2>3 DEF CancelPendingOrder
 <2>4. CASE OpenPayment(o)
  BY <1>3, <2>0, <2>4 DEF OpenPayment, Payable
 <2>5. CASE ReadyPayment(o) \/ Reschedule(o)
  BY <1>3, <2>0, <2>5 DEF ReadyPayment, Reschedule
 <2>6. ASSUME NEW retryable \in BOOLEAN, RefusePayment(o, retryable) PROVE PaymentHasOrder'
  BY <1>3, <2>0, <2>6 DEF RefusePayment
 <2>7. ASSUME NEW report \in Reports, ApplyProviderPaymentState(o, report) PROVE PaymentHasOrder'
  <3>1. CASE MarkPaymentException(o)
   BY <1>2, <2>0, <3>1 DEF MarkPaymentException
  <3>2. CASE ApplyPaymentSuccess(o)
   BY <1>2, <2>0, <3>2 DEF ApplyPaymentSuccess
  <3>3. CASE ApplyLateSuccess(o)
   BY <1>2, <2>0, <3>3 DEF ApplyLateSuccess
  <3>4. CASE UNCHANGED rows
   BY <1>1, <3>4 DEF rows
  <3>5. CASE order' = order /\ SetPay(o, pay[o].status, pay[o].payload, TRUE)
   BY <1>3, <2>0, <2>7, <3>5 DEF ApplyProviderPaymentState
  <3>6. CASE order' = order /\ SetPay(o, IF report.status = "CLOSED" THEN "closed" ELSE "failed",
                                      pay[o].payload, FALSE)
   BY <1>3, <2>0, <2>7, <3>6 DEF ApplyProviderPaymentState
  <3> QED
   BY <2>7, <3>1, <3>2, <3>3, <3>4, <3>5, <3>6 DEF ApplyProviderPaymentState
 <2>8. CASE PaymentWindowCloses(o)
  BY <1>1, <2>8 DEF PaymentWindowCloses
 <2> QED BY <1>4, <2>1, <2>2, <2>3, <2>4, <2>5, <2>6, <2>7, <2>8
<1> QED BY <1>1, <1>4 DEF RowsNext, rows

\* Every transaction conserves the stock.
LEMMA StockStep == IInv /\ PaymentHasOrder /\ StockConserved /\ [RowsNext]_rows => StockConserved'
<1> SUFFICES ASSUME IInv, PaymentHasOrder, StockConserved, [RowsNext]_rows PROVE StockConserved'
 OBVIOUS
<1>1. CASE UNCHANGED <<order, stock>>
 BY <1>1, StockStays DEF stock
<1>2. ASSUME NEW o \in Orders, CancelPendingOrder(o) \/ MockPay(o) PROVE StockConserved'
 <2>1. order'[o].status # "none" /\ \A x \in Orders : x # o => order'[x] = order[x]
  BY <1>2, SetOrderFacts DEF IInv, CancelPendingOrder, MockPay
 <2> QED BY <1>2, <2>1, StockSettled DEF CancelPendingOrder, MockPay
<1>3. ASSUME NEW o \in Orders, NEW s \in OrderStatuses, NEW ps \in PayStatuses, UNCHANGED stock,
             SetOrder(o, s, ps), s # "none", order[o].status # "none"
      PROVE  StockConserved'
 <2>1. order'[o].status # "none" /\ \A x \in Orders : x # o => order'[x] = order[x]
  BY <1>3, SetOrderFacts DEF IInv
 <2>2. \A x \in Orders : order'[x].status = "none" <=> order[x].status = "none" BY <1>3, <2>1
 <2> QED BY <1>3, <2>2, StockStays DEF stock
<1>4. ASSUME NEW o \in Orders, CancelPaidOrder(o) PROVE StockConserved' BY <1>3, <1>4 DEF CancelPaidOrder
<1>5. ASSUME NEW o \in Orders, NEW report \in Reports, ApplyProviderPaymentState(o, report)
      PROVE  StockConserved'
 <2>0. order[o].status # "none" /\ order[o].payStatus \in PayStatuses
  BY <1>5 DEF ApplyProviderPaymentState, PaymentHasOrder, IInv, RowsTypeOK
 <2>1. CASE MarkPaymentException(o)
  BY <1>3, <2>0, <2>1 DEF MarkPaymentException
 <2>2. CASE order[o].status = "pending_payment" /\ ApplyPaymentSuccess(o)
  <3>1. order'[o].status # "none" /\ \A x \in Orders : x # o => order'[x] = order[x]
   BY <2>2, SetOrderFacts DEF IInv, ApplyPaymentSuccess
  <3> QED BY <2>2, <3>1, StockSettled DEF ApplyPaymentSuccess
 <2>3. CASE ApplyLateSuccess(o)
  BY <1>3, <2>0, <2>3 DEF ApplyLateSuccess
 <2>4. CASE UNCHANGED <<order, stock>>
  BY <1>1, <2>4
 <2> QED
  BY <1>5, <2>1, <2>2, <2>3, <2>4 DEF ApplyProviderPaymentState, rows
<1> QED
 BY <1>1, <1>2, <1>4, <1>5, StockReserved DEF RowsNext, rows, OpenPayment, ReadyPayment, Reschedule,
    RefusePayment, PaymentWindowCloses

\* No unit is lost or sold twice, for any orders, quantities and initial stock.
THEOREM StockConservedAlways == RowsSpec => []StockConserved
<1>1. RowsInit => StockConserved
 <2> SUFFICES ASSUME RowsInit, NEW p \in Products
              PROVE  /\ reserved[p] = Units(p, Holding) /\ available[p] + reserved[p] + Units(p, Sold) = Initial[p]
  BY DEF StockConserved
 <2>1. Holding = {} /\ Sold = {} BY DEF RowsInit, Holding, Sold
 <2>2. Units(p, {}) = 0 BY SumEmpty DEF Units
 <2>3. Initial[p] \in Nat /\ available[p] = Initial[p] /\ reserved[p] = 0 BY OrderAssumption DEF RowsInit
 <2> QED BY <2>1, <2>2, <2>3
<1>2. RowsInit => PaymentHasOrder BY DEF RowsInit, PaymentHasOrder, NoPayment
<1>3. IInv => RowsTypeOK BY DEF IInv
<1> QED BY <1>1, <1>2, <1>3, StockStep, PaymentHasOrderStep, Invariance, PTL DEF RowsSpec

\* A transaction that writes the order row of o as decided below revives no order.
LEMMA DecidedStep ==
    ASSUME RowsTypeOK, NEW o \in Orders, NEW s \in OrderStatuses, NEW ps \in PayStatuses,
           SetOrder(o, s, ps),
           \/ order[o].status \in {"none", "pending_payment"}
           \/ s = "payment_exception"
           \/ s = "refunding" /\ order[o].status # "cancelled"
    PROVE  \A x \in Orders : StaysDecided(x)
<1>1. /\ order'[o].status = s
      /\ \A x \in Orders : x # o => order'[x] = order[x]
 BY SetOrderFacts
<1>2. TAKE x \in Orders
<1>3. CASE x = o
 BY <1>1, <1>3 DEF StaysDecided
<1>4. CASE x # o
 BY <1>1, <1>4 DEF StaysDecided
<1>5. QED BY <1>3, <1>4

\* No transaction revives a decided order.
LEMMA NoRevivalStep == RowsTypeOK /\ [RowsNext]_rows => \A x \in Orders : StaysDecided(x)
<1> SUFFICES ASSUME RowsTypeOK, [RowsNext]_rows PROVE \A x \in Orders : StaysDecided(x)
 OBVIOUS
<1>1. CASE order' = order
 BY <1>1 DEF StaysDecided
<1>2. ASSUME NEW o \in Orders, Create(o) \/ CancelPendingOrder(o) \/ MockPay(o)
      PROVE  \A x \in Orders : StaysDecided(x)
 BY <1>2, DecidedStep DEF Create, CancelPendingOrder, MockPay
<1>3. ASSUME NEW o \in Orders, CancelPaidOrder(o)
      PROVE  \A x \in Orders : StaysDecided(x)
 BY <1>3, DecidedStep DEF CancelPaidOrder
<1>4. ASSUME NEW o \in Orders, NEW report \in Reports, ApplyProviderPaymentState(o, report)
      PROVE  \A x \in Orders : StaysDecided(x)
 <2>1. CASE MarkPaymentException(o)
  <3>1. order[o].payStatus \in PayStatuses BY DEF RowsTypeOK
  <3>2. QED BY <2>1, <3>1, DecidedStep DEF MarkPaymentException
 <2>2. CASE order[o].status = "pending_payment" /\ ApplyPaymentSuccess(o)
  BY <2>2, DecidedStep DEF ApplyPaymentSuccess
 <2>3. CASE ApplyLateSuccess(o)
  BY <2>3, DecidedStep DEF ApplyLateSuccess
 <2>4. CASE order' = order
  BY <1>1, <2>4
 <2>5. QED BY <1>4, <2>1, <2>2, <2>3, <2>4 DEF ApplyProviderPaymentState, rows
<1>5. QED
 BY <1>1, <1>2, <1>3, <1>4 DEF RowsNext, rows, OpenPayment, ReadyPayment, Reschedule,
    RefusePayment, PaymentWindowCloses

\* Once decided, an order is never sold or awaited again.
THEOREM NoRevivalAlways == RowsSpec => NoRevival
<1>1. ASSUME IInv, [RowsNext]_rows
      PROVE  [\A o \in Orders : StaysDecided(o)]_rows
 BY <1>1, NoRevivalStep DEF IInv
<1>2. QED BY <1>1, Invariance, PTL DEF RowsSpec, NoRevival

----------------------------------------
(* The payment flow. *)
\* What At leaves in the tasks.
LEMMA AtFacts ==
    ASSUME FlowTypes, NEW t \in Tasks, NEW step \in Steps, NEW role \in Roles,
           NEW o \in Orders, NEW report \in Reports, At(t, step, role, o, report)
    PROVE  /\ task' \in [Tasks -> Busy \cup {Idle}]
           /\ task'[t].step = step /\ task'[t].order = o /\ task'[t].report = report
           /\ \A u \in Tasks : u # t => task'[u] = task[u]
  BY DEF At, FlowTypes, Busy

\* A task that is not idle has an order and a report.
LEMMA BusyFacts ==
    ASSUME FlowTypes, NEW t \in Tasks, task[t].step # "idle"
    PROVE  /\ task[t].step \in Steps /\ task[t].role \in Roles
           /\ task[t].order \in Orders /\ task[t].report \in Reports
  BY DEF FlowTypes, Busy, Idle

\* The provider's side of one trade after a step: it stays, it is created, it is
\* paid for, it ends or it is closed; a finished trade never changes.
TradeStep(o) ==
    /\ trade' \in [Orders -> Trades]
    /\ \A x \in Orders : x # o => trade'[x] = trade[x]
    /\ trade[o] \in {"SUCCESS", "CLOSED", "PAYERROR"} => trade'[o] = trade[o]

\* Closing keeps the trades typed, and finished ones as they are.
LEMMA CloseFacts ==
    ASSUME FlowTypes, NEW o \in Orders, CloseAnswers(o) \/ CloseFails(o)
    PROVE  TradeStep(o) /\ (trade[o] = "none" => trade'[o] = "none")
  BY DEF CloseAnswers, CloseFails, Closed, TradeStep, FlowTypes, Trades, ProviderStatuses, Live

\* The keys and orders of requests, and where GotoC takes them.
LEMMA CreateFacts ==
    ASSUME FlowTypes, NEW c \in Creates
    PROVE  /\ OrderOf[c] \in Orders /\ KeyOf[c] \in Keys
           /\ \A label \in {"idle"} \cup InFlight \cup CreateEnds :
                 GotoC(c, label) =>
                    /\ cpc' \in [Creates -> {"idle"} \cup InFlight \cup CreateEnds] /\ cpc'[c] = label
                    /\ \A d \in Creates : d # c => cpc'[d] = cpc[d]
  BY FlowAssumption DEF FlowTypes, GotoC, Keys

\* A CreatePayment step keeps the types.
LEMMA CreateTypes ==
    ASSUME FlowTypes, NEW c \in Creates, CreateStep(c) \/ CreateDies(c)
    PROVE  FlowTypes'
<1> USE DEF InFlight, CreateEnds
<1>0. OrderOf[c] \in Orders /\ KeyOf[c] \in Keys BY CreateFacts
<1>1. CASE ReplayPayment(c)
 BY <1>0, <1>1, CreateFacts DEF ReplayPayment, FlowTypes
<1>2. CASE BeginCreate(c)
 BY <1>0, <1>2, CreateFacts DEF BeginCreate, FlowTypes
<1>3. CASE ProviderCreate(c)
 <2>1. cpc' \in [Creates -> {"idle"} \cup InFlight \cup CreateEnds] BY <1>3, CreateFacts DEF ProviderCreate
 <2>2. trade' \in [Orders -> Trades] BY <1>0, <1>3 DEF ProviderCreate, FlowTypes, Trades, ProviderStatuses
 <2>3. QED BY <1>3, <2>1, <2>2 DEF ProviderCreate, FlowTypes
<1>4. CASE FailCreate(c)
 BY <1>0, <1>4, CreateFacts DEF FailCreate, FlowTypes
<1>5. CASE FinishCreate(c)
 BY <1>0, <1>5, CreateFacts DEF FinishCreate, FlowTypes
<1>6. CASE Compensate(c)
 <2>1. cpc' \in [Creates -> {"idle"} \cup InFlight \cup CreateEnds] BY <1>6, CreateFacts DEF Compensate
 <2>2. trade' \in [Orders -> Trades] BY <1>0, <1>6, CloseFacts DEF Compensate, TradeStep
 <2>3. QED BY <1>6, <2>1, <2>2 DEF Compensate, FlowTypes
<1>7. CASE CreateDies(c)
 BY <1>7, CreateFacts DEF CreateDies, FlowTypes
<1>8. QED BY <1>1, <1>2, <1>3, <1>4, <1>5, <1>6, <1>7 DEF CreateStep

\* Ending a task.
LEMMA FinishFacts ==
    ASSUME FlowTypes, NEW t \in Tasks, Finish(t)
    PROVE  /\ task' \in [Tasks -> Busy \cup {Idle}] /\ task'[t].step = "idle"
           /\ \A u \in Tasks : u # t => task'[u] = task[u]
  BY DEF Finish, FlowTypes, Idle

\* Moving a busy task on.
LEMMA StepFacts ==
    ASSUME FlowTypes, NEW t \in Tasks, task[t].step # "idle", NEW step \in Steps, Step(t, step)
    PROVE  /\ task' \in [Tasks -> Busy \cup {Idle}] /\ task'[t].step = step
           /\ \A u \in Tasks : u # t => task'[u] = task[u]
  BY BusyFacts, AtFacts DEF Step

\* A task's step keeps the types.
LEMMA TaskTypes ==
    ASSUME FlowTypes, NEW t \in Tasks,
           TaskStep(t) \/ CloseTradeFails(t) \/ QueryFails(t) \/ TaskDies(t)
    PROVE  FlowTypes'
<1> USE DEF Steps
<1>1. CASE QueryAnswers(t)
 <2>1. /\ task[t].role \in Roles /\ task[t].order \in Orders
  BY <1>1, BusyFacts DEF QueryAnswers
 <2>2. PICK genuine \in {TRUE, task[t].order \notin Suspect} :
          At(t, "apply", task[t].role, task[t].order,
             [status |-> trade[task[t].order], genuine |-> genuine])
  BY <1>1 DEF QueryAnswers
 <2>3. [status |-> trade[task[t].order], genuine |-> genuine] \in Reports
  BY <1>1, <2>1 DEF QueryAnswers, Reports, FlowTypes, Trades
 <2>4. task' \in [Tasks -> Busy \cup {Idle}] BY <2>1, <2>2, <2>3, AtFacts
 <2>5. QED BY <1>1, <2>4 DEF QueryAnswers, FlowTypes
<1>2. CASE QueryNotExist(t)
 BY <1>2, StepFacts DEF QueryNotExist, FlowTypes
<1>3. CASE Apply(t)
 <2>1. task' \in [Tasks -> Busy \cup {Idle}] BY <1>3, StepFacts, FinishFacts DEF Apply, AfterApply
 <2>2. QED BY <1>3, <2>1 DEF Apply, FlowTypes
<1>4. CASE CloseTrade(t)
 <2>1. task[t].order \in Orders /\ task' \in [Tasks -> Busy \cup {Idle}]
  BY <1>4, BusyFacts, StepFacts DEF CloseTrade
 <2>2. trade' \in [Orders -> Trades] BY <1>4, <2>1, CloseFacts DEF CloseTrade, TradeStep
 <2>3. QED BY <1>4, <2>1, <2>2 DEF CloseTrade, FlowTypes
<1>5. CASE CloseTradeFails(t)
 <2>1. task[t].order \in Orders /\ task' \in [Tasks -> Busy \cup {Idle}]
  BY <1>5, BusyFacts, FinishFacts DEF CloseTradeFails
 <2>2. trade' \in [Orders -> Trades] BY <1>5, <2>1, CloseFacts DEF CloseTradeFails, TradeStep
 <2>3. QED BY <1>5, <2>1, <2>2 DEF CloseTradeFails, FlowTypes
<1>6. CASE CancelLocal(t)
 BY <1>6, BusyFacts, FinishFacts DEF CancelLocal, FlowTypes
<1>7. CASE QueryFails(t)
 BY <1>7, FinishFacts DEF QueryFails, FlowTypes
<1>8. CASE TaskDies(t)
 BY <1>8, FinishFacts DEF TaskDies, FlowTypes
<1>9. QED BY <1>1, <1>2, <1>3, <1>4, <1>5, <1>6, <1>7, <1>8 DEF TaskStep

\* Every step keeps the types of the flow's own state.
LEMMA TypesStep == FlowTypes /\ [Next]_vars => FlowTypes'
<1> SUFFICES ASSUME FlowTypes, [Next]_vars PROVE FlowTypes'
 OBVIOUS
<1>1. CASE UNCHANGED vars
 BY <1>1 DEF vars, flow, FlowTypes
<1>2. ASSUME NEW o \in Orders,
             OrderCommand(o) \/ BeginPaying(o) \/ EndPaying(o) \/ ProcessPaymentCallback(o)
             \/ MismatchCallback(o) \/ Clock(o)
      PROVE  FlowTypes'
 <2>1. CASE UNCHANGED flow
  BY <2>1 DEF flow, FlowTypes
 <2>2. CASE BeginPaying(o)
  BY <2>2 DEF BeginPaying, FlowTypes, Trades, ProviderStatuses
 <2>3. CASE EndPaying(o)
  BY <2>3 DEF EndPaying, FlowTypes, Trades, ProviderStatuses
 <2>4. CASE ProcessPaymentCallback(o)
  BY <2>4 DEF ProcessPaymentCallback, FlowTypes
 <2>5. QED BY <1>2, <2>1, <2>2, <2>3, <2>4 DEF OrderCommand, MismatchCallback, Clock
<1>3. ASSUME NEW c \in Creates, CreateStep(c) \/ CreateDies(c)
      PROVE  FlowTypes'
 BY <1>3, CreateTypes
<1>4. ASSUME NEW t \in Tasks, TaskStep(t) \/ CloseTradeFails(t) \/ QueryFails(t) \/ TaskDies(t)
      PROVE  FlowTypes'
 BY <1>4, TaskTypes
<1>5. ASSUME NEW t \in Tasks, NEW o \in Orders,
             StartConfirm(t, o) \/ StartReconcile(t, o) \/ StartExpire(t, o)
      PROVE  FlowTypes'
 <2>1. NoReport \in Reports BY DEF NoReport, Reports, ProviderStatuses
 <2>2. task' \in [Tasks -> Busy \cup {Idle}]
  BY <1>5, <2>1, AtFacts DEF StartConfirm, StartReconcile, StartExpire, Start, Steps, Roles
 <2>3. QED BY <1>5, <2>2 DEF StartConfirm, StartReconcile, StartExpire, FlowTypes
<1>6. QED BY <1>1, <1>2, <1>3, <1>4, <1>5 DEF Next

\* A transaction of RetailOrder is a step of its specification.
LEMMA Transactions ==
    ASSUME NEW o \in Orders
    PROVE  /\ Create(o) => RowsNext
           /\ CancelPaidOrder(o) => RowsNext
           /\ MockPay(o) => RowsNext
           /\ CancelPendingOrder(o) => RowsNext
           /\ OpenPayment(o) => RowsNext
           /\ ReadyPayment(o) => RowsNext
           /\ Reschedule(o) => RowsNext
           /\ \A retryable \in BOOLEAN : RefusePayment(o, retryable) => RowsNext
           /\ \A report \in Reports : ApplyProviderPaymentState(o, report) => RowsNext
           /\ PaymentWindowCloses(o) => RowsNext
  BY DEF RowsNext

\* Every step of the flow is one transaction or leaves the rows alone.
LEMMA RowsStep == FlowTypes /\ [Next]_vars => [RowsNext]_rows
<1> SUFFICES ASSUME FlowTypes, [Next]_vars PROVE [RowsNext]_rows
 OBVIOUS
<1>1. CASE UNCHANGED vars
 BY <1>1 DEF vars
<1>2. ASSUME NEW o \in Orders,
             OrderCommand(o) \/ BeginPaying(o) \/ EndPaying(o) \/ ProcessPaymentCallback(o)
             \/ MismatchCallback(o) \/ Clock(o)
      PROVE  [RowsNext]_rows
 <2>1. \A genuine \in BOOLEAN : [status |-> "SUCCESS", genuine |-> genuine] \in Reports
  BY DEF Reports, ProviderStatuses
 <2>2. CASE OrderCommand(o) \/ Clock(o)
  BY <2>2, Transactions DEF OrderCommand, Clock
 <2>3. CASE BeginPaying(o) \/ EndPaying(o)
  BY <2>3 DEF BeginPaying, EndPaying
 <2>4. CASE ProcessPaymentCallback(o) \/ MismatchCallback(o)
  BY <2>1, <2>4, Transactions DEF ProcessPaymentCallback, MismatchCallback
 <2>5. QED BY <1>2, <2>2, <2>3, <2>4
<1>3. ASSUME NEW c \in Creates, CreateStep(c) \/ CreateDies(c)
      PROVE  [RowsNext]_rows
 <2>1. OrderOf[c] \in Orders BY CreateFacts
 <2>2. CASE BeginCreate(c)
  BY <2>1, <2>2, Transactions DEF BeginCreate
 <2>3. CASE FailCreate(c)
  <3>1. (cpc[c] = "errRetry") \in BOOLEAN OBVIOUS
  <3>2. QED BY <2>1, <2>3, <3>1, Transactions DEF FailCreate
 <2>4. CASE FinishCreate(c)
  BY <2>1, <2>4, Transactions DEF FinishCreate
 <2>5. QED BY <1>3, <2>2, <2>3, <2>4 DEF CreateStep, ReplayPayment, ProviderCreate, Compensate, CreateDies
<1>4. ASSUME NEW t \in Tasks, TaskStep(t) \/ CloseTradeFails(t) \/ QueryFails(t) \/ TaskDies(t)
      PROVE  [RowsNext]_rows
 <2>1. task[t].step # "idle" => task[t].order \in Orders /\ task[t].report \in Reports BY BusyFacts
 <2>2. CASE Apply(t)
  BY <2>1, <2>2, Transactions DEF Apply
 <2>3. CASE CancelLocal(t)
  BY <2>1, <2>3, Transactions DEF CancelLocal
 <2>4. CASE QueryFails(t)
  BY <2>1, <2>4, Transactions DEF QueryFails
 <2>5. QED
  BY <1>4, <2>2, <2>3, <2>4 DEF TaskStep, QueryAnswers, QueryNotExist, CloseTrade,
                               CloseTradeFails, TaskDies
<1>5. ASSUME NEW t \in Tasks, NEW o \in Orders,
             StartConfirm(t, o) \/ StartReconcile(t, o) \/ StartExpire(t, o)
      PROVE  [RowsNext]_rows
 BY <1>5, Transactions DEF StartConfirm, StartReconcile, StartExpire
<1>6. QED BY <1>1, <1>2, <1>3, <1>4, <1>5 DEF Next

\* The flow's initial state.
LEMMA InitFlow == Init => RowsInit /\ FlowTypes
  BY FlowAssumption DEF Init, FlowTypes, Trades, Idle

\* The flow's own state keeps its types.
LEMMA FlowTypesAlways == Spec => []FlowTypes
  BY InitFlow, TypesStep, PTL DEF Spec

\* Every interleaving of requests, callbacks and workers is a behaviour of the
\* transactions of RetailOrder.
THEOREM RowsRefinement == Spec => ImplementsRows
<1>1. FlowTypes /\ [Next]_vars => [RowsNext]_rows BY RowsStep
<1>2. QED BY <1>1, InitFlow, FlowTypesAlways, PTL DEF Spec, ImplementsRows, RowsSpec

\* Types of the whole flow.
THEOREM FlowTypeCorrect == Spec => []FlowTypeOK
<1>1. RowsTypeOK /\ FlowTypes => FlowTypeOK BY DEF FlowTypeOK
<1>2. QED BY <1>1, FlowTypesAlways, RowsRefinement, RowsTypeCorrect, PTL DEF ImplementsRows

\* What the transactions guarantee holds in the flow: reservations are settled once
\* and recorded money has its outcome.
THEOREM FlowKeepsOrders == Spec => [](ReservationSettledOnce /\ MoneyHasOutcome)
  BY RowsRefinement, ReservationSettledOnceAlways, MoneyHasOutcomeAlways, PTL
  DEF ImplementsRows

----------------------------------------
(* PaidHasMoney.  It is not inductive by itself: a success report already *)
(* in a task's hands must be true, a request calls the provider only after *)
(* it opened the payment row, and an order paid through the mock channel *)
(* must have no CreatePayment in flight that could open a trade. *)
OpenedBeforeCall ==
    \A c \in Creates : cpc[c] \in InFlight => pay[OrderOf[c]].status # "none"

ReportTrue ==
    \A t \in Tasks :
        task[t].step = "apply" /\ task[t].report = [status |-> "SUCCESS", genuine |-> TRUE] =>
            trade[task[t].order] = "SUCCESS"

MockQuiet ==
    \A c \in Creates :
        Money(OrderOf[c]) /\ trade[OrderOf[c]] = "none" => cpc[c] \notin InFlight

TradeHasRow ==
    \A o \in Orders : trade[o] # "none" => pay[o].status # "none"

MInv == IInv /\ FlowTypes /\ OpenedBeforeCall /\ TradeHasRow /\ ReportTrue /\ MockQuiet /\ PaidHasMoney

\* What a step may do to the money recorded for o and to its payment row.
MoneyMoves(o) ==
    /\ Money(o)' => \/ Money(o) \/ trade[o] = "SUCCESS"
                    \/ MockEnabled /\ trade[o] = "none" /\ pay[o].status = "none"
    /\ pay[o].status # "none" => pay'[o].status # "none"

\* What a step may do to the provider's trade of o.
TradeMoves(o) ==
    /\ trade[o] = "SUCCESS" => trade'[o] = "SUCCESS"
    /\ trade'[o] = "none" => trade[o] = "none"
    /\ Money(o)' => trade'[o] = trade[o]
    /\ trade'[o] # "none" => trade[o] # "none" \/ pay[o].status # "none"

\* A request gets in flight only for an order without money, with its row opened.
CreateMoves(c) ==
    cpc'[c] \in InFlight =>
        \/ cpc[c] \in InFlight
        \/ ~Money(OrderOf[c])' /\ pay'[OrderOf[c]].status # "none"

USE DEF OrderStatuses, PayStatuses, PaymentStatuses

\* These moves keep the invariant.
LEMMA Moves ==
    ASSUME MInv, IInv', FlowTypes', ReportTrue', \A o \in Orders : MoneyMoves(o) /\ TradeMoves(o),
           \A c \in Creates : CreateMoves(c)
    PROVE  MInv'
<1>0. \A c \in Creates : OrderOf[c] \in Orders BY FlowAssumption
<1>1. OpenedBeforeCall' BY <1>0 DEF MInv, OpenedBeforeCall, MoneyMoves, CreateMoves
<1>2. MockQuiet'
 <2>1. SUFFICES ASSUME NEW c \in Creates, Money(OrderOf[c])', trade'[OrderOf[c]] = "none",
                       cpc'[c] \in InFlight
                PROVE  FALSE
  BY DEF MockQuiet
 <2>2. trade[OrderOf[c]] = "none" BY <1>0, <2>1 DEF TradeMoves
 <2>3. cpc[c] \in InFlight BY <2>1 DEF CreateMoves
 <2>4. pay[OrderOf[c]].status # "none" BY <2>3 DEF MInv, OpenedBeforeCall
 <2>5. Money(OrderOf[c]) BY <1>0, <2>1, <2>2, <2>4 DEF MoneyMoves
 <2>6. QED BY <2>2, <2>3, <2>5 DEF MInv, MockQuiet
<1>3. PaidHasMoney'
 <2>1. SUFFICES ASSUME NEW o \in Orders, Money(o)'
                PROVE  trade'[o] = "SUCCESS" \/ (MockEnabled /\ trade'[o] = "none")
  BY DEF PaidHasMoney
 <2>2. trade'[o] = trade[o] BY <2>1 DEF TradeMoves
 <2>3. QED BY <2>1, <2>2 DEF MoneyMoves, MInv, PaidHasMoney
<1>4. TradeHasRow' BY DEF TradeHasRow, TradeMoves, MoneyMoves, MInv
<1>5. QED BY <1>1, <1>2, <1>3, <1>4 DEF MInv

\* Writing one payment row, with the order rows kept.
LEMMA PayMoney ==
    ASSUME RowsTypeOK, NEW o \in Orders, NEW s \in PaymentStatuses \ {"none"},
           NEW payload \in BOOLEAN, NEW next \in BOOLEAN, SetPay(o, s, payload, next),
           order' = order, s = "succeeded" => pay[o].status = "succeeded"
    PROVE  \A x \in Orders : MoneyMoves(x)
<1>1. /\ pay'[o].status = s
      /\ \A x \in Orders : x # o => pay'[x] = pay[x]
 BY SetPayFacts
<1>2. QED BY <1>1 DEF MoneyMoves, Money

\* Writing both rows of one order.
LEMMA BothMoney ==
    ASSUME RowsTypeOK, NEW o \in Orders, NEW s \in PaymentStatuses,
           pay[o].status # "none" => s # "none",
           NEW payload \in BOOLEAN, NEW next \in BOOLEAN, SetPay(o, s, payload, next),
           NEW os \in OrderStatuses, NEW ps \in PayStatuses, SetOrder(o, os, ps),
           \/ Money(o) \/ trade[o] = "SUCCESS"
           \/ MockEnabled /\ trade[o] = "none" /\ pay[o].status = "none"
           \/ s # "succeeded" /\ ps # "succeeded"
    PROVE  \A x \in Orders : MoneyMoves(x)
<1>1. /\ pay'[o].status = s
      /\ \A x \in Orders : x # o => pay'[x] = pay[x]
 BY SetPayFacts
<1>2. /\ order'[o].payStatus = ps
      /\ \A x \in Orders : x # o => order'[x] = order[x]
 BY SetOrderFacts
<1>3. QED BY <1>1, <1>2 DEF MoneyMoves, Money

\* A report moves money only when it is a genuine success.
LEMMA ApplyMoney ==
    ASSUME RowsTypeOK, NEW o \in Orders, NEW report \in Reports,
           ApplyProviderPaymentState(o, report),
           report.status = "SUCCESS" /\ report.genuine => trade[o] = "SUCCESS"
    PROVE  \A x \in Orders : MoneyMoves(x)
<1>0. /\ pay[o].status \in PaymentStatuses \ {"none"} /\ pay[o].payload \in BOOLEAN
      /\ order[o].payStatus \in PayStatuses
 BY DEF RowsTypeOK, ApplyProviderPaymentState
<1>1. CASE UNCHANGED rows
 BY <1>1 DEF rows, MoneyMoves, Money
<1>2. CASE MarkPaymentException(o)
 BY <1>0, <1>2, BothMoney DEF MarkPaymentException, Money
<1>3. CASE trade[o] = "SUCCESS" /\ ApplyPaymentSuccess(o)
 BY <1>3, BothMoney, <1>0 DEF ApplyPaymentSuccess
<1>4. CASE trade[o] = "SUCCESS" /\ ApplyLateSuccess(o)
 BY <1>4, BothMoney, <1>0 DEF ApplyLateSuccess
<1>5. CASE /\ SetPay(o, pay[o].status, pay[o].payload, TRUE) /\ UNCHANGED <<order, stock, outbox>>
 BY <1>0, <1>5, PayMoney
<1>6. CASE /\ SetPay(o, IF report.status = "CLOSED" THEN "closed" ELSE "failed",
                     pay[o].payload, FALSE)
           /\ UNCHANGED <<order, stock, outbox>>
 BY <1>0, <1>6, PayMoney
<1>7. QED BY <1>1, <1>2, <1>3, <1>4, <1>5, <1>6 DEF ApplyProviderPaymentState

\* A report stays true as long as paid trades stay paid and no task gets another.
LEMMA ReportKept ==
    ASSUME MInv, \A o \in Orders : trade[o] = "SUCCESS" => trade'[o] = "SUCCESS",
           \A t \in Tasks : task'[t] = task[t] \/ task'[t].step # "apply"
    PROVE  ReportTrue'
<1>1. \A t \in Tasks : task[t].step = "apply" => task[t].order \in Orders BY BusyFacts DEF MInv
<1>2. QED BY <1>1 DEF MInv, ReportTrue

\* Steps of orders, of the customer and of the provider.
LEMMA OrderMoney ==
    ASSUME MInv, IInv', FlowTypes', NEW o \in Orders,
           OrderCommand(o) \/ BeginPaying(o) \/ EndPaying(o) \/ ProcessPaymentCallback(o)
           \/ MismatchCallback(o) \/ Clock(o)
    PROVE  MInv'
<1>0. cpc' = cpc /\ task' = task
 BY DEF OrderCommand, BeginPaying, EndPaying, ProcessPaymentCallback, MismatchCallback, Clock, flow
<1>1. \A c \in Creates : CreateMoves(c) BY <1>0 DEF CreateMoves
<1>2. RowsTypeOK BY DEF MInv, IInv
<1>3. CASE trade' = trade /\ \A x \in Orders : MoneyMoves(x)
 <2>1. \A x \in Orders : TradeMoves(x) BY <1>3 DEF TradeMoves
 <2>2. ReportTrue' BY <1>0, <1>3, ReportKept
 <2>3. QED BY <1>1, <1>3, <2>1, <2>2, Moves
<1>4. CASE BeginPaying(o) \/ EndPaying(o)
 <2>1. \A x \in Orders : MoneyMoves(x) BY <1>4 DEF BeginPaying, EndPaying, rows, MoneyMoves, Money
 <2>2. \A x \in Orders : Money(x)' => Money(x) BY <1>4 DEF BeginPaying, EndPaying, rows, Money
 <2>3. ~Money(o) BY <1>4 DEF BeginPaying, EndPaying, MInv, PaidHasMoney
 <2>4. \A x \in Orders : TradeMoves(x)
  BY <1>4, <2>2, <2>3 DEF BeginPaying, EndPaying, TradeMoves, MInv, FlowTypes
 <2>5. ReportTrue' BY <1>0, <2>4, ReportKept DEF TradeMoves
 <2>6. QED BY <1>1, <2>1, <2>4, <2>5, Moves
<1>5. CASE ProcessPaymentCallback(o)
 <2>1. [status |-> "SUCCESS", genuine |-> TRUE] \in Reports BY DEF Reports, ProviderStatuses
 <2>2. \A x \in Orders : MoneyMoves(x) BY <1>2, <1>5, <2>1, ApplyMoney DEF ProcessPaymentCallback
 <2>3. QED BY <1>3, <1>5, <2>2 DEF ProcessPaymentCallback
<1>6. CASE MismatchCallback(o)
 <2>1. [status |-> "SUCCESS", genuine |-> FALSE] \in Reports BY DEF Reports, ProviderStatuses
 <2>2. \A x \in Orders : MoneyMoves(x) BY <1>2, <1>6, <2>1, ApplyMoney DEF MismatchCallback
 <2>3. QED BY <1>3, <1>6, <2>2 DEF MismatchCallback, flow
<1>7. CASE Clock(o)
 BY <1>3, <1>7 DEF Clock, PaymentWindowCloses, flow, MoneyMoves, Money
<1>8. CASE OrderCommand(o)
 <2>0. /\ pay[o].status \in PaymentStatuses /\ pay[o].payload \in BOOLEAN
       /\ pay[o].next \in BOOLEAN /\ trade[o] \in Trades
  BY <1>2 DEF RowsTypeOK, MInv, FlowTypes
 <2>1. CASE Create(o)
  <3>1. /\ order'[o].payStatus = "pending"
        /\ \A x \in Orders : x # o => order'[x] = order[x]
   BY <1>2, <2>1, SetOrderFacts DEF Create
  <3>2. \A x \in Orders : MoneyMoves(x) BY <2>1, <3>1 DEF Create, MoneyMoves, Money
  <3>3. QED BY <1>3, <1>8, <3>2 DEF OrderCommand, flow
 <2>2. CASE CancelPendingOrder(o)
  <3>1. pay[o].status # "succeeded" BY <2>2 DEF CancelPendingOrder, MInv, IInv, MoneyHasOutcome, HasOutcome
  <3>2. \A x \in Orders : MoneyMoves(x) BY <1>2, <2>0, <2>2, <3>1, BothMoney DEF CancelPendingOrder
  <3>3. QED BY <1>3, <1>8, <3>2 DEF OrderCommand, flow
 <2>3. CASE CancelPaidOrder(o)
  <3>1. /\ order'[o].payStatus = "succeeded"
        /\ \A x \in Orders : x # o => order'[x] = order[x]
   BY <1>2, <2>3, SetOrderFacts DEF CancelPaidOrder
  <3>2. \A x \in Orders : MoneyMoves(x) BY <2>3, <3>1 DEF CancelPaidOrder, MoneyMoves, Money
  <3>3. QED BY <1>3, <1>8, <3>2 DEF OrderCommand, flow
 <2>4. CASE MockPay(o)
  <3>1. trade[o] = "none" BY <2>4 DEF MockPay, MInv, TradeHasRow
  <3>2. \A x \in Orders : MoneyMoves(x) BY <1>2, <2>4, <3>1, BothMoney DEF MockPay
  <3>3. QED BY <1>3, <1>8, <3>2 DEF OrderCommand, flow
 <2>5. QED BY <1>8, <2>1, <2>2, <2>3, <2>4 DEF OrderCommand
<1>9. QED BY <1>4, <1>5, <1>6, <1>7, <1>8

\* Steps of CreatePayment requests.
LEMMA CreateMoney ==
    ASSUME MInv, IInv', FlowTypes', NEW c \in Creates, CreateStep(c) \/ CreateDies(c)
    PROVE  MInv'
<1> USE DEF InFlight, CreateEnds
<1> DEFINE o == OrderOf[c]
<1>1. RowsTypeOK /\ FlowTypes BY DEF MInv, IInv
<1>0. o \in Orders /\ task' = task
 <2>1. o \in Orders BY <1>1, CreateFacts
 <2>2. task' = task
  BY DEF CreateStep, CreateDies, ReplayPayment, BeginCreate, ProviderCreate, FailCreate,
         FinishCreate, Compensate
 <2>3. QED BY <2>1, <2>2
<1>2. /\ pay[o].status \in PaymentStatuses /\ pay[o].payload \in BOOLEAN /\ pay[o].next \in BOOLEAN
 BY <1>0, <1>1 DEF RowsTypeOK
<1>3. CASE /\ trade' = trade /\ \A x \in Orders : MoneyMoves(x)
           /\ \A d \in Creates : CreateMoves(d)
 <2>1. \A x \in Orders : TradeMoves(x) BY <1>3 DEF TradeMoves
 <2>2. ReportTrue' BY <1>0, <1>3, ReportKept
 <2>3. QED BY <1>3, <2>1, <2>2, Moves
<1>4. CASE BeginCreate(c)
 <2>1. /\ pay'[o].status = "creating"
       /\ \A x \in Orders : x # o => pay'[x] = pay[x]
  BY <1>0, <1>1, <1>2, <1>4, SetPayFacts DEF BeginCreate, OpenPayment
 <2>2. order' = order BY <1>4 DEF BeginCreate, OpenPayment
 <2>3. \A x \in Orders : MoneyMoves(x) BY <1>0, <2>1, <2>2 DEF MoneyMoves, Money
 <2>4. ~Money(o)' BY <1>0, <1>4, <2>1, <2>2 DEF BeginCreate, OpenPayment, Payable, Money
 <2>5. \A d \in Creates : CreateMoves(d) BY <1>1, <1>4, <2>1, <2>4, CreateFacts DEF BeginCreate, CreateMoves
 <2>6. QED BY <1>3, <1>4, <2>3, <2>5 DEF BeginCreate
<1>5. CASE FailCreate(c)
 <2>1. \A d \in Creates : CreateMoves(d) BY <1>1, <1>5, CreateFacts DEF FailCreate, CreateMoves
 <2>2. \A x \in Orders : MoneyMoves(x)
  <3>1. CASE RefusePayment(o, cpc[c] = "errRetry")
   BY <1>0, <1>1, <1>2, <3>1, PayMoney DEF RefusePayment
  <3>2. CASE UNCHANGED rows
   BY <3>2 DEF rows, MoneyMoves, Money
  <3>3. QED BY <1>5, <3>1, <3>2 DEF FailCreate
 <2>3. QED BY <1>3, <1>5, <2>1, <2>2 DEF FailCreate
<1>6. CASE FinishCreate(c)
 <2>1. \A d \in Creates : CreateMoves(d) BY <1>1, <1>6, CreateFacts DEF FinishCreate, CreateMoves
 <2>2. \A x \in Orders : MoneyMoves(x)
  <3>1. CASE ReadyPayment(o)
   BY <1>0, <1>1, <1>2, <3>1, PayMoney DEF ReadyPayment
  <3>2. CASE UNCHANGED rows
   BY <3>2 DEF rows, MoneyMoves, Money
  <3>3. QED BY <1>6, <3>1, <3>2 DEF FinishCreate
 <2>3. QED BY <1>3, <1>6, <2>1, <2>2 DEF FinishCreate
<1>7. CASE ProviderCreate(c) \/ Compensate(c)
 <2>1. \A d \in Creates : CreateMoves(d)
  BY <1>1, <1>7, CreateFacts DEF ProviderCreate, Compensate, CreateMoves
 <2>2. (\A x \in Orders : MoneyMoves(x)) /\ (\A x \in Orders : Money(x)' => Money(x))
  BY <1>7 DEF ProviderCreate, Compensate, rows, MoneyMoves, Money
 <2>3. cpc[c] \in InFlight BY <1>7 DEF ProviderCreate, Compensate
 <2>4. pay[o].status # "none" /\ ~(Money(o) /\ trade[o] = "none")
  BY <2>3 DEF MInv, OpenedBeforeCall, MockQuiet
 <2>5. Money(o) => trade[o] = "SUCCESS" BY <1>0, <2>4 DEF MInv, PaidHasMoney
 <2>6. \A x \in Orders : TradeMoves(x)
  <3>1. CASE ProviderCreate(c)
   BY <1>0, <1>1, <2>2, <2>4, <2>5, <3>1 DEF ProviderCreate, TradeMoves, FlowTypes, Live
  <3>2. CASE Compensate(c)
   <4>1. TradeStep(o) /\ (trade[o] = "none" => trade'[o] = "none")
    BY <1>0, <1>1, <3>2, CloseFacts DEF Compensate
   <4>2. trade'[o] = "none" => trade[o] = "none"
    BY <1>0, <1>1, <3>2 DEF Compensate, CloseAnswers, CloseFails, Closed, FlowTypes, Live
   <4>3. QED BY <2>2, <2>4, <2>5, <4>1, <4>2 DEF TradeStep, TradeMoves
  <3>3. QED BY <1>7, <3>1, <3>2
 <2>7. ReportTrue' BY <1>0, <2>6, ReportKept DEF TradeMoves
 <2>8. QED BY <2>1, <2>2, <2>6, <2>7, Moves
<1>8. CASE ReplayPayment(c) \/ CreateDies(c)
 <2>1. \A d \in Creates : CreateMoves(d)
  BY <1>1, <1>8, CreateFacts DEF ReplayPayment, CreateDies, CreateMoves
 <2>2. \A x \in Orders : MoneyMoves(x) BY <1>8 DEF ReplayPayment, CreateDies, rows, MoneyMoves, Money
 <2>3. QED BY <1>3, <1>8, <2>1, <2>2 DEF ReplayPayment, CreateDies
<1>9. QED BY <1>4, <1>5, <1>6, <1>7, <1>8 DEF CreateStep

\* Steps of tasks.
LEMMA TaskMoney ==
    ASSUME MInv, IInv', FlowTypes', NEW t \in Tasks,
           TaskStep(t) \/ CloseTradeFails(t) \/ QueryFails(t) \/ TaskDies(t)
    PROVE  MInv'
<1> USE DEF Steps
<1>1. RowsTypeOK /\ FlowTypes BY DEF MInv, IInv
<1>2. \A c \in Creates : CreateMoves(c)
 BY DEF CreateMoves, TaskStep, CloseTradeFails, QueryFails, TaskDies, QueryAnswers, QueryNotExist,
        Apply, CloseTrade, CancelLocal
<1>3. CASE /\ trade' = trade /\ \A x \in Orders : MoneyMoves(x)
           /\ \A u \in Tasks : task'[u] = task[u] \/ task'[u].step # "apply"
 <2>1. \A x \in Orders : TradeMoves(x) BY <1>3 DEF TradeMoves
 <2>2. ReportTrue' BY <1>3, ReportKept
 <2>3. QED BY <1>2, <1>3, <2>1, <2>2, Moves
<1>4. CASE QueryAnswers(t)
 <2>1. task[t].role \in Roles /\ task[t].order \in Orders BY <1>1, <1>4, BusyFacts DEF QueryAnswers
 <2>2. PICK genuine \in {TRUE, task[t].order \notin Suspect} :
          At(t, "apply", task[t].role, task[t].order,
             [status |-> trade[task[t].order], genuine |-> genuine])
  BY <1>4 DEF QueryAnswers
 <2>3. [status |-> trade[task[t].order], genuine |-> genuine] \in Reports
  BY <1>1, <1>4, <2>1 DEF QueryAnswers, Reports, FlowTypes, Trades
 <2>4. /\ task'[t].order = task[t].order
       /\ task'[t].report = [status |-> trade[task[t].order], genuine |-> genuine]
       /\ \A u \in Tasks : u # t => task'[u] = task[u]
  BY <1>1, <2>1, <2>2, <2>3, AtFacts
 <2>5. trade' = trade /\ UNCHANGED rows BY <1>4 DEF QueryAnswers
 <2>6. ReportTrue' BY <2>4, <2>5 DEF ReportTrue, MInv
 <2>7. \A x \in Orders : MoneyMoves(x) /\ TradeMoves(x) BY <2>5 DEF rows, MoneyMoves, TradeMoves, Money
 <2>8. QED BY <1>2, <2>6, <2>7, Moves
<1>5. CASE QueryNotExist(t)
 <2>1. \A u \in Tasks : task'[u] = task[u] \/ task'[u].step # "apply"
  BY <1>1, <1>5, StepFacts DEF QueryNotExist
 <2>2. QED BY <1>3, <1>5, <2>1 DEF QueryNotExist, rows, MoneyMoves, Money
<1>6. CASE Apply(t)
 <2>1. task[t].order \in Orders /\ task[t].report \in Reports BY <1>1, <1>6, BusyFacts DEF Apply
 <2>2. \A u \in Tasks : task'[u] = task[u] \/ task'[u].step # "apply"
  BY <1>1, <1>6, StepFacts, FinishFacts DEF Apply, AfterApply
 <2>3. task[t].report.status = "SUCCESS" /\ task[t].report.genuine =>
          trade[task[t].order] = "SUCCESS"
  <3>1. SUFFICES ASSUME task[t].report.status = "SUCCESS", task[t].report.genuine
                 PROVE  trade[task[t].order] = "SUCCESS"
   OBVIOUS
  <3>2. task[t].report = [status |-> "SUCCESS", genuine |-> TRUE] BY <2>1, <3>1 DEF Reports
  <3>3. QED BY <1>6, <3>2 DEF Apply, MInv, ReportTrue
 <2>4. \A x \in Orders : MoneyMoves(x) BY <1>1, <1>6, <2>1, <2>3, ApplyMoney DEF Apply
 <2>5. QED BY <1>3, <1>6, <2>2, <2>4 DEF Apply
<1>7. CASE CloseTrade(t) \/ CloseTradeFails(t)
 <2>1. task[t].order \in Orders BY <1>1, <1>7, BusyFacts DEF CloseTrade, CloseTradeFails
 <2>2. \A u \in Tasks : task'[u] = task[u] \/ task'[u].step # "apply"
  BY <1>1, <1>7, StepFacts, FinishFacts DEF CloseTrade, CloseTradeFails
 <2>3. TradeStep(task[t].order)
       /\ (trade[task[t].order] = "none" => trade'[task[t].order] = "none")
  BY <1>1, <1>7, <2>1, CloseFacts DEF CloseTrade, CloseTradeFails
 <2>4. trade'[task[t].order] = "none" => trade[task[t].order] = "none"
  BY <1>1, <1>7, <2>1 DEF CloseTrade, CloseTradeFails, CloseAnswers, CloseFails, Closed,
                         FlowTypes, Live
 <2>5. (\A x \in Orders : MoneyMoves(x)) /\ (\A x \in Orders : Money(x)' => Money(x))
  BY <1>7 DEF CloseTrade, CloseTradeFails, rows, MoneyMoves, Money
 <2>6. \A x \in Orders : TradeMoves(x)
  BY <2>1, <2>3, <2>4, <2>5 DEF TradeStep, TradeMoves, MInv, PaidHasMoney
 <2>7. ReportTrue' BY <2>2, <2>6, ReportKept DEF TradeMoves
 <2>8. QED BY <1>2, <2>5, <2>6, <2>7, Moves
<1>8. CASE CancelLocal(t)
 <2>1. task[t].order \in Orders BY <1>1, <1>8, BusyFacts DEF CancelLocal
 <2>2. \A u \in Tasks : task'[u] = task[u] \/ task'[u].step # "apply"
  BY <1>1, <1>8, FinishFacts DEF CancelLocal
 <2>3. \A x \in Orders : MoneyMoves(x)
  <3>1. CASE CancelPendingOrder(task[t].order)
   <4>1. /\ pay[task[t].order].status \in PaymentStatuses
         /\ pay[task[t].order].payload \in BOOLEAN /\ pay[task[t].order].next \in BOOLEAN
    BY <1>1, <2>1 DEF RowsTypeOK
   <4>2. pay[task[t].order].status # "succeeded"
    BY <2>1, <3>1 DEF CancelPendingOrder, MInv, IInv, MoneyHasOutcome, HasOutcome
   <4>3. QED BY <1>1, <2>1, <3>1, <4>1, <4>2, BothMoney DEF CancelPendingOrder
  <3>2. CASE UNCHANGED rows
   BY <3>2 DEF rows, MoneyMoves, Money
  <3>3. QED BY <1>8, <3>1, <3>2 DEF CancelLocal
 <2>4. QED BY <1>3, <1>8, <2>2, <2>3 DEF CancelLocal
<1>9. CASE QueryFails(t)
 <2>1. task[t].order \in Orders BY <1>1, <1>9, BusyFacts DEF QueryFails
 <2>2. \A u \in Tasks : task'[u] = task[u] \/ task'[u].step # "apply"
  BY <1>1, <1>9, FinishFacts DEF QueryFails
 <2>3. pay[task[t].order].status \in PaymentStatuses /\ pay[task[t].order].payload \in BOOLEAN
  BY <1>1, <2>1 DEF RowsTypeOK
 <2>4. \A x \in Orders : MoneyMoves(x)
  <3>1. CASE Reschedule(task[t].order)
   BY <1>1, <2>1, <2>3, <3>1, PayMoney DEF Reschedule
  <3>2. CASE UNCHANGED rows
   BY <3>2 DEF rows, MoneyMoves, Money
  <3>3. QED BY <1>9, <3>1, <3>2 DEF QueryFails
 <2>5. QED BY <1>3, <1>9, <2>2, <2>4 DEF QueryFails
<1>10. CASE TaskDies(t)
 <2>1. \A u \in Tasks : task'[u] = task[u] \/ task'[u].step # "apply"
  BY <1>1, <1>10, FinishFacts DEF TaskDies
 <2>2. QED BY <1>3, <1>10, <2>1 DEF TaskDies, rows, MoneyMoves, Money
<1>11. QED BY <1>4, <1>5, <1>6, <1>7, <1>8, <1>9, <1>10 DEF TaskStep

\* Every step keeps the money invariant.
LEMMA MoneyStep == MInv /\ [Next]_vars => MInv'
<1> SUFFICES ASSUME MInv, [Next]_vars PROVE MInv'
 OBVIOUS
<1>1. FlowTypes' /\ IInv' /\ FlowTypes /\ RowsTypeOK BY TypesStep, RowsStep, NextInv DEF MInv, IInv
<1>2. CASE UNCHANGED vars
 BY <1>1, <1>2 DEF vars, flow, rows, MInv, OpenedBeforeCall, TradeHasRow, ReportTrue, MockQuiet,
                   PaidHasMoney, Money
<1>3. ASSUME NEW t \in Tasks, NEW o \in Orders,
             StartConfirm(t, o) \/ StartReconcile(t, o) \/ StartExpire(t, o)
      PROVE  MInv'
 <2>1. NoReport \in Reports BY DEF NoReport, Reports, ProviderStatuses
 <2>2. \A u \in Tasks : task'[u] = task[u] \/ task'[u].step # "apply"
  BY <1>1, <1>3, <2>1, AtFacts DEF StartConfirm, StartReconcile, StartExpire, Start, Steps, Roles
 <2>3. trade' = trade /\ cpc' = cpc BY <1>3 DEF StartConfirm, StartReconcile, StartExpire
 <2>4. pay[o].status \in PaymentStatuses /\ pay[o].payload \in BOOLEAN BY <1>1 DEF RowsTypeOK
 <2>5. \A x \in Orders : MoneyMoves(x)
  <3>1. CASE Reschedule(o)
   BY <1>1, <2>4, <3>1, PayMoney DEF Reschedule
  <3>2. CASE UNCHANGED rows
   BY <3>2 DEF rows, MoneyMoves, Money
  <3>3. QED BY <1>3, <3>1, <3>2 DEF StartConfirm, StartReconcile, StartExpire
 <2>6. \A x \in Orders : TradeMoves(x) BY <2>3 DEF TradeMoves
 <2>7. \A c \in Creates : CreateMoves(c) BY <2>3 DEF CreateMoves
 <2>8. ReportTrue' BY <2>2, <2>3, ReportKept
 <2>9. QED BY <1>1, <2>5, <2>6, <2>7, <2>8, Moves
<1>4. QED BY <1>1, <1>2, <1>3, OrderMoney, CreateMoney, TaskMoney DEF Next

\* The money invariant holds at the start.
LEMMA MoneyInit == Init => MInv
<1> SUFFICES ASSUME Init PROVE MInv
 OBVIOUS
<1>1. IInv /\ FlowTypes BY InitFlow, InitInv
<1>2. OpenedBeforeCall /\ MockQuiet BY DEF Init, OpenedBeforeCall, MockQuiet, InFlight
<1>3. TradeHasRow BY DEF Init, TradeHasRow
<1>4. ReportTrue BY DEF Init, ReportTrue, Idle
<1>5. PaidHasMoney BY DEF Init, RowsInit, NoPayment, PaidHasMoney, Money
<1>6. QED BY <1>1, <1>2, <1>3, <1>4, <1>5 DEF MInv

\* However requests, notifications, workers, failures and crashes interleave, an
\* order's money is recorded only when the provider holds a paid trade for it.
THEOREM PaidHasMoneyAlways == Spec => []PaidHasMoney
<1>1. MInv => PaidHasMoney BY DEF MInv
<1>2. QED BY <1>1, MoneyInit, MoneyStep, PTL DEF Spec

----------------------------------------
(* Nobody is abandoned in the middle of paying, when the requests for an *)
(* order carry one Idempotency-Key.  A customer can pay only what he was *)
(* handed, and then the key is answered, so no request can mark his *)
(* payment as failed; as long as he may pay, the payment row is open, so *)
(* the expiry worker asks before it cancels; and nobody begins to pay once *)
(* the order has expired, so what the worker heard stays true. *)
Open == {"creating", "pending"}

HandedOut ==
    /\ \A o \in Orders : pay[o].payload => o \in payable
    /\ \A o \in payable : trade[o] # "none" /\ order[o].status # "none"
    /\ \A c \in Creates : /\ (cpc[c] \in InFlight => order[OrderOf[c]].status # "none")
                          /\ (cpc[c] = "accepted" => trade[OrderOf[c]] # "none")
                          /\ (OrderOf[c] \in payable => KeyOf[c] \in answered)
    /\ \A o \in Orders : trade[o] = "USERPAYING" => o \in payable
    /\ \A o \in payable : trade[o] \in Live /\ order[o].status = "pending_payment" => pay[o].status \in Open

\* What a task knows of the trade.
Knows(t) ==
    LET o == task[t].order
        report == task[t].report
    IN  task[t].step # "idle" =>
           /\ (task[t].role = "expire" => o \in Expired)
           /\ (task[t].step = "apply" /\ report.genuine /\ report.status \in {"CLOSED", "PAYERROR"} =>
                  trade[o] = report.status)
           /\ (task[t].step = "apply" /\ task[t].role = "expire" /\ report.genuine
                  /\ report.status # "USERPAYING" => trade[o] # "USERPAYING")
           /\ (task[t].step \in {"close", "cancel"} => task[t].role = "expire" /\ trade[o] # "USERPAYING")

PInv ==
    /\ HandedOut /\ \A t \in Tasks : Knows(t)
    /\ \A o \in timedOut : o \in Expired /\ trade[o] # "USERPAYING"

\* What a step may do to the rows of o while a customer could be paying.
RowStays(o) ==
    /\ pay'[o].payload => pay[o].payload \/ o \in payable'
    /\ order[o].status # "none" => order'[o].status # "none"
    /\ order'[o].status = "pending_payment" => order[o].status \in {"none", "pending_payment"}
    /\ order'[o].status = "pending_payment" /\ pay[o].status \in Open /\ o \in payable /\ trade[o] \in Live =>
          pay'[o].status \in Open

\* ... and to its trade.
TradeStays(o) ==
    /\ trade'[o] = "none" => trade[o] = "none"
    /\ trade'[o] = "USERPAYING" => trade[o] = "USERPAYING" \/ (o \in payable /\ o \notin Expired)
    /\ trade'[o] \in Live => trade[o] \in Live \cup {"none"}
    /\ trade[o] \in {"CLOSED", "PAYERROR"} => trade'[o] = trade[o]

LEMMA PInvMoves ==
    ASSUME PInv, MInv, \A o \in Orders : RowStays(o) /\ TradeStays(o), Expired \subseteq Expired',
           payable \subseteq payable', payable' \subseteq Orders, answered \subseteq answered',
           \A o \in payable' : \/ o \in payable
                               \/ /\ trade'[o] # "none" /\ order'[o].status # "none" /\ pay'[o].status \in Open
                                  /\ \A c \in Creates : OrderOf[c] = o => KeyOf[c] \in answered',
           \A c \in Creates : /\ (cpc'[c] \in InFlight => cpc[c] \in InFlight \/ order'[OrderOf[c]].status # "none")
                              /\ (cpc'[c] = "accepted" => cpc[c] = "accepted" \/ trade'[OrderOf[c]] # "none"),
           \A t \in Tasks : task'[t] = task[t] \/ Knows(t)',
           \A o \in timedOut' : o \in timedOut \/ (o \in Expired' /\ trade'[o] # "USERPAYING")
    PROVE  PInv'
<1>0. /\ \A c \in Creates : OrderOf[c] \in Orders
      /\ payable \subseteq Orders /\ timedOut \subseteq Orders
 BY FlowAssumption DEF MInv, FlowTypes
<1>1. HandedOut'
 <2>1. \A o \in Orders : pay'[o].payload => o \in payable' BY DEF PInv, HandedOut, RowStays
 <2>2. \A o \in payable' : trade'[o] # "none" /\ order'[o].status # "none"
  BY <1>0 DEF PInv, HandedOut, RowStays, TradeStays
 <2>3. \A c \in Creates : /\ (cpc'[c] \in InFlight => order'[OrderOf[c]].status # "none")
                          /\ (cpc'[c] = "accepted" => trade'[OrderOf[c]] # "none")
  BY <1>0 DEF PInv, HandedOut, RowStays, TradeStays
 <2>4. \A c \in Creates : OrderOf[c] \in payable' => KeyOf[c] \in answered' BY <1>0 DEF PInv, HandedOut
 <2>5. \A o \in Orders : trade'[o] = "USERPAYING" => o \in payable' BY DEF PInv, HandedOut, TradeStays
 <2>6. \A o \in payable' : trade'[o] \in Live /\ order'[o].status = "pending_payment" => pay'[o].status \in Open
  <3> SUFFICES ASSUME NEW o \in payable', o \in payable, trade'[o] \in Live, order'[o].status = "pending_payment"
               PROVE  pay'[o].status \in Open
   OBVIOUS
  <3>1. trade[o] \in Live /\ order[o].status = "pending_payment"
   BY <1>0 DEF PInv, HandedOut, RowStays, TradeStays
  <3> QED BY <1>0, <3>1 DEF PInv, HandedOut, RowStays
 <2> QED BY <2>1, <2>2, <2>3, <2>4, <2>5, <2>6 DEF HandedOut
<1>2. ASSUME NEW t \in Tasks PROVE Knows(t)'
 <2> SUFFICES ASSUME task'[t] = task[t], task[t].step # "idle" PROVE Knows(t)'
  BY DEF Knows
 <2>1. task[t].order \in Orders /\ task[t].report \in Reports BY BusyFacts DEF MInv
 <2>2. TradeStays(task[t].order) /\ Knows(t) BY <2>1 DEF PInv
 <2> QED BY <2>1, <2>2 DEF Knows, TradeStays
<1>3. \A o \in timedOut' : o \in Expired' /\ trade'[o] # "USERPAYING" BY <1>0 DEF PInv, TradeStays
<1> QED BY <1>1, <1>2, <1>3 DEF PInv

\* Writing one payment row while the orders stay.
LEMMA PayStays ==
    ASSUME RowsTypeOK, NEW o \in Orders, NEW s \in PaymentStatuses, NEW payload \in BOOLEAN, NEW next \in BOOLEAN,
           SetPay(o, s, payload, next), order' = order,
           payload => pay[o].payload \/ o \in payable',
           s \in Open \/ s = pay[o].status \/ o \notin payable \/ trade[o] \notin Live
    PROVE  \A x \in Orders : RowStays(x)
<1>1. /\ pay'[o].status = s /\ pay'[o].payload = payload
      /\ \A x \in Orders : x # o => pay'[x] = pay[x]
 BY DEF SetPay, RowsTypeOK
<1> QED BY <1>1 DEF RowStays

\* Writing both rows of an order that leaves pending_payment.
LEMMA LeavesPending ==
    ASSUME RowsTypeOK, NEW o \in Orders, NEW s \in PaymentStatuses, NEW next \in BOOLEAN, NEW os \in OrderStatuses,
           NEW ps \in PayStatuses, NEW payload \in BOOLEAN, SetPay(o, s, payload, next), payload => pay[o].payload,
           SetOrder(o, os, ps), os \notin {"none", "pending_payment"}
    PROVE  \A x \in Orders : RowStays(x)
<1>1. /\ pay'[o].payload = payload
      /\ \A x \in Orders : x # o => pay'[x] = pay[x]
 BY DEF SetPay, RowsTypeOK
<1>2. /\ order'[o].status = os
      /\ \A x \in Orders : x # o => order'[x] = order[x]
 BY SetOrderFacts
<1> QED BY <1>1, <1>2 DEF RowStays

LEMMA RowsRest == ASSUME UNCHANGED rows PROVE (\A x \in Orders : RowStays(x)) /\ Expired \subseteq Expired'
BY DEF rows, RowStays, Expired

LEMMA TradesRest == ASSUME UNCHANGED trade PROVE \A x \in Orders : TradeStays(x)
BY DEF TradeStays

\* A report that closes the payment is a report of a closed trade.
LEMMA ApplyStays ==
    ASSUME RowsTypeOK, NEW o \in Orders, NEW report \in Reports, ApplyProviderPaymentState(o, report),
           report.genuine /\ report.status \in {"CLOSED", "PAYERROR"} => trade[o] = report.status
    PROVE  (\A x \in Orders : RowStays(x)) /\ Expired \subseteq Expired'
<1>0. /\ pay[o].status \in PaymentStatuses /\ pay[o].payload \in BOOLEAN /\ order[o].payStatus \in PayStatuses
      /\ Expired \subseteq Expired'
 BY DEF RowsTypeOK, ApplyProviderPaymentState, Expired
<1>1. CASE UNCHANGED rows
 BY <1>1, RowsRest
<1>2. CASE MarkPaymentException(o)
 BY <1>0, <1>2, LeavesPending DEF MarkPaymentException
<1>3. CASE ApplyPaymentSuccess(o)
 BY <1>0, <1>3, LeavesPending DEF ApplyPaymentSuccess
<1>4. CASE ApplyLateSuccess(o)
 BY <1>0, <1>4, LeavesPending DEF ApplyLateSuccess
<1>5. CASE /\ SetPay(o, pay[o].status, pay[o].payload, TRUE) /\ UNCHANGED <<order, stock, outbox>>
 BY <1>0, <1>5, PayStays
<1>6. CASE /\ report.genuine /\ report.status \in {"CLOSED", "PAYERROR"}
           /\ SetPay(o, IF report.status = "CLOSED" THEN "closed" ELSE "failed", pay[o].payload, FALSE)
           /\ UNCHANGED <<order, stock, outbox>>
 <2>1. trade[o] \notin Live BY <1>6 DEF Live
 <2> QED BY <1>0, <1>6, <2>1, PayStays
<1> QED BY <1>1, <1>2, <1>3, <1>4, <1>5, <1>6 DEF ApplyProviderPaymentState

\* A step that hands nothing out and starts, moves and times out nothing.
LEMMA FlowRests ==
    ASSUME PInv, MInv, \A o \in Orders : RowStays(o) /\ TradeStays(o), Expired \subseteq Expired',
           UNCHANGED <<payable, answered, cpc, task, timedOut>>
    PROVE  PInv'
<1>1. payable \subseteq Orders BY DEF MInv, FlowTypes
<1> QED BY <1>1, PInvMoves

\* Steps of orders, of the customer and of the provider.
LEMMA OrderPays ==
    ASSUME PInv, MInv, NEW o \in Orders,
           OrderCommand(o) \/ BeginPaying(o) \/ EndPaying(o) \/ ProcessPaymentCallback(o)
           \/ MismatchCallback(o) \/ Clock(o)
    PROVE  PInv'
<1>0. UNCHANGED <<payable, answered, cpc, task, timedOut>>
 BY DEF OrderCommand, BeginPaying, EndPaying, ProcessPaymentCallback, MismatchCallback, Clock, flow
<1>1. /\ RowsTypeOK /\ pay[o].status \in PaymentStatuses /\ pay[o].payload \in BOOLEAN /\ pay[o].next \in BOOLEAN
      /\ trade \in [Orders -> Trades]
 BY DEF MInv, IInv, RowsTypeOK, FlowTypes
<1>2. CASE BeginPaying(o) \/ EndPaying(o)
 <2>1. \A x \in Orders : TradeStays(x) BY <1>1, <1>2 DEF BeginPaying, EndPaying, TradeStays, Live
 <2> QED BY <1>0, <1>2, <2>1, RowsRest, FlowRests DEF BeginPaying, EndPaying
<1>3. CASE (\A x \in Orders : RowStays(x)) /\ Expired \subseteq Expired' /\ UNCHANGED trade
 BY <1>0, <1>3, TradesRest, FlowRests
<1>4. CASE ProcessPaymentCallback(o)
 <2>1. [status |-> "SUCCESS", genuine |-> TRUE] \in Reports BY DEF Reports, ProviderStatuses
 <2> QED BY <1>1, <1>3, <1>4, <2>1, ApplyStays DEF ProcessPaymentCallback
<1>5. CASE MismatchCallback(o)
 <2>1. [status |-> "SUCCESS", genuine |-> FALSE] \in Reports BY DEF Reports, ProviderStatuses
 <2> QED BY <1>1, <1>3, <1>5, <2>1, ApplyStays DEF MismatchCallback, flow
<1>6. CASE Clock(o)
 <2>1. Expired \subseteq Expired'
  <3>1. expired' = Append(expired, o) /\ expired \in Seq(Orders)
   BY <1>1, <1>6 DEF Clock, PaymentWindowCloses, RowsTypeOK
  <3>2. \A i \in DOMAIN expired : i \in DOMAIN expired' /\ expired'[i] = expired[i] BY <3>1
  <3> QED BY <3>2 DEF Expired
 <2> QED BY <1>3, <1>6, <2>1 DEF Clock, PaymentWindowCloses, flow, RowStays
<1>7. CASE OrderCommand(o)
 <2>1. Expired \subseteq Expired' /\ UNCHANGED trade
  BY <1>7 DEF OrderCommand, Create, CancelPendingOrder, CancelPaidOrder, MockPay, Expired, flow
 <2>2. CASE Create(o)
  <3>1. /\ order[o].status = "none" /\ order'[o].status = "pending_payment" /\ pay' = pay
        /\ \A x \in Orders : x # o => order'[x] = order[x]
   BY <1>1, <2>2, SetOrderFacts DEF Create
  <3> QED BY <1>3, <2>1, <3>1 DEF RowStays
 <2>3. CASE CancelPendingOrder(o)
  BY <1>1, <1>3, <2>1, <2>3, LeavesPending DEF CancelPendingOrder
 <2>4. CASE CancelPaidOrder(o)
  <3>1. /\ order'[o].status = "refunding" /\ pay' = pay
        /\ \A x \in Orders : x # o => order'[x] = order[x]
   BY <1>1, <2>4, SetOrderFacts DEF CancelPaidOrder
  <3> QED BY <1>3, <2>1, <3>1 DEF RowStays
 <2>5. CASE MockPay(o)
  BY <1>1, <1>3, <2>1, <2>5, LeavesPending DEF MockPay
 <2> QED BY <1>7, <2>2, <2>3, <2>4, <2>5 DEF OrderCommand
<1> QED BY <1>2, <1>4, <1>5, <1>6, <1>7

\* The requests for an order carry one Idempotency-Key.
OneKey == \A c, d \in Creates : OrderOf[c] = OrderOf[d] => KeyOf[c] = KeyOf[d]

\* Steps of CreatePayment requests.
LEMMA CreatePays ==
    ASSUME OneKey, PInv, MInv, NEW c \in Creates, CreateStep(c) \/ CreateDies(c)
    PROVE  PInv'
<1> USE DEF InFlight, CreateEnds
<1> DEFINE o == OrderOf[c]
<1>1. RowsTypeOK /\ FlowTypes /\ payable \subseteq Orders BY DEF MInv, IInv, FlowTypes
<1>2. o \in Orders /\ UNCHANGED <<task, timedOut>> /\ Expired \subseteq Expired'
 <2>1. o \in Orders BY <1>1, CreateFacts
 <2>2. UNCHANGED <<task, timedOut>> /\ expired' = expired
  BY DEF CreateStep, CreateDies, ReplayPayment, BeginCreate, ProviderCreate, FailCreate,
         FinishCreate, Compensate, OpenPayment, RefusePayment, ReadyPayment, rows
 <2> QED BY <2>1, <2>2 DEF Expired
<1>3. pay[o].status \in PaymentStatuses /\ pay[o].payload \in BOOLEAN /\ pay[o].next \in BOOLEAN
 BY <1>1, <1>2 DEF RowsTypeOK
<1>4. CASE ReplayPayment(c)
 <2>1. o \in payable BY <1>2, <1>4 DEF ReplayPayment, HasPayload, PInv, HandedOut
 <2>2. payable' = payable /\ answered \subseteq answered' /\ UNCHANGED trade BY <1>4, <2>1 DEF ReplayPayment
 <2>3. \A d \in Creates : cpc'[d] = cpc[d] \/ cpc'[d] = "done" BY <1>1, <1>4, CreateFacts DEF ReplayPayment
 <2>4. \A x \in Orders : RowStays(x) /\ TradeStays(x) BY <1>4, <2>2, RowsRest, TradesRest DEF ReplayPayment
 <2> QED BY <1>1, <1>2, <2>2, <2>3, <2>4, PInvMoves
<1>5. CASE BeginCreate(c)
 <2>1. UNCHANGED <<payable, answered, trade, order>> /\ order[o].status # "none"
  BY <1>5 DEF BeginCreate, OpenPayment, Payable
 <2>2. \A d \in Creates : cpc'[d] = cpc[d] \/ (d = c /\ cpc'[d] = "calling")
  BY <1>1, <1>5, CreateFacts DEF BeginCreate
 <2>3. \A x \in Orders : RowStays(x)
  <3>1. SetPay(o, "creating", pay[o].payload, pay[o].next) BY <1>5 DEF BeginCreate, OpenPayment
  <3> QED BY <1>1, <1>2, <1>3, <2>1, <3>1, PayStays DEF Open
 <2> QED BY <1>1, <1>2, <2>1, <2>2, <2>3, TradesRest, PInvMoves
<1>6. CASE ProviderCreate(c)
 <2>1. UNCHANGED <<payable, answered, rows>> BY <1>6 DEF ProviderCreate
 <2>2. \A x \in Orders : TradeStays(x) BY <1>1, <1>2, <1>6 DEF ProviderCreate, TradeStays, Live, FlowTypes
 <2>3. /\ \A d \in Creates : d # c => cpc'[d] = cpc[d]
       /\ cpc'[c] = "accepted" => trade'[o] # "none"
       /\ cpc[c] \in InFlight
  <3>1. CASE GotoC(c, "accepted") /\ trade' = [trade EXCEPT ![o] = IF @ = "none" THEN "NOTPAY" ELSE @]
   <4>1. trade'[o] # "none" BY <1>1, <1>2, <3>1 DEF FlowTypes
   <4> QED BY <1>1, <1>6, <3>1, <4>1, CreateFacts DEF ProviderCreate
  <3>2. CASE GotoC(c, "errRetry") \/ GotoC(c, "errFinal")
   BY <1>1, <1>6, <3>2, CreateFacts DEF ProviderCreate
  <3> QED BY <1>6, <3>1, <3>2 DEF ProviderCreate
 <2> QED BY <1>1, <1>2, <2>1, <2>2, <2>3, RowsRest, PInvMoves
<1>7. CASE FailCreate(c)
 <2>1. UNCHANGED <<payable, answered, trade>> BY <1>7 DEF FailCreate
 <2>2. \A d \in Creates : cpc'[d] = cpc[d] \/ cpc'[d] \in {"done", "claimLost"}
  BY <1>1, <1>7, CreateFacts DEF FailCreate
 <2>3. \A x \in Orders : RowStays(x)
  <3>1. CASE Owner(c) /\ RefusePayment(o, cpc[c] = "errRetry")
   <4>1. o \notin payable BY <3>1 DEF Owner, PInv, HandedOut
   <4>2. PICK s \in {"creating", "failed"}, next \in BOOLEAN : SetPay(o, s, pay[o].payload, next)
    BY <3>1 DEF RefusePayment
   <4>3. order' = order BY <3>1 DEF RefusePayment
   <4> QED BY <1>1, <1>2, <1>3, <4>1, <4>2, <4>3, PayStays
  <3>2. CASE UNCHANGED rows
   BY <3>2, RowsRest
  <3> QED BY <1>7, <3>1, <3>2 DEF FailCreate
 <2> QED BY <1>1, <1>2, <2>1, <2>2, <2>3, TradesRest, PInvMoves
<1>8. CASE FinishCreate(c)
 <2>1. \A d \in Creates : cpc'[d] = cpc[d] \/ cpc'[d] \in {"done", "claimLost"} \/ (d = c /\ cpc'[d] = "compensating")
  BY <1>1, <1>8, CreateFacts DEF FinishCreate
 <2>2. UNCHANGED trade /\ cpc[c] \in InFlight /\ trade[o] # "none" /\ order[o].status # "none"
  BY <1>8 DEF FinishCreate, PInv, HandedOut
 <2>3. CASE /\ ReadyPayment(o) /\ answered' = answered \cup {KeyOf[c]} /\ payable' = payable \cup {o}
  <3>1. SetPay(o, "pending", TRUE, TRUE) /\ order' = order BY <2>3 DEF ReadyPayment
  <3>2. \A x \in Orders : RowStays(x) BY <1>1, <1>2, <2>3, <3>1, PayStays DEF Open
  <3>3. pay'[o].status \in Open BY <1>1, <1>2, <3>1, SetPayFacts DEF Open
  <3>4. \A d \in Creates : OrderOf[d] = o => KeyOf[d] \in answered' BY <2>3 DEF OneKey
  <3>5. payable' \subseteq Orders /\ payable \subseteq payable' /\ answered \subseteq answered'
   BY <1>1, <1>2, <2>3
  <3>6. \A x \in payable' : \/ x \in payable
                            \/ /\ trade'[x] # "none" /\ order'[x].status # "none" /\ pay'[x].status \in Open
                               /\ \A d \in Creates : OrderOf[d] = x => KeyOf[d] \in answered'
   BY <2>2, <2>3, <3>1, <3>3, <3>4
  <3> QED BY <1>1, <1>2, <2>1, <2>2, <3>2, <3>5, <3>6, TradesRest, PInvMoves
 <2>4. CASE UNCHANGED <<rows, answered, payable>>
  BY <1>1, <1>2, <2>1, <2>2, <2>4, RowsRest, TradesRest, PInvMoves
 <2> QED BY <1>8, <2>3, <2>4 DEF FinishCreate
<1>9. CASE Compensate(c)
 <2>1. \A x \in Orders : TradeStays(x)
  BY <1>1, <1>2, <1>9 DEF Compensate, CloseAnswers, CloseFails, Closed, FlowTypes, Live, TradeStays
 <2>2. UNCHANGED <<rows, payable, answered>> BY <1>9 DEF Compensate
 <2>3. \A d \in Creates : cpc'[d] = cpc[d] \/ cpc'[d] \in {"done", "uncompensated"}
  BY <1>1, <1>9, CreateFacts DEF Compensate
 <2> QED BY <1>1, <1>2, <2>1, <2>2, <2>3, RowsRest, PInvMoves
<1>10. CASE CreateDies(c)
 <2>1. UNCHANGED <<rows, payable, answered, trade>> BY <1>10 DEF CreateDies
 <2>2. \A d \in Creates : cpc'[d] = cpc[d] \/ cpc'[d] = "dead" BY <1>1, <1>10, CreateFacts DEF CreateDies
 <2> QED BY <1>1, <1>2, <2>1, <2>2, RowsRest, TradesRest, PInvMoves
<1> QED BY <1>4, <1>5, <1>6, <1>7, <1>8, <1>9, <1>10 DEF CreateStep

\* A step that hands nothing out.
LEMMA TaskRests ==
    ASSUME PInv, MInv, \A o \in Orders : RowStays(o) /\ TradeStays(o), Expired \subseteq Expired',
           UNCHANGED <<payable, answered, cpc>>, NEW t \in Tasks, \A u \in Tasks : u # t => task'[u] = task[u],
           Knows(t)',
           \A o \in timedOut' : o \in timedOut \/ (o \in Expired' /\ trade'[o] # "USERPAYING")
    PROVE  PInv'
<1>1. payable \subseteq Orders BY DEF MInv, FlowTypes
<1> QED BY <1>1, PInvMoves

\* Where At leaves a task.
LEMMA AtWhole ==
    ASSUME FlowTypes, NEW t \in Tasks, NEW step, NEW role, NEW o, NEW report, At(t, step, role, o, report)
    PROVE  /\ task'[t].step = step /\ task'[t].order = o /\ task'[t].report = report /\ task'[t].role = role
           /\ \A u \in Tasks : u # t => task'[u] = task[u]
BY DEF At, FlowTypes

\* Steps of tasks.
LEMMA TaskPays ==
    ASSUME PInv, MInv, NEW t \in Tasks, TaskStep(t) \/ CloseTradeFails(t) \/ QueryFails(t) \/ TaskDies(t)
    PROVE  PInv'
<1> DEFINE o == task[t].order
<1>1. RowsTypeOK /\ FlowTypes /\ UNCHANGED <<payable, answered, cpc>>
 <2>1. UNCHANGED <<payable, answered, cpc>>
  BY DEF TaskStep, CloseTradeFails, QueryFails, TaskDies, QueryAnswers, QueryNotExist, Apply, CloseTrade, CancelLocal
 <2> QED BY <2>1 DEF MInv, IInv
<1>2. Knows(t) BY DEF PInv
<1>3. Finish(t) => Knows(t)' /\ \A u \in Tasks : u # t => task'[u] = task[u] BY <1>1, FinishFacts DEF Knows
<1>4. task[t].step # "idle" => /\ o \in Orders /\ pay[o].status \in PaymentStatuses /\ pay[o].payload \in BOOLEAN
                               /\ pay[o].next \in BOOLEAN /\ task[t].report \in Reports
 BY <1>1, BusyFacts DEF RowsTypeOK
<1>5. CASE QueryAnswers(t)
 <2>1. /\ task[t].step # "idle" /\ UNCHANGED <<rows, trade, timedOut>> /\ trade[o] # "none"
       /\ task[t].role = "expire" => o \in Expired
  BY <1>2, <1>5 DEF QueryAnswers, Knows
 <2>2. PICK genuine : At(t, "apply", task[t].role, o, [status |-> trade[o], genuine |-> genuine])
  BY <1>5 DEF QueryAnswers
 <2>3. /\ task'[t].step = "apply" /\ task'[t].order = o /\ task'[t].report.status = trade[o]
       /\ task'[t].role = task[t].role /\ \A u \in Tasks : u # t => task'[u] = task[u]
  BY <1>1, <2>2, AtWhole
 <2>4. Expired' = Expired BY <2>1 DEF rows, Expired
 <2>5. Knows(t)' BY <2>1, <2>3, <2>4 DEF Knows
 <2> QED BY <1>1, <2>1, <2>3, <2>5, RowsRest, TradesRest, TaskRests
<1>6. CASE QueryNotExist(t)
 <2>1. /\ task[t].step # "idle" /\ UNCHANGED <<rows, trade, timedOut>> /\ trade[o] = "none"
       /\ task[t].role = "expire" /\ o \in Expired
  BY <1>2, <1>6 DEF QueryNotExist, Knows
 <2>2. /\ task'[t].step = "cancel" /\ task'[t].order = o
       /\ task'[t].role = task[t].role /\ \A u \in Tasks : u # t => task'[u] = task[u]
  BY <1>1, <1>6, AtWhole DEF QueryNotExist, Step
 <2>3. Expired' = Expired BY <2>1 DEF rows, Expired
 <2>4. Knows(t)' BY <2>1, <2>2, <2>3 DEF Knows
 <2> QED BY <1>1, <2>1, <2>2, <2>4, RowsRest, TradesRest, TaskRests
<1>7. CASE Apply(t)
 <2>1. task[t].step = "apply" /\ UNCHANGED <<trade, timedOut>> BY <1>7 DEF Apply
 <2>2. (\A x \in Orders : RowStays(x)) /\ Expired \subseteq Expired'
  <3>1. ApplyProviderPaymentState(o, task[t].report) BY <1>7 DEF Apply
  <3>2. task[t].report.genuine /\ task[t].report.status \in {"CLOSED", "PAYERROR"} => trade[o] = task[t].report.status
   BY <1>2, <2>1 DEF Knows
  <3>3. o \in Orders /\ task[t].report \in Reports BY <1>4, <2>1
  <3> HIDE DEF o
  <3> QED BY <1>1, <3>1, <3>2, <3>3, ApplyStays
 <2>3. Knows(t)' /\ \A u \in Tasks : u # t => task'[u] = task[u]
  <3>1. CASE Finish(t)
   BY <1>3, <3>1
  <3>2. CASE ~Finish(t)
   <4>1. PICK step \in {"close", "cancel"} : Step(t, step) BY <1>7, <3>2 DEF Apply, AfterApply
   <4>2. task[t].role = "expire" /\ task[t].report.genuine /\ task[t].report.status # "USERPAYING"
    BY <1>7, <3>2 DEF Apply, AfterApply
   <4>3. /\ task'[t].step = step /\ task'[t].order = o
         /\ task'[t].role = task[t].role /\ \A u \in Tasks : u # t => task'[u] = task[u]
    BY <1>1, <4>1, AtWhole DEF Step
   <4>4. o \in Expired' /\ trade'[o] # "USERPAYING" BY <1>2, <2>1, <2>2, <4>2 DEF Knows
   <4> QED BY <4>2, <4>3, <4>4 DEF Knows
  <3> QED BY <3>1, <3>2
 <2> QED BY <1>1, <2>1, <2>2, <2>3, TradesRest, TaskRests
<1>8. CASE CloseTrade(t) \/ CloseTradeFails(t)
 <2>1. /\ task[t].step = "close" /\ UNCHANGED <<rows, timedOut>> /\ task[t].role = "expire"
       /\ o \in Expired /\ trade[o] # "USERPAYING" /\ o \in Orders
  BY <1>2, <1>4, <1>8 DEF CloseTrade, CloseTradeFails, Knows
 <2>2. \A x \in Orders : TradeStays(x)
  BY <1>1, <1>8, <2>1 DEF CloseTrade, CloseTradeFails, CloseAnswers, CloseFails, Closed, FlowTypes, Live, TradeStays
 <2>3. Expired' = Expired BY <2>1 DEF rows, Expired
 <2>4. trade'[o] # "USERPAYING" BY <2>1, <2>2 DEF TradeStays
 <2>5. Knows(t)' /\ \A u \in Tasks : u # t => task'[u] = task[u]
  <3>1. CASE Finish(t)
   BY <1>3, <3>1
  <3>2. CASE Step(t, "cancel")
   <4>1. /\ task'[t].step = "cancel" /\ task'[t].order = o
         /\ task'[t].role = task[t].role /\ \A u \in Tasks : u # t => task'[u] = task[u]
    BY <1>1, <3>2, AtWhole DEF Step
   <4> QED BY <2>1, <2>3, <2>4, <4>1 DEF Knows
  <3> QED BY <1>8, <3>1, <3>2 DEF CloseTrade, CloseTradeFails
 <2> QED BY <1>1, <2>1, <2>2, <2>5, RowsRest, TaskRests
<1>9. CASE CancelLocal(t)
 <2>1. task[t].step = "cancel" /\ UNCHANGED trade /\ Finish(t) /\ trade[o] # "USERPAYING"
  BY <1>2, <1>9 DEF CancelLocal, Knows
 <2>2. CASE CancelPendingOrder(o) /\ o \in Expired /\ timedOut' = timedOut \cup {o}
  <3>1. PICK s \in PaymentStatuses : SetPay(o, s, pay[o].payload, pay[o].next)
   BY <1>4, <2>1, <2>2 DEF CancelPendingOrder
  <3>2. SetOrder(o, "cancelled", "closed") /\ Expired' = Expired BY <2>2 DEF CancelPendingOrder, Expired
  <3>3. o \in Orders /\ pay[o].payload \in BOOLEAN /\ pay[o].next \in BOOLEAN BY <1>4, <2>1
  <3>4. \A x \in Orders : RowStays(x) BY <1>1, <3>1, <3>2, <3>3, LeavesPending
  <3> QED BY <1>1, <1>3, <2>1, <2>2, <3>2, <3>4, TradesRest, TaskRests
 <2>3. CASE UNCHANGED <<rows, timedOut>>
  BY <1>1, <1>3, <2>1, <2>3, RowsRest, TradesRest, TaskRests
 <2> QED BY <1>9, <2>2, <2>3 DEF CancelLocal
<1>10. CASE QueryFails(t)
 <2>1. task[t].step = "query" /\ UNCHANGED <<trade, timedOut>> /\ Finish(t) /\ (Reschedule(o) \/ UNCHANGED rows)
  BY <1>10 DEF QueryFails
 <2>2. (\A x \in Orders : RowStays(x)) /\ Expired \subseteq Expired'
  <3>1. CASE Reschedule(o)
   <4>1. SetPay(o, pay[o].status, pay[o].payload, TRUE) /\ order' = order /\ Expired \subseteq Expired'
    BY <3>1 DEF Reschedule, Expired
   <4> QED BY <1>1, <1>4, <2>1, <4>1, PayStays
  <3> QED BY <2>1, <3>1, RowsRest
 <2> QED BY <1>1, <1>3, <2>1, <2>2, TradesRest, TaskRests
<1>11. CASE TaskDies(t)
 BY <1>1, <1>3, <1>11, RowsRest, TradesRest, TaskRests DEF TaskDies
<1> QED BY <1>5, <1>6, <1>7, <1>8, <1>9, <1>10, <1>11 DEF TaskStep

\* The expiry worker goes straight to the cancellation only when nobody can be paying.
LEMMA StartPays ==
    ASSUME PInv, MInv, NEW t \in Tasks, NEW o \in Orders,
           StartConfirm(t, o) \/ StartReconcile(t, o) \/ StartExpire(t, o)
    PROVE  PInv'
<1>1. /\ RowsTypeOK /\ FlowTypes /\ pay[o].status \in PaymentStatuses /\ pay[o].payload \in BOOLEAN
      /\ UNCHANGED <<trade, payable, answered, cpc, timedOut>>
 <2>1. UNCHANGED <<trade, payable, answered, cpc, timedOut>> BY DEF StartConfirm, StartReconcile, StartExpire
 <2> QED BY <2>1 DEF MInv, IInv, RowsTypeOK
<1>2. (\A x \in Orders : RowStays(x)) /\ Expired \subseteq Expired'
 <2>1. CASE Reschedule(o)
  <3>1. SetPay(o, pay[o].status, pay[o].payload, TRUE) /\ order' = order /\ Expired \subseteq Expired'
   BY <2>1 DEF Reschedule, Expired
  <3> QED BY <1>1, <3>1, PayStays
 <2> QED BY <2>1, RowsRest DEF StartConfirm, StartReconcile, StartExpire
<1>3. CASE StartConfirm(t, o) \/ StartReconcile(t, o)
 <2>1. PICK role \in {"confirm", "reconcile"} : Start(t, role, o, "query")
  BY <1>3 DEF StartConfirm, StartReconcile
 <2>2. /\ task'[t].step = "query" /\ task'[t].role = role
       /\ \A u \in Tasks : u # t => task'[u] = task[u]
  BY <1>1, <2>1, AtWhole DEF Start
 <2>3. Knows(t)' BY <2>2 DEF Knows
 <2> QED BY <1>1, <1>2, <2>2, <2>3, TradesRest, TaskRests
<1>4. CASE StartExpire(t, o)
 <2>1. PICK step \in {"query", "cancel"} :
         Start(t, "expire", o, step) /\ (step = "cancel" => pay[o].status \notin Open)
  BY <1>4 DEF StartExpire, Open
 <2>2. /\ task'[t].step = step /\ task'[t].role = "expire" /\ task'[t].order = o
       /\ \A u \in Tasks : u # t => task'[u] = task[u]
  <3>1. At(t, step, "expire", o, NoReport) BY <2>1 DEF Start
  <3> QED BY <1>1, <3>1, AtWhole
 <2>3. o \in Expired /\ order[o].status = "pending_payment"
  BY <1>4 DEF StartExpire, NextExpiredOrder, Expired
 <2>4. step = "cancel" => trade[o] # "USERPAYING" BY <2>1, <2>3 DEF PInv, HandedOut, Live
 <2>5. Knows(t)' BY <1>1, <1>2, <2>2, <2>3, <2>4 DEF Knows
 <2> QED BY <1>1, <1>2, <2>2, <2>5, TradesRest, TaskRests
<1> QED BY <1>3, <1>4

\* With one Idempotency-Key for each order, the expiry worker never gives an order up while
\* its customer is paying, whatever it read before and whatever runs between its steps.
THEOREM NoPayerAbandonedAlways ==
    ASSUME OneKey
    PROVE  Spec => []NoPayerAbandoned
<1>1. Init => PInv
 <2> SUFFICES ASSUME Init PROVE PInv
  OBVIOUS
 <2>1. HandedOut BY FlowAssumption DEF Init, RowsInit, NoPayment, HandedOut, InFlight
 <2> QED BY <2>1 DEF Init, PInv, Knows, Idle
<1>2. PInv /\ MInv /\ [Next]_vars => PInv'
 <2> SUFFICES ASSUME PInv, MInv, [Next]_vars PROVE PInv'
  OBVIOUS
 <2>1. CASE UNCHANGED vars
  BY <2>1, RowsRest, TradesRest, FlowRests DEF vars, flow
 <2> QED BY <2>1, OrderPays, CreatePays, TaskPays, StartPays DEF Next
<1>3. PInv => NoPayerAbandoned BY DEF PInv, NoPayerAbandoned
<1> QED BY <1>1, <1>2, <1>3, MoneyInit, MoneyStep, PTL DEF Spec
=============================================================================
