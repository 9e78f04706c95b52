--------------------------- MODULE MCPaymentFlow ---------------------------
(***************************************************************************)
(* Instances of PaymentFlow: every order has one unit of one product.      *)
(***************************************************************************)
EXTENDS PaymentFlow

CONSTANTS SecondOrder,   \* requests for the second order
          SharedKey,     \* requests that carry one shared Idempotency-Key
          o1, o2, goods, Units0

MCQty     == [o \in Orders |-> [p \in Products |-> 1]]
MCInitial == [p \in Products |-> Units0]
MCOrderOf == [c \in Creates |-> IF c \in SecondOrder THEN o2 ELSE o1]
MCKeyOf   == [c \in Creates |-> IF c \in SharedKey THEN "shared" ELSE c]
=============================================================================
