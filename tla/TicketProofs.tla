---------------------------- MODULE TicketProofs ----------------------------
(***************************************************************************)
(* Wine tickets, for any lots, gifts, redemptions, renewals and purchases: *)
(* no token and no refund is used twice, what the nightly reconciliation   *)
(* demands of every lot and every business holds, and customers are shown  *)
(* what they have.                                                         *)
(***************************************************************************)
EXTENDS Tickets, SumTheorems, FiniteSetTheorems, SequenceTheorems, TLAPS

----------------------------------------
(* Wine tickets: the tokens of gifts, and money that goes back. *)

GiftFields == {"status", "giver", "receiver", "qty", "alloc", "srcExp", "rcv", "allocStatus", "deadline",
               "earliest", "tokens"}

\* Share tokens are a sequence of rows that are live until they are revoked or one of them
\* is consumed by the claim that ends the gift.
TokensOK(G) ==
    /\ DOMAIN G = GiftFields /\ \E S : G.tokens \in Seq(S)
    /\ \A i \in DOMAIN G.tokens : DOMAIN G.tokens[i] = {"exp", "state"}
    /\ (G.status # "claimed" => \A i \in DOMAIN G.tokens : G.tokens[i].state # "consumed")
    /\ (G.status = "claimed" =>
          \E i \in DOMAIN G.tokens : \A j \in DOMAIN G.tokens : G.tokens[j].state = "consumed" <=> j = i)
    /\ (G.status \in GiftTerminal => \A i \in DOMAIN G.tokens : G.tokens[i].state # "live")

GiftInv == DOMAIN gift = Gifts /\ \A g \in Gifts : TokensOK(gift[g])

\* The provider was asked for every refund row of a payment but perhaps the last, in their
\* order, and has closed all that were replaced.
RowsOK(C, D) ==
    /\ \E S : C \in Seq(S)
    /\ \E S : D \in Seq(S)
    /\ Len(D) <= Len(C) /\ Len(C) <= Len(D) + 1
    /\ \A k \in DOMAIN D : k < Len(C) => D[k] = "closed"

\* There is no refund row before the business has decided to give the money back, which it
\* does not take back.
MoneyInv ==
    /\ DOMAIN comp = Payables /\ DOMAIN given = Payables /\ DOMAIN renewal = Renewals /\ DOMAIN purchase = Purchases
    /\ \A n \in Renewals : "status" \in DOMAIN renewal[n]
    /\ \A p \in Purchases : "status" \in DOMAIN purchase[p]
    /\ \A b \in Payables : RowsOK(comp[b], given[b])
    /\ \A n \in Renewals :
          renewal[n].status \notin {"compensating_refund", "refund_exception", "refunded"} => comp[n] = <<>>
    /\ \A p \in Purchases :
          purchase[p].status \notin {"refund_holding", "refund_exception", "refunded"} => comp[p] = <<>>

SpentInv == GiftInv /\ MoneyInv

LEMMA SpentBegins == ASSUME NEW lots, NEW bottles, TicketsInit(lots, bottles) PROVE SpentInv
<1>1. TicketsInit(lots, bottles) OBVIOUS
<1> DEFINE nil == <<>>
<1>0. nil \in Seq({}) /\ DOMAIN nil = {} /\ Len(nil) = 0 OBVIOUS
<1>2. GiftInv
 <2>1. NoGift.tokens = nil /\ NoGift.status = "none" /\ DOMAIN NoGift = GiftFields BY DEF NoGift, GiftFields
 <2> HIDE DEF nil
 <2>2. TokensOK(NoGift) BY <1>0, <2>1 DEF TokensOK, GiftTerminal
 <2>3. gift = [g \in Gifts |-> NoGift] BY <1>1 DEF TicketsInit
 <2> QED BY <2>2, <2>3 DEF GiftInv
<1>3. \A b \in Payables : comp[b] = nil /\ given[b] = nil BY <1>1 DEF TicketsInit
<1>4. MoneyInv
 <2>1. /\ DOMAIN comp = Payables /\ DOMAIN given = Payables
       /\ DOMAIN renewal = Renewals /\ DOMAIN purchase = Purchases
       /\ \A n \in Renewals : "status" \in DOMAIN renewal[n]
       /\ \A p \in Purchases : "status" \in DOMAIN purchase[p]
  BY <1>1 DEF TicketsInit, NoRenewal, NoPurchase
 <2>2. \A b \in Payables : comp[b] = <<>> BY <1>3
 <2> HIDE DEF nil
 <2>3. ASSUME NEW b \in Payables
       PROVE  /\ \E S : comp[b] \in Seq(S)
              /\ \E S : given[b] \in Seq(S)
              /\ Len(given[b]) <= Len(comp[b]) /\ Len(comp[b]) <= Len(given[b]) + 1
              /\ \A k \in DOMAIN given[b] : k < Len(comp[b]) => given[b][k] = "closed"
  <3>1. comp[b] = nil /\ given[b] = nil BY <1>3, <2>3
  <3>2. Len(comp[b]) = 0 /\ Len(given[b]) = 0 /\ DOMAIN given[b] = {} BY <1>0, <3>1
  <3>3. (\E S : comp[b] \in Seq(S)) /\ \E S : given[b] \in Seq(S) BY <1>0, <3>1, Zenon
  <3> QED BY <3>2, <3>3
 <2> QED BY <2>1, <2>2, <2>3 DEF MoneyInv, RowsOK, Payables
<1> QED BY <1>2, <1>4 DEF SpentInv

LEMMA SpentInvImplies == SpentInv => TokensSpent /\ RefundedOnce
<1> SUFFICES ASSUME SpentInv PROVE TokensSpent /\ RefundedOnce
 OBVIOUS
<1>1. ASSUME NEW g \in Gifts
      PROVE  Cardinality({i \in DOMAIN gift[g].tokens : gift[g].tokens[i].state = "consumed"}) =
                 (IF gift[g].status = "claimed" THEN 1 ELSE 0)
 <2> DEFINE C == {i \in DOMAIN gift[g].tokens : gift[g].tokens[i].state = "consumed"}
 <2>1. TokensOK(gift[g]) BY <1>1 DEF SpentInv, GiftInv
 <2>2. CASE gift[g].status = "claimed"
  <3>1. PICK i \in DOMAIN gift[g].tokens : \A j \in DOMAIN gift[g].tokens : gift[g].tokens[j].state = "consumed" <=> j = i
   BY <2>1, <2>2 DEF TokensOK
  <3>2. C = {i} BY <3>1
  <3> QED BY <2>2, <3>2, FS_Singleton
 <2>3. CASE gift[g].status # "claimed"
  <3>1. C = {} BY <2>1, <2>3 DEF TokensOK
  <3> QED BY <2>3, <3>1, FS_EmptySet
 <2> QED BY <2>2, <2>3
<1>2. ASSUME NEW b \in Payables
      PROVE  Cardinality({k \in DOMAIN given[b] : given[b][k] \in {"processing", "success"}}) <= 1
 <2> DEFINE K == {k \in DOMAIN given[b] : given[b][k] \in {"processing", "success"}}
 <2>1. PICK S : given[b] \in Seq(S) BY <1>2 DEF SpentInv, MoneyInv, RowsOK
 <2>2. PICK m \in Nat : m = Len(given[b]) /\ DOMAIN given[b] = 1..m BY <2>1
 <2>3. PICK n \in Nat : n = Len(comp[b]) BY <1>2 DEF SpentInv, MoneyInv, RowsOK
 <2>4. m <= n /\ \A k \in 1..m : k < n => given[b][k] = "closed"
  BY <1>2, <2>2, <2>3 DEF SpentInv, MoneyInv, RowsOK
 <2>5. K \subseteq {n} BY <2>2, <2>3, <2>4
 <2>6. IsFiniteSet({n}) /\ Cardinality({n}) = 1 BY FS_Singleton
 <2>7. Cardinality(K) <= Cardinality({n}) BY <2>5, <2>6, FS_Subset
 <2> QED BY <2>6, <2>7
<1>3. \A g \in Gifts : gift[g].status \in GiftTerminal => \A i \in DOMAIN gift[g].tokens : gift[g].tokens[i].state # "live"
 BY DEF SpentInv, GiftInv, TokensOK
<1> QED BY <1>1, <1>2, <1>3 DEF TokensSpent, RefundedOnce

----------------------------------------
(* Gifts. *)

LEMMA NoTokens ==
    ASSUME NEW G, DOMAIN G = GiftFields, G.tokens = <<>>, G.status = "pending"
    PROVE  TokensOK(G)
<1> DEFINE nil == <<>>
<1>1. nil \in Seq({}) /\ DOMAIN nil = {} OBVIOUS
<1>2. G.tokens = nil OBVIOUS
<1> HIDE DEF nil
<1> QED BY <1>1, <1>2 DEF TokensOK, GiftTerminal

LEMMA NewToken ==
    ASSUME NEW G, TokensOK(G), G.status = "pending", NEW t, DOMAIN t = {"exp", "state"}, t.state = "live"
    PROVE  TokensOK([G EXCEPT !.tokens = Append(@, t)])
<1>1. PICK S : G.tokens \in Seq(S) BY DEF TokensOK
<1>2. G.tokens \in Seq(S \cup {t}) BY <1>1
<1>3. PICK T : T = Append(G.tokens, t) OBVIOUS
<1>4. /\ T \in Seq(S \cup {t}) /\ DOMAIN T = DOMAIN G.tokens \cup {Len(G.tokens) + 1}
      /\ \A i \in DOMAIN G.tokens : T[i] = G.tokens[i]
      /\ T[Len(G.tokens) + 1] = t
 BY <1>2, <1>3
<1>5. PICK H : H = [G EXCEPT !.tokens = T] OBVIOUS
<1>6. DOMAIN H = GiftFields /\ H.tokens = T /\ H.status = "pending" BY <1>5 DEF TokensOK, GiftFields
<1>7. \A i \in DOMAIN T : DOMAIN T[i] = {"exp", "state"} /\ T[i].state # "consumed" BY <1>4 DEF TokensOK
<1>8. TokensOK(H) BY <1>4, <1>6, <1>7 DEF TokensOK, GiftTerminal
<1> QED BY <1>3, <1>5, <1>8

LEMMA RevokedFacts ==
    ASSUME NEW S, NEW T \in Seq(S), \A i \in DOMAIN T : DOMAIN T[i] = {"exp", "state"}
    PROVE  /\ \E Z : Revoked(T) \in Seq(Z)
           /\ DOMAIN Revoked(T) = DOMAIN T
           /\ \A i \in DOMAIN T : /\ DOMAIN Revoked(T)[i] = {"exp", "state"} /\ Revoked(T)[i].state # "live"
                                  /\ (Revoked(T)[i].state = "consumed" <=> T[i].state = "consumed")
<1> DEFINE R == Revoked(T)
<1>1. R = [i \in DOMAIN T |-> IF T[i].state = "live" THEN [T[i] EXCEPT !.state = "revoked"] ELSE T[i]]
 BY DEF Revoked
<1>2. DOMAIN R = DOMAIN T /\ DOMAIN T = 1..Len(T) /\ Len(T) \in Nat BY <1>1
<1>3. ASSUME NEW i \in DOMAIN T
      PROVE  /\ DOMAIN R[i] = {"exp", "state"} /\ R[i].state # "live"
             /\ (R[i].state = "consumed" <=> T[i].state = "consumed")
 <2>1. CASE T[i].state = "live"
  <3>1. R[i] = [T[i] EXCEPT !.state = "revoked"] BY <1>1, <2>1
  <3> QED BY <2>1, <3>1
 <2>2. CASE T[i].state # "live"
  <3>1. R[i] = T[i] BY <1>1, <2>2
  <3> QED BY <2>2, <3>1
 <2> QED BY <2>1, <2>2
<1> DEFINE Z == {R[i] : i \in 1..Len(T)}
<1>4. R \in [1..Len(T) -> Z] BY <1>1, <1>2
<1>5. R \in Seq(Z)
 <2> HIDE DEF R, Z
 <2> QED BY <1>2, <1>4
<1> QED BY <1>2, <1>3, <1>5

LEMMA GiftMoves ==
    ASSUME GiftInv, NEW g \in Gifts, NEW G, TokensOK(G), gift' = [gift EXCEPT ![g] = G]
    PROVE  GiftInv'
<1>1. DOMAIN gift' = Gifts /\ \A h \in Gifts : gift'[h] = G \/ gift'[h] = gift[h] BY DEF GiftInv
<1>2. \A h \in Gifts : TokensOK(gift'[h]) BY <1>1 DEF GiftInv
<1> QED BY <1>1, <1>2 DEF GiftInv

LEMMA GivenBack ==
    ASSUME GiftInv, NEW g \in Gifts, gift[g].status = "pending", NEW end \in {"cancelled", "expired_returned"},
           NEW at, GiveBack(g, end, at)
    PROVE  GiftInv'
<1>1. TokensOK(gift[g]) /\ DOMAIN gift = Gifts BY DEF GiftInv
<1>2. PICK S : gift[g].tokens \in Seq(S) BY <1>1 DEF TokensOK
<1>3. PICK T : T = Revoked(gift[g].tokens) OBVIOUS
<1>4. /\ \E Z : T \in Seq(Z)
      /\ DOMAIN T = DOMAIN gift[g].tokens
      /\ \A i \in DOMAIN T : DOMAIN T[i] = {"exp", "state"} /\ T[i].state # "live"
      /\ \A i \in DOMAIN T : T[i].state # "consumed"
 <2>1. \A i \in DOMAIN gift[g].tokens : DOMAIN gift[g].tokens[i] = {"exp", "state"} /\ gift[g].tokens[i].state # "consumed"
  BY <1>1 DEF TokensOK
 <2>2. PICK U : U = gift[g].tokens OBVIOUS
 <2>3. U \in Seq(S) /\ T = Revoked(U) /\ \A i \in DOMAIN U : DOMAIN U[i] = {"exp", "state"} /\ U[i].state # "consumed"
  BY <1>2, <1>3, <2>1, <2>2
 <2>4. /\ \E Z : T \in Seq(Z)
       /\ DOMAIN T = DOMAIN U
       /\ \A i \in DOMAIN U : /\ DOMAIN T[i] = {"exp", "state"} /\ T[i].state # "live"
                              /\ (T[i].state = "consumed" <=> U[i].state = "consumed")
  <3>1. /\ \E Z : Revoked(U) \in Seq(Z)
        /\ DOMAIN Revoked(U) = DOMAIN U
        /\ \A i \in DOMAIN U : /\ DOMAIN Revoked(U)[i] = {"exp", "state"} /\ Revoked(U)[i].state # "live"
                               /\ (Revoked(U)[i].state = "consumed" <=> U[i].state = "consumed")
   BY <2>3, RevokedFacts
  <3> QED BY <2>3, <3>1, Zenon
 <2> QED BY <2>2, <2>3, <2>4, Zenon
<1>5. PICK G : G = [gift[g] EXCEPT !.status = end, !.allocStatus = "restored", !.tokens = T] OBVIOUS
<1>6. gift' = [gift EXCEPT ![g] = G]
 <2>1. gift' = [gift EXCEPT ![g].status = end, ![g].allocStatus = "restored", ![g].tokens = Revoked(@)]
  BY DEF GiveBack
 <2> QED BY <1>1, <1>3, <1>5, <2>1 DEF TokensOK, GiftFields
<1>7. DOMAIN G = GiftFields /\ G.status = end /\ G.tokens = T BY <1>1, <1>5 DEF TokensOK, GiftFields
<1>8. TokensOK(G) BY <1>4, <1>7 DEF TokensOK
<1> QED BY <1>6, <1>8, GiftMoves

LEMMA ClaimStep ==
    ASSUME GiftInv, NEW g \in Gifts, NEW c, NEW i \in DOMAIN gift[g].tokens, ClaimGift(g, c, i)
    PROVE  GiftInv'
<1>1. TokensOK(gift[g]) /\ DOMAIN gift = Gifts /\ gift[g].status = "pending"
 BY DEF GiftInv, ClaimGift, Claimable
<1>2. PICK S : gift[g].tokens \in Seq(S) BY <1>1 DEF TokensOK
<1>3. PICK rcv : gift' = [gift EXCEPT ![g] = Claimed(@, c, rcv, i)] BY DEF ClaimGift
<1>4. PICK U : U = [gift[g].tokens EXCEPT ![i].state = "consumed"] OBVIOUS
<1>5. PICK t : t = [gift[g].tokens[i] EXCEPT !.state = "consumed"] OBVIOUS
<1>6. DOMAIN t = {"exp", "state"} /\ t.state = "consumed" BY <1>1, <1>5 DEF TokensOK
<1>7. U = [gift[g].tokens EXCEPT ![i] = t] BY <1>4, <1>5
<1>8. /\ U \in Seq(S \cup {t}) /\ DOMAIN U = DOMAIN gift[g].tokens
      /\ \A j \in DOMAIN U : DOMAIN U[j] = {"exp", "state"} /\ (U[j].state = "consumed" <=> j = i)
 <2>1. DOMAIN U = DOMAIN gift[g].tokens /\ U[i] = t /\ \A j \in DOMAIN U : j # i => U[j] = gift[g].tokens[j]
  BY <1>7
 <2>2. \A j \in DOMAIN gift[g].tokens : DOMAIN gift[g].tokens[j] = {"exp", "state"} /\ gift[g].tokens[j].state # "consumed"
  BY <1>1 DEF TokensOK
 <2>3. gift[g].tokens \in Seq(S \cup {t}) BY <1>2
 <2>4. U \in Seq(S \cup {t}) BY <1>7, <2>3
 <2>5. ASSUME NEW j \in DOMAIN U PROVE DOMAIN U[j] = {"exp", "state"} /\ (U[j].state = "consumed" <=> j = i)
  BY <1>6, <2>1, <2>2
 <2> QED BY <2>1, <2>4, <2>5
<1>9. PICK T : T = Revoked(U) OBVIOUS
<1>10. /\ \E Z : T \in Seq(Z)
       /\ DOMAIN T = DOMAIN U /\ \A j \in DOMAIN T : DOMAIN T[j] = {"exp", "state"} /\ T[j].state # "live"
       /\ \A j \in DOMAIN T : T[j].state = "consumed" <=> j = i
 <2>1. /\ \E Z : T \in Seq(Z)
       /\ DOMAIN T = DOMAIN U
       /\ \A j \in DOMAIN U : /\ DOMAIN T[j] = {"exp", "state"} /\ T[j].state # "live"
                              /\ (T[j].state = "consumed" <=> U[j].state = "consumed")
  <3>1. /\ \E Z : Revoked(U) \in Seq(Z)
        /\ DOMAIN Revoked(U) = DOMAIN U
        /\ \A j \in DOMAIN U : /\ DOMAIN Revoked(U)[j] = {"exp", "state"} /\ Revoked(U)[j].state # "live"
                               /\ (Revoked(U)[j].state = "consumed" <=> U[j].state = "consumed")
   <4>1. U \in Seq(S \cup {t}) /\ \A j \in DOMAIN U : DOMAIN U[j] = {"exp", "state"} BY <1>8, Zenon
   <4> QED BY <4>1, RevokedFacts
  <3> QED BY <1>9, <3>1, Zenon
 <2> QED BY <1>8, <2>1, Zenon
<1>11. PICK G : G = Claimed(gift[g], c, rcv, i) OBVIOUS
<1>12. DOMAIN G = GiftFields /\ G.status = "claimed" /\ G.tokens = T
 BY <1>1, <1>4, <1>9, <1>11 DEF TokensOK, GiftFields, Claimed
<1>13. TokensOK(G)
 <2>1. i \in DOMAIN T BY <1>8, <1>10
 <2> QED BY <1>10, <1>12, <2>1, Zenon DEF TokensOK
<1>14. gift' = [gift EXCEPT ![g] = G] BY <1>1, <1>3, <1>11
<1> QED BY <1>13, <1>14, GiftMoves

LEMMA GiftKeeps == GiftInv /\ GiftStep => GiftInv'
<1> SUFFICES ASSUME GiftInv, NEW g \in Gifts,
                    \/ \E c \in Customers : \E q \in 1..3 : CreateGift(g, c, q)
                    \/ CreateShareToken(g)
                    \/ \E c \in Customers : \E i \in DOMAIN gift[g].tokens : ClaimGift(g, c, i)
                    \/ CancelGift(g) \/ GiveBackLate(g) \/ ExpireDueGift(g)
             PROVE  GiftInv'
 BY DEF GiftStep, GiftRequest
<1>1. ASSUME NEW c \in Customers, NEW q \in 1..3, CreateGift(g, c, q) PROVE GiftInv'
 <2>1. PICK G : G = NewGift(c, q, Allocation(Usable(c), q)) OBVIOUS
 <2>2. gift' = [gift EXCEPT ![g] = G] BY <1>1, <2>1 DEF CreateGift
 <2>3. DOMAIN G = GiftFields /\ G.tokens = <<>> /\ G.status = "pending"
  BY <2>1 DEF NewGift, NoGift, GiftFields
 <2> QED BY <2>2, <2>3, NoTokens, GiftMoves
<1>2. CASE CreateShareToken(g)
 <2>1. PICK t : /\ DOMAIN t = {"exp", "state"} /\ t.state = "live"
                /\ gift' = [gift EXCEPT ![g].tokens = Append(@, t)]
  BY <1>2 DEF CreateShareToken
 <2>2. TokensOK(gift[g]) /\ DOMAIN gift = Gifts /\ gift[g].status = "pending"
  BY <1>2 DEF GiftInv, CreateShareToken, Claimable
 <2>3. PICK G : G = [gift[g] EXCEPT !.tokens = Append(@, t)] OBVIOUS
 <2>4. gift' = [gift EXCEPT ![g] = G] BY <2>1, <2>2, <2>3
 <2>5. TokensOK(G) BY <2>1, <2>2, <2>3, NewToken
 <2> QED BY <2>4, <2>5, GiftMoves
<1>3. ASSUME NEW c \in Customers, NEW i \in DOMAIN gift[g].tokens, ClaimGift(g, c, i) PROVE GiftInv'
 BY <1>3, ClaimStep
<1>4. CASE CancelGift(g)
 BY <1>4, GivenBack DEF CancelGift, Claimable
<1>5. CASE GiveBackLate(g)
 BY <1>5, GivenBack DEF GiveBackLate, PastDeadline
<1>6. CASE ExpireDueGift(g)
 BY <1>6, GivenBack DEF ExpireDueGift
<1> QED BY <1>1, <1>2, <1>3, <1>4, <1>5, <1>6

----------------------------------------
(* The refunds of business payments. *)

LEMMA RowMoved ==
    ASSUME NEW S, NEW C \in Seq(S), NEW k, NEW s
    PROVE  /\ [C EXCEPT ![k] = s] \in Seq(S \cup {s}) /\ Len([C EXCEPT ![k] = s]) = Len(C)
           /\ DOMAIN [C EXCEPT ![k] = s] = DOMAIN C
           /\ \A j \in DOMAIN C : j # k => [C EXCEPT ![k] = s][j] = C[j]
<1> DEFINE E == [C EXCEPT ![k] = s]
<1>0. Len(C) \in Nat /\ DOMAIN C = 1..Len(C) OBVIOUS
<1>1. PICK n \in Nat : n = Len(C) /\ DOMAIN C = 1..n BY <1>0
<1>3. DOMAIN E = 1..n /\ E \in [1..n -> S \cup {s}] /\ \A j \in DOMAIN C : j # k => E[j] = C[j]
 <2>1. \A j \in 1..n : C[j] \in S BY <1>1
 <2> QED BY <1>1, <2>1
<1> HIDE DEF E
<1>4. E \in Seq(S \cup {s}) BY <1>3
<1>5. Len(E) = n BY <1>3, <1>4
<1> QED BY <1>1, <1>3, <1>4, <1>5 DEF E

\* Of the rows of one payment the last may move, and be replaced when the provider closed it.
LEMMA RowSet ==
    ASSUME NEW C, NEW D, RowsOK(C, D), NEW k, NEW s
    PROVE  RowsOK([C EXCEPT ![k] = s], D)
<1>1. PICK S : C \in Seq(S) BY DEF RowsOK
<1>2. PICK E : E = [C EXCEPT ![k] = s] OBVIOUS
<1>3. [C EXCEPT ![k] = s] \in Seq(S \cup {s}) /\ Len([C EXCEPT ![k] = s]) = Len(C) BY <1>1, RowMoved, Zenon
<1>4. E \in Seq(S \cup {s}) /\ Len(E) = Len(C) BY <1>2, <1>3, Zenon
<1>5. RowsOK(E, D) BY <1>4 DEF RowsOK
<1> QED BY <1>2, <1>5

LEMMA RowReplaced ==
    ASSUME NEW C, NEW D, RowsOK(C, D), NEW k \in DOMAIN D, k = Len(C), D[k] = "closed", NEW s, NEW t
    PROVE  RowsOK(Append([C EXCEPT ![k] = s], t), D)
<1>1. PICK E : E = [C EXCEPT ![k] = s] OBVIOUS
<1>2. RowsOK(E, D) /\ Len(E) = Len(C)
 <2>1. PICK S : C \in Seq(S) BY DEF RowsOK
 <2>2. Len([C EXCEPT ![k] = s]) = Len(C) BY <2>1, RowMoved
 <2>3. RowsOK([C EXCEPT ![k] = s], D) BY RowSet
 <2> QED BY <1>1, <2>2, <2>3, Zenon
<1>3. PICK S : E \in Seq(S) BY <1>2 DEF RowsOK
<1>4. PICK F : F = Append(E, t) OBVIOUS
<1>5. E \in Seq(S \cup {t}) BY <1>3
<1>6. F \in Seq(S \cup {t}) /\ Len(F) = Len(E) + 1 /\ Len(E) \in Nat BY <1>4, <1>5
<1>7. PICK Z : D \in Seq(Z) BY DEF RowsOK
<1>8. DOMAIN D = 1..Len(D) /\ Len(D) \in Nat BY <1>7
<1>9. Len(D) <= Len(E) /\ \A j \in DOMAIN D : j < Len(E) => D[j] = "closed" BY <1>2 DEF RowsOK
<1>10. k = Len(E) /\ k <= Len(D) BY <1>2, <1>8
<1>11. \A j \in DOMAIN D : j < Len(F) => D[j] = "closed" BY <1>6, <1>8, <1>9, <1>10
<1>12. RowsOK(F, D) BY <1>6, <1>7, <1>8, <1>9, <1>10, <1>11 DEF RowsOK
<1> QED BY <1>1, <1>4, <1>12

LEMMA RowAsked ==
    ASSUME NEW C, NEW D, RowsOK(C, D), Len(D) < Len(C), NEW s
    PROVE  RowsOK(C, Append(D, s))
<1>1. PICK S : D \in Seq(S) BY DEF RowsOK
<1>2. PICK E : E = Append(D, s) OBVIOUS
<1>3. D \in Seq(S \cup {s}) BY <1>1
<1>4. /\ E \in Seq(S \cup {s}) /\ Len(E) = Len(D) + 1 /\ Len(D) \in Nat /\ DOMAIN E = 1..Len(E)
      /\ DOMAIN D = 1..Len(D) /\ \A j \in 1..Len(D) : E[j] = D[j]
 BY <1>2, <1>3
<1>5. PICK Z : C \in Seq(Z) BY DEF RowsOK
<1>6. Len(C) \in Nat BY <1>5
<1>7. Len(C) = Len(D) + 1 BY <1>4, <1>6 DEF RowsOK
<1>8. \A j \in DOMAIN E : j < Len(C) => E[j] = "closed" BY <1>4, <1>7 DEF RowsOK
<1>9. RowsOK(C, E) BY <1>4, <1>5, <1>7, <1>8 DEF RowsOK
<1> QED BY <1>2, <1>9

LEMMA RowAnswered ==
    ASSUME NEW C, NEW D, RowsOK(C, D), NEW k, NEW s, D[k] = "processing"
    PROVE  RowsOK(C, [D EXCEPT ![k] = s])
<1>1. PICK S : D \in Seq(S) BY DEF RowsOK
<1>2. PICK E : E = [D EXCEPT ![k] = s] OBVIOUS
<1>3. /\ [D EXCEPT ![k] = s] \in Seq(S \cup {s}) /\ Len([D EXCEPT ![k] = s]) = Len(D)
      /\ DOMAIN [D EXCEPT ![k] = s] = DOMAIN D
      /\ \A j \in DOMAIN D : j # k => [D EXCEPT ![k] = s][j] = D[j]
 BY <1>1, RowMoved, Zenon
<1>4. E \in Seq(S \cup {s}) /\ Len(E) = Len(D) /\ DOMAIN E = DOMAIN D /\ \A j \in DOMAIN D : j # k => E[j] = D[j]
 BY <1>2, <1>3, Zenon
<1>5. \A j \in DOMAIN E : j < Len(C) => E[j] = "closed" BY <1>4 DEF RowsOK
<1>6. RowsOK(C, E) BY <1>4, <1>5 DEF RowsOK
<1> QED BY <1>2, <1>6

LEMMA FirstRow ==
    ASSUME NEW C, NEW D, RowsOK(C, D), C = <<>>, NEW s
    PROVE  RowsOK(<<s>>, D)
<1>1. PICK S : D \in Seq(S) BY DEF RowsOK
<1>2. Len(D) = 0 /\ DOMAIN D = {}
 <2>1. Len(C) = 0 /\ Len(D) \in Nat /\ DOMAIN D = 1..Len(D) BY <1>1
 <2>2. Len(D) <= Len(C) BY DEF RowsOK
 <2> QED BY <2>1, <2>2
<1>3. PICK E : E = <<s>> OBVIOUS
<1>4. E \in Seq({s}) /\ Len(E) = 1 BY <1>3
<1>5. RowsOK(E, D) BY <1>1, <1>2, <1>4 DEF RowsOK
<1> QED BY <1>3, <1>5

\* The rows of one payment are the given ones after a step, the others rest.
CompIs(b, C) ==
    DOMAIN comp' = Payables /\ comp'[b] = C /\ \A a \in Payables : a # b => comp'[a] = comp[a]

GivenIs(b, D) ==
    DOMAIN given' = Payables /\ given'[b] = D /\ \A a \in Payables : a # b => given'[a] = given[a]

\* One payment's rows move, and the businesses stay where rows are allowed.
LEMMA RowsStep ==
    ASSUME MoneyInv, NEW b \in Payables, NEW C, NEW D, RowsOK(C, D),
           CompIs(b, C), GivenIs(b, D),
           DOMAIN renewal' = Renewals, \A n \in Renewals : "status" \in DOMAIN renewal'[n],
           DOMAIN purchase' = Purchases, \A p \in Purchases : "status" \in DOMAIN purchase'[p],
           \A n \in Renewals : \/ n # b /\ renewal'[n].status = renewal[n].status
                               \/ (n = b /\ C = <<>>) \/ renewal'[n].status \in {"compensating_refund", "refund_exception", "refunded"},
           \A p \in Purchases : \/ p # b /\ purchase'[p].status = purchase[p].status
                                \/ (p = b /\ C = <<>>) \/ purchase'[p].status \in {"refund_holding", "refund_exception", "refunded"}
    PROVE  MoneyInv'
<1>1. /\ DOMAIN comp' = Payables /\ DOMAIN given' = Payables /\ comp'[b] = C /\ given'[b] = D
      /\ \A a \in Payables : a # b => comp'[a] = comp[a] /\ given'[a] = given[a]
 BY DEF CompIs, GivenIs
<1>2. \A a \in Payables : RowsOK(comp'[a], given'[a]) BY <1>1 DEF MoneyInv
<1>3. \A n \in Renewals :
          renewal'[n].status \notin {"compensating_refund", "refund_exception", "refunded"} => comp'[n] = <<>>
 BY <1>1 DEF MoneyInv, Payables
<1>4. \A p \in Purchases :
          purchase'[p].status \notin {"refund_holding", "refund_exception", "refunded"} => comp'[p] = <<>>
 BY <1>1 DEF MoneyInv, Payables
<1> QED BY <1>1, <1>2, <1>3, <1>4 DEF MoneyInv

\* The statuses of a business whose money goes back.
RepaidRenewal  == {"compensating_refund", "refund_exception", "refunded"}
RepaidPurchase == {"refund_holding", "refund_exception", "refunded"}

LEMMA RenewalMoves ==
    ASSUME MoneyInv, NEW n \in Renewals, NEW s, NEW C, NEW D, RowsOK(C, D),
           CompIs(n, C), GivenIs(n, D), UNCHANGED purchase,
           renewal' = [renewal EXCEPT ![n].status = s], C = <<>> \/ s \in RepaidRenewal
    PROVE  MoneyInv'
<1>1. /\ DOMAIN renewal' = Renewals /\ \A m \in Renewals : "status" \in DOMAIN renewal'[m]
      /\ renewal'[n].status = s /\ \A m \in Renewals : m # n => renewal'[m].status = renewal[m].status
 BY DEF MoneyInv
<1>2. n \in Payables /\ \A p \in Purchases : p # n BY PayablesAssumption DEF Payables
<1>3. \A m \in Renewals : \/ m # n /\ renewal'[m].status = renewal[m].status
                          \/ (m = n /\ C = <<>>)
                          \/ renewal'[m].status \in {"compensating_refund", "refund_exception", "refunded"}
 BY <1>1 DEF RepaidRenewal
<1>4. /\ DOMAIN purchase' = Purchases /\ \A p \in Purchases : "status" \in DOMAIN purchase'[p]
      /\ \A p \in Purchases : p # n /\ purchase'[p].status = purchase[p].status
 BY <1>2 DEF MoneyInv
<1> QED BY <1>1, <1>2, <1>3, <1>4, RowsStep

LEMMA PurchaseMoves ==
    ASSUME MoneyInv, NEW p \in Purchases, NEW s, NEW C, NEW D, RowsOK(C, D),
           CompIs(p, C), GivenIs(p, D), UNCHANGED renewal,
           DOMAIN purchase' = Purchases, \A q \in Purchases : "status" \in DOMAIN purchase'[q],
           \A q \in Purchases : q # p => purchase'[q].status = purchase[q].status,
           purchase'[p].status = s, C = <<>> \/ s \in RepaidPurchase
    PROVE  MoneyInv'
<1>2. p \in Payables /\ \A n \in Renewals : n # p BY PayablesAssumption DEF Payables
<1>3. \A q \in Purchases : \/ q # p /\ purchase'[q].status = purchase[q].status
                           \/ (q = p /\ C = <<>>)
                           \/ purchase'[q].status \in {"refund_holding", "refund_exception", "refunded"}
 BY DEF RepaidPurchase
<1>4. /\ DOMAIN renewal' = Renewals /\ \A n \in Renewals : "status" \in DOMAIN renewal'[n]
      /\ \A n \in Renewals : n # p /\ renewal'[n].status = renewal[n].status
 BY <1>2 DEF MoneyInv
<1> QED BY <1>2, <1>3, <1>4, RowsStep

LEMMA SetPurchaseFacts ==
    ASSUME MoneyInv, NEW p \in Purchases, NEW s, SetPurchase(p, s)
    PROVE  /\ DOMAIN purchase' = Purchases /\ \A q \in Purchases : "status" \in DOMAIN purchase'[q]
           /\ \A q \in Purchases : q # p => purchase'[q].status = purchase[q].status
           /\ purchase'[p].status = s
BY DEF MoneyInv, SetPurchase

\* What the refund worker does to the rows of a payment.
LEMMA RowsMoved ==
    ASSUME MoneyInv, NEW b \in Payables
    PROVE  /\ RowsOK(comp[b], given[b])
           /\ (UNCHANGED comp => CompIs(b, comp[b]))
           /\ (UNCHANGED given => GivenIs(b, given[b]))
           /\ \A k, s : SetRow(b, k, s) => \E C : RowsOK(C, given[b]) /\ CompIs(b, C)
           /\ \A k \in DOMAIN given[b] :
                 k = Current(b) /\ given[b][k] = "closed" /\ Replaced(b, k) =>
                 \E C : RowsOK(C, given[b]) /\ CompIs(b, C)
           /\ (AskRefund(b) \/ ProviderRefunds(b) =>
                 /\ \E D : RowsOK(comp[b], D) /\ GivenIs(b, D)
                 /\ comp' = comp)
<1>1. RowsOK(comp[b], given[b]) /\ DOMAIN comp = Payables /\ DOMAIN given = Payables BY DEF MoneyInv
<1>2. ASSUME UNCHANGED comp PROVE CompIs(b, comp[b]) BY <1>1, <1>2 DEF CompIs
<1>3. ASSUME UNCHANGED given PROVE GivenIs(b, given[b]) BY <1>1, <1>3 DEF GivenIs
<1>4. ASSUME NEW k, NEW s, SetRow(b, k, s) PROVE \E C : RowsOK(C, given[b]) /\ CompIs(b, C)
 <2>1. PICK C : C = [comp[b] EXCEPT ![k] = s] OBVIOUS
 <2>2. CompIs(b, C) BY <1>1, <1>4, <2>1 DEF CompIs, SetRow
 <2>3. RowsOK([comp[b] EXCEPT ![k] = s], given[b]) BY <1>1, RowSet
 <2> QED BY <2>1, <2>2, <2>3, Zenon
<1>5. ASSUME NEW k \in DOMAIN given[b], k = Current(b), given[b][k] = "closed", Replaced(b, k)
      PROVE  \E C : RowsOK(C, given[b]) /\ CompIs(b, C)
 <2>1. PICK C : C = Append([comp[b] EXCEPT ![k] = "failed"], "creating") OBVIOUS
 <2>2. CompIs(b, C) BY <1>1, <1>5, <2>1 DEF CompIs, Replaced
 <2>3. RowsOK(Append([comp[b] EXCEPT ![k] = "failed"], "creating"), given[b])
  BY <1>1, <1>5, RowReplaced DEF Current
 <2> QED BY <2>1, <2>2, <2>3, Zenon
<1>6. ASSUME AskRefund(b)
      PROVE  (\E D : RowsOK(comp[b], D) /\ GivenIs(b, D)) /\ comp' = comp
 <2>1. PICK D : D = Append(given[b], "processing") OBVIOUS
 <2>2. GivenIs(b, D) /\ comp' = comp /\ Len(given[b]) < Len(comp[b])
  BY <1>1, <1>6, <2>1 DEF GivenIs, AskRefund, Current
 <2>3. RowsOK(comp[b], Append(given[b], "processing")) BY <1>1, <2>2, RowAsked
 <2> QED BY <2>1, <2>2, <2>3, Zenon
<1>7. ASSUME ProviderRefunds(b)
      PROVE  (\E D : RowsOK(comp[b], D) /\ GivenIs(b, D)) /\ comp' = comp
 <2>0. PICK k, outcome : given[b][k] = "processing" /\ given' = [given EXCEPT ![b][k] = outcome] /\ comp' = comp
  BY <1>7 DEF ProviderRefunds
 <2>1. PICK D : D = [given[b] EXCEPT ![k] = outcome] OBVIOUS
 <2>2. GivenIs(b, D) BY <1>1, <2>0, <2>1 DEF GivenIs
 <2>3. RowsOK(comp[b], [given[b] EXCEPT ![k] = outcome]) BY <1>1, <2>0, RowAnswered
 <2> QED BY <2>0, <2>1, <2>2, <2>3, Zenon
<1> QED BY <1>1, <1>2, <1>3, <1>4, <1>5, <1>6, <1>7, Zenon

\* A renewal without refund rows.
LEMMA UnpaidBack ==
    ASSUME MoneyInv
    PROVE  /\ \A n \in Renewals : renewal[n].status \notin RepaidRenewal => comp[n] = <<>>
           /\ \A p \in Purchases : purchase[p].status \notin RepaidPurchase => comp[p] = <<>>
           /\ \A n \in Renewals : n \in Payables
           /\ \A p \in Purchases : p \in Payables
BY DEF MoneyInv, RepaidRenewal, RepaidPurchase, Payables

LEMMA StatusOnly ==
    ASSUME MoneyInv, NEW n \in Renewals, NEW s, renewal' = [renewal EXCEPT ![n].status = s],
           renewal[n].status \notin RepaidRenewal \/ s \in RepaidRenewal, UNCHANGED <<comp, given, purchase>>
    PROVE  MoneyInv'
BY UnpaidBack, RowsMoved, RenewalMoves

LEMMA CloseUnpaidStep ==
    ASSUME MoneyInv, NEW n \in Renewals, CloseUnpaid(n), UNCHANGED <<comp, given, purchase>>
    PROVE  MoneyInv'
<1>1. CASE renewal[n].status \in {"pending_payment", "payment_unknown", "closed"}
 <2>1. renewal' = [renewal EXCEPT ![n].status = "closed"] BY <1>1 DEF CloseUnpaid
 <2>2. renewal[n].status \notin RepaidRenewal BY <1>1 DEF RepaidRenewal
 <2> QED BY <2>1, <2>2, StatusOnly
<1>2. CASE renewal[n].status \notin {"pending_payment", "payment_unknown", "closed"}
 <2>1. UNCHANGED renewal BY <1>2 DEF CloseUnpaid
 <2> QED BY <2>1 DEF MoneyInv, Payables
<1> QED BY <1>1, <1>2

LEMMA RenewalRefundKeeps ==
    ASSUME MoneyInv, NEW n \in Renewals, RenewalRefundStep(n), UNCHANGED purchase
    PROVE  MoneyInv'
<1>1. /\ n \in Payables /\ RowsOK(comp[n], given[n])
      /\ (UNCHANGED comp => CompIs(n, comp[n])) /\ (UNCHANGED given => GivenIs(n, given[n]))
      /\ \A k, s : SetRow(n, k, s) => \E C : RowsOK(C, given[n]) /\ CompIs(n, C)
 BY UnpaidBack, RowsMoved
<1>2. ASSUME NEW s \in RepaidRenewal, NEW k, NEW t, SetRow(n, k, t), SetRenewal(n, s), UNCHANGED given PROVE MoneyInv'
 <2>1. PICK C : RowsOK(C, given[n]) /\ CompIs(n, C) BY <1>1, <1>2
 <2>2. GivenIs(n, given[n]) /\ renewal' = [renewal EXCEPT ![n].status = s] BY <1>1, <1>2 DEF SetRenewal
 <2> QED BY <1>2, <2>1, <2>2, RenewalMoves
<1> USE DEF RepaidRenewal
<1>3. CASE RefundCallFails(n)
 BY <1>2, <1>3 DEF RefundCallFails, TriedInVain
<1>4. ASSUME NEW k \in DOMAIN given[n], RefundSucceeds(n, k) \/ RefundProcessing(n, k) \/ RefundDoubted(n, k)
      PROVE  MoneyInv'
 BY <1>2, <1>4 DEF RefundSucceeds, RefundProcessing, RefundDoubted
<1>5. ASSUME NEW k \in DOMAIN given[n], RefundClosed(n, k) PROVE MoneyInv'
 <2>1. /\ k = Current(n) /\ given[n][k] = "closed" /\ Replaced(n, k) /\ UNCHANGED <<renewal, given>>
  BY <1>5 DEF RefundClosed, Moves
 <2>2. PICK C : RowsOK(C, given[n]) /\ CompIs(n, C) BY <1>1, <1>5, <2>1, RowsMoved
 <2>3. comp[n] # <<>>
  <3>1. PICK S : given[n] \in Seq(S) BY <1>1 DEF RowsOK
  <3>2. k \in 1..Len(given[n]) /\ Len(given[n]) \in Nat BY <1>5, <3>1
  <3>3. Len(comp[n]) # 0 BY <2>1, <3>2 DEF Current
  <3> QED BY <3>3
 <2>4. renewal[n].status \in RepaidRenewal BY <2>3, UnpaidBack
 <2>5. \A m \in Renewals : m # n \/ renewal'[m].status \in {"compensating_refund", "refund_exception", "refunded"}
  BY <2>1, <2>4
 <2>6. \A m \in Renewals : \/ m # n /\ renewal'[m].status = renewal[m].status
                           \/ (m = n /\ C = <<>>)
                           \/ renewal'[m].status \in {"compensating_refund", "refund_exception", "refunded"}
  BY <2>1, <2>5
 <2>7. /\ DOMAIN renewal' = Renewals /\ \A m \in Renewals : "status" \in DOMAIN renewal'[m]
       /\ DOMAIN purchase' = Purchases /\ \A p \in Purchases : "status" \in DOMAIN purchase'[p]
       /\ \A p \in Purchases : p # n /\ purchase'[p].status = purchase[p].status
  BY <2>1, PayablesAssumption DEF MoneyInv
 <2>8. GivenIs(n, given[n]) BY <1>1, <2>1
 <2> QED BY <1>1, <2>2, <2>6, <2>7, <2>8, RowsStep
<1>6. CASE (AskRefund(n) \/ ProviderRefunds(n)) /\ UNCHANGED <<lot, book, renewal>>
 <2>1. PICK D : RowsOK(comp[n], D) /\ GivenIs(n, D) BY <1>1, <1>6, RowsMoved
 <2>2. comp' = comp BY <1>1, <1>6, RowsMoved
 <2>3. CompIs(n, comp[n]) BY <1>1, <2>2
 <2>4. \A m \in Renewals : \/ m # n /\ renewal'[m].status = renewal[m].status
                           \/ (m = n /\ comp[n] = <<>>)
                           \/ renewal'[m].status \in {"compensating_refund", "refund_exception", "refunded"}
  BY <1>6, UnpaidBack
 <2>7. /\ DOMAIN renewal' = Renewals /\ \A m \in Renewals : "status" \in DOMAIN renewal'[m]
       /\ DOMAIN purchase' = Purchases /\ \A p \in Purchases : "status" \in DOMAIN purchase'[p]
       /\ \A p \in Purchases : p # n /\ purchase'[p].status = purchase[p].status
  BY <1>6, PayablesAssumption DEF MoneyInv
 <2> QED BY <1>1, <2>1, <2>3, <2>4, <2>7, RowsStep
<1> QED BY <1>3, <1>4, <1>5, <1>6 DEF RenewalRefundStep

LEMMA RenewalPaidStep ==
    ASSUME MoneyInv, NEW n \in Renewals, ApplySuccess(n), UNCHANGED <<given, purchase>>
    PROVE  MoneyInv'
<1>1. renewal[n].status \in {"pending_payment", "payment_unknown", "closed"} BY DEF ApplySuccess
<1>2. renewal[n].status \notin RepaidRenewal /\ comp[n] = <<>> /\ n \in Payables
 BY <1>1, UnpaidBack DEF RepaidRenewal
<1>3. CASE Applicable(n)
 <2>1. renewal' = [renewal EXCEPT ![n].status = "completed"] /\ UNCHANGED comp BY <1>3 DEF ApplySuccess
 <2> QED BY <1>2, <2>1, StatusOnly
<1>4. CASE ~Applicable(n)
 <2>1. /\ renewal' = [renewal EXCEPT ![n].status = "compensating_refund"]
       /\ comp' = [comp EXCEPT ![n] = <<"creating">>]
  BY <1>4 DEF ApplySuccess, CompensateRenewal
 <2>2. CompIs(n, <<"creating">>) /\ GivenIs(n, given[n]) BY <1>2, <2>1, RowsMoved DEF CompIs, MoneyInv
 <2>3. RowsOK(<<"creating">>, given[n]) BY <1>2, RowsMoved, FirstRow
 <2>4. "compensating_refund" \in RepaidRenewal BY DEF RepaidRenewal
 <2> QED BY <2>1, <2>2, <2>3, <2>4, RenewalMoves
<1> QED BY <1>3, <1>4

LEMMA RenewalMoneyKeeps == ASSUME MoneyInv, RenewalStep, UNCHANGED purchase PROVE MoneyInv'
<1> PICK n \in Renewals :
       \/ \E l \in Lots : RenewalQuote(n, l)
       \/ CreateRenewal(n) \/ ReflectSubmission(n) \/ ConfirmFails(n)
       \/ RenewalPaid(n) \/ RenewalUnpaid(n) \/ RenewalDoubted(n)
       \/ RenewalRefundStep(n) /\ UNCHANGED <<pay, trade>>
       \/ PaymentOutside(n) /\ UNCHANGED <<lot, book, renewal, comp, given>>
 BY DEF RenewalStep
<1>1. ASSUME NEW l \in Lots, RenewalQuote(n, l) PROVE MoneyInv'
 <2>1. PICK R : "status" \in DOMAIN R /\ renewal' = [renewal EXCEPT ![n] = R]
  BY <1>1 DEF RenewalQuote, NoRenewal
 <2>2. renewal[n].status = "none" /\ UNCHANGED <<comp, given>> BY <1>1 DEF RenewalQuote
 <2>3. comp[n] = <<>> BY <2>2, UnpaidBack DEF RepaidRenewal
 <2>4. /\ DOMAIN renewal' = Renewals /\ \A m \in Renewals : "status" \in DOMAIN renewal'[m]
       /\ \A m \in Renewals : m # n => renewal'[m] = renewal[m]
  BY <2>1 DEF MoneyInv
 <2> QED BY <2>2, <2>3, <2>4 DEF MoneyInv, Payables
<1>2. CASE CreateRenewal(n)
 <2>1. PICK s : renewal' = [renewal EXCEPT ![n].status = s]
  BY <1>2 DEF CreateRenewal, RenewAtOnce, RenewOncePaid
 <2>2. renewal[n].status = "quoted" /\ UNCHANGED <<comp, given>> BY <1>2 DEF CreateRenewal
 <2> QED BY <2>1, <2>2, StatusOnly DEF RepaidRenewal
<1>3. CASE ReflectSubmission(n)
 <2>1. UNCHANGED <<comp, given>> BY <1>3 DEF ReflectSubmission
 <2>2. CASE CloseUnpaid(n)
  BY <2>1, <2>2, CloseUnpaidStep
 <2>3. CASE ~CloseUnpaid(n)
  <3>1. renewal' = [renewal EXCEPT ![n].status = "payment_unknown"] /\ renewal[n].status = "pending_payment"
   BY <1>3, <2>3 DEF ReflectSubmission
  <3> QED BY <2>1, <3>1, StatusOnly DEF RepaidRenewal
 <2> QED BY <2>2, <2>3
<1>4. CASE ConfirmFails(n)
 <2>1. /\ renewal' = [renewal EXCEPT ![n].status = "payment_unknown"] /\ renewal[n].status = "pending_payment"
       /\ UNCHANGED <<comp, given>>
  BY <1>4 DEF ConfirmFails
 <2> QED BY <2>1, StatusOnly DEF RepaidRenewal
<1>5. CASE RenewalPaid(n)
 BY <1>5, RenewalPaidStep DEF RenewalPaid
<1>6. CASE RenewalUnpaid(n)
 BY <1>6, CloseUnpaidStep DEF RenewalUnpaid
<1>7. CASE RenewalDoubted(n)
 <2>1. PICK s : s = IF renewal[n].status \in {"pending_payment", "payment_unknown"} THEN "payment_unknown" ELSE renewal[n].status
  OBVIOUS
 <2>2. renewal' = [renewal EXCEPT ![n].status = s] /\ UNCHANGED <<comp, given>>
  BY <1>7, <2>1 DEF RenewalDoubted, MoneyInv
 <2>3. renewal[n].status \notin RepaidRenewal \/ s \in RepaidRenewal BY <2>1 DEF RepaidRenewal
 <2> QED BY <2>2, <2>3, StatusOnly
<1>8. CASE RenewalRefundStep(n)
 BY <1>8, RenewalRefundKeeps
<1>9. CASE UNCHANGED <<renewal, comp, given>>
 BY <1>9 DEF MoneyInv, Payables
<1> QED BY <1>1, <1>2, <1>3, <1>4, <1>5, <1>6, <1>7, <1>8, <1>9

LEMMA PurchaseOnly ==
    ASSUME MoneyInv, NEW p \in Purchases, NEW s, SetPurchase(p, s),
           purchase[p].status \notin RepaidPurchase \/ s \in RepaidPurchase, UNCHANGED <<comp, given, renewal>>
    PROVE  MoneyInv'
<1>1. /\ p \in Payables /\ RowsOK(comp[p], given[p]) /\ CompIs(p, comp[p]) /\ GivenIs(p, given[p])
 BY UnpaidBack, RowsMoved
<1>2. comp[p] = <<>> \/ s \in RepaidPurchase BY UnpaidBack
<1> QED BY <1>1, <1>2, SetPurchaseFacts, PurchaseMoves

LEMMA PurchaseRefundKeeps ==
    ASSUME MoneyInv, NEW p \in Purchases, PurchaseRefundStep(p), UNCHANGED renewal
    PROVE  MoneyInv'
<1>1. /\ p \in Payables /\ RowsOK(comp[p], given[p])
      /\ (UNCHANGED comp => CompIs(p, comp[p])) /\ (UNCHANGED given => GivenIs(p, given[p]))
      /\ \A k, s : SetRow(p, k, s) => \E C : RowsOK(C, given[p]) /\ CompIs(p, C)
 BY UnpaidBack, RowsMoved
<1>2. ASSUME NEW C, RowsOK(C, given[p]), CompIs(p, C), NEW s \in RepaidPurchase, SetPurchase(p, s), UNCHANGED given
      PROVE  MoneyInv'
 BY <1>1, <1>2, SetPurchaseFacts, PurchaseMoves
<1>3. ASSUME NEW s \in RepaidPurchase, NEW k, NEW t, SetRow(p, k, t), SetPurchase(p, s), UNCHANGED given PROVE MoneyInv'
 BY <1>1, <1>2, <1>3
<1>4. CASE QuoteRefund(p)
 <2>1. UNCHANGED <<purchase, comp, given>> BY <1>4 DEF QuoteRefund
 <2> QED BY <2>1 DEF MoneyInv, Payables
<1>5. CASE CreateRefund(p)
 <2>1. /\ comp' = [comp EXCEPT ![p] = <<"creating">>] /\ SetPurchase(p, "refund_holding") /\ UNCHANGED given
       /\ purchase[p].status = "issued"
  BY <1>5 DEF CreateRefund, Eligible
 <2>2. comp[p] = <<>> BY <2>1, UnpaidBack DEF RepaidPurchase
 <2>3. RowsOK(<<"creating">>, given[p]) BY <1>1, <2>2, FirstRow
 <2>4. CompIs(p, <<"creating">>) BY <1>1, <2>1 DEF CompIs, MoneyInv
 <2>5. "refund_holding" \in RepaidPurchase BY DEF RepaidPurchase
 <2> QED BY <1>2, <2>1, <2>3, <2>4, <2>5
<1>6. CASE AttemptFailed(p)
 <2>1. PICK t : SetRow(p, Current(p), t) BY <1>6 DEF AttemptFailed, TriedInVain
 <2>2. SetPurchase(p, "refund_holding") /\ UNCHANGED given /\ "refund_holding" \in RepaidPurchase
  BY <1>6 DEF AttemptFailed, Follow, RepaidPurchase
 <2> QED BY <1>3, <2>1, <2>2
<1>7. ASSUME NEW k \in DOMAIN given[p], TicketsRefunded(p, k) PROVE MoneyInv'
 <2>1. SetRow(p, k, "succeeded") /\ SetPurchase(p, "refunded") /\ UNCHANGED given /\ "refunded" \in RepaidPurchase
  BY <1>7 DEF TicketsRefunded, RepaidPurchase
 <2> QED BY <1>3, <2>1
<1>8. ASSUME NEW k \in DOMAIN given[p], RefundRuns(p, k) PROVE MoneyInv'
 <2>1. SetRow(p, k, "pending") /\ SetPurchase(p, "refund_holding") /\ UNCHANGED given /\ "refund_holding" \in RepaidPurchase
  BY <1>8 DEF RefundRuns, Follow, RepaidPurchase
 <2> QED BY <1>3, <2>1
<1>9. ASSUME NEW k \in DOMAIN given[p], AttemptDoubted(p, k) PROVE MoneyInv'
 <2>1. SetRow(p, k, "exception") /\ SetPurchase(p, "refund_exception") /\ UNCHANGED given /\ "refund_exception" \in RepaidPurchase
  BY <1>9 DEF AttemptDoubted, Follow, RepaidPurchase
 <2> QED BY <1>3, <2>1
<1>10. ASSUME NEW k \in DOMAIN given[p], AttemptClosed(p, k) PROVE MoneyInv'
 <2>1. /\ k = Current(p) /\ given[p][k] = "closed" /\ Replaced(p, k)
       /\ SetPurchase(p, "refund_holding") /\ UNCHANGED given /\ "refund_holding" \in RepaidPurchase
  BY <1>10 DEF AttemptClosed, Follow, RepaidPurchase
 <2>2. PICK C : RowsOK(C, given[p]) /\ CompIs(p, C) BY <1>1, <1>10, <2>1, RowsMoved
 <2> QED BY <1>2, <2>1, <2>2
<1>11. CASE (AskRefund(p) \/ ProviderRefunds(p)) /\ UNCHANGED <<lot, book, purchase, quota, refund>>
 <2>1. PICK D : RowsOK(comp[p], D) /\ GivenIs(p, D) BY <1>1, <1>11, RowsMoved
 <2>2. comp' = comp BY <1>1, <1>11, RowsMoved
 <2>3. CompIs(p, comp[p]) BY <1>1, <2>2
 <2>4. /\ DOMAIN purchase' = Purchases /\ \A q \in Purchases : "status" \in DOMAIN purchase'[q]
       /\ \A q \in Purchases : q # p => purchase'[q].status = purchase[q].status
       /\ purchase'[p].status = purchase[p].status
  BY <1>11 DEF MoneyInv
 <2>5. comp[p] = <<>> \/ purchase[p].status \in RepaidPurchase BY UnpaidBack
 <2> QED BY <2>1, <2>3, <2>4, <2>5, PurchaseMoves
<1> QED BY <1>4, <1>5, <1>6, <1>7, <1>8, <1>9, <1>10, <1>11 DEF PurchaseRefundStep

LEMMA PurchasePaidStep == ASSUME MoneyInv, NEW p \in Purchases, PurchasePaid(p), UNCHANGED renewal PROVE MoneyInv'
<1>1. Open(p) /\ UNCHANGED given BY DEF PurchasePaid
<1>2. PICK at : IF at + Validity > now THEN IssueTickets(p, at) ELSE CompensateIssuance(p, at)
 BY DEF PurchasePaid
<1>3. purchase[p].status \notin RepaidPurchase /\ comp[p] = <<>> /\ p \in Payables
 BY <1>1, UnpaidBack DEF Open, RepaidPurchase
<1>4. RowsOK(comp[p], given[p]) /\ GivenIs(p, given[p]) /\ (UNCHANGED comp => CompIs(p, comp[p]))
 BY <1>1, <1>3, RowsMoved
<1>5. CASE IssueTickets(p, at)
 <2>1. UNCHANGED comp BY <1>5 DEF IssueTickets
 <2>2. PICK l : purchase' = [purchase EXCEPT ![p].status = "issued", ![p].lot = l, ![p].paidAt = at]
  BY <1>5 DEF IssueTickets
 <2>3. /\ DOMAIN purchase' = Purchases /\ \A q \in Purchases : "status" \in DOMAIN purchase'[q]
       /\ \A q \in Purchases : q # p => purchase'[q].status = purchase[q].status
  BY <2>2 DEF MoneyInv
 <2> QED BY <1>3, <1>4, <2>1, <2>3, PurchaseMoves
<1>6. CASE CompensateIssuance(p, at)
 <2>1. /\ purchase' = [purchase EXCEPT ![p].status = "refund_holding", ![p].paidAt = at]
       /\ comp' = [comp EXCEPT ![p] = <<"creating">>]
  BY <1>6 DEF CompensateIssuance
 <2>2. /\ DOMAIN purchase' = Purchases /\ \A q \in Purchases : "status" \in DOMAIN purchase'[q]
       /\ \A q \in Purchases : q # p => purchase'[q].status = purchase[q].status
       /\ purchase'[p].status = "refund_holding"
  BY <2>1 DEF MoneyInv
 <2>3. CompIs(p, <<"creating">>) BY <1>3, <2>1 DEF CompIs, MoneyInv
 <2>4. RowsOK(<<"creating">>, given[p]) BY <1>3, <1>4, FirstRow
 <2>5. purchase'[p].status \in RepaidPurchase BY <2>2 DEF RepaidPurchase
 <2> QED BY <1>4, <2>2, <2>3, <2>4, <2>5, PurchaseMoves
<1> QED BY <1>2, <1>5, <1>6

LEMMA PurchaseMoneyKeeps == ASSUME MoneyInv, PurchaseStep, UNCHANGED renewal PROVE MoneyInv'
<1> PICK p \in Purchases :
       \/ \E c \in Customers : CreatePurchase(p, c)
       \/ ReflectPurchase(p) \/ PurchasePaid(p) \/ PurchaseUnpaid(p) \/ PurchaseDoubted(p)
       \/ PurchaseRefundStep(p) /\ UNCHANGED <<pay, trade>>
       \/ PaymentOutside(p) /\ UNCHANGED <<lot, book, purchase, quota, refund, comp, given>>
 BY DEF PurchaseStep
<1>1. ASSUME NEW c \in Customers, CreatePurchase(p, c) PROVE MoneyInv'
 <2>1. PICK P : "status" \in DOMAIN P /\ purchase' = [purchase EXCEPT ![p] = P]
  BY <1>1 DEF CreatePurchase, NoPurchase
 <2>2. purchase[p].status = "none" /\ UNCHANGED <<comp, given>> BY <1>1 DEF CreatePurchase
 <2>3. comp[p] = <<>> BY <2>2, UnpaidBack DEF RepaidPurchase
 <2>4. /\ DOMAIN purchase' = Purchases /\ \A q \in Purchases : "status" \in DOMAIN purchase'[q]
       /\ \A q \in Purchases : q # p => purchase'[q] = purchase[q]
  BY <2>1 DEF MoneyInv
 <2> QED BY <2>2, <2>3, <2>4 DEF MoneyInv, Payables
<1>2. CASE ReflectPurchase(p)
 <2>1. UNCHANGED <<comp, given>> /\ purchase[p].status \notin RepaidPurchase
  BY <1>2 DEF ReflectPurchase, RepaidPurchase
 <2>2. PICK s : SetPurchase(p, s) BY <1>2 DEF ReflectPurchase, ClosePurchase
 <2> QED BY <2>1, <2>2, PurchaseOnly
<1>3. CASE PurchaseUnpaid(p)
 <2>1. UNCHANGED <<comp, given>> BY <1>3 DEF PurchaseUnpaid
 <2>2. CASE Open(p)
  <3>1. SetPurchase(p, "closed") /\ purchase[p].status \notin RepaidPurchase
   BY <1>3, <2>2 DEF PurchaseUnpaid, ClosePurchase, Open, RepaidPurchase
  <3> QED BY <2>1, <3>1, PurchaseOnly
 <2>3. CASE ~Open(p)
  <3>1. UNCHANGED purchase BY <1>3, <2>3 DEF PurchaseUnpaid
  <3> QED BY <2>1, <3>1 DEF MoneyInv, Payables
 <2> QED BY <2>2, <2>3
<1>4. CASE PurchaseDoubted(p)
 <2>1. PICK s : s = IF purchase[p].status \in {"pending_payment", "payment_unknown"} THEN "settlement_exception"
                    ELSE purchase[p].status
  OBVIOUS
 <2>2. SetPurchase(p, s) /\ UNCHANGED <<comp, given>> BY <1>4, <2>1 DEF PurchaseDoubted
 <2>3. purchase[p].status \notin RepaidPurchase \/ s \in RepaidPurchase BY <2>1 DEF RepaidPurchase
 <2> QED BY <2>2, <2>3, PurchaseOnly
<1>5. CASE PurchasePaid(p)
 BY <1>5, PurchasePaidStep
<1>6. CASE PurchaseRefundStep(p)
 BY <1>6, PurchaseRefundKeeps
<1>7. CASE UNCHANGED <<purchase, comp, given>>
 BY <1>7 DEF MoneyInv, Payables
<1> QED BY <1>1, <1>2, <1>3, <1>4, <1>5, <1>6, <1>7

\* A step of one of the businesses, of the expiry worker or of the clock.
AnyTurn == GiftTurn \/ RenewalTurn \/ RedemptionTurn \/ PurchaseTurn \/ ExpiryTurn \/ ClockTurn

LEMMA SpentTurn == ASSUME SpentInv, AnyTurn PROVE SpentInv'
<1>1. ASSUME UNCHANGED gift PROVE GiftInv' BY <1>1 DEF SpentInv, GiftInv
<1>2. ASSUME UNCHANGED <<comp, given, renewal, purchase>> PROVE MoneyInv'
 BY <1>2 DEF SpentInv, MoneyInv, Payables
<1>3. CASE GiftTurn
 BY <1>2, <1>3, GiftKeeps DEF GiftTurn, SpentInv
<1>4. CASE RenewalTurn
 BY <1>1, <1>4, RenewalMoneyKeeps DEF RenewalTurn, SpentInv
<1>5. CASE PurchaseTurn
 BY <1>1, <1>5, PurchaseMoneyKeeps DEF PurchaseTurn, SpentInv
<1>6. CASE RedemptionTurn \/ ExpiryTurn \/ ClockTurn
 <2>1. UNCHANGED gift /\ UNCHANGED <<comp, given, renewal, purchase>>
  BY <1>6 DEF RedemptionTurn, ExpiryTurn, ClockTurn
 <2> QED BY <1>1, <1>2, <2>1 DEF SpentInv
<1> QED BY <1>3, <1>4, <1>5, <1>6 DEF AnyTurn

LEMMA SpentRests == ASSUME SpentInv, UNCHANGED tkvars PROVE SpentInv'
<1>1. UNCHANGED gift /\ UNCHANGED <<comp, given, renewal, purchase>> BY DEF tkvars
<1> QED BY <1>1 DEF SpentInv, GiftInv, MoneyInv, Payables

----------------------------------------
(* Wine tickets: the ledger of a lot. *)

\* The rows of a ledger of one kind for one business, and what of a lot they say expired.
Matching(rows, type, biz) == {i \in DOMAIN rows : rows[i].type = type /\ rows[i].biz = biz}
NoneIn(rows, type, biz) == Matching(rows, type, biz) = {}
OneIn(rows, type, biz, delta) == \E i \in DOMAIN rows : Matching(rows, type, biz) = {i} /\ rows[i].delta = delta

ExpiryOf(row) == IF row.type = "expiry" THEN -row.delta ELSE 0
Expired(rows) == SumFunctionOnSet([i \in DOMAIN rows |-> ExpiryOf(rows[i])], DOMAIN rows)

LotFields == {"status", "total", "avail", "owner", "orig", "exp", "renewals", "used", "version", "from"}

IsLot(L) ==
    /\ DOMAIN L = LotFields /\ L.status \in {"active", "depleted", "expired", "refunded"}
    /\ L.total \in Nat \ {0} /\ L.avail \in Nat /\ L.exp \in Int /\ L.orig \in Int
    /\ L.renewals \in Nat /\ L.version \in Nat

IsRow(r) == r.before \in Int /\ r.after \in Int /\ r.delta = r.after - r.before /\ (r.type = "expiry" => r.delta <= 0)

\* The rows lead from nothing to the balance.
LedgerOK(rows, total, avail) ==
    /\ \E S : rows \in Seq(S)
    /\ Len(rows) >= 1 /\ \A i \in 1..Len(rows) : IsRow(rows[i])
    /\ rows[1].before = 0 /\ rows[1].after = total /\ \A i \in 2..Len(rows) : rows[i].before = rows[i - 1].after
    /\ rows[Len(rows)].after = avail

\* An account: its lot, its rows, and that nothing of it is lost when so much is claimed.
AccountOK(acc, claims) ==
    /\ IsLot(acc.lot) /\ LedgerOK(acc.rows, acc.lot.total, acc.lot.avail)
    /\ (acc.lot.status = "active" <=> acc.lot.avail > 0)
    /\ Expired(acc.rows) \in Nat /\ acc.lot.avail + claims + Expired(acc.rows) = acc.lot.total

\* What no operation of the service changes of a lot.
SameLot(L, M) == M.owner = L.owner /\ M.total = L.total /\ M.orig = L.orig /\ M.from = L.from

\* A row of this kind was added, and perhaps one of an expiry.
Added(rows, new, type, biz, delta) ==
    /\ \A t, b : t # "expiry" /\ ~(t = type /\ b = biz) =>
          /\ NoneIn(new, t, b) <=> NoneIn(rows, t, b)
          /\ \A d : OneIn(new, t, b, d) <=> OneIn(rows, t, b, d)
    /\ (type # "expiry" /\ NoneIn(rows, type, biz) => OneIn(new, type, biz, delta))

LEMMA AppendRow ==
    ASSUME NEW S, NEW rows \in Seq(S), NEW r
    PROVE  /\ Append(rows, r) \in Seq(S \cup {r}) /\ Len(Append(rows, r)) = Len(rows) + 1
           /\ DOMAIN Append(rows, r) = 1..(Len(rows) + 1) /\ DOMAIN rows = 1..Len(rows) /\ Len(rows) \in Nat
           /\ \A i \in 1..Len(rows) : Append(rows, r)[i] = rows[i]
           /\ Append(rows, r)[Len(rows) + 1] = r
<1>1. rows \in Seq(S \cup {r}) /\ r \in S \cup {r} OBVIOUS
<1> QED BY <1>1

LEMMA AppendAdds ==
    ASSUME NEW rows, \E S : rows \in Seq(S), NEW r
    PROVE  Added(rows, Append(rows, r), r.type, r.biz, r.delta)
<1>1. PICK S : rows \in Seq(S) OBVIOUS
<1> DEFINE new == Append(rows, r)
<1>2. /\ DOMAIN new = 1..(Len(rows) + 1) /\ DOMAIN rows = 1..Len(rows) /\ Len(rows) \in Nat
      /\ \A i \in 1..Len(rows) : new[i] = rows[i]
      /\ new[Len(rows) + 1] = r
 BY <1>1, AppendRow
<1> HIDE DEF new
<1>3. ASSUME NEW t, NEW b, ~(t = r.type /\ b = r.biz)
      PROVE  /\ NoneIn(new, t, b) <=> NoneIn(rows, t, b)
             /\ \A d : OneIn(new, t, b, d) <=> OneIn(rows, t, b, d)
 <2>1. Matching(new, t, b) = Matching(rows, t, b) BY <1>2, <1>3 DEF Matching
 <2>2. \A i \in Matching(rows, t, b) : i \in DOMAIN rows /\ i \in DOMAIN new /\ new[i] = rows[i]
  BY <1>2 DEF Matching
 <2> QED BY <2>1, <2>2 DEF NoneIn, OneIn
<1>4. ASSUME NoneIn(rows, r.type, r.biz) PROVE OneIn(new, r.type, r.biz, r.delta)
 <2>1. Matching(new, r.type, r.biz) = {Len(rows) + 1} BY <1>2, <1>4 DEF Matching, NoneIn
 <2> QED BY <1>2, <2>1 DEF OneIn
<1> QED BY <1>3, <1>4 DEF Added, new

LEMMA AppendExpired ==
    ASSUME NEW rows, \E S : rows \in Seq(S), NEW r, ExpiryOf(r) \in Int, \A i \in 1..Len(rows) : ExpiryOf(rows[i]) \in Int
    PROVE  Expired(Append(rows, r)) = Expired(rows) + ExpiryOf(r) /\ Expired(rows) \in Int
<1>1. PICK S : rows \in Seq(S) OBVIOUS
<1> DEFINE new == Append(rows, r)
           D == DOMAIN rows
           f == [i \in D |-> ExpiryOf(rows[i])]
           h == [i \in DOMAIN new |-> ExpiryOf(new[i])]
           x == Len(rows) + 1
<1>2. /\ DOMAIN new = 1..x /\ D = 1..Len(rows) /\ Len(rows) \in Nat /\ \A i \in 1..Len(rows) : new[i] = rows[i]
      /\ new[x] = r
 BY <1>1, AppendRow
<1> HIDE DEF new
<1>3. DOMAIN new = D \cup {x} /\ x \notin D /\ IsFiniteSet(D)
 <2>1. PICK m \in Nat : m = Len(rows) BY <1>2
 <2>2. IsFiniteSet(1..m) BY <2>1, FS_Interval
 <2> QED BY <1>2, <2>1, <2>2
<1>4. /\ \A i \in D : f[i] = h[i] /\ f[i] \in Int
      /\ h[x] = ExpiryOf(r) /\ \A i \in D \cup {x} : h[i] \in Int
 BY <1>2, <1>3
<1>5. Expired(rows) = SumFunctionOnSet(f, D) /\ Expired(new) = SumFunctionOnSet(h, D \cup {x})
 BY <1>3, Zenon DEF Expired
<1> HIDE DEF D, f, h, x
<1>6. SumFunctionOnSet(f, D) = SumFunctionOnSet(h, D) BY <1>3, <1>4, SumSame
<1>7. SumFunctionOnSet(h, D \cup {x}) = h[x] + SumFunctionOnSet(h, D) BY <1>3, <1>4, SumAdd
<1>8. SumFunctionOnSet(f, D) \in Int BY <1>3, <1>4, SumType
<1> QED BY <1>4, <1>5, <1>6, <1>7, <1>8 DEF new

\* A row that leads from the balance to another one.
LEMMA LedgerAppend ==
    ASSUME NEW rows, NEW total, NEW a \in Nat, LedgerOK(rows, total, a), NEW type, NEW biz,
           NEW b \in Nat, type = "expiry" => b <= a
    PROVE  /\ LedgerOK(Append(rows, Row(type, biz, a, b)), total, b)
           /\ Expired(Append(rows, Row(type, biz, a, b))) = Expired(rows) + (IF type = "expiry" THEN a - b ELSE 0)
           /\ Expired(rows) \in Int /\ Added(rows, Append(rows, Row(type, biz, a, b)), type, biz, b - a)
<1>1. PICK S : rows \in Seq(S) BY DEF LedgerOK
<1> DEFINE r == Row(type, biz, a, b)
<1>2. r.type = type /\ r.biz = biz /\ r.before = a /\ r.after = b /\ r.delta = b - a /\ IsRow(r)
 BY DEF Row, IsRow
<1>3. ExpiryOf(r) = IF type = "expiry" THEN a - b ELSE 0 BY <1>2 DEF ExpiryOf
<1> HIDE DEF r
<1> DEFINE new == Append(rows, r)
           n == Len(rows)
<1>4. /\ new \in Seq(S \cup {r}) /\ Len(new) = n + 1 /\ n \in Nat /\ \A i \in 1..n : new[i] = rows[i]
      /\ new[n + 1] = r
 BY <1>1, AppendRow
<1> HIDE DEF new, n
<1>5. n >= 1 /\ \A i \in 1..n : IsRow(rows[i]) BY DEF LedgerOK, n
<1>6. LedgerOK(new, total, b)
 <2>1. \E T : new \in Seq(T) BY <1>4, Zenon
 <2>2. \A i \in 1..(n + 1) : IsRow(new[i]) BY <1>2, <1>4, <1>5
 <2>3. new[1].before = 0 /\ new[1].after = total BY <1>4, <1>5 DEF LedgerOK
 <2>4. ASSUME NEW i \in 2..(n + 1) PROVE new[i].before = new[i - 1].after
  <3>1. CASE i \in 2..n
   <4>1. i \in 1..n /\ i - 1 \in 1..n /\ rows[i].before = rows[i - 1].after
    BY <3>1, <1>4, <1>5 DEF LedgerOK, n
   <4> QED BY <4>1, <1>4
  <3>2. CASE i = n + 1
   <4>1. i - 1 = n /\ n \in 1..n /\ rows[n].after = a BY <3>2, <1>4, <1>5 DEF LedgerOK, n
   <4> QED BY <3>2, <4>1, <1>4, <1>2
  <3> QED BY <3>1, <3>2, <1>4
 <2>5. new[n + 1].after = b BY <1>2, <1>4
 <2> QED BY <2>1, <2>2, <2>3, <2>4, <2>5, <1>4 DEF LedgerOK
<1>7. \A i \in 1..Len(rows) : ExpiryOf(rows[i]) \in Int BY <1>5 DEF n, ExpiryOf, IsRow
<1>8. Expired(new) = Expired(rows) + ExpiryOf(r) /\ Expired(rows) \in Int
 <2>1. \E T : rows \in Seq(T) BY <1>1, Zenon
 <2>2. ExpiryOf(r) \in Int BY <1>3
 <2> QED BY <1>7, <2>1, <2>2, AppendExpired DEF new
<1>9. Added(rows, new, r.type, r.biz, r.delta)
 <2>1. \E T : rows \in Seq(T) BY <1>1, Zenon
 <2> QED BY <2>1, AppendAdds DEF new
<1> QED BY <1>2, <1>3, <1>6, <1>8, <1>9 DEF new, r

----------------------------------------
(* The operations of the asset service, on one account. *)

\* An account after an operation: what it is about stays, its version grows.
Next1(acc, new, claims, type, biz, delta) ==
    /\ AccountOK(new, claims) /\ SameLot(acc.lot, new.lot) /\ new.lot.version > acc.lot.version
    /\ new.lot.exp = acc.lot.exp /\ new.lot.renewals = acc.lot.renewals
    /\ Added(acc.rows, new.rows, type, biz, delta)

LEMMA PostFacts ==
    ASSUME NEW acc, NEW claims \in Int, AccountOK(acc, claims), NEW type, NEW biz, NEW L, IsLot(L), SameLot(acc.lot, L),
           L.version > acc.lot.version, L.exp = acc.lot.exp, L.renewals = acc.lot.renewals,
           L.status = "active" <=> L.avail > 0,
           type = "expiry" => L.avail <= acc.lot.avail
    PROVE  /\ Post(acc, type, biz, L).lot = L
           /\ Next1(acc, Post(acc, type, biz, L),
                    claims + (IF type = "expiry" THEN 0 ELSE acc.lot.avail - L.avail), type, biz, L.avail - acc.lot.avail)
<1> DEFINE a == acc.lot.avail
           b == L.avail
           rows == acc.rows
           new == Append(rows, Row(type, biz, a, b))
<1>1. a \in Nat /\ b \in Nat /\ acc.lot.total \in Nat /\ L.total = acc.lot.total
 BY DEF AccountOK, IsLot, SameLot
<1>2. LedgerOK(rows, L.total, a) /\ (type = "expiry" => b <= a) BY <1>1 DEF AccountOK
<1>3. Post(acc, type, biz, L).lot = L /\ Post(acc, type, biz, L).rows = new BY DEF Post
<1>4. Expired(rows) \in Nat /\ a + claims + Expired(rows) = L.total BY <1>1 DEF AccountOK
<1> HIDE DEF a, b, rows
<1>5. /\ LedgerOK(new, L.total, b)
      /\ Expired(new) = Expired(rows) + (IF type = "expiry" THEN a - b ELSE 0)
      /\ Added(rows, new, type, biz, b - a)
 BY <1>1, <1>2, LedgerAppend
<1> HIDE DEF new
<1>6. /\ Expired(new) \in Nat
      /\ b + (claims + (IF type = "expiry" THEN 0 ELSE a - b)) + Expired(new) = L.total
 BY <1>1, <1>2, <1>4, <1>5
<1> QED BY <1>3, <1>5, <1>6 DEF Next1, AccountOK, a, b, rows

LEMMA DebitFacts ==
    ASSUME NEW acc, NEW claims \in Nat, AccountOK(acc, claims), NEW type, type # "expiry", NEW biz,
           NEW q \in Nat, q > 0, q <= acc.lot.avail, NEW m \in BOOLEAN
    PROVE  /\ Next1(acc, Debit(acc, type, biz, q, m), claims + q, type, biz, -q)
           /\ Debit(acc, type, biz, q, m).lot.avail = acc.lot.avail - q
           /\ Debit(acc, type, biz, q, m).lot.status = (IF q = acc.lot.avail THEN "depleted" ELSE "active")
           /\ Debit(acc, type, biz, q, m).lot.used = (acc.lot.used \/ m)
<1> DEFINE L == acc.lot
<1>1. IsLot(L) BY DEF AccountOK
<1>2. PICK after \in Nat : after = L.avail - q BY <1>1 DEF IsLot
<1>3. PICK st \in {"depleted", "active"} : st = IF after = 0 THEN "depleted" ELSE "active" OBVIOUS
<1>4. PICK v \in Nat : v = L.version + 1 BY <1>1 DEF IsLot
<1>5. PICK u : u = (L.used \/ m) OBVIOUS
<1> DEFINE M == [[L EXCEPT !.avail = after, !.status = st, !.version = v] EXCEPT !.used = u]
<1>6. Debit(acc, type, biz, q, m) = Post(acc, type, biz, M)
 BY <1>2, <1>3, <1>4, <1>5, Zenon DEF Debit, NextVersion
<1>7. /\ M.avail = after /\ M.status = st /\ M.version = v /\ M.used = u /\ DOMAIN M = LotFields
      /\ M.total = L.total /\ M.owner = L.owner /\ M.orig = L.orig /\ M.exp = L.exp /\ M.renewals = L.renewals
      /\ M.from = L.from
 BY <1>1 DEF IsLot, LotFields
<1> HIDE DEF M
<1>8. IsLot(M) /\ SameLot(L, M) /\ M.version > L.version /\ (M.status = "active" <=> M.avail > 0)
 BY <1>1, <1>3, <1>4, <1>7 DEF IsLot, SameLot
<1>9. /\ Post(acc, type, biz, M).lot = M
      /\ Next1(acc, Post(acc, type, biz, M), claims + (L.avail - M.avail), type, biz, M.avail - L.avail)
 BY <1>7, <1>8, PostFacts
<1>10. L.avail - M.avail = q /\ M.avail - L.avail = -q BY <1>1, <1>2, <1>7 DEF IsLot
<1>11. Next1(acc, Post(acc, type, biz, M), claims + q, type, biz, -q) BY <1>9, <1>10, Zenon
<1>12. st = (IF q = L.avail THEN "depleted" ELSE "active") BY <1>1, <1>2, <1>3 DEF IsLot
<1> QED BY <1>2, <1>5, <1>6, <1>7, <1>9, <1>11, <1>12
LEMMA NextVersionFacts ==
    ASSUME NEW L, IsLot(L), NEW avail \in Nat, NEW st \in {"active", "depleted", "expired"}
    PROVE  LET M == NextVersion(L, avail, st) IN
           /\ IsLot(M) /\ SameLot(L, M) /\ M.version > L.version
           /\ M.exp = L.exp /\ M.renewals = L.renewals /\ M.used = L.used /\ M.avail = avail /\ M.status = st
<1>1. PICK v \in Nat : v = L.version + 1 BY DEF IsLot
<1> DEFINE M == [L EXCEPT !.avail = avail, !.status = st, !.version = v]
<1>2. NextVersion(L, avail, st) = M BY <1>1, Zenon DEF NextVersion
<1>3. /\ M.avail = avail /\ M.status = st /\ M.version = v /\ M.used = L.used /\ DOMAIN M = LotFields
      /\ M.total = L.total /\ M.owner = L.owner /\ M.orig = L.orig /\ M.exp = L.exp /\ M.renewals = L.renewals
      /\ M.from = L.from
 BY DEF IsLot, LotFields
<1> HIDE DEF M
<1>4. IsLot(M) /\ SameLot(L, M) /\ M.version > L.version BY <1>1, <1>3 DEF IsLot, SameLot
<1> QED BY <1>2, <1>3, <1>4

LEMMA AddedThenExpired ==
    ASSUME NEW rows, NEW mid, NEW new, NEW type, NEW biz, NEW delta, NEW other, NEW d, type # "expiry",
           Added(rows, mid, type, biz, delta), Added(mid, new, "expiry", other, d)
    PROVE  Added(rows, new, type, biz, delta)
<1>1. \A t, b : t # "expiry" => /\ NoneIn(new, t, b) <=> NoneIn(mid, t, b)
                                /\ \A e : OneIn(new, t, b, e) <=> OneIn(mid, t, b, e)
 BY DEF Added
<1> QED BY <1>1 DEF Added

LEMMA RestoreFacts ==
    ASSUME NEW acc, NEW claims \in Nat, AccountOK(acc, claims), NEW type, type # "expiry", NEW biz,
           NEW q \in Nat, q > 0, NEW at \in Int
    PROVE  /\ Next1(acc, Restore(acc, type, biz, q, at), claims - q, type, biz, q)
           /\ Restore(acc, type, biz, q, at).lot.status \in {"active", "expired"}
           /\ (Restore(acc, type, biz, q, at).lot.status = "expired" => acc.lot.exp <= at)
           /\ Restore(acc, type, biz, q, at).lot.used = acc.lot.used
<1> DEFINE L == acc.lot
<1>1. IsLot(L) BY DEF AccountOK
<1>2. PICK up \in Nat : up = L.avail + q BY <1>1 DEF IsLot
<1> DEFINE M == NextVersion(L, up, "active")
           back == Post(acc, type, biz, M)
<1>3. /\ IsLot(M) /\ SameLot(L, M) /\ M.version > L.version
      /\ M.exp = L.exp /\ M.renewals = L.renewals /\ M.used = L.used /\ M.avail = up /\ M.status = "active"
 BY <1>1, NextVersionFacts
<1>4. back = Post(acc, type, biz, NextVersion(L, L.avail + q, "active")) BY <1>2, Zenon
<1>4a. Restore(acc, type, biz, q, at) = IF L.exp > at THEN back ELSE Post(back, "expiry", biz, NextVersion(back.lot, 0, "expired"))
 BY <1>4, Zenon DEF Restore
<1> HIDE DEF M
<1>5. /\ back.lot = M /\ Next1(acc, back, claims + (L.avail - M.avail), type, biz, M.avail - L.avail)
 <2>1. M.status = "active" <=> M.avail > 0 BY <1>1, <1>2, <1>3 DEF IsLot
 <2> QED BY <1>3, <2>1, PostFacts
<1> HIDE DEF back
<1>6. claims + (L.avail - M.avail) = claims - q /\ M.avail - L.avail = q BY <1>1, <1>2, <1>3 DEF IsLot
<1>7. Next1(acc, back, claims - q, type, biz, q) BY <1>5, <1>6, Zenon
<1>8. CASE L.exp > at
 BY <1>1, <1>3, <1>4a, <1>5, <1>7, <1>8 DEF IsLot
<1>9. CASE ~(L.exp > at)
 <2> DEFINE N == NextVersion(M, 0, "expired")
            gone == Post(back, "expiry", biz, N)
 <2>1. /\ IsLot(N) /\ SameLot(M, N) /\ N.version > M.version
       /\ N.exp = M.exp /\ N.renewals = M.renewals /\ N.used = M.used /\ N.avail = 0 /\ N.status = "expired"
  <3>1. IsLot(M) /\ 0 \in Nat /\ "expired" \in {"active", "depleted", "expired"} BY <1>3
  <3> QED BY <3>1, NextVersionFacts
 <2>2. Restore(acc, type, biz, q, at) = gone BY <1>4a, <1>5, <1>9, Zenon
 <2> HIDE DEF N
 <2>3. AccountOK(back, claims - q) /\ claims - q \in Int BY <1>7 DEF Next1
 <2>4. /\ gone.lot = N /\ Next1(back, gone, (claims - q) + 0, "expiry", biz, N.avail - back.lot.avail)
  <3>1. N.avail <= back.lot.avail /\ (N.status = "active" <=> N.avail > 0) BY <1>2, <1>3, <1>5, <2>1
  <3>2. SameLot(back.lot, N) /\ N.version > back.lot.version /\ N.exp = back.lot.exp /\ N.renewals = back.lot.renewals
   BY <1>5, <2>1
  <3> QED BY <2>1, <2>3, <3>1, <3>2, PostFacts
 <2> HIDE DEF gone
 <2>5. AccountOK(gone, claims - q)
  <3>1. (claims - q) + 0 = claims - q BY <2>3
  <3> QED BY <2>4, <3>1, Zenon DEF Next1
 <2>6. Added(acc.rows, gone.rows, type, biz, q) BY <1>7, <2>4, AddedThenExpired DEF Next1
 <2>7. SameLot(L, gone.lot) /\ gone.lot.version > L.version /\ gone.lot.exp = L.exp /\ gone.lot.renewals = L.renewals
  BY <1>1, <1>3, <2>1, <2>4 DEF SameLot, IsLot
 <2>8. Next1(acc, gone, claims - q, type, biz, q) BY <2>5, <2>6, <2>7 DEF Next1
 <2> QED BY <1>1, <1>3, <1>9, <2>1, <2>2, <2>4, <2>8 DEF IsLot
<1> QED BY <1>8, <1>9

LEMMA ExpireFacts ==
    ASSUME NEW L, NEW rows, NEW claims \in Nat, AccountOK([lot |-> L, rows |-> rows], claims), NEW biz, NEW at
    PROVE  LET acc == [lot |-> L, rows |-> rows]
               E == Expire(acc, biz, at)
           IN  /\ (L.status = "expired" => E = acc)
               /\ (L.status # "expired" => Next1(acc, E, claims, "expiry", biz, -L.avail))
               /\ E.lot.status = "expired" /\ E.lot.exp = L.exp
<1> DEFINE acc == [lot |-> L, rows |-> rows]
           E == Expire(acc, biz, at)
<1>0. acc.lot = L /\ acc.rows = rows OBVIOUS
<1>1. IsLot(L) /\ (L.status = "active" <=> L.avail > 0) /\ AccountOK(acc, claims) BY <1>0 DEF AccountOK
<1>3. CASE L.status = "expired"
 <2>1. E = acc BY <1>3, <1>0 DEF Expire
 <2> QED BY <1>0, <1>3, <2>1
<1>4. CASE L.status # "expired"
 <2> DEFINE N == NextVersion(L, 0, "expired")
 <2>1. /\ IsLot(N) /\ SameLot(L, N) /\ N.version > L.version
       /\ N.exp = L.exp /\ N.renewals = L.renewals /\ N.used = L.used /\ N.avail = 0 /\ N.status = "expired"
  BY <1>1, NextVersionFacts
 <2>2. E = IF L.avail = 0 THEN [acc EXCEPT !.lot = N] ELSE Post(acc, "expiry", biz, N)
  BY <1>0, <1>4, Zenon DEF Expire
 <2> HIDE DEF N
 <2>3. CASE L.avail = 0
  <3>1. E.lot = N /\ E.rows = rows BY <2>2, <2>3
  <3>2. AccountOK(E, claims) BY <1>0, <1>1, <2>1, <2>3, <3>1 DEF AccountOK, SameLot
  <3>3. Added(rows, rows, "expiry", biz, -L.avail) BY DEF Added
  <3> QED BY <1>0, <1>4, <2>1, <3>1, <3>2, <3>3 DEF Next1
 <2>4. CASE L.avail # 0
  <3>1. E = Post(acc, "expiry", biz, N) BY <2>2, <2>4
  <3>2. /\ E.lot = N /\ Next1(acc, E, claims + 0, "expiry", biz, N.avail - L.avail)
   <4>1. N.avail <= L.avail /\ (N.status = "active" <=> N.avail > 0) BY <1>1, <2>1 DEF IsLot
   <4> QED BY <1>0, <1>1, <2>1, <3>1, <4>1, PostFacts
  <3>3. claims + 0 = claims /\ N.avail - L.avail = -L.avail BY <1>1, <2>1 DEF IsLot
  <3>4. Next1(acc, E, claims, "expiry", biz, -L.avail) BY <3>2, <3>3, Zenon
  <3> QED BY <1>4, <2>1, <3>2, <3>4
 <2> QED BY <2>3, <2>4
<1> QED BY <1>3, <1>4

\* A lot that has just been issued as the given one.
IssuedAs(I, new, type, biz) ==
    /\ AccountOK(I, 0) /\ SameLot(new, I.lot) /\ I.lot.exp = new.exp /\ I.lot.renewals = new.renewals
    /\ I.lot.used = new.used /\ I.lot.status = "active" /\ OneIn(I.rows, type, biz, new.total)
    /\ \A t, b : ~(t = type /\ b = biz) => NoneIn(I.rows, t, b)

LEMMA IssueFacts ==
    ASSUME NEW new, DOMAIN new = LotFields, new.total \in Nat \ {0}, new.exp \in Int, new.orig \in Int,
           new.renewals \in Nat, NEW type, type # "expiry", NEW biz
    PROVE  IssuedAs(Issue(new, type, biz), new, type, biz)
<1> DEFINE I == Issue(new, type, biz)
           r == Row(type, biz, 0, new.total)
           rows == <<r>>
<1>1. PICK total \in Nat \ {0} : total = new.total OBVIOUS
<1>2. I.rows = rows /\ I.lot = [new EXCEPT !.avail = total, !.status = "active", !.version = 1]
 BY <1>1 DEF Issue
<1>3. /\ I.lot.avail = total /\ I.lot.status = "active" /\ I.lot.version = 1 /\ DOMAIN I.lot = LotFields
      /\ I.lot.total = total /\ SameLot(new, I.lot) /\ I.lot.exp = new.exp /\ I.lot.renewals = new.renewals
      /\ I.lot.used = new.used /\ I.lot.orig = new.orig
 BY <1>1, <1>2 DEF LotFields, SameLot
<1> HIDE DEF I
<1>4. r.type = type /\ r.biz = biz /\ r.before = 0 /\ r.after = total /\ r.delta = total /\ IsRow(r)
 BY <1>1 DEF Row, IsRow
<1> HIDE DEF r
<1>5. rows \in Seq({r}) /\ Len(rows) = 1 /\ DOMAIN rows = {1} /\ rows[1] = r OBVIOUS
<1> HIDE DEF rows
<1>6. LedgerOK(rows, total, total)
 <2>1. \E S : rows \in Seq(S) BY <1>5, Zenon
 <2> QED BY <1>1, <1>4, <1>5, <2>1 DEF LedgerOK
<1>7. Expired(rows) = 0
 <2> DEFINE f == [i \in DOMAIN rows |-> ExpiryOf(rows[i])]
 <2>1. IsFiniteSet({1}) BY FS_Singleton
 <2>2. \A i \in {1} : f[i] = 0 BY <1>4, <1>5 DEF ExpiryOf
 <2>3. Expired(rows) = SumFunctionOnSet(f, {1}) BY <1>5, Zenon DEF Expired
 <2> HIDE DEF f
 <2> QED BY <2>1, <2>2, <2>3, SumZero
<1>8. AccountOK(I, 0) BY <1>1, <1>2, <1>3, <1>6, <1>7 DEF AccountOK, IsLot
<1>9. OneIn(rows, type, biz, total) /\ \A t, b : ~(t = type /\ b = biz) => NoneIn(rows, t, b)
 BY <1>4, <1>5 DEF OneIn, NoneIn, Matching
<1>10. IssuedAs(I, new, type, biz) BY <1>1, <1>2, <1>3, <1>8, <1>9 DEF IssuedAs
<1> QED BY <1>10 DEF I
----------------------------------------
(* What the businesses claim of a lot. *)

Taken == {"held", "consumed", "claimed"}

GiftPart(l, S)       == SumFunctionOnSet([g \in Gifts |-> OfGift(l, g, S)], Gifts)
RedemptionPart(l, S) == SumFunctionOnSet([r \in Redemptions |-> OfRedemption(l, r, S)], Redemptions)
RefundPart(l, S)     == SumFunctionOnSet([p \in Purchases |-> OfRefund(l, p, S)], Purchases)

ClaimsTyped(l, S) ==
    /\ \A g \in Gifts : OfGift(l, g, S) \in Nat
    /\ \A r \in Redemptions : OfRedemption(l, r, S) \in Nat
    /\ \A p \in Purchases : OfRefund(l, p, S) \in Nat

LEMMA ClaimsParts == ASSUME NEW l, NEW S PROVE ClaimsOn(l, S) = GiftPart(l, S) + RedemptionPart(l, S) + RefundPart(l, S)
BY DEF ClaimsOn, GiftPart, RedemptionPart, RefundPart

LEMMA ClaimsNat ==
    ASSUME NEW l, NEW S, ClaimsTyped(l, S)
    PROVE  GiftPart(l, S) \in Nat /\ RedemptionPart(l, S) \in Nat /\ RefundPart(l, S) \in Nat /\ ClaimsOn(l, S) \in Nat
<1>1. GiftPart(l, S) \in Nat
 <2> DEFINE f == [g \in Gifts |-> OfGift(l, g, S)]
 <2>1. \A g \in Gifts : f[g] \in Nat BY DEF ClaimsTyped
 <2> HIDE DEF f
 <2>2. SumFunctionOnSet(f, Gifts) \in Nat BY <2>1, SumSubset, LotsAssumption
 <2> QED BY <2>2 DEF GiftPart, f
<1>2. RedemptionPart(l, S) \in Nat
 <2> DEFINE f == [r \in Redemptions |-> OfRedemption(l, r, S)]
 <2>1. \A g \in Redemptions : f[g] \in Nat BY DEF ClaimsTyped
 <2> HIDE DEF f
 <2>2. SumFunctionOnSet(f, Redemptions) \in Nat BY <2>1, SumSubset, LotsAssumption
 <2> QED BY <2>2 DEF RedemptionPart, f
<1>3. RefundPart(l, S) \in Nat
 <2> DEFINE f == [p \in Purchases |-> OfRefund(l, p, S)]
 <2>1. \A g \in Purchases : f[g] \in Nat BY DEF ClaimsTyped
 <2> HIDE DEF f
 <2>2. SumFunctionOnSet(f, Purchases) \in Nat BY <2>1, SumSubset, LotsAssumption
 <2> QED BY <2>2 DEF RefundPart, f
<1> QED BY <1>1, <1>2, <1>3, ClaimsParts

\* One business changes what it claims of a lot.
LEMMA GiftPartMoves ==
    ASSUME NEW l, NEW S, ClaimsTyped(l, S), NEW g \in Gifts, OfGift(l, g, S)' \in Nat,
           \A k \in Gifts \ {g} : OfGift(l, k, S)' = OfGift(l, k, S)
    PROVE  GiftPart(l, S)' = GiftPart(l, S) - OfGift(l, g, S) + OfGift(l, g, S)'
<1> DEFINE f == [k \in Gifts |-> OfGift(l, k, S)]
           h == [k \in Gifts |-> OfGift(l, k, S)']
<1>1. \A k \in Gifts : f[k] \in Int BY DEF ClaimsTyped
<1>2. h[g] \in Int /\ \A k \in Gifts \ {g} : h[k] = f[k] OBVIOUS
<1>3. GiftPart(l, S) = SumFunctionOnSet(f, Gifts) /\ GiftPart(l, S)' = SumFunctionOnSet(h, Gifts)
 BY DEF GiftPart
<1>4. f[g] = OfGift(l, g, S) /\ h[g] = OfGift(l, g, S)' OBVIOUS
<1> HIDE DEF f, h
<1>5. SumFunctionOnSet(h, Gifts) = SumFunctionOnSet(f, Gifts) - f[g] + h[g]
 BY <1>1, <1>2, SumChange, LotsAssumption
<1> QED BY <1>3, <1>4, <1>5

LEMMA RedemptionPartMoves ==
    ASSUME NEW l, NEW S, ClaimsTyped(l, S), NEW r \in Redemptions, OfRedemption(l, r, S)' \in Nat,
           \A k \in Redemptions \ {r} : OfRedemption(l, k, S)' = OfRedemption(l, k, S)
    PROVE  RedemptionPart(l, S)' = RedemptionPart(l, S) - OfRedemption(l, r, S) + OfRedemption(l, r, S)'
<1> DEFINE f == [k \in Redemptions |-> OfRedemption(l, k, S)]
           h == [k \in Redemptions |-> OfRedemption(l, k, S)']
<1>1. \A k \in Redemptions : f[k] \in Int BY DEF ClaimsTyped
<1>2. h[r] \in Int /\ \A k \in Redemptions \ {r} : h[k] = f[k] OBVIOUS
<1>3. RedemptionPart(l, S) = SumFunctionOnSet(f, Redemptions) /\ RedemptionPart(l, S)' = SumFunctionOnSet(h, Redemptions)
 BY DEF RedemptionPart
<1>4. f[r] = OfRedemption(l, r, S) /\ h[r] = OfRedemption(l, r, S)' OBVIOUS
<1> HIDE DEF f, h
<1>5. SumFunctionOnSet(h, Redemptions) = SumFunctionOnSet(f, Redemptions) - f[r] + h[r]
 BY <1>1, <1>2, SumChange, LotsAssumption
<1> QED BY <1>3, <1>4, <1>5

LEMMA RefundPartMoves ==
    ASSUME NEW l, NEW S, ClaimsTyped(l, S), NEW p \in Purchases, OfRefund(l, p, S)' \in Nat,
           \A k \in Purchases \ {p} : OfRefund(l, k, S)' = OfRefund(l, k, S)
    PROVE  RefundPart(l, S)' = RefundPart(l, S) - OfRefund(l, p, S) + OfRefund(l, p, S)'
<1> DEFINE f == [k \in Purchases |-> OfRefund(l, k, S)]
           h == [k \in Purchases |-> OfRefund(l, k, S)']
<1>1. \A k \in Purchases : f[k] \in Int BY DEF ClaimsTyped
<1>2. h[p] \in Int /\ \A k \in Purchases \ {p} : h[k] = f[k] OBVIOUS
<1>3. RefundPart(l, S) = SumFunctionOnSet(f, Purchases) /\ RefundPart(l, S)' = SumFunctionOnSet(h, Purchases)
 BY DEF RefundPart
<1>4. f[p] = OfRefund(l, p, S) /\ h[p] = OfRefund(l, p, S)' OBVIOUS
<1> HIDE DEF f, h
<1>5. SumFunctionOnSet(h, Purchases) = SumFunctionOnSet(f, Purchases) - f[p] + h[p]
 BY <1>1, <1>2, SumChange, LotsAssumption
<1> QED BY <1>3, <1>4, <1>5

\* The claims of a kind that does not move.
LEMMA GiftPartStays ==
    ASSUME NEW l, NEW S, UNCHANGED gift
    PROVE  GiftPart(l, S)' = GiftPart(l, S) /\ \A g \in Gifts : OfGift(l, g, S)' = OfGift(l, g, S)
BY DEF GiftPart, OfGift

LEMMA RedemptionPartStays ==
    ASSUME NEW l, NEW S, UNCHANGED redemption
    PROVE  RedemptionPart(l, S)' = RedemptionPart(l, S) /\ \A r \in Redemptions : OfRedemption(l, r, S)' = OfRedemption(l, r, S)
BY DEF RedemptionPart, OfRedemption

LEMMA RefundPartStays ==
    ASSUME NEW l, NEW S, UNCHANGED refund, lot'[l].total = lot[l].total
    PROVE  RefundPart(l, S)' = RefundPart(l, S) /\ \A p \in Purchases : OfRefund(l, p, S)' = OfRefund(l, p, S)
BY DEF RefundPart, OfRefund

----------------------------------------
(* The inductive invariant of wine tickets. *)

Issued == {l \in Lots : lot[l] # NoLot}

\* Lots in use are accounts in which nothing is lost.
LotsInv ==
    /\ DOMAIN lot = Lots /\ DOMAIN book = Lots /\ now \in Nat /\ \A l \in Lots \ Issued : book[l] = <<>>
    /\ \A l \in Issued : /\ AccountOK(Account(l), ClaimsOn(l, Taken))
                         /\ (lot[l].status = "expired" => lot[l].exp <= now)

\* The expiry of a lot descends from the given one by its completed renewals.
Chain(l, first) ==
    /\ first \in Int /\ lot[l].exp \in Int /\ first <= lot[l].exp
    /\ \A n \in CompletedOf(l) :
          /\ renewal[n].old \in Int /\ renewal[n].new \in Int
          /\ first <= renewal[n].old /\ renewal[n].old < lot[l].exp
          /\ first < renewal[n].new /\ renewal[n].new <= lot[l].exp
    /\ \A m, n \in CompletedOf(l) : renewal[m].old = renewal[n].old => m = n
    /\ \A x : (x = lot[l].exp \/ \E n \in CompletedOf(l) : x = renewal[n].old) <=>
              (x = first \/ \E n \in CompletedOf(l) : x = renewal[n].new)

\* A lot was renewed by its own renewals and those it inherited; without an inheritance
\* its expiry descends from the first one.
ChainsInv ==
    \A l \in Issued :
        /\ \E first : Chain(l, first)
        /\ Cardinality(CompletedOf(l)) <= lot[l].renewals
        /\ (Cardinality(CompletedOf(l)) = lot[l].renewals => Chain(l, lot[l].orig))

\* The row of a gift, and its lines in the lots and the ledger.
GiftHead(G) ==
    /\ DOMAIN G = GiftFields /\ G.status \in {"none", "pending"} \cup GiftTerminal
    /\ \A l \in DOMAIN G.alloc : G.alloc[l] \in Nat \ {0}
    /\ (G.status = "none" => DOMAIN G.alloc = {} /\ G.allocStatus = "none")
    /\ (G.status = "pending" => G.allocStatus = "held")
    /\ (G.status = "claimed" => G.allocStatus = "claimed")
    /\ (G.status \in {"cancelled", "expired_returned"} => G.allocStatus = "restored")
    /\ (G.status # "none" =>
          /\ SumFunctionOnSet(G.alloc, DOMAIN G.alloc) = G.qty
          /\ G.giver \in Customers /\ (G.receiver # NoOne <=> G.status = "claimed") /\ G.receiver # G.giver)

GiftLine(g, l) ==
    LET G == gift[g] IN
    /\ l \in Issued /\ lot[l].owner = G.giver /\ G.alloc[l] <= lot[l].total
    /\ OneIn(book[l], "gift_hold", g, -G.alloc[l])
    /\ (G.allocStatus = "held" => lot[l].exp = G.srcExp[l])
    /\ (G.allocStatus = "restored" => OneIn(book[l], "gift_restore", g, G.alloc[l]))
    /\ (G.allocStatus = "claimed" =>
          LET k == G.rcv[l] IN
          /\ k \in Issued /\ lot[k].owner = G.receiver /\ lot[k].from = <<g, l>> /\ lot[k].total = G.alloc[l]
          /\ Chain(k, G.srcExp[l]) /\ OneIn(book[k], "gift_claim", g, G.alloc[l]))

GiftRows(g, l) ==
    /\ (l \notin DOMAIN gift[g].alloc => NoneIn(book[l], "gift_hold", g))
    /\ (gift[g].allocStatus # "restored" => NoneIn(book[l], "gift_restore", g))

GiftOK(g) ==
    /\ GiftHead(gift[g]) /\ \A l \in DOMAIN gift[g].alloc : GiftLine(g, l)
    /\ \A l \in Lots : GiftRows(g, l)

GiftsInv == DOMAIN gift = Gifts /\ \A g \in Gifts : GiftOK(g)

\* The same for redemptions.
RedemptionFields == {"status", "owner", "qty", "alloc", "srcExp", "allocStatus", "slot", "ret"}

RedemptionHead(R) ==
    /\ DOMAIN R = RedemptionFields
    /\ R.status \in {"none", "scheduled", "assigned", "picked_up", "delivered", "return_in_progress", "cancelled", "restored"}
    /\ \A l \in DOMAIN R.alloc : R.alloc[l] \in Nat \ {0}
    /\ (R.status = "none" => DOMAIN R.alloc = {} /\ R.allocStatus = "none" /\ R.slot = "none")
    /\ (R.status \in {"scheduled", "assigned", "picked_up", "return_in_progress"} => R.allocStatus = "held")
    /\ (R.status = "delivered" => R.allocStatus = "consumed")
    /\ (R.status \in {"cancelled", "restored"} => R.allocStatus = "restored")
    /\ (R.status # "none" => SumFunctionOnSet(R.alloc, DOMAIN R.alloc) = R.qty /\ R.slot \in Slots)
    /\ (R.status \in {"scheduled", "assigned"} => R.ret = FALSE)

RedemptionLine(r, l) ==
    LET R == redemption[r] IN
    /\ l \in Issued /\ lot[l].owner = R.owner /\ R.alloc[l] <= lot[l].total
    /\ OneIn(book[l], "redemption_hold", r, -R.alloc[l])
    /\ (R.allocStatus = "held" => lot[l].exp = R.srcExp[l])
    /\ (R.status = "cancelled" => OneIn(book[l], "redemption_restore", r, R.alloc[l]))
    /\ (R.status = "restored" => OneIn(book[l], "redemption_return_restore", r, R.alloc[l]))

RedemptionRows(r, l) ==
    /\ (l \notin DOMAIN redemption[r].alloc => NoneIn(book[l], "redemption_hold", r))
    /\ (redemption[r].status # "cancelled" => NoneIn(book[l], "redemption_restore", r))
    /\ (redemption[r].status # "restored" => NoneIn(book[l], "redemption_return_restore", r))

RedemptionOK(r) ==
    /\ RedemptionHead(redemption[r]) /\ \A l \in DOMAIN redemption[r].alloc : RedemptionLine(r, l)
    /\ \A l \in Lots : RedemptionRows(r, l)

RedemptionsInv == DOMAIN redemption = Redemptions /\ \A r \in Redemptions : RedemptionOK(r)

\* A quote that still holds is of a lot nobody holds, with the expiry it was given for.
RenewalFields == {"status", "lot", "owner", "old", "new", "free", "version"}

RenewalHead(n) ==
    LET R == renewal[n] IN
    /\ DOMAIN R = RenewalFields
    /\ R.status \in ActiveRenewalStatuses \cup {"none", "quoted", "completed", "closed", "refunded"}
    /\ R.free \in BOOLEAN
    /\ (R.status # "none" =>
          /\ R.lot \in Issued /\ R.owner = lot[R.lot].owner /\ R.old \in Int /\ R.new = R.old + Extension
          /\ R.version \in Nat /\ R.version <= lot[R.lot].version)
    /\ (R.status = "quoted" /\ R.version = lot[R.lot].version => R.old = lot[R.lot].exp /\ ~HeldFor(R.lot))

RenewalPay(n) ==
    LET R == renewal[n] IN
    /\ (R.status \in {"none", "quoted"} => pay[n] = NoPay)
    /\ (R.status \notin {"none", "quoted"} /\ R.free => pay[n] = NoPay /\ R.status = "completed")
    /\ (R.status \in {"pending_payment", "payment_unknown"} => pay[n].status # "succeeded")
    /\ (R.status = "completed" => R.free \/ pay[n].status = "succeeded")
    /\ (R.status = "closed" => pay[n].status \in {"closed", "failed", "exception"})
    /\ (R.status \in {"compensating_refund", "refund_exception"} =>
          pay[n].status = "succeeded" /\ comp[n] # <<>> /\ comp[n][Len(comp[n])] # "succeeded")
    /\ (R.status = "refunded" => /\ pay[n].status = "succeeded" /\ comp[n] # <<>> /\ comp[n][Len(comp[n])] = "succeeded"
                                 /\ Len(comp[n]) \in DOMAIN given[n] /\ given[n][Len(comp[n])] = "success")

RenewalsInv ==
    /\ DOMAIN renewal = Renewals /\ \A n \in Renewals : RenewalHead(n) /\ RenewalPay(n)
    /\ \A m, n \in Renewals :
          renewal[m].lot = renewal[n].lot /\ {renewal[m].status, renewal[n].status} \subseteq ActiveRenewalStatuses => m = n

\* A payment nobody has drawn up has no trade.
PaysInv ==
    /\ DOMAIN pay = Payables /\ DOMAIN trade = Payables
    /\ \A b \in Payables :
          /\ DOMAIN pay[b] = {"status", "exp", "told"}
          /\ (pay[b].status = "none" => trade[b] = "none" /\ pay[b] = NoPay)

\* Of a purchase there is one lot at most; a customer's refund keeps it as it was, used up.
PurchaseFields == {"status", "owner", "lot", "paidAt"}
RefundFields == {"status", "kind", "lot", "alloc", "srcExp", "version", "until"}
PaidPurchase == {"issued", "refund_holding", "refund_exception", "refunded"}

PurchaseHead(p) ==
    LET P == purchase[p]
        R == refund[p]
    IN  /\ DOMAIN P = PurchaseFields /\ DOMAIN R = RefundFields
        /\ P.status \in {"none", "pending_payment", "payment_unknown", "settlement_exception", "closed"} \cup PaidPurchase
        /\ (P.status # "none" => P.owner \in Customers)
        /\ (P.lot # 0 => P.status \in PaidPurchase) /\ (P.status = "issued" => P.lot # 0)
        /\ (P.status = "none" => pay[p] = NoPay)
        /\ (pay[p].status = "succeeded" <=> P.status \in PaidPurchase)
        /\ R.kind \in {"none", "user_unused", "issuance_compensation"}
        /\ (R.kind = "none" <=> P.status \notin RepaidPurchase)
        /\ (R.kind = "none" <=> R.status \in {"none", "quoted"})
        /\ (R.kind # "user_unused" => R.lot = 0 /\ R.alloc = "none")
        /\ (R.kind = "issuance_compensation" => P.lot = 0)
        /\ (P.status = "refunded" <=> R.status = "succeeded")
        /\ (P.status \in {"refund_holding", "refund_exception"} => comp[p] # <<>> /\ comp[p][Len(comp[p])] # "succeeded")
        /\ (P.status = "refunded" => /\ comp[p] # <<>> /\ comp[p][Len(comp[p])] = "succeeded"
                                     /\ Len(comp[p]) \in DOMAIN given[p] /\ given[p][Len(comp[p])] = "success")

PurchaseLine(p) ==
    LET P == purchase[p]
        R == refund[p]
    IN  /\ (P.lot # 0 => /\ P.lot \in Issued /\ lot[P.lot].from = <<p>> /\ lot[P.lot].total = Bottles
                         /\ OneIn(book[P.lot], "purchase_issue", p, Bottles))
        /\ \A l \in Issued : lot[l].from = <<p>> => l = P.lot
        /\ (R.kind = "user_unused" =>
              /\ P.lot # 0 /\ R.lot = P.lot /\ ~EverTouched(R.lot) /\ OneIn(book[R.lot], "refund_hold", p, -Bottles)
              /\ ~lot[R.lot].used /\ lot[R.lot].avail = 0 /\ lot[R.lot].exp = R.srcExp
              /\ IF R.status = "succeeded" THEN lot[R.lot].status = "refunded" /\ R.alloc = "consumed"
                 ELSE lot[R.lot].status = "depleted" /\ R.alloc = "held")
        /\ (R.kind # "user_unused" => \A l \in Lots : NoneIn(book[l], "refund_hold", p))

PurchasesInv ==
    /\ DOMAIN purchase = Purchases /\ DOMAIN refund = Purchases
    /\ \A p \in Purchases : PurchaseHead(p) /\ PurchaseLine(p)

\* The places taken of a window.
TakenOf(s) == {r \in Redemptions : redemption[r].slot = s /\ redemption[r].status # "cancelled"}
SlotFields == {"status", "start", "end", "cutoff", "cap", "reserved"}

SlotsInv ==
    /\ DOMAIN slot = Slots
    /\ \A s \in Slots :
          /\ DOMAIN slot[s] = SlotFields /\ slot[s].cap \in Nat
          /\ slot[s].reserved = Cardinality(TakenOf(s)) /\ slot[s].reserved <= slot[s].cap
          /\ (slot[s].status = "none" => TakenOf(s) = {})
          /\ (slot[s].status = "open" => ~Overlaps(s, slot[s]))

\* The packages a customer has reserved and bought.
OpenOf(c) == {p \in Purchases : purchase[p].owner = c /\ Open(p)}
PaidOf(c) == {p \in Purchases : purchase[p].owner = c /\ pay[p].status = "succeeded"}

QuotasInv ==
    /\ DOMAIN quota = Customers
    /\ \A c \in Customers : /\ DOMAIN quota[c] = {"reserved", "consumed"} /\ QuotaRule(c)

TicketsInv ==
    /\ LotsInv /\ ChainsInv /\ GiftsInv /\ RedemptionsInv /\ RenewalsInv /\ PaysInv /\ PurchasesInv
    /\ SlotsInv /\ QuotasInv

----------------------------------------
(* What follows at once. *)

LEMMA IssuedLot ==
    ASSUME LotsInv, NEW l \in Issued
    PROVE  /\ l \in Lots /\ IsLot(lot[l]) /\ lot[l].status # "none"
           /\ (lot[l].status = "active" <=> lot[l].avail > 0)
           /\ Account(l) = [lot |-> lot[l], rows |-> book[l]] /\ Account(l).lot = lot[l] /\ Account(l).rows = book[l]
<1>1. l \in Lots /\ AccountOK(Account(l), ClaimsOn(l, Taken)) BY DEF LotsInv, Issued
<1>2. Account(l) = [lot |-> lot[l], rows |-> book[l]] /\ Account(l).lot = lot[l] /\ Account(l).rows = book[l]
 BY DEF Account
<1>3. IsLot(lot[l]) /\ (lot[l].status = "active" <=> lot[l].avail > 0) BY <1>1, <1>2 DEF AccountOK
<1> QED BY <1>1, <1>2, <1>3 DEF IsLot

LEMMA NoLotFacts ==
    /\ NoLot.status = "none" /\ NoLot.total = 0 /\ NoLot.avail = 0 /\ DOMAIN NoLot = LotFields
BY DEF NoLot, LotFields

\* A lot that is not the empty row is one that has a status.
LEMMA InUse ==
    ASSUME LotsInv, NEW l \in Lots, lot[l].status # "none" PROVE l \in Issued
BY NoLotFacts DEF Issued

LEMMA Claimed0 ==
    ASSUME LotsInv, GiftsInv, RedemptionsInv, PurchasesInv, NEW l \in Lots, NEW S
    PROVE  ClaimsTyped(l, S) /\ ClaimsOn(l, S) \in Nat
<1>1. \A g \in Gifts : OfGift(l, g, S) \in Nat BY DEF GiftsInv, GiftOK, GiftHead, OfGift
<1>2. \A r \in Redemptions : OfRedemption(l, r, S) \in Nat
 BY DEF RedemptionsInv, RedemptionOK, RedemptionHead, OfRedemption
<1>3. lot[l].total \in Nat BY IssuedLot, NoLotFacts DEF Issued, IsLot
<1>4. \A p \in Purchases : OfRefund(l, p, S) \in Nat BY <1>3 DEF OfRefund
<1> QED BY <1>1, <1>2, <1>4, ClaimsNat DEF ClaimsTyped
----------------------------------------
(* Steps, as seen by those who have no part in them. *)

LotStays(l) == lot'[l] = lot[l] /\ book'[l] = book[l] /\ ClaimsOn(l, Taken)' = ClaimsOn(l, Taken)

LotMoves(l, types, biz) ==
    /\ \E t, b, d : /\ t = "expiry" \/ (t \in types /\ b = biz)
                    /\ Next1(Account(l), Account(l)', ClaimsOn(l, Taken)', t, b, d)
    /\ (lot'[l].status = "expired" => lot'[l].exp <= now)

LotStarts(l, types, biz) ==
    /\ AccountOK(Account(l)', ClaimsOn(l, Taken)') /\ lot'[l].status = "active"
    /\ \A t, b : ~(t \in types /\ b = biz) => NoneIn(book'[l], t, b)

\* The asset service writes accounts, with rows of the given types for one business.
AccountsMove(types, biz) ==
    /\ DOMAIN lot' = Lots /\ DOMAIN book' = Lots
    /\ \A l \in Issued : LotStays(l) \/ LotMoves(l, types, biz)
    /\ \A l \in Lots \ Issued : LotStays(l) \/ LotStarts(l, types, biz)

RowsKept(types, biz) ==
    \A l \in Lots : \A t, b : t # "expiry" /\ ~(t \in types /\ b = biz) =>
        /\ NoneIn(book'[l], t, b) <=> NoneIn(book[l], t, b)
        /\ \A d : OneIn(book'[l], t, b, d) <=> OneIn(book[l], t, b, d)

LotsKept == \A l \in Issued : l \in Issued' /\ SameLot(lot[l], lot'[l]) /\ lot'[l].version >= lot[l].version

LotsUntouched == \A l \in Issued : /\ lot'[l].exp = lot[l].exp /\ lot'[l].renewals = lot[l].renewals
                                   /\ (lot'[l].version = lot[l].version => lot'[l] = lot[l])

ChainsKept == \A l \in Issued : \A first : Chain(l, first) => Chain(l, first)'

LEMMA EmptyBook == ASSUME NEW t, NEW b PROVE NoneIn(<<>>, t, b) /\ \A d : ~OneIn(<<>>, t, b, d)
BY DEF NoneIn, OneIn, Matching

LEMMA OneNotNone == ASSUME NEW rows, NEW t, NEW b, NEW d, NoneIn(rows, t, b) PROVE ~OneIn(rows, t, b, d)
BY DEF NoneIn, OneIn

LEMMA AccountsStep ==
    ASSUME LotsInv, NEW types, NEW biz, AccountsMove(types, biz), now' \in Nat, now <= now'
    PROVE  LotsInv' /\ LotsKept /\ LotsUntouched /\ RowsKept(types, biz)
<1>1. \A l \in Lots : Account(l)'.lot = lot'[l] /\ Account(l)'.rows = book'[l] BY DEF Account
<1>2. \A l \in Issued : l \in Lots /\ Account(l).lot = lot[l] /\ Account(l).rows = book[l] /\ IsLot(lot[l])
 BY IssuedLot
<1>3. \A l \in Lots : l \notin Issued <=> lot[l] = NoLot BY DEF Issued
<1>3a. \A l \in Lots : l \in Issued' <=> lot'[l] # NoLot BY DEF Issued
<1>3b. Issued \subseteq Lots BY DEF Issued
<1>4. ASSUME NEW l \in Issued
      PROVE  /\ l \in Issued' /\ SameLot(lot[l], lot'[l]) /\ lot'[l].version >= lot[l].version
             /\ lot'[l].exp = lot[l].exp /\ lot'[l].renewals = lot[l].renewals
             /\ (lot'[l].version = lot[l].version => lot'[l] = lot[l])
             /\ AccountOK(Account(l)', ClaimsOn(l, Taken)') /\ (lot'[l].status = "expired" => lot'[l].exp <= now')
             /\ \A t, b : t # "expiry" /\ ~(t \in types /\ b = biz) =>
                   /\ NoneIn(book'[l], t, b) <=> NoneIn(book[l], t, b)
                   /\ \A d : OneIn(book'[l], t, b, d) <=> OneIn(book[l], t, b, d)
 <2>0. l \in Lots /\ IsLot(lot[l]) /\ AccountOK(Account(l), ClaimsOn(l, Taken)) /\ (lot[l].status = "expired" => lot[l].exp <= now) /\ now \in Nat
  BY <1>2, <1>4 DEF LotsInv
 <2>1. CASE LotStays(l)
  <3>1. lot'[l] = lot[l] /\ book'[l] = book[l] /\ ClaimsOn(l, Taken)' = ClaimsOn(l, Taken)
   BY <2>1 DEF LotStays
  <3>2. Account(l)' = Account(l) BY <3>1 DEF Account
  <3>3. AccountOK(Account(l)', ClaimsOn(l, Taken)') BY <2>0, <3>1, <3>2, Zenon
  <3>4. l \in Issued' BY <1>3, <1>3a, <1>4, <2>0, <3>1
  <3>5. SameLot(lot[l], lot'[l]) BY <3>1 DEF SameLot
  <3>6. lot[l].version \in Nat /\ lot[l].exp \in Int BY <2>0 DEF IsLot
  <3> QED BY <2>0, <3>1, <3>3, <3>4, <3>5, <3>6
 <2>2. CASE LotMoves(l, types, biz)
  <3>1. PICK t, b, d : /\ t = "expiry" \/ (t \in types /\ b = biz)
                       /\ Next1(Account(l), Account(l)', ClaimsOn(l, Taken)', t, b, d)
   BY <2>2 DEF LotMoves
  <3>2. /\ AccountOK(Account(l)', ClaimsOn(l, Taken)') /\ SameLot(lot[l], lot'[l])
        /\ lot'[l].version > lot[l].version /\ lot'[l].exp = lot[l].exp /\ lot'[l].renewals = lot[l].renewals
        /\ Added(book[l], book'[l], t, b, d)
   BY <1>1, <1>2, <2>0, <3>1 DEF Next1
  <3>3. IsLot(lot'[l]) BY <1>1, <2>0, <3>2 DEF AccountOK
  <3>4. l \in Issued' BY <1>3a, <2>0, <3>3, NoLotFacts DEF IsLot
  <3>5. lot'[l].version >= lot[l].version /\ lot'[l].version # lot[l].version BY <2>0, <3>2, <3>3 DEF IsLot
  <3>6. lot'[l].status = "expired" => lot'[l].exp <= now' BY <2>0, <2>2, <3>3 DEF LotMoves, IsLot
  <3>7. \A u, c : u # "expiry" /\ ~(u \in types /\ c = biz) =>
                 /\ NoneIn(book'[l], u, c) <=> NoneIn(book[l], u, c)
                 /\ \A e : OneIn(book'[l], u, c, e) <=> OneIn(book[l], u, c, e)
   BY <3>1, <3>2 DEF Added
  <3> QED BY <3>2, <3>4, <3>5, <3>6, <3>7
 <2> QED BY <2>1, <2>2, <1>4 DEF AccountsMove
<1>5. ASSUME NEW l \in Lots \ Issued
      PROVE  /\ (l \notin Issued' => book'[l] = <<>>)
             /\ (l \in Issued' => AccountOK(Account(l)', ClaimsOn(l, Taken)') /\ (lot'[l].status = "expired" => lot'[l].exp <= now'))
             /\ \A t, b : t # "expiry" /\ ~(t \in types /\ b = biz) =>
                   /\ NoneIn(book'[l], t, b) <=> NoneIn(book[l], t, b)
                   /\ \A d : OneIn(book'[l], t, b, d) <=> OneIn(book[l], t, b, d)
 <2>0. lot[l] = NoLot /\ book[l] = <<>> BY <1>3, <1>5 DEF LotsInv
 <2>1. CASE LotStays(l)
  <3>1. lot'[l] = lot[l] /\ book'[l] = book[l] BY <2>1 DEF LotStays
  <3> QED BY <1>3a, <2>0, <3>1
 <2>2. CASE LotStarts(l, types, biz)
  <3>1. lot'[l].status = "active" /\ AccountOK(Account(l)', ClaimsOn(l, Taken)') BY <2>2 DEF LotStarts
  <3>2. l \in Issued' BY <1>3a, <3>1, NoLotFacts
  <3>3. ASSUME NEW t, NEW b, ~(t \in types /\ b = biz)
        PROVE  /\ NoneIn(book'[l], t, b) /\ NoneIn(book[l], t, b)
               /\ \A d : ~OneIn(book'[l], t, b, d) /\ ~OneIn(book[l], t, b, d)
   <4>1. NoneIn(book'[l], t, b) BY <2>2, <3>3 DEF LotStarts
   <4>2. NoneIn(book[l], t, b) BY <2>0, EmptyBook
   <4> QED BY <4>1, <4>2, OneNotNone
  <3> QED BY <3>1, <3>2, <3>3
 <2> QED BY <2>1, <2>2, <1>5 DEF AccountsMove
<1>6. LotsInv'
 <2>1. DOMAIN lot' = Lots /\ DOMAIN book' = Lots BY DEF AccountsMove
 <2>2. \A l \in Lots : l \notin Issued' => book'[l] = <<>> BY <1>4, <1>5
 <2>3. \A l \in Issued' : /\ AccountOK(Account(l)', ClaimsOn(l, Taken)')
                          /\ (lot'[l].status = "expired" => lot'[l].exp <= now')
  <3>1. Issued' \subseteq Lots BY DEF Issued
  <3> QED BY <1>4, <1>5, <3>1
 <2> QED BY <2>1, <2>2, <2>3 DEF LotsInv
<1>7. LotsKept /\ LotsUntouched BY <1>4 DEF LotsKept, LotsUntouched
<1>8. RowsKept(types, biz) BY <1>4, <1>5 DEF RowsKept
<1> QED BY <1>6, <1>7, <1>8
GiftTypes       == {"gift_hold", "gift_restore", "gift_claim"}
RedemptionTypes == {"redemption_hold", "redemption_restore", "redemption_return_restore"}
PurchaseTypes   == {"purchase_issue", "refund_hold"}

\* A gift that has no part in a step.
LEMMA GiftFrame ==
    ASSUME NEW g \in Gifts, GiftOK(g), gift'[g] = gift[g], LotsKept, ChainsKept, NEW types, NEW biz, RowsKept(types, biz),
           types \cap GiftTypes = {} \/ biz # g,
           gift[g].allocStatus = "held" => \A l \in DOMAIN gift[g].alloc : lot'[l].exp = lot[l].exp
    PROVE  GiftOK(g)'
<1> DEFINE G == gift[g]
<1>1. \A l \in Lots : \A t \in GiftTypes :
         /\ NoneIn(book'[l], t, g) <=> NoneIn(book[l], t, g)
         /\ \A d : OneIn(book'[l], t, g, d) <=> OneIn(book[l], t, g, d)
 BY DEF RowsKept, GiftTypes
<1>2. GiftHead(gift'[g]) BY DEF GiftOK
<1>3. ASSUME NEW l \in DOMAIN G.alloc PROVE GiftLine(g, l)'
 <2>1. GiftLine(g, l) BY <1>3 DEF GiftOK
 <2>2. l \in Issued /\ l \in Lots BY <2>1 DEF GiftLine, Issued
 <2>3. /\ l \in Issued' /\ lot'[l].owner = G.giver /\ G.alloc[l] <= lot'[l].total
       /\ OneIn(book'[l], "gift_hold", g, -G.alloc[l])
       /\ (G.allocStatus = "held" => lot'[l].exp = G.srcExp[l])
       /\ (G.allocStatus = "restored" => OneIn(book'[l], "gift_restore", g, G.alloc[l]))
  BY <1>1, <1>3, <2>1, <2>2 DEF GiftLine, LotsKept, SameLot, GiftTypes
 <2>4. ASSUME G.allocStatus = "claimed"
       PROVE  LET k == G.rcv[l] IN
              /\ k \in Issued' /\ lot'[k].owner = G.receiver /\ lot'[k].from = <<g, l>> /\ lot'[k].total = G.alloc[l]
              /\ Chain(k, G.srcExp[l])' /\ OneIn(book'[k], "gift_claim", g, G.alloc[l])
  <3> DEFINE k == G.rcv[l]
  <3>1. /\ k \in Issued /\ lot[k].owner = G.receiver /\ lot[k].from = <<g, l>> /\ lot[k].total = G.alloc[l]
        /\ Chain(k, G.srcExp[l]) /\ OneIn(book[k], "gift_claim", g, G.alloc[l])
   BY <2>1, <2>4 DEF GiftLine
  <3>2. k \in Lots BY <3>1 DEF Issued
  <3>3. k \in Issued' /\ lot'[k].owner = G.receiver /\ lot'[k].from = <<g, l>> /\ lot'[k].total = G.alloc[l]
   BY <3>1 DEF LotsKept, SameLot
  <3>4. OneIn(book'[k], "gift_claim", g, G.alloc[l]) BY <1>1, <3>1, <3>2 DEF GiftTypes
  <3>5. PICK e : e = G.srcExp[l] OBVIOUS
  <3>5a. PICK j : j = k OBVIOUS
  <3>6. Chain(j, e)' BY <3>1, <3>5, <3>5a DEF ChainsKept
  <3>7. gift'[g].rcv[l] = j /\ gift'[g].srcExp[l] = e BY <3>5, <3>5a
  <3> QED BY <3>3, <3>4, <3>6, <3>5, <3>5a
 <2>5. PICK k, e, a : k = G.rcv[l] /\ e = G.srcExp[l] /\ a = G.alloc[l] OBVIOUS
 <2>6. gift'[g].rcv[l] = k /\ gift'[g].srcExp[l] = e /\ gift'[g].alloc[l] = a /\ gift'[g] = G BY <2>5
 <2> QED BY <2>3, <2>4, <2>5, <2>6 DEF GiftLine
<1>4. \A l \in Lots : GiftRows(g, l)' BY <1>1 DEF GiftRows, GiftOK, GiftTypes
<1> QED BY <1>2, <1>3, <1>4 DEF GiftOK

LEMMA RedemptionFrame ==
    ASSUME NEW r \in Redemptions, RedemptionOK(r), redemption'[r] = redemption[r], LotsKept,
           NEW types, NEW biz, RowsKept(types, biz), types \cap RedemptionTypes = {} \/ biz # r,
           redemption[r].allocStatus = "held" => \A l \in DOMAIN redemption[r].alloc : lot'[l].exp = lot[l].exp
    PROVE  RedemptionOK(r)'
<1> DEFINE R == redemption[r]
<1>1. \A l \in Lots : \A t \in RedemptionTypes :
         /\ NoneIn(book'[l], t, r) <=> NoneIn(book[l], t, r)
         /\ \A d : OneIn(book'[l], t, r, d) <=> OneIn(book[l], t, r, d)
 BY DEF RowsKept, RedemptionTypes
<1>2. RedemptionHead(redemption'[r]) BY DEF RedemptionOK
<1>3. ASSUME NEW l \in DOMAIN R.alloc PROVE RedemptionLine(r, l)'
 <2>1. RedemptionLine(r, l) BY <1>3 DEF RedemptionOK
 <2>2. l \in Issued /\ l \in Lots BY <2>1 DEF RedemptionLine, Issued
 <2> QED BY <1>1, <1>3, <2>1, <2>2 DEF RedemptionLine, LotsKept, SameLot, RedemptionTypes
<1>4. \A l \in Lots : RedemptionRows(r, l)' BY <1>1 DEF RedemptionRows, RedemptionOK, RedemptionTypes
<1> QED BY <1>2, <1>3, <1>4 DEF RedemptionOK

\* What of a purchase is about lots, when neither it nor its refund changes. The lot of a
\* refund must stay as it is.
LEMMA PurchaseFrame ==
    ASSUME NEW p \in Purchases, PurchaseLine(p), purchase'[p].lot = purchase[p].lot, refund'[p] = refund[p], LotsKept,
           NEW types, NEW biz, RowsKept(types, biz), types \cap PurchaseTypes = {} \/ biz # p,
           \A l \in Issued' \ Issued : lot'[l].from # <<p>>,
           refund[p].kind = "user_unused" => lot'[refund[p].lot] = lot[refund[p].lot] /\ ~EverTouched(refund[p].lot)'
    PROVE  PurchaseLine(p)'
<1>1. \A l \in Lots : \A t \in PurchaseTypes :
         /\ NoneIn(book'[l], t, p) <=> NoneIn(book[l], t, p)
         /\ \A d : OneIn(book'[l], t, p, d) <=> OneIn(book[l], t, p, d)
 BY DEF RowsKept, PurchaseTypes
<1>2. Issued \subseteq Lots BY DEF Issued
<1>3. PICK l : l = refund[p].lot /\ l = refund'[p].lot OBVIOUS
<1>4. purchase[p].lot # 0 => /\ purchase[p].lot \in Issued' /\ lot'[purchase[p].lot].from = <<p>> /\ lot'[purchase[p].lot].total = Bottles
                             /\ OneIn(book'[purchase[p].lot], "purchase_issue", p, Bottles)
 BY <1>1, <1>2 DEF PurchaseLine, LotsKept, SameLot, PurchaseTypes
<1>5. \A k \in Issued' : lot'[k].from = <<p>> => k = purchase[p].lot
 <2> SUFFICES ASSUME NEW k \in Issued', lot'[k].from = <<p>> PROVE k = purchase[p].lot
  OBVIOUS
 <2>1. k \in Issued OBVIOUS
 <2>2. lot[k].from = <<p>> BY <2>1 DEF LotsKept, SameLot
 <2> QED BY <2>1, <2>2 DEF PurchaseLine
<1>6. refund[p].kind # "user_unused" => \A k \in Lots : NoneIn(book'[k], "refund_hold", p)
 BY <1>1 DEF PurchaseLine, PurchaseTypes
<1>7. ASSUME refund[p].kind = "user_unused"
      PROVE  /\ purchase[p].lot # 0 /\ l = purchase[p].lot /\ ~EverTouched(l)'
             /\ OneIn(book'[l], "refund_hold", p, -Bottles)
             /\ ~lot'[l].used /\ lot'[l].avail = 0 /\ lot'[l].exp = refund[p].srcExp
             /\ IF refund[p].status = "succeeded" THEN lot'[l].status = "refunded" /\ refund[p].alloc = "consumed"
                ELSE lot'[l].status = "depleted" /\ refund[p].alloc = "held"
 <2>1. l \in Lots /\ lot'[l] = lot[l] BY <1>2, <1>3, <1>7 DEF PurchaseLine
 <2>2. ~EverTouched(l)' BY <1>3, <1>7
 <2> QED BY <1>1, <1>3, <1>7, <2>1, <2>2 DEF PurchaseLine, PurchaseTypes
<1> QED BY <1>3, <1>4, <1>5, <1>6, <1>7 DEF PurchaseLine

LEMMA RenewalFrame ==
    ASSUME NEW n \in Renewals, RenewalHead(n), renewal'[n] = renewal[n], LotsKept, LotsInv, LotsInv',
           renewal[n].status = "quoted" =>
              LET l == renewal[n].lot IN
              lot'[l].version = lot[l].version => lot'[l].exp = lot[l].exp /\ (HeldFor(l)' => HeldFor(l))
    PROVE  RenewalHead(n)'
<1>1. PICK l : l = renewal[n].lot /\ l = renewal'[n].lot OBVIOUS
<1>2. renewal[n].status # "none" =>
         /\ l \in Issued /\ l \in Issued' /\ SameLot(lot[l], lot'[l]) /\ lot'[l].version >= lot[l].version
         /\ lot[l].version \in Nat /\ lot'[l].version \in Nat
 <2> SUFFICES ASSUME renewal[n].status # "none" PROVE
        /\ l \in Issued /\ l \in Issued' /\ SameLot(lot[l], lot'[l]) /\ lot'[l].version >= lot[l].version
        /\ lot[l].version \in Nat /\ lot'[l].version \in Nat
  OBVIOUS
 <2>1. l \in Issued BY <1>1 DEF RenewalHead
 <2>2. l \in Issued' /\ SameLot(lot[l], lot'[l]) /\ lot'[l].version >= lot[l].version BY <2>1 DEF LotsKept
 <2>3. IsLot(lot[l]) BY <2>1, IssuedLot
 <2>4. IsLot(lot'[l])
  <3>1. AccountOK(Account(l)', ClaimsOn(l, Taken)') BY <2>2 DEF LotsInv
  <3> QED BY <3>1 DEF AccountOK, Account
 <2> QED BY <2>1, <2>2, <2>3, <2>4 DEF IsLot
<1>3. renewal[n].status = "quoted" /\ renewal[n].version = lot'[l].version => renewal[n].old = lot'[l].exp /\ ~HeldFor(l)'
 <2> SUFFICES ASSUME renewal[n].status = "quoted", renewal[n].version = lot'[l].version
              PROVE  renewal[n].old = lot'[l].exp /\ ~HeldFor(l)'
  OBVIOUS
 <2>1. renewal[n].version <= lot[l].version /\ renewal[n].version \in Nat BY <1>1 DEF RenewalHead
 <2>2. lot'[l].version = lot[l].version /\ renewal[n].version = lot[l].version BY <1>2, <2>1
 <2>3. renewal[n].old = lot[l].exp /\ ~HeldFor(l) BY <1>1, <2>2 DEF RenewalHead
 <2>4. lot'[l].exp = lot[l].exp /\ (HeldFor(l)' => HeldFor(l)) BY <1>1, <2>2
 <2> QED BY <2>3, <2>4
<1>4. renewal[n].status # "none" =>
          /\ l \in Issued' /\ renewal[n].owner = lot'[l].owner /\ renewal[n].old \in Int /\ renewal[n].new = renewal[n].old + Extension
          /\ renewal[n].version \in Nat /\ renewal[n].version <= lot'[l].version
 BY <1>1, <1>2 DEF RenewalHead, SameLot
<1>5. DOMAIN renewal[n] = RenewalFields /\ renewal[n].free \in BOOLEAN
      /\ renewal[n].status \in ActiveRenewalStatuses \cup {"none", "quoted", "completed", "closed", "refunded"}
 BY DEF RenewalHead
<1> QED BY <1>1, <1>3, <1>4, <1>5 DEF RenewalHead
LEMMA LotPrimed == ASSUME LotsInv', NEW l \in Issued' PROVE l \in Lots /\ IsLot(lot'[l])
<1>1. AccountOK(Account(l)', ClaimsOn(l, Taken)') BY DEF LotsInv
<1> QED BY <1>1 DEF AccountOK, Account, Issued

\* A lot that no renewal was completed for.
LEMMA NewChain ==
    ASSUME NEW l, CompletedOf(l) = {}, lot[l].exp \in Int
    PROVE  Chain(l, lot[l].exp) /\ Cardinality(CompletedOf(l)) = 0 /\ \A first : Chain(l, first) => first = lot[l].exp
<1>1. Cardinality({}) = 0 BY FS_EmptySet
<1> QED BY <1>1 DEF Chain

LEMMA NewChainNext ==
    ASSUME NEW l, CompletedOf(l)' = {}, lot'[l].exp \in Int
    PROVE  Chain(l, lot[l].exp)' /\ Cardinality(CompletedOf(l)') = 0
<1>1. Cardinality({}) = 0 BY FS_EmptySet
<1> QED BY <1>1 DEF Chain

LEMMA ChainsStep ==
    ASSUME LotsInv, LotsInv', ChainsInv, RenewalsInv, LotsKept, LotsUntouched,
           \A n \in Renewals : renewal[n].status = "completed" \/ renewal'[n].status = "completed" => renewal'[n] = renewal[n],
           \A l \in Issued' \ Issued : lot'[l].renewals = 0 => lot'[l].exp = lot'[l].orig
    PROVE  ChainsKept /\ ChainsInv'
<1>1. \A l : CompletedOf(l)' = CompletedOf(l) BY DEF CompletedOf
<1>2. ASSUME NEW l \in Issued, NEW first, Chain(l, first) PROVE Chain(l, first)'
 <2>1. lot'[l].exp = lot[l].exp BY <1>2 DEF LotsUntouched
 <2>2. \A n \in CompletedOf(l) : renewal'[n] = renewal[n] BY DEF CompletedOf
 <2>3. PICK C : C = CompletedOf(l) /\ C = CompletedOf(l)' BY <1>1
 <2> QED BY <1>2, <2>1, <2>2, <2>3 DEF Chain
<1>3. ASSUME NEW l \in Issued'
      PROVE  /\ \E first : Chain(l, first)'
             /\ Cardinality(CompletedOf(l)') <= lot'[l].renewals
             /\ (Cardinality(CompletedOf(l)') = lot'[l].renewals => Chain(l, lot[l].orig)')
 <2>0. IsLot(lot'[l]) BY <1>3, LotPrimed
 <2>1. CASE l \in Issued
  <3>1. PICK first : Chain(l, first) BY <2>1 DEF ChainsInv
  <3>2. Chain(l, first)' BY <1>2, <2>1, <3>1
  <3>3. PICK o : o = lot[l].orig OBVIOUS
  <3>4. lot'[l].orig = o /\ lot'[l].renewals = lot[l].renewals
   BY <2>1, <3>3 DEF LotsKept, SameLot, LotsUntouched
  <3>5. Cardinality(CompletedOf(l)') <= lot'[l].renewals BY <1>1, <2>1, <3>4 DEF ChainsInv
  <3>6. ASSUME Cardinality(CompletedOf(l)') = lot'[l].renewals PROVE Chain(l, lot[l].orig)'
   <4>1. Chain(l, o) BY <1>1, <2>1, <3>3, <3>4, <3>6 DEF ChainsInv
   <4>2. Chain(l, o)' BY <1>2, <2>1, <4>1
   <4> QED BY <3>4, <4>2
  <3> QED BY <3>2, <3>5, <3>6
 <2>2. CASE l \notin Issued
  <3>1. CompletedOf(l)' = {}
   <4>1. CompletedOf(l) = {} BY <2>2 DEF CompletedOf, RenewalsInv, RenewalHead
   <4> QED BY <1>1, <4>1
  <3>2. Chain(l, lot[l].exp)' /\ Cardinality(CompletedOf(l)') = 0 BY <2>0, <3>1, NewChainNext DEF IsLot
  <3>3. PICK e : e = lot'[l].exp OBVIOUS
  <3>4. Chain(l, e)' BY <3>2, <3>3
  <3>5. lot'[l].renewals = 0 => lot'[l].orig = e BY <1>3, <2>2, <3>3
  <3>6. lot'[l].renewals = 0 => Chain(l, lot[l].orig)' BY <3>4, <3>5
  <3> QED BY <2>0, <3>2, <3>4, <3>6 DEF IsLot
 <2> QED BY <2>1, <2>2
<1>4. ChainsKept BY <1>2 DEF ChainsKept
<1>5. ChainsInv' BY <1>3 DEF ChainsInv
<1> QED BY <1>4, <1>5

\* The tables a step of gifts or redemptions leaves alone.
RenewalsRest == UNCHANGED <<renewal, pay, trade, comp, given>>
PurchasesRest == UNCHANGED <<purchase, refund, quota>>

LEMMA RenewalsFrame ==
    ASSUME RenewalsInv, LotsInv, LotsInv', LotsKept, LotsUntouched, RenewalsRest,
           \A l \in Issued : lot'[l] = lot[l] => (HeldFor(l)' => HeldFor(l))
    PROVE  RenewalsInv'
<1>1. ASSUME NEW n \in Renewals PROVE RenewalHead(n)' /\ RenewalPay(n)'
 <2>1. renewal'[n] = renewal[n] /\ RenewalHead(n) /\ RenewalPay(n) BY <1>1 DEF RenewalsRest, RenewalsInv
 <2>2. PICK l : l = renewal[n].lot OBVIOUS
 <2>3. renewal[n].status = "quoted" => (lot'[l].version = lot[l].version => lot'[l].exp = lot[l].exp /\ (HeldFor(l)' => HeldFor(l)))
  BY <2>1, <2>2 DEF RenewalHead, LotsUntouched
 <2>4. RenewalHead(n)' BY <2>1, <2>2, <2>3, RenewalFrame
 <2>5. RenewalPay(n)' BY <2>1 DEF RenewalPay, RenewalsRest
 <2> QED BY <2>4, <2>5
<1> QED BY <1>1 DEF RenewalsInv, RenewalsRest

LEMMA PurchasesFrame ==
    ASSUME PurchasesInv, LotsKept, PurchasesRest,
           \A p \in Purchases : pay'[p] = pay[p] /\ comp'[p] = comp[p] /\ given'[p] = given[p],
           NEW types, NEW biz, RowsKept(types, biz), types \cap PurchaseTypes = {},
           \A l \in Issued' \ Issued : \A p \in Purchases : lot'[l].from # <<p>>,
           \A p \in Purchases : refund[p].kind = "user_unused" =>
              lot'[refund[p].lot] = lot[refund[p].lot] /\ ~EverTouched(refund[p].lot)'
    PROVE  PurchasesInv'
<1>1. ASSUME NEW p \in Purchases PROVE PurchaseHead(p)' /\ PurchaseLine(p)'
 <2>1. purchase'[p] = purchase[p] /\ refund'[p] = refund[p] /\ PurchaseHead(p) /\ PurchaseLine(p)
  BY <1>1 DEF PurchasesRest, PurchasesInv
 <2>2. PurchaseLine(p)' BY <1>1, <2>1, PurchaseFrame
 <2>3. PurchaseHead(p)' BY <2>1 DEF PurchaseHead
 <2> QED BY <2>2, <2>3
<1> QED BY <1>1 DEF PurchasesInv, PurchasesRest

LEMMA PaysFrame == ASSUME PaysInv, UNCHANGED <<pay, trade>> PROVE PaysInv'
BY DEF PaysInv

LEMMA QuotasFrame ==
    ASSUME QuotasInv, UNCHANGED <<quota, purchase>>, \A p \in Purchases : pay'[p] = pay[p] PROVE QuotasInv'
<1>1. ASSUME NEW c PROVE OpenOf(c)' = OpenOf(c) /\ PaidOf(c)' = PaidOf(c) BY DEF OpenOf, PaidOf, Open
<1>2. \A c : QuotaRule(c) <=> /\ quota[c].reserved = Cardinality(OpenOf(c)) /\ quota[c].consumed = Cardinality(PaidOf(c))
                             /\ quota[c].reserved + quota[c].consumed <= Limit
 BY DEF QuotaRule, OpenOf, PaidOf
<1>3. \A c : QuotaRule(c)' <=> /\ quota'[c].reserved = Cardinality(OpenOf(c)') /\ quota'[c].consumed = Cardinality(PaidOf(c)')
                              /\ quota'[c].reserved + quota'[c].consumed <= Limit
 BY DEF QuotaRule, OpenOf, PaidOf
<1> QED BY <1>1, <1>2, <1>3 DEF QuotasInv

LEMMA SlotsFrame == ASSUME SlotsInv, UNCHANGED <<slot, redemption>> PROVE SlotsInv'
BY DEF SlotsInv, Overlaps, TakenOf

----------------------------------------
(* Which lots give how much, and what becomes of them. *)

LEMMA MinOfTwo == ASSUME NEW a \in Int, NEW b \in Int PROVE Min({a, b}) = Less(a, b)
<1>1. Less(a, b) \in {a, b} /\ \A y \in {a, b} : Less(a, b) <= y BY DEF Less
<1>2. \A x \in {a, b} : (\A y \in {a, b} : x <= y) => x = Less(a, b) BY DEF Less
<1> QED BY <1>1, <1>2 DEF Min

LEMMA SoonerOrders ==
    ASSUME LotsInv, NEW S \in SUBSET Issued
    PROVE  IsTurn([l \in S |-> {k \in S : Sooner(k, l)}], S)
<1>1. \A l \in S : lot[l].exp \in Int /\ l \in Nat BY IssuedLot, LotsAssumption DEF IsLot
<1>2. \A l \in S : ~Sooner(l, l) BY <1>1 DEF Sooner
<1>3. \A k, l \in S : k = l \/ Sooner(k, l) \/ Sooner(l, k) BY <1>1 DEF Sooner
<1>4. \A j, k, l \in S : Sooner(j, k) /\ Sooner(k, l) => Sooner(j, l) BY <1>1 DEF Sooner
<1> QED BY <1>2, <1>3, <1>4 DEF IsTurn

\* Lots in their order give as much as is asked for, each no more than it has.
LEMMA AllocationFacts ==
    ASSUME LotsInv, NEW S \in SUBSET Issued, NEW q \in Nat, Enough(S, q)
    PROVE  /\ DOMAIN Allocation(S, q) \subseteq {l \in S : lot[l].avail > 0}
           /\ \A l \in DOMAIN Allocation(S, q) : Allocation(S, q)[l] \in Nat \ {0} /\ Allocation(S, q)[l] <= lot[l].avail
           /\ SumFunctionOnSet(Allocation(S, q), DOMAIN Allocation(S, q)) = q
<1> DEFINE earlier == [l \in S |-> {k \in S : Sooner(k, l)}]
           has == [l \in S |-> lot[l].avail]
           A == Allocation(S, q)
           D == {l \in S : lot[l].avail > 0 /\ Ahead(S, l) < q}
           give == [l \in S |-> IF l \in D THEN A[l] ELSE 0]
<1>1. IsTurn(earlier, S) BY SoonerOrders
<1>2. IsFiniteSet(S)
 <2>1. S \subseteq Lots BY DEF Issued
 <2> QED BY <2>1, FS_Subset, LotsAssumption
<1>3. \A l \in S : has[l] \in Nat /\ has[l] = lot[l].avail BY IssuedLot DEF IsLot
<1>4. \A l \in S : earlier[l] \in SUBSET S /\ Ahead(S, l) = SumFunctionOnSet(has, earlier[l]) BY DEF Ahead
<1>5. Enough(S, q) <=> SumFunctionOnSet(has, S) >= q BY DEF Enough
<1>6. DOMAIN A = D /\ \A l \in D : A[l] = Min({lot[l].avail, q - Ahead(S, l)}) BY DEF Allocation
<1> HIDE DEF earlier, has
<1>7. SumFunctionOnSet(has, S) \in Nat BY <1>2, <1>3, SumSubset
<1>8. \A l \in S : Ahead(S, l) \in Nat
 <2> SUFFICES ASSUME NEW l \in S PROVE Ahead(S, l) \in Nat
  OBVIOUS
 <2>1. IsFiniteSet(earlier[l]) /\ \A k \in earlier[l] : has[k] \in Nat BY <1>2, <1>3, <1>4, FS_Subset
 <2>2. SumFunctionOnSet(has, earlier[l]) \in Nat BY <2>1, SumSubset
 <2> QED BY <1>4, <2>2
<1>9. \A l \in D : A[l] = Less(lot[l].avail, q - Ahead(S, l))
 <2> SUFFICES ASSUME NEW l \in D PROVE A[l] = Less(lot[l].avail, q - Ahead(S, l))
  OBVIOUS
 <2>1. PICK a \in Int, b \in Int : a = lot[l].avail /\ b = q - Ahead(S, l) BY <1>3, <1>8
 <2>2. A[l] = Min({a, b}) BY <1>6, <2>1
 <2> QED BY <2>1, <2>2, MinOfTwo
<1>10. \A l \in D : A[l] \in Nat \ {0} /\ A[l] <= lot[l].avail BY <1>3, <1>8, <1>9 DEF Less
<1>11. \A l \in S : give[l] = Less(has[l], More(0, q - SumFunctionOnSet(has, earlier[l])))
 <2> SUFFICES ASSUME NEW l \in S PROVE give[l] = Less(has[l], More(0, q - Ahead(S, l)))
  BY <1>4
 <2>1. PICK a \in Nat : a = Ahead(S, l) BY <1>8
 <2>2. CASE l \in D
  BY <1>3, <1>9, <2>1, <2>2 DEF Less, More
 <2>3. CASE l \notin D
  BY <1>3, <2>1, <2>3 DEF Less, More
 <2> QED BY <2>2, <2>3
<1>12. D \in SUBSET S /\ (\A l \in D : give[l] = A[l] /\ give[l] \in Int) /\ \A l \in S \ D : give[l] = 0
 BY <1>10
<1>13. IsFiniteSet(D) BY <1>2, <1>12, FS_Subset
<1> HIDE DEF give, A, D
<1>14. SumFunctionOnSet(give, S) = Less(q, SumFunctionOnSet(has, S)) BY <1>1, <1>2, <1>3, <1>11, SharesAddUp
<1>15. SumFunctionOnSet(give, S) = q BY <1>5, <1>7, <1>14 DEF Less
<1>16. SumFunctionOnSet(give, S) = SumFunctionOnSet(give, D) BY <1>2, <1>12, SumWhere
<1>17. SumFunctionOnSet(A, D) = SumFunctionOnSet(give, D) BY <1>12, <1>13, SumSame
<1>18. D \subseteq {l \in S : lot[l].avail > 0} BY DEF D
<1> QED BY <1>6, <1>10, <1>15, <1>16, <1>17, <1>18 DEF A

\* Accounts are written as they are given.
LEMMA SaveFacts ==
    ASSUME NEW accs, DOMAIN accs \subseteq Lots, Save(accs)
    PROVE  /\ DOMAIN lot' = Lots /\ DOMAIN book' = Lots
           /\ \A l \in DOMAIN accs : /\ lot'[l] = accs[l].lot /\ book'[l] = accs[l].rows
                                     /\ Account(l)'.lot = accs[l].lot /\ Account(l)'.rows = accs[l].rows
           /\ \A l \in Lots \ DOMAIN accs : lot'[l] = lot[l] /\ book'[l] = book[l]
BY DEF Save, Account

LEMMA SavedMoves ==
    ASSUME NEW l, NEW acc, Account(l)'.lot = acc.lot, Account(l)'.rows = acc.rows, NEW claims,
           ClaimsOn(l, Taken)' = claims, NEW t, NEW b, NEW d, Next1(Account(l), acc, claims, t, b, d),
           acc.lot.status = "expired" => acc.lot.exp <= now, lot'[l] = acc.lot, NEW types, NEW biz,
           t = "expiry" \/ (t \in types /\ b = biz)
    PROVE  LotMoves(l, types, biz)
<1>1. Next1(Account(l), Account(l)', ClaimsOn(l, Taken)', t, b, d) BY DEF Next1, AccountOK
<1> QED BY <1>1 DEF LotMoves
\* The refunds' claim on a lot, when no refund moves: a lot that is issued now was nobody's.
LEMMA RefundsStay ==
    ASSUME LotsInv, PurchasesInv, UNCHANGED refund, NEW l \in Lots, l \in Issued => lot'[l].total = lot[l].total
    PROVE  /\ RefundPart(l, Taken)' = RefundPart(l, Taken)
           /\ \A p \in Purchases : OfRefund(l, p, Taken)' = OfRefund(l, p, Taken)
<1>1. CASE l \in Issued
 BY <1>1, RefundPartStays
<1>2. CASE l \notin Issued
 <2>1. \A p \in Purchases : ~(refund[p].alloc \in Taken /\ refund[p].lot = l)
  <3> SUFFICES ASSUME NEW p \in Purchases, refund[p].alloc \in Taken, refund[p].lot = l PROVE FALSE
   OBVIOUS
  <3>1. PurchaseHead(p) /\ PurchaseLine(p) BY DEF PurchasesInv
  <3>2. refund[p].kind = "user_unused" BY <3>1 DEF PurchaseHead, Taken
  <3>3. refund[p].lot \in Issued BY <3>1, <3>2 DEF PurchaseLine
  <3> QED BY <1>2, <3>3
 <2>2. \A p \in Purchases : OfRefund(l, p, Taken)' = OfRefund(l, p, Taken) BY <2>1 DEF OfRefund
 <2>3. [p \in Purchases |-> OfRefund(l, p, Taken)]' = [p \in Purchases |-> OfRefund(l, p, Taken)] BY <2>2
 <2> QED BY <2>2, <2>3 DEF RefundPart
<1> QED BY <1>1, <1>2

\* What a step of one gift does to the claims on a lot.
LEMMA GiftClaims ==
    ASSUME LotsInv, GiftsInv, RedemptionsInv, PurchasesInv, NEW g \in Gifts, NEW l \in Lots,
           \A k \in Gifts \ {g} : gift'[k] = gift[k], UNCHANGED <<redemption, refund>>,
           l \in Issued => lot'[l].total = lot[l].total, OfGift(l, g, Taken)' \in Nat
    PROVE  /\ ClaimsOn(l, Taken)' = ClaimsOn(l, Taken) - OfGift(l, g, Taken) + OfGift(l, g, Taken)'
           /\ OfGift(l, g, Taken) \in Nat
<1>1. ClaimsTyped(l, Taken) BY Claimed0
<1>2. GiftPart(l, Taken) \in Nat /\ RedemptionPart(l, Taken) \in Nat /\ RefundPart(l, Taken) \in Nat
 BY <1>1, ClaimsNat
<1>3. \A k \in Gifts \ {g} : OfGift(l, k, Taken)' = OfGift(l, k, Taken) BY DEF OfGift
<1>4. GiftPart(l, Taken)' = GiftPart(l, Taken) - OfGift(l, g, Taken) + OfGift(l, g, Taken)'
 BY <1>1, <1>3, GiftPartMoves
<1>5. RedemptionPart(l, Taken)' = RedemptionPart(l, Taken) BY RedemptionPartStays
<1>6. RefundPart(l, Taken)' = RefundPart(l, Taken) BY RefundsStay
<1>7. ClaimsOn(l, Taken) = GiftPart(l, Taken) + RedemptionPart(l, Taken) + RefundPart(l, Taken) BY ClaimsParts
<1>8. ClaimsOn(l, Taken)' = GiftPart(l, Taken)' + RedemptionPart(l, Taken)' + RefundPart(l, Taken)'
 BY <1>7, ClaimsParts DEF ClaimsOn, GiftPart, RedemptionPart, RefundPart
<1>9. OfGift(l, g, Taken) \in Nat BY <1>1 DEF ClaimsTyped
<1> QED BY <1>2, <1>4, <1>5, <1>6, <1>7, <1>8, <1>9

LEMMA RedemptionClaims ==
    ASSUME LotsInv, GiftsInv, RedemptionsInv, PurchasesInv, NEW r \in Redemptions, NEW l \in Lots,
           \A k \in Redemptions \ {r} : redemption'[k] = redemption[k], UNCHANGED <<gift, refund>>,
           l \in Issued => lot'[l].total = lot[l].total, OfRedemption(l, r, Taken)' \in Nat
    PROVE  /\ ClaimsOn(l, Taken)' = ClaimsOn(l, Taken) - OfRedemption(l, r, Taken) + OfRedemption(l, r, Taken)'
           /\ OfRedemption(l, r, Taken) \in Nat
<1>1. ClaimsTyped(l, Taken) BY Claimed0
<1>2. GiftPart(l, Taken) \in Nat /\ RedemptionPart(l, Taken) \in Nat /\ RefundPart(l, Taken) \in Nat
 BY <1>1, ClaimsNat
<1>3. \A k \in Redemptions \ {r} : OfRedemption(l, k, Taken)' = OfRedemption(l, k, Taken) BY DEF OfRedemption
<1>4. RedemptionPart(l, Taken)' = RedemptionPart(l, Taken) - OfRedemption(l, r, Taken) + OfRedemption(l, r, Taken)'
 BY <1>1, <1>3, RedemptionPartMoves
<1>5. GiftPart(l, Taken)' = GiftPart(l, Taken) BY GiftPartStays
<1>6. RefundPart(l, Taken)' = RefundPart(l, Taken) BY RefundsStay
<1>7. ClaimsOn(l, Taken) = GiftPart(l, Taken) + RedemptionPart(l, Taken) + RefundPart(l, Taken) BY ClaimsParts
<1>8. ClaimsOn(l, Taken)' = GiftPart(l, Taken)' + RedemptionPart(l, Taken)' + RefundPart(l, Taken)'
 BY <1>7, ClaimsParts DEF ClaimsOn, GiftPart, RedemptionPart, RefundPart
<1>9. OfRedemption(l, r, Taken) \in Nat BY <1>1 DEF ClaimsTyped
<1> QED BY <1>2, <1>4, <1>5, <1>6, <1>7, <1>8, <1>9

LEMMA ClaimsStay ==
    ASSUME LotsInv, PurchasesInv, NEW l \in Lots, UNCHANGED <<gift, redemption, refund>>,
           l \in Issued => lot'[l].total = lot[l].total
    PROVE  ClaimsOn(l, Taken)' = ClaimsOn(l, Taken)
<1>1. GiftPart(l, Taken)' = GiftPart(l, Taken) BY GiftPartStays
<1>2. RedemptionPart(l, Taken)' = RedemptionPart(l, Taken) BY RedemptionPartStays
<1>3. RefundPart(l, Taken)' = RefundPart(l, Taken) BY RefundsStay
<1> QED BY <1>1, <1>2, <1>3 DEF ClaimsOn, GiftPart, RedemptionPart, RefundPart
----------------------------------------
(* Gifts. *)

GiftRest == UNCHANGED <<redemption, renewal, refund, now, pay, trade, comp, given, slot, stock, purchase, quota>>

\* What a step of one gift is to everything else.
GiftMove(g) ==
    /\ DOMAIN gift' = Gifts /\ (\A k \in Gifts \ {g} : gift'[k] = gift[k]) /\ GiftRest
    /\ AccountsMove(GiftTypes, g)
    /\ \A l \in Issued' \ Issued : /\ (lot'[l].renewals = 0 => lot'[l].exp = lot'[l].orig)
                                   /\ \A p \in Purchases : lot'[l].from # <<p>>
    /\ \A p \in Purchases : refund[p].kind = "user_unused" =>
          lot'[refund[p].lot] = lot[refund[p].lot] /\ refund[p].lot \notin DOMAIN gift'[g].alloc
    /\ (gift'[g].allocStatus = "held" =>
          \A l \in DOMAIN gift'[g].alloc : lot'[l] # lot[l] \/ (l \in DOMAIN gift[g].alloc /\ gift[g].allocStatus = "held"))

LEMMA GiftMoveFacts ==
    ASSUME TicketsInv, NEW g \in Gifts, GiftMove(g)
    PROVE  /\ LotsInv' /\ LotsKept /\ LotsUntouched /\ RowsKept(GiftTypes, g) /\ ChainsKept
           /\ (GiftOK(g)' => TicketsInv')
<1>0. /\ LotsInv /\ ChainsInv /\ GiftsInv /\ RedemptionsInv /\ RenewalsInv /\ PaysInv /\ PurchasesInv
      /\ SlotsInv /\ QuotasInv
 BY DEF TicketsInv
<1>r. GiftRest /\ UNCHANGED <<redemption, renewal, refund, now, pay, trade, comp, given, slot, stock, purchase, quota>>
 BY DEF GiftMove, GiftRest
<1>1. LotsInv' /\ LotsKept /\ LotsUntouched /\ RowsKept(GiftTypes, g)
 <2>1. now' \in Nat /\ now <= now' BY <1>0, <1>r DEF LotsInv
 <2> QED BY <1>0, <2>1, AccountsStep DEF GiftMove
<1>2. ChainsKept /\ ChainsInv' BY <1>0, <1>1, <1>r, ChainsStep DEF GiftMove
<1>3. \A k \in Gifts \ {g} : GiftOK(k)'
 <2> SUFFICES ASSUME NEW k \in Gifts \ {g} PROVE GiftOK(k)'
  OBVIOUS
 <2>1. GiftOK(k) /\ gift'[k] = gift[k] BY <1>0 DEF GiftsInv, GiftMove
 <2>2. \A l \in DOMAIN gift[k].alloc : lot'[l].exp = lot[l].exp
  BY <1>1, <2>1 DEF GiftOK, GiftLine, LotsUntouched
 <2> QED BY <1>1, <1>2, <2>1, <2>2, GiftFrame
<1>4. RedemptionsInv'
 <2> SUFFICES ASSUME NEW r \in Redemptions PROVE RedemptionOK(r)'
  BY <1>0, <1>r DEF RedemptionsInv
 <2>1. RedemptionOK(r) /\ redemption'[r] = redemption[r] BY <1>0, <1>r DEF RedemptionsInv
 <2>2. \A l \in DOMAIN redemption[r].alloc : lot'[l].exp = lot[l].exp
  BY <1>1, <2>1 DEF RedemptionOK, RedemptionLine, LotsUntouched
 <2>3. GiftTypes \cap RedemptionTypes = {} BY DEF GiftTypes, RedemptionTypes
 <2> QED BY <1>1, <2>1, <2>2, <2>3, RedemptionFrame
<1>5. RenewalsInv'
 <2>1. ASSUME NEW l \in Issued, lot'[l] = lot[l], HeldFor(l)' PROVE HeldFor(l)
  <3>1. HeldForRefund(l)' => HeldForRefund(l) BY <1>r DEF HeldForRefund
  <3>2. ASSUME NEW k \in Gifts, l \in DOMAIN gift'[k].alloc, gift'[k].allocStatus = "held"
        PROVE  \E j \in Gifts : l \in DOMAIN gift[j].alloc /\ gift[j].allocStatus = "held"
   BY <2>1, <3>2 DEF GiftMove
  <3>3. \A r \in Redemptions : redemption'[r] = redemption[r] BY <1>r
  <3> QED BY <2>1, <3>1, <3>2, <3>3 DEF HeldFor
 <2>2. RenewalsRest BY <1>r DEF RenewalsRest
 <2> QED BY <1>0, <1>1, <2>1, <2>2, RenewalsFrame
<1>6. PurchasesInv'
 <2>1. ASSUME NEW p \in Purchases, refund[p].kind = "user_unused"
       PROVE  lot'[refund[p].lot] = lot[refund[p].lot] /\ ~EverTouched(refund[p].lot)'
  <3>1. PICK l : l = refund[p].lot /\ l = refund'[p].lot BY <1>r
  <3>2. ~EverTouched(l) BY <1>0, <2>1, <3>1 DEF PurchasesInv, PurchaseLine
  <3>3. \A k \in Gifts : l \notin DOMAIN gift'[k].alloc BY <2>1, <3>1, <3>2 DEF GiftMove, EverTouched
  <3>4. ~EverTouched(l)' BY <1>r, <3>2, <3>3 DEF EverTouched
  <3> QED BY <2>1, <3>1, <3>4 DEF GiftMove
 <2>2. PurchasesRest /\ UNCHANGED <<pay, comp, given>> BY <1>r DEF PurchasesRest
 <2>3. GiftTypes \cap PurchaseTypes = {} BY DEF GiftTypes, PurchaseTypes
 <2>4. \A l \in Issued' \ Issued : \A p \in Purchases : lot'[l].from # <<p>> BY DEF GiftMove
 <2> QED BY <1>0, <1>1, <2>1, <2>2, <2>3, <2>4, PurchasesFrame
<1>7. PaysInv' /\ SlotsInv' /\ QuotasInv' BY <1>0, <1>r, PaysFrame, SlotsFrame, QuotasFrame
<1>8. GiftOK(g)' => GiftsInv' BY <1>3 DEF GiftsInv, GiftMove
<1> QED BY <1>1, <1>2, <1>4, <1>5, <1>6, <1>7, <1>8 DEF TicketsInv
\* A whole hold: every lot of an allocation gives its part.
HoldDone(S, q, taken, type, biz) ==
    /\ DOMAIN lot' = Lots /\ DOMAIN book' = Lots /\ DOMAIN taken \subseteq S
    /\ SumFunctionOnSet(taken, DOMAIN taken) = q
    /\ \A l \in Lots \ DOMAIN taken : lot'[l] = lot[l] /\ book'[l] = book[l]
    /\ \A l \in DOMAIN taken :
          /\ taken[l] \in Nat \ {0} /\ taken[l] <= lot[l].total /\ lot[l].avail > 0 /\ ClaimsOn(l, Taken) \in Nat
          /\ SameLot(lot[l], lot'[l]) /\ lot'[l].exp = lot[l].exp /\ lot'[l] # lot[l]
          /\ Added(book[l], book'[l], type, biz, -taken[l])
          /\ \A types : type \in types /\ ClaimsOn(l, Taken)' = ClaimsOn(l, Taken) + taken[l] => LotMoves(l, types, biz)

LEMMA HoldFacts ==
    ASSUME TicketsInv, NEW S \in SUBSET Issued, NEW q \in Nat, Enough(S, q), NEW taken, taken = Allocation(S, q),
           NEW type, type # "expiry", NEW biz,
           Save([l \in DOMAIN taken |-> Debit(Account(l), type, biz, taken[l], TRUE)])
    PROVE  HoldDone(S, q, taken, type, biz)
<1>0. LotsInv /\ GiftsInv /\ RedemptionsInv /\ PurchasesInv BY DEF TicketsInv
<1> DEFINE D == DOMAIN taken
           accs == [l \in D |-> Debit(Account(l), type, biz, taken[l], TRUE)]
<1>1. /\ D \subseteq {l \in S : lot[l].avail > 0} /\ \A l \in D : taken[l] \in Nat \ {0} /\ taken[l] <= lot[l].avail
      /\ SumFunctionOnSet(taken, D) = q
 BY <1>0, AllocationFacts
<1>2. D \subseteq Issued /\ D \subseteq Lots /\ DOMAIN accs = D BY <1>1 DEF Issued
<1>3. /\ DOMAIN lot' = Lots /\ DOMAIN book' = Lots
      /\ \A l \in D : /\ lot'[l] = accs[l].lot /\ book'[l] = accs[l].rows
                      /\ Account(l)'.lot = accs[l].lot /\ Account(l)'.rows = accs[l].rows
      /\ \A l \in Lots \ D : lot'[l] = lot[l] /\ book'[l] = book[l]
 <2>1. Save(accs) OBVIOUS
 <2> HIDE DEF accs
 <2> QED BY <1>2, <2>1, SaveFacts
<1>4. ASSUME NEW l \in D
      PROVE  /\ taken[l] <= lot[l].total /\ lot[l].avail > 0 /\ ClaimsOn(l, Taken) \in Nat
             /\ SameLot(lot[l], lot'[l]) /\ lot'[l].exp = lot[l].exp /\ lot'[l] # lot[l]
             /\ Added(book[l], book'[l], type, biz, -taken[l])
             /\ \A types : type \in types /\ ClaimsOn(l, Taken)' = ClaimsOn(l, Taken) + taken[l] => LotMoves(l, types, biz)
 <2>1. l \in Issued /\ l \in Lots /\ lot[l].avail > 0 /\ taken[l] \in Nat /\ taken[l] > 0 /\ taken[l] <= lot[l].avail
  BY <1>1, <1>2, <1>4
 <2>2. /\ AccountOK(Account(l), ClaimsOn(l, Taken)) /\ Account(l).lot = lot[l] /\ Account(l).rows = book[l] /\ IsLot(lot[l])
  BY <1>0, <2>1, IssuedLot DEF LotsInv
 <2>3. PICK claims \in Nat : claims = ClaimsOn(l, Taken) BY <1>0, <2>1, Claimed0
 <2>4. PICK a \in Nat : a = taken[l] BY <2>1
 <2> DEFINE acc == Debit(Account(l), type, biz, a, TRUE)
 <2>5. /\ Next1(Account(l), acc, claims + a, type, biz, -a) /\ acc.lot.status \in {"depleted", "active"}
  <3>1. a \in Nat /\ a > 0 /\ a <= Account(l).lot.avail /\ AccountOK(Account(l), claims) /\ TRUE \in BOOLEAN
   BY <2>1, <2>2, <2>3, <2>4
  <3>2. /\ Next1(Account(l), acc, claims + a, type, biz, -a)
        /\ acc.lot.status = (IF a = Account(l).lot.avail THEN "depleted" ELSE "active")
   BY <2>3, <3>1, DebitFacts, Zenon
  <3> QED BY <3>2
 <2>6. accs[l] = acc BY <1>4, <2>4
 <2> HIDE DEF acc, accs
 <2>7. Added(book[l], book'[l], type, biz, -a) /\ SameLot(lot[l], lot'[l]) /\ lot'[l].exp = lot[l].exp
       /\ lot'[l].version > lot[l].version
  BY <1>3, <1>4, <2>2, <2>5, <2>6 DEF Next1
 <2>8. lot'[l] # lot[l] BY <2>2, <2>7 DEF IsLot
 <2>9. a <= lot[l].total BY <2>1, <2>2, <2>3, <2>4 DEF AccountOK, IsLot
 <2>10. ASSUME NEW types, type \in types, ClaimsOn(l, Taken)' = claims + a PROVE LotMoves(l, types, biz)
  <3>1. acc.lot.status # "expired" BY <2>5
  <3>2. Account(l)'.lot = acc.lot /\ Account(l)'.rows = acc.rows /\ lot'[l] = acc.lot BY <1>3, <1>4, <2>6
  <3> QED BY <2>5, <2>10, <3>1, <3>2, SavedMoves
 <2> QED BY <2>1, <2>3, <2>4, <2>7, <2>8, <2>9, <2>10
<1> QED BY <1>1, <1>3, <1>4 DEF HoldDone

LEMMA UsableIssued == ASSUME LotsInv, NEW c PROVE Usable(c) \in SUBSET Issued /\ \A l \in Usable(c) : lot[l].owner = c
BY NoLotFacts DEF Usable, Issued

IsNewGift(G, c, q, taken) ==
    /\ DOMAIN G = GiftFields /\ G.status = "pending" /\ G.allocStatus = "held" /\ G.alloc = taken /\ G.qty = q
    /\ G.giver = c /\ G.receiver = NoOne /\ G.srcExp = [l \in DOMAIN taken |-> lot[l].exp]

LEMMA NewGiftFacts == ASSUME NEW c, NEW q, NEW taken PROVE IsNewGift(NewGift(c, q, taken), c, q, taken)
<1>1. PICK e, d, f : e = Min({lot[l].exp : l \in DOMAIN taken}) /\ d = Min({now + ClaimTTL, e}) /\ f = [l \in DOMAIN taken |-> lot[l].exp]
 OBVIOUS
<1>2. NewGift(c, q, taken) = [NoGift EXCEPT !.status = "pending", !.giver = c, !.qty = q, !.alloc = taken, !.srcExp = f,
                                            !.allocStatus = "held", !.earliest = e, !.deadline = d]
 BY <1>1, Zenon DEF NewGift
<1>3. PICK G : G = NewGift(c, q, taken) OBVIOUS
<1>4. IsNewGift(G, c, q, taken) BY <1>1, <1>2, <1>3 DEF NoGift, GiftFields, IsNewGift
<1> QED BY <1>3, <1>4, Zenon

LEMMA CreateGiftStep ==
    ASSUME TicketsInv, NEW g \in Gifts, NEW c \in Customers, NEW q \in 1..3, CreateGift(g, c, q), GiftRest
    PROVE  TicketsInv'
<1>0. LotsInv /\ GiftsInv /\ RedemptionsInv /\ PurchasesInv BY DEF TicketsInv
<1>r. UNCHANGED <<redemption, renewal, refund, now>>
 BY DEF GiftRest
<1> DEFINE S == Usable(c)
           taken == Allocation(S, q)
           D == DOMAIN taken
           G == NewGift(c, q, taken)
<1>1. /\ gift[g].status = "none" /\ Enough(S, q)
      /\ Save([l \in D |-> Debit(Account(l), "gift_hold", g, taken[l], TRUE)]) /\ gift' = [gift EXCEPT ![g] = G]
 BY DEF CreateGift
<1>2. GiftOK(g) /\ DOMAIN gift[g].alloc = {} /\ gift[g].allocStatus = "none"
 BY <1>0, <1>1 DEF GiftsInv, GiftOK, GiftHead
<1>3. S \in SUBSET Issued /\ \A l \in S : lot[l].owner = c BY <1>0, UsableIssued
<1>4. /\ DOMAIN G = GiftFields /\ G.status = "pending" /\ G.allocStatus = "held"
      /\ G.alloc = taken /\ G.qty = q /\ G.giver = c /\ G.receiver = NoOne /\ \A l \in D : G.srcExp[l] = lot[l].exp
 <2>1. IsNewGift(G, c, q, taken) BY NewGiftFacts, Zenon
 <2> HIDE DEF S, taken, G
 <2> QED BY <2>1 DEF IsNewGift
<1>4a. HoldDone(S, q, taken, "gift_hold", g)
 <2>1. q \in Nat /\ "gift_hold" # "expiry" OBVIOUS
 <2>2. taken = Allocation(S, q) OBVIOUS
 <2> HIDE DEF S, taken, G
 <2> QED BY <1>1, <1>3, <2>1, <2>2, HoldFacts, Zenon
<1> HIDE DEF S, taken, G
<1>5. /\ DOMAIN lot' = Lots /\ DOMAIN book' = Lots /\ D \subseteq S /\ SumFunctionOnSet(taken, D) = q
      /\ \A l \in Lots \ D : lot'[l] = lot[l] /\ book'[l] = book[l]
      /\ \A l \in D :
            /\ taken[l] \in Nat \ {0} /\ taken[l] <= lot[l].total /\ lot[l].avail > 0 /\ ClaimsOn(l, Taken) \in Nat
            /\ SameLot(lot[l], lot'[l]) /\ lot'[l].exp = lot[l].exp /\ lot'[l] # lot[l]
            /\ Added(book[l], book'[l], "gift_hold", g, -taken[l])
            /\ \A types : "gift_hold" \in types /\ ClaimsOn(l, Taken)' = ClaimsOn(l, Taken) + taken[l] => LotMoves(l, types, g)
 BY <1>4a DEF HoldDone
<1>6. DOMAIN gift' = Gifts /\ gift'[g] = G /\ \A k \in Gifts \ {g} : gift'[k] = gift[k]
 BY <1>0, <1>1 DEF GiftsInv
<1>7. D \subseteq Issued /\ D \subseteq Lots BY <1>3, <1>5 DEF Issued
<1>8. \A l \in Lots : OfGift(l, g, Taken) = 0 /\ OfGift(l, g, Taken)' = IF l \in D THEN taken[l] ELSE 0
 BY <1>2, <1>4, <1>6 DEF OfGift, Taken
<1>9. \A l \in Lots : ClaimsOn(l, Taken)' = ClaimsOn(l, Taken) + (IF l \in D THEN taken[l] ELSE 0) /\ ClaimsOn(l, Taken) \in Nat
 <2> SUFFICES ASSUME NEW l \in Lots PROVE ClaimsOn(l, Taken)' = ClaimsOn(l, Taken) + (IF l \in D THEN taken[l] ELSE 0) /\ ClaimsOn(l, Taken) \in Nat
  OBVIOUS
 <2>1. lot'[l].total = lot[l].total BY <1>5 DEF SameLot
 <2>2. OfGift(l, g, Taken)' \in Nat BY <1>5, <1>8
 <2>3. ClaimsOn(l, Taken)' = ClaimsOn(l, Taken) - OfGift(l, g, Taken) + OfGift(l, g, Taken)'
  BY <1>0, <1>r, <1>6, <2>1, <2>2, GiftClaims
 <2>4. PICK n \in Nat : n = ClaimsOn(l, Taken) BY <1>0, Claimed0
 <2> QED BY <1>8, <2>2, <2>3, <2>4
<1>10. AccountsMove(GiftTypes, g)
 <2>1. \A l \in D : LotMoves(l, GiftTypes, g) BY <1>5, <1>7, <1>9 DEF GiftTypes
 <2>2. \A l \in Lots \ D : LotStays(l) BY <1>5, <1>9 DEF LotStays
 <2>3. Issued \subseteq Lots BY DEF Issued
 <2> QED BY <1>5, <1>7, <2>1, <2>2, <2>3 DEF AccountsMove
<1>11. GiftMove(g)
 <2>1. Issued' \ Issued = {} BY <1>5, <1>7 DEF Issued
 <2>2. ASSUME NEW p \in Purchases, refund[p].kind = "user_unused"
       PROVE  lot'[refund[p].lot] = lot[refund[p].lot] /\ refund[p].lot \notin D
  <3>1. refund[p].lot \in Issued /\ lot[refund[p].lot].avail = 0
   BY <1>0, <2>2 DEF PurchasesInv, PurchaseLine
  <3>2. refund[p].lot \notin D BY <1>5, <3>1
  <3> QED BY <1>5, <3>1, <3>2 DEF Issued
 <2> QED BY <1>4, <1>5, <1>6, <1>10, <2>1, <2>2 DEF GiftMove
<1>12. LotsInv' /\ LotsKept /\ (GiftOK(g)' => TicketsInv') BY <1>11, GiftMoveFacts
<1>13. GiftOK(g)'
 <2>1. GiftHead(G) BY <1>4, <1>5, LotsAssumption DEF GiftHead
 <2>2. \A l \in Lots : NoneIn(book[l], "gift_hold", g) /\ NoneIn(book[l], "gift_restore", g)
  BY <1>2 DEF GiftOK, GiftRows
 <2>3. ASSUME NEW l \in D PROVE GiftLine(g, l)'
  <3>1. l \in Lots /\ l \in Issued' /\ SameLot(lot[l], lot'[l]) /\ lot[l].owner = c
   BY <1>3, <1>5, <1>7, <1>12, <2>3 DEF LotsKept
  <3>2. OneIn(book'[l], "gift_hold", g, -taken[l]) BY <1>5, <2>2, <2>3, <3>1 DEF Added
  <3> QED BY <1>4, <1>5, <1>6, <2>3, <3>1, <3>2 DEF GiftLine, SameLot
 <2>4. ASSUME NEW l \in Lots PROVE GiftRows(g, l)'
  <3>1. CASE l \in D
   <4>1. NoneIn(book'[l], "gift_restore", g) BY <1>5, <2>2, <3>1 DEF Added
   <4> QED BY <1>4, <1>6, <3>1, <4>1 DEF GiftRows
  <3>2. CASE l \notin D
   BY <1>5, <2>2, <2>4, <3>2 DEF GiftRows
  <3> QED BY <3>1, <3>2
 <2> QED BY <1>4, <1>6, <2>1, <2>3, <2>4 DEF GiftOK
<1> QED BY <1>12, <1>13

\* What was held comes back to its lots.
BackDone(alloc, type, biz) ==
    /\ DOMAIN lot' = Lots /\ DOMAIN book' = Lots
    /\ \A l \in Lots \ DOMAIN alloc : lot'[l] = lot[l] /\ book'[l] = book[l]
    /\ \A l \in DOMAIN alloc :
          /\ ClaimsOn(l, Taken) \in Nat /\ SameLot(lot[l], lot'[l]) /\ lot'[l].exp = lot[l].exp /\ lot'[l] # lot[l]
          /\ Added(book[l], book'[l], type, biz, alloc[l])
          /\ \A types : type \in types /\ ClaimsOn(l, Taken)' = ClaimsOn(l, Taken) - alloc[l] => LotMoves(l, types, biz)

LEMMA BackFacts ==
    ASSUME TicketsInv, NEW alloc, DOMAIN alloc \subseteq Issued, \A l \in DOMAIN alloc : alloc[l] \in Nat \ {0},
           NEW type, type # "expiry", NEW biz, NEW at \in Int, at <= now,
           Save([l \in DOMAIN alloc |-> Restore(Account(l), type, biz, alloc[l], at)])
    PROVE  BackDone(alloc, type, biz)
<1>0. LotsInv /\ GiftsInv /\ RedemptionsInv /\ PurchasesInv BY DEF TicketsInv
<1> DEFINE D == DOMAIN alloc
           accs == [l \in D |-> Restore(Account(l), type, biz, alloc[l], at)]
<1>2. D \subseteq Issued /\ D \subseteq Lots /\ DOMAIN accs = D BY DEF Issued
<1>3. /\ DOMAIN lot' = Lots /\ DOMAIN book' = Lots
      /\ \A l \in D : /\ lot'[l] = accs[l].lot /\ book'[l] = accs[l].rows
                      /\ Account(l)'.lot = accs[l].lot /\ Account(l)'.rows = accs[l].rows
      /\ \A l \in Lots \ D : lot'[l] = lot[l] /\ book'[l] = book[l]
 <2>1. Save(accs) OBVIOUS
 <2> HIDE DEF accs
 <2> QED BY <1>2, <2>1, SaveFacts
<1>4. ASSUME NEW l \in D
      PROVE  /\ ClaimsOn(l, Taken) \in Nat
             /\ SameLot(lot[l], lot'[l]) /\ lot'[l].exp = lot[l].exp /\ lot'[l] # lot[l]
             /\ Added(book[l], book'[l], type, biz, alloc[l])
             /\ \A types : type \in types /\ ClaimsOn(l, Taken)' = ClaimsOn(l, Taken) - alloc[l] => LotMoves(l, types, biz)
 <2>1. l \in Issued /\ l \in Lots /\ alloc[l] \in Nat /\ alloc[l] > 0 BY <1>2, <1>4
 <2>2. /\ AccountOK(Account(l), ClaimsOn(l, Taken)) /\ Account(l).lot = lot[l] /\ Account(l).rows = book[l] /\ IsLot(lot[l])
  BY <1>0, <2>1, IssuedLot DEF LotsInv
 <2>3. PICK claims \in Nat : claims = ClaimsOn(l, Taken) BY <1>0, <2>1, Claimed0
 <2>4. PICK a \in Nat : a = alloc[l] BY <2>1
 <2> DEFINE acc == Restore(Account(l), type, biz, a, at)
 <2>5. /\ Next1(Account(l), acc, claims - a, type, biz, a)
       /\ (acc.lot.status = "expired" => Account(l).lot.exp <= at)
  <3>1. a \in Nat /\ a > 0 /\ AccountOK(Account(l), claims) BY <2>1, <2>2, <2>3, <2>4
  <3> QED BY <2>3, <3>1, RestoreFacts, Zenon
 <2>6. accs[l] = acc BY <1>4, <2>4
 <2> HIDE DEF acc, accs
 <2>7. Added(book[l], book'[l], type, biz, a) /\ SameLot(lot[l], lot'[l]) /\ lot'[l].exp = lot[l].exp
       /\ lot'[l].version > lot[l].version
  BY <1>3, <1>4, <2>2, <2>5, <2>6 DEF Next1
 <2>8. lot'[l] # lot[l] BY <2>2, <2>7 DEF IsLot
 <2>10. ASSUME NEW types, type \in types, ClaimsOn(l, Taken)' = claims - a PROVE LotMoves(l, types, biz)
  <3>1. acc.lot.status = "expired" => acc.lot.exp <= now BY <1>0, <2>2, <2>5 DEF Next1, IsLot, LotsInv
  <3>2. Account(l)'.lot = acc.lot /\ Account(l)'.rows = acc.rows /\ lot'[l] = acc.lot BY <1>3, <1>4, <2>6
  <3> QED BY <2>5, <2>10, <3>1, <3>2, SavedMoves
 <2> QED BY <2>1, <2>3, <2>4, <2>7, <2>8, <2>10
<1> QED BY <1>3, <1>4 DEF BackDone

LEMMA ShareTokenStep ==
    ASSUME TicketsInv, NEW g \in Gifts, CreateShareToken(g), GiftRest PROVE TicketsInv'
<1>0. LotsInv /\ ChainsInv /\ GiftsInv /\ RedemptionsInv /\ PurchasesInv BY DEF TicketsInv
<1>1. GiftOK(g) /\ DOMAIN gift = Gifts /\ DOMAIN gift[g] = GiftFields BY <1>0 DEF GiftsInv, GiftOK, GiftHead
<1>2. PICK T : gift' = [gift EXCEPT ![g].tokens = T] BY DEF CreateShareToken
<1>3. UNCHANGED <<lot, book>> /\ UNCHANGED <<redemption, renewal, refund, now>>
 BY DEF CreateShareToken, GiftRest
<1> DEFINE G == gift[g]
           H == [gift[g] EXCEPT !.tokens = T]
<1>4. /\ DOMAIN gift' = Gifts /\ gift'[g] = H /\ \A k \in Gifts \ {g} : gift'[k] = gift[k]
      /\ DOMAIN H = GiftFields /\ H.status = G.status /\ H.allocStatus = G.allocStatus /\ H.alloc = G.alloc
      /\ H.srcExp = G.srcExp /\ H.rcv = G.rcv /\ H.giver = G.giver /\ H.receiver = G.receiver /\ H.qty = G.qty
 BY <1>1, <1>2 DEF GiftFields
<1> HIDE DEF H
<1>5. \A l \in Lots : ClaimsOn(l, Taken)' = ClaimsOn(l, Taken)
 <2> SUFFICES ASSUME NEW l \in Lots PROVE ClaimsOn(l, Taken)' = ClaimsOn(l, Taken)
  OBVIOUS
 <2>1. OfGift(l, g, Taken)' = OfGift(l, g, Taken) BY <1>4 DEF OfGift
 <2>2. PICK n \in Nat, m \in Nat : n = ClaimsOn(l, Taken) /\ m = OfGift(l, g, Taken)
  BY <1>0, Claimed0 DEF ClaimsTyped
 <2>3. ClaimsOn(l, Taken)' = ClaimsOn(l, Taken) - OfGift(l, g, Taken) + OfGift(l, g, Taken)'
  BY <1>0, <1>3, <1>4, <2>1, <2>2, GiftClaims
 <2> QED BY <2>1, <2>2, <2>3
<1>6. AccountsMove(GiftTypes, g)
 <2>1. \A l \in Lots : LotStays(l) BY <1>3, <1>5 DEF LotStays
 <2>2. Issued \subseteq Lots /\ DOMAIN lot = Lots /\ DOMAIN book = Lots BY <1>0 DEF Issued, LotsInv
 <2> QED BY <1>3, <2>1, <2>2 DEF AccountsMove
<1>7. Issued' = Issued BY <1>3 DEF Issued
<1>8. GiftMove(g)
 <2>1. ASSUME NEW p \in Purchases, refund[p].kind = "user_unused" PROVE refund[p].lot \notin DOMAIN gift'[g].alloc
  BY <1>0, <1>4, <2>1 DEF PurchasesInv, PurchaseLine, EverTouched
 <2> QED BY <1>3, <1>4, <1>6, <1>7, <2>1 DEF GiftMove
<1>9. GiftOK(g)'
 <2>1. GiftHead(H) BY <1>1, <1>4 DEF GiftHead, GiftOK
 <2>2. ASSUME NEW l \in DOMAIN G.alloc PROVE GiftLine(g, l)'
  <3>1. GiftLine(g, l) BY <1>1, <2>2 DEF GiftOK
  <3>2. \A k, e : Chain(k, e)' <=> Chain(k, e) BY <1>3 DEF Chain, CompletedOf
  <3>3. PICK k, e : k = G.rcv[l] /\ e = G.srcExp[l] /\ k = gift'[g].rcv[l] /\ e = gift'[g].srcExp[l] BY <1>4
  <3> QED BY <1>3, <1>4, <1>7, <3>1, <3>2, <3>3 DEF GiftLine
 <2>3. \A l \in Lots : GiftRows(g, l)' BY <1>1, <1>3, <1>4 DEF GiftOK, GiftRows
 <2> QED BY <1>4, <2>1, <2>2, <2>3 DEF GiftOK
<1> QED BY <1>8, <1>9, GiftMoveFacts

LEMMA GivenBackStep ==
    ASSUME TicketsInv, NEW g \in Gifts, gift[g].status = "pending", NEW end \in {"cancelled", "expired_returned"},
           NEW at \in Int, at <= now, GiveBack(g, end, at), GiftRest
    PROVE  TicketsInv'
<1>0. LotsInv /\ GiftsInv /\ RedemptionsInv /\ PurchasesInv BY DEF TicketsInv
<1>r. UNCHANGED <<redemption, renewal, refund, now>>
 BY DEF GiftRest
<1> DEFINE G == gift[g]
           alloc == G.alloc
           D == DOMAIN alloc
<1>1. GiftOK(g) /\ DOMAIN gift = Gifts /\ GiftHead(G) /\ G.allocStatus = "held" /\ \A l \in D : GiftLine(g, l)
 BY <1>0 DEF GiftsInv, GiftOK, GiftHead
<1>2. PICK T : gift' = [gift EXCEPT ![g].status = end, ![g].allocStatus = "restored", ![g].tokens = T]
 <2>1. PICK T : T = Revoked(gift[g].tokens) OBVIOUS
 <2>2. gift' = [gift EXCEPT ![g].status = end, ![g].allocStatus = "restored", ![g].tokens = Revoked(@)]
  BY DEF GiveBack
 <2> QED BY <1>1, <2>1, <2>2 DEF GiftHead, GiftFields
<1> DEFINE H == [gift[g] EXCEPT !.status = end, !.allocStatus = "restored", !.tokens = T]
<1>4. /\ DOMAIN gift' = Gifts /\ gift'[g] = H /\ \A k \in Gifts \ {g} : gift'[k] = gift[k]
      /\ DOMAIN H = GiftFields /\ H.status = end /\ H.allocStatus = "restored" /\ H.alloc = alloc
      /\ H.srcExp = G.srcExp /\ H.giver = G.giver /\ H.receiver = G.receiver /\ H.qty = G.qty
 BY <1>1, <1>2 DEF GiftFields, GiftHead
<1> HIDE DEF H
<1>5. D \subseteq Issued /\ D \subseteq Lots /\ \A l \in D : alloc[l] \in Nat \ {0}
 BY <1>1 DEF GiftLine, GiftHead, Issued
<1>5a. BackDone(alloc, "gift_restore", g)
 <2>1. Save([l \in D |-> Restore(Account(l), "gift_restore", g, alloc[l], at)]) BY DEF GiveBack
 <2>2. "gift_restore" # "expiry" OBVIOUS
 <2> HIDE DEF alloc
 <2> QED BY <1>5, <2>1, <2>2, BackFacts
<1>6. /\ DOMAIN lot' = Lots /\ DOMAIN book' = Lots /\ \A l \in Lots \ D : lot'[l] = lot[l] /\ book'[l] = book[l]
      /\ \A l \in D :
            /\ SameLot(lot[l], lot'[l]) /\ lot'[l].exp = lot[l].exp /\ lot'[l] # lot[l]
            /\ Added(book[l], book'[l], "gift_restore", g, alloc[l])
            /\ \A types : "gift_restore" \in types /\ ClaimsOn(l, Taken)' = ClaimsOn(l, Taken) - alloc[l] => LotMoves(l, types, g)
 BY <1>5a DEF BackDone
<1>8. \A l \in Lots : OfGift(l, g, Taken)' = 0 /\ OfGift(l, g, Taken) = IF l \in D THEN alloc[l] ELSE 0
 BY <1>1, <1>4 DEF OfGift, Taken
<1> HIDE DEF alloc
<1>9. \A l \in Lots : ClaimsOn(l, Taken)' = ClaimsOn(l, Taken) - (IF l \in D THEN alloc[l] ELSE 0) /\ ClaimsOn(l, Taken) \in Nat
 <2> SUFFICES ASSUME NEW l \in Lots PROVE ClaimsOn(l, Taken)' = ClaimsOn(l, Taken) - (IF l \in D THEN alloc[l] ELSE 0) /\ ClaimsOn(l, Taken) \in Nat
  OBVIOUS
 <2>1. lot'[l].total = lot[l].total BY <1>6 DEF SameLot
 <2>2. OfGift(l, g, Taken)' \in Nat BY <1>8
 <2>3. ClaimsOn(l, Taken)' = ClaimsOn(l, Taken) - OfGift(l, g, Taken) + OfGift(l, g, Taken)'
  BY <1>0, <1>r, <1>4, <2>1, <2>2, GiftClaims
 <2>4. PICK n \in Nat : n = ClaimsOn(l, Taken) BY <1>0, Claimed0
 <2> QED BY <1>5, <1>8, <2>3, <2>4
<1>10. AccountsMove(GiftTypes, g)
 <2>1. \A l \in D : LotMoves(l, GiftTypes, g) BY <1>5, <1>6, <1>9 DEF GiftTypes
 <2>2. \A l \in Lots \ D : LotStays(l)
  <3> SUFFICES ASSUME NEW l \in Lots \ D PROVE LotStays(l)
   OBVIOUS
  <3>1. PICK n \in Nat : n = ClaimsOn(l, Taken) BY <1>9
  <3> QED BY <1>6, <1>9, <3>1 DEF LotStays
 <2>3. Issued \subseteq Lots BY DEF Issued
 <2> QED BY <1>5, <1>6, <2>1, <2>2, <2>3 DEF AccountsMove
<1>11. GiftMove(g)
 <2>1. Issued' \ Issued = {} BY <1>5, <1>6 DEF Issued
 <2>2. ASSUME NEW p \in Purchases, refund[p].kind = "user_unused"
       PROVE  lot'[refund[p].lot] = lot[refund[p].lot] /\ refund[p].lot \notin D
  <3>1. refund[p].lot \in Issued /\ ~EverTouched(refund[p].lot) BY <1>0, <2>2 DEF PurchasesInv, PurchaseLine
  <3>2. refund[p].lot \notin D BY <3>1 DEF EverTouched, alloc
  <3> QED BY <1>6, <3>1, <3>2 DEF Issued
 <2> QED BY <1>4, <1>6, <1>10, <2>1, <2>2 DEF GiftMove
<1>12. LotsInv' /\ LotsKept /\ (GiftOK(g)' => TicketsInv') BY <1>11, GiftMoveFacts
<1>13. GiftOK(g)'
 <2>1. GiftHead(H) BY <1>1, <1>4 DEF GiftHead, GiftTerminal, alloc
 <2>2. \A l \in Lots : (l \notin D => NoneIn(book[l], "gift_hold", g)) /\ NoneIn(book[l], "gift_restore", g)
  BY <1>1 DEF GiftOK, GiftRows, alloc
 <2>3. ASSUME NEW l \in D PROVE GiftLine(g, l)'
  <3>1. l \in Lots /\ l \in Issued' /\ SameLot(lot[l], lot'[l]) /\ GiftLine(g, l)
   BY <1>1, <1>5, <1>12, <2>3 DEF LotsKept
  <3>2. OneIn(book'[l], "gift_restore", g, alloc[l]) BY <1>6, <2>2, <2>3, <3>1 DEF Added
  <3>3. OneIn(book'[l], "gift_hold", g, -alloc[l]) BY <1>6, <2>3, <3>1 DEF Added, GiftLine, alloc
  <3>4. lot'[l].owner = H.giver /\ alloc[l] <= lot'[l].total BY <1>4, <3>1 DEF SameLot, GiftLine, alloc
  <3> QED BY <1>4, <3>1, <3>2, <3>3, <3>4 DEF GiftLine
 <2>4. ASSUME NEW l \in Lots PROVE GiftRows(g, l)'
  <3>1. CASE l \in D
   BY <1>4, <3>1 DEF GiftRows
  <3>2. CASE l \notin D
   BY <1>4, <1>6, <2>2, <2>4, <3>2 DEF GiftRows
  <3> QED BY <3>1, <3>2
 <2> QED BY <1>4, <2>1, <2>3, <2>4 DEF GiftOK
<1> QED BY <1>12, <1>13

\* Nobody claims of a lot that is not issued.
LEMMA NoClaims ==
    ASSUME TicketsInv, NEW l \in Lots \ Issued PROVE ClaimsOn(l, Taken) = 0 /\ CompletedOf(l) = {}
<1>0. LotsInv /\ GiftsInv /\ RedemptionsInv /\ RenewalsInv /\ PurchasesInv BY DEF TicketsInv
<1>1. \A g \in Gifts : OfGift(l, g, Taken) = 0 BY <1>0 DEF GiftsInv, GiftOK, GiftLine, OfGift
<1>2. \A r \in Redemptions : OfRedemption(l, r, Taken) = 0
 BY <1>0 DEF RedemptionsInv, RedemptionOK, RedemptionLine, OfRedemption
<1>3. \A p \in Purchases : OfRefund(l, p, Taken) = 0
 <2>1. lot[l].total = 0 BY NoLotFacts DEF Issued
 <2> QED BY <2>1 DEF OfRefund
<1>4. GiftPart(l, Taken) = 0
 <2> DEFINE f == [g \in Gifts |-> OfGift(l, g, Taken)]
 <2>1. \A g \in Gifts : f[g] = 0 BY <1>1
 <2> HIDE DEF f
 <2>2. SumFunctionOnSet(f, Gifts) = 0 BY <2>1, SumZero, LotsAssumption
 <2> QED BY <2>2 DEF GiftPart, f
<1>5. RedemptionPart(l, Taken) = 0
 <2> DEFINE f == [r \in Redemptions |-> OfRedemption(l, r, Taken)]
 <2>1. \A r \in Redemptions : f[r] = 0 BY <1>2
 <2> HIDE DEF f
 <2>2. SumFunctionOnSet(f, Redemptions) = 0 BY <2>1, SumZero, LotsAssumption
 <2> QED BY <2>2 DEF RedemptionPart, f
<1>6. RefundPart(l, Taken) = 0
 <2> DEFINE f == [p \in Purchases |-> OfRefund(l, p, Taken)]
 <2>1. \A p \in Purchases : f[p] = 0 BY <1>3
 <2> HIDE DEF f
 <2>2. SumFunctionOnSet(f, Purchases) = 0 BY <2>1, SumZero, LotsAssumption
 <2> QED BY <2>2 DEF RefundPart, f
<1>7. ClaimsOn(l, Taken) = 0 BY <1>4, <1>5, <1>6, ClaimsParts
<1>8. CompletedOf(l) = {} BY <1>0 DEF CompletedOf, RenewalsInv, RenewalHead
<1> QED BY <1>7, <1>8

\* A lot nobody has renewed expires as it first did.
LEMMA NeverRenewed ==
    ASSUME TicketsInv, NEW l \in Issued, lot[l].renewals = 0 PROVE lot[l].exp = lot[l].orig
<1>0. LotsInv /\ ChainsInv BY DEF TicketsInv
<1>1. IsFiniteSet(CompletedOf(l))
 <2>1. CompletedOf(l) \subseteq Renewals BY DEF CompletedOf
 <2> QED BY <2>1, FS_Subset, LotsAssumption
<1>2. PICK n \in Nat : n = Cardinality(CompletedOf(l)) BY <1>1, FS_CardinalityType
<1>3. n = 0 BY <1>0, <1>2 DEF ChainsInv
<1>4. CompletedOf(l) = {} BY <1>1, <1>2, <1>3, FS_EmptySet
<1>5. Chain(l, lot[l].orig) BY <1>0, <1>2, <1>3 DEF ChainsInv
<1>6. lot[l].exp \in Int BY <1>0, IssuedLot DEF IsLot
<1>7. PICK o : o = lot[l].orig OBVIOUS
<1> QED BY <1>4, <1>5, <1>6, <1>7, NewChain

\* The lots made of what a gift held.
HeirsDone(alloc, rcv, c, g) ==
    /\ DOMAIN lot' = Lots /\ DOMAIN book' = Lots /\ DOMAIN rcv = DOMAIN alloc
    /\ \A l \in Lots : (\A k \in DOMAIN rcv : rcv[k] # l) => lot'[l] = lot[l] /\ book'[l] = book[l]
    /\ \A l \in DOMAIN alloc :
          LET k == rcv[l] IN
          /\ k \in Lots \ Issued
          /\ lot'[k].owner = c /\ lot'[k].from = <<g, l>> /\ lot'[k].total = alloc[l] /\ lot'[k].status = "active"
          /\ lot'[k].exp = lot[l].exp /\ lot'[k].orig = lot[l].orig /\ lot'[k].renewals = lot[l].renewals
          /\ AccountOK(Account(k)', 0) /\ OneIn(book'[k], "gift_claim", g, alloc[l])
          /\ \A t, b : ~(t = "gift_claim" /\ b = g) => NoneIn(book'[k], t, b)

LEMMA HeirFacts ==
    ASSUME TicketsInv, NEW g \in Gifts, NEW c, NEW alloc, alloc = gift[g].alloc, NEW l \in DOMAIN alloc
    PROVE  LET N == Heir(c, l, g) IN
           /\ DOMAIN N = LotFields /\ N.owner = c /\ N.total = alloc[l] /\ N.orig = lot[l].orig /\ N.exp = lot[l].exp
           /\ N.renewals = lot[l].renewals /\ N.from = <<g, l>>
           /\ N.total \in Nat \ {0} /\ N.exp \in Int /\ N.orig \in Int /\ N.renewals \in Nat
<1>1. l \in Issued /\ alloc[l] \in Nat \ {0} BY DEF TicketsInv, GiftsInv, GiftOK, GiftHead, GiftLine
<1>2. IsLot(lot[l]) BY <1>1, IssuedLot DEF TicketsInv
<1>3. PICK t, o, e, n, f : t = alloc[l] /\ o = lot[l].orig /\ e = lot[l].exp /\ n = lot[l].renewals /\ f = <<g, l>>
 OBVIOUS
<1>4. PICK N : N = [NoLot EXCEPT !.owner = c, !.total = t, !.orig = o, !.exp = e, !.renewals = n, !.used = TRUE, !.from = f]
 OBVIOUS
<1>5. Heir(c, l, g) = N BY <1>3, <1>4, Zenon DEF Heir
<1>6. DOMAIN N = LotFields /\ N.owner = c /\ N.total = t /\ N.orig = o /\ N.exp = e /\ N.renewals = n /\ N.from = f
 BY <1>4 DEF NoLot, LotFields
<1>7. t \in Nat \ {0} /\ e \in Int /\ o \in Int /\ n \in Nat BY <1>1, <1>2, <1>3 DEF IsLot
<1> QED BY <1>3, <1>5, <1>6, <1>7

LEMMA HeirsFacts ==
    ASSUME TicketsInv, NEW g \in Gifts, NEW c, NEW alloc, alloc = gift[g].alloc, NEW rcv \in NewLots(DOMAIN alloc),
           Save([k \in Range(rcv) |-> Issue(Heir(c, HeirOf(rcv, k), g), "gift_claim", g)])
    PROVE  HeirsDone(alloc, rcv, c, g)
<1> DEFINE D == DOMAIN alloc
           accs == [k \in Range(rcv) |-> Issue(Heir(c, HeirOf(rcv, k), g), "gift_claim", g)]
<1>1. DOMAIN rcv = D /\ (\A l \in D : rcv[l] \in Lots \ Issued) /\ \A k, l \in D : rcv[k] = rcv[l] => k = l
 BY DEF NewLots, Injection, IsInjective, Issued
<1>2. Range(rcv) = {rcv[l] : l \in D} BY <1>1 DEF Range
<1>3. DOMAIN accs = Range(rcv) /\ Range(rcv) \subseteq Lots BY <1>1, <1>2
<1>4. /\ DOMAIN lot' = Lots /\ DOMAIN book' = Lots
      /\ \A k \in Range(rcv) : /\ lot'[k] = accs[k].lot /\ book'[k] = accs[k].rows
                               /\ Account(k)'.lot = accs[k].lot /\ Account(k)'.rows = accs[k].rows
      /\ \A k \in Lots \ Range(rcv) : lot'[k] = lot[k] /\ book'[k] = book[k]
 <2>1. Save(accs) OBVIOUS
 <2> HIDE DEF accs
 <2> QED BY <1>3, <2>1, SaveFacts
<1>5. ASSUME NEW l \in D
      PROVE  LET k == rcv[l] IN
             /\ k \in Lots \ Issued
             /\ lot'[k].owner = c /\ lot'[k].from = <<g, l>> /\ lot'[k].total = alloc[l] /\ lot'[k].status = "active"
             /\ lot'[k].exp = lot[l].exp /\ lot'[k].orig = lot[l].orig /\ lot'[k].renewals = lot[l].renewals
             /\ AccountOK(Account(k)', 0) /\ OneIn(book'[k], "gift_claim", g, alloc[l])
             /\ \A t, b : ~(t = "gift_claim" /\ b = g) => NoneIn(book'[k], t, b)
 <2>1. PICK k : k = rcv[l] /\ k \in Range(rcv) /\ k \in Lots \ Issued BY <1>1, <1>2, <1>5
 <2>2. HeirOf(rcv, k) = l BY <1>1, <1>5, <2>1 DEF HeirOf
 <2>3. PICK N : N = Heir(c, l, g) OBVIOUS
 <2>4. /\ DOMAIN N = LotFields /\ N.owner = c /\ N.total = alloc[l] /\ N.orig = lot[l].orig /\ N.exp = lot[l].exp
       /\ N.renewals = lot[l].renewals /\ N.from = <<g, l>>
       /\ N.total \in Nat \ {0} /\ N.exp \in Int /\ N.orig \in Int /\ N.renewals \in Nat
  BY <1>5, <2>3, HeirFacts
 <2>5. PICK I : I = Issue(N, "gift_claim", g) OBVIOUS
 <2>6. /\ AccountOK(I, 0) /\ SameLot(N, I.lot) /\ I.lot.exp = N.exp /\ I.lot.renewals = N.renewals
       /\ I.lot.status = "active" /\ OneIn(I.rows, "gift_claim", g, N.total)
       /\ \A t, b : ~(t = "gift_claim" /\ b = g) => NoneIn(I.rows, t, b)
  <3>1. "gift_claim" # "expiry" OBVIOUS
  <3>2. IssuedAs(I, N, "gift_claim", g) BY <2>4, <2>5, <3>1, IssueFacts, Zenon
  <3> QED BY <3>2 DEF IssuedAs
 <2>7. accs[k] = I BY <2>1, <2>2, <2>3, <2>5
 <2> HIDE DEF accs
 <2>8. lot'[k] = I.lot /\ book'[k] = I.rows /\ Account(k)'.lot = I.lot /\ Account(k)'.rows = I.rows
  BY <1>4, <2>1, <2>7
 <2>9. AccountOK(Account(k)', 0) BY <2>6, <2>8 DEF AccountOK
 <2>10. /\ lot'[k].owner = c /\ lot'[k].from = <<g, l>> /\ lot'[k].total = alloc[l] /\ lot'[k].status = "active"
        /\ lot'[k].exp = lot[l].exp /\ lot'[k].orig = lot[l].orig /\ lot'[k].renewals = lot[l].renewals
  BY <2>4, <2>6, <2>8 DEF SameLot
 <2>11. /\ OneIn(book'[k], "gift_claim", g, alloc[l])
        /\ \A t, b : ~(t = "gift_claim" /\ b = g) => NoneIn(book'[k], t, b)
  BY <2>4, <2>6, <2>8
 <2> QED BY <2>1, <2>9, <2>10, <2>11
<1>6. \A l \in Lots : (\A k \in DOMAIN rcv : rcv[k] # l) => lot'[l] = lot[l] /\ book'[l] = book[l]
 BY <1>1, <1>2, <1>4
<1> QED BY <1>1, <1>4, <1>5, <1>6 DEF HeirsDone
LEMMA ClaimGiftStep ==
    ASSUME TicketsInv, NEW g \in Gifts, NEW c \in Customers, NEW i, ClaimGift(g, c, i), GiftRest
    PROVE  TicketsInv'
<1>0. LotsInv /\ GiftsInv /\ RedemptionsInv /\ RenewalsInv /\ PurchasesInv BY DEF TicketsInv
<1>r. UNCHANGED <<redemption, renewal, refund, now>>
 BY DEF GiftRest
<1> DEFINE G == gift[g]
           alloc == G.alloc
           D == DOMAIN alloc
<1>1. GiftOK(g) /\ DOMAIN gift = Gifts /\ GiftHead(G) /\ G.allocStatus = "held" /\ c # G.giver /\ G.status = "pending"
      /\ \A l \in D : GiftLine(g, l)
 BY <1>0 DEF GiftsInv, GiftOK, GiftHead, ClaimGift, Claimable
<1>2. PICK rcv \in NewLots(D) :
         /\ Save([k \in Range(rcv) |-> Issue(Heir(c, HeirOf(rcv, k), g), "gift_claim", g)])
         /\ gift' = [gift EXCEPT ![g] = Claimed(@, c, rcv, i)]
 BY DEF ClaimGift
<1>3. HeirsDone(alloc, rcv, c, g)
 <2>1. alloc = gift[g].alloc OBVIOUS
 <2> HIDE DEF alloc
 <2> QED BY <1>2, <2>1, HeirsFacts
<1>4. PICK T, H : T = Revoked([gift[g].tokens EXCEPT ![i].state = "consumed"]) /\
                  H = [gift[g] EXCEPT !.status = "claimed", !.receiver = c, !.rcv = rcv, !.allocStatus = "claimed", !.tokens = T]
 OBVIOUS
<1>5. /\ DOMAIN gift' = Gifts /\ gift'[g] = H /\ \A k \in Gifts \ {g} : gift'[k] = gift[k]
      /\ DOMAIN H = GiftFields /\ H.status = "claimed" /\ H.allocStatus = "claimed" /\ H.alloc = alloc
      /\ H.srcExp = G.srcExp /\ H.giver = G.giver /\ H.receiver = c /\ H.qty = G.qty /\ H.rcv = rcv
 <2>1. Claimed(gift[g], c, rcv, i) = H BY <1>1, <1>4 DEF Claimed, GiftHead, GiftFields
 <2>2. gift' = [gift EXCEPT ![g] = H] BY <1>1, <1>2, <2>1
 <2> QED BY <1>1, <1>4, <2>2 DEF GiftHead, GiftFields
<1>6. D \subseteq Issued /\ D \subseteq Lots /\ \A l \in D : alloc[l] \in Nat \ {0} /\ lot[l].exp = G.srcExp[l]
 BY <1>1 DEF GiftLine, GiftHead, Issued
<1>7. \A l \in Lots : OfGift(l, g, Taken)' = OfGift(l, g, Taken) BY <1>1, <1>5 DEF OfGift, Taken
<1>8. /\ DOMAIN lot' = Lots /\ DOMAIN book' = Lots /\ DOMAIN rcv = D
      /\ \A l \in Lots : (\A k \in D : rcv[k] # l) => lot'[l] = lot[l] /\ book'[l] = book[l]
      /\ \A l \in D : rcv[l] \in Lots \ Issued
 BY <1>3 DEF HeirsDone
<1>9. ASSUME NEW l \in D, NEW k, k = rcv[l]
      PROVE  /\ k \in Lots \ Issued
             /\ lot'[k].owner = c /\ lot'[k].from = <<g, l>> /\ lot'[k].total = alloc[l] /\ lot'[k].status = "active"
             /\ lot'[k].exp = lot[l].exp /\ lot'[k].orig = lot[l].orig /\ lot'[k].renewals = lot[l].renewals
             /\ AccountOK(Account(k)', 0) /\ OneIn(book'[k], "gift_claim", g, alloc[l])
             /\ \A t, b : ~(t = "gift_claim" /\ b = g) => NoneIn(book'[k], t, b)
 <2>1. /\ rcv[l] \in Lots \ Issued
       /\ lot'[rcv[l]].owner = c /\ lot'[rcv[l]].from = <<g, l>> /\ lot'[rcv[l]].total = alloc[l] /\ lot'[rcv[l]].status = "active"
       /\ lot'[rcv[l]].exp = lot[l].exp /\ lot'[rcv[l]].orig = lot[l].orig /\ lot'[rcv[l]].renewals = lot[l].renewals
       /\ OneIn(book'[rcv[l]], "gift_claim", g, alloc[l])
       /\ \A t, b : ~(t = "gift_claim" /\ b = g) => NoneIn(book'[rcv[l]], t, b)
  BY <1>3, <1>9 DEF HeirsDone
 <2>2. AccountOK(Account(k)', 0) BY <1>3, <1>9, Zenon DEF HeirsDone
 <2> QED BY <1>9, <2>1, <2>2
<1> HIDE DEF alloc
<1>10. \A l \in Lots : ClaimsOn(l, Taken)' = ClaimsOn(l, Taken)
 <2> SUFFICES ASSUME NEW l \in Lots PROVE ClaimsOn(l, Taken)' = ClaimsOn(l, Taken)
  OBVIOUS
 <2>1. l \in Issued => lot'[l].total = lot[l].total BY <1>8
 <2>2. PICK n \in Nat, m \in Nat : n = ClaimsOn(l, Taken) /\ m = OfGift(l, g, Taken)
  BY <1>0, Claimed0 DEF ClaimsTyped
 <2>3. ClaimsOn(l, Taken)' = ClaimsOn(l, Taken) - OfGift(l, g, Taken) + OfGift(l, g, Taken)'
  BY <1>0, <1>r, <1>5, <1>7, <2>1, <2>2, GiftClaims
 <2> QED BY <1>7, <2>2, <2>3
<1>11. AccountsMove(GiftTypes, g)
 <2>1. ASSUME NEW l \in Lots, \A k \in D : rcv[k] # l PROVE LotStays(l) BY <1>8, <1>10, <2>1 DEF LotStays
 <2>2. ASSUME NEW l \in D, NEW k, k = rcv[l] PROVE k \in Lots \ Issued /\ LotStarts(k, GiftTypes, g)
  <3>1. ClaimsOn(k, Taken)' = 0 BY <1>9, <1>10, <2>2, NoClaims
  <3>2. AccountOK(Account(k)', ClaimsOn(k, Taken)') BY <1>9, <2>2, <3>1
  <3>3. \A t, b : ~(t \in GiftTypes /\ b = g) => NoneIn(book'[k], t, b) BY <1>9, <2>2 DEF GiftTypes
  <3> QED BY <1>9, <2>2, <3>2, <3>3 DEF LotStarts
 <2>3. Issued \subseteq Lots BY DEF Issued
 <2>4. \A l \in Issued : LotStays(l) BY <1>8, <2>1, <2>3
 <2>5. \A l \in Lots \ Issued : LotStays(l) \/ LotStarts(l, GiftTypes, g) BY <2>1, <2>2
 <2> QED BY <1>8, <2>4, <2>5 DEF AccountsMove
<1>12. GiftMove(g)
 <2>1. ASSUME NEW k \in Issued' \ Issued
       PROVE  /\ (lot'[k].renewals = 0 => lot'[k].exp = lot'[k].orig)
              /\ \A p \in Purchases : lot'[k].from # <<p>>
  <3>1. PICK l \in D : k = rcv[l] BY <1>8, <2>1 DEF Issued
  <3>2. lot'[k].from = <<g, l>> /\ lot'[k].exp = lot[l].exp /\ lot'[k].orig = lot[l].orig /\ lot'[k].renewals = lot[l].renewals
   BY <1>9, <3>1
  <3>3. lot[l].renewals = 0 => lot[l].exp = lot[l].orig BY <1>6, NeverRenewed
  <3>4. \A p \in Purchases : <<g, l>> # <<p>> OBVIOUS
  <3> QED BY <3>2, <3>3, <3>4
 <2>2. ASSUME NEW p \in Purchases, refund[p].kind = "user_unused"
       PROVE  lot'[refund[p].lot] = lot[refund[p].lot] /\ refund[p].lot \notin D
  <3>1. refund[p].lot \in Issued /\ ~EverTouched(refund[p].lot) BY <1>0, <2>2 DEF PurchasesInv, PurchaseLine
  <3>2. refund[p].lot \notin D BY <3>1 DEF EverTouched, alloc
  <3> QED BY <1>8, <3>1, <3>2 DEF Issued
 <2> QED BY <1>5, <1>8, <1>11, <2>1, <2>2 DEF GiftMove
<1>13. LotsInv' /\ LotsKept /\ (GiftOK(g)' => TicketsInv') BY <1>12, GiftMoveFacts
<1>14. GiftOK(g)'
 <2>1. GiftHead(H) BY <1>1, <1>5, LotsAssumption DEF GiftHead, GiftTerminal, alloc
 <2>2. \A l \in Lots : (l \notin D => NoneIn(book[l], "gift_hold", g)) /\ NoneIn(book[l], "gift_restore", g)
  BY <1>1 DEF GiftOK, GiftRows, alloc
 <2>3. ASSUME NEW l \in D PROVE GiftLine(g, l)'
  <3>1. l \in Lots /\ l \in Issued' /\ lot'[l] = lot[l] /\ book'[l] = book[l] /\ GiftLine(g, l)
   BY <1>1, <1>6, <1>8, <1>13, <2>3 DEF LotsKept
  <3>2. PICK k, e, a : k = rcv[l] /\ e = lot[l].exp /\ a = alloc[l] OBVIOUS
  <3>3. /\ k \in Lots \ Issued /\ lot'[k].owner = c /\ lot'[k].from = <<g, l>> /\ lot'[k].total = a /\ lot'[k].exp = e
        /\ lot'[k].status = "active" /\ OneIn(book'[k], "gift_claim", g, a)
   BY <1>9, <2>3, <3>2
  <3>4. k \in Issued' BY <3>3, NoLotFacts DEF Issued
  <3>5. CompletedOf(k)' = {}
   <4>1. CompletedOf(k) = {} BY <3>3, NoClaims
   <4> QED BY <1>r, <4>1 DEF CompletedOf
  <3>6. lot'[k].exp \in Int BY <1>13, <3>4, LotPrimed DEF IsLot
  <3>7. Chain(k, lot[k].exp)' BY <3>5, <3>6, NewChainNext
  <3>8. Chain(k, e)' BY <3>3, <3>7
  <3>9. gift'[g].rcv[l] = k /\ gift'[g].srcExp[l] = e /\ gift'[g].alloc[l] = a BY <1>5, <1>6, <2>3, <3>2
  <3>10. lot'[l].owner = H.giver /\ a <= lot'[l].total /\ OneIn(book'[l], "gift_hold", g, -a)
   BY <1>5, <3>1, <3>2 DEF GiftLine, alloc
  <3> QED BY <1>5, <3>1, <3>3, <3>4, <3>8, <3>9, <3>10 DEF GiftLine
 <2>4. ASSUME NEW l \in Lots PROVE GiftRows(g, l)'
  <3>1. CASE \E k \in D : rcv[k] = l
   <4>1. NoneIn(book'[l], "gift_hold", g) /\ NoneIn(book'[l], "gift_restore", g) BY <1>9, <3>1
   <4> QED BY <4>1 DEF GiftRows
  <3>2. CASE \A k \in D : rcv[k] # l
   BY <1>5, <1>8, <2>2, <2>4, <3>2 DEF GiftRows
  <3> QED BY <3>1, <3>2
 <2> QED BY <1>5, <2>1, <2>3, <2>4 DEF GiftOK
<1> QED BY <1>13, <1>14

LEMMA GiftTurnKeeps == ASSUME TicketsInv, GiftTurn PROVE TicketsInv'
<1>0. GiftStep /\ GiftRest BY DEF GiftTurn, GiftRest
<1>1. PICK g \in Gifts :
         \/ \E c \in Customers : \E q \in 1..3 : CreateGift(g, c, q)
         \/ CreateShareToken(g)
         \/ \E c \in Customers : \E i \in DOMAIN gift[g].tokens : ClaimGift(g, c, i)
         \/ CancelGift(g) \/ GiveBackLate(g) \/ ExpireDueGift(g)
 BY <1>0 DEF GiftStep, GiftRequest
<1>2. now \in Nat BY DEF TicketsInv, LotsInv
<1>3. ASSUME NEW c \in Customers, NEW q \in 1..3, CreateGift(g, c, q) PROVE TicketsInv'
 BY <1>0, <1>3, CreateGiftStep
<1>4. CASE CreateShareToken(g)
 BY <1>0, <1>4, ShareTokenStep
<1>5. ASSUME NEW c \in Customers, NEW i \in DOMAIN gift[g].tokens, ClaimGift(g, c, i) PROVE TicketsInv'
 BY <1>0, <1>5, ClaimGiftStep
<1>6. CASE CancelGift(g)
 BY <1>0, <1>2, <1>6, GivenBackStep DEF CancelGift, Claimable
<1>7. CASE GiveBackLate(g)
 BY <1>0, <1>2, <1>7, GivenBackStep DEF GiveBackLate, PastDeadline
<1>8. CASE ExpireDueGift(g)
 <2>1. PICK at \in {now - 1, now} : gift[g].status = "pending" /\ GiveBack(g, "expired_returned", at)
  BY <1>8 DEF ExpireDueGift
 <2>2. at \in Int /\ at <= now BY <1>2
 <2> QED BY <1>0, <2>1, <2>2, GivenBackStep
<1> QED BY <1>1, <1>3, <1>4, <1>5, <1>6, <1>7, <1>8

----------------------------------------
(* Redemptions. *)

RedemptionRest == UNCHANGED <<gift, renewal, refund, now, pay, trade, comp, given, purchase, quota>>

RedemptionMove(r) ==
    /\ DOMAIN redemption' = Redemptions /\ (\A k \in Redemptions \ {r} : redemption'[k] = redemption[k]) /\ RedemptionRest
    /\ AccountsMove(RedemptionTypes, r) /\ Issued' \subseteq Issued
    /\ \A p \in Purchases : refund[p].kind = "user_unused" =>
          lot'[refund[p].lot] = lot[refund[p].lot] /\ refund[p].lot \notin DOMAIN redemption'[r].alloc
    /\ (redemption'[r].allocStatus = "held" =>
          \A l \in DOMAIN redemption'[r].alloc :
             lot'[l] # lot[l] \/ (l \in DOMAIN redemption[r].alloc /\ redemption[r].allocStatus = "held"))

LEMMA RedemptionMoveFacts ==
    ASSUME TicketsInv, NEW r \in Redemptions, RedemptionMove(r)
    PROVE  LotsInv' /\ LotsKept /\ (RedemptionOK(r)' /\ SlotsInv' => TicketsInv')
<1>0. /\ LotsInv /\ ChainsInv /\ GiftsInv /\ RedemptionsInv /\ RenewalsInv /\ PaysInv /\ PurchasesInv
      /\ SlotsInv /\ QuotasInv
 BY DEF TicketsInv
<1>r. RedemptionRest /\ UNCHANGED <<gift, renewal, refund, now, pay, trade, comp, given, purchase, quota>>
 BY DEF RedemptionMove, RedemptionRest
<1>1. LotsInv' /\ LotsKept /\ LotsUntouched /\ RowsKept(RedemptionTypes, r)
 <2>1. now' \in Nat /\ now <= now' BY <1>0, <1>r DEF LotsInv
 <2> QED BY <1>0, <2>1, AccountsStep DEF RedemptionMove
<1>2. ChainsKept /\ ChainsInv'
 <2>1. Issued' \ Issued = {} BY DEF RedemptionMove
 <2> QED BY <1>0, <1>1, <1>r, <2>1, ChainsStep
<1>3. \A k \in Redemptions \ {r} : RedemptionOK(k)'
 <2> SUFFICES ASSUME NEW k \in Redemptions \ {r} PROVE RedemptionOK(k)'
  OBVIOUS
 <2>1. RedemptionOK(k) /\ redemption'[k] = redemption[k] BY <1>0 DEF RedemptionsInv, RedemptionMove
 <2>2. \A l \in DOMAIN redemption[k].alloc : lot'[l].exp = lot[l].exp
  BY <1>1, <2>1 DEF RedemptionOK, RedemptionLine, LotsUntouched
 <2> QED BY <1>1, <2>1, <2>2, RedemptionFrame
<1>4. GiftsInv'
 <2> SUFFICES ASSUME NEW g \in Gifts PROVE GiftOK(g)'
  BY <1>0, <1>r DEF GiftsInv
 <2>1. GiftOK(g) /\ gift'[g] = gift[g] BY <1>0, <1>r DEF GiftsInv
 <2>2. \A l \in DOMAIN gift[g].alloc : lot'[l].exp = lot[l].exp
  BY <1>1, <2>1 DEF GiftOK, GiftLine, LotsUntouched
 <2>3. RedemptionTypes \cap GiftTypes = {} BY DEF GiftTypes, RedemptionTypes
 <2> QED BY <1>1, <1>2, <2>1, <2>2, <2>3, GiftFrame
<1>5. RenewalsInv'
 <2>1. ASSUME NEW l \in Issued, lot'[l] = lot[l], HeldFor(l)' PROVE HeldFor(l)
  <3>1. HeldForRefund(l)' => HeldForRefund(l) BY <1>r DEF HeldForRefund
  <3>2. ASSUME NEW k \in Redemptions, l \in DOMAIN redemption'[k].alloc, redemption'[k].allocStatus = "held"
        PROVE  \E j \in Redemptions : l \in DOMAIN redemption[j].alloc /\ redemption[j].allocStatus = "held"
   BY <2>1, <3>2 DEF RedemptionMove
  <3>3. \A g \in Gifts : gift'[g] = gift[g] BY <1>r
  <3> QED BY <2>1, <3>1, <3>2, <3>3 DEF HeldFor
 <2>2. RenewalsRest BY <1>r DEF RenewalsRest
 <2> QED BY <1>0, <1>1, <2>1, <2>2, RenewalsFrame
<1>6. PurchasesInv'
 <2>1. ASSUME NEW p \in Purchases, refund[p].kind = "user_unused"
       PROVE  lot'[refund[p].lot] = lot[refund[p].lot] /\ ~EverTouched(refund[p].lot)'
  <3>1. PICK l : l = refund[p].lot /\ l = refund'[p].lot BY <1>r
  <3>2. ~EverTouched(l) BY <1>0, <2>1, <3>1 DEF PurchasesInv, PurchaseLine
  <3>3. \A k \in Redemptions : l \notin DOMAIN redemption'[k].alloc
   BY <2>1, <3>1, <3>2 DEF RedemptionMove, EverTouched
  <3>4. ~EverTouched(l)' BY <1>r, <3>2, <3>3 DEF EverTouched
  <3> QED BY <2>1, <3>1, <3>4 DEF RedemptionMove
 <2>2. PurchasesRest /\ UNCHANGED <<pay, comp, given>> BY <1>r DEF PurchasesRest
 <2>3. RedemptionTypes \cap PurchaseTypes = {} BY DEF RedemptionTypes, PurchaseTypes
 <2>4. \A l \in Issued' \ Issued : \A p \in Purchases : lot'[l].from # <<p>> BY DEF RedemptionMove
 <2> QED BY <1>0, <1>1, <2>1, <2>2, <2>3, <2>4, PurchasesFrame
<1>7. PaysInv' /\ QuotasInv' BY <1>0, <1>r, PaysFrame, QuotasFrame
<1>8. RedemptionOK(r)' => RedemptionsInv' BY <1>3 DEF RedemptionsInv, RedemptionMove
<1> QED BY <1>1, <1>2, <1>4, <1>5, <1>6, <1>7, <1>8 DEF TicketsInv

\* Windows whose places change hands.
LEMMA SlotsMove ==
    ASSUME SlotsInv, DOMAIN slot' = Slots,
           \A t \in Slots : /\ DOMAIN slot'[t] = SlotFields /\ slot'[t].cap = slot[t].cap /\ slot'[t].status = slot[t].status
                            /\ slot'[t].start = slot[t].start /\ slot'[t].end = slot[t].end
                            /\ \/ slot'[t].reserved = slot[t].reserved /\ TakenOf(t)' = TakenOf(t)
                               \/ /\ slot'[t].reserved = Cardinality(TakenOf(t)') /\ slot'[t].reserved <= slot[t].cap
                                  /\ slot[t].status # "none"
    PROVE  SlotsInv'
<1>1. ASSUME NEW t \in Slots
      PROVE  /\ DOMAIN slot'[t] = SlotFields /\ slot'[t].cap \in Nat
             /\ slot'[t].reserved = Cardinality(TakenOf(t)') /\ slot'[t].reserved <= slot'[t].cap
             /\ (slot'[t].status = "none" => TakenOf(t)' = {})
             /\ (slot'[t].status = "open" => ~Overlaps(t, slot[t])')
 <2>1. Overlaps(t, slot[t])' => Overlaps(t, slot[t]) BY <1>1 DEF Overlaps
 <2> QED BY <1>1, <2>1 DEF SlotsInv
<1> QED BY <1>1 DEF SlotsInv

LEMMA TakenFinite == ASSUME NEW s PROVE IsFiniteSet(TakenOf(s)) /\ Cardinality(TakenOf(s)) \in Nat
<1>1. TakenOf(s) \subseteq Redemptions BY DEF TakenOf
<1> QED BY <1>1, FS_Subset, FS_CardinalityType, LotsAssumption

\* A redemption goes on, its tickets held or used up.
LEMMA QuietRedemption ==
    ASSUME TicketsInv, NEW r \in Redemptions, RedemptionRest, UNCHANGED <<lot, book, slot>>,
           redemption[r].allocStatus = "held", redemption[r].status \in {"scheduled", "assigned", "picked_up", "return_in_progress"},
           NEW H, redemption' = [redemption EXCEPT ![r] = H], DOMAIN H = RedemptionFields,
           H.alloc = redemption[r].alloc, H.slot = redemption[r].slot, H.owner = redemption[r].owner, H.qty = redemption[r].qty,
           H.srcExp = redemption[r].srcExp,
           \/ H.status \in {"assigned", "picked_up", "return_in_progress"} /\ H.allocStatus = "held"
           \/ H.status = "delivered" /\ H.allocStatus = "consumed",
           H.status = "assigned" => H.ret = FALSE
    PROVE  TicketsInv'
<1>0. LotsInv /\ GiftsInv /\ RedemptionsInv /\ PurchasesInv /\ SlotsInv BY DEF TicketsInv
<1>r. UNCHANGED <<gift, renewal, refund, now>>
 BY DEF RedemptionRest
<1> DEFINE R == redemption[r]
<1>1. RedemptionOK(r) /\ DOMAIN redemption = Redemptions /\ RedemptionHead(R)
 BY <1>0 DEF RedemptionsInv, RedemptionOK
<1>2. DOMAIN redemption' = Redemptions /\ redemption'[r] = H /\ \A k \in Redemptions \ {r} : redemption'[k] = redemption[k]
 BY <1>1
<1>5. \A l \in Lots : ClaimsOn(l, Taken)' = ClaimsOn(l, Taken)
 <2> SUFFICES ASSUME NEW l \in Lots PROVE ClaimsOn(l, Taken)' = ClaimsOn(l, Taken)
  OBVIOUS
 <2>1. OfRedemption(l, r, Taken)' = OfRedemption(l, r, Taken) BY <1>2 DEF OfRedemption, Taken
 <2>2. PICK n \in Nat, m \in Nat : n = ClaimsOn(l, Taken) /\ m = OfRedemption(l, r, Taken)
  BY <1>0, Claimed0 DEF ClaimsTyped
 <2>3. ClaimsOn(l, Taken)' = ClaimsOn(l, Taken) - OfRedemption(l, r, Taken) + OfRedemption(l, r, Taken)'
  BY <1>0, <1>r, <1>2, <2>1, <2>2, RedemptionClaims
 <2> QED BY <2>1, <2>2, <2>3
<1>6. AccountsMove(RedemptionTypes, r)
 <2>1. \A l \in Lots : LotStays(l) BY <1>5 DEF LotStays
 <2>2. Issued \subseteq Lots /\ DOMAIN lot = Lots /\ DOMAIN book = Lots BY <1>0 DEF Issued, LotsInv
 <2> QED BY <2>1, <2>2 DEF AccountsMove
<1>7. Issued' = Issued BY DEF Issued
<1>8. RedemptionMove(r)
 <2>1. ASSUME NEW p \in Purchases, refund[p].kind = "user_unused" PROVE refund[p].lot \notin DOMAIN redemption'[r].alloc
  BY <1>0, <1>2, <2>1 DEF PurchasesInv, PurchaseLine, EverTouched
 <2> QED BY <1>2, <1>6, <1>7, <2>1 DEF RedemptionMove
<1>9. RedemptionOK(r)'
 <2>1. RedemptionHead(H) BY <1>1 DEF RedemptionHead
 <2>2. ASSUME NEW l \in DOMAIN R.alloc PROVE RedemptionLine(r, l)'
  <3>1. RedemptionLine(r, l) BY <1>1, <2>2 DEF RedemptionOK
  <3> QED BY <1>2, <1>7, <3>1 DEF RedemptionLine
 <2>3. \A l \in Lots : RedemptionRows(r, l)' BY <1>1, <1>2 DEF RedemptionOK, RedemptionRows
 <2> QED BY <1>2, <2>1, <2>2, <2>3 DEF RedemptionOK
<1>10. SlotsInv'
 <2>1. \A t : TakenOf(t)' = TakenOf(t) BY <1>2 DEF TakenOf
 <2>2. DOMAIN slot' = Slots /\ \A t \in Slots : DOMAIN slot'[t] = SlotFields BY <1>0 DEF SlotsInv
 <2> QED BY <1>0, <2>1, <2>2, SlotsMove
<1> QED BY <1>8, <1>9, <1>10, RedemptionMoveFacts
LEMMA CreateRedemptionStep ==
    ASSUME TicketsInv, NEW r \in Redemptions, NEW c, NEW q \in 1..3, NEW s \in Slots, CreateRedemption(r, c, q, s), RedemptionRest
    PROVE  TicketsInv'
<1>0. LotsInv /\ GiftsInv /\ RedemptionsInv /\ PurchasesInv /\ SlotsInv BY DEF TicketsInv
<1>r. UNCHANGED <<gift, renewal, refund, now>>
 BY DEF RedemptionRest
<1> DEFINE S == Redeemable(c, s)
           taken == Allocation(S, q)
           D == DOMAIN taken
           R == NewRedemption(c, q, s, taken)
<1>1. /\ redemption[r].status = "none" /\ Enough(S, q) /\ Bookable(s) /\ ReserveSlot(s)
      /\ Save([l \in D |-> Debit(Account(l), "redemption_hold", r, taken[l], TRUE)])
      /\ redemption' = [redemption EXCEPT ![r] = R]
 BY DEF CreateRedemption, HoldLots
<1>2. RedemptionOK(r) /\ DOMAIN redemption[r].alloc = {} /\ redemption[r].allocStatus = "none" /\ redemption[r].slot = "none"
 BY <1>0, <1>1 DEF RedemptionsInv, RedemptionOK, RedemptionHead
<1>3. S \in SUBSET Issued /\ \A l \in S : lot[l].owner = c
 <2>1. S \subseteq Usable(c) BY DEF Redeemable
 <2> QED BY <1>0, <2>1, UsableIssued
<1>4. HoldDone(S, q, taken, "redemption_hold", r)
 <2>1. q \in Nat /\ "redemption_hold" # "expiry" OBVIOUS
 <2>2. taken = Allocation(S, q) OBVIOUS
 <2> HIDE DEF S, taken, R
 <2> QED BY <1>1, <1>3, <2>1, <2>2, HoldFacts, Zenon
<1> HIDE DEF S, taken
<1>4a. /\ DOMAIN R = RedemptionFields /\ R.status = "scheduled" /\ R.allocStatus = "held"
       /\ R.alloc = taken /\ R.qty = q /\ R.owner = c /\ R.slot = s /\ R.ret = FALSE /\ \A l \in D : R.srcExp[l] = lot[l].exp
 BY DEF NewRedemption, RedemptionFields
<1> HIDE DEF R
<1>5. /\ DOMAIN lot' = Lots /\ DOMAIN book' = Lots /\ D \subseteq S /\ SumFunctionOnSet(taken, D) = q
      /\ \A l \in Lots \ D : lot'[l] = lot[l] /\ book'[l] = book[l]
      /\ \A l \in D :
            /\ taken[l] \in Nat \ {0} /\ taken[l] <= lot[l].total /\ lot[l].avail > 0 /\ ClaimsOn(l, Taken) \in Nat
            /\ SameLot(lot[l], lot'[l]) /\ lot'[l].exp = lot[l].exp /\ lot'[l] # lot[l]
            /\ Added(book[l], book'[l], "redemption_hold", r, -taken[l])
            /\ \A types : "redemption_hold" \in types /\ ClaimsOn(l, Taken)' = ClaimsOn(l, Taken) + taken[l] => LotMoves(l, types, r)
 BY <1>4 DEF HoldDone
<1>6. DOMAIN redemption' = Redemptions /\ redemption'[r] = R /\ \A k \in Redemptions \ {r} : redemption'[k] = redemption[k]
 BY <1>0, <1>1 DEF RedemptionsInv
<1>7. D \subseteq Issued /\ D \subseteq Lots BY <1>3, <1>5 DEF Issued
<1>8. \A l \in Lots : OfRedemption(l, r, Taken) = 0 /\ OfRedemption(l, r, Taken)' = IF l \in D THEN taken[l] ELSE 0
 BY <1>2, <1>4a, <1>6 DEF OfRedemption, Taken
<1>9. \A l \in Lots : ClaimsOn(l, Taken)' = ClaimsOn(l, Taken) + (IF l \in D THEN taken[l] ELSE 0) /\ ClaimsOn(l, Taken) \in Nat
 <2> SUFFICES ASSUME NEW l \in Lots PROVE ClaimsOn(l, Taken)' = ClaimsOn(l, Taken) + (IF l \in D THEN taken[l] ELSE 0) /\ ClaimsOn(l, Taken) \in Nat
  OBVIOUS
 <2>1. lot'[l].total = lot[l].total BY <1>5 DEF SameLot
 <2>2. OfRedemption(l, r, Taken)' \in Nat BY <1>5, <1>8
 <2>3. ClaimsOn(l, Taken)' = ClaimsOn(l, Taken) - OfRedemption(l, r, Taken) + OfRedemption(l, r, Taken)'
  BY <1>0, <1>r, <1>6, <2>1, <2>2, RedemptionClaims
 <2>4. PICK n \in Nat : n = ClaimsOn(l, Taken) BY <1>0, Claimed0
 <2> QED BY <1>8, <2>2, <2>3, <2>4
<1>10. AccountsMove(RedemptionTypes, r)
 <2>1. \A l \in D : LotMoves(l, RedemptionTypes, r) BY <1>5, <1>7, <1>9 DEF RedemptionTypes
 <2>2. \A l \in Lots \ D : LotStays(l) BY <1>5, <1>9 DEF LotStays
 <2>3. Issued \subseteq Lots BY DEF Issued
 <2> QED BY <1>5, <1>7, <2>1, <2>2, <2>3 DEF AccountsMove
<1>11. RedemptionMove(r)
 <2>1. Issued' \subseteq Issued BY <1>5, <1>7 DEF Issued
 <2>2. ASSUME NEW p \in Purchases, refund[p].kind = "user_unused"
       PROVE  lot'[refund[p].lot] = lot[refund[p].lot] /\ refund[p].lot \notin D
  <3>1. refund[p].lot \in Issued /\ lot[refund[p].lot].avail = 0
   BY <1>0, <2>2 DEF PurchasesInv, PurchaseLine
  <3>2. refund[p].lot \notin D BY <1>5, <3>1
  <3> QED BY <1>5, <3>1, <3>2 DEF Issued
 <2> QED BY <1>4a, <1>5, <1>6, <1>10, <2>1, <2>2 DEF RedemptionMove
<1>12. LotsInv' /\ LotsKept /\ (RedemptionOK(r)' /\ SlotsInv' => TicketsInv') BY <1>11, RedemptionMoveFacts
<1>13. RedemptionOK(r)'
 <2>1. RedemptionHead(R) BY <1>4a, <1>5 DEF RedemptionHead
 <2>2. \A l \in Lots : /\ NoneIn(book[l], "redemption_hold", r) /\ NoneIn(book[l], "redemption_restore", r)
                       /\ NoneIn(book[l], "redemption_return_restore", r)
  BY <1>1, <1>2 DEF RedemptionOK, RedemptionRows
 <2>3. ASSUME NEW l \in D PROVE RedemptionLine(r, l)'
  <3>1. l \in Lots /\ l \in Issued' /\ SameLot(lot[l], lot'[l]) /\ lot[l].owner = c
   BY <1>3, <1>5, <1>7, <1>12, <2>3 DEF LotsKept
  <3>2. OneIn(book'[l], "redemption_hold", r, -taken[l]) BY <1>5, <2>2, <2>3, <3>1 DEF Added
  <3> QED BY <1>4a, <1>5, <1>6, <2>3, <3>1, <3>2 DEF RedemptionLine, SameLot
 <2>4. ASSUME NEW l \in Lots PROVE RedemptionRows(r, l)'
  <3>1. CASE l \in D
   <4>1. NoneIn(book'[l], "redemption_restore", r) /\ NoneIn(book'[l], "redemption_return_restore", r)
    BY <1>5, <2>2, <3>1 DEF Added
   <4> QED BY <1>4a, <1>6, <3>1, <4>1 DEF RedemptionRows
  <3>2. CASE l \notin D
   BY <1>5, <2>2, <2>4, <3>2 DEF RedemptionRows
  <3> QED BY <3>1, <3>2
 <2> QED BY <1>4a, <1>6, <2>1, <2>3, <2>4 DEF RedemptionOK
<1>14. SlotsInv'
 <2>1. /\ DOMAIN slot = Slots /\ DOMAIN slot[s] = SlotFields /\ slot[s].reserved = Cardinality(TakenOf(s))
       /\ slot[s].reserved < slot[s].cap /\ slot[s].status = "open" /\ slot[s].cap \in Nat
  BY <1>0, <1>1 DEF SlotsInv, Bookable
 <2>2. PICK n \in Nat : n = slot[s].reserved BY <2>1, TakenFinite
 <2>3. PICK X : X = [slot[s] EXCEPT !.reserved = n + 1] OBVIOUS
 <2>4. slot' = [slot EXCEPT ![s] = X] BY <1>1, <2>1, <2>2, <2>3 DEF ReserveSlot, SlotFields
 <2>5. /\ DOMAIN slot' = Slots /\ slot'[s] = X /\ \A t \in Slots : t # s => slot'[t] = slot[t]
  BY <2>1, <2>4
 <2>6. DOMAIN X = SlotFields /\ X.reserved = n + 1 /\ X.cap = slot[s].cap /\ X.status = slot[s].status
       /\ X.start = slot[s].start /\ X.end = slot[s].end
  BY <2>1, <2>3 DEF SlotFields
 <2>7. \A t \in Slots : t # s => TakenOf(t)' = TakenOf(t) BY <1>2, <1>4a, <1>6, SlotsAssumption DEF TakenOf
 <2>8. TakenOf(s)' = TakenOf(s) \cup {r} /\ r \notin TakenOf(s)
  BY <1>2, <1>4a, <1>6, SlotsAssumption DEF TakenOf
 <2>9. Cardinality(TakenOf(s)') = n + 1
  <3>1. PICK T : T = TakenOf(s) OBVIOUS
  <3>2. IsFiniteSet(T) /\ Cardinality(T) = n /\ r \notin T BY <2>1, <2>2, <2>8, <3>1, TakenFinite
  <3>3. Cardinality(T \cup {r}) = n + 1 BY <3>2, FS_AddElement
  <3> QED BY <2>8, <3>1, <3>3
 <2>10. \A t \in Slots : DOMAIN slot[t] = SlotFields BY <1>0 DEF SlotsInv
 <2> QED BY <1>0, <2>1, <2>2, <2>5, <2>6, <2>7, <2>9, <2>10, SlotsMove
<1> QED BY <1>12, <1>13, <1>14

\* The tickets of a redemption come back.
LEMMA TicketsBackStep ==
    ASSUME TicketsInv, NEW r \in Redemptions, NEW end, NEW type,
           (end = "cancelled" /\ type = "redemption_restore") \/ (end = "restored" /\ type = "redemption_return_restore"),
           redemption[r].status \in {"scheduled", "assigned", "return_in_progress"},
           TicketsBack(r, type), RedemptionRest,
           redemption' = [redemption EXCEPT ![r].status = end, ![r].allocStatus = "restored"]
    PROVE  SlotsInv' => TicketsInv'
<1>0. LotsInv /\ GiftsInv /\ RedemptionsInv /\ PurchasesInv BY DEF TicketsInv
<1>r. UNCHANGED <<gift, renewal, refund, now>>
 BY DEF RedemptionRest
<1> DEFINE R == redemption[r]
           alloc == R.alloc
           D == DOMAIN alloc
           H == [redemption[r] EXCEPT !.status = end, !.allocStatus = "restored"]
<1>1. RedemptionOK(r) /\ DOMAIN redemption = Redemptions /\ RedemptionHead(R) /\ R.allocStatus = "held" /\ \A l \in D : RedemptionLine(r, l)
 BY <1>0 DEF RedemptionsInv, RedemptionOK, RedemptionHead
<1>4. /\ DOMAIN redemption' = Redemptions /\ redemption'[r] = H /\ \A k \in Redemptions \ {r} : redemption'[k] = redemption[k]
      /\ DOMAIN H = RedemptionFields /\ H.status = end /\ H.allocStatus = "restored" /\ H.alloc = alloc
      /\ H.srcExp = R.srcExp /\ H.owner = R.owner /\ H.qty = R.qty /\ H.slot = R.slot
 BY <1>1 DEF RedemptionFields, RedemptionHead
<1> HIDE DEF H
<1>5. D \subseteq Issued /\ D \subseteq Lots /\ \A l \in D : alloc[l] \in Nat \ {0}
 BY <1>1 DEF RedemptionLine, RedemptionHead, Issued
<1>5a. BackDone(alloc, type, r)
 <2>1. Save([l \in D |-> Restore(Account(l), type, r, alloc[l], now)]) BY DEF TicketsBack
 <2>2. type # "expiry" /\ now \in Int /\ now <= now BY <1>0 DEF LotsInv
 <2> HIDE DEF alloc
 <2> QED BY <1>5, <2>1, <2>2, BackFacts
<1>6. /\ DOMAIN lot' = Lots /\ DOMAIN book' = Lots /\ \A l \in Lots \ D : lot'[l] = lot[l] /\ book'[l] = book[l]
      /\ \A l \in D :
            /\ SameLot(lot[l], lot'[l]) /\ lot'[l].exp = lot[l].exp /\ lot'[l] # lot[l]
            /\ Added(book[l], book'[l], type, r, alloc[l])
            /\ \A types : type \in types /\ ClaimsOn(l, Taken)' = ClaimsOn(l, Taken) - alloc[l] => LotMoves(l, types, r)
 BY <1>5a DEF BackDone
<1>8. \A l \in Lots : OfRedemption(l, r, Taken)' = 0 /\ OfRedemption(l, r, Taken) = IF l \in D THEN alloc[l] ELSE 0
 BY <1>1, <1>4 DEF OfRedemption, Taken
<1> HIDE DEF alloc
<1>9. \A l \in Lots : ClaimsOn(l, Taken)' = ClaimsOn(l, Taken) - (IF l \in D THEN alloc[l] ELSE 0) /\ ClaimsOn(l, Taken) \in Nat
 <2> SUFFICES ASSUME NEW l \in Lots PROVE ClaimsOn(l, Taken)' = ClaimsOn(l, Taken) - (IF l \in D THEN alloc[l] ELSE 0) /\ ClaimsOn(l, Taken) \in Nat
  OBVIOUS
 <2>1. lot'[l].total = lot[l].total BY <1>6 DEF SameLot
 <2>2. OfRedemption(l, r, Taken)' \in Nat BY <1>8
 <2>3. ClaimsOn(l, Taken)' = ClaimsOn(l, Taken) - OfRedemption(l, r, Taken) + OfRedemption(l, r, Taken)'
  BY <1>0, <1>r, <1>4, <2>1, <2>2, RedemptionClaims
 <2>4. PICK n \in Nat : n = ClaimsOn(l, Taken) BY <1>0, Claimed0
 <2> QED BY <1>5, <1>8, <2>3, <2>4
<1>10. AccountsMove(RedemptionTypes, r)
 <2>0. type \in RedemptionTypes BY DEF RedemptionTypes
 <2>1. \A l \in D : LotMoves(l, RedemptionTypes, r) BY <1>5, <1>6, <1>9, <2>0
 <2>2. \A l \in Lots \ D : LotStays(l)
  <3> SUFFICES ASSUME NEW l \in Lots \ D PROVE LotStays(l)
   OBVIOUS
  <3>1. PICK n \in Nat : n = ClaimsOn(l, Taken) BY <1>9
  <3> QED BY <1>6, <1>9, <3>1 DEF LotStays
 <2>3. Issued \subseteq Lots BY DEF Issued
 <2> QED BY <1>5, <1>6, <2>1, <2>2, <2>3 DEF AccountsMove
<1>11. RedemptionMove(r)
 <2>1. Issued' \subseteq Issued BY <1>5, <1>6 DEF Issued
 <2>2. ASSUME NEW p \in Purchases, refund[p].kind = "user_unused"
       PROVE  lot'[refund[p].lot] = lot[refund[p].lot] /\ refund[p].lot \notin D
  <3>1. refund[p].lot \in Issued /\ ~EverTouched(refund[p].lot) BY <1>0, <2>2 DEF PurchasesInv, PurchaseLine
  <3>2. refund[p].lot \notin D BY <3>1 DEF EverTouched, alloc
  <3> QED BY <1>6, <3>1, <3>2 DEF Issued
 <2> QED BY <1>4, <1>6, <1>10, <2>1, <2>2 DEF RedemptionMove
<1>12. LotsInv' /\ LotsKept /\ (RedemptionOK(r)' /\ SlotsInv' => TicketsInv') BY <1>11, RedemptionMoveFacts
<1>13. RedemptionOK(r)'
 <2>1. RedemptionHead(H) BY <1>1, <1>4 DEF RedemptionHead, alloc
 <2>2. \A l \in Lots : /\ (l \notin D => NoneIn(book[l], "redemption_hold", r)) /\ NoneIn(book[l], "redemption_restore", r)
                       /\ NoneIn(book[l], "redemption_return_restore", r)
  BY <1>1 DEF RedemptionOK, RedemptionRows, alloc
 <2>3. ASSUME NEW l \in D PROVE RedemptionLine(r, l)'
  <3>1. l \in Lots /\ l \in Issued' /\ SameLot(lot[l], lot'[l]) /\ RedemptionLine(r, l)
   BY <1>1, <1>5, <1>12, <2>3 DEF LotsKept
  <3>2. OneIn(book'[l], type, r, alloc[l]) BY <1>6, <2>2, <2>3, <3>1 DEF Added
  <3>3. OneIn(book'[l], "redemption_hold", r, -alloc[l])
   BY <1>6, <2>3, <3>1 DEF Added, RedemptionLine, alloc
  <3>4. lot'[l].owner = H.owner /\ alloc[l] <= lot'[l].total
   BY <1>4, <3>1 DEF SameLot, RedemptionLine, alloc
  <3> QED BY <1>4, <3>1, <3>2, <3>3, <3>4 DEF RedemptionLine
 <2>4. ASSUME NEW l \in Lots PROVE RedemptionRows(r, l)'
  <3>1. CASE l \in D
   <4>1. \A t \in {"redemption_restore", "redemption_return_restore"} : t # type => NoneIn(book'[l], t, r)
    BY <1>6, <2>2, <3>1 DEF Added
   <4> QED BY <1>4, <3>1, <4>1 DEF RedemptionRows
  <3>2. CASE l \notin D
   BY <1>4, <1>6, <2>2, <2>4, <3>2 DEF RedemptionRows
  <3> QED BY <3>1, <3>2
 <2> QED BY <1>4, <2>1, <2>3, <2>4 DEF RedemptionOK
<1> QED BY <1>12, <1>13

LEMMA CancelStep ==
    ASSUME TicketsInv, NEW r \in Redemptions, CancelRedemption(r), RedemptionRest
    PROVE  TicketsInv'
<1>0. RedemptionsInv /\ SlotsInv BY DEF TicketsInv
<1>1. /\ redemption[r].status \in {"scheduled", "assigned"} /\ TicketsBack(r, "redemption_restore")
      /\ ReleaseSlot(redemption[r].slot)
      /\ redemption' = [redemption EXCEPT ![r].status = "cancelled", ![r].allocStatus = "restored"]
 BY DEF CancelRedemption, Cancellable
<1>2. SlotsInv' => TicketsInv' BY <1>1, TicketsBackStep
<1>3. PICK s \in Slots : s = redemption[r].slot BY <1>0, <1>1 DEF RedemptionsInv, RedemptionOK, RedemptionHead
<1>4. /\ DOMAIN redemption = Redemptions /\ DOMAIN redemption[r] = RedemptionFields
 BY <1>0 DEF RedemptionsInv, RedemptionOK, RedemptionHead
<1>5. /\ redemption'[r].status = "cancelled" /\ redemption'[r].slot = s
      /\ \A k \in Redemptions \ {r} : redemption'[k] = redemption[k]
 BY <1>1, <1>3, <1>4 DEF RedemptionFields
<1>6. /\ DOMAIN slot = Slots /\ DOMAIN slot[s] = SlotFields /\ slot[s].reserved = Cardinality(TakenOf(s))
      /\ slot[s].reserved <= slot[s].cap /\ slot[s].cap \in Nat /\ (slot[s].status = "none" => TakenOf(s) = {})
 BY <1>0 DEF SlotsInv
<1>7. TakenOf(s)' = TakenOf(s) \ {r} /\ r \in TakenOf(s) BY <1>1, <1>3, <1>5 DEF TakenOf
<1>8. \A t \in Slots : t # s => TakenOf(t)' = TakenOf(t) BY <1>3, <1>5 DEF TakenOf
<1>9. PICK n \in Nat : n = slot[s].reserved BY <1>6, TakenFinite
<1>10. Cardinality(TakenOf(s)') = n - 1 /\ n - 1 <= slot[s].cap
 <2>1. PICK T : T = TakenOf(s) OBVIOUS
 <2>2. IsFiniteSet(T) /\ Cardinality(T) = n /\ r \in T BY <1>6, <1>7, <1>9, <2>1, TakenFinite
 <2>3. Cardinality(T \ {r}) = n - 1 BY <2>2, FS_RemoveElement
 <2> QED BY <1>6, <1>7, <1>9, <2>1, <2>3
<1>11. PICK X : X = [slot[s] EXCEPT !.reserved = n - 1] OBVIOUS
<1>12. slot' = [slot EXCEPT ![s] = X] BY <1>1, <1>3, <1>6, <1>9, <1>11 DEF ReleaseSlot, SlotFields
<1>13. /\ DOMAIN slot' = Slots /\ slot'[s] = X /\ \A t \in Slots : t # s => slot'[t] = slot[t]
 BY <1>6, <1>12
<1>14. DOMAIN X = SlotFields /\ X.reserved = n - 1 /\ X.cap = slot[s].cap /\ X.status = slot[s].status
       /\ X.start = slot[s].start /\ X.end = slot[s].end
 BY <1>6, <1>11 DEF SlotFields
<1>15. SlotsInv'
 <2>1. \A t \in Slots : DOMAIN slot[t] = SlotFields BY <1>0 DEF SlotsInv
 <2>2. slot[s].status # "none" BY <1>6, <1>7
 <2> QED BY <1>0, <1>6, <1>8, <1>9, <1>10, <1>13, <1>14, <2>1, <2>2, SlotsMove
<1> QED BY <1>2, <1>15

LEMMA ReturnReceivedStep ==
    ASSUME TicketsInv, NEW r \in Redemptions, ReturnReceived(r), RedemptionRest
    PROVE  TicketsInv'
<1>0. RedemptionsInv /\ SlotsInv BY DEF TicketsInv
<1>1. /\ redemption[r].status = "return_in_progress" /\ TicketsBack(r, "redemption_return_restore") /\ UNCHANGED slot
      /\ redemption' = [redemption EXCEPT ![r].status = "restored", ![r].allocStatus = "restored"]
 BY DEF ReturnReceived
<1>2. SlotsInv' => TicketsInv' BY <1>1, TicketsBackStep
<1>3. DOMAIN redemption = Redemptions /\ DOMAIN redemption[r] = RedemptionFields
 BY <1>0 DEF RedemptionsInv, RedemptionOK, RedemptionHead
<1>4. \A k \in Redemptions : /\ redemption'[k].slot = redemption[k].slot
                             /\ (redemption'[k].status = "cancelled" <=> redemption[k].status = "cancelled")
 BY <1>1, <1>3 DEF RedemptionFields
<1>5. \A t : TakenOf(t)' = TakenOf(t) BY <1>4 DEF TakenOf
<1>6. DOMAIN slot' = Slots /\ \A t \in Slots : DOMAIN slot'[t] = SlotFields BY <1>0, <1>1 DEF SlotsInv
<1>7. SlotsInv' BY <1>0, <1>1, <1>5, <1>6, SlotsMove
<1> QED BY <1>2, <1>7

LEMMA DeliveryStep ==
    ASSUME TicketsInv, NEW r \in Redemptions, Assigned(r) \/ PickedUp(r) \/ Delivered(r), RedemptionRest
    PROVE  TicketsInv'
<1>0. RedemptionsInv BY DEF TicketsInv
<1>1. DOMAIN redemption = Redemptions /\ RedemptionHead(redemption[r])
 BY <1>0 DEF RedemptionsInv, RedemptionOK
<1>2. PICK to, al :
         /\ \/ redemption[r].status = "scheduled" /\ to = "assigned" /\ al = "held"
            \/ redemption[r].status \in {"scheduled", "assigned"} /\ to = "picked_up" /\ al = "held"
            \/ redemption[r].status = "picked_up" /\ to = "delivered" /\ al = "consumed"
         /\ redemption[r].allocStatus = "held" /\ UNCHANGED <<lot, book, slot>>
         /\ redemption' = [redemption EXCEPT ![r].status = to, ![r].allocStatus = al]
 BY DEF Assigned, PickedUp, Delivered, Fulfil
<1> DEFINE H == [redemption[r] EXCEPT !.status = to, !.allocStatus = al]
<1>3. redemption' = [redemption EXCEPT ![r] = H] BY <1>1, <1>2
<1>4. /\ DOMAIN H = RedemptionFields /\ H.status = to /\ H.allocStatus = al
      /\ H.alloc = redemption[r].alloc /\ H.slot = redemption[r].slot /\ H.owner = redemption[r].owner
      /\ H.qty = redemption[r].qty /\ H.srcExp = redemption[r].srcExp /\ H.ret = redemption[r].ret
 BY <1>1 DEF RedemptionHead, RedemptionFields
<1> HIDE DEF H
<1>5. redemption[r].status \in {"scheduled", "assigned", "picked_up", "return_in_progress"} BY <1>2
<1>6. H.status = "assigned" => H.ret = FALSE BY <1>1, <1>2, <1>4 DEF RedemptionHead
<1>7. \/ H.status \in {"assigned", "picked_up", "return_in_progress"} /\ H.allocStatus = "held"
      \/ H.status = "delivered" /\ H.allocStatus = "consumed"
 BY <1>2, <1>4
<1> QED BY <1>2, <1>3, <1>4, <1>5, <1>6, <1>7, QuietRedemption

LEMMA ReturnStep ==
    ASSUME TicketsInv, NEW r \in Redemptions, ReturnAsked(r) \/ ReturnApproved(r), RedemptionRest
    PROVE  TicketsInv'
<1>0. RedemptionsInv BY DEF TicketsInv
<1>1. DOMAIN redemption = Redemptions /\ RedemptionHead(redemption[r])
 BY <1>0 DEF RedemptionsInv, RedemptionOK
<1>2. PICK st, asked :
         /\ redemption[r].status \in {"picked_up", "return_in_progress"} /\ st \in {"picked_up", "return_in_progress"}
         /\ UNCHANGED <<lot, book, slot>>
         /\ redemption' = [redemption EXCEPT ![r] = [redemption[r] EXCEPT !.status = st, !.ret = asked]]
 <2>1. CASE ReturnAsked(r)
  <3>1. redemption' = [redemption EXCEPT ![r] = [redemption[r] EXCEPT !.status = redemption[r].status, !.ret = TRUE]]
   BY <1>1, <2>1 DEF ReturnAsked, RedemptionHead, RedemptionFields
  <3> QED BY <2>1, <3>1 DEF ReturnAsked
 <2>2. CASE ReturnApproved(r)
  <3>1. redemption' = [redemption EXCEPT ![r] = [redemption[r] EXCEPT !.status = "return_in_progress", !.ret = redemption[r].ret]]
   BY <1>1, <2>2 DEF ReturnApproved, RedemptionHead, RedemptionFields
  <3> QED BY <2>2, <3>1 DEF ReturnApproved
 <2> QED BY <2>1, <2>2
<1> DEFINE H == [redemption[r] EXCEPT !.status = st, !.ret = asked]
<1>4. /\ DOMAIN H = RedemptionFields /\ H.status = st /\ H.allocStatus = redemption[r].allocStatus
      /\ H.alloc = redemption[r].alloc /\ H.slot = redemption[r].slot /\ H.owner = redemption[r].owner
      /\ H.qty = redemption[r].qty /\ H.srcExp = redemption[r].srcExp
 BY <1>1 DEF RedemptionHead, RedemptionFields
<1>3. redemption' = [redemption EXCEPT ![r] = H] BY <1>2
<1> HIDE DEF H
<1>5. redemption[r].allocStatus = "held" BY <1>1, <1>2 DEF RedemptionHead
<1> QED BY <1>2, <1>3, <1>4, <1>5, QuietRedemption

----------------------------------------
\* Nothing that the other parts of the invariant speak of changes; time may pass.
TicketsAside == UNCHANGED <<lot, book, gift, redemption, renewal, refund, pay, trade, comp, given, purchase, quota>>

LEMMA AsideKeeps == ASSUME TicketsInv, TicketsAside, now' \in Nat, now <= now', SlotsInv' PROVE TicketsInv'
<1>r. UNCHANGED <<lot, book, gift, redemption, renewal, refund, pay, trade, comp, given, purchase, quota>>
 BY DEF TicketsAside
<1>0. Issued' = Issued BY <1>r DEF Issued
<1>1. \A l : ClaimsOn(l, Taken)' = ClaimsOn(l, Taken) /\ Account(l)' = Account(l)
 BY <1>r DEF ClaimsOn, OfGift, OfRedemption, OfRefund, Account
<1>2. \A l : CompletedOf(l)' = CompletedOf(l) /\ (HeldFor(l)' <=> HeldFor(l)) /\ (EverTouched(l)' <=> EverTouched(l))
 BY <1>r DEF CompletedOf, HeldFor, HeldForRefund, EverTouched
<1>3. \A l, first : Chain(l, first)' <=> Chain(l, first)
 <2> SUFFICES ASSUME NEW l, NEW first PROVE Chain(l, first)' <=> Chain(l, first)
  OBVIOUS
 <2>1. PICK C : C = CompletedOf(l) /\ C = CompletedOf(l)' BY <1>2
 <2>2. lot' = lot /\ renewal' = renewal BY <1>r
 <2>3. Chain(l, first) => Chain(l, first)' BY <2>1, <2>2 DEF Chain
 <2>4. Chain(l, first)' => Chain(l, first) BY <2>1, <2>2 DEF Chain
 <2> QED BY <2>3, <2>4
<1>4. LotsInv'
 <2>1. LotsInv BY DEF TicketsInv
 <2>2. \A l \in Issued' : AccountOK(Account(l)', ClaimsOn(l, Taken)') BY <1>0, <1>1, <2>1 DEF LotsInv
 <2>3. \A l \in Issued' : lot'[l].status = "expired" => lot'[l].exp <= now'
  <3>1. \A l \in Issued : lot[l].exp \in Int BY <2>1, IssuedLot DEF IsLot
  <3> QED BY <1>r, <1>0, <2>1, <3>1 DEF LotsInv
 <2> QED BY <1>r, <1>0, <2>1, <2>2, <2>3 DEF LotsInv
<1>5. ChainsInv'
 <2>1. ChainsInv BY DEF TicketsInv
 <2> QED BY <1>r, <1>0, <1>2, <1>3, <2>1, Zenon DEF ChainsInv
<1>6. GiftsInv'
 <2>1. GiftsInv BY DEF TicketsInv
 <2>2. \A g, l : (GiftLine(g, l)' <=> GiftLine(g, l)) /\ (GiftRows(g, l)' <=> GiftRows(g, l))
  BY <1>r, <1>0, <1>3 DEF GiftLine, GiftRows
 <2> QED BY <1>r, <2>1, <2>2 DEF GiftsInv, GiftOK
<1>7. RedemptionsInv'
 <2>1. RedemptionsInv BY DEF TicketsInv
 <2>2. \A g, l : (RedemptionLine(g, l)' <=> RedemptionLine(g, l)) /\ (RedemptionRows(g, l)' <=> RedemptionRows(g, l))
  BY <1>r, <1>0 DEF RedemptionLine, RedemptionRows
 <2> QED BY <1>r, <2>1, <2>2 DEF RedemptionsInv, RedemptionOK
<1>8. RenewalsInv'
 <2>1. RenewalsInv BY DEF TicketsInv
 <2>2. \A n : (RenewalHead(n)' <=> RenewalHead(n)) /\ (RenewalPay(n)' <=> RenewalPay(n))
  BY <1>r, <1>0, <1>2 DEF RenewalHead, RenewalPay
 <2> QED BY <1>r, <2>1, <2>2 DEF RenewalsInv
<1>9. PurchasesInv'
 <2>1. PurchasesInv BY DEF TicketsInv
 <2>2. \A n : (PurchaseHead(n)' <=> PurchaseHead(n)) /\ (PurchaseLine(n)' <=> PurchaseLine(n))
  BY <1>r, <1>0, <1>2 DEF PurchaseHead, PurchaseLine
 <2> QED BY <1>r, <2>1, <2>2 DEF PurchasesInv
<1>10. PaysInv' /\ QuotasInv' BY <1>r, PaysFrame, QuotasFrame DEF TicketsInv
<1> QED BY <1>4, <1>5, <1>6, <1>7, <1>8, <1>9, <1>10 DEF TicketsInv
LEMMA SlotStepKeeps == ASSUME SlotsInv, SlotStep PROVE SlotsInv'
<1>1. PICK s \in Slots, cap \in 1..MaxCap :
         \/ \E w \in Windows : CreateSlot(s, w, cap)
         \/ \E w \in Windows : \E st \in {"open", "closed"} : UpdateSlot(s, cap, w.cutoff, st)
 BY DEF SlotStep
<1>2. \A t \in Slots : TakenOf(t)' = TakenOf(t) BY DEF SlotStep, TakenOf
<1>3. /\ DOMAIN slot = Slots /\ DOMAIN slot[s] = SlotFields /\ slot[s].reserved = Cardinality(TakenOf(s))
      /\ slot[s].reserved <= slot[s].cap /\ slot[s].cap \in Nat /\ (slot[s].status = "none" => TakenOf(s) = {})
      /\ (slot[s].status = "open" => ~Overlaps(s, slot[s]))
 BY DEF SlotsInv
<1>4. Cardinality({}) = 0 BY FS_EmptySet
<1>5. PICK X : /\ slot' = [slot EXCEPT ![s] = X] /\ DOMAIN X = SlotFields /\ X.cap = cap
               /\ X.reserved = Cardinality(TakenOf(s)) /\ X.reserved <= cap /\ X.status \in {"open", "closed"}
               /\ (X.status = "open" => ~Overlaps(s, X))
 <2>1. CASE \E w \in Windows : CreateSlot(s, w, cap)
  <3>1. PICK w \in Windows : CreateSlot(s, w, cap) BY <2>1
  <3> DEFINE X == [status |-> "open", start |-> w.start, end |-> w.end, cutoff |-> w.cutoff, cap |-> cap, reserved |-> 0]
  <3>2. slot' = [slot EXCEPT ![s] = X] /\ slot[s].status = "none" /\ ~Overlaps(s, w) BY <3>1 DEF CreateSlot
  <3>3. X.start = w.start /\ X.end = w.end /\ X.cap = cap /\ X.reserved = 0 /\ X.status = "open" /\ DOMAIN X = SlotFields
   BY DEF SlotFields
  <3> HIDE DEF X
  <3>4. ~Overlaps(s, X) BY <3>2, <3>3 DEF Overlaps
  <3>5. X.reserved = Cardinality(TakenOf(s)) /\ X.reserved <= cap BY <1>3, <1>4, <3>2, <3>3
  <3> QED BY <3>2, <3>3, <3>4, <3>5
 <2>2. CASE \E w \in Windows : \E st \in {"open", "closed"} : UpdateSlot(s, cap, w.cutoff, st)
  <3>1. PICK w \in Windows, st \in {"open", "closed"} : UpdateSlot(s, cap, w.cutoff, st) BY <2>2
  <3>2. PICK cutoff : cutoff = w.cutoff OBVIOUS
  <3> DEFINE X == [slot[s] EXCEPT !.cap = cap, !.cutoff = cutoff, !.status = st]
  <3>3. slot' = [slot EXCEPT ![s] = X] /\ cap >= slot[s].reserved /\ (st = "open" => ~Overlaps(s, slot[s]))
   BY <1>3, <3>1, <3>2 DEF UpdateSlot, MayOpen
  <3>4. X.start = slot[s].start /\ X.end = slot[s].end /\ X.cap = cap /\ X.reserved = slot[s].reserved /\ X.status = st
        /\ DOMAIN X = SlotFields
   BY <1>3 DEF SlotFields
  <3> HIDE DEF X
  <3>5. Overlaps(s, X) => Overlaps(s, slot[s]) BY <3>4 DEF Overlaps
  <3>6. slot[s].reserved \in Nat BY <1>3, TakenFinite
  <3> QED BY <1>3, <3>3, <3>4, <3>5, <3>6
 <2> QED BY <1>1, <2>1, <2>2
<1>6. DOMAIN slot' = Slots /\ slot'[s] = X /\ \A t \in Slots \ {s} : slot'[t] = slot[t] BY <1>3, <1>5
<1>7. ASSUME NEW t \in Slots, slot'[t].status = "open" PROVE ~Overlaps(t, slot[t])'
 <2>1. SUFFICES ASSUME NEW u \in Slots \ {t}, slot'[u].status = "open",
                       slot'[t].start < slot'[u].end, slot'[t].end > slot'[u].start
                PROVE  FALSE
  BY DEF Overlaps
 <2>2. CASE t = s
  BY <1>5, <1>6, <1>7, <2>1, <2>2 DEF Overlaps
 <2>3. CASE u = s
  <3>1. slot[t] = slot'[t] /\ slot[t].status = "open" /\ t \in Slots \ {s} BY <1>6, <1>7, <2>1, <2>3
  <3>2. X.status = "open" /\ slot[t].start < X.end /\ slot[t].end > X.start BY <1>6, <2>1, <2>3, <3>1
  <3>3. X.start < slot[t].end /\ X.end > slot[t].start BY <3>2
  <3> QED BY <1>5, <3>1, <3>2, <3>3 DEF Overlaps
 <2>4. CASE t # s /\ u # s
  <3>1. slot[t] = slot'[t] /\ slot[u] = slot'[u] BY <1>6, <2>4
  <3>2. ~Overlaps(t, slot[t]) BY <1>7, <3>1 DEF SlotsInv
  <3> QED BY <2>1, <3>1, <3>2 DEF Overlaps
 <2> QED BY <2>2, <2>3, <2>4
<1>8. ASSUME NEW t \in Slots
      PROVE  /\ DOMAIN slot'[t] = SlotFields /\ slot'[t].cap \in Nat
             /\ slot'[t].reserved = Cardinality(TakenOf(t)') /\ slot'[t].reserved <= slot'[t].cap
             /\ (slot'[t].status = "none" => TakenOf(t)' = {})
 <2>1. CASE t = s
  BY <1>2, <1>5, <1>6, <2>1
 <2>2. CASE t # s
  BY <1>2, <1>6, <1>8, <2>2 DEF SlotsInv
 <2> QED BY <2>1, <2>2
<1> QED BY <1>6, <1>7, <1>8 DEF SlotsInv

LEMMA RedemptionTurnKeeps == ASSUME TicketsInv, RedemptionTurn PROVE TicketsInv'
<1>1. RedemptionRest BY DEF RedemptionTurn, RedemptionRest
<1>2. CASE SlotStep
 <2>1. TicketsAside /\ now' \in Nat /\ now <= now'
  BY <1>1, <1>2 DEF SlotStep, RedemptionRest, TicketsAside, TicketsInv, LotsInv
 <2>2. SlotsInv' BY <1>2, SlotStepKeeps DEF TicketsInv
 <2> QED BY <2>1, <2>2, AsideKeeps
<1>3. ASSUME NEW r \in Redemptions, NEW c \in Customers, NEW q \in 1..3, NEW s \in Slots, CreateRedemption(r, c, q, s)
      PROVE  TicketsInv'
 BY <1>1, <1>3, CreateRedemptionStep
<1>4. ASSUME NEW r \in Redemptions, \/ CancelRedemption(r)
                                    \/ Assigned(r) \/ PickedUp(r) \/ Delivered(r)
                                    \/ ReturnAsked(r) \/ ReturnApproved(r) \/ ReturnReceived(r)
      PROVE  TicketsInv'
 BY <1>1, <1>4, CancelStep, DeliveryStep, ReturnStep, ReturnReceivedStep
<1> QED BY <1>2, <1>3, <1>4 DEF RedemptionTurn, RedemptionStep

----------------------------------------
(* Time and expiry. *)

LEMMA ClockTurnKeeps == ASSUME TicketsInv, ClockTurn PROVE TicketsInv'
<1>1. LotsInv /\ SlotsInv BY DEF TicketsInv
<1>2. now' \in Nat /\ now <= now' /\ TicketsAside /\ UNCHANGED <<slot, redemption>>
 BY <1>1 DEF ClockTurn, Tick, TicketsAside, LotsInv
<1>3. SlotsInv' BY <1>1, <1>2, SlotsFrame
<1> QED BY <1>2, <1>3, AsideKeeps

\* The businesses other than renewals rest.
RenewalRest == UNCHANGED <<gift, redemption, refund, now, slot, purchase, quota>>

\* What is asked of the lots, so that everybody but the renewals is as before.
LotsRest ==
    /\ LotsInv' /\ LotsKept /\ RowsKept({}, 0) /\ ChainsKept /\ ChainsInv' /\ Issued' \subseteq Issued
    /\ \A l \in Issued : /\ (HeldFor(l) => lot'[l].exp = lot[l].exp)
                         /\ (lot'[l].version = lot[l].version => lot'[l].exp = lot[l].exp)
    /\ \A p \in Purchases : refund[p].kind = "user_unused" => lot'[refund[p].lot] = lot[refund[p].lot]

LEMMA HeldSame == ASSUME RenewalRest, NEW l PROVE HeldFor(l)' <=> HeldFor(l)
BY DEF RenewalRest, HeldFor, HeldForRefund

LEMMA LotsRestFacts ==
    ASSUME TicketsInv, LotsRest, RenewalRest,
           \A p \in Purchases : pay'[p] = pay[p] /\ comp'[p] = comp[p] /\ given'[p] = given[p],
           \A p \in Purchases : refund[p].kind = "user_unused" => ~EverTouched(refund[p].lot)',
           RenewalsInv', PaysInv'
    PROVE  TicketsInv'
<1>0. /\ LotsInv /\ ChainsInv /\ GiftsInv /\ RedemptionsInv /\ RenewalsInv /\ PaysInv /\ PurchasesInv
      /\ SlotsInv /\ QuotasInv
 BY DEF TicketsInv
<1>r. UNCHANGED <<gift, redemption, refund, now, slot, purchase, quota>>
 BY DEF RenewalRest
<1>1. LotsInv' /\ LotsKept /\ RowsKept({}, 0) /\ ChainsKept /\ ChainsInv' BY DEF LotsRest
<1>2. GiftsInv'
 <2> SUFFICES ASSUME NEW g \in Gifts PROVE GiftOK(g)'
  BY <1>0, <1>r DEF GiftsInv
 <2>1. GiftOK(g) /\ gift'[g] = gift[g] BY <1>0, <1>r DEF GiftsInv
 <2>2. gift[g].allocStatus = "held" => \A l \in DOMAIN gift[g].alloc : lot'[l].exp = lot[l].exp
  BY <2>1 DEF GiftOK, GiftLine, LotsRest, HeldFor
 <2> QED BY <1>1, <2>1, <2>2, GiftFrame
<1>3. RedemptionsInv'
 <2> SUFFICES ASSUME NEW r \in Redemptions PROVE RedemptionOK(r)'
  BY <1>0, <1>r DEF RedemptionsInv
 <2>1. RedemptionOK(r) /\ redemption'[r] = redemption[r] BY <1>0, <1>r DEF RedemptionsInv
 <2>2. redemption[r].allocStatus = "held" => \A l \in DOMAIN redemption[r].alloc : lot'[l].exp = lot[l].exp
  BY <2>1 DEF RedemptionOK, RedemptionLine, LotsRest, HeldFor
 <2> QED BY <1>1, <2>1, <2>2, RedemptionFrame
<1>4. PurchasesInv'
 <2>1. PurchasesRest BY <1>r DEF PurchasesRest
 <2>2. \A p \in Purchases : refund[p].kind = "user_unused" =>
             lot'[refund[p].lot] = lot[refund[p].lot] /\ ~EverTouched(refund[p].lot)'
  BY DEF LotsRest
 <2>3. \A l \in Issued' \ Issued : \A p \in Purchases : lot'[l].from # <<p>> BY DEF LotsRest
 <2>4. {} \cap PurchaseTypes = {} OBVIOUS
 <2> QED BY <1>0, <1>1, <2>1, <2>2, <2>3, <2>4, PurchasesFrame
<1>5. SlotsInv' /\ QuotasInv' BY <1>0, <1>r, SlotsFrame, QuotasFrame
<1> QED BY <1>1, <1>2, <1>3, <1>4, <1>5 DEF TicketsInv

\* Accounts that move by expiry alone.
LEMMA QuietLots ==
    ASSUME TicketsInv, RenewalRest, AccountsMove({}, 0), Issued' \subseteq Issued,
           \A n \in Renewals : renewal[n].status = "completed" \/ renewal'[n].status = "completed" => renewal'[n] = renewal[n],
           \A p \in Purchases : refund[p].kind = "user_unused" => lot'[refund[p].lot] = lot[refund[p].lot]
    PROVE  LotsRest
<1>0. LotsInv /\ ChainsInv /\ RenewalsInv BY DEF TicketsInv
<1>1. LotsInv' /\ LotsKept /\ LotsUntouched /\ RowsKept({}, 0)
 <2>1. now' \in Nat /\ now <= now' BY <1>0 DEF LotsInv, RenewalRest
 <2> QED BY <1>0, <2>1, AccountsStep
<1>2. ChainsKept /\ ChainsInv' BY <1>0, <1>1, ChainsStep
<1> QED BY <1>1, <1>2 DEF LotsRest, LotsUntouched

\* The accounts of some lots are expired.
LEMMA ExpiredLots ==
    ASSUME TicketsInv, NEW batch \in SUBSET Issued, NEW biz, \A l \in batch : lot[l].exp <= now,
           Save([l \in batch |-> Expire(Account(l), biz[l], now)]), UNCHANGED <<gift, redemption, refund>>
    PROVE  /\ AccountsMove({}, 0) /\ Issued' \subseteq Issued /\ \A l \in Lots \ batch : lot'[l] = lot[l]
<1>0. LotsInv /\ GiftsInv /\ RedemptionsInv /\ PurchasesInv BY DEF TicketsInv
<1> DEFINE accs == [l \in batch |-> Expire(Account(l), biz[l], now)]
<1>1. batch \subseteq Lots /\ DOMAIN accs = batch /\ Issued \subseteq Lots BY DEF Issued
<1>2. /\ DOMAIN lot' = Lots /\ DOMAIN book' = Lots
      /\ \A l \in batch : /\ lot'[l] = accs[l].lot /\ book'[l] = accs[l].rows
                          /\ Account(l)'.lot = accs[l].lot /\ Account(l)'.rows = accs[l].rows
      /\ \A l \in Lots \ batch : lot'[l] = lot[l] /\ book'[l] = book[l]
 <2>1. Save(accs) OBVIOUS
 <2> HIDE DEF accs
 <2> QED BY <1>1, <2>1, SaveFacts
<1>3. ASSUME NEW l \in batch PROVE LotStays(l) \/ LotMoves(l, {}, 0)
 <2>1. l \in Issued /\ l \in Lots BY <1>1, <1>3
 <2>2. /\ AccountOK(Account(l), ClaimsOn(l, Taken)) /\ IsLot(lot[l])
       /\ Account(l) = [lot |-> lot[l], rows |-> book[l]] /\ Account(l).lot = lot[l] /\ Account(l).rows = book[l]
  BY <1>0, <2>1, IssuedLot DEF LotsInv
 <2>3. PICK claims \in Nat : claims = ClaimsOn(l, Taken) BY <1>0, <2>1, Claimed0
 <2> DEFINE acc == Expire(Account(l), biz[l], now)
 <2>4. accs[l] = acc BY <1>3
 <2>5. /\ (lot[l].status = "expired" => acc = Account(l))
       /\ (lot[l].status # "expired" => Next1(Account(l), acc, claims, "expiry", biz[l], -lot[l].avail))
       /\ acc.lot.status = "expired" /\ acc.lot.exp = lot[l].exp
  <3>1. PICK L, rows, b, t : L = lot[l] /\ rows = book[l] /\ b = biz[l] /\ t = now OBVIOUS
  <3>2. Account(l) = [lot |-> L, rows |-> rows] /\ acc = Expire([lot |-> L, rows |-> rows], b, t)
   BY <2>2, <3>1, Zenon
  <3>3. AccountOK([lot |-> L, rows |-> rows], claims) BY <2>2, <2>3, <3>2, Zenon
  <3> HIDE DEF acc
  <3>4. /\ (L.status = "expired" => acc = [lot |-> L, rows |-> rows])
        /\ (L.status # "expired" => Next1([lot |-> L, rows |-> rows], acc, claims, "expiry", b, -L.avail))
        /\ acc.lot.status = "expired" /\ acc.lot.exp = L.exp
   BY <3>2, <3>3, ExpireFacts
  <3> QED BY <3>1, <3>2, <3>4
 <2> HIDE DEF acc, accs
 <2>6. Account(l)'.lot = acc.lot /\ Account(l)'.rows = acc.rows /\ lot'[l] = acc.lot /\ book'[l] = acc.rows
  BY <1>2, <1>3, <2>4
 <2>7. lot'[l].total = lot[l].total BY <2>2, <2>5, <2>6 DEF Next1, SameLot
 <2>8. ClaimsOn(l, Taken)' = claims BY <1>0, <2>1, <2>3, <2>7, ClaimsStay
 <2>9. CASE lot[l].status = "expired"
  BY <2>2, <2>3, <2>5, <2>6, <2>8, <2>9 DEF LotStays
 <2>10. CASE lot[l].status # "expired"
  <3>1. acc.lot.exp <= now BY <2>5
  <3> QED BY <2>5, <2>6, <2>8, <2>10, <3>1, SavedMoves
 <2> QED BY <2>9, <2>10
<1>4. ASSUME NEW l \in Lots \ batch PROVE LotStays(l)
 <2>1. ClaimsOn(l, Taken)' = ClaimsOn(l, Taken) BY <1>0, <1>2, <1>4, ClaimsStay
 <2> QED BY <1>2, <1>4, <2>1 DEF LotStays
<1> HIDE DEF accs
<1>5. AccountsMove({}, 0) BY <1>1, <1>2, <1>3, <1>4 DEF AccountsMove
<1>6. Issued' \subseteq Issued BY <1>2 DEF Issued
<1> QED BY <1>2, <1>5, <1>6
LEMMA HeadKept ==
    ASSUME TicketsInv, LotsRest, RenewalRest, NEW n \in Renewals, renewal'[n] = renewal[n] PROVE RenewalHead(n)'
<1>0. LotsInv /\ RenewalHead(n) /\ LotsInv' /\ LotsKept BY DEF TicketsInv, RenewalsInv, LotsRest
<1>1. PICK l : l = renewal[n].lot OBVIOUS
<1>2. HeldFor(l)' <=> HeldFor(l) BY HeldSame
<1>3. renewal[n].status = "quoted" => (lot'[l].version = lot[l].version => lot'[l].exp = lot[l].exp /\ (HeldFor(l)' => HeldFor(l)))
 BY <1>0, <1>1, <1>2 DEF RenewalHead, LotsRest
<1> QED BY <1>0, <1>1, <1>3, RenewalFrame

LEMMA ExpiryTurnKeeps == ASSUME TicketsInv, ExpiryTurn PROVE TicketsInv'
<1>0. LotsInv /\ RenewalsInv /\ PurchasesInv /\ PaysInv BY DEF TicketsInv
<1>1. UNCHANGED <<gift, redemption, renewal, refund, now, pay, trade, comp, given, slot, stock, purchase, quota>>
 BY DEF ExpiryTurn
<1>2. PICK batch \in SUBSET {l \in Lots : lot[l].status = "active" /\ lot[l].exp <= now} :
         Save([l \in batch |-> Expire(Account(l), l, now)])
 BY DEF ExpiryTurn, ExpireLotsOnce
<1>3. batch \in SUBSET Issued /\ \A l \in batch : lot[l].exp <= now BY <1>0, <1>2, InUse
<1> DEFINE biz == [l \in batch |-> l]
<1>4. Save([l \in batch |-> Expire(Account(l), biz[l], now)]) BY <1>2
<1> HIDE DEF biz
<1>5. /\ AccountsMove({}, 0) /\ Issued' \subseteq Issued /\ \A l \in Lots \ batch : lot'[l] = lot[l]
 BY <1>1, <1>3, <1>4, ExpiredLots
<1>6. ASSUME NEW p \in Purchases, refund[p].kind = "user_unused" PROVE lot'[refund[p].lot] = lot[refund[p].lot]
 <2>1. refund[p].lot \in Issued /\ lot[refund[p].lot].status # "active"
  BY <1>0, <1>6 DEF PurchasesInv, PurchaseLine
 <2> QED BY <1>2, <1>5, <2>1 DEF Issued
<1>7. RenewalRest BY <1>1 DEF RenewalRest
<1>8. LotsRest BY <1>1, <1>5, <1>6, <1>7, QuietLots
<1>9. RenewalsInv'
 <2>1. ASSUME NEW n \in Renewals PROVE RenewalHead(n)' /\ RenewalPay(n)'
  <3>1. RenewalHead(n)' BY <1>1, <1>7, <1>8, HeadKept
  <3>2. RenewalPay(n) BY <1>0 DEF RenewalsInv
  <3> QED BY <1>1, <3>1, <3>2 DEF RenewalPay
 <2> QED BY <1>0, <1>1, <2>1 DEF RenewalsInv
<1>10. PaysInv' BY <1>0, <1>1, PaysFrame
<1>11. ASSUME NEW p \in Purchases, refund[p].kind = "user_unused" PROVE ~EverTouched(refund[p].lot)'
 <2>1. PICK l : l = refund[p].lot /\ l = refund'[p].lot BY <1>1
 <2>2. ~EverTouched(l) BY <1>0, <1>11, <2>1 DEF PurchasesInv, PurchaseLine
 <2>3. ~EverTouched(l)' BY <1>1, <2>2 DEF EverTouched
 <2> QED BY <2>1, <2>3
<1> QED BY <1>1, <1>7, <1>8, <1>9, <1>10, <1>11, LotsRestFacts

----------------------------------------
(* Renewals. *)

PayOK(b) == DOMAIN pay[b] = {"status", "exp", "told"} /\ (pay[b].status = "none" => trade[b] = "none" /\ pay[b] = NoPay)

\* A step of one renewal and its payment, for everybody else.
RenewalAlone(n) ==
    /\ RenewalRest /\ DOMAIN renewal' = Renewals /\ \A m \in Renewals \ {n} : renewal'[m] = renewal[m]
    /\ DOMAIN pay' = Payables /\ DOMAIN trade' = Payables
    /\ \A b \in Payables \ {n} : pay'[b] = pay[b] /\ trade'[b] = trade[b] /\ comp'[b] = comp[b] /\ given'[b] = given[b]

\* No other renewal of its lot is under way with it, and its lot is not a refund's.
OneActive(n) ==
    /\ renewal'[n].status \in ActiveRenewalStatuses =>
          \A m \in Renewals \ {n} : renewal[m].status \in ActiveRenewalStatuses => renewal[m].lot # renewal'[n].lot
    /\ renewal'[n].status \notin {"none", "quoted"} =>
          \A p \in Purchases : refund[p].kind = "user_unused" => refund[p].lot # renewal'[n].lot

LEMMA RenewalAloneFacts ==
    ASSUME TicketsInv, NEW n \in Renewals, RenewalAlone(n), LotsRest, OneActive(n),
           RenewalHead(n)', RenewalPay(n)', PayOK(n)'
    PROVE  TicketsInv'
<1>0. RenewalsInv /\ PurchasesInv /\ PaysInv BY DEF TicketsInv
<1>r. RenewalRest /\ UNCHANGED <<refund, gift, redemption>>
 BY DEF RenewalAlone, RenewalRest
<1>1. /\ DOMAIN renewal' = Renewals /\ \A m \in Renewals \ {n} : renewal'[m] = renewal[m]
      /\ DOMAIN pay' = Payables /\ DOMAIN trade' = Payables
      /\ \A b \in Payables \ {n} : pay'[b] = pay[b] /\ trade'[b] = trade[b] /\ comp'[b] = comp[b] /\ given'[b] = given[b]
 BY DEF RenewalAlone
<1>2. RenewalsInv'
 <2>1. ASSUME NEW m \in Renewals PROVE RenewalHead(m)' /\ RenewalPay(m)'
  <3>1. CASE m = n
   BY <3>1
  <3>2. CASE m # n
   <4>1. renewal'[m] = renewal[m] /\ pay'[m] = pay[m] /\ comp'[m] = comp[m] /\ given'[m] = given[m] /\ RenewalPay(m)
    BY <1>0, <1>1, <3>2 DEF Payables, RenewalsInv
   <4>2. RenewalHead(m)' BY <1>r, <4>1, HeadKept
   <4> QED BY <4>1, <4>2 DEF RenewalPay
  <3> QED BY <3>1, <3>2
 <2>2. ASSUME NEW k \in Renewals, NEW m \in Renewals, renewal'[k].lot = renewal'[m].lot,
              renewal'[k].status \in ActiveRenewalStatuses, renewal'[m].status \in ActiveRenewalStatuses
       PROVE  k = m
  <3>1. CASE k = n \/ m = n
   BY <1>1, <2>2, <3>1 DEF OneActive
  <3>2. CASE k # n /\ m # n
   BY <1>0, <1>1, <2>2, <3>2 DEF RenewalsInv
  <3> QED BY <3>1, <3>2
 <2> QED BY <1>1, <2>1, <2>2 DEF RenewalsInv
<1>3. PaysInv'
 <2>1. ASSUME NEW b \in Payables PROVE PayOK(b)'
  <3>1. CASE b = n
   BY <3>1
  <3>2. CASE b # n
   BY <1>0, <1>1, <3>2 DEF PaysInv, PayOK
  <3> QED BY <3>1, <3>2
 <2> QED BY <1>1, <2>1 DEF PaysInv, PayOK
<1>4. \A p \in Purchases : pay'[p] = pay[p] /\ comp'[p] = comp[p] /\ given'[p] = given[p]
 BY <1>1, PayablesAssumption DEF Payables
<1>5. ASSUME NEW p \in Purchases, refund[p].kind = "user_unused" PROVE ~EverTouched(refund[p].lot)'
 <2>1. PICK l : l = refund[p].lot /\ l = refund'[p].lot BY <1>r
 <2>2. ~EverTouched(l) BY <1>0, <1>5, <2>1 DEF PurchasesInv, PurchaseLine
 <2>3. \A m \in Renewals : ~(renewal'[m].lot = l /\ renewal'[m].status \notin {"none", "quoted"})
  BY <1>1, <1>5, <2>1, <2>2 DEF OneActive, EverTouched
 <2>4. ~EverTouched(l)' BY <1>r, <2>2, <2>3 DEF EverTouched
 <2> QED BY <2>1, <2>4
<1> QED BY <1>r, <1>2, <1>3, <1>4, <1>5, LotsRestFacts

\* The lots stay as they are.
LEMMA StillLots ==
    ASSUME TicketsInv, RenewalRest, UNCHANGED <<lot, book>>,
           \A m \in Renewals : renewal[m].status = "completed" \/ renewal'[m].status = "completed" => renewal'[m] = renewal[m]
    PROVE  LotsRest
<1>0. LotsInv /\ PurchasesInv BY DEF TicketsInv
<1>1. UNCHANGED <<gift, redemption, refund>> BY DEF RenewalRest
<1>2. \A l \in Lots : LotStays(l) BY <1>0, <1>1, ClaimsStay DEF LotStays
<1>3. Issued \subseteq Lots /\ DOMAIN lot = Lots /\ DOMAIN book = Lots /\ Issued' = Issued
 BY <1>0 DEF Issued, LotsInv
<1>4. AccountsMove({}, 0) BY <1>2, <1>3 DEF AccountsMove
<1> QED BY <1>3, <1>4, QuietLots

\* A renewal changes its status and nothing else.
StatusSet(n, s) ==
    /\ DOMAIN renewal' = Renewals /\ \A m \in Renewals \ {n} : renewal'[m] = renewal[m]
    /\ DOMAIN renewal'[n] = RenewalFields /\ renewal'[n].status = s
    /\ \A f \in RenewalFields \ {"status"} : renewal'[n][f] = renewal[n][f]

LEMMA SetStatus ==
    ASSUME TicketsInv, NEW n \in Renewals, NEW s, renewal' = [renewal EXCEPT ![n].status = s] PROVE StatusSet(n, s)
<1>1. DOMAIN renewal = Renewals /\ DOMAIN renewal[n] = RenewalFields
 BY DEF TicketsInv, RenewalsInv, RenewalHead
<1> QED BY <1>1 DEF StatusSet, RenewalFields

SettledStatuses == ActiveRenewalStatuses \cup {"completed", "closed", "refunded"}

LEMMA StatusMoves ==
    ASSUME TicketsInv, LotsRest, RenewalRest, NEW n \in Renewals, NEW s \in SettledStatuses, StatusSet(n, s),
           renewal[n].status # "none",
           \/ renewal[n].status \in ActiveRenewalStatuses \/ s \notin ActiveRenewalStatuses
           \/ ~RenewalUnderWay(renewal[n].lot),
           renewal[n].status # "quoted" \/ lot[renewal[n].lot].status = "active"
    PROVE  RenewalHead(n)' /\ OneActive(n)
<1>0. RenewalsInv /\ RenewalHead(n) /\ LotsInv /\ PurchasesInv BY DEF TicketsInv, RenewalsInv
<1>1. /\ renewal'[n].status = s /\ renewal'[n].lot = renewal[n].lot /\ renewal'[n].owner = renewal[n].owner
      /\ renewal'[n].old = renewal[n].old /\ renewal'[n].new = renewal[n].new /\ renewal'[n].free = renewal[n].free
      /\ renewal'[n].version = renewal[n].version /\ DOMAIN renewal'[n] = RenewalFields
 BY DEF StatusSet, RenewalFields
<1>2. PICK l \in Issued : l = renewal[n].lot BY <1>0 DEF RenewalHead
<1>3. /\ l \in Issued' /\ SameLot(lot[l], lot'[l]) /\ lot'[l].version >= lot[l].version
      /\ lot[l].version \in Nat /\ lot'[l].version \in Nat
 <2>1. l \in Issued' /\ SameLot(lot[l], lot'[l]) /\ lot'[l].version >= lot[l].version
  BY DEF LotsRest, LotsKept
 <2>2. IsLot(lot[l]) /\ IsLot(lot'[l]) BY <1>0, <2>1, IssuedLot, LotPrimed DEF LotsRest
 <2> QED BY <2>1, <2>2 DEF IsLot
<1>4. RenewalHead(n)'
 <2>1. /\ renewal[n].owner = lot[l].owner /\ renewal[n].old \in Int /\ renewal[n].new = renewal[n].old + Extension
       /\ renewal[n].version \in Nat /\ renewal[n].version <= lot[l].version /\ renewal[n].free \in BOOLEAN
  BY <1>0, <1>2 DEF RenewalHead
 <2>2. s \notin {"none", "quoted"} BY DEF SettledStatuses, ActiveRenewalStatuses
 <2>3. renewal'[n].lot = l /\ lot'[l].owner = lot[l].owner /\ renewal[n].version <= lot'[l].version
  BY <1>1, <1>2, <1>3, <2>1 DEF SameLot
 <2> QED BY <1>1, <1>3, <2>1, <2>2, <2>3 DEF RenewalHead, SettledStatuses
<1>5. OneActive(n)
 <2>1. ASSUME s \in ActiveRenewalStatuses, NEW m \in Renewals \ {n}, renewal[m].status \in ActiveRenewalStatuses
       PROVE  renewal[m].lot # l
  <3>1. CASE renewal[n].status \in ActiveRenewalStatuses
   BY <1>0, <1>2, <2>1, <3>1 DEF RenewalsInv
  <3>2. CASE ~RenewalUnderWay(l)
   BY <2>1, <3>2 DEF RenewalUnderWay
  <3> QED BY <1>2, <2>1, <3>1, <3>2
 <2>2. ASSUME NEW p \in Purchases, refund[p].kind = "user_unused" PROVE refund[p].lot # l
  <3>1. PurchaseLine(p) BY <1>0 DEF PurchasesInv
  <3>2. ~EverTouched(refund[p].lot) /\ lot[refund[p].lot].status # "active" BY <2>2, <3>1 DEF PurchaseLine
  <3> QED BY <1>2, <3>2 DEF EverTouched
 <2> QED BY <1>1, <1>2, <2>1, <2>2 DEF OneActive
<1> QED BY <1>4, <1>5

\* The payments and refund rows of the others.
OnlyAt(b) ==
    /\ DOMAIN pay' = Payables /\ DOMAIN trade' = Payables
    /\ \A a \in Payables \ {b} : pay'[a] = pay[a] /\ trade'[a] = trade[a] /\ comp'[a] = comp[a] /\ given'[a] = given[a]

LEMMA AloneBy ==
    ASSUME NEW n \in Renewals, RenewalRest, OnlyAt(n), DOMAIN renewal' = Renewals,
           \A m \in Renewals \ {n} : renewal'[m] = renewal[m]
    PROVE  RenewalAlone(n)
BY DEF RenewalAlone, OnlyAt

\* A renewal that is not completed changes its status; its lot stays, or its guard is released.
LEMMA RenewalStatusStep ==
    ASSUME TicketsInv, NEW n \in Renewals, NEW s \in SettledStatuses \ {"completed"},
           StatusSet(n, s), RenewalRest, OnlyAt(n),
           renewal[n].status \in SettledStatuses \ {"completed"},
           renewal[n].status \in ActiveRenewalStatuses \/ s \notin ActiveRenewalStatuses \/ ~RenewalUnderWay(renewal[n].lot),
           UNCHANGED <<lot, book>> \/ ReleaseGuard(n),
           RenewalPay(n)', PayOK(n)'
    PROVE  TicketsInv'
<1>0. RenewalsInv /\ RenewalHead(n) /\ PurchasesInv /\ LotsInv BY DEF TicketsInv, RenewalsInv
<1>1. StatusSet(n, s) /\ RenewalRest OBVIOUS
<1>2. \A m \in Renewals : renewal[m].status = "completed" \/ renewal'[m].status = "completed" => renewal'[m] = renewal[m]
 BY <1>1 DEF StatusSet
<1>3. renewal[n].status \notin {"none", "quoted"} BY DEF SettledStatuses, ActiveRenewalStatuses
<1>4. LotsRest
 <2>1. CASE UNCHANGED <<lot, book>>
  BY <1>2, <2>1, StillLots
 <2>2. CASE ~UNCHANGED <<lot, book>>
  <3>1. PICK l \in Issued : l = renewal[n].lot BY <1>0, <1>3 DEF RenewalHead
  <3>2. ~(lot[l].exp > now) /\ Save([k \in {l} |-> Expire(Account(l), n, now)])
   BY <2>2, <3>1 DEF ReleaseGuard
  <3>3. lot[l].exp <= now BY <1>0, <3>2, IssuedLot DEF IsLot, LotsInv
  <3> DEFINE biz == [k \in {l} |-> n]
  <3>4. [k \in {l} |-> Expire(Account(l), n, now)] = [k \in {l} |-> Expire(Account(k), biz[k], now)] OBVIOUS
  <3>5. Save([k \in {l} |-> Expire(Account(k), biz[k], now)]) BY <3>2, <3>4, Zenon
  <3> HIDE DEF biz
  <3>6. {l} \in SUBSET Issued /\ \A k \in {l} : lot[k].exp <= now BY <3>3
  <3>7. UNCHANGED <<gift, redemption, refund>> BY DEF RenewalRest
  <3>8. /\ AccountsMove({}, 0) /\ Issued' \subseteq Issued /\ \A k \in Lots \ {l} : lot'[k] = lot[k]
   BY <3>5, <3>6, <3>7, ExpiredLots
  <3>9. ASSUME NEW p \in Purchases, refund[p].kind = "user_unused" PROVE lot'[refund[p].lot] = lot[refund[p].lot]
   <4>1. PurchaseLine(p) BY <1>0 DEF PurchasesInv
   <4>2. ~EverTouched(refund[p].lot) /\ refund[p].lot \in Issued BY <3>9, <4>1 DEF PurchaseLine
   <4>3. refund[p].lot # l BY <1>3, <3>1, <4>2 DEF EverTouched
   <4> QED BY <3>8, <4>2, <4>3 DEF Issued
  <3> QED BY <1>2, <3>8, <3>9, QuietLots
 <2> QED BY <2>1, <2>2
<1>5. RenewalHead(n)' /\ OneActive(n) BY <1>1, <1>3, <1>4, StatusMoves
<1>6. RenewalAlone(n) BY <1>1, AloneBy DEF StatusSet
<1>7. RenewalPay(n)' /\ PayOK(n)' OBVIOUS
<1> QED BY <1>4, <1>5, <1>6, <1>7, RenewalAloneFacts

\* A payment moves, its renewal stays.
LEMMA RenewalStaysStep ==
    ASSUME TicketsInv, NEW n \in Renewals, UNCHANGED <<renewal, lot, book>>, RenewalRest, OnlyAt(n),
           RenewalPay(n)', PayOK(n)'
    PROVE  TicketsInv'
<1>0. RenewalsInv /\ PurchasesInv BY DEF TicketsInv
<1>1. LotsRest BY StillLots
<1>2. RenewalHead(n)' BY <1>1, HeadKept
<1>3. OneActive(n)
 <2>1. ASSUME renewal[n].status \in ActiveRenewalStatuses, NEW m \in Renewals \ {n}, renewal[m].status \in ActiveRenewalStatuses
       PROVE  renewal[m].lot # renewal[n].lot
  BY <1>0, <2>1 DEF RenewalsInv
 <2>2. ASSUME renewal[n].status \notin {"none", "quoted"}, NEW p \in Purchases, refund[p].kind = "user_unused"
       PROVE  refund[p].lot # renewal[n].lot
  <3>1. PurchaseLine(p) BY <1>0 DEF PurchasesInv
  <3>2. ~EverTouched(refund[p].lot) BY <2>2, <3>1 DEF PurchaseLine
  <3> QED BY <2>2, <3>2 DEF EverTouched
 <2> QED BY <2>1, <2>2 DEF OneActive
<1>4. RenewalAlone(n) BY <1>0, AloneBy DEF RenewalsInv
<1>5. RenewalPay(n)' /\ PayOK(n)' OBVIOUS
<1> QED BY <1>1, <1>2, <1>3, <1>4, <1>5, RenewalAloneFacts

\* What becomes of a payment between its business and the provider.
OutsideDone(b) ==
    /\ DOMAIN pay' = Payables /\ DOMAIN trade' = Payables
    /\ \A a \in Payables \ {b} : pay'[a] = pay[a] /\ trade'[a] = trade[a]
    /\ PayOK(b)' /\ pay[b].status # "none"
    /\ \/ pay'[b] = pay[b]
       \/ pay[b].status = "creating" /\ pay'[b].status \in {"pending", "failed"}

LEMMA OutsideFacts == ASSUME PaysInv, NEW b \in Payables, PaymentOutside(b) PROVE OutsideDone(b)
<1>1. DOMAIN pay = Payables /\ DOMAIN trade = Payables /\ PayOK(b) BY DEF PaysInv, PayOK
<1>2. CASE /\ trade' = [trade EXCEPT ![b] = trade'[b]] /\ UNCHANGED pay /\ pay[b].status # "none"
 BY <1>1, <1>2 DEF OutsideDone, PayOK
<1>3. ASSUME NEW s \in {"pending", "failed"}, SetPay(b, s), UNCHANGED trade, pay[b].status = "creating"
      PROVE  OutsideDone(b)
 BY <1>1, <1>3 DEF OutsideDone, PayOK, SetPay
<1>4. pay[b].status # "none" \/ trade[b] = "none" BY <1>1 DEF PayOK
<1>5. \/ trade' = [trade EXCEPT ![b] = trade'[b]] /\ UNCHANGED pay /\ pay[b].status # "none"
      \/ \E s \in {"pending", "failed"} : SetPay(b, s) /\ UNCHANGED trade /\ pay[b].status = "creating"
 BY <1>1, <1>4 DEF PaymentOutside, SubmitPayment, PaymentSubmitted, PaymentRefused, SubmissionUndone, CustomerPays, AttemptFails, TradeCloses
<1> QED BY <1>2, <1>3, <1>5

LEMMA RenewalOutsideStep ==
    ASSUME TicketsInv, NEW n \in Renewals, PaymentOutside(n), UNCHANGED <<lot, book, renewal, comp, given>>, RenewalRest
    PROVE  TicketsInv'
<1>0. PaysInv /\ n \in Payables /\ RenewalPay(n) BY DEF TicketsInv, RenewalsInv, Payables
<1>1. OutsideDone(n) BY <1>0, OutsideFacts
<1>2. OnlyAt(n) /\ PayOK(n)' BY <1>1 DEF OnlyAt, OutsideDone
<1>3. RenewalPay(n)' BY <1>0, <1>1 DEF RenewalPay, OutsideDone, NoPay
<1> QED BY <1>2, <1>3, RenewalStaysStep
\* The provider's report on a payment.
ReportDone(b, s) ==
    /\ DOMAIN pay' = Payables /\ \A a \in Payables \ {b} : pay'[a] = pay[a]
    /\ DOMAIN pay'[b] = {"status", "exp", "told"} /\ pay'[b].status = s
    /\ pay[b].status \notin {"none", "succeeded"}

LEMMA ReportFacts ==
    ASSUME PaysInv, NEW b \in Payables
    PROVE  /\ (ReportSuccess(b) => ReportDone(b, "succeeded"))
           /\ (ReportTerminal(b) => ReportDone(b, "closed") \/ ReportDone(b, "failed"))
           /\ (ReportMismatch(b) => ReportDone(b, "exception"))
<1>1. DOMAIN pay = Payables /\ PayOK(b) BY DEF PaysInv, PayOK
<1>2. DOMAIN pay[b] = {"status", "exp", "told"} /\ (pay[b].status = "none" => trade[b] = "none")
 BY <1>1 DEF PayOK
<1>3. ASSUME ReportSuccess(b) PROVE ReportDone(b, "succeeded")
 BY <1>1, <1>2, <1>3 DEF ReportSuccess, ReportDone
<1>4. ASSUME ReportTerminal(b) PROVE ReportDone(b, "closed") \/ ReportDone(b, "failed")
 <2>1. PICK s \in {"closed", "failed"} : SetPay(b, s) BY <1>4 DEF ReportTerminal
 <2> QED BY <1>1, <1>2, <1>4, <2>1 DEF ReportTerminal, NeverMade, ReportDone, Settled, SetPay
<1>5. ASSUME ReportMismatch(b) PROVE ReportDone(b, "exception")
 <2>1. PICK t : pay' = [pay EXCEPT ![b].status = "exception", ![b].told = t] BY <1>5 DEF ReportMismatch
 <2> QED BY <1>1, <1>2, <1>5, <2>1 DEF ReportMismatch, ReportDone, Settled
<1> QED BY <1>3, <1>4, <1>5

LEMMA ReportedAt ==
    ASSUME TicketsInv, NEW b \in Payables, NEW s, s # "none", ReportDone(b, s), UNCHANGED trade,
           \A a \in Payables \ {b} : comp'[a] = comp[a] /\ given'[a] = given[a]
    PROVE  OnlyAt(b) /\ PayOK(b)'
<1>1. DOMAIN trade = Payables BY DEF TicketsInv, PaysInv
<1> QED BY <1>1 DEF OnlyAt, PayOK, ReportDone

LEMMA AtRest ==
    ASSUME TicketsInv, NEW b \in Payables, UNCHANGED <<pay, trade>>,
           \A a \in Payables \ {b} : comp'[a] = comp[a] /\ given'[a] = given[a]
    PROVE  OnlyAt(b) /\ PayOK(b)'
BY DEF OnlyAt, PayOK, TicketsInv, PaysInv

\* A renewal that stays as it is.
LEMMA SameStatus ==
    ASSUME TicketsInv, NEW n \in Renewals, UNCHANGED renewal PROVE StatusSet(n, renewal[n].status)
BY DEF TicketsInv, RenewalsInv, RenewalHead, StatusSet

LEMMA AllStill ==
    ASSUME TicketsInv, TicketsAside, UNCHANGED <<now, slot>> PROVE TicketsInv'
<1>1. LotsInv /\ SlotsInv BY DEF TicketsInv
<1>2. now' \in Nat /\ now <= now' /\ SlotsInv' BY <1>1, SlotsFrame DEF LotsInv, TicketsAside
<1> QED BY <1>2, AsideKeeps

\* A renewal nobody has paid is closed, or found closed or paid.
LEMMA ClosedUnpaid ==
    ASSUME TicketsInv, NEW n \in Renewals, CloseUnpaid(n), RenewalRest, OnlyAt(n), UNCHANGED <<comp, given>>, PayOK(n)',
           pay'[n].status \in {"closed", "failed"}, pay[n].status \notin {"none", "succeeded"}
    PROVE  TicketsInv'
<1>0. RenewalPay(n) /\ RenewalHead(n) BY DEF TicketsInv, RenewalsInv
<1>1. CASE renewal[n].status \in {"pending_payment", "payment_unknown", "closed"}
 <2>1. renewal' = [renewal EXCEPT ![n].status = "closed"] /\ ReleaseGuard(n) BY <1>1 DEF CloseUnpaid
 <2>2. StatusSet(n, "closed") BY <2>1, SetStatus
 <2>3. renewal'[n].status = "closed" /\ renewal'[n].free = renewal[n].free
  BY <2>2 DEF StatusSet, RenewalFields
 <2>4. RenewalPay(n)' BY <1>0, <1>1, <2>3 DEF RenewalPay
 <2>5. "closed" \in SettledStatuses \ {"completed"} /\ renewal[n].status \in SettledStatuses \ {"completed"}
       /\ "closed" \notin ActiveRenewalStatuses
  BY <1>1 DEF SettledStatuses, ActiveRenewalStatuses
 <2> QED BY <2>1, <2>2, <2>4, <2>5, RenewalStatusStep
<1>2. CASE renewal[n].status \notin {"pending_payment", "payment_unknown", "closed"}
 <2>1. UNCHANGED <<renewal, lot, book>> BY <1>2 DEF CloseUnpaid
 <2>2. RenewalPay(n)' BY <1>0, <1>2, <2>1 DEF RenewalPay, NoPay
 <2> QED BY <2>1, <2>2, RenewalStaysStep
<1> QED BY <1>1, <1>2

LEMMA ReflectSubmissionStep ==
    ASSUME TicketsInv, NEW n \in Renewals, ReflectSubmission(n), RenewalRest PROVE TicketsInv'
<1>0. n \in Payables /\ RenewalPay(n) BY DEF Payables, TicketsInv, RenewalsInv
<1>r. UNCHANGED <<pay, trade, comp, given>>
 BY DEF ReflectSubmission
<1>1. OnlyAt(n) /\ PayOK(n)' BY <1>0, <1>r, AtRest
<1>2. CASE pay[n].status \in {"failed", "closed"} /\ CloseUnpaid(n)
 BY <1>r, <1>1, <1>2, ClosedUnpaid
<1>3. CASE /\ pay[n].status \in {"creating", "exception"} /\ renewal[n].status = "pending_payment"
           /\ renewal' = [renewal EXCEPT ![n].status = "payment_unknown"] /\ UNCHANGED <<lot, book>>
 <2>2. StatusSet(n, "payment_unknown") BY <1>3, SetStatus
 <2>3. renewal'[n].status = "payment_unknown" /\ renewal'[n].free = renewal[n].free
  BY <2>2 DEF StatusSet, RenewalFields
 <2>4. RenewalPay(n)' BY <1>0, <1>r, <1>3, <2>3 DEF RenewalPay
 <2>5. "payment_unknown" \in SettledStatuses \ {"completed"} /\ renewal[n].status \in SettledStatuses \ {"completed"}
       /\ renewal[n].status \in ActiveRenewalStatuses
  BY <1>3 DEF SettledStatuses, ActiveRenewalStatuses
 <2> QED BY <1>1, <1>3, <2>2, <2>4, <2>5, RenewalStatusStep
<1> QED BY <1>2, <1>3 DEF ReflectSubmission

LEMMA ConfirmFailsStep ==
    ASSUME TicketsInv, NEW n \in Renewals, ConfirmFails(n), RenewalRest PROVE TicketsInv'
<1>0. n \in Payables /\ RenewalPay(n) BY DEF Payables, TicketsInv, RenewalsInv
<1>r. /\ UNCHANGED <<pay, trade, comp, given, lot, book>> /\ renewal[n].status = "pending_payment"
      /\ renewal' = [renewal EXCEPT ![n].status = "payment_unknown"]
 BY DEF ConfirmFails
<1>1. OnlyAt(n) /\ PayOK(n)' BY <1>0, <1>r, AtRest
<1>2. StatusSet(n, "payment_unknown") BY <1>r, SetStatus
<1>3. renewal'[n].status = "payment_unknown" /\ renewal'[n].free = renewal[n].free
 BY <1>2 DEF StatusSet, RenewalFields
<1>4. RenewalPay(n)' BY <1>0, <1>r, <1>3 DEF RenewalPay
<1>5. "payment_unknown" \in SettledStatuses \ {"completed"} /\ renewal[n].status \in SettledStatuses \ {"completed"}
      /\ renewal[n].status \in ActiveRenewalStatuses
 BY <1>r DEF SettledStatuses, ActiveRenewalStatuses
<1> QED BY <1>r, <1>1, <1>2, <1>4, <1>5, RenewalStatusStep

LEMMA RenewalUnpaidStep ==
    ASSUME TicketsInv, NEW n \in Renewals, RenewalUnpaid(n), RenewalRest PROVE TicketsInv'
<1>0. n \in Payables /\ PaysInv /\ UNCHANGED <<trade, comp, given>> /\ CloseUnpaid(n) /\ ReportTerminal(n)
 BY DEF Payables, TicketsInv, RenewalUnpaid
<1>1. PICK s \in {"closed", "failed"} : ReportDone(n, s) BY <1>0, ReportFacts
<1>2. OnlyAt(n) /\ PayOK(n)' BY <1>0, <1>1, ReportedAt
<1>3. pay'[n].status \in {"closed", "failed"} /\ pay[n].status \notin {"none", "succeeded"}
 BY <1>1 DEF ReportDone
<1> QED BY <1>0, <1>2, <1>3, ClosedUnpaid

LEMMA RenewalDoubtedStep ==
    ASSUME TicketsInv, NEW n \in Renewals, RenewalDoubted(n), RenewalRest PROVE TicketsInv'
<1>0. n \in Payables /\ PaysInv /\ UNCHANGED <<trade, comp, given, lot, book>> /\ ReportMismatch(n) /\ RenewalPay(n) /\ RenewalHead(n)
 BY DEF Payables, TicketsInv, RenewalsInv, RenewalDoubted
<1>1. ReportDone(n, "exception") BY <1>0, ReportFacts
<1>2. OnlyAt(n) /\ PayOK(n)' BY <1>0, <1>1, ReportedAt
<1>3. pay'[n].status = "exception" /\ pay[n].status \notin {"none", "succeeded"} BY <1>1 DEF ReportDone
<1>4. CASE renewal[n].status \in {"pending_payment", "payment_unknown"}
 <2>1. renewal' = [renewal EXCEPT ![n].status = "payment_unknown"]
  BY <1>4 DEF RenewalDoubted, TicketsInv, RenewalsInv
 <2>2. StatusSet(n, "payment_unknown") BY <2>1, SetStatus
 <2>3. renewal'[n].status = "payment_unknown" /\ renewal'[n].free = renewal[n].free
  BY <2>2 DEF StatusSet, RenewalFields
 <2>4. RenewalPay(n)' BY <1>0, <1>3, <1>4, <2>3 DEF RenewalPay
 <2>5. "payment_unknown" \in SettledStatuses \ {"completed"} /\ renewal[n].status \in SettledStatuses \ {"completed"}
       /\ renewal[n].status \in ActiveRenewalStatuses
  BY <1>4 DEF SettledStatuses, ActiveRenewalStatuses
 <2> QED BY <1>0, <1>2, <2>2, <2>4, <2>5, RenewalStatusStep
<1>5. CASE renewal[n].status \notin {"pending_payment", "payment_unknown"}
 <2>0. PICK st : st = renewal[n].status OBVIOUS
 <2>1. renewal' = [renewal EXCEPT ![n].status = st] BY <1>5, <2>0 DEF RenewalDoubted, TicketsInv, RenewalsInv
 <2>2. StatusSet(n, st) BY <2>1, SetStatus
 <2>3. renewal'[n].status = st /\ renewal'[n].free = renewal[n].free BY <2>2 DEF StatusSet, RenewalFields
 <2>4. st \notin {"none", "quoted", "completed"} /\ st \in SettledStatuses
  BY <1>0, <1>3, <2>0 DEF RenewalPay, RenewalHead, SettledStatuses, NoPay
 <2>5. RenewalPay(n)' BY <1>0, <1>3, <1>5, <2>0, <2>3, <2>4 DEF RenewalPay
 <2> QED BY <1>0, <1>2, <2>0, <2>2, <2>4, <2>5, RenewalStatusStep
<1> QED BY <1>4, <1>5
----------------------------------------
(* The refund rows of a payment. *)

\* The last row is s, those of other payments stay.
RowDone(b, s) ==
    /\ comp'[b] # <<>> /\ comp'[b][Len(comp'[b])] = s /\ \A a \in Payables \ {b} : comp'[a] = comp[a]

LEMMA RowSetFacts ==
    ASSUME MoneyInv, NEW b \in Payables, comp[b] # <<>>, NEW s, SetRow(b, Current(b), s)
    PROVE  RowDone(b, s) /\ Len(comp'[b]) = Len(comp[b])
<1>1. DOMAIN comp = Payables /\ RowsOK(comp[b], given[b]) BY DEF MoneyInv
<1>2. PICK S : comp[b] \in Seq(S) BY <1>1 DEF RowsOK
<1>3. PICK C, k : C = comp[b] /\ k = Len(C) /\ C \in Seq(S) /\ C # <<>> BY <1>2
<1>4. k \in 1..Len(C) /\ Len(C) \in Nat BY <1>3
<1>5. PICK D : D = [C EXCEPT ![k] = s] OBVIOUS
<1>6. D \in Seq(S \cup {s}) /\ Len(D) = Len(C) /\ D[k] = s BY <1>3, <1>4, <1>5
<1>7. D # <<>> /\ D[Len(D)] = s BY <1>3, <1>4, <1>6
<1>8. comp' = [comp EXCEPT ![b] = D] BY <1>3, <1>5 DEF SetRow, Current
<1>9. comp'[b] = D /\ \A a \in Payables \ {b} : comp'[a] = comp[a] BY <1>1, <1>8
<1> QED BY <1>3, <1>6, <1>7, <1>9 DEF RowDone

LEMMA RowReplacedFacts ==
    ASSUME MoneyInv, NEW b \in Payables, NEW k, Replaced(b, k)
    PROVE  RowDone(b, "creating")
<1>1. DOMAIN comp = Payables /\ RowsOK(comp[b], given[b]) BY DEF MoneyInv
<1>2. PICK S : comp[b] \in Seq(S) BY <1>1 DEF RowsOK
<1>3. PICK C : C = [comp[b] EXCEPT ![k] = "failed"] OBVIOUS
<1>4. C \in Seq(S \cup {"failed"})
 <2>1. [comp[b] EXCEPT ![k] = "failed"] \in Seq(S \cup {"failed"}) BY <1>2, RowMoved, Zenon
 <2> QED BY <1>3, <2>1, Zenon
<1>5. PICK D : D = Append(C, "creating") OBVIOUS
<1>6. Len(D) = Len(C) + 1 /\ Len(C) \in Nat /\ D[Len(C) + 1] = "creating" /\ D \in Seq(S \cup {"failed", "creating"})
 BY <1>4, <1>5
<1>7. D # <<>> /\ D[Len(D)] = "creating" BY <1>6
<1>8. comp' = [comp EXCEPT ![b] = D] BY <1>3, <1>5 DEF Replaced
<1>9. comp'[b] = D /\ \A a \in Payables \ {b} : comp'[a] = comp[a] BY <1>1, <1>8
<1> QED BY <1>7, <1>9 DEF RowDone

LEMMA AskedRow ==
    ASSUME MoneyInv, NEW b \in Payables, NEW k \in DOMAIN given[b]
    PROVE  comp[b] # <<>>
<1>1. PICK S, T : comp[b] \in Seq(S) /\ given[b] \in Seq(T) /\ Len(given[b]) <= Len(comp[b])
 BY DEF MoneyInv, RowsOK
<1> QED BY <1>1

LEMMA GivenMoves ==
    ASSUME MoneyInv, NEW b \in Payables, AskRefund(b) \/ ProviderRefunds(b)
    PROVE  UNCHANGED comp /\ \A a \in Payables \ {b} : given'[a] = given[a]
<1>1. (\E D : RowsOK(comp[b], D) /\ GivenIs(b, D)) /\ comp' = comp BY RowsMoved
<1> QED BY <1>1 DEF GivenIs

\* The refund of a renewal goes on.
LEMMA RepaidStep ==
    ASSUME TicketsInv, MoneyInv, NEW n \in Renewals, NEW s \in {"compensating_refund", "refund_exception", "refunded"},
           NEW r, RowDone(n, r), r = "succeeded" <=> s = "refunded",
           s = "refunded" => Len(comp'[n]) \in DOMAIN given[n] /\ given[n][Len(comp'[n])] = "success",
           StatusSet(n, s), comp[n] # <<>>, renewal[n].status # "refunded",
           UNCHANGED <<given, pay, trade>>, RenewalRest, UNCHANGED <<lot, book>> \/ ReleaseGuard(n)
    PROVE  TicketsInv'
<1>0. n \in Payables /\ RenewalPay(n) BY DEF Payables, TicketsInv, RenewalsInv
<1>1. renewal[n].status \in {"compensating_refund", "refund_exception"} /\ pay[n].status = "succeeded"
 BY <1>0, UnpaidBack DEF RepaidRenewal, RenewalPay
<1>2. OnlyAt(n) /\ PayOK(n)' BY <1>0, AtRest DEF RowDone
<1>3. renewal'[n].status = s /\ renewal'[n].free = renewal[n].free BY DEF StatusSet, RenewalFields
<1>4. RenewalPay(n)'
 <2>1. pay'[n] = pay[n] /\ given'[n] = given[n] /\ comp'[n] # <<>> /\ comp'[n][Len(comp'[n])] = r
  BY DEF RowDone
 <2> QED BY <1>0, <1>1, <1>3, <2>1 DEF RenewalPay
<1>5. s \in SettledStatuses \ {"completed"} /\ renewal[n].status \in SettledStatuses \ {"completed"}
      /\ renewal[n].status \in ActiveRenewalStatuses
 BY <1>1 DEF SettledStatuses, ActiveRenewalStatuses
<1> QED BY <1>2, <1>4, <1>5, RenewalStatusStep

LEMMA RenewalRefundSteps ==
    ASSUME TicketsInv, MoneyInv, NEW n \in Renewals, RenewalRefundStep(n), UNCHANGED <<pay, trade>>, RenewalRest
    PROVE  TicketsInv'
<1>0. n \in Payables /\ RenewalPay(n) BY DEF Payables, TicketsInv, RenewalsInv
<1>1. CASE RefundCallFails(n)
 <2>0. PICK r : r = IF comp[n][Current(n)] = "creating" THEN "submission_unknown" ELSE comp[n][Current(n)]
  OBVIOUS
 <2>1. /\ comp[n][Len(comp[n])] \in Undecided /\ SetRow(n, Current(n), r) /\ UNCHANGED <<given, lot, book>> /\ Current(n) # 0
       /\ renewal' = [renewal EXCEPT ![n].status = "compensating_refund"]
  BY <1>1, <2>0 DEF RefundCallFails, TriedInVain, SetRenewal, Current
 <2>2. r # "succeeded" /\ comp[n] # <<>> BY <2>0, <2>1 DEF Undecided, Current
 <2>3. RowDone(n, r) /\ StatusSet(n, "compensating_refund") BY <1>0, <2>1, <2>2, RowSetFacts, SetStatus
 <2>4. renewal[n].status # "refunded" BY <1>0, <2>1 DEF RenewalPay, Undecided
 <2> QED BY <2>1, <2>2, <2>3, <2>4, RepaidStep
<1>2. ASSUME NEW k \in DOMAIN given[n],
             RefundSucceeds(n, k) \/ RefundProcessing(n, k) \/ RefundClosed(n, k) \/ RefundDoubted(n, k)
      PROVE  TicketsInv'
 <2>0. comp[n] # <<>> /\ k = Current(n) /\ renewal[n].status # "refunded" /\ UNCHANGED given
  BY <1>0, <1>2, AskedRow DEF RefundSucceeds, RefundProcessing, RefundClosed, RefundDoubted, Moves
 <2>1. CASE RefundSucceeds(n, k)
  <3>1. /\ SetRow(n, Current(n), "succeeded") /\ ReleaseGuard(n)
        /\ renewal' = [renewal EXCEPT ![n].status = "refunded"]
   BY <2>0, <2>1 DEF RefundSucceeds, SetRenewal
  <3>2. RowDone(n, "succeeded") /\ StatusSet(n, "refunded") /\ Len(comp'[n]) = k
   BY <1>0, <2>0, <3>1, RowSetFacts, SetStatus DEF Current
  <3>3. given[n][k] = "success" BY <2>1 DEF RefundSucceeds
  <3> QED BY <1>2, <2>0, <3>1, <3>2, <3>3, RepaidStep
 <2>2. CASE RefundProcessing(n, k)
  <3>1. /\ SetRow(n, Current(n), "pending") /\ UNCHANGED <<lot, book>>
        /\ renewal' = [renewal EXCEPT ![n].status = "compensating_refund"]
   BY <2>0, <2>2 DEF RefundProcessing, SetRenewal
  <3>2. RowDone(n, "pending") /\ StatusSet(n, "compensating_refund")
   BY <1>0, <2>0, <3>1, RowSetFacts, SetStatus
  <3> QED BY <2>0, <3>1, <3>2, RepaidStep
 <2>3. CASE RefundDoubted(n, k)
  <3>1. /\ SetRow(n, Current(n), "exception") /\ UNCHANGED <<lot, book>>
        /\ renewal' = [renewal EXCEPT ![n].status = "refund_exception"]
   BY <2>0, <2>3 DEF RefundDoubted, SetRenewal
  <3>2. RowDone(n, "exception") /\ StatusSet(n, "refund_exception")
   BY <1>0, <2>0, <3>1, RowSetFacts, SetStatus
  <3> QED BY <2>0, <3>1, <3>2, RepaidStep
 <2>4. CASE RefundClosed(n, k)
  <3>1. Replaced(n, k) /\ UNCHANGED <<lot, book, renewal>> BY <2>4 DEF RefundClosed
  <3>2. PICK st : st = renewal[n].status OBVIOUS
  <3>3. RowDone(n, "creating") /\ StatusSet(n, st) BY <1>0, <3>1, <3>2, RowReplacedFacts, SameStatus
  <3>4. st \in {"compensating_refund", "refund_exception"} BY <2>0, <3>2, UnpaidBack DEF RepaidRenewal
  <3> QED BY <2>0, <3>1, <3>3, <3>4, RepaidStep
 <2> QED BY <1>2, <2>1, <2>2, <2>3, <2>4
<1>3. CASE (AskRefund(n) \/ ProviderRefunds(n)) /\ UNCHANGED <<lot, book, renewal>>
 <2>1. UNCHANGED comp /\ \A a \in Payables \ {n} : given'[a] = given[a] BY <1>0, <1>3, GivenMoves
 <2>2. OnlyAt(n) /\ PayOK(n)' BY <1>0, <2>1, AtRest
 <2>3. ASSUME renewal[n].status = "refunded"
       PROVE  Len(comp[n]) \in DOMAIN given'[n] /\ given'[n][Len(comp[n])] = "success"
  <3>1. comp[n][Len(comp[n])] = "succeeded" /\ Len(comp[n]) \in DOMAIN given[n] /\ given[n][Len(comp[n])] = "success"
   BY <1>0, <2>3 DEF RenewalPay
  <3>2. DOMAIN given = Payables /\ RowsOK(comp[n], given[n]) BY <1>0 DEF MoneyInv
  <3>3. ~AskRefund(n) BY <3>1 DEF AskRefund, Undecided, Current
  <3>4. PICK k, outcome : k \in DOMAIN given[n] /\ given[n][k] = "processing" /\ given' = [given EXCEPT ![n][k] = outcome]
   BY <1>3, <3>3 DEF ProviderRefunds
  <3>5. k # Len(comp[n]) BY <3>1, <3>4
  <3> QED BY <1>0, <3>1, <3>2, <3>4, <3>5
 <2>4. RenewalPay(n)'
  <3>1. renewal'[n] = renewal[n] /\ pay'[n] = pay[n] /\ comp'[n] = comp[n] BY <1>3, <2>1
  <3> QED BY <1>0, <2>3, <3>1 DEF RenewalPay
 <2> QED BY <1>3, <2>2, <2>4, RenewalStaysStep
<1> QED BY <1>1, <1>2, <1>3 DEF RenewalRefundStep

\* A lot is marked as used.
LEMMA UsedLot ==
    ASSUME TicketsInv, NEW l \in Issued, RenewalRest, UNCHANGED book,
           lot' = [lot EXCEPT ![l].used = TRUE, ![l].version = @ + 1]
    PROVE  AccountsMove({}, 0) /\ Issued' \subseteq Issued /\ \A k \in Lots \ {l} : lot'[k] = lot[k]
<1>0. LotsInv /\ PurchasesInv BY DEF TicketsInv
<1>1. DOMAIN lot = Lots /\ DOMAIN book = Lots /\ l \in Lots /\ Issued \subseteq Lots
 BY <1>0 DEF LotsInv, Issued
<1>2. /\ AccountOK(Account(l), ClaimsOn(l, Taken)) /\ IsLot(lot[l])
      /\ Account(l) = [lot |-> lot[l], rows |-> book[l]] /\ Account(l).lot = lot[l] /\ Account(l).rows = book[l]
 BY <1>0, IssuedLot DEF LotsInv
<1>3. PICK v : v = lot[l].version + 1 OBVIOUS
<1>4. lot' = [lot EXCEPT ![l].used = TRUE, ![l].version = v] BY <1>1, <1>3
<1>5. /\ DOMAIN lot' = Lots /\ \A k \in Lots \ {l} : lot'[k] = lot[k]
      /\ DOMAIN lot'[l] = LotFields
      /\ lot'[l].version = v /\ \A f \in LotFields \ {"used", "version"} : lot'[l][f] = lot[l][f]
 BY <1>1, <1>2, <1>4 DEF IsLot, LotFields
<1>6. /\ lot'[l].status = lot[l].status /\ lot'[l].total = lot[l].total /\ lot'[l].avail = lot[l].avail
      /\ lot'[l].owner = lot[l].owner /\ lot'[l].orig = lot[l].orig /\ lot'[l].exp = lot[l].exp
      /\ lot'[l].renewals = lot[l].renewals /\ lot'[l].from = lot[l].from
 BY <1>5 DEF LotFields
<1>7. v \in Nat /\ v > lot[l].version BY <1>2, <1>3 DEF IsLot
<1>8. UNCHANGED <<gift, redemption, refund>> BY DEF RenewalRest
<1>9. \A k \in Lots : ClaimsOn(k, Taken)' = ClaimsOn(k, Taken) BY <1>0, <1>5, <1>6, <1>8, ClaimsStay
<1>10. \A k \in Lots \ {l} : LotStays(k) BY <1>5, <1>9 DEF LotStays
<1>11. LotMoves(l, {}, 0)
 <2>1. Account(l)'.lot = lot'[l] /\ Account(l)'.rows = book[l] BY DEF Account
 <2>2. IsLot(lot'[l]) BY <1>2, <1>5, <1>6, <1>7 DEF IsLot
 <2>3. AccountOK(Account(l)', ClaimsOn(l, Taken)') BY <1>1, <1>2, <1>6, <1>9, <2>1, <2>2 DEF AccountOK
 <2>4. Added(book[l], book[l], "expiry", 0, 0) BY DEF Added
 <2>5. Next1(Account(l), Account(l)', ClaimsOn(l, Taken)', "expiry", 0, 0)
  BY <1>2, <1>5, <1>6, <1>7, <2>1, <2>3, <2>4 DEF Next1, SameLot
 <2>6. lot'[l].status = "expired" => lot'[l].exp <= now BY <1>0, <1>6 DEF LotsInv
 <2> QED BY <2>5, <2>6 DEF LotMoves
<1>12. AccountsMove({}, 0) BY <1>1, <1>5, <1>10, <1>11 DEF AccountsMove
<1>13. Issued' \subseteq Issued BY <1>1, <1>5 DEF Issued
<1> QED BY <1>5, <1>12, <1>13

LEMMA RenewedFacts ==
    ASSUME NEW L, IsLot(L), NEW e \in Int
    PROVE  LET M == Renewed(L, e) IN
           /\ IsLot(M) /\ SameLot(L, M) /\ M.exp = e /\ M.renewals = L.renewals + 1 /\ M.version = L.version + 1
           /\ M.status = L.status /\ M.avail = L.avail
<1>1. PICK r, v : r = L.renewals + 1 /\ v = L.version + 1 OBVIOUS
<1>2. r \in Nat /\ v \in Nat BY <1>1 DEF IsLot
<1>3. PICK M : M = [L EXCEPT !.exp = e, !.renewals = r, !.used = TRUE, !.version = v] OBVIOUS
<1>4. Renewed(L, e) = M BY <1>1, <1>3, Zenon DEF Renewed
<1>5. /\ DOMAIN M = LotFields /\ M.exp = e /\ M.renewals = r /\ M.version = v
      /\ M.status = L.status /\ M.avail = L.avail /\ M.total = L.total /\ M.owner = L.owner /\ M.orig = L.orig /\ M.from = L.from
 BY <1>3 DEF IsLot, LotFields
<1>6. IsLot(M) /\ SameLot(L, M) BY <1>2, <1>5 DEF IsLot, SameLot
<1> QED BY <1>1, <1>4, <1>5, <1>6

\* A chain whose lot and renewals are as before is a chain still.
LEMMA ChainSame ==
    ASSUME NEW l, NEW first, Chain(l, first), lot'[l].exp = lot[l].exp, CompletedOf(l)' = CompletedOf(l),
           \A n \in CompletedOf(l) : renewal'[n].old = renewal[n].old /\ renewal'[n].new = renewal[n].new
    PROVE  Chain(l, first)'
<1>1. PICK due : due = lot[l].exp /\ due = lot'[l].exp OBVIOUS
<1>2. PICK C : C = CompletedOf(l) /\ C = CompletedOf(l)' OBVIOUS
<1>3. /\ first \in Int /\ due \in Int /\ first <= due
      /\ \A n \in C : /\ renewal[n].old \in Int /\ renewal[n].new \in Int
                     /\ first <= renewal[n].old /\ renewal[n].old < due
                     /\ first < renewal[n].new /\ renewal[n].new <= due
      /\ \A m, n \in C : renewal[m].old = renewal[n].old => m = n
      /\ \A x : (x = due \/ \E n \in C : x = renewal[n].old) <=> (x = first \/ \E n \in C : x = renewal[n].new)
 BY <1>1, <1>2 DEF Chain
<1>4. \A n \in C : renewal'[n].old = renewal[n].old /\ renewal'[n].new = renewal[n].new BY <1>2
<1>5. /\ first \in Int /\ due \in Int /\ first <= due
      /\ \A n \in C : /\ renewal'[n].old \in Int /\ renewal'[n].new \in Int
                     /\ first <= renewal'[n].old /\ renewal'[n].old < due
                     /\ first < renewal'[n].new /\ renewal'[n].new <= due
      /\ \A m, n \in C : renewal'[m].old = renewal'[n].old => m = n
 BY <1>3, <1>4
<1>6. \A x : (x = due \/ \E n \in C : x = renewal'[n].old) <=> (x = first \/ \E n \in C : x = renewal'[n].new)
 <2> SUFFICES ASSUME NEW x
              PROVE  (x = due \/ \E n \in C : x = renewal'[n].old) <=> (x = first \/ \E n \in C : x = renewal'[n].new)
  OBVIOUS
 <2>1. (\E n \in C : x = renewal'[n].old) <=> \E n \in C : x = renewal[n].old BY <1>4
 <2>2. (\E n \in C : x = renewal'[n].new) <=> \E n \in C : x = renewal[n].new BY <1>4
 <2>3. (x = due \/ \E n \in C : x = renewal[n].old) <=> (x = first \/ \E n \in C : x = renewal[n].new)
  BY <1>3
 <2> QED BY <2>1, <2>2, <2>3
<1> QED BY <1>1, <1>2, <1>5, <1>6 DEF Chain

\* A chain of renewals grows by one that begins where it ended.
LEMMA LongerChain ==
    ASSUME NEW l, NEW n, NEW first, Chain(l, first),
           n \notin CompletedOf(l), CompletedOf(l)' = CompletedOf(l) \cup {n},
           \A m \in CompletedOf(l) : renewal'[m].old = renewal[m].old /\ renewal'[m].new = renewal[m].new,
           renewal'[n].old = lot[l].exp, renewal'[n].new = lot[l].exp + Extension, lot'[l].exp = lot[l].exp + Extension
    PROVE  Chain(l, first)'
<1>1. PICK C, D : C = CompletedOf(l) /\ D = CompletedOf(l)' /\ D = C \cup {n} /\ n \notin C OBVIOUS
<1>2. PICK e, x : e = lot[l].exp /\ x = e + Extension OBVIOUS
<1>3. /\ first \in Int /\ e \in Int /\ x \in Int /\ e < x /\ first <= e
      /\ \A m \in C : /\ renewal[m].old \in Int /\ renewal[m].new \in Int
                      /\ first <= renewal[m].old /\ renewal[m].old < e
                      /\ first < renewal[m].new /\ renewal[m].new <= e
      /\ \A k, m \in C : renewal[k].old = renewal[m].old => k = m
 BY <1>1, <1>2, RenewalAssumption DEF Chain
<1>3a. \A y : (y = e \/ \E m \in C : y = renewal[m].old) <=> (y = first \/ \E m \in C : y = renewal[m].new)
 BY <1>1, <1>2 DEF Chain
<1>4. /\ renewal'[n].old = e /\ renewal'[n].new = x /\ lot'[l].exp = x
      /\ \A m \in C : renewal'[m].old = renewal[m].old /\ renewal'[m].new = renewal[m].new
 BY <1>1, <1>2
<1>5. /\ lot'[l].exp \in Int /\ first <= lot'[l].exp
      /\ \A m \in D : /\ renewal'[m].old \in Int /\ renewal'[m].new \in Int
                      /\ first <= renewal'[m].old /\ renewal'[m].old < lot'[l].exp
                      /\ first < renewal'[m].new /\ renewal'[m].new <= lot'[l].exp
 BY <1>1, <1>3, <1>4
<1>6. \A k, m \in D : renewal'[k].old = renewal'[m].old => k = m BY <1>1, <1>3, <1>4
<1>7. \A y : (y = lot'[l].exp \/ \E m \in D : y = renewal'[m].old) <=> (y = first \/ \E m \in D : y = renewal'[m].new)
 <2> TAKE y
 <2>1. (\E m \in D : y = renewal'[m].old) <=> (y = e \/ \E m \in C : y = renewal[m].old) BY <1>1, <1>4
 <2>2. (\E m \in D : y = renewal'[m].new) <=> (y = x \/ \E m \in C : y = renewal[m].new) BY <1>1, <1>4
 <2>3. (y = e \/ \E m \in C : y = renewal[m].old) <=> (y = first \/ \E m \in C : y = renewal[m].new) BY <1>3a
 <2>4. lot'[l].exp = x BY <1>4
 <2> QED BY <2>1, <2>2, <2>3, <2>4
<1>8. D = CompletedOf(l)' BY <1>1
<1>9. first \in Int BY <1>3
<1> HIDE <1>1
<1> QED BY <1>5, <1>6, <1>7, <1>8, <1>9 DEF Chain
\* A renewal is completed and its lot extended.
Extends(n, l) ==
    /\ StatusSet(n, "completed") /\ renewal[n].lot = l /\ renewal[n].status \notin {"none", "completed"}
    /\ lot[l].status = "active" /\ ~HeldFor(l) /\ renewal[n].old = lot[l].exp
    /\ lot' = [lot EXCEPT ![l] = Renewed(@, renewal[n].new)] /\ UNCHANGED book

LEMMA ExtendedLots ==
    ASSUME TicketsInv, RenewalRest, NEW n \in Renewals, NEW l, Extends(n, l)
    PROVE  LotsRest
<1>0. LotsInv /\ ChainsInv /\ RenewalHead(n) /\ PurchasesInv /\ RenewalsInv BY DEF TicketsInv, RenewalsInv
<1>1. /\ l \in Issued /\ renewal[n].new = lot[l].exp + Extension /\ renewal[n].lot = l /\ renewal[n].old = lot[l].exp
      /\ renewal[n].status # "completed"
 BY <1>0 DEF Extends, RenewalHead
<1>2. /\ l \in Lots /\ IsLot(lot[l]) /\ AccountOK(Account(l), ClaimsOn(l, Taken))
      /\ Account(l).lot = lot[l] /\ Account(l).rows = book[l] /\ DOMAIN lot = Lots /\ DOMAIN book = Lots /\ Issued \subseteq Lots
 BY <1>0, <1>1, IssuedLot DEF LotsInv, Issued
<1>3. PICK e \in Int : e = lot[l].exp + Extension BY <1>2, RenewalAssumption DEF IsLot
<1>4. PICK M : M = Renewed(lot[l], e) OBVIOUS
<1>5. /\ IsLot(M) /\ SameLot(lot[l], M) /\ M.exp = e /\ M.renewals = lot[l].renewals + 1 /\ M.version = lot[l].version + 1
      /\ M.status = lot[l].status /\ M.avail = lot[l].avail
 BY <1>2, <1>4, RenewedFacts
<1>6. lot' = [lot EXCEPT ![l] = M]
 <2>1. lot' = [lot EXCEPT ![l] = Renewed(lot[l], renewal[n].new)] BY DEF Extends
 <2>2. renewal[n].new = e BY <1>1, <1>3
 <2> QED BY <1>4, <2>1, <2>2
<1>7. lot'[l] = M /\ DOMAIN lot' = Lots /\ \A k \in Lots \ {l} : lot'[k] = lot[k] BY <1>2, <1>6
<1>8. UNCHANGED <<gift, redemption, refund, now, book>> BY DEF RenewalRest, Extends
<1>9. \A k \in Lots : ClaimsOn(k, Taken)' = ClaimsOn(k, Taken)
 <2> SUFFICES ASSUME NEW k \in Lots PROVE ClaimsOn(k, Taken)' = ClaimsOn(k, Taken)
  OBVIOUS
 <2>1. lot'[k].total = lot[k].total BY <1>5, <1>7 DEF SameLot
 <2> QED BY <1>0, <1>8, <2>1, ClaimsStay
<1>10. Issued' = Issued
 <2>1. M # NoLot /\ lot[l] # NoLot BY <1>1, <1>5, NoLotFacts DEF IsLot, Issued
 <2> QED BY <1>2, <1>7, <2>1 DEF Issued
<1>11. LotsInv'
 <2>1. ASSUME NEW k \in Issued PROVE AccountOK(Account(k)', ClaimsOn(k, Taken)') /\ (lot'[k].status = "expired" => lot'[k].exp <= now)
  <3>0. k \in Lots /\ AccountOK(Account(k), ClaimsOn(k, Taken)) /\ (lot[k].status = "expired" => lot[k].exp <= now)
   BY <1>0, <1>2, <2>1 DEF LotsInv
  <3>1. CASE k = l
   <4>1. Account(l)'.lot = M /\ Account(l)'.rows = book[l] BY <1>7, <1>8 DEF Account
   <4>2. AccountOK(Account(l)', ClaimsOn(l, Taken)') BY <1>2, <1>5, <1>9, <4>1 DEF AccountOK, SameLot
   <4>3. M.status = "active" BY <1>5 DEF Extends
   <4> QED BY <1>7, <3>1, <4>2, <4>3
  <3>2. CASE k # l
   <4>1. Account(k)' = Account(k) /\ lot'[k] = lot[k] BY <1>7, <1>8, <3>0, <3>2 DEF Account
   <4> QED BY <1>9, <3>0, <4>1
  <3> QED BY <3>1, <3>2
 <2>2. \A k \in Lots \ Issued : book'[k] = <<>> BY <1>0, <1>8 DEF LotsInv
 <2>3. DOMAIN lot' = Lots /\ DOMAIN book' = Lots /\ now' \in Nat BY <1>0, <1>2, <1>7, <1>8 DEF LotsInv
 <2> QED BY <1>8, <1>10, <2>1, <2>2, <2>3 DEF LotsInv
<1>12. LotsKept
 <2>1. ASSUME NEW k \in Issued PROVE SameLot(lot[k], lot'[k]) /\ lot'[k].version >= lot[k].version
  <3>1. CASE k = l
   BY <1>2, <1>5, <1>7, <3>1 DEF IsLot
  <3>2. CASE k # l
   <4>1. lot'[k] = lot[k] /\ lot[k].version \in Nat BY <1>0, <1>2, <1>7, <2>1, <3>2, IssuedLot DEF IsLot
   <4> QED BY <4>1 DEF SameLot
  <3> QED BY <3>1, <3>2
 <2> QED BY <1>10, <2>1 DEF LotsKept
<1>13. RowsKept({}, 0) BY <1>8 DEF RowsKept
<1>14. /\ n \notin CompletedOf(l) /\ CompletedOf(l)' = CompletedOf(l) \cup {n}
       /\ \A k : k # l => CompletedOf(k)' = CompletedOf(k) /\ n \notin CompletedOf(k)
       /\ \A m \in Renewals : renewal'[m].old = renewal[m].old /\ renewal'[m].new = renewal[m].new
 BY <1>1 DEF Extends, StatusSet, CompletedOf, RenewalFields
<1>15. ASSUME NEW k \in Issued, NEW first, Chain(k, first) PROVE Chain(k, first)'
 <2>1. CASE k = l
  <3>1. /\ renewal'[n].old = lot[l].exp /\ renewal'[n].new = lot[l].exp + Extension /\ lot'[l].exp = lot[l].exp + Extension
        /\ \A m \in CompletedOf(l) : renewal'[m].old = renewal[m].old /\ renewal'[m].new = renewal[m].new
   BY <1>1, <1>3, <1>5, <1>7, <1>14 DEF CompletedOf
  <3>2. Chain(l, first) BY <1>15, <2>1
  <3>3. Chain(l, first)' BY <1>14, <3>1, <3>2, LongerChain
  <3> QED BY <2>1, <3>3
 <2>2. CASE k # l
  <3>1. lot'[k] = lot[k] BY <1>2, <1>7, <2>2
  <3>2. PICK C : C = CompletedOf(k) /\ C = CompletedOf(k)' BY <1>14, <2>2
  <3>3. \A m \in C : renewal'[m].old = renewal[m].old /\ renewal'[m].new = renewal[m].new
   BY <1>14, <3>2 DEF CompletedOf
  <3>4. Chain(k, first) /\ lot'[k].exp = lot[k].exp BY <1>15, <3>1
  <3> QED BY <3>2, <3>3, <3>4, ChainSame
 <2> QED BY <2>1, <2>2
<1>16. ChainsInv'
 <2>1. ASSUME NEW k \in Issued
       PROVE  /\ \E first : Chain(k, first)'
              /\ Cardinality(CompletedOf(k)') <= lot'[k].renewals
              /\ (Cardinality(CompletedOf(k)') = lot'[k].renewals => Chain(k, lot[k].orig)')
  <3>1. /\ \E first : Chain(k, first)
        /\ Cardinality(CompletedOf(k)) <= lot[k].renewals
        /\ (Cardinality(CompletedOf(k)) = lot[k].renewals => Chain(k, lot[k].orig))
   BY <1>0 DEF ChainsInv
  <3>2. PICK c : c = Cardinality(CompletedOf(k)) /\ c \in Nat
   <4>1. IsFiniteSet(CompletedOf(k)) BY LotsAssumption, FS_Subset DEF CompletedOf
   <4> QED BY <4>1, FS_CardinalityType
  <3>3. PICK o : o = lot[k].orig OBVIOUS
  <3>4. lot'[k].orig = o BY <1>12, <3>3 DEF LotsKept, SameLot
  <3>5. lot[k].renewals \in Nat BY <1>0, IssuedLot DEF IsLot
  <3>6. Cardinality(CompletedOf(k)') <= lot'[k].renewals /\ (Cardinality(CompletedOf(k)') = lot'[k].renewals <=> c = lot[k].renewals)
   <4>1. CASE k = l
    <5>1. PICK C : C = CompletedOf(l) OBVIOUS
    <5>2. IsFiniteSet(C) /\ n \notin C BY <1>14, <5>1, LotsAssumption, FS_Subset DEF CompletedOf
    <5>3. Cardinality(C \cup {n}) = Cardinality(C) + 1 BY <5>2, FS_AddElement
    <5>4. Cardinality(CompletedOf(l)') = c + 1 BY <1>14, <3>2, <4>1, <5>1, <5>3
    <5> QED BY <1>5, <1>7, <3>1, <3>2, <3>5, <4>1, <5>4
   <4>2. CASE k # l
    <5>1. lot'[k] = lot[k] /\ CompletedOf(k)' = CompletedOf(k) BY <1>2, <1>7, <1>14, <4>2
    <5> QED BY <3>1, <3>2, <5>1
   <4> QED BY <4>1, <4>2
  <3>7. c = lot[k].renewals => Chain(k, o)' BY <1>15, <3>1, <3>2, <3>3
  <3>8. c = lot[k].renewals => Chain(k, lot[k].orig)' BY <3>4, <3>7
  <3> QED BY <1>15, <3>1, <3>6, <3>8
 <2> QED BY <1>10, <2>1 DEF ChainsInv
<1>17. ASSUME NEW k \in Issued
       PROVE  (HeldFor(k) => lot'[k].exp = lot[k].exp) /\ (lot'[k].version = lot[k].version => lot'[k].exp = lot[k].exp)
 <2>1. CASE k = l
  BY <1>2, <1>5, <1>7, <2>1 DEF Extends, IsLot
 <2>2. CASE k # l
  BY <1>2, <1>7, <2>2
 <2> QED BY <2>1, <2>2
<1>18. ASSUME NEW p \in Purchases, refund[p].kind = "user_unused" PROVE lot'[refund[p].lot] = lot[refund[p].lot]
 <2>1. PurchaseLine(p) BY <1>0 DEF PurchasesInv
 <2>2. refund[p].lot \in Issued /\ lot[refund[p].lot].status # "active" BY <1>18, <2>1 DEF PurchaseLine
 <2> QED BY <1>2, <1>7, <2>2 DEF Extends
<1>19. ChainsKept BY <1>15 DEF ChainsKept
<1> QED BY <1>10, <1>11, <1>12, <1>13, <1>16, <1>17, <1>18, <1>19 DEF LotsRest

\* The renewal itself.
LEMMA ExtendedStep ==
    ASSUME TicketsInv, RenewalRest, NEW n \in Renewals, NEW l, Extends(n, l), OnlyAt(n), RenewalPay(n)', PayOK(n)'
    PROVE  TicketsInv'
<1>1. LotsRest BY ExtendedLots
<1>2. StatusSet(n, "completed") /\ renewal[n].status # "none" /\ lot[renewal[n].lot].status = "active"
 BY DEF Extends
<1>3. "completed" \in SettledStatuses /\ "completed" \notin ActiveRenewalStatuses
 BY DEF SettledStatuses, ActiveRenewalStatuses
<1>4. RenewalHead(n)' /\ OneActive(n) BY <1>1, <1>2, <1>3, StatusMoves
<1>5. RenewalAlone(n) BY <1>2, AloneBy DEF StatusSet
<1>6. RenewalPay(n)' /\ PayOK(n)' OBVIOUS
<1> QED BY <1>1, <1>4, <1>5, <1>6, RenewalAloneFacts
LEMMA RenewalAppliedStep ==
    ASSUME TicketsInv, MoneyInv, NEW n \in Renewals, RenewalPaid(n), RenewalRest PROVE TicketsInv'
<1>a. ApplySuccess(n) /\ ReportSuccess(n) /\ UNCHANGED <<trade, given>>
 BY DEF RenewalPaid
<1>b. UNCHANGED book
 BY <1>a DEF ApplySuccess
<1>0. n \in Payables /\ PaysInv /\ UNCHANGED <<trade, given, book>> /\ ReportSuccess(n) /\ RenewalPay(n) /\ ApplySuccess(n)
 BY <1>a, <1>b DEF Payables, TicketsInv, RenewalsInv
<1>1. ReportDone(n, "succeeded") BY <1>0, ReportFacts
<1>2. pay'[n].status = "succeeded" BY <1>1 DEF ReportDone
<1>3. /\ renewal[n].status \in {"pending_payment", "payment_unknown", "closed"}
      /\ (renewal[n].status = "closed" => ~RenewalUnderWay(renewal[n].lot))
 BY <1>0 DEF ApplySuccess
<1>4. ~renewal[n].free BY <1>0, <1>3 DEF RenewalPay
<1>5. CASE Applicable(n)
 <2>1. /\ renewal' = [renewal EXCEPT ![n].status = "completed"] /\ UNCHANGED comp
       /\ lot' = [lot EXCEPT ![renewal[n].lot] = Renewed(@, renewal[n].new)]
  BY <1>0, <1>5 DEF ApplySuccess
 <2>2. StatusSet(n, "completed") BY <2>1, SetStatus
 <2>3. Extends(n, renewal[n].lot) BY <1>0, <1>3, <1>5, <2>1, <2>2 DEF Extends, Applicable
 <2>4. OnlyAt(n) /\ PayOK(n)' BY <1>0, <1>1, <2>1, ReportedAt
 <2>5. renewal'[n].status = "completed" /\ renewal'[n].free = renewal[n].free
  BY <2>2 DEF StatusSet, RenewalFields
 <2>6. RenewalPay(n)' BY <1>2, <1>4, <2>5 DEF RenewalPay
 <2> QED BY <2>3, <2>4, <2>6, ExtendedStep
<1>6. CASE ~Applicable(n)
 <2>1. CompensateRenewal(n) BY <1>0, <1>6 DEF ApplySuccess
 <2>2. /\ renewal' = [renewal EXCEPT ![n].status = "compensating_refund"] /\ UNCHANGED <<lot, book>>
       /\ comp' = [comp EXCEPT ![n] = <<"creating">>]
  BY <1>0, <2>1 DEF CompensateRenewal
 <2>3. StatusSet(n, "compensating_refund") BY <2>2, SetStatus
 <2>4. \A a \in Payables \ {n} : comp'[a] = comp[a] BY <2>2
 <2>5. OnlyAt(n) /\ PayOK(n)' BY <1>0, <1>1, <2>4, ReportedAt
 <2>6. renewal'[n].status = "compensating_refund" /\ renewal'[n].free = renewal[n].free
  BY <2>3 DEF StatusSet, RenewalFields
 <2>7. RenewalPay(n)'
  <3>1. comp'[n] = <<"creating">> BY <1>0, <2>2 DEF MoneyInv
  <3>2. <<"creating">> # <<>> /\ <<"creating">>[Len(<<"creating">>)] = "creating" OBVIOUS
  <3> QED BY <1>2, <1>4, <2>6, <3>1, <3>2 DEF RenewalPay
 <2>8. "compensating_refund" \in SettledStatuses \ {"completed"} /\ renewal[n].status \in SettledStatuses \ {"completed"}
       /\ (renewal[n].status \in ActiveRenewalStatuses \/ ~RenewalUnderWay(renewal[n].lot))
  BY <1>3 DEF SettledStatuses, ActiveRenewalStatuses
 <2> QED BY <2>2, <2>3, <2>5, <2>7, <2>8, RenewalStatusStep
<1> QED BY <1>5, <1>6

LEMMA CreateRenewalStep ==
    ASSUME TicketsInv, NEW n \in Renewals, CreateRenewal(n), RenewalRest PROVE TicketsInv'
<1>0. n \in Payables /\ LotsInv /\ PaysInv /\ PurchasesInv /\ RenewalPay(n) /\ RenewalHead(n) /\ UNCHANGED <<book, trade, comp, given>>
 BY DEF Payables, TicketsInv, RenewalsInv, CreateRenewal
<1>1. PICK l \in Issued : l = renewal[n].lot BY <1>0 DEF CreateRenewal, RenewalHead
<1>2. /\ renewal[n].status = "quoted" /\ lot[l].status = "active" /\ ~RenewalUnderWay(l) /\ lot[l].version = renewal[n].version
 BY <1>1 DEF CreateRenewal, Renewable, QuoteHolds
<1>3. renewal[n].old = lot[l].exp /\ ~HeldFor(l) /\ pay[n] = NoPay
 BY <1>0, <1>1, <1>2 DEF RenewalHead, RenewalPay
<1>4. CASE renewal[n].free
 <2>1. RenewAtOnce(n) BY <1>4 DEF CreateRenewal
 <2>2. /\ renewal' = [renewal EXCEPT ![n].status = "completed"] /\ UNCHANGED pay
       /\ lot' = [lot EXCEPT ![l] = Renewed(@, renewal[n].new)]
  BY <1>1, <2>1 DEF RenewAtOnce
 <2>3. StatusSet(n, "completed") BY <2>2, SetStatus
 <2>4. Extends(n, l) BY <1>0, <1>1, <1>2, <1>3, <2>2, <2>3 DEF Extends
 <2>5. OnlyAt(n) /\ PayOK(n)' BY <1>0, <2>2, AtRest
 <2>6. renewal'[n].status = "completed" /\ renewal'[n].free = renewal[n].free
  BY <2>3 DEF StatusSet, RenewalFields
 <2>7. RenewalPay(n)' BY <1>3, <1>4, <2>2, <2>6 DEF RenewalPay
 <2> QED BY <2>4, <2>5, <2>7, ExtendedStep
<1>5. CASE ~renewal[n].free
 <2>1. RenewOncePaid(n) BY <1>5 DEF CreateRenewal
 <2>2. PICK exp : /\ renewal' = [renewal EXCEPT ![n].status = "pending_payment"]
                  /\ lot' = [lot EXCEPT ![l].used = TRUE, ![l].version = @ + 1]
                  /\ pay' = [pay EXCEPT ![n] = NewPay(exp)]
  BY <1>1, <2>1 DEF RenewOncePaid
 <2>3. StatusSet(n, "pending_payment") BY <2>2, SetStatus
 <2>4. AccountsMove({}, 0) /\ Issued' \subseteq Issued /\ \A k \in Lots \ {l} : lot'[k] = lot[k]
  BY <1>0, <2>2, UsedLot
 <2>5. \A m \in Renewals : renewal[m].status = "completed" \/ renewal'[m].status = "completed" => renewal'[m] = renewal[m]
  BY <1>2, <2>3 DEF StatusSet
 <2>6. ASSUME NEW p \in Purchases, refund[p].kind = "user_unused" PROVE lot'[refund[p].lot] = lot[refund[p].lot]
  <3>1. PurchaseLine(p) BY <1>0 DEF PurchasesInv
  <3>2. refund[p].lot \in Issued /\ lot[refund[p].lot].status # "active" BY <2>6, <3>1 DEF PurchaseLine
  <3> QED BY <1>2, <2>4, <3>2 DEF Issued
 <2>7. LotsRest BY <2>4, <2>5, <2>6, QuietLots
 <2>8. "pending_payment" \in SettledStatuses BY DEF SettledStatuses, ActiveRenewalStatuses
 <2>9. RenewalHead(n)' /\ OneActive(n) BY <1>1, <1>2, <2>3, <2>7, <2>8, StatusMoves
 <2>10. /\ pay'[n].status = "creating" /\ DOMAIN pay'[n] = {"status", "exp", "told"}
        /\ DOMAIN pay' = Payables /\ \A a \in Payables \ {n} : pay'[a] = pay[a]
  BY <1>0, <2>2 DEF PaysInv, NewPay, NoPay
 <2>11. OnlyAt(n) BY <1>0, <2>10 DEF OnlyAt, PaysInv
 <2>12. PayOK(n)' BY <2>10 DEF PayOK
 <2>13. renewal'[n].status = "pending_payment" /\ renewal'[n].free = renewal[n].free
  BY <2>3 DEF StatusSet, RenewalFields
 <2>14. RenewalPay(n)' BY <1>5, <2>10, <2>13 DEF RenewalPay
 <2>15. RenewalAlone(n) BY <2>3, <2>11, AloneBy DEF StatusSet
 <2> QED BY <2>7, <2>9, <2>12, <2>14, <2>15, RenewalAloneFacts
<1> QED BY <1>4, <1>5

LEMMA RenewalQuoteStep ==
    ASSUME TicketsInv, NEW n \in Renewals, NEW l \in Lots, RenewalQuote(n, l), RenewalRest PROVE TicketsInv'
<1>0. n \in Payables /\ LotsInv /\ RenewalsInv /\ RenewalPay(n) /\ UNCHANGED <<lot, book, pay, trade, comp, given>>
 BY DEF Payables, TicketsInv, RenewalsInv, RenewalQuote
<1>1. /\ renewal[n].status = "none" /\ lot[l].status = "active" /\ ~HeldFor(l)
 BY DEF RenewalQuote, Renewable
<1>2. l \in Issued /\ IsLot(lot[l]) BY <1>0, <1>1, InUse, IssuedLot
<1>3. PICK e, x, o, v : e = lot[l].exp /\ x = e + Extension /\ o = lot[l].owner /\ v = lot[l].version OBVIOUS
<1>4. PICK free \in BOOLEAN :
         renewal' = [renewal EXCEPT ![n] = [NoRenewal EXCEPT !.status = "quoted", !.lot = l, !.owner = o, !.old = e,
                                                             !.new = x, !.free = free, !.version = v]]
 BY <1>3 DEF RenewalQuote
<1>5. PICK R : R = [NoRenewal EXCEPT !.status = "quoted", !.lot = l, !.owner = o, !.old = e, !.new = x, !.free = free, !.version = v]
 OBVIOUS
<1>6. /\ DOMAIN R = RenewalFields /\ R.status = "quoted" /\ R.lot = l /\ R.owner = o /\ R.old = e /\ R.new = x
      /\ R.free = free /\ R.version = v
 BY <1>5 DEF NoRenewal, RenewalFields
<1>7. renewal'[n] = R /\ DOMAIN renewal' = Renewals /\ \A m \in Renewals \ {n} : renewal'[m] = renewal[m]
 BY <1>0, <1>4, <1>5 DEF RenewalsInv
<1>8. LotsRest
 <2>1. \A m \in Renewals : renewal[m].status = "completed" \/ renewal'[m].status = "completed" => renewal'[m] = renewal[m]
  BY <1>1, <1>6, <1>7
 <2> QED BY <1>0, <2>1, StillLots
<1>9. RenewalHead(n)'
 <2>1. l \in Issued' /\ lot'[l] = lot[l] /\ ~HeldFor(l)' BY <1>0, <1>1, <1>2, HeldSame DEF Issued
 <2>2. e \in Int /\ v \in Nat BY <1>2, <1>3 DEF IsLot
 <2> QED BY <1>3, <1>6, <1>7, <2>1, <2>2 DEF RenewalHead
<1>10. RenewalPay(n)' BY <1>0, <1>1, <1>6, <1>7 DEF RenewalPay
<1>11. OnlyAt(n) /\ PayOK(n)' BY <1>0, AtRest
<1>12. OneActive(n) BY <1>6, <1>7 DEF OneActive, ActiveRenewalStatuses
<1>13. RenewalAlone(n) BY <1>7, <1>11, AloneBy
<1> QED BY <1>8, <1>9, <1>10, <1>11, <1>12, <1>13, RenewalAloneFacts

LEMMA RenewalTurnKeeps == ASSUME TicketsInv, MoneyInv, RenewalTurn PROVE TicketsInv'
<1>1. RenewalRest BY DEF RenewalTurn, RenewalRest
<1>2. PICK n \in Renewals :
         \/ \E l \in Lots : RenewalQuote(n, l)
         \/ CreateRenewal(n) \/ ReflectSubmission(n) \/ ConfirmFails(n)
         \/ RenewalPaid(n) \/ RenewalUnpaid(n) \/ RenewalDoubted(n)
         \/ RenewalRefundStep(n) /\ UNCHANGED <<pay, trade>>
         \/ PaymentOutside(n) /\ UNCHANGED <<lot, book, renewal, comp, given>>
 BY DEF RenewalTurn, RenewalStep
<1>3. CASE \E l \in Lots : RenewalQuote(n, l)
 BY <1>1, <1>3, RenewalQuoteStep
<1>4. CASE CreateRenewal(n)
 BY <1>1, <1>4, CreateRenewalStep
<1>5. CASE ReflectSubmission(n)
 BY <1>1, <1>5, ReflectSubmissionStep
<1>6. CASE ConfirmFails(n)
 BY <1>1, <1>6, ConfirmFailsStep
<1>7. CASE RenewalPaid(n)
 BY <1>1, <1>7, RenewalAppliedStep
<1>8. CASE RenewalUnpaid(n)
 BY <1>1, <1>8, RenewalUnpaidStep
<1>9. CASE RenewalDoubted(n)
 BY <1>1, <1>9, RenewalDoubtedStep
<1>10. CASE RenewalRefundStep(n) /\ UNCHANGED <<pay, trade>>
 BY <1>1, <1>10, RenewalRefundSteps
<1>11. CASE PaymentOutside(n) /\ UNCHANGED <<lot, book, renewal, comp, given>>
 BY <1>1, <1>11, RenewalOutsideStep
<1> QED BY <1>2, <1>3, <1>4, <1>5, <1>6, <1>7, <1>8, <1>9, <1>10, <1>11

----------------------------------------
(* Purchases and their refunds. *)

PurchaseRest == UNCHANGED <<gift, redemption, renewal, now, slot>>

\* What a step of one refund does to the claims on a lot.
LEMMA RefundClaims ==
    ASSUME LotsInv, GiftsInv, RedemptionsInv, PurchasesInv, NEW p \in Purchases, NEW l \in Lots,
           \A k \in Purchases \ {p} : refund'[k] = refund[k], UNCHANGED <<gift, redemption>>,
           l \in Issued => lot'[l].total = lot[l].total, OfRefund(l, p, Taken)' \in Nat
    PROVE  /\ ClaimsOn(l, Taken)' = ClaimsOn(l, Taken) - OfRefund(l, p, Taken) + OfRefund(l, p, Taken)'
           /\ OfRefund(l, p, Taken) \in Nat /\ ClaimsOn(l, Taken) \in Nat
<1>1. ClaimsTyped(l, Taken) /\ ClaimsOn(l, Taken) \in Nat BY Claimed0
<1>2. GiftPart(l, Taken) \in Nat /\ RedemptionPart(l, Taken) \in Nat /\ RefundPart(l, Taken) \in Nat
 BY <1>1, ClaimsNat
<1>3. \A k \in Purchases \ {p} : OfRefund(l, k, Taken)' = OfRefund(l, k, Taken)
 <2> SUFFICES ASSUME NEW k \in Purchases \ {p} PROVE OfRefund(l, k, Taken)' = OfRefund(l, k, Taken)
  OBVIOUS
 <2>1. refund[k].alloc \in Taken /\ refund[k].lot = l => l \in Issued
  <3>1. PurchaseHead(k) /\ PurchaseLine(k) BY DEF PurchasesInv
  <3> QED BY <3>1 DEF PurchaseHead, PurchaseLine, Taken
 <2> QED BY <2>1 DEF OfRefund
<1>4. RefundPart(l, Taken)' = RefundPart(l, Taken) - OfRefund(l, p, Taken) + OfRefund(l, p, Taken)'
 BY <1>1, <1>3, RefundPartMoves
<1>5. GiftPart(l, Taken)' = GiftPart(l, Taken) BY GiftPartStays
<1>6. RedemptionPart(l, Taken)' = RedemptionPart(l, Taken) BY RedemptionPartStays
<1>7. ClaimsOn(l, Taken) = GiftPart(l, Taken) + RedemptionPart(l, Taken) + RefundPart(l, Taken) BY ClaimsParts
<1>8. ClaimsOn(l, Taken)' = GiftPart(l, Taken)' + RedemptionPart(l, Taken)' + RefundPart(l, Taken)'
 BY <1>7, ClaimsParts DEF ClaimsOn, GiftPart, RedemptionPart, RefundPart
<1>9. OfRefund(l, p, Taken) \in Nat BY <1>1 DEF ClaimsTyped
<1> QED BY <1>1, <1>2, <1>4, <1>5, <1>6, <1>7, <1>8, <1>9

\* A step of one purchase, its refund and its payment, for everybody else.
PurchaseMove(p) ==
    /\ PurchaseRest /\ OnlyAt(p)
    /\ DOMAIN purchase' = Purchases /\ \A q \in Purchases \ {p} : purchase'[q] = purchase[q]
    /\ DOMAIN refund' = Purchases /\ \A q \in Purchases \ {p} : refund'[q] = refund[q]
    /\ AccountsMove(PurchaseTypes, p)
    /\ \A l \in Issued' \ Issued : /\ (lot'[l].renewals = 0 => lot'[l].exp = lot'[l].orig)
                                   /\ \A q \in Purchases \ {p} : lot'[l].from # <<q>>
    /\ \A q \in Purchases \ {p} : refund[q].kind = "user_unused" => lot'[refund[q].lot] = lot[refund[q].lot]
    /\ \A l \in Issued : lot'[l] = lot[l] /\ refund'[p].lot = l /\ refund'[p].alloc = "held" => HeldForRefund(l)

LEMMA PurchaseMoveFacts ==
    ASSUME TicketsInv, NEW p \in Purchases, PurchaseMove(p)
    PROVE  /\ LotsInv' /\ LotsKept /\ LotsUntouched /\ RowsKept(PurchaseTypes, p)
           /\ (PurchaseHead(p)' /\ PurchaseLine(p)' /\ PayOK(p)' /\ QuotasInv' => TicketsInv')
<1>0. /\ LotsInv /\ ChainsInv /\ GiftsInv /\ RedemptionsInv /\ RenewalsInv /\ PaysInv /\ PurchasesInv
      /\ SlotsInv /\ QuotasInv
 BY DEF TicketsInv
<1>r. UNCHANGED <<gift, redemption, renewal, now, slot>>
 BY DEF PurchaseMove, PurchaseRest
<1>a. /\ DOMAIN pay' = Payables /\ DOMAIN trade' = Payables
      /\ \A a \in Payables \ {p} : pay'[a] = pay[a] /\ trade'[a] = trade[a] /\ comp'[a] = comp[a] /\ given'[a] = given[a]
 BY DEF PurchaseMove, OnlyAt
<1>1. LotsInv' /\ LotsKept /\ LotsUntouched /\ RowsKept(PurchaseTypes, p)
 <2>1. now' \in Nat /\ now <= now' BY <1>0, <1>r DEF LotsInv
 <2> QED BY <1>0, <2>1, AccountsStep DEF PurchaseMove
<1>2. ChainsKept /\ ChainsInv' BY <1>0, <1>1, <1>r, ChainsStep DEF PurchaseMove
<1>3. GiftsInv'
 <2> SUFFICES ASSUME NEW k \in Gifts PROVE GiftOK(k)'
  BY <1>0, <1>r DEF GiftsInv
 <2>1. GiftOK(k) /\ gift'[k] = gift[k] BY <1>0, <1>r DEF GiftsInv
 <2>2. \A l \in DOMAIN gift[k].alloc : lot'[l].exp = lot[l].exp
  BY <1>1, <2>1 DEF GiftOK, GiftLine, LotsUntouched
 <2>3. PurchaseTypes \cap GiftTypes = {} BY DEF GiftTypes, PurchaseTypes
 <2> QED BY <1>1, <1>2, <2>1, <2>2, <2>3, GiftFrame
<1>4. RedemptionsInv'
 <2> SUFFICES ASSUME NEW r \in Redemptions PROVE RedemptionOK(r)'
  BY <1>0, <1>r DEF RedemptionsInv
 <2>1. RedemptionOK(r) /\ redemption'[r] = redemption[r] BY <1>0, <1>r DEF RedemptionsInv
 <2>2. \A l \in DOMAIN redemption[r].alloc : lot'[l].exp = lot[l].exp
  BY <1>1, <2>1 DEF RedemptionOK, RedemptionLine, LotsUntouched
 <2>3. PurchaseTypes \cap RedemptionTypes = {} BY DEF PurchaseTypes, RedemptionTypes
 <2> QED BY <1>1, <2>1, <2>2, <2>3, RedemptionFrame
<1>5. RenewalsInv'
 <2>0. ASSUME NEW l \in Issued, lot'[l] = lot[l], HeldFor(l)' PROVE HeldFor(l)
  <3>1. HeldForRefund(l)' => HeldForRefund(l)
   <4> SUFFICES ASSUME NEW q \in Purchases, refund'[q].lot = l, refund'[q].alloc = "held" PROVE HeldForRefund(l)
    BY DEF HeldForRefund
   <4>1. CASE q = p
    BY <2>0, <4>1 DEF PurchaseMove
   <4>2. CASE q # p
    BY <4>2 DEF PurchaseMove, HeldForRefund
   <4> QED BY <4>1, <4>2
  <3> QED BY <1>r, <2>0, <3>1 DEF HeldFor
 <2>1. ASSUME NEW n \in Renewals PROVE RenewalHead(n)' /\ RenewalPay(n)'
  <3>1. /\ renewal'[n] = renewal[n] /\ RenewalHead(n) /\ RenewalPay(n) /\ pay'[n] = pay[n] /\ comp'[n] = comp[n]
        /\ given'[n] = given[n]
   BY <1>0, <1>r, <1>a, PayablesAssumption DEF RenewalsInv, Payables
  <3>2. PICK l : l = renewal[n].lot OBVIOUS
  <3>3. renewal[n].status = "quoted" => (lot'[l].version = lot[l].version => lot'[l].exp = lot[l].exp /\ (HeldFor(l)' => HeldFor(l)))
   BY <1>1, <2>0, <3>1, <3>2 DEF RenewalHead, LotsUntouched
  <3>4. RenewalHead(n)' BY <1>0, <1>1, <3>1, <3>2, <3>3, RenewalFrame
  <3>5. RenewalPay(n)' BY <3>1 DEF RenewalPay
  <3> QED BY <3>4, <3>5
 <2> QED BY <1>0, <1>r, <2>1 DEF RenewalsInv
<1>6. ASSUME NEW q \in Purchases \ {p} PROVE PurchaseHead(q)' /\ PurchaseLine(q)'
 <2>1. purchase'[q] = purchase[q] /\ refund'[q] = refund[q] /\ PurchaseHead(q) /\ PurchaseLine(q)
  BY <1>0 DEF PurchaseMove, PurchasesInv
 <2>2. pay'[q] = pay[q] /\ comp'[q] = comp[q] /\ given'[q] = given[q] BY <1>a DEF Payables
 <2>3. refund[q].kind = "user_unused" => lot'[refund[q].lot] = lot[refund[q].lot] /\ ~EverTouched(refund[q].lot)'
  <3> SUFFICES ASSUME refund[q].kind = "user_unused" PROVE lot'[refund[q].lot] = lot[refund[q].lot] /\ ~EverTouched(refund[q].lot)'
   OBVIOUS
  <3>1. PICK l : l = refund[q].lot /\ l = refund'[q].lot BY <2>1
  <3>2. ~EverTouched(l) BY <2>1, <3>1 DEF PurchaseLine
  <3>3. ~EverTouched(l)' BY <1>r, <3>2 DEF EverTouched
  <3> QED BY <3>1, <3>3 DEF PurchaseMove
 <2>4. \A l \in Issued' \ Issued : lot'[l].from # <<q>> BY DEF PurchaseMove
 <2>5. PurchaseLine(q)' BY <1>1, <2>1, <2>3, <2>4, PurchaseFrame
 <2>6. PurchaseHead(q)' BY <2>1, <2>2 DEF PurchaseHead
 <2> QED BY <2>5, <2>6
<1>7. SlotsInv' BY <1>0, <1>r, SlotsFrame
<1>8. ASSUME PayOK(p)' PROVE PaysInv'
 <2>1. ASSUME NEW b \in Payables PROVE PayOK(b)'
  <3>1. CASE b = p
   BY <1>8, <3>1
  <3>2. CASE b # p
   BY <1>0, <1>a, <3>2 DEF PaysInv, PayOK
  <3> QED BY <3>1, <3>2
 <2> QED BY <1>a, <2>1 DEF PaysInv, PayOK
<1>9. ASSUME PurchaseHead(p)', PurchaseLine(p)' PROVE PurchasesInv'
 BY <1>6, <1>9 DEF PurchasesInv, PurchaseMove
<1> QED BY <1>1, <1>2, <1>3, <1>4, <1>5, <1>7, <1>8, <1>9 DEF TicketsInv
\* The claims of refunds that take nothing more and nothing less.
SameClaims(p) ==
    /\ DOMAIN refund' = Purchases /\ \A q \in Purchases \ {p} : refund'[q] = refund[q]
    /\ (refund'[p].alloc \in Taken <=> refund[p].alloc \in Taken)
    /\ (refund[p].alloc \in Taken => refund'[p].lot = refund[p].lot)

LEMMA SameClaimsFacts ==
    ASSUME TicketsInv, NEW p \in Purchases, SameClaims(p), UNCHANGED <<gift, redemption>>,
           NEW l \in Lots, lot'[l].total = lot[l].total
    PROVE  ClaimsOn(l, Taken)' = ClaimsOn(l, Taken)
<1>0. LotsInv /\ GiftsInv /\ RedemptionsInv /\ PurchasesInv BY DEF TicketsInv
<1>1. ClaimsTyped(l, Taken) BY <1>0, Claimed0
<1>2. OfRefund(l, p, Taken)' = OfRefund(l, p, Taken) BY DEF OfRefund, SameClaims
<1>3. OfRefund(l, p, Taken) \in Nat BY <1>1 DEF ClaimsTyped
<1>4. \A k \in Purchases \ {p} : refund'[k] = refund[k] BY DEF SameClaims
<1>5. /\ ClaimsOn(l, Taken)' = ClaimsOn(l, Taken) - OfRefund(l, p, Taken) + OfRefund(l, p, Taken)'
      /\ OfRefund(l, p, Taken) \in Nat /\ ClaimsOn(l, Taken) \in Nat
 BY <1>0, <1>2, <1>3, <1>4, RefundClaims
<1> QED BY <1>2, <1>5

\* A purchase and its refund move, the lots stay.
LEMMA StillMove ==
    ASSUME TicketsInv, NEW p \in Purchases, PurchaseRest, OnlyAt(p), UNCHANGED <<lot, book>>, SameClaims(p),
           refund'[p].alloc = "held" => refund[p].alloc = "held" /\ refund'[p].lot = refund[p].lot,
           DOMAIN purchase' = Purchases, \A q \in Purchases \ {p} : purchase'[q] = purchase[q]
    PROVE  PurchaseMove(p) /\ RowsKept({}, 0) /\ Issued' = Issued
<1>0. LotsInv /\ DOMAIN lot = Lots /\ DOMAIN book = Lots BY DEF TicketsInv, LotsInv
<1>1. UNCHANGED <<gift, redemption>> BY DEF PurchaseRest
<1>2. \A l \in Lots : ClaimsOn(l, Taken)' = ClaimsOn(l, Taken) BY <1>1, SameClaimsFacts
<1>3. \A l \in Lots : LotStays(l) BY <1>2 DEF LotStays
<1>4. Issued \subseteq Lots /\ Issued' = Issued BY DEF Issued
<1>5. AccountsMove(PurchaseTypes, p) BY <1>0, <1>3, <1>4 DEF AccountsMove
<1>6. RowsKept({}, 0) BY DEF RowsKept
<1>7. \A l : refund'[p].lot = l /\ refund'[p].alloc = "held" => HeldForRefund(l) BY DEF HeldForRefund
<1> QED BY <1>4, <1>5, <1>6, <1>7 DEF PurchaseMove, SameClaims

\* Only the purchase and its payment move.
LEMMA QuietPurchase ==
    ASSUME TicketsInv, NEW p \in Purchases, PurchaseRest, OnlyAt(p), PayOK(p)', UNCHANGED <<lot, book, refund>>,
           DOMAIN purchase' = Purchases, \A q \in Purchases \ {p} : purchase'[q] = purchase[q],
           purchase'[p].lot = purchase[p].lot, PurchaseHead(p)', QuotasInv'
    PROVE  TicketsInv'
<1>0. PurchasesInv /\ PurchaseLine(p) /\ DOMAIN refund = Purchases BY DEF TicketsInv, PurchasesInv
<1>1. SameClaims(p) BY <1>0 DEF SameClaims
<1>2. PurchaseMove(p) /\ RowsKept({}, 0) /\ Issued' = Issued BY <1>1, StillMove
<1>3. LotsKept BY <1>2, PurchaseMoveFacts
<1>4. refund[p].kind = "user_unused" => lot'[refund[p].lot] = lot[refund[p].lot] /\ ~EverTouched(refund[p].lot)'
 <2> SUFFICES ASSUME refund[p].kind = "user_unused" PROVE ~EverTouched(refund[p].lot)'
  OBVIOUS
 <2>1. PICK l : l = refund[p].lot /\ l = refund'[p].lot OBVIOUS
 <2>2. ~EverTouched(l) BY <1>0, <2>1 DEF PurchaseLine
 <2>3. ~EverTouched(l)' BY <2>2 DEF EverTouched, PurchaseRest
 <2> QED BY <2>1, <2>3
<1>5. PurchaseLine(p)'
 <2>1. \A l \in Issued' \ Issued : lot'[l].from # <<p>> BY <1>2
 <2>2. {} \cap PurchaseTypes = {} \/ 0 # p OBVIOUS
 <2>3. refund'[p] = refund[p] /\ RowsKept({}, 0) BY <1>2
 <2> QED BY <1>0, <1>3, <1>4, <2>1, <2>2, <2>3, PurchaseFrame
<1> QED BY <1>2, <1>5, PurchaseMoveFacts

----------------------------------------
(* The quota. *)

LEMMA QuotaParts ==
    /\ \A c : QuotaRule(c) <=> /\ quota[c].reserved = Cardinality(OpenOf(c)) /\ quota[c].consumed = Cardinality(PaidOf(c))
                               /\ quota[c].reserved + quota[c].consumed <= Limit
    /\ \A c : QuotaRule(c)' <=> /\ quota'[c].reserved = Cardinality(OpenOf(c)') /\ quota'[c].consumed = Cardinality(PaidOf(c)')
                                /\ quota'[c].reserved + quota'[c].consumed <= Limit
    /\ \A c : IsFiniteSet(OpenOf(c)) /\ IsFiniteSet(PaidOf(c)) /\ Cardinality(OpenOf(c)) \in Nat /\ Cardinality(PaidOf(c)) \in Nat
<1>1. \A c : OpenOf(c) \subseteq Purchases /\ PaidOf(c) \subseteq Purchases BY DEF OpenOf, PaidOf
<1>2. \A c : IsFiniteSet(OpenOf(c)) /\ IsFiniteSet(PaidOf(c)) BY <1>1, LotsAssumption, FS_Subset
<1>3. \A c : Cardinality(OpenOf(c)) \in Nat /\ Cardinality(PaidOf(c)) \in Nat BY <1>2, FS_CardinalityType
<1>4. \A c : QuotaRule(c) <=> /\ quota[c].reserved = Cardinality(OpenOf(c)) /\ quota[c].consumed = Cardinality(PaidOf(c))
                             /\ quota[c].reserved + quota[c].consumed <= Limit
 BY DEF QuotaRule, OpenOf, PaidOf
<1>5. \A c : QuotaRule(c)' <=> /\ quota'[c].reserved = Cardinality(OpenOf(c)') /\ quota'[c].consumed = Cardinality(PaidOf(c)')
                              /\ quota'[c].reserved + quota'[c].consumed <= Limit
 BY DEF QuotaRule, OpenOf, PaidOf
<1> QED BY <1>2, <1>3, <1>4, <1>5

LEMMA QuotasSame ==
    ASSUME QuotasInv, UNCHANGED quota, NEW p \in Purchases,
           \A q \in Purchases \ {p} : purchase'[q] = purchase[q] /\ pay'[q] = pay[q],
           purchase'[p].owner = purchase[p].owner, Open(p)' <=> Open(p),
           pay'[p].status = "succeeded" <=> pay[p].status = "succeeded"
    PROVE  QuotasInv'
<1>1. ASSUME NEW c PROVE OpenOf(c)' = OpenOf(c) /\ PaidOf(c)' = PaidOf(c) BY DEF OpenOf, PaidOf, Open
<1> QED BY <1>1, QuotaParts DEF QuotasInv
\* The row of one customer's quota.
QuotaSet(c, reserved, consumed) ==
    /\ DOMAIN quota' = Customers /\ \A d \in Customers \ {c} : quota'[d] = quota[d]
    /\ DOMAIN quota'[c] = {"reserved", "consumed"} /\ quota'[c].reserved = reserved /\ quota'[c].consumed = consumed

LEMMA QuotaWritten ==
    ASSUME QuotasInv, NEW c \in Customers
    PROVE  /\ \A d : quota' = Reserved(c, d) => QuotaSet(c, quota[c].reserved + d, quota[c].consumed)
           /\ (quota' = Consumed(c) => QuotaSet(c, quota[c].reserved - 1, quota[c].consumed + 1))
<1>1. DOMAIN quota = Customers /\ DOMAIN quota[c] = {"reserved", "consumed"} BY DEF QuotasInv
<1>2. ASSUME NEW d, quota' = Reserved(c, d) PROVE QuotaSet(c, quota[c].reserved + d, quota[c].consumed)
 <2>1. PICK v : v = quota[c].reserved + d OBVIOUS
 <2>2. quota' = [quota EXCEPT ![c].reserved = v] BY <1>1, <1>2, <2>1 DEF Reserved
 <2> QED BY <1>1, <2>1, <2>2 DEF QuotaSet
<1>3. ASSUME quota' = Consumed(c) PROVE QuotaSet(c, quota[c].reserved - 1, quota[c].consumed + 1)
 <2>1. PICK v, w : v = quota[c].reserved - 1 /\ w = quota[c].consumed + 1 OBVIOUS
 <2>2. quota' = [quota EXCEPT ![c].reserved = v, ![c].consumed = w] BY <1>1, <1>3, <2>1 DEF Consumed
 <2> QED BY <1>1, <2>1, <2>2 DEF QuotaSet
<1> QED BY <1>2, <1>3

\* One customer's quota and purchase move together.
LEMMA QuotasMove ==
    ASSUME QuotasInv, NEW p \in Purchases, NEW c \in Customers,
           \A q \in Purchases \ {p} : purchase'[q] = purchase[q] /\ pay'[q] = pay[q],
           purchase'[p].owner = c, purchase[p].owner = c \/ purchase[p].owner \notin Customers,
           NEW r \in Int, NEW k \in Int, QuotaSet(c, r, k), r + k <= Limit,
           r = Cardinality(OpenOf(c)'), k = Cardinality(PaidOf(c)')
    PROVE  QuotasInv'
<1>1. ASSUME NEW d \in Customers PROVE DOMAIN quota'[d] = {"reserved", "consumed"} /\ QuotaRule(d)'
 <2>1. CASE d = c
  BY <2>1, QuotaParts DEF QuotaSet
 <2>2. CASE d # c
  <3>1. OpenOf(d)' = OpenOf(d) /\ PaidOf(d)' = PaidOf(d) BY <2>2 DEF OpenOf, PaidOf, Open
  <3>2. quota'[d] = quota[d] /\ DOMAIN quota[d] = {"reserved", "consumed"} /\ QuotaRule(d)
   BY <2>2 DEF QuotaSet, QuotasInv
  <3> QED BY <3>1, <3>2, QuotaParts
 <2> QED BY <2>1, <2>2
<1> QED BY <1>1 DEF QuotasInv, QuotaSet

LEMMA QuotaReserved ==
    ASSUME QuotasInv, NEW p \in Purchases, NEW c \in Customers, quota' = Reserved(c, 1), QuotaLeft(c),
           \A q \in Purchases \ {p} : purchase'[q] = purchase[q] /\ pay'[q] = pay[q],
           ~Open(p), pay[p].status # "succeeded", Open(p)', pay'[p].status # "succeeded", purchase'[p].owner = c
    PROVE  QuotasInv'
<1>1. PICK O, P : O = OpenOf(c) /\ P = PaidOf(c) OBVIOUS
<1>2. p \notin O /\ p \notin P /\ IsFiniteSet(O) /\ IsFiniteSet(P) /\ Cardinality(O) \in Nat /\ Cardinality(P) \in Nat
 <2>1. p \notin O /\ p \notin P BY <1>1 DEF OpenOf, PaidOf
 <2> QED BY <1>1, <2>1, QuotaParts
<1>3. Cardinality(O \cup {p}) = Cardinality(O) + 1 BY <1>2, FS_AddElement
<1>4. OpenOf(c)' = O \cup {p} /\ PaidOf(c)' = P BY <1>1, <1>2 DEF OpenOf, PaidOf, Open
<1>5. quota[c].reserved = Cardinality(O) /\ quota[c].consumed = Cardinality(P)
 BY <1>1, QuotaParts DEF QuotasInv
<1>6. PICK r, k : r = quota[c].reserved + 1 /\ k = quota[c].consumed OBVIOUS
<1>7. r \in Int /\ k \in Int /\ r = Cardinality(OpenOf(c)') /\ k = Cardinality(PaidOf(c)')
 BY <1>2, <1>3, <1>4, <1>5, <1>6
<1>8. r + k <= Limit BY <1>2, <1>5, <1>6, PurchaseAssumption DEF QuotaLeft
<1>9. QuotaSet(c, r, k) BY <1>6, QuotaWritten
<1>10. ASSUME NEW d \in Customers PROVE DOMAIN quota'[d] = {"reserved", "consumed"} /\ QuotaRule(d)'
 <2>1. CASE d = c
  BY <1>7, <1>8, <1>9, <2>1, QuotaParts DEF QuotaSet
 <2>2. CASE d # c
  <3>1. OpenOf(d)' = OpenOf(d) /\ PaidOf(d)' = PaidOf(d) BY <2>2 DEF OpenOf, PaidOf, Open
  <3>2. quota'[d] = quota[d] /\ DOMAIN quota[d] = {"reserved", "consumed"} /\ QuotaRule(d)
   BY <1>9, <2>2 DEF QuotaSet, QuotasInv
  <3> QED BY <3>1, <3>2, QuotaParts
 <2> QED BY <2>1, <2>2
<1> QED BY <1>9, <1>10 DEF QuotasInv, QuotaSet

LEMMA QuotaReleased ==
    ASSUME QuotasInv, NEW p \in Purchases, NEW c \in Customers, quota' = Reserved(c, -1),
           \A q \in Purchases \ {p} : purchase'[q] = purchase[q] /\ pay'[q] = pay[q],
           Open(p), pay[p].status # "succeeded", ~Open(p)', pay'[p].status # "succeeded",
           purchase[p].owner = c, purchase'[p].owner = c
    PROVE  QuotasInv'
<1>1. PICK O, P : O = OpenOf(c) /\ P = PaidOf(c) OBVIOUS
<1>2. p \in O /\ p \notin P /\ IsFiniteSet(O) /\ IsFiniteSet(P) /\ Cardinality(O) \in Nat /\ Cardinality(P) \in Nat
 BY <1>1, QuotaParts DEF OpenOf, PaidOf
<1>3. Cardinality(O \ {p}) = Cardinality(O) - 1 BY <1>2, FS_RemoveElement
<1>4. OpenOf(c)' = O \ {p} /\ PaidOf(c)' = P BY <1>1, <1>2 DEF OpenOf, PaidOf, Open
<1>5. quota[c].reserved = Cardinality(O) /\ quota[c].consumed = Cardinality(P) /\ quota[c].reserved + quota[c].consumed <= Limit
 BY <1>1, QuotaParts DEF QuotasInv
<1>6. PICK r, k : r = quota[c].reserved + (-1) /\ k = quota[c].consumed OBVIOUS
<1>7. r \in Int /\ k \in Int /\ r = Cardinality(OpenOf(c)') /\ k = Cardinality(PaidOf(c)')
 BY <1>2, <1>3, <1>4, <1>5, <1>6
<1>8. r + k <= Limit BY <1>2, <1>5, <1>6, PurchaseAssumption
<1>9. QuotaSet(c, r, k) BY <1>6, QuotaWritten
<1> QED BY <1>7, <1>8, <1>9, QuotasMove

LEMMA QuotaConsumed ==
    ASSUME QuotasInv, NEW p \in Purchases, NEW c \in Customers, quota' = Consumed(c),
           \A q \in Purchases \ {p} : purchase'[q] = purchase[q] /\ pay'[q] = pay[q],
           Open(p), pay[p].status # "succeeded", ~Open(p)', pay'[p].status = "succeeded",
           purchase[p].owner = c, purchase'[p].owner = c
    PROVE  QuotasInv'
<1>1. PICK O, P : O = OpenOf(c) /\ P = PaidOf(c) OBVIOUS
<1>2. p \in O /\ p \notin P /\ IsFiniteSet(O) /\ IsFiniteSet(P) /\ Cardinality(O) \in Nat /\ Cardinality(P) \in Nat
 BY <1>1, QuotaParts DEF OpenOf, PaidOf
<1>3. Cardinality(O \ {p}) = Cardinality(O) - 1 /\ Cardinality(P \cup {p}) = Cardinality(P) + 1
 BY <1>2, FS_RemoveElement, FS_AddElement
<1>4. OpenOf(c)' = O \ {p} /\ PaidOf(c)' = P \cup {p} BY <1>1, <1>2 DEF OpenOf, PaidOf, Open
<1>5. quota[c].reserved = Cardinality(O) /\ quota[c].consumed = Cardinality(P) /\ quota[c].reserved + quota[c].consumed <= Limit
 BY <1>1, QuotaParts DEF QuotasInv
<1>6. PICK r, k : r = quota[c].reserved - 1 /\ k = quota[c].consumed + 1 OBVIOUS
<1>7. r \in Int /\ k \in Int /\ r = Cardinality(OpenOf(c)') /\ k = Cardinality(PaidOf(c)')
 BY <1>2, <1>3, <1>4, <1>5, <1>6
<1>8. r + k <= Limit BY <1>2, <1>5, <1>6, PurchaseAssumption
<1>9. QuotaSet(c, r, k) BY <1>6, QuotaWritten
<1> QED BY <1>7, <1>8, <1>9, QuotasMove

\* A purchase changes its status and nothing else.
PurchaseSet(p, s) ==
    /\ DOMAIN purchase' = Purchases /\ \A q \in Purchases \ {p} : purchase'[q] = purchase[q]
    /\ DOMAIN purchase'[p] = PurchaseFields /\ purchase'[p].status = s
    /\ purchase'[p].owner = purchase[p].owner /\ purchase'[p].lot = purchase[p].lot

LEMMA PurchaseIsSet ==
    ASSUME TicketsInv, NEW p \in Purchases, NEW s, SetPurchase(p, s) PROVE PurchaseSet(p, s)
<1>1. DOMAIN purchase = Purchases /\ DOMAIN purchase[p] = PurchaseFields
 BY DEF TicketsInv, PurchasesInv, PurchaseHead
<1> QED BY <1>1 DEF PurchaseSet, SetPurchase, PurchaseFields

LEMMA PurchaseIsSame ==
    ASSUME TicketsInv, NEW p \in Purchases, UNCHANGED purchase PROVE PurchaseSet(p, purchase[p].status)
<1>1. DOMAIN purchase = Purchases /\ DOMAIN purchase[p] = PurchaseFields
 BY DEF TicketsInv, PurchasesInv, PurchaseHead
<1> QED BY <1>1 DEF PurchaseSet

OpenStatuses == {"pending_payment", "payment_unknown", "settlement_exception"}

\* A purchase that is not paid moves.
LEMMA UnpaidHead ==
    ASSUME NEW p \in Purchases, PurchaseHead(p), UNCHANGED refund,
           purchase[p].status \notin PaidPurchase, DOMAIN purchase'[p] = PurchaseFields,
           purchase'[p].status \in OpenStatuses \cup {"closed"}, purchase'[p].owner \in Customers,
           purchase'[p].lot = 0, pay'[p].status # "succeeded"
    PROVE  PurchaseHead(p)'
<1>1. /\ DOMAIN refund[p] = RefundFields /\ refund[p].kind = "none" /\ refund[p].status \in {"none", "quoted"}
      /\ refund[p].lot = 0 /\ refund[p].alloc = "none"
 BY DEF PurchaseHead, PaidPurchase, RepaidPurchase
<1>2. /\ purchase'[p].status \notin PaidPurchase /\ purchase'[p].status \notin RepaidPurchase /\ purchase'[p].status # "none"
      /\ purchase'[p].status \in {"none", "pending_payment", "payment_unknown", "settlement_exception", "closed"}
      /\ purchase'[p].status \notin {"issued", "refunded", "refund_holding", "refund_exception"}
 BY DEF OpenStatuses, PaidPurchase, RepaidPurchase
<1>3. refund'[p] = refund[p] OBVIOUS
<1> QED BY <1>1, <1>2, <1>3 DEF PurchaseHead

LEMMA UnpaidLot ==
    ASSUME TicketsInv, NEW p \in Purchases, purchase[p].status \notin PaidPurchase
    PROVE  PurchaseHead(p) /\ purchase[p].lot = 0 /\ pay[p].status # "succeeded" /\ (Open(p) <=> purchase[p].status \in OpenStatuses)
BY DEF TicketsInv, PurchasesInv, PurchaseHead, Open, OpenStatuses

LEMMA PayWritten ==
    ASSUME PaysInv, NEW b \in Payables, NEW exp, pay' = [pay EXCEPT ![b] = NewPay(exp)]
    PROVE  /\ pay'[b].status = "creating" /\ DOMAIN pay'[b] = {"status", "exp", "told"}
           /\ DOMAIN pay' = Payables /\ \A a \in Payables \ {b} : pay'[a] = pay[a]
           /\ PayOK(b)'
<1>1. /\ pay'[b].status = "creating" /\ DOMAIN pay'[b] = {"status", "exp", "told"}
      /\ DOMAIN pay' = Payables /\ \A a \in Payables \ {b} : pay'[a] = pay[a]
 BY DEF PaysInv, NewPay, NoPay
<1> QED BY <1>1 DEF PayOK

LEMMA CreatePurchaseStep ==
    ASSUME TicketsInv, NEW p \in Purchases, NEW c \in Customers, CreatePurchase(p, c), PurchaseRest
    PROVE  TicketsInv'
<1>0. p \in Payables /\ PaysInv /\ QuotasInv /\ DOMAIN purchase = Purchases /\ purchase[p].status = "none"
 BY DEF Payables, TicketsInv, PurchasesInv, CreatePurchase
<1>r. UNCHANGED <<lot, book, refund, trade, comp, given>>
 BY DEF CreatePurchase
<1>1. PurchaseHead(p) /\ purchase[p].lot = 0 /\ pay[p].status # "succeeded" /\ ~Open(p)
 BY <1>0, UnpaidLot DEF PaidPurchase, OpenStatuses
<1>2. PICK exp : pay' = [pay EXCEPT ![p] = NewPay(exp)] BY DEF CreatePurchase
<1>3. /\ pay'[p].status = "creating" /\ DOMAIN pay' = Payables /\ \A a \in Payables \ {p} : pay'[a] = pay[a]
      /\ PayOK(p)'
 BY <1>0, <1>2, PayWritten
<1>4. PICK P : P = [NoPurchase EXCEPT !.status = "pending_payment", !.owner = c] OBVIOUS
<1>5. DOMAIN P = PurchaseFields /\ P.status = "pending_payment" /\ P.owner = c /\ P.lot = 0
 BY <1>4 DEF NoPurchase, PurchaseFields
<1>6. DOMAIN purchase' = Purchases /\ purchase'[p] = P /\ \A q \in Purchases \ {p} : purchase'[q] = purchase[q]
 BY <1>0, <1>4 DEF CreatePurchase
<1>7. PurchaseHead(p)'
 <2>1. purchase[p].status \notin PaidPurchase /\ purchase'[p].status \in OpenStatuses
  BY <1>0, <1>5, <1>6 DEF PaidPurchase, OpenStatuses
 <2>2. DOMAIN purchase'[p] = PurchaseFields /\ purchase'[p].owner \in Customers /\ purchase'[p].lot = 0 /\ pay'[p].status # "succeeded"
  BY <1>3, <1>5, <1>6
 <2> QED BY <1>1, <1>r, <2>1, <2>2, UnpaidHead
<1>8. OnlyAt(p) BY <1>0, <1>r, <1>3 DEF OnlyAt, PaysInv
<1>9. QuotasInv'
 <2>1. Open(p)' /\ purchase'[p].owner = c BY <1>5, <1>6 DEF Open
 <2>2. quota' = Reserved(c, 1) /\ QuotaLeft(c) BY DEF CreatePurchase
 <2>3. \A q \in Purchases \ {p} : purchase'[q] = purchase[q] /\ pay'[q] = pay[q] BY <1>3, <1>6 DEF Payables
 <2>4. pay'[p].status # "succeeded" BY <1>3
 <2> QED BY <1>0, <1>1, <2>1, <2>2, <2>3, <2>4, QuotaReserved
<1>10. purchase'[p].lot = purchase[p].lot BY <1>1, <1>5, <1>6
<1> QED BY <1>r, <1>3, <1>6, <1>7, <1>8, <1>9, <1>10, QuietPurchase

\* A purchase that is not paid changes its status, its payment perhaps too.
LEMMA UnpaidStep ==
    ASSUME TicketsInv, NEW p \in Purchases, PurchaseRest, UNCHANGED <<lot, book, refund>>, OnlyAt(p), PayOK(p)',
           purchase[p].status \in OpenStatuses \cup {"closed"}, NEW s \in OpenStatuses \cup {"closed"}, PurchaseSet(p, s),
           pay'[p].status # "succeeded",
           \/ UNCHANGED quota /\ (s \in OpenStatuses <=> purchase[p].status \in OpenStatuses)
           \/ quota' = Reserved(purchase[p].owner, -1) /\ s = "closed" /\ purchase[p].status \in OpenStatuses
    PROVE  TicketsInv'
<1>0. QuotasInv /\ purchase[p].status \notin PaidPurchase BY DEF TicketsInv, OpenStatuses, PaidPurchase
<1>1. PurchaseHead(p) /\ purchase[p].lot = 0 /\ pay[p].status # "succeeded" /\ (Open(p) <=> purchase[p].status \in OpenStatuses)
 BY <1>0, UnpaidLot
<1>2. purchase[p].owner \in Customers BY <1>1 DEF PurchaseHead, OpenStatuses
<1>3. /\ DOMAIN purchase' = Purchases /\ \A q \in Purchases \ {p} : purchase'[q] = purchase[q]
      /\ DOMAIN purchase'[p] = PurchaseFields /\ purchase'[p].status = s
      /\ purchase'[p].owner = purchase[p].owner /\ purchase'[p].lot = purchase[p].lot
 BY DEF PurchaseSet
<1>4. PurchaseHead(p)' BY <1>0, <1>1, <1>2, <1>3, UnpaidHead
<1>5. Open(p)' <=> s \in OpenStatuses BY <1>3 DEF Open, OpenStatuses
<1>6. \A q \in Purchases \ {p} : purchase'[q] = purchase[q] /\ pay'[q] = pay[q] BY <1>3 DEF OnlyAt, Payables
<1>7. QuotasInv'
 <2>1. CASE UNCHANGED quota /\ (s \in OpenStatuses <=> purchase[p].status \in OpenStatuses)
  BY <1>0, <1>1, <1>3, <1>5, <1>6, <2>1, QuotasSame
 <2>2. CASE quota' = Reserved(purchase[p].owner, -1) /\ s = "closed" /\ purchase[p].status \in OpenStatuses
  <3>1. PICK c \in Customers : c = purchase[p].owner BY <1>2
  <3>2. quota' = Reserved(c, -1) /\ Open(p) /\ ~Open(p)' /\ purchase[p].owner = c /\ purchase'[p].owner = c
   BY <1>1, <1>3, <1>5, <2>2, <3>1 DEF OpenStatuses
  <3> QED BY <1>0, <1>1, <1>6, <3>2, QuotaReleased
 <2> QED BY <2>1, <2>2
<1> QED BY <1>3, <1>4, <1>7, QuietPurchase
LEMMA ReflectPurchaseStep ==
    ASSUME TicketsInv, NEW p \in Purchases, ReflectPurchase(p), PurchaseRest PROVE TicketsInv'
<1>0. p \in Payables /\ purchase[p].status = "pending_payment" /\ UNCHANGED <<lot, book, refund, pay, trade, comp, given>>
 BY DEF Payables, ReflectPurchase
<1>1. OnlyAt(p) /\ PayOK(p)' BY <1>0, AtRest
<1>2. purchase[p].status \notin PaidPurchase /\ purchase[p].status \in OpenStatuses
 BY <1>0 DEF PaidPurchase, OpenStatuses
<1>3. pay'[p].status # "succeeded" BY <1>0, <1>2, UnpaidLot
<1>4. CASE ClosePurchase(p)
 <2>1. PurchaseSet(p, "closed") /\ quota' = Reserved(purchase[p].owner, -1)
  BY <1>4, PurchaseIsSet DEF ClosePurchase
 <2> QED BY <1>0, <1>1, <1>2, <1>3, <2>1, UnpaidStep
<1>5. CASE SetPurchase(p, "payment_unknown") /\ UNCHANGED quota
 <2>1. PurchaseSet(p, "payment_unknown") /\ "payment_unknown" \in OpenStatuses
  BY <1>5, PurchaseIsSet DEF OpenStatuses
 <2> QED BY <1>0, <1>1, <1>2, <1>3, <1>5, <2>1, UnpaidStep
<1> QED BY <1>4, <1>5 DEF ReflectPurchase

\* A report other than a success is about a purchase that is not paid.
LEMMA ReportedPurchase ==
    ASSUME TicketsInv, NEW p \in Purchases, NEW s, ReportDone(p, s)
    PROVE  purchase[p].status \in OpenStatuses \cup {"closed"}
<1>1. PurchaseHead(p) /\ pay[p].status \notin {"none", "succeeded"}
 BY DEF TicketsInv, PurchasesInv, ReportDone
<1> QED BY <1>1 DEF PurchaseHead, OpenStatuses, NoPay

LEMMA PurchaseUnpaidStep ==
    ASSUME TicketsInv, NEW p \in Purchases, PurchaseUnpaid(p), PurchaseRest PROVE TicketsInv'
<1>0. p \in Payables /\ PaysInv /\ ReportTerminal(p) /\ UNCHANGED <<lot, book, refund, trade, comp, given>>
 BY DEF Payables, PurchaseUnpaid, TicketsInv
<1>1. PICK s \in {"closed", "failed"} : ReportDone(p, s) BY <1>0, ReportFacts
<1>2. OnlyAt(p) /\ PayOK(p)' BY <1>0, <1>1, ReportedAt
<1>3. pay'[p].status # "succeeded" /\ purchase[p].status \in OpenStatuses \cup {"closed"}
 BY <1>1, ReportedPurchase DEF ReportDone
<1>4. CASE Open(p)
 <2>1. PurchaseSet(p, "closed") /\ quota' = Reserved(purchase[p].owner, -1)
  BY <1>4, PurchaseIsSet DEF ClosePurchase, PurchaseUnpaid
 <2>2. purchase[p].status \in OpenStatuses BY <1>4 DEF Open, OpenStatuses
 <2> QED BY <1>0, <1>2, <1>3, <2>1, <2>2, UnpaidStep
<1>5. CASE ~Open(p)
 <2>1. purchase[p].status = "closed" /\ UNCHANGED <<purchase, quota>>
  BY <1>3, <1>5 DEF Open, OpenStatuses, PurchaseUnpaid
 <2>2. PurchaseSet(p, "closed") BY <2>1, PurchaseIsSame
 <2> QED BY <1>0, <1>2, <1>3, <2>1, <2>2, UnpaidStep
<1> QED BY <1>4, <1>5

LEMMA PurchaseDoubtedStep ==
    ASSUME TicketsInv, NEW p \in Purchases, PurchaseDoubted(p), PurchaseRest PROVE TicketsInv'
<1>0. p \in Payables /\ PaysInv /\ ReportMismatch(p) /\ UNCHANGED <<lot, book, refund, quota, trade, comp, given>>
 BY DEF Payables, PurchaseDoubted, TicketsInv
<1>1. ReportDone(p, "exception") BY <1>0, ReportFacts
<1>2. OnlyAt(p) /\ PayOK(p)' BY <1>0, <1>1, ReportedAt
<1>3. pay'[p].status # "succeeded" /\ purchase[p].status \in OpenStatuses \cup {"closed"}
 BY <1>1, ReportedPurchase DEF ReportDone
<1>4. PICK s : /\ SetPurchase(p, s)
               /\ s = IF purchase[p].status \in {"pending_payment", "payment_unknown"} THEN "settlement_exception"
                      ELSE purchase[p].status
 BY DEF PurchaseDoubted
<1>5. s \in OpenStatuses \cup {"closed"} /\ (s \in OpenStatuses <=> purchase[p].status \in OpenStatuses)
 BY <1>3, <1>4 DEF OpenStatuses
<1>6. PurchaseSet(p, s) BY <1>4, PurchaseIsSet
<1> QED BY <1>0, <1>2, <1>3, <1>5, <1>6, UnpaidStep

LEMMA PurchaseOutsideStep ==
    ASSUME TicketsInv, NEW p \in Purchases, PaymentOutside(p), UNCHANGED <<lot, book, purchase, quota, refund, comp, given>>, PurchaseRest
    PROVE  TicketsInv'
<1>0. p \in Payables /\ PaysInv /\ QuotasInv /\ PurchaseHead(p) /\ DOMAIN purchase = Purchases
 BY DEF Payables, TicketsInv, PurchasesInv
<1>1. OutsideDone(p) BY <1>0, OutsideFacts
<1>2. OnlyAt(p) /\ PayOK(p)' BY <1>1 DEF OnlyAt, OutsideDone
<1>3. (pay'[p].status = "succeeded" <=> pay[p].status = "succeeded") /\ purchase[p].status # "none"
 BY <1>0, <1>1 DEF OutsideDone, PurchaseHead, NoPay
<1>4. PurchaseHead(p)' BY <1>0, <1>3 DEF PurchaseHead
<1>5. QuotasInv'
 <2>1. \A q \in Purchases \ {p} : purchase'[q] = purchase[q] /\ pay'[q] = pay[q] BY <1>2 DEF OnlyAt, Payables
 <2>2. Open(p)' <=> Open(p) BY DEF Open
 <2> QED BY <1>0, <1>3, <2>1, <2>2, QuotasSame
<1> QED BY <1>0, <1>2, <1>4, <1>5, QuietPurchase

\* The provider is asked, or answers.
LEMMA PurchaseGivenStep ==
    ASSUME TicketsInv, MoneyInv, NEW p \in Purchases, AskRefund(p) \/ ProviderRefunds(p),
           UNCHANGED <<lot, book, purchase, quota, refund, pay, trade>>, PurchaseRest
    PROVE  TicketsInv'
<1>0. p \in Payables /\ QuotasInv /\ PurchaseHead(p) /\ DOMAIN purchase = Purchases /\ DOMAIN given = Payables /\ RowsOK(comp[p], given[p])
 BY DEF Payables, TicketsInv, PurchasesInv, MoneyInv
<1>1. UNCHANGED comp /\ \A a \in Payables \ {p} : given'[a] = given[a] BY <1>0, GivenMoves
<1>2. OnlyAt(p) /\ PayOK(p)' BY <1>0, <1>1, AtRest
<1>3. ASSUME purchase[p].status = "refunded"
      PROVE  Len(comp[p]) \in DOMAIN given'[p] /\ given'[p][Len(comp[p])] = "success"
 <2>1. comp[p][Len(comp[p])] = "succeeded" /\ Len(comp[p]) \in DOMAIN given[p] /\ given[p][Len(comp[p])] = "success"
  BY <1>0, <1>3 DEF PurchaseHead
 <2>2. ~AskRefund(p) BY <2>1 DEF AskRefund, Undecided, Current
 <2>3. PICK k, outcome : k \in DOMAIN given[p] /\ given[p][k] = "processing" /\ given' = [given EXCEPT ![p][k] = outcome]
  BY <2>2 DEF ProviderRefunds
 <2>4. k # Len(comp[p]) BY <2>1, <2>3
 <2> QED BY <1>0, <2>1, <2>3, <2>4
<1>4. PurchaseHead(p)'
 <2>1. purchase'[p] = purchase[p] /\ refund'[p] = refund[p] /\ pay'[p] = pay[p] /\ comp'[p] = comp[p] BY <1>1
 <2> QED BY <1>0, <1>3, <2>1 DEF PurchaseHead
<1>5. QuotasInv' BY <1>0, QuotasFrame
<1> QED BY <1>0, <1>2, <1>4, <1>5, QuietPurchase
----------------------------------------
(* The refund of a purchase. *)

\* The row of a refund moves, what it holds stays.
RefundSet(p, s) ==
    /\ DOMAIN refund' = Purchases /\ \A q \in Purchases \ {p} : refund'[q] = refund[q]
    /\ DOMAIN refund'[p] = RefundFields /\ refund'[p].status = s
    /\ refund'[p].kind = refund[p].kind /\ refund'[p].lot = refund[p].lot /\ refund'[p].alloc = refund[p].alloc
    /\ refund'[p].srcExp = refund[p].srcExp

LEMMA RefundSetStep ==
    ASSUME TicketsInv, NEW p \in Purchases, PurchaseRest, OnlyAt(p), PayOK(p)', UNCHANGED <<lot, book>>,
           NEW s, RefundSet(p, s), s # "succeeded", refund[p].status # "succeeded",
           NEW t, PurchaseSet(p, t), PurchaseHead(p)', QuotasInv'
    PROVE  TicketsInv'
<1>0. PurchasesInv /\ PurchaseLine(p) BY DEF TicketsInv, PurchasesInv
<1>1. SameClaims(p) /\ (refund'[p].alloc = "held" => refund[p].alloc = "held" /\ refund'[p].lot = refund[p].lot)
 BY DEF SameClaims, RefundSet
<1>2. PurchaseMove(p) /\ Issued' = Issued BY <1>1, StillMove DEF PurchaseSet
<1>3. PICK l, k : l = refund[p].lot /\ l = refund'[p].lot /\ k = purchase[p].lot /\ k = purchase'[p].lot
 BY DEF RefundSet, PurchaseSet
<1>4. EverTouched(l)' <=> EverTouched(l) BY DEF EverTouched, PurchaseRest
<1>5. PurchaseLine(p)' BY <1>0, <1>2, <1>3, <1>4 DEF PurchaseLine, RefundSet
<1> QED BY <1>2, <1>5, PurchaseMoveFacts

LEMMA RefundIsSet ==
    ASSUME TicketsInv, NEW p \in Purchases, NEW s, refund' = [refund EXCEPT ![p].status = s] PROVE RefundSet(p, s)
<1>1. DOMAIN refund = Purchases /\ DOMAIN refund[p] = RefundFields
 BY DEF TicketsInv, PurchasesInv, PurchaseHead
<1> QED BY <1>1 DEF RefundSet, RefundFields

LEMMA QuoteRefundStep ==
    ASSUME TicketsInv, NEW p \in Purchases, QuoteRefund(p), UNCHANGED <<pay, trade>>, PurchaseRest PROVE TicketsInv'
<1>0. p \in Payables /\ QuotasInv /\ PurchaseHead(p) /\ DOMAIN refund = Purchases /\ UNCHANGED <<lot, book, purchase, quota, comp, given>>
 BY DEF Payables, TicketsInv, PurchasesInv, QuoteRefund
<1>1. OnlyAt(p) /\ PayOK(p)' BY <1>0, AtRest
<1>2. PICK v, u : refund' = [refund EXCEPT ![p] = [NoRefund EXCEPT !.status = "quoted", !.version = v, !.until = u]]
 BY DEF QuoteRefund
<1>3. PICK R : R = [NoRefund EXCEPT !.status = "quoted", !.version = v, !.until = u] OBVIOUS
<1>4. DOMAIN R = RefundFields /\ R.status = "quoted" /\ R.kind = "none" /\ R.lot = 0 /\ R.alloc = "none" /\ R.srcExp = 0
 BY <1>3 DEF NoRefund, RefundFields
<1>5. refund[p].status = "none" /\ purchase[p].status = "issued" BY DEF QuoteRefund, Eligible
<1>6. refund[p].kind = "none" /\ refund[p].lot = 0 /\ refund[p].alloc = "none" BY <1>0, <1>5 DEF PurchaseHead
<1>7. DOMAIN refund' = Purchases /\ refund'[p] = R /\ \A q \in Purchases \ {p} : refund'[q] = refund[q]
 BY <1>0, <1>2, <1>3
<1>8. SameClaims(p) /\ (refund'[p].alloc = "held" => refund[p].alloc = "held" /\ refund'[p].lot = refund[p].lot)
 BY <1>4, <1>6, <1>7 DEF SameClaims
<1>9. DOMAIN purchase = Purchases /\ PurchaseLine(p) BY DEF TicketsInv, PurchasesInv
<1>10. PurchaseMove(p) /\ Issued' = Issued BY <1>0, <1>1, <1>8, <1>9, StillMove
<1>11. PurchaseLine(p)' BY <1>0, <1>4, <1>6, <1>7, <1>9, <1>10 DEF PurchaseLine
<1>12. PurchaseHead(p)'
 <2>1. purchase'[p] = purchase[p] /\ pay'[p] = pay[p] /\ comp'[p] = comp[p] /\ given'[p] = given[p] BY <1>0
 <2> QED BY <1>0, <1>4, <1>5, <1>6, <1>7, <2>1 DEF PurchaseHead
<1>13. QuotasInv' BY <1>0, QuotasFrame
<1> QED BY <1>1, <1>10, <1>11, <1>12, <1>13, PurchaseMoveFacts

\* The refund goes on.
LEMMA FollowStep ==
    ASSUME TicketsInv, MoneyInv, NEW p \in Purchases, PurchaseRest, comp[p] # <<>>, comp[p][Len(comp[p])] # "succeeded",
           NEW r, RowDone(p, r), r # "succeeded", NEW s, s \notin {"none", "quoted", "succeeded"},
           NEW t \in {"refund_holding", "refund_exception"}, Follow(p, s, t), UNCHANGED <<pay, trade>>
    PROVE  TicketsInv'
<1>0. p \in Payables /\ QuotasInv /\ PurchaseHead(p) /\ UNCHANGED <<lot, book, quota, given>>
 BY DEF Payables, TicketsInv, PurchasesInv, Follow
<1>1. OnlyAt(p) /\ PayOK(p)' BY <1>0, AtRest DEF RowDone
<1>2. purchase[p].status \in {"refund_holding", "refund_exception"}
 BY <1>0, UnpaidBack DEF PurchaseHead, RepaidPurchase
<1>3. RefundSet(p, s) /\ PurchaseSet(p, t) BY RefundIsSet, PurchaseIsSet DEF Follow
<1>4. refund[p].status # "succeeded" /\ refund[p].kind # "none" /\ pay[p].status = "succeeded" /\ purchase[p].owner \in Customers
 BY <1>0, <1>2 DEF PurchaseHead, PaidPurchase, RepaidPurchase
<1>5. PurchaseHead(p)'
 <2>1. /\ DOMAIN purchase'[p] = PurchaseFields /\ purchase'[p].status = t
       /\ purchase'[p].owner = purchase[p].owner /\ purchase'[p].lot = purchase[p].lot
  BY <1>3 DEF PurchaseSet
 <2>2. /\ DOMAIN refund'[p] = RefundFields /\ refund'[p].status = s
       /\ refund'[p].kind = refund[p].kind /\ refund'[p].lot = refund[p].lot /\ refund'[p].alloc = refund[p].alloc
  BY <1>3 DEF RefundSet
 <2>3. comp'[p] # <<>> /\ comp'[p][Len(comp'[p])] # "succeeded" /\ pay'[p] = pay[p] BY DEF RowDone
 <2>4. /\ refund[p].kind \in {"none", "user_unused", "issuance_compensation"}
       /\ (refund[p].kind # "user_unused" => refund[p].lot = 0 /\ refund[p].alloc = "none")
       /\ (refund[p].kind = "issuance_compensation" => purchase[p].lot = 0)
  BY <1>0 DEF PurchaseHead
 <2> QED BY <1>4, <2>1, <2>2, <2>3, <2>4 DEF PurchaseHead, PaidPurchase, RepaidPurchase
<1>6. QuotasInv'
 <2>1. \A q \in Purchases \ {p} : purchase'[q] = purchase[q] /\ pay'[q] = pay[q] BY <1>3 DEF PurchaseSet
 <2>2. (Open(p)' <=> Open(p)) /\ purchase'[p].owner = purchase[p].owner BY <1>2, <1>3 DEF Open, PurchaseSet
 <2> QED BY <1>0, <2>1, <2>2, QuotasSame
<1> QED BY <1>0, <1>1, <1>3, <1>4, <1>5, <1>6, RefundSetStep

LEMMA RefundGoesOn ==
    ASSUME TicketsInv, MoneyInv, NEW p \in Purchases, PurchaseRest, UNCHANGED <<pay, trade>>
    PROVE  /\ (AttemptFailed(p) => TicketsInv')
           /\ \A k \in DOMAIN given[p] : RefundRuns(p, k) \/ AttemptClosed(p, k) \/ AttemptDoubted(p, k) => TicketsInv'
<1>0. p \in Payables /\ PurchaseHead(p) BY DEF Payables, TicketsInv, PurchasesInv
<1>1. ASSUME AttemptFailed(p) PROVE TicketsInv'
 <2>0. PICK r, s : /\ r = IF comp[p][Current(p)] = "creating" THEN "submission_unknown" ELSE comp[p][Current(p)]
                   /\ s = IF comp[p][Current(p)] = "creating" THEN "submission_unknown" ELSE refund[p].status
  OBVIOUS
 <2>1. comp[p][Len(comp[p])] \in Undecided /\ SetRow(p, Current(p), r) /\ Current(p) # 0 /\ Follow(p, s, "refund_holding")
  BY <1>1, <2>0 DEF AttemptFailed, TriedInVain, Current
 <2>2. r # "succeeded" /\ comp[p] # <<>> /\ comp[p][Len(comp[p])] # "succeeded"
  BY <2>0, <2>1 DEF Undecided, Current
 <2>3. RowDone(p, r) BY <1>0, <2>1, <2>2, RowSetFacts
 <2>4. purchase[p].status \in RepaidPurchase /\ purchase[p].status # "refunded"
  BY <1>0, <2>2, UnpaidBack DEF PurchaseHead
 <2>5. s \notin {"none", "quoted", "succeeded"} BY <1>0, <2>0, <2>4 DEF PurchaseHead
 <2> QED BY <2>1, <2>2, <2>3, <2>5, FollowStep
<1>2. ASSUME NEW k \in DOMAIN given[p], RefundRuns(p, k) \/ AttemptClosed(p, k) \/ AttemptDoubted(p, k) PROVE TicketsInv'
 <2>0. comp[p] # <<>> /\ k = Current(p) /\ comp[p][Len(comp[p])] # "succeeded"
  BY <1>0, <1>2, AskedRow DEF RefundRuns, AttemptClosed, AttemptDoubted, RowMoves, Current
 <2>1. CASE RefundRuns(p, k)
  <3>1. SetRow(p, Current(p), "pending") /\ Follow(p, "processing", "refund_holding")
   BY <2>0, <2>1 DEF RefundRuns
  <3>2. RowDone(p, "pending") BY <1>0, <2>0, <3>1, RowSetFacts
  <3> QED BY <2>0, <3>1, <3>2, FollowStep
 <2>2. CASE AttemptClosed(p, k)
  <3>1. Replaced(p, k) /\ Follow(p, "submitting", "refund_holding") BY <2>2 DEF AttemptClosed
  <3>2. RowDone(p, "creating") BY <1>0, <3>1, RowReplacedFacts
  <3> QED BY <2>0, <3>1, <3>2, FollowStep
 <2>3. CASE AttemptDoubted(p, k)
  <3>1. SetRow(p, Current(p), "exception") /\ Follow(p, "exception", "refund_exception")
   BY <2>0, <2>3 DEF AttemptDoubted
  <3>2. RowDone(p, "exception") BY <1>0, <2>0, <3>1, RowSetFacts
  <3> QED BY <2>0, <3>1, <3>2, FollowStep
 <2> QED BY <1>2, <2>1, <2>2, <2>3
<1> QED BY <1>1, <1>2

\* The whole lot is held for the refund.
HeldForIt(p, l) ==
    /\ DOMAIN refund' = Purchases /\ \A q \in Purchases \ {p} : refund'[q] = refund[q]
    /\ DOMAIN refund'[p] = RefundFields /\ refund'[p].status = "holding" /\ refund'[p].kind = "user_unused"
    /\ refund'[p].lot = l /\ refund'[p].alloc = "held" /\ refund'[p].srcExp = lot[l].exp

\* The row of the attempt is drawn up.
LEMMA AttemptDrawnUp ==
    ASSUME TicketsInv, MoneyInv, NEW p \in Purchases, comp' = [comp EXCEPT ![p] = <<"creating">>]
    PROVE  /\ comp'[p] # <<>> /\ comp'[p][Len(comp'[p])] # "succeeded"
           /\ \A a \in Payables \ {p} : comp'[a] = comp[a]
<1>0. p \in Payables BY DEF Payables
<1>1. DOMAIN comp = Payables /\ p \in Payables BY <1>0 DEF MoneyInv
<1>2. comp'[p] = <<"creating">> /\ \A a \in Payables \ {p} : comp'[a] = comp[a] BY <1>1
<1>3. Len(<<"creating">>) = 1 /\ <<"creating">>[1] = "creating" /\ <<"creating">> # <<>> OBVIOUS
<1> QED BY <1>2, <1>3

\* A lot of another purchase is another lot.
LEMMA OtherRefund ==
    ASSUME TicketsInv, NEW p \in Purchases, NEW q \in Purchases \ {p}, refund[q].kind = "user_unused"
    PROVE  refund[q].lot \in Issued /\ (purchase[p].lot # 0 => refund[q].lot # purchase[p].lot)
<1>1. PurchaseLine(p) /\ PurchaseLine(q) BY DEF TicketsInv, PurchasesInv
<1>2. refund[q].lot \in Issued /\ lot[refund[q].lot].from = <<q>> BY <1>1 DEF PurchaseLine
<1>3. purchase[p].lot # 0 => lot[purchase[p].lot].from = <<p>> BY <1>1 DEF PurchaseLine
<1>4. <<p>> # <<q>> BY <1>2
<1> QED BY <1>2, <1>3, <1>4

\* A debit, as one fact.
DebitedAs(acc, D, claims, type, biz, q, m) ==
    /\ Next1(acc, D, claims + q, type, biz, -q) /\ D.lot.avail = acc.lot.avail - q
    /\ D.lot.status = (IF q = acc.lot.avail THEN "depleted" ELSE "active") /\ D.lot.used = (acc.lot.used \/ m)

LEMMA DebitIs ==
    ASSUME NEW acc, NEW claims \in Nat, AccountOK(acc, claims), NEW type, type # "expiry", NEW biz,
           NEW q \in Nat, q > 0, q <= acc.lot.avail, NEW m \in BOOLEAN
    PROVE  DebitedAs(acc, Debit(acc, type, biz, q, m), claims, type, biz, q, m)
<1>1. /\ Next1(acc, Debit(acc, type, biz, q, m), claims + q, type, biz, -q)
      /\ Debit(acc, type, biz, q, m).lot.avail = acc.lot.avail - q
      /\ Debit(acc, type, biz, q, m).lot.status = (IF q = acc.lot.avail THEN "depleted" ELSE "active")
      /\ Debit(acc, type, biz, q, m).lot.used = (acc.lot.used \/ m)
 BY DebitFacts
<1> QED BY <1>1, Zenon DEF DebitedAs

LEMMA CreateRefundStep ==
    ASSUME TicketsInv, MoneyInv, NEW p \in Purchases, CreateRefund(p), UNCHANGED <<pay, trade>>, PurchaseRest
    PROVE  TicketsInv'
<1>0. /\ LotsInv /\ GiftsInv /\ RedemptionsInv /\ PurchasesInv /\ QuotasInv /\ PurchaseHead(p) /\ PurchaseLine(p)
      /\ p \in Payables /\ DOMAIN refund = Purchases
 BY DEF TicketsInv, PurchasesInv, Payables
<1>1. PICK l : l = purchase[p].lot OBVIOUS
<1>2. /\ refund[p].status = "quoted" /\ purchase[p].status = "issued" /\ lot[l].owner = purchase[p].owner
      /\ lot[l].avail = lot[l].total /\ ~lot[l].used /\ ~EverTouched(l) /\ ~HeldFor(l)
 BY <1>1 DEF CreateRefund, Eligible
<1>3. /\ Save([k \in {l} |-> Debit(Account(l), "refund_hold", p, lot[l].total, FALSE)])
      /\ SetPurchase(p, "refund_holding") /\ comp' = [comp EXCEPT ![p] = <<"creating">>] /\ UNCHANGED <<quota, given>>
 BY <1>1 DEF CreateRefund
<1>4. HeldForIt(p, l)
 <2>1. PICK e : e = lot[l].exp OBVIOUS
 <2>2. refund' = [refund EXCEPT ![p] =
         [refund[p] EXCEPT !.status = "holding", !.kind = "user_unused", !.lot = l, !.alloc = "held", !.srcExp = e]]
  BY <1>1, <2>1 DEF CreateRefund
 <2>3. PICK R : R = [refund[p] EXCEPT !.status = "holding", !.kind = "user_unused", !.lot = l, !.alloc = "held", !.srcExp = e]
  OBVIOUS
 <2>4. DOMAIN refund[p] = RefundFields BY <1>0 DEF PurchaseHead
 <2>5. /\ DOMAIN R = RefundFields /\ R.status = "holding" /\ R.kind = "user_unused" /\ R.lot = l /\ R.alloc = "held" /\ R.srcExp = e
  BY <2>3, <2>4 DEF RefundFields
 <2>6. DOMAIN refund' = Purchases /\ refund'[p] = R /\ \A q \in Purchases \ {p} : refund'[q] = refund[q]
  BY <1>0, <2>2, <2>3
 <2> QED BY <2>1, <2>5, <2>6 DEF HeldForIt
<1>5. /\ l # 0 /\ l \in Issued /\ lot[l].total = Bottles /\ lot[l].from = <<p>>
      /\ refund[p].kind = "none" /\ refund[p].lot = 0 /\ refund[p].alloc = "none"
      /\ NoneIn(book[l], "refund_hold", p) /\ pay[p].status = "succeeded" /\ purchase[p].owner \in Customers
 <2>1. l # 0 /\ refund[p].kind = "none" /\ pay[p].status = "succeeded" /\ purchase[p].owner \in Customers
  BY <1>0, <1>1, <1>2 DEF PurchaseHead, PaidPurchase
 <2>2. refund[p].lot = 0 /\ refund[p].alloc = "none" BY <1>0, <2>1 DEF PurchaseHead
 <2>3. l \in Issued /\ lot[l].total = Bottles /\ lot[l].from = <<p>> BY <1>0, <1>1, <2>1 DEF PurchaseLine
 <2>4. l \in Lots BY <2>3 DEF Issued
 <2>5. NoneIn(book[l], "refund_hold", p) BY <1>0, <2>1, <2>4 DEF PurchaseLine
 <2> QED BY <2>1, <2>2, <2>3, <2>5
<1>6. /\ l \in Lots /\ IsLot(lot[l]) /\ AccountOK(Account(l), ClaimsOn(l, Taken))
      /\ Account(l).lot = lot[l] /\ Account(l).rows = book[l] /\ ClaimsOn(l, Taken) \in Nat
 BY <1>0, <1>5, IssuedLot, Claimed0 DEF LotsInv
<1>7. PICK D : D = Debit(Account(l), "refund_hold", p, Bottles, FALSE) OBVIOUS
<1>8. /\ Next1(Account(l), D, ClaimsOn(l, Taken) + Bottles, "refund_hold", p, -Bottles)
      /\ D.lot.avail = 0 /\ D.lot.status = "depleted" /\ D.lot.used = FALSE
 <2>1. Bottles \in Nat /\ Bottles > 0 /\ Bottles <= Account(l).lot.avail /\ lot[l].avail = Bottles
  BY <1>2, <1>5, <1>6, PurchaseAssumption
 <2>2. PICK acc : acc = Account(l) OBVIOUS
 <2>3. PICK claims \in Nat : claims = ClaimsOn(l, Taken) BY <1>6
 <2>4. PICK n \in Nat : n = Bottles BY <2>1
 <2>5. PICK m, t : m = FALSE /\ t = "refund_hold" OBVIOUS
 <2>6. D = Debit(acc, t, p, n, m) BY <1>7, <2>2, <2>4, <2>5, Zenon
 <2>7. /\ Next1(acc, D, claims + n, t, p, -n) /\ D.lot.avail = acc.lot.avail - n
       /\ D.lot.status = (IF n = acc.lot.avail THEN "depleted" ELSE "active") /\ D.lot.used = (acc.lot.used \/ m)
  <3>1. t # "expiry" /\ AccountOK(acc, claims) /\ n > 0 /\ n <= acc.lot.avail /\ m \in BOOLEAN
   BY <1>6, <2>1, <2>2, <2>3, <2>4, <2>5
  <3>2. DebitedAs(acc, D, claims, t, p, n, m) BY <2>6, <3>1, DebitIs, Zenon
  <3> QED BY <3>2, Zenon DEF DebitedAs
 <2>8. Next1(Account(l), D, ClaimsOn(l, Taken) + Bottles, "refund_hold", p, -Bottles)
  BY <2>2, <2>3, <2>4, <2>5, <2>7, Zenon
 <2>9. D.lot.avail = lot[l].avail - Bottles /\ D.lot.status = (IF Bottles = lot[l].avail THEN "depleted" ELSE "active")
  BY <1>6, <2>2, <2>4, <2>7
 <2>10. D.lot.used = (lot[l].used \/ m) BY <1>6, <2>2, <2>7, Zenon
 <2>11. D.lot.used = FALSE BY <1>2, <2>5, <2>10
 <2>12. D.lot.avail = 0 BY <2>1, <2>9
 <2> QED BY <2>1, <2>8, <2>9, <2>11, <2>12
<1>9. /\ DOMAIN lot' = Lots /\ DOMAIN book' = Lots /\ lot'[l] = D.lot /\ book'[l] = D.rows
      /\ Account(l)'.lot = D.lot /\ Account(l)'.rows = D.rows
      /\ \A k \in Lots \ {l} : lot'[k] = lot[k] /\ book'[k] = book[k]
 <2>1. PICK accs : accs = [k \in {l} |-> D] OBVIOUS
 <2>2. accs = [k \in {l} |-> Debit(Account(l), "refund_hold", p, lot[l].total, FALSE)] BY <1>5, <1>7, <2>1
 <2>3. Save(accs) BY <1>3, <2>2
 <2>4. DOMAIN accs = {l} /\ accs[l] = D BY <2>1
 <2>5. DOMAIN accs \subseteq Lots BY <1>6, <2>4
 <2> QED BY <2>3, <2>4, <2>5, SaveFacts
<1>10. /\ SameLot(lot[l], lot'[l]) /\ lot'[l].version > lot[l].version /\ lot'[l].exp = lot[l].exp
       /\ Added(book[l], book'[l], "refund_hold", p, -Bottles)
 BY <1>6, <1>8, <1>9 DEF Next1
<1>11. lot'[l].total = lot[l].total /\ lot'[l] # lot[l] /\ lot'[l].from = lot[l].from
 BY <1>6, <1>10 DEF SameLot, IsLot
<1>r. UNCHANGED <<gift, redemption>> /\ \A q \in Purchases \ {p} : refund'[q] = refund[q]
 BY <1>4 DEF PurchaseRest, HeldForIt
<1>12. ASSUME NEW k \in Lots
       PROVE  ClaimsOn(k, Taken)' = ClaimsOn(k, Taken) + (IF k = l THEN Bottles ELSE 0) /\ ClaimsOn(k, Taken) \in Nat
 <2>1. OfRefund(k, p, Taken) = 0 BY <1>5 DEF OfRefund, Taken
 <2>2. OfRefund(k, p, Taken)' = IF k = l THEN Bottles ELSE 0
  BY <1>4, <1>5, <1>11 DEF OfRefund, Taken, HeldForIt
 <2>3. OfRefund(k, p, Taken)' \in Nat BY <2>2, PurchaseAssumption
 <2>4. k \in Issued => lot'[k].total = lot[k].total BY <1>9, <1>11
 <2>5. /\ ClaimsOn(k, Taken)' = ClaimsOn(k, Taken) - OfRefund(k, p, Taken) + OfRefund(k, p, Taken)'
       /\ ClaimsOn(k, Taken) \in Nat
  BY <1>0, <1>r, <2>3, <2>4, RefundClaims
 <2> QED BY <2>1, <2>2, <2>5, PurchaseAssumption
<1>13. LotMoves(l, PurchaseTypes, p)
 <2>1. PICK claims : claims = ClaimsOn(l, Taken) + Bottles OBVIOUS
 <2>2. ClaimsOn(l, Taken)' = claims /\ Next1(Account(l), D, claims, "refund_hold", p, -Bottles)
  BY <1>6, <1>8, <1>12, <2>1
 <2>3. "refund_hold" \in PurchaseTypes /\ (D.lot.status = "expired" => D.lot.exp <= now)
  BY <1>8 DEF PurchaseTypes
 <2> QED BY <1>9, <2>2, <2>3, SavedMoves
<1>14. \A k \in Lots \ {l} : LotStays(k)
 <2> SUFFICES ASSUME NEW k \in Lots \ {l} PROVE LotStays(k)
  OBVIOUS
 <2>1. ClaimsOn(k, Taken)' = ClaimsOn(k, Taken) BY <1>12
 <2> QED BY <1>9, <2>1 DEF LotStays
<1>15. AccountsMove(PurchaseTypes, p) BY <1>5, <1>9, <1>13, <1>14 DEF AccountsMove, Issued
<1>16. OnlyAt(p) /\ PayOK(p)' /\ comp'[p] # <<>> /\ comp'[p][Len(comp'[p])] # "succeeded"
 <2>1. comp'[p] # <<>> /\ comp'[p][Len(comp'[p])] # "succeeded" /\ \A a \in Payables \ {p} : comp'[a] = comp[a]
  BY <1>3, AttemptDrawnUp
 <2>2. \A a \in Payables \ {p} : comp'[a] = comp[a] /\ given'[a] = given[a] BY <1>3, <2>1
 <2> QED BY <1>0, <2>1, <2>2, AtRest
<1>17. PurchaseSet(p, "refund_holding") BY <1>3, PurchaseIsSet
<1>18. PurchaseMove(p)
 <2>1. Issued' \ Issued = {} BY <1>5, <1>9 DEF Issued
 <2>2. \A q \in Purchases \ {p} : refund[q].kind = "user_unused" => lot'[refund[q].lot] = lot[refund[q].lot]
  <3> SUFFICES ASSUME NEW q \in Purchases \ {p}, refund[q].kind = "user_unused" PROVE lot'[refund[q].lot] = lot[refund[q].lot]
   OBVIOUS
  <3>1. refund[q].lot \in Issued /\ refund[q].lot # l BY <1>1, <1>5, OtherRefund
  <3> QED BY <1>9, <3>1 DEF Issued
 <2>3. \A k \in Issued : ~(lot'[k] = lot[k] /\ refund'[p].lot = k) BY <1>4, <1>11 DEF HeldForIt
 <2> QED BY <1>4, <1>15, <1>16, <1>17, <2>1, <2>2, <2>3 DEF PurchaseMove, PurchaseSet, HeldForIt
<1>19. LotsKept /\ RowsKept(PurchaseTypes, p) /\ (PurchaseHead(p)' /\ PurchaseLine(p)' /\ PayOK(p)' /\ QuotasInv' => TicketsInv')
 BY <1>18, PurchaseMoveFacts
<1>20. PurchaseHead(p)'
 <2>1. /\ DOMAIN purchase'[p] = PurchaseFields /\ purchase'[p].status = "refund_holding"
       /\ purchase'[p].owner = purchase[p].owner /\ purchase'[p].lot = l
  BY <1>1, <1>17 DEF PurchaseSet
 <2>2. /\ DOMAIN refund'[p] = RefundFields /\ refund'[p].status = "holding" /\ refund'[p].kind = "user_unused"
  BY <1>4 DEF HeldForIt
 <2>3. pay'[p] = pay[p] OBVIOUS
 <2> QED BY <1>5, <1>16, <2>1, <2>2, <2>3 DEF PurchaseHead, PaidPurchase, RepaidPurchase
<1>21. PurchaseLine(p)'
 <2>1. purchase'[p].lot = l BY <1>1, <1>17 DEF PurchaseSet
 <2>2. /\ refund'[p].status = "holding" /\ refund'[p].kind = "user_unused" /\ refund'[p].lot = l
       /\ refund'[p].alloc = "held" /\ refund'[p].srcExp = lot[l].exp
  BY <1>4 DEF HeldForIt
 <2>3. l \in Issued' /\ lot'[l].from = <<p>> /\ lot'[l].total = Bottles BY <1>5, <1>11, <1>19 DEF LotsKept
 <2>4. OneIn(book'[l], "purchase_issue", p, Bottles)
  <3>1. OneIn(book[l], "purchase_issue", p, Bottles) BY <1>0, <1>1, <1>5 DEF PurchaseLine
  <3> QED BY <1>10, <3>1 DEF Added
 <2>5. OneIn(book'[l], "refund_hold", p, -Bottles) BY <1>5, <1>10 DEF Added
 <2>6. \A k \in Issued' : lot'[k].from = <<p>> => k = l
  <3>1. \A k \in Issued : lot[k].from = <<p>> => k = l BY <1>0, <1>1 DEF PurchaseLine
  <3> QED BY <1>9, <3>1 DEF Issued
 <2>7. ~EverTouched(l)' BY <1>2 DEF EverTouched, PurchaseRest
 <2>8. /\ lot'[l].used = FALSE /\ lot'[l].avail = 0 /\ lot'[l].status = "depleted" /\ lot'[l].exp = lot[l].exp
  BY <1>8, <1>9, <1>10
 <2>9. PICK k : k = l /\ k = refund'[p].lot /\ k = purchase'[p].lot BY <2>1, <2>2
 <2> QED BY <1>5, <2>1, <2>2, <2>3, <2>4, <2>5, <2>6, <2>7, <2>8, <2>9 DEF PurchaseLine
<1>22. QuotasInv'
 <2>1. \A q \in Purchases \ {p} : purchase'[q] = purchase[q] /\ pay'[q] = pay[q] BY <1>17 DEF PurchaseSet
 <2>2. (Open(p)' <=> Open(p)) /\ purchase'[p].owner = purchase[p].owner BY <1>2, <1>17 DEF Open, PurchaseSet
 <2> QED BY <1>0, <1>3, <2>1, <2>2, QuotasSame
<1> QED BY <1>16, <1>19, <1>20, <1>21, <1>22
\* The lot of a refund is closed.
LEMMA ClosedLot ==
    ASSUME TicketsInv, NEW p \in Purchases, PurchaseRest, UNCHANGED book, SameClaims(p), NEW l \in Issued, lot[l].avail = 0,
           lot' = [lot EXCEPT ![l].status = "refunded", ![l].version = @ + 1]
    PROVE  /\ AccountsMove(PurchaseTypes, p) /\ Issued' \subseteq Issued /\ \A k \in Lots \ {l} : lot'[k] = lot[k]
           /\ lot'[l].status = "refunded" /\ lot'[l].total = lot[l].total /\ lot'[l].avail = lot[l].avail
           /\ lot'[l].from = lot[l].from /\ lot'[l].used = lot[l].used /\ lot'[l].exp = lot[l].exp
<1>0. LotsInv BY DEF TicketsInv
<1>1. DOMAIN lot = Lots /\ DOMAIN book = Lots /\ l \in Lots /\ Issued \subseteq Lots
 BY <1>0 DEF LotsInv, Issued
<1>2. /\ AccountOK(Account(l), ClaimsOn(l, Taken)) /\ IsLot(lot[l])
      /\ Account(l) = [lot |-> lot[l], rows |-> book[l]] /\ Account(l).lot = lot[l] /\ Account(l).rows = book[l]
 BY <1>0, IssuedLot DEF LotsInv
<1>3. PICK v : v = lot[l].version + 1 OBVIOUS
<1>4. lot' = [lot EXCEPT ![l].status = "refunded", ![l].version = v] BY <1>1, <1>3
<1>5. /\ DOMAIN lot' = Lots /\ \A k \in Lots \ {l} : lot'[k] = lot[k]
      /\ DOMAIN lot'[l] = LotFields /\ lot'[l].version = v /\ lot'[l].status = "refunded"
      /\ \A f \in LotFields \ {"status", "version"} : lot'[l][f] = lot[l][f]
 BY <1>1, <1>2, <1>4 DEF IsLot, LotFields
<1>6. /\ lot'[l].used = lot[l].used /\ lot'[l].total = lot[l].total /\ lot'[l].avail = lot[l].avail
      /\ lot'[l].owner = lot[l].owner /\ lot'[l].orig = lot[l].orig /\ lot'[l].exp = lot[l].exp
      /\ lot'[l].renewals = lot[l].renewals /\ lot'[l].from = lot[l].from
 BY <1>5 DEF LotFields
<1>7. v \in Nat /\ v > lot[l].version BY <1>2, <1>3 DEF IsLot
<1>8. UNCHANGED <<gift, redemption>> BY DEF PurchaseRest
<1>9. \A k \in Lots : ClaimsOn(k, Taken)' = ClaimsOn(k, Taken)
 <2> SUFFICES ASSUME NEW k \in Lots PROVE ClaimsOn(k, Taken)' = ClaimsOn(k, Taken)
  OBVIOUS
 <2>1. lot'[k].total = lot[k].total BY <1>5, <1>6
 <2> QED BY <1>8, <2>1, SameClaimsFacts
<1>10. \A k \in Lots \ {l} : LotStays(k) BY <1>5, <1>9 DEF LotStays
<1>11. LotMoves(l, PurchaseTypes, p)
 <2>1. Account(l)'.lot = lot'[l] /\ Account(l)'.rows = book[l] BY DEF Account
 <2>2. IsLot(lot'[l]) BY <1>2, <1>5, <1>6, <1>7 DEF IsLot
 <2>3. AccountOK(Account(l)', ClaimsOn(l, Taken)') BY <1>1, <1>2, <1>5, <1>6, <1>9, <2>1, <2>2 DEF AccountOK
 <2>4. Added(book[l], book[l], "expiry", 0, 0) BY DEF Added
 <2>5. Next1(Account(l), Account(l)', ClaimsOn(l, Taken)', "expiry", 0, 0)
  BY <1>2, <1>5, <1>6, <1>7, <2>1, <2>3, <2>4 DEF Next1, SameLot
 <2>6. lot'[l].status # "expired" BY <1>5
 <2> QED BY <2>5, <2>6 DEF LotMoves
<1>12. AccountsMove(PurchaseTypes, p) BY <1>1, <1>5, <1>10, <1>11 DEF AccountsMove
<1>13. Issued' \subseteq Issued BY <1>1, <1>5 DEF Issued
<1> QED BY <1>5, <1>6, <1>12, <1>13

\* The refund has come to its end.
RefundEnded(p, alloc) ==
    /\ DOMAIN refund' = Purchases /\ \A q \in Purchases \ {p} : refund'[q] = refund[q]
    /\ DOMAIN refund'[p] = RefundFields /\ refund'[p].status = "succeeded"
    /\ refund'[p].kind = refund[p].kind /\ refund'[p].lot = refund[p].lot /\ refund'[p].alloc = alloc
    /\ refund'[p].srcExp = refund[p].srcExp

LEMMA TicketsRefundedStep ==
    ASSUME TicketsInv, MoneyInv, NEW p \in Purchases, NEW k \in DOMAIN given[p], TicketsRefunded(p, k), UNCHANGED <<pay, trade>>, PurchaseRest
    PROVE  TicketsInv'
<1>0. /\ LotsInv /\ PurchasesInv /\ QuotasInv /\ PurchaseHead(p) /\ PurchaseLine(p) /\ p \in Payables
      /\ DOMAIN refund = Purchases /\ DOMAIN refund[p] = RefundFields
 BY DEF TicketsInv, PurchasesInv, Payables, PurchaseHead
<1>1. /\ k = Current(p) /\ given[p][k] = "success" /\ SetRow(p, k, "succeeded")
      /\ SetPurchase(p, "refunded") /\ UNCHANGED <<book, quota, given>>
 BY DEF TicketsRefunded
<1>2. comp[p] # <<>> /\ comp[p][Len(comp[p])] # "succeeded" /\ k = Len(comp[p])
 BY <1>0, AskedRow DEF TicketsRefunded, RowMoves, Current
<1>3. RowDone(p, "succeeded") /\ Len(comp'[p]) = Len(comp[p]) BY <1>0, <1>1, <1>2, RowSetFacts
<1>4. PurchaseSet(p, "refunded") BY <1>1, PurchaseIsSet
<1>5. OnlyAt(p) /\ PayOK(p)' BY <1>0, <1>1, <1>3, AtRest DEF RowDone
<1>6. purchase[p].status \in {"refund_holding", "refund_exception"}
 BY <1>0, <1>2, UnpaidBack DEF PurchaseHead, RepaidPurchase
<1>7. /\ refund[p].status # "succeeded" /\ refund[p].kind \in {"user_unused", "issuance_compensation"}
      /\ pay[p].status = "succeeded" /\ purchase[p].owner \in Customers
      /\ (refund[p].kind # "user_unused" => refund[p].lot = 0 /\ refund[p].alloc = "none" /\ purchase[p].lot = 0)
 BY <1>0, <1>6 DEF PurchaseHead, PaidPurchase, RepaidPurchase
<1>8. QuotasInv'
 <2>1. \A q \in Purchases \ {p} : purchase'[q] = purchase[q] /\ pay'[q] = pay[q] BY <1>4 DEF PurchaseSet
 <2>2. (Open(p)' <=> Open(p)) /\ purchase'[p].owner = purchase[p].owner BY <1>4, <1>6 DEF Open, PurchaseSet
 <2> QED BY <1>0, <1>1, <2>1, <2>2, QuotasSame
<1>9. ASSUME NEW alloc, RefundEnded(p, alloc), refund[p].kind # "user_unused" => alloc = "none" PROVE PurchaseHead(p)'
 <2>1. /\ DOMAIN purchase'[p] = PurchaseFields /\ purchase'[p].status = "refunded"
       /\ purchase'[p].owner = purchase[p].owner /\ purchase'[p].lot = purchase[p].lot
  BY <1>4 DEF PurchaseSet
 <2>2. /\ DOMAIN refund'[p] = RefundFields /\ refund'[p].status = "succeeded" /\ refund'[p].kind = refund[p].kind
       /\ refund'[p].lot = refund[p].lot /\ refund'[p].alloc = alloc
  BY <1>9 DEF RefundEnded
 <2>3. /\ comp'[p] # <<>> /\ comp'[p][Len(comp'[p])] = "succeeded" /\ Len(comp'[p]) = k
       /\ pay'[p] = pay[p] /\ given'[p] = given[p]
  BY <1>1, <1>2, <1>3 DEF RowDone
 <2> QED BY <1>1, <1>7, <1>9, <2>1, <2>2, <2>3 DEF PurchaseHead, PaidPurchase, RepaidPurchase
<1>10. CASE refund[p].kind = "user_unused"
 <2>1. PICK l : l = refund[p].lot /\ l = purchase[p].lot BY <1>0, <1>10 DEF PurchaseLine
 <2>2. /\ l # 0 /\ l \in Issued /\ lot[l].avail = 0 /\ ~lot[l].used /\ ~EverTouched(l) /\ refund[p].alloc = "held"
       /\ lot[l].from = <<p>> /\ lot[l].total = Bottles /\ lot[l].exp = refund[p].srcExp
       /\ OneIn(book[l], "purchase_issue", p, Bottles) /\ OneIn(book[l], "refund_hold", p, -Bottles)
  BY <1>0, <1>7, <1>10, <2>1 DEF PurchaseLine
 <2>3. RefundEnded(p, "consumed")
  <3>1. refund' = [refund EXCEPT ![p].status = "succeeded", ![p].alloc = "consumed"]
   BY <1>10 DEF TicketsRefunded
  <3> QED BY <1>0, <3>1 DEF RefundEnded, RefundFields
 <2>4. SameClaims(p) BY <2>2, <2>3 DEF SameClaims, RefundEnded, Taken
 <2>5. lot' = [lot EXCEPT ![l].status = "refunded", ![l].version = @ + 1] BY <1>10, <2>1 DEF TicketsRefunded
 <2>6. /\ AccountsMove(PurchaseTypes, p) /\ Issued' \subseteq Issued /\ \A j \in Lots \ {l} : lot'[j] = lot[j]
       /\ lot'[l].status = "refunded" /\ lot'[l].total = lot[l].total /\ lot'[l].avail = lot[l].avail
       /\ lot'[l].from = lot[l].from /\ lot'[l].used = lot[l].used /\ lot'[l].exp = lot[l].exp
  BY <1>1, <2>2, <2>4, <2>5, ClosedLot
 <2>7. PurchaseMove(p)
  <3>1. \A q \in Purchases \ {p} : refund[q].kind = "user_unused" => lot'[refund[q].lot] = lot[refund[q].lot]
   <4> SUFFICES ASSUME NEW q \in Purchases \ {p}, refund[q].kind = "user_unused" PROVE lot'[refund[q].lot] = lot[refund[q].lot]
    OBVIOUS
   <4>1. refund[q].lot \in Issued /\ refund[q].lot # l BY <2>1, <2>2, OtherRefund
   <4> QED BY <2>6, <4>1 DEF Issued
  <3>2. refund'[p].alloc # "held" BY <2>3 DEF RefundEnded
  <3> QED BY <1>4, <1>5, <2>3, <2>6, <3>1, <3>2 DEF PurchaseMove, PurchaseSet, RefundEnded
 <2>8. LotsKept /\ (PurchaseHead(p)' /\ PurchaseLine(p)' /\ PayOK(p)' /\ QuotasInv' => TicketsInv')
  BY <2>7, PurchaseMoveFacts
 <2>9. PurchaseLine(p)'
  <3>1. purchase'[p].lot = l BY <1>4, <2>1 DEF PurchaseSet
  <3>2. /\ refund'[p].status = "succeeded" /\ refund'[p].kind = "user_unused" /\ refund'[p].lot = l
        /\ refund'[p].alloc = "consumed" /\ refund'[p].srcExp = refund[p].srcExp
   BY <1>10, <2>1, <2>3 DEF RefundEnded
  <3>3. l \in Issued' BY <2>2, <2>8 DEF LotsKept
  <3>4. \A j \in Issued' : lot'[j].from = <<p>> => j = l
   <4>1. \A j \in Issued : lot[j].from = <<p>> => j = l BY <1>0, <2>1 DEF PurchaseLine
   <4> QED BY <2>6, <4>1 DEF Issued
  <3>5. ~EverTouched(l)' BY <2>2 DEF EverTouched, PurchaseRest
  <3>6. book'[l] = book[l] BY <1>1
  <3>7. PICK j : j = l /\ j = refund'[p].lot /\ j = purchase'[p].lot BY <3>1, <3>2
  <3> QED BY <2>2, <2>6, <3>1, <3>2, <3>3, <3>4, <3>5, <3>6, <3>7 DEF PurchaseLine
 <2>10. PurchaseHead(p)' BY <1>9, <1>10, <2>3
 <2> QED BY <1>5, <1>8, <2>8, <2>9, <2>10
<1>11. CASE refund[p].kind # "user_unused"
 <2>1. refund' = [refund EXCEPT ![p].status = "succeeded"] /\ UNCHANGED lot BY <1>11 DEF TicketsRefunded
 <2>2. RefundEnded(p, "none") BY <1>0, <1>7, <1>11, <2>1 DEF RefundEnded, RefundFields
 <2>3. SameClaims(p) /\ refund'[p].alloc # "held" BY <1>7, <1>11, <2>2 DEF SameClaims, RefundEnded
 <2>4. PurchaseMove(p) /\ Issued' = Issued BY <1>1, <1>4, <1>5, <2>1, <2>3, StillMove DEF PurchaseSet
 <2>5. PurchaseLine(p)'
  <3>1. purchase'[p].lot = purchase[p].lot /\ refund'[p].kind = refund[p].kind
   BY <1>4, <2>2 DEF PurchaseSet, RefundEnded
  <3> QED BY <1>0, <1>1, <1>7, <1>11, <2>1, <2>4, <3>1 DEF PurchaseLine
 <2>6. PurchaseHead(p)' BY <1>9, <2>2
 <2> QED BY <1>5, <1>8, <2>4, <2>5, <2>6, PurchaseMoveFacts
<1> QED BY <1>10, <1>11

LEMMA LeastOf ==
    ASSUME NEW S, S \subseteq Nat, S # {}
    PROVE  Min(S) \in S
<1> DEFINE less == {q \in Nat \X Nat : q[1] < q[2]}
<1>1. IsWellFoundedOn(less, Nat) BY NatLessThanWellFounded DEF OpToRel
<1> HIDE DEF less
<1>2. PICK x \in S : \A y \in S : ~(<<y, x>> \in less) BY <1>1, WFMin
<1>3. ASSUME NEW y \in S
      PROVE  x <= y
 <2>1. x \in Nat /\ y \in Nat /\ <<y, x>> \in Nat \X Nat OBVIOUS
 <2>2. ~(y < x) BY <1>2, <2>1 DEF less
 <2> QED BY <2>1, <2>2
<1> QED BY <1>3 DEF Min

\* A purchase that is paid for.
PaidNow(p) ==
    /\ purchase[p].status \in OpenStatuses /\ purchase[p].owner \in Customers /\ purchase[p].lot = 0
    /\ refund[p].kind = "none" /\ refund[p].alloc = "none" /\ refund[p].lot = 0 /\ refund[p].status \in {"none", "quoted"}
    /\ pay[p].status # "succeeded" /\ pay'[p].status = "succeeded"
    /\ quota' = Consumed(purchase[p].owner) /\ ReportDone(p, "succeeded") /\ UNCHANGED <<trade, given>>

LEMMA PaidNowFacts ==
    ASSUME TicketsInv, NEW p \in Purchases, PurchasePaid(p) PROVE PaidNow(p)
<1>0. p \in Payables /\ PaysInv /\ PurchaseHead(p) /\ ReportSuccess(p) /\ Open(p)
 BY DEF Payables, TicketsInv, PurchasesInv, PurchasePaid
<1>1. purchase[p].status \in OpenStatuses /\ purchase[p].status \notin PaidPurchase /\ purchase[p].status \notin RepaidPurchase
      /\ purchase[p].status # "none"
 BY <1>0 DEF Open, OpenStatuses, PaidPurchase, RepaidPurchase
<1>2. ReportDone(p, "succeeded") /\ pay'[p].status = "succeeded" BY <1>0, ReportFacts DEF ReportDone
<1>3. pay[p].status # "succeeded" /\ purchase[p].lot = 0 /\ purchase[p].owner \in Customers
 BY <1>0, <1>1 DEF PurchaseHead
<1>4. refund[p].kind = "none" /\ refund[p].alloc = "none" /\ refund[p].lot = 0 /\ refund[p].status \in {"none", "quoted"}
 BY <1>0, <1>1 DEF PurchaseHead
<1>5. quota' = Consumed(purchase[p].owner) /\ UNCHANGED <<trade, given>> BY DEF PurchasePaid
<1> QED BY <1>1, <1>2, <1>3, <1>4, <1>5 DEF PaidNow

\* The row of a purchase after its payment.
PurchaseIs(p, s, l) ==
    /\ DOMAIN purchase' = Purchases /\ \A q \in Purchases \ {p} : purchase'[q] = purchase[q]
    /\ DOMAIN purchase'[p] = PurchaseFields /\ purchase'[p].status = s
    /\ purchase'[p].owner = purchase[p].owner /\ purchase'[p].lot = l

LEMMA PaidQuota ==
    ASSUME TicketsInv, NEW p \in Purchases, PaidNow(p), NEW s \in PaidPurchase, NEW l, PurchaseIs(p, s, l)
    PROVE  QuotasInv'
<1>1. PICK c \in Customers : c = purchase[p].owner BY DEF PaidNow
<1>2. \A q \in Purchases \ {p} : purchase'[q] = purchase[q] /\ pay'[q] = pay[q]
 BY DEF PurchaseIs, PaidNow, ReportDone, Payables
<1>3. Open(p) /\ ~Open(p)' BY DEF PaidNow, PurchaseIs, Open, OpenStatuses, PaidPurchase
<1>4. /\ quota' = Consumed(c) /\ pay[p].status # "succeeded" /\ pay'[p].status = "succeeded"
      /\ purchase[p].owner = c /\ purchase'[p].owner = c
 BY <1>1 DEF PaidNow, PurchaseIs
<1>5. QuotasInv BY DEF TicketsInv
<1> QED BY <1>2, <1>3, <1>4, <1>5, QuotaConsumed

LEMMA CompensateStep ==
    ASSUME TicketsInv, MoneyInv, NEW p \in Purchases, PaidNow(p), NEW at, CompensateIssuance(p, at), PurchaseRest
    PROVE  TicketsInv'
<1>0. /\ PurchaseHead(p) /\ PurchaseLine(p) /\ p \in Payables /\ DOMAIN refund = Purchases /\ DOMAIN purchase = Purchases
      /\ DOMAIN purchase[p] = PurchaseFields
 BY DEF TicketsInv, PurchasesInv, Payables, PurchaseHead
<1>1. PurchaseIs(p, "refund_holding", 0)
 <2>1. purchase' = [purchase EXCEPT ![p].status = "refund_holding", ![p].paidAt = at]
  BY DEF CompensateIssuance
 <2> QED BY <1>0, <2>1 DEF PurchaseIs, PaidNow, PurchaseFields
<1>2. PICK R : R = [NoRefund EXCEPT !.status = "holding", !.kind = "issuance_compensation"] OBVIOUS
<1>3. DOMAIN R = RefundFields /\ R.status = "holding" /\ R.kind = "issuance_compensation" /\ R.lot = 0 /\ R.alloc = "none"
 BY <1>2 DEF NoRefund, RefundFields
<1>4. DOMAIN refund' = Purchases /\ refund'[p] = R /\ \A q \in Purchases \ {p} : refund'[q] = refund[q]
 BY <1>0, <1>2 DEF CompensateIssuance
<1>5. comp' = [comp EXCEPT ![p] = <<"creating">>] /\ UNCHANGED <<lot, book>> BY DEF CompensateIssuance
<1>6. comp'[p] # <<>> /\ comp'[p][Len(comp'[p])] # "succeeded" /\ \A a \in Payables \ {p} : comp'[a] = comp[a]
 BY <1>5, AttemptDrawnUp
<1>7. OnlyAt(p) /\ PayOK(p)'
 <2>1. ReportDone(p, "succeeded") /\ UNCHANGED trade BY DEF PaidNow
 <2>2. \A a \in Payables \ {p} : comp'[a] = comp[a] /\ given'[a] = given[a] BY <1>6 DEF PaidNow
 <2> QED BY <1>0, <2>1, <2>2, ReportedAt
<1>8. SameClaims(p) /\ refund'[p].alloc # "held" BY <1>3, <1>4 DEF SameClaims, PaidNow, Taken
<1>9. PurchaseMove(p) /\ Issued' = Issued BY <1>1, <1>5, <1>7, <1>8, StillMove DEF PurchaseIs
<1>10. PurchaseHead(p)'
 <2>1. /\ DOMAIN purchase'[p] = PurchaseFields /\ purchase'[p].status = "refund_holding" /\ purchase'[p].lot = 0
       /\ purchase'[p].owner \in Customers /\ pay'[p].status = "succeeded"
  BY <1>1 DEF PurchaseIs, PaidNow
 <2> QED BY <1>3, <1>4, <1>6, <2>1 DEF PurchaseHead, PaidPurchase, RepaidPurchase
<1>11. PurchaseLine(p)'
 <2>1. purchase'[p].lot = 0 /\ purchase[p].lot = 0 /\ refund[p].kind = "none" BY <1>1 DEF PurchaseIs, PaidNow
 <2> QED BY <1>0, <1>3, <1>4, <1>5, <1>9, <2>1 DEF PurchaseLine
<1>12. QuotasInv' BY <1>1, PaidQuota DEF PaidPurchase
<1> QED BY <1>7, <1>9, <1>10, <1>11, <1>12, PurchaseMoveFacts

\* The tickets of a purchase.
TicketsDone(p, l) ==
    /\ l \in Lots \ Issued /\ DOMAIN lot' = Lots /\ DOMAIN book' = Lots
    /\ \A k \in Lots \ {l} : lot'[k] = lot[k] /\ book'[k] = book[k]
    /\ lot'[l].from = <<p>> /\ lot'[l].total = Bottles /\ lot'[l].status = "active" /\ lot'[l].exp = lot'[l].orig
    /\ AccountOK(Account(l)', 0) /\ OneIn(book'[l], "purchase_issue", p, Bottles)
    /\ \A t, b : ~(t = "purchase_issue" /\ b = p) => NoneIn(book'[l], t, b)

LEMMA TicketsFacts ==
    ASSUME TicketsInv, NEW p \in Purchases, NEW at \in Int, IssueTickets(p, at)
    PROVE  \E l : TicketsDone(p, l) /\ purchase' = [purchase EXCEPT ![p].status = "issued", ![p].lot = l, ![p].paidAt = at]
<1> DEFINE F == {k \in Lots : lot[k] = NoLot}
<1>1. F = Lots \ Issued /\ F \subseteq Nat /\ F # {} BY LotsAssumption DEF Issued, IssueTickets
<1>2. PICK l : l = Min(F) OBVIOUS
<1>3. l \in Lots \ Issued
 <2> HIDE DEF F
 <2> QED BY <1>1, <1>2, LeastOf
<1>4. PICK c, v, f : c = purchase[p].owner /\ v = at + Validity /\ f = <<p>> OBVIOUS
<1>5. PICK N : N = [NoLot EXCEPT !.owner = c, !.total = Bottles, !.orig = v, !.exp = v, !.from = f] OBVIOUS
<1>6. /\ DOMAIN N = LotFields /\ N.total = Bottles /\ N.orig = v /\ N.exp = v /\ N.from = f /\ N.renewals = 0
 BY <1>5 DEF NoLot, LotFields
<1>7. N.total \in Nat \ {0} /\ N.exp \in Int /\ N.orig \in Int /\ N.renewals \in Nat
 BY <1>4, <1>6, PurchaseAssumption
<1>8. PICK I : I = Issue(N, "purchase_issue", p) OBVIOUS
<1>9. /\ AccountOK(I, 0) /\ SameLot(N, I.lot) /\ I.lot.exp = N.exp /\ I.lot.renewals = N.renewals
      /\ I.lot.status = "active" /\ OneIn(I.rows, "purchase_issue", p, N.total)
      /\ \A t, b : ~(t = "purchase_issue" /\ b = p) => NoneIn(I.rows, t, b)
 <2>1. "purchase_issue" # "expiry" OBVIOUS
 <2>2. IssuedAs(I, N, "purchase_issue", p) BY <1>6, <1>7, <1>8, <2>1, IssueFacts, Zenon
 <2> QED BY <2>2 DEF IssuedAs
<1>10. PICK accs : accs = [k \in {l} |-> I] OBVIOUS
<1>11. Save(accs) /\ purchase' = [purchase EXCEPT ![p].status = "issued", ![p].lot = l, ![p].paidAt = at]
 <2>1. l = Min({k \in Lots : lot[k] = NoLot}) BY <1>2
 <2>2. accs = [k \in {l} |-> Issue([NoLot EXCEPT !.owner = purchase[p].owner, !.total = Bottles, !.orig = at + Validity,
                                             !.exp = at + Validity, !.from = <<p>>], "purchase_issue", p)]
  BY <1>4, <1>5, <1>8, <1>10, Zenon
 <2> QED BY <2>1, <2>2, Zenon DEF IssueTickets
<1>12. DOMAIN accs = {l} /\ accs[l] = I /\ DOMAIN accs \subseteq Lots BY <1>3, <1>10
<1>13. /\ DOMAIN lot' = Lots /\ DOMAIN book' = Lots /\ lot'[l] = I.lot /\ book'[l] = I.rows
       /\ Account(l)'.lot = I.lot /\ Account(l)'.rows = I.rows
       /\ \A k \in Lots \ {l} : lot'[k] = lot[k] /\ book'[k] = book[k]
 BY <1>11, <1>12, SaveFacts
<1>14. AccountOK(Account(l)', 0) BY <1>9, <1>13 DEF AccountOK
<1>15. lot'[l].from = <<p>> /\ lot'[l].total = Bottles /\ lot'[l].status = "active" /\ lot'[l].exp = lot'[l].orig
 BY <1>4, <1>6, <1>9, <1>13 DEF SameLot
<1>16. /\ OneIn(book'[l], "purchase_issue", p, Bottles)
       /\ \A t, b : ~(t = "purchase_issue" /\ b = p) => NoneIn(book'[l], t, b)
 BY <1>6, <1>9, <1>13
<1>17. TicketsDone(p, l) BY <1>3, <1>13, <1>14, <1>15, <1>16 DEF TicketsDone
<1> QED BY <1>11, <1>17

LEMMA IssueStep ==
    ASSUME TicketsInv, MoneyInv, NEW p \in Purchases, PaidNow(p), NEW at \in Int, IssueTickets(p, at), PurchaseRest
    PROVE  TicketsInv'
<1>0. /\ LotsInv /\ PurchasesInv /\ PurchaseHead(p) /\ PurchaseLine(p) /\ p \in Payables /\ DOMAIN refund = Purchases
      /\ DOMAIN purchase = Purchases /\ DOMAIN purchase[p] = PurchaseFields
 BY DEF TicketsInv, PurchasesInv, Payables, PurchaseHead
<1>1. PICK l : TicketsDone(p, l) /\ purchase' = [purchase EXCEPT ![p].status = "issued", ![p].lot = l, ![p].paidAt = at]
 BY TicketsFacts
<1>2. PurchaseIs(p, "issued", l) BY <1>0, <1>1 DEF PurchaseIs, PurchaseFields
<1>3. UNCHANGED <<refund, comp>> BY DEF IssueTickets
<1>4. UNCHANGED <<gift, redemption, refund>> BY <1>3 DEF PurchaseRest
<1>5. /\ l \in Lots \ Issued /\ DOMAIN lot' = Lots /\ DOMAIN book' = Lots
      /\ \A k \in Lots \ {l} : lot'[k] = lot[k] /\ book'[k] = book[k]
 BY <1>1 DEF TicketsDone
<1>6. ASSUME NEW k \in Lots PROVE ClaimsOn(k, Taken)' = ClaimsOn(k, Taken)
 <2>1. k \in Issued => lot'[k].total = lot[k].total BY <1>5
 <2> QED BY <1>0, <1>4, <2>1, ClaimsStay
<1>7. ClaimsOn(l, Taken)' = 0 BY <1>5, <1>6, NoClaims
<1>8. LotStarts(l, PurchaseTypes, p)
 <2>1. "purchase_issue" \in PurchaseTypes BY DEF PurchaseTypes
 <2>2. AccountOK(Account(l)', ClaimsOn(l, Taken)') BY <1>1, <1>7, Zenon DEF TicketsDone
 <2>3. lot'[l].status = "active" /\ \A t, b : ~(t \in PurchaseTypes /\ b = p) => NoneIn(book'[l], t, b)
  BY <1>1, <2>1 DEF TicketsDone
 <2> QED BY <2>2, <2>3 DEF LotStarts
<1>9. \A k \in Lots \ {l} : LotStays(k) BY <1>5, <1>6 DEF LotStays
<1>10. Issued \subseteq Lots \ {l} BY <1>5 DEF Issued
<1>11. AccountsMove(PurchaseTypes, p) BY <1>5, <1>8, <1>9, <1>10 DEF AccountsMove
<1>12. OnlyAt(p) /\ PayOK(p)'
 <2>1. ReportDone(p, "succeeded") /\ UNCHANGED trade BY DEF PaidNow
 <2>2. \A a \in Payables \ {p} : comp'[a] = comp[a] /\ given'[a] = given[a] BY <1>3 DEF PaidNow
 <2> QED BY <1>0, <2>1, <2>2, ReportedAt
<1>13. Issued' \subseteq Issued \cup {l} BY <1>5 DEF Issued
<1>14. lot'[l].from = <<p>> /\ lot'[l].total = Bottles /\ lot'[l].exp = lot'[l].orig BY <1>1 DEF TicketsDone
<1>15. PurchaseMove(p)
 <2>1. \A k \in Issued' \ Issued : /\ (lot'[k].renewals = 0 => lot'[k].exp = lot'[k].orig)
                                   /\ \A q \in Purchases \ {p} : lot'[k].from # <<q>>
  BY <1>13, <1>14
 <2>2. \A q \in Purchases \ {p} : refund[q].kind = "user_unused" => lot'[refund[q].lot] = lot[refund[q].lot]
  <3> SUFFICES ASSUME NEW q \in Purchases \ {p}, refund[q].kind = "user_unused" PROVE lot'[refund[q].lot] = lot[refund[q].lot]
   OBVIOUS
  <3>1. refund[q].lot \in Issued BY OtherRefund
  <3> QED BY <1>5, <1>10, <3>1
 <2>3. refund'[p].alloc # "held" BY <1>3 DEF PaidNow
 <2> QED BY <1>0, <1>2, <1>3, <1>11, <1>12, <2>1, <2>2, <2>3 DEF PurchaseMove, PurchaseIs
<1>16. LotsInv' /\ (PurchaseHead(p)' /\ PurchaseLine(p)' /\ PayOK(p)' /\ QuotasInv' => TicketsInv')
 BY <1>15, PurchaseMoveFacts
<1>17. l # 0 /\ l \in Issued'
 <2>1. l # 0 BY <1>5, LotsAssumption
 <2>2. lot'[l].status = "active" BY <1>1 DEF TicketsDone
 <2> QED BY <1>5, <2>1, <2>2, NoLotFacts DEF Issued
<1>18. PurchaseHead(p)'
 <2>1. /\ DOMAIN purchase'[p] = PurchaseFields /\ purchase'[p].status = "issued" /\ purchase'[p].lot = l
       /\ purchase'[p].owner \in Customers /\ pay'[p].status = "succeeded"
  BY <1>2 DEF PurchaseIs, PaidNow
 <2>2. refund'[p] = refund[p] /\ DOMAIN refund[p] = RefundFields BY <1>0, <1>3 DEF PurchaseHead
 <2>3. /\ refund[p].kind = "none" /\ refund[p].alloc = "none" /\ refund[p].lot = 0 /\ refund[p].status \in {"none", "quoted"}
  BY DEF PaidNow
 <2> QED BY <1>17, <2>1, <2>2, <2>3 DEF PurchaseHead, PaidPurchase, RepaidPurchase
<1>19. PurchaseLine(p)'
 <2>1. purchase'[p].lot = l /\ purchase[p].lot = 0 /\ refund'[p].kind = "none" /\ refund[p].kind = "none"
  BY <1>2, <1>3 DEF PurchaseIs, PaidNow
 <2>2. OneIn(book'[l], "purchase_issue", p, Bottles) /\ NoneIn(book'[l], "refund_hold", p)
  BY <1>1 DEF TicketsDone
 <2>3. \A k \in Issued' : lot'[k].from = <<p>> => k = l
  <3>1. \A k \in Issued : lot[k].from # <<p>> BY <1>0, <2>1, <1>10, LotsAssumption DEF PurchaseLine
  <3> QED BY <1>5, <1>10, <1>13, <3>1
 <2>4. \A k \in Lots : NoneIn(book'[k], "refund_hold", p)
  <3>1. \A k \in Lots : NoneIn(book[k], "refund_hold", p) BY <1>0, <2>1 DEF PurchaseLine
  <3> QED BY <1>5, <2>2, <3>1
 <2> QED BY <1>14, <1>17, <2>1, <2>2, <2>3, <2>4 DEF PurchaseLine
<1>20. QuotasInv' BY <1>2, PaidQuota DEF PaidPurchase
<1> QED BY <1>12, <1>16, <1>18, <1>19, <1>20

LEMMA TicketsPaidStep ==
    ASSUME TicketsInv, MoneyInv, NEW p \in Purchases, PurchasePaid(p), PurchaseRest
    PROVE  TicketsInv'
<1>1. PaidNow(p) /\ now \in Nat BY PaidNowFacts DEF TicketsInv, LotsInv
<1>2. PICK at \in PaidTimes(p) : IssueTickets(p, at) \/ CompensateIssuance(p, at) BY DEF PurchasePaid
<1>3. at \in Int BY <1>1 DEF PaidTimes
<1> QED BY <1>1, <1>2, <1>3, IssueStep, CompensateStep

LEMMA PurchaseTurnKeeps == ASSUME TicketsInv, MoneyInv, PurchaseTurn PROVE TicketsInv'
<1>1. PurchaseRest /\ PurchaseStep BY DEF PurchaseTurn, PurchaseRest
<1>2. PICK p \in Purchases :
       \/ \E c \in Customers : CreatePurchase(p, c)
       \/ ReflectPurchase(p) \/ PurchasePaid(p) \/ PurchaseUnpaid(p) \/ PurchaseDoubted(p)
       \/ PurchaseRefundStep(p) /\ UNCHANGED <<pay, trade>>
       \/ PaymentOutside(p) /\ UNCHANGED <<lot, book, purchase, quota, refund, comp, given>>
 BY <1>1 DEF PurchaseStep
<1>3. CASE \E c \in Customers : CreatePurchase(p, c)
 BY <1>1, <1>3, CreatePurchaseStep
<1>4. CASE ReflectPurchase(p)
 BY <1>1, <1>4, ReflectPurchaseStep
<1>5. CASE PurchasePaid(p)
 BY <1>1, <1>5, TicketsPaidStep
<1>6. CASE PurchaseUnpaid(p)
 BY <1>1, <1>6, PurchaseUnpaidStep
<1>7. CASE PurchaseDoubted(p)
 BY <1>1, <1>7, PurchaseDoubtedStep
<1>8. CASE PurchaseRefundStep(p) /\ UNCHANGED <<pay, trade>>
 <2>1. CASE QuoteRefund(p)
  BY <1>1, <1>8, <2>1, QuoteRefundStep
 <2>2. CASE CreateRefund(p)
  BY <1>1, <1>8, <2>2, CreateRefundStep
 <2>3. CASE AttemptFailed(p)
  BY <1>1, <1>8, <2>3, RefundGoesOn
 <2>4. ASSUME NEW k \in DOMAIN given[p], TicketsRefunded(p, k) PROVE TicketsInv'
  BY <1>1, <1>8, <2>4, TicketsRefundedStep
 <2>5. ASSUME NEW k \in DOMAIN given[p], RefundRuns(p, k) \/ AttemptClosed(p, k) \/ AttemptDoubted(p, k) PROVE TicketsInv'
  BY <1>1, <1>8, <2>5, RefundGoesOn
 <2>6. CASE (AskRefund(p) \/ ProviderRefunds(p)) /\ UNCHANGED <<lot, book, purchase, quota, refund>>
  BY <1>1, <1>8, <2>6, PurchaseGivenStep
 <2> QED BY <1>8, <2>1, <2>2, <2>3, <2>4, <2>5, <2>6 DEF PurchaseRefundStep
<1>9. CASE PaymentOutside(p) /\ UNCHANGED <<lot, book, purchase, quota, refund, comp, given>>
 BY <1>1, <1>9, PurchaseOutsideStep
<1> QED BY <1>2, <1>3, <1>4, <1>5, <1>6, <1>7, <1>8, <1>9

----------------------------------------
LEMMA TicketsTurn == ASSUME TicketsInv, MoneyInv, AnyTurn PROVE TicketsInv'
BY GiftTurnKeeps, RenewalTurnKeeps, RedemptionTurnKeeps, PurchaseTurnKeeps, ExpiryTurnKeeps, ClockTurnKeeps DEF AnyTurn

LEMMA TicketsRest == ASSUME TicketsInv, UNCHANGED tkvars PROVE TicketsInv'
<1>1. UNCHANGED <<lot, book, gift, redemption, renewal, refund, now, pay, trade, comp, given, slot, stock, purchase, quota>>
 BY DEF tkvars
<1> QED BY <1>1, AllStill DEF TicketsAside

----------------------------------------
(* How the tickets begin. *)

ClaimsNothing(l, S) ==
    /\ \A g \in Gifts : OfGift(l, g, S) = 0
    /\ \A r \in Redemptions : OfRedemption(l, r, S) = 0
    /\ \A p \in Purchases : OfRefund(l, p, S) = 0

LEMMA ClaimsZero == ASSUME NEW l, NEW S, ClaimsNothing(l, S) PROVE ClaimsOn(l, S) = 0
<1>4. GiftPart(l, S) = 0
 <2> DEFINE f == [g \in Gifts |-> OfGift(l, g, S)]
 <2>1. \A g \in Gifts : f[g] = 0 BY DEF ClaimsNothing
 <2> HIDE DEF f
 <2>2. SumFunctionOnSet(f, Gifts) = 0 BY <2>1, SumZero, LotsAssumption
 <2> QED BY <2>2 DEF GiftPart, f
<1>5. RedemptionPart(l, S) = 0
 <2> DEFINE f == [r \in Redemptions |-> OfRedemption(l, r, S)]
 <2>1. \A r \in Redemptions : f[r] = 0 BY DEF ClaimsNothing
 <2> HIDE DEF f
 <2>2. SumFunctionOnSet(f, Redemptions) = 0 BY <2>1, SumZero, LotsAssumption
 <2> QED BY <2>2 DEF RedemptionPart, f
<1>6. RefundPart(l, S) = 0
 <2> DEFINE f == [p \in Purchases |-> OfRefund(l, p, S)]
 <2>1. \A p \in Purchases : f[p] = 0 BY DEF ClaimsNothing
 <2> HIDE DEF f
 <2>2. SumFunctionOnSet(f, Purchases) = 0 BY <2>1, SumZero, LotsAssumption
 <2> QED BY <2>2 DEF RefundPart, f
<1> QED BY <1>4, <1>5, <1>6, ClaimsParts

\* Every lot there is at the start is one that was issued before.
Begun(l, lots) ==
    \/ l \notin DOMAIN lots
    \/ \E new : /\ IssuedAs(lots[l], new, "purchase_issue", "earlier")
                /\ new.exp = new.orig /\ new.renewals = 0 /\ new.from = <<>>

LEMMA TicketsBegin ==
    ASSUME NEW lots, NEW bottles, TicketsInit(lots, bottles), \A l : Begun(l, lots)
    PROVE  TicketsInv
<1>1. /\ lot = [l \in Lots |-> IF l \in DOMAIN lots THEN lots[l].lot ELSE NoLot]
      /\ book = [l \in Lots |-> IF l \in DOMAIN lots THEN lots[l].rows ELSE <<>>]
      /\ now = 0
 BY DEF TicketsInit
<1>2. /\ gift = [g \in Gifts |-> NoGift] /\ redemption = [r \in Redemptions |-> NoRedemption]
      /\ renewal = [n \in Renewals |-> NoRenewal] /\ refund = [p \in Purchases |-> NoRefund]
      /\ purchase = [p \in Purchases |-> NoPurchase]
 BY DEF TicketsInit
<1>3. /\ pay = [b \in Payables |-> NoPay] /\ trade = [b \in Payables |-> "none"] /\ slot = [s \in Slots |-> NoSlot]
      /\ quota = [c \in Customers |-> [reserved |-> 0, consumed |-> 0]]
 BY DEF TicketsInit
<1>4. \A l \in Lots : /\ l \in DOMAIN lots => lot[l] = lots[l].lot /\ book[l] = lots[l].rows
                      /\ l \notin DOMAIN lots => lot[l] = NoLot /\ book[l] = <<>>
 BY <1>1
<1>5. \A l \in Issued : l \in DOMAIN lots BY <1>4 DEF Issued
<1>6. \A l : ClaimsNothing(l, Taken) /\ CompletedOf(l) = {}
 <2>1. \A g \in Gifts : gift[g].allocStatus = "none" BY <1>2 DEF NoGift
 <2>2. \A r \in Redemptions : redemption[r].allocStatus = "none" BY <1>2 DEF NoRedemption
 <2>3. \A p \in Purchases : refund[p].alloc = "none" BY <1>2 DEF NoRefund
 <2>4. \A n \in Renewals : renewal[n].status = "none" BY <1>2 DEF NoRenewal
 <2> QED BY <2>1, <2>2, <2>3, <2>4 DEF ClaimsNothing, OfGift, OfRedemption, OfRefund, CompletedOf, Taken
<1>7. ASSUME NEW l \in Issued
      PROVE  /\ AccountOK(Account(l), ClaimsOn(l, Taken)) /\ lot[l].status = "active"
             /\ lot[l].exp \in Int /\ lot[l].exp = lot[l].orig /\ lot[l].renewals = 0 /\ lot[l].from = <<>>
             /\ \A t, b : ~(t = "purchase_issue" /\ b = "earlier") => NoneIn(book[l], t, b)
 <2>1. l \in DOMAIN lots /\ l \in Lots BY <1>5 DEF Issued
 <2>2. PICK A : A = lots[l] OBVIOUS
 <2>3. PICK new : IssuedAs(A, new, "purchase_issue", "earlier") /\ new.exp = new.orig /\ new.renewals = 0 /\ new.from = <<>>
  BY <2>1, <2>2 DEF Begun
 <2>4. lot[l] = A.lot /\ book[l] = A.rows BY <1>4, <2>1, <2>2
 <2>5. /\ AccountOK(A, 0) /\ A.lot.exp = new.exp /\ A.lot.orig = new.orig /\ A.lot.renewals = new.renewals
       /\ A.lot.from = new.from /\ A.lot.status = "active"
       /\ \A t, b : ~(t = "purchase_issue" /\ b = "earlier") => NoneIn(A.rows, t, b)
  BY <2>3 DEF IssuedAs, SameLot
 <2>6. Account(l).lot = A.lot /\ Account(l).rows = A.rows BY <2>4 DEF Account
 <2>7. ClaimsOn(l, Taken) = 0 BY <1>6, ClaimsZero
 <2>8. AccountOK(Account(l), 0) BY <2>5, <2>6, Zenon DEF AccountOK
 <2>9. A.lot.exp \in Int BY <2>5 DEF AccountOK, IsLot
 <2> QED BY <2>3, <2>4, <2>5, <2>7, <2>8, <2>9, Zenon
<1>8. LotsInv
 <2>1. \A l \in Lots \ Issued : book[l] = <<>>
  <3> SUFFICES ASSUME NEW l \in Lots, lot[l] = NoLot, l \in DOMAIN lots PROVE FALSE
   BY <1>4 DEF Issued
  <3>1. PICK A : A = lots[l] OBVIOUS
  <3>2. PICK new : IssuedAs(A, new, "purchase_issue", "earlier") BY <3>1 DEF Begun
  <3>3. A.lot.status = "active" BY <3>2 DEF IssuedAs
  <3> QED BY <1>4, <3>1, <3>3, NoLotFacts
 <2>2. DOMAIN lot = Lots /\ DOMAIN book = Lots /\ now \in Nat BY <1>1
 <2>3. \A l \in Issued : AccountOK(Account(l), ClaimsOn(l, Taken)) /\ lot[l].status # "expired" BY <1>7
 <2> QED BY <2>1, <2>2, <2>3, Zenon DEF LotsInv
<1>9. ChainsInv
 <2> SUFFICES ASSUME NEW l \in Issued
              PROVE  /\ \E first : Chain(l, first)
                     /\ Cardinality(CompletedOf(l)) <= lot[l].renewals
                     /\ (Cardinality(CompletedOf(l)) = lot[l].renewals => Chain(l, lot[l].orig))
  BY DEF ChainsInv
 <2>1. lot[l].exp \in Int /\ lot[l].exp = lot[l].orig /\ lot[l].renewals = 0 /\ CompletedOf(l) = {}
  BY <1>6, <1>7
 <2>2. Chain(l, lot[l].exp) /\ Cardinality(CompletedOf(l)) = 0 BY <2>1, NewChain
 <2> QED BY <2>1, <2>2
<1>10. \A l \in Lots : \A t, b : t # "purchase_issue" => NoneIn(book[l], t, b)
 <2> SUFFICES ASSUME NEW l \in Lots, NEW t, NEW b, t # "purchase_issue" PROVE NoneIn(book[l], t, b)
  OBVIOUS
 <2>1. CASE l \in Issued
  BY <1>7, <2>1
 <2>2. CASE l \notin Issued
  <3>1. book[l] = <<>> BY <1>8, <2>2 DEF LotsInv
  <3> QED BY <3>1, EmptyBook
 <2> QED BY <2>1, <2>2
<1>11. GiftsInv
 <2>1. DOMAIN gift = Gifts /\ \A g \in Gifts : gift[g] = NoGift BY <1>2
 <2>2. GiftHead(NoGift) /\ DOMAIN NoGift.alloc = {} BY DEF GiftHead, NoGift, GiftFields, GiftTerminal
 <2>3. \A g \in Gifts : \A l \in Lots : GiftRows(g, l) BY <1>10 DEF GiftRows
 <2> QED BY <2>1, <2>2, <2>3 DEF GiftsInv, GiftOK
<1>12. RedemptionsInv
 <2>1. DOMAIN redemption = Redemptions /\ \A r \in Redemptions : redemption[r] = NoRedemption BY <1>2
 <2>2. RedemptionHead(NoRedemption) /\ DOMAIN NoRedemption.alloc = {}
  BY DEF RedemptionHead, NoRedemption, RedemptionFields
 <2>3. \A r \in Redemptions : \A l \in Lots : RedemptionRows(r, l) BY <1>10 DEF RedemptionRows
 <2> QED BY <2>1, <2>2, <2>3 DEF RedemptionsInv, RedemptionOK
<1>13. RenewalsInv
 <2>1. DOMAIN renewal = Renewals /\ \A n \in Renewals : renewal[n] = NoRenewal /\ pay[n] = NoPay
  BY <1>2, <1>3 DEF Payables
 <2>2. NoRenewal.status = "none" /\ NoRenewal.free = FALSE /\ DOMAIN NoRenewal = RenewalFields
  BY DEF NoRenewal, RenewalFields
 <2>3. \A n \in Renewals : RenewalHead(n) /\ RenewalPay(n)
  BY <2>1, <2>2 DEF RenewalHead, RenewalPay, ActiveRenewalStatuses
 <2>4. "none" \notin ActiveRenewalStatuses BY DEF ActiveRenewalStatuses
 <2> QED BY <2>1, <2>2, <2>3, <2>4 DEF RenewalsInv
<1>14. PaysInv
 <2>1. DOMAIN NoPay = {"status", "exp", "told"} BY DEF NoPay
 <2> QED BY <1>3, <2>1 DEF PaysInv
<1>15. PurchasesInv
 <2>1. /\ DOMAIN purchase = Purchases /\ DOMAIN refund = Purchases
       /\ \A p \in Purchases : purchase[p] = NoPurchase /\ refund[p] = NoRefund /\ pay[p] = NoPay
  BY <1>2, <1>3 DEF Payables
 <2>2. /\ NoPurchase.status = "none" /\ NoPurchase.lot = 0 /\ DOMAIN NoPurchase = PurchaseFields
       /\ NoRefund.status = "none" /\ NoRefund.kind = "none" /\ NoRefund.lot = 0 /\ NoRefund.alloc = "none"
       /\ DOMAIN NoRefund = RefundFields /\ NoPay.status = "none"
  BY DEF NoPurchase, PurchaseFields, NoRefund, RefundFields, NoPay
 <2>3. \A p \in Purchases : PurchaseHead(p) BY <2>1, <2>2 DEF PurchaseHead, PaidPurchase, RepaidPurchase
 <2>4. \A p : <<>> # <<p>> OBVIOUS
 <2>5. \A p \in Purchases : \A l \in Issued : lot[l].from # <<p>> BY <1>7, <2>4, Zenon
 <2>6. \A p \in Purchases : PurchaseLine(p) BY <1>10, <2>1, <2>2, <2>5 DEF PurchaseLine
 <2> QED BY <2>1, <2>3, <2>6 DEF PurchasesInv
<1>16. SlotsInv
 <2>1. DOMAIN slot = Slots /\ \A s \in Slots : slot[s] = NoSlot BY <1>3
 <2>2. DOMAIN NoSlot = SlotFields /\ NoSlot.cap = 0 /\ NoSlot.reserved = 0 /\ NoSlot.status = "none"
  BY DEF NoSlot, SlotFields
 <2>3. \A s \in Slots : TakenOf(s) = {} BY <1>2, SlotsAssumption DEF TakenOf, NoRedemption
 <2>4. \A s \in Slots : Cardinality(TakenOf(s)) = 0 BY <2>3, FS_EmptySet
 <2> QED BY <2>1, <2>2, <2>3, <2>4 DEF SlotsInv
<1>17. QuotasInv
 <2> SUFFICES ASSUME NEW c \in Customers PROVE DOMAIN quota[c] = {"reserved", "consumed"} /\ QuotaRule(c)
  BY <1>3 DEF QuotasInv
 <2>1. DOMAIN quota[c] = {"reserved", "consumed"} /\ quota[c].reserved = 0 /\ quota[c].consumed = 0 BY <1>3
 <2>2. OpenOf(c) = {} /\ PaidOf(c) = {} BY <1>2, <1>3 DEF OpenOf, PaidOf, Open, NoPurchase, NoPay, Payables
 <2>3. Cardinality(OpenOf(c)) = 0 /\ Cardinality(PaidOf(c)) = 0 BY <2>2, FS_EmptySet
 <2> QED BY <2>1, <2>3, QuotaParts, PurchaseAssumption
<1> QED BY <1>8, <1>9, <1>11, <1>12, <1>13, <1>14, <1>15, <1>16, <1>17 DEF TicketsInv

----------------------------------------
(* What the nightly reconciliation demands. *)

LEMMA OneRowIs == ASSUME NEW l, NEW type, NEW biz, NEW delta PROVE OneRow(l, type, biz, delta) <=> OneIn(book[l], type, biz, delta)
BY Zenon DEF OneRow, RowsOf, OneIn, Matching

LEMMA LotRuleHolds == ASSUME TicketsInv, NEW l \in Lots PROVE LotRule(l)
<1> SUFFICES ASSUME lot[l].status # "none" PROVE LotRule(l)
 BY DEF LotRule
<1>0. LotsInv BY DEF TicketsInv
<1>1. l \in Issued BY <1>0, InUse
<1>2. AccountOK(Account(l), ClaimsOn(l, Taken)) /\ Account(l).lot = lot[l] /\ Account(l).rows = book[l]
 BY <1>0, <1>1, IssuedLot DEF LotsInv
<1>3. PICK L, rows, c, e : L = lot[l] /\ rows = book[l] /\ c = ClaimsOn(l, Taken) /\ e = Expired(book[l])
 OBVIOUS
<1>4. /\ LedgerOK(rows, L.total, L.avail) /\ (L.status = "active" <=> L.avail > 0)
      /\ L.avail + c + e = L.total
 BY <1>2, <1>3, Zenon DEF AccountOK
<1>5. ClaimsOn(l, {"held", "consumed", "claimed"}) = c BY <1>3 DEF Taken
<1>6. ExpiredOf(l) = e BY <1>3, Zenon DEF ExpiredOf, Expired, ExpiryOf
<1>7. /\ rows[1].before = 0 /\ rows[1].after = L.total /\ \A i \in 2..Len(rows) : rows[i].before = rows[i - 1].after
      /\ rows[Len(rows)].after = L.avail
 BY <1>4 DEF LedgerOK
<1> QED BY <1>3, <1>4, <1>5, <1>6, <1>7, Zenon DEF LotRule

LEMMA CompletedFinite == ASSUME NEW l PROVE IsFiniteSet(CompletedOf(l)) /\ Cardinality(CompletedOf(l)) \in Nat
<1>1. CompletedOf(l) \subseteq Renewals BY DEF CompletedOf
<1>2. IsFiniteSet(CompletedOf(l)) BY <1>1, LotsAssumption, FS_Subset
<1> QED BY <1>2, FS_CardinalityType

\* A chain of renewals is what the check of a lot's expiry looks for.
LEMMA ChainDescends == ASSUME NEW l, NEW first, Chain(l, first) PROVE DescendsFrom(l, first)
<1>1. PICK C, e : C = CompletedOf(l) /\ e = lot[l].exp OBVIOUS
<1>2. /\ first \in Int /\ e \in Int /\ first <= e
      /\ \A n \in C : /\ renewal[n].old \in Int /\ renewal[n].new \in Int
                      /\ first <= renewal[n].old /\ renewal[n].old < e
                      /\ first < renewal[n].new /\ renewal[n].new <= e
      /\ \A m, n \in C : renewal[m].old = renewal[n].old => m = n
      /\ \A x : (x = e \/ \E n \in C : x = renewal[n].old) <=> (x = first \/ \E n \in C : x = renewal[n].new)
 BY <1>1, Zenon DEF Chain
<1> DEFINE olds == {renewal[n].old : n \in C}
           news == {renewal[n].new : n \in C}
<1>3. Cardinality(olds) = Cardinality(C)
 <2>1. PICK f : f = [n \in C |-> renewal[n].old] OBVIOUS
 <2>2. f \in Surjection(C, olds) BY <2>1 DEF Surjection
 <2>3. f \in Injection(C, olds) BY <1>2, <2>1 DEF Injection, IsInjective
 <2>4. IsFiniteSet(C) BY <1>1, CompletedFinite
 <2> HIDE DEF olds
 <2> QED BY <2>2, <2>3, <2>4, FS_Surjection
<1>4. first \in olds \cup {e} BY <1>2
<1>5. {x \in olds : x >= first} = olds /\ {x \in news : x > first} = news BY <1>2
<1>6. olds \cup {e} = {first} \cup news
 <2>1. \A x : (x \in olds <=> \E n \in C : x = renewal[n].old) /\ (x \in news <=> \E n \in C : x = renewal[n].new)
  OBVIOUS
 <2>2. \A x : (x = e \/ \E n \in C : x = renewal[n].old) <=> (x = first \/ \E n \in C : x = renewal[n].new)
  BY <1>2
 <2> HIDE DEF olds, news
 <2>3. \A x : (x = e \/ x \in olds) <=> (x = first \/ x \in news) BY <2>1, <2>2, Zenon
 <2> QED BY <2>3
<1> HIDE DEF olds, news
<1>7. {x \in olds : x >= first} \cup {e} = {first} \cup {x \in news : x > first} BY <1>5, <1>6
<1> QED BY <1>1, <1>3, <1>4, <1>7, Zenon DEF DescendsFrom, olds, news

LEMMA ChainLast ==
    ASSUME NEW l, NEW first, Chain(l, first), CompletedOf(l) # {}
    PROVE  lot[l].exp = Max({renewal[m].new : m \in CompletedOf(l)})
<1>1. PICK C, e : C = CompletedOf(l) /\ e = lot[l].exp OBVIOUS
<1>2. /\ first \in Int /\ e \in Int
      /\ \A n \in C : /\ renewal[n].old \in Int /\ renewal[n].new \in Int
                      /\ first <= renewal[n].old /\ renewal[n].old < e /\ renewal[n].new <= e
      /\ \A x : (x = e \/ \E n \in C : x = renewal[n].old) <=> (x = first \/ \E n \in C : x = renewal[n].new)
 BY <1>1, Zenon DEF Chain
<1>3. PICK N : N = {renewal[m].new : m \in C} OBVIOUS
<1>4. e # first BY <1>1, <1>2
<1>5. e \in N /\ N \subseteq Int /\ \A y \in N : e >= y BY <1>2, <1>3, <1>4
<1>6. \A x \in N : (\A y \in N : x >= y) => x = e BY <1>5
<1>7. Max(N) = e BY <1>5, <1>6 DEF Max
<1> QED BY <1>1, <1>3, <1>7

LEMMA GiftRuleHolds == ASSUME TicketsInv, NEW g \in Gifts PROVE GiftRule(g)
<1>0. GiftHead(gift[g]) /\ \A l \in DOMAIN gift[g].alloc : GiftLine(g, l) BY DEF TicketsInv, GiftsInv, GiftOK
<1>1. PICK G : G = gift[g] OBVIOUS
<1> SUFFICES ASSUME G.status # "none" PROVE GiftRule(g)
 BY <1>1 DEF GiftRule
<1>2. /\ SumFunctionOnSet(G.alloc, DOMAIN G.alloc) = G.qty
      /\ G.allocStatus = (CASE G.status = "pending" -> "held"
                            [] G.status = "claimed" -> "claimed"
                            [] OTHER -> "restored")
      /\ (G.receiver # NoOne <=> G.status = "claimed") /\ G.receiver # G.giver
 BY <1>0, <1>1 DEF GiftHead, GiftTerminal
<1>3. ASSUME NEW l \in DOMAIN G.alloc
      PROVE  /\ lot[l].owner = G.giver /\ G.alloc[l] <= lot[l].total /\ OneRow(l, "gift_hold", g, -G.alloc[l])
             /\ (G.allocStatus = "held" => lot[l].exp = G.srcExp[l])
             /\ (G.allocStatus = "restored" => OneRow(l, "gift_restore", g, G.alloc[l]))
             /\ (G.allocStatus = "claimed" =>
                    LET R == lot[G.rcv[l]]
                    IN  /\ R.owner = G.receiver /\ R.from = <<g, l>> /\ R.total = G.alloc[l]
                        /\ DescendsFrom(G.rcv[l], G.srcExp[l]) /\ OneRow(G.rcv[l], "gift_claim", g, G.alloc[l]))
 <2>1. GiftLine(g, l) BY <1>0, <1>1, <1>3
 <2>2. \A k, t, d : OneIn(book[k], t, g, d) => OneRow(k, t, g, d) BY OneRowIs
 <2>3. \A k, first : Chain(k, first) => DescendsFrom(k, first) BY ChainDescends
 <2> QED BY <1>1, <2>1, <2>2, <2>3, Zenon DEF GiftLine
<1> QED BY <1>1, <1>2, <1>3, Zenon DEF GiftRule

LEMMA RenewalRuleHolds == ASSUME TicketsInv, MoneyInv, NEW n \in Renewals PROVE RenewalRule(n)
<1>0. RenewalsInv /\ ChainsInv /\ RenewalHead(n) /\ RenewalPay(n) /\ LotsInv BY DEF TicketsInv, RenewalsInv
<1>1. PICK R, l : R = renewal[n] /\ l = R.lot OBVIOUS
<1> SUFFICES ASSUME R.status \notin {"none", "quoted"} PROVE RenewalRule(n)
 BY <1>1 DEF RenewalRule
<1>2. l \in Issued /\ lot[l].owner = R.owner BY <1>0, <1>1 DEF RenewalHead
<1>3. Cardinality({m \in Renewals : renewal[m].lot = l /\ renewal[m].status \in ActiveRenewalStatuses}) <= 1
 <2>1. PICK A : A = {m \in Renewals : renewal[m].lot = l /\ renewal[m].status \in ActiveRenewalStatuses}
  OBVIOUS
 <2>2. \A m, k \in A : m = k BY <1>0, <2>1 DEF RenewalsInv
 <2>3. A = {} \/ \E m : A = {m} BY <2>2
 <2>4. Cardinality(A) = 0 \/ Cardinality(A) = 1
  <3>1. CASE A = {}
   BY <3>1, FS_EmptySet
  <3>2. ASSUME NEW m, A = {m} PROVE Cardinality(A) = 1 BY <3>2, FS_Singleton
  <3> QED BY <2>3, <3>1, <3>2
 <2> QED BY <2>1, <2>4
<1>4. PICK first : Chain(l, first) BY <1>0, <1>2 DEF ChainsInv
<1>5. CompletedOf(l) # {} => lot[l].exp = Max({renewal[m].new : m \in CompletedOf(l)}) BY <1>4, ChainLast
<1>6. /\ Cardinality(CompletedOf(l)) <= lot[l].renewals
      /\ (Cardinality(CompletedOf(l)) = lot[l].renewals => DescendsFrom(l, lot[l].orig))
 BY <1>0, <1>2, ChainDescends DEF ChainsInv
<1>7. lot[l].renewals \in Nat /\ Cardinality(CompletedOf(l)) \in Nat
 BY <1>0, <1>2, IssuedLot, CompletedFinite DEF IsLot
<1>8. lot[l].renewals >= Cardinality(CompletedOf(l)) BY <1>6, <1>7
<1>9. R.status = "completed" => lot[l].exp >= R.new
 <2>1. R.status = "completed" => n \in CompletedOf(l) BY <1>1 DEF CompletedOf
 <2> QED BY <1>1, <1>4, <2>1 DEF Chain
<1>10. R.status \notin {"compensating_refund", "refund_exception", "refunded"} => Current(n) = 0
 <2>1. R.status \notin {"compensating_refund", "refund_exception", "refunded"} => comp[n] = <<>>
  BY <1>1 DEF MoneyInv
 <2> QED BY <2>1 DEF Current
<1>11. PICK P, c, s : P = pay[n] /\ c = Current(n) /\ s = comp[n][c] OBVIOUS
<1>12. /\ (R.free => P = NoPay /\ R.status = "completed")
       /\ (R.status \in {"pending_payment", "payment_unknown"} => P.status # "succeeded")
       /\ (R.status = "completed" => R.free \/ P.status = "succeeded")
       /\ (R.status = "closed" => P.status \in {"closed", "failed", "exception"})
       /\ (R.status \in {"compensating_refund", "refund_exception"} => P.status = "succeeded" /\ s # "succeeded")
       /\ (R.status = "refunded" => P.status = "succeeded" /\ s = "succeeded")
 BY <1>0, <1>1, <1>11 DEF RenewalPay, Current
<1> QED BY <1>1, <1>2, <1>3, <1>5, <1>6, <1>8, <1>9, <1>10, <1>11, <1>12 DEF RenewalRule

LEMMA RedemptionRuleHolds == ASSUME TicketsInv, NEW r \in Redemptions PROVE RedemptionRule(r)
<1>0. /\ RedemptionHead(redemption[r]) /\ \A l \in DOMAIN redemption[r].alloc : RedemptionLine(r, l)
      /\ \A l \in Lots : RedemptionRows(r, l)
 BY DEF TicketsInv, RedemptionsInv, RedemptionOK
<1>1. PICK R : R = redemption[r] OBVIOUS
<1> SUFFICES ASSUME R.status # "none" PROVE RedemptionRule(r)
 BY <1>1 DEF RedemptionRule
<1>2. /\ SumFunctionOnSet(R.alloc, DOMAIN R.alloc) = R.qty
      /\ R.allocStatus = (CASE R.status = "delivered" -> "consumed"
                            [] R.status \in {"cancelled", "restored"} -> "restored"
                            [] OTHER -> "held")
 BY <1>0, <1>1 DEF RedemptionHead
<1>3. ASSUME NEW l \in DOMAIN R.alloc
      PROVE  /\ lot[l].owner = R.owner /\ R.alloc[l] <= lot[l].total
             /\ (R.allocStatus = "held" => lot[l].exp = R.srcExp[l])
             /\ OneRow(l, "redemption_hold", r, -R.alloc[l])
             /\ (R.status = "cancelled" <=> OneRow(l, "redemption_restore", r, R.alloc[l]))
             /\ (R.status = "restored" <=> OneRow(l, "redemption_return_restore", r, R.alloc[l]))
 <2>1. RedemptionLine(r, l) BY <1>0, <1>1, <1>3
 <2>2. l \in Lots BY <2>1 DEF RedemptionLine, Issued
 <2>3. \A t, d : OneIn(book[l], t, r, d) <=> OneRow(l, t, r, d) BY OneRowIs
 <2>4. \A t, d : NoneIn(book[l], t, r) => ~OneIn(book[l], t, r, d) BY OneNotNone
 <2>5. RedemptionRows(r, l) BY <1>0, <2>2
 <2> QED BY <1>1, <2>1, <2>3, <2>4, <2>5, Zenon DEF RedemptionLine, RedemptionRows
<1> QED BY <1>1, <1>2, <1>3, Zenon DEF RedemptionRule

LEMMA PurchaseRuleHolds == ASSUME TicketsInv, MoneyInv, NEW p \in Purchases PROVE PurchaseRule(p)
<1>0. PurchaseHead(p) /\ PurchaseLine(p) /\ LotsInv BY DEF TicketsInv, PurchasesInv
<1>1. PICK P, R, owned : P = purchase[p] /\ R = refund[p] /\ owned = {l \in Lots : lot[l].from = <<p>>}
 OBVIOUS
<1> SUFFICES ASSUME P.status # "none" PROVE PurchaseRule(p)
 BY <1>1 DEF PurchaseRule
<1>2. PICK k : k = P.lot OBVIOUS
<1>3. k # 0 => k \in Issued /\ lot[k].from = <<p>> /\ OneIn(book[k], "purchase_issue", p, Bottles)
 BY <1>0, <1>1, <1>2 DEF PurchaseLine
<1>4. \A l \in owned : l = k /\ l # 0
 <2> SUFFICES ASSUME NEW l \in owned PROVE l = k /\ l # 0
  OBVIOUS
 <2>1. l \in Lots /\ lot[l].from = <<p>> /\ l # 0 BY <1>1, LotsAssumption
 <2>2. NoLot.from # <<p>> BY DEF NoLot
 <2>3. l \in Issued BY <2>1, <2>2 DEF Issued
 <2> QED BY <1>0, <1>1, <1>2, <2>1, <2>3 DEF PurchaseLine
<1>5. (k # 0 => owned = {k}) /\ (k = 0 => owned = {}) BY <1>1, <1>3, <1>4 DEF Issued
<1>6. Cardinality(owned) = IF k = 0 THEN 0 ELSE 1 BY <1>5, FS_EmptySet, FS_Singleton
<1>7. k # 0 => OneRow(k, "purchase_issue", p, Bottles) BY <1>3, OneRowIs
<1>8. P.status \in {"issued", "closed"} => comp[p] = <<>> BY <1>1 DEF MoneyInv
<1>9. /\ (pay[p].status = "succeeded" <=> P.status \in {"issued", "refund_holding", "refund_exception", "refunded"})
      /\ (P.status = "refunded" <=> R.status = "succeeded")
      /\ (P.status = "refunded" => comp[p][Current(p)] = "succeeded" /\ given[p][Current(p)] = "success")
      /\ (R.kind = "issuance_compensation" => k = 0)
 BY <1>0, <1>1, <1>2 DEF PurchaseHead, PaidPurchase, Current
<1>10. R.kind = "user_unused" =>
         /\ OneRow(R.lot, "refund_hold", p, -Bottles)
         /\ ~lot[R.lot].used /\ lot[R.lot].avail = 0 /\ lot[R.lot].exp = R.srcExp
         /\ IF R.status = "succeeded" THEN lot[R.lot].status = "refunded" /\ R.alloc = "consumed"
            ELSE lot[R.lot].status = "depleted" /\ R.alloc = "held"
 <2>1. \A j, d : OneIn(book[j], "refund_hold", p, d) => OneRow(j, "refund_hold", p, d) BY OneRowIs
 <2> QED BY <1>0, <1>1, <2>1, Zenon DEF PurchaseLine
<1> QED BY <1>1, <1>2, <1>5, <1>6, <1>7, <1>8, <1>9, <1>10, Zenon DEF PurchaseRule

LEMMA TicketsReconciled == ASSUME TicketsInv, MoneyInv PROVE TicketsReconcile
<1>1. \A s \in Slots : SlotRule(s) BY DEF TicketsInv, SlotsInv, SlotRule, TakenOf
<1>2. \A c \in Customers : QuotaRule(c) BY DEF TicketsInv, QuotasInv
<1> QED BY <1>1, <1>2, LotRuleHolds, GiftRuleHolds, RenewalRuleHolds, RedemptionRuleHolds, PurchaseRuleHolds DEF TicketsReconcile
=============================================================================
