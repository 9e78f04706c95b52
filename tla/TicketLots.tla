----------------------------- MODULE TicketLots -----------------------------
(***************************************************************************)
(* The lots of wine tickets and their ledger (wineticket/core): every      *)
(* change of a balance goes through AssetService, which writes the lot and *)
(* one ledger row in the caller's transaction.                             *)
(*                                                                         *)
(* The tables that refer to lots are declared here because each business   *)
(* looks at the others before it touches a lot: gifts, redemptions,        *)
(* renewals and refunds. Each is written by the module of its name.        *)
(*                                                                         *)
(* Abstracted: product, city, merchant and purchase lineage (all lots are  *)
(* of one product), the texts of the evidence, and version numbers of rows *)
(* nobody names again. Time is the number of units that have passed.       *)
(***************************************************************************)
EXTENDS Integers, Sequences, SequencesExt, FiniteSetsExt

CONSTANTS Lots,       \* lot identifiers
          Customers, Gifts, Redemptions, Renewals, Purchases,
          Horizon,    \* bound: no time passes after it
          MaxRenewals \* the renewals a policy allows to one lot

NoOne == "nobody"

\* The rows of a table are finitely many; identifiers of lots are positive, 0 stands for none.
ASSUME LotsAssumption ==
    /\ Lots \subseteq Nat \ {0} /\ IsFiniteSet(Lots)
    /\ IsFiniteSet(Gifts) /\ IsFiniteSet(Redemptions) /\ IsFiniteSet(Renewals) /\ IsFiniteSet(Purchases)
    /\ NoOne \notin Customers

VARIABLES lot,        \* wine_ticket_lots
          book,       \* the rows of wine_ticket_transactions of each lot, in order
          gift, redemption, renewal, refund,
          now

NoLot == [status |-> "none", total |-> 0, avail |-> 0, owner |-> NoOne, orig |-> 0, exp |-> 0,
          renewals |-> 0, used |-> FALSE, version |-> 0, from |-> <<>>]

\* newTransaction.
Row(type, biz, before, after) ==
    [type |-> type, biz |-> biz, delta |-> after - before, before |-> before, after |-> after]

\* A lot and its rows, the two things every operation of the service changes together.
Account(l) == [lot |-> lot[l], rows |-> book[l]]

\* mutant: the ledger row is forgotten.
PostUnwritten(acc, type, biz, change) == [lot |-> change, rows |-> acc.rows]

Post(acc, type, biz, change) ==
    [lot |-> change, rows |-> Append(acc.rows, Row(type, biz, acc.lot.avail, change.avail))]

NextVersion(L, avail, status) ==
    [L EXCEPT !.avail = avail, !.status = status, !.version = @ + 1]

\* Issue: a lot starts active, with its whole quantity available.
Issue(new, type, biz) ==
    [lot  |-> [new EXCEPT !.avail = new.total, !.status = "active", !.version = 1],
     rows |-> <<Row(type, biz, 0, new.total)>>]

Debit(acc, type, biz, q, markUsed) ==
    LET after == acc.lot.avail - q
        L == NextVersion(acc.lot, after, IF after = 0 THEN "depleted" ELSE "active")
    IN  Post(acc, type, biz, [L EXCEPT !.used = @ \/ markUsed])

\* Restore: what comes back to a lot past its expiry expires at once, with the rest.
CanRestore(acc, owner, q) ==
    /\ acc.lot.status # "refunded"
    /\ acc.lot.owner = owner /\ q <= acc.lot.total - acc.lot.avail

Restore(acc, type, biz, q, at) ==
    LET back == Post(acc, type, biz, NextVersion(acc.lot, acc.lot.avail + q, "active"))
    IN  IF acc.lot.exp > at THEN back
        ELSE Post(back, "expiry", biz, NextVersion(back.lot, 0, "expired"))

\* Expire: an error unless the lot is due; a second time changes nothing.
CanExpire(acc, at) == acc.lot.exp <= at /\ acc.lot.status # "refunded"

Expire(acc, biz, at) ==
    IF acc.lot.status = "expired" THEN acc
    ELSE LET gone == NextVersion(acc.lot, 0, "expired")
         IN  IF acc.lot.avail = 0 THEN [acc EXCEPT !.lot = gone] ELSE Post(acc, "expiry", biz, gone)

\* The lots and the ledger after the given accounts were written.
Save(accs) ==
    /\ lot' = [l \in Lots |-> IF l \in DOMAIN accs THEN accs[l].lot ELSE lot[l]]
    /\ book' = [l \in Lots |-> IF l \in DOMAIN accs THEN accs[l].rows ELSE book[l]]

----------------------------------------
\* What the businesses ask of each other's tables.

ActiveRenewalStatuses ==
    {"pending_payment", "payment_unknown", "applying", "compensating_refund", "refund_exception"}

RenewalUnderWay(l) == \E n \in Renewals : renewal[n].lot = l /\ renewal[n].status \in ActiveRenewalStatuses

HeldForRefund(l) == \E p \in Purchases : refund[p].lot = l /\ refund[p].alloc = "held"

HeldFor(l) ==
    \/ \E g \in Gifts : l \in DOMAIN gift[g].alloc /\ gift[g].allocStatus = "held"
    \/ \E r \in Redemptions : l \in DOMAIN redemption[r].alloc /\ redemption[r].allocStatus = "held"
    \/ HeldForRefund(l)

\* The order in which lots are used up: the first to expire, then the oldest (FEFO).
Sooner(k, l) == lot[k].exp < lot[l].exp \/ (lot[k].exp = lot[l].exp /\ k < l)

Ahead(S, l) == SumFunctionOnSet([k \in S |-> lot[k].avail], {k \in S : Sooner(k, l)})

\* How much of q the lots of S give, as a function on the lots that give any; they may
\* not have enough together.
Enough(S, q) == SumFunctionOnSet([l \in S |-> lot[l].avail], S) >= q

Allocation(S, q) ==
    [l \in {l \in S : lot[l].avail > 0 /\ Ahead(S, l) < q} |-> Min({lot[l].avail, q - Ahead(S, l)})]

Usable(c) == {l \in Lots : lot[l].owner = c /\ lot[l].status = "active" /\ lot[l].exp > now /\ lot[l].avail > 0}

\* ExpireLotsOnce: the worker takes a batch of due lots that nobody has locked and that no
\* renewal or refund guards, in one transaction.
ExpireLotsOnce ==
    LET due == {l \in Lots : /\ lot[l].status = "active" /\ lot[l].exp <= now
                             /\ ~RenewalUnderWay(l) /\ ~HeldForRefund(l)}
    IN  \E batch \in (SUBSET due) \ {{}} : Save([l \in batch |-> Expire(Account(l), l, now)])

Tick == now < Horizon /\ now' = now + 1

\* The facts of the ledger the checks look at: the rows of one kind for one business.
RowsOf(l, type, biz) == {i \in DOMAIN book[l] : book[l][i].type = type /\ book[l][i].biz = biz}

OneRow(l, type, biz, delta) == \E i \in DOMAIN book[l] : RowsOf(l, type, biz) = {i} /\ book[l][i].delta = delta

\* reconciliationLotExpiryDescendsFromRows: the expiry of a lot comes from the given one by
\* completed renewals, each beginning where another ended.
CompletedOf(l) == {n \in Renewals : renewal[n].lot = l /\ renewal[n].status = "completed"}

DescendsFrom(l, first) ==
    LET olds == {renewal[n].old : n \in CompletedOf(l)}
        news == {renewal[n].new : n \in CompletedOf(l)}
    IN  /\ Cardinality(olds) = Cardinality(CompletedOf(l))
        /\ first \in olds \cup {lot[l].exp}
        /\ {x \in olds : x >= first} \cup {lot[l].exp} = {first} \cup {x \in news : x > first}
=============================================================================
