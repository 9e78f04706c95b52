----------------------------- MODULE AssetLedger -----------------------------
(***************************************************************************)
(* The double-entry ledger of customer assets (modules/asset): credits and *)
(* debits under a source that may be used once, reversals, holds frozen    *)
(* over several lots and then committed, released or expired, lots that    *)
(* expire, administrators' adjustments, and the worker that pays approved  *)
(* compensations. One customer, one asset type and the platform's control  *)
(* account. Every operation is a transaction that locks the balances; the  *)
(* compensation worker needs three of them.                                *)
(***************************************************************************)
EXTENDS Integers, FiniteSetsExt, Functions

CONSTANTS Sources,       \* source ids of direct transfers (adjustments, tests)
          Compensations, \* rows of compensation_ledger
          Holds,         \* by reservation key
          Payers,        \* the processes of asset.Worker
          Amounts,
          LotBound,      \* bound: lots
          ReversalBound, \* bound: reversals
          PayerFaults    \* bound: deaths, lost leases and failing writes of workers, together

VARIABLES asset,        \* the asset type: "balance" or "growth"
          books,        \* asset_balances and asset_lots
          transfer,     \* asset_transactions of direct transfers, by source
          hold,         \* asset_holds with their asset_hold_lots
          compensation, \* compensation_ledger
          payer,        \* each worker: the row it has claimed and how far it is
          profile,      \* member_profiles: growth and tier
          reversals, hitches

assetVars == <<asset, books, transfer, hold, compensation, payer, profile, reversals, hitches>>

LotIds     == 1..LotBound
NoLot      == [granted |-> 0, available |-> 0, frozen |-> 0, consumed |-> 0, expired |-> 0,
               dated |-> FALSE, past |-> FALSE, listed |-> FALSE]
NoPart     == [amount |-> 0, committed |-> 0, released |-> 0]
NoHold     == [status |-> "none", original |-> 0, committed |-> 0, released |-> 0,
               part |-> [l \in LotIds |-> NoPart]]
NoTransfer == [action |-> "none", amount |-> 0, reversed |-> 0]
NotPaying  == [step |-> "idle", row |-> "none"]
AllSources == Sources \cup Compensations

\* Amounts are positive, and the sources of compensations are of a type of their own.
ASSUME AssetAssumption ==
    /\ IsFiniteSet(Sources) /\ IsFiniteSet(Compensations) /\ IsFiniteSet(Holds)
    /\ Sources \cap Compensations = {}
    /\ Amounts \subseteq Nat \ {0} /\ LotBound \in Nat

AssetInit ==
    /\ asset \in {"balance", "growth"}
    /\ books = [available |-> 0, frozen |-> 0, control |-> 0, lots |-> [l \in LotIds |-> NoLot]]
    /\ transfer = [s \in AllSources |-> NoTransfer]
    /\ hold = [h \in Holds |-> NoHold]
    /\ \E valid \in SUBSET Compensations : compensation = [c \in Compensations |->
          [status |-> IF asset = "balance" THEN "approved" ELSE "none", live |-> FALSE, valid |-> c \in valid]]
    /\ payer = [w \in Payers |-> NotPaying]
    /\ profile = [growth |-> 0, tier |-> "normal"]
    /\ reversals = 0 /\ hitches = PayerFaults

----------------------------------------
\* The order in which lots are used up: those with an expiry first, then by id.
UsedBefore(k, l) ==
    LET D(x) == books.lots[x].dated IN (D(k) /\ ~D(l)) \/ (D(k) = D(l) /\ k < l)

\* How much of an amount falls on lot l when lots give all they have in turn; earlier[l]
\* are the lots whose turn comes before.
Share(amount, has, earlier, l) ==
    Min({has[l], Max({0, amount - SumFunctionOnSet(has, earlier[l])})})

\* What is taken from each lot (consumeLots, and the loop of Freeze).
FromLots(amount) ==
    [l \in LotIds |-> Share(amount, [k \in LotIds |-> books.lots[k].available],
                            [m \in LotIds |-> {k \in LotIds : UsedBefore(k, m)}], l)]

FreeLots == {l \in LotIds : books.lots[l].granted = 0}

\* bound: a lot is kept for each compensation to be paid.
Unpaid    == {c \in Compensations : compensation[c].valid /\ transfer[c].action = "none"}
RoomForMore == Cardinality(FreeLots) > Cardinality(Unpaid)

Credited(amount, dated) ==
    [books EXCEPT !.available = @ + amount, !.control = @ - amount,
                  !.lots[Min(FreeLots)] = [NoLot EXCEPT !.granted = amount, !.available = amount, !.dated = dated]]

Debited(amount) ==
    [books EXCEPT !.available = @ - amount, !.control = @ + amount,
                  !.lots = [l \in LotIds |-> [books.lots[l] EXCEPT !.available = @ - FromLots(amount)[l],
                                                                   !.consumed = @ + FromLots(amount)[l]]]]

\* refreshMemberProfile: only growth makes a tier.
Profile(B) ==
    IF asset = "growth"
    THEN [growth |-> B.available, tier |-> IF B.available >= 2 THEN "silver" ELSE "normal"]
    ELSE profile

\* validateCommand: no growth is paid as a compensation; dated growth is never granted.
\* postTransferWithDB: the transaction row takes the source, so it is posted once; a
\* repeated request gets the answer of the first.
PostTransfer(s, action, amount, dated) ==
    /\ transfer[s].action = "none"
    /\ IF action = "credit" THEN FreeLots # {} ELSE books.available >= amount
    /\ books' = IF action = "credit" THEN Credited(amount, dated) ELSE Debited(amount)
    /\ transfer' = [transfer EXCEPT ![s] = [NoTransfer EXCEPT !.action = action, !.amount = amount]]
    /\ profile' = Profile(books')

\* CreateAdjustment and direct calls. An adjustment that fails for good is only recorded
\* as failed (isTerminalAdjustmentFailure), with everything it posted rolled back.
Transfer(s, action, amount, dated) ==
    /\ s \in Sources /\ (dated => action = "credit" /\ asset = "balance") /\ (action = "credit" => RoomForMore)
    /\ \/ PostTransfer(s, action, amount, dated)
       \/ /\ transfer[s].action = "none" /\ action = "debit" /\ books.available < amount
          /\ transfer' = [transfer EXCEPT ![s].action = "failed"]
          /\ UNCHANGED <<books, profile>>
    /\ UNCHANGED <<asset, hold, compensation, payer, reversals, hitches>>

MayReverse(s, amount) == transfer[s].reversed + amount <= transfer[s].amount

\* ReverseTransfer: of a credit, what is still available; of a debit, as a new lot.
ReverseTransfer(s, amount) ==
    /\ transfer[s].action \in {"credit", "debit"} /\ MayReverse(s, amount) /\ reversals < ReversalBound
    /\ IF transfer[s].action = "debit" THEN RoomForMore ELSE books.available >= amount
    /\ books' = IF transfer[s].action = "debit" THEN Credited(amount, FALSE) ELSE Debited(amount)
    /\ transfer' = [transfer EXCEPT ![s].reversed = @ + amount]
    /\ profile' = Profile(books')
    /\ reversals' = reversals + 1
    /\ UNCHANGED <<asset, hold, compensation, payer, hitches>>

----------------------------------------
Freeze(h, amount) ==
    /\ asset = "balance" /\ hold[h].status = "none" /\ books.available >= amount
    /\ books' = [books EXCEPT !.available = @ - amount, !.frozen = @ + amount,
                    !.lots = [l \in LotIds |-> [books.lots[l] EXCEPT !.available = @ - FromLots(amount)[l],
                                                                     !.frozen = @ + FromLots(amount)[l]]]]
    /\ hold' = [hold EXCEPT ![h] = [NoHold EXCEPT !.status = "active", !.original = amount,
                    !.part = [l \in LotIds |-> [NoPart EXCEPT !.amount = FromLots(amount)[l]]]]]
    /\ UNCHANGED <<asset, transfer, compensation, payer, profile, reversals, hitches>>

HoldRest(H) == H.original - H.committed - H.released
PartRest(P) == P.amount - P.committed - P.released

\* The status applyHold gives.
HoldStatus(H, action) ==
    CASE H.committed = H.original -> "committed"
      [] H.committed < H.original /\ HoldRest(H) = 0 -> IF action = "expire" THEN "expired" ELSE "released"
      [] HoldRest(H) > 0 /\ H.committed > 0 -> "partially_committed"
      [] OTHER -> "active"

\* Of what is released, the part of a lot past its expiry does not come back.
ComesBack(l) == ~(books.lots[l].dated /\ books.lots[l].past)

\* applyHold: the parts of the hold give up the amount in the order of their lots. What is
\* committed, and what has expired meanwhile, goes to the platform.
ApplyHold(h, action, amount) ==
    LET H == hold[h]
        left == [l \in LotIds |-> PartRest(H.part[l])]
        use == [l \in LotIds |-> Share(amount, left, [m \in LotIds |-> 1..(m - 1)], l)]
        commit == action = "commit"
        returned == {l \in LotIds : ~commit /\ ComesBack(l)}
        back == SumFunctionOnSet(use, returned)
        H1 == [H EXCEPT !.committed = IF commit THEN @ + amount ELSE @,
                        !.released = IF commit THEN @ ELSE @ + amount,
                        !.part = [l \in LotIds |->
                            [H.part[l] EXCEPT !.committed = IF commit THEN @ + use[l] ELSE @,
                                              !.released = IF commit THEN @ ELSE @ + use[l]]]]
    IN  /\ H.status \in {"active", "partially_committed"} /\ amount <= HoldRest(H)
        /\ books' = [books EXCEPT
              !.available = @ + back, !.frozen = @ - amount, !.control = @ + amount - back,
              !.lots = [l \in LotIds |->
                 [books.lots[l] EXCEPT !.frozen = @ - use[l],
                                       !.available = IF l \in returned THEN @ + use[l] ELSE @,
                                       !.consumed = IF commit THEN @ + use[l] ELSE @,
                                       !.expired = IF commit \/ l \in returned THEN @ ELSE @ + use[l]]]]
        /\ hold' = [hold EXCEPT ![h] = [H1 EXCEPT !.status = HoldStatus(H1, action)]]
        /\ UNCHANGED <<asset, transfer, compensation, payer, profile, reversals, hitches>>

CommitHold(h, amount)  == ApplyHold(h, "commit", amount)
ReleaseHold(h, amount) == ApplyHold(h, "release", amount)
\* ExpireDueHolds.
ExpireHold(h) == ApplyHold(h, "expire", HoldRest(hold[h]))

LotDateComes(l) ==
    /\ books.lots[l].dated /\ ~books.lots[l].past
    /\ books' = [books EXCEPT !.lots[l].past = TRUE]
    /\ UNCHANGED <<asset, transfer, hold, compensation, payer, profile, reversals, hitches>>

Expiring(l) == books.lots[l].available

\* ExpireDueLots reads the lots that are due and active. A lot is active until something of
\* it expires; one of which a release has expired a part is not read again.
ListDueLot(l) ==
    LET L == books.lots[l] IN
    /\ L.past /\ L.available > 0 /\ L.expired = 0 /\ ~L.listed
    /\ books' = [books EXCEPT !.lots[l].listed = TRUE]
    /\ UNCHANGED <<asset, transfer, hold, compensation, payer, profile, reversals, hitches>>

\* expireLot, which looks at the date and the amount again, and not at the status.
ExpireLot(l) ==
    /\ books.lots[l].listed /\ books.lots[l].past /\ books.lots[l].available > 0
    /\ books' = [books EXCEPT !.available = @ - Expiring(l), !.control = @ + Expiring(l),
                              !.lots[l] = [books.lots[l] EXCEPT !.available = 0, !.expired = @ + Expiring(l)]]
    /\ UNCHANGED <<asset, transfer, hold, compensation, payer, profile, reversals, hitches>>

----------------------------------------
\* claimCompensation: approved, or left in issuing by a lease that has ended.
ClaimCompensation(w, c) ==
    /\ payer[w].step = "idle"
    /\ compensation[c].status \in {"approved", "issuing"} /\ ~compensation[c].live
    /\ compensation' = [compensation EXCEPT ![c].status = "issuing", ![c].live = TRUE]
    /\ payer' = [payer EXCEPT ![w] = [step |-> "claimed", row |-> c]]
    /\ UNCHANGED <<asset, books, transfer, hold, profile, reversals, hitches>>

\* mutant: a retry of a compensation pays it again.
CreditCompensationAgain(c, amount) == PostTransfer(c, "credit", amount, FALSE) \/
    (transfer[c].action # "none" /\ FreeLots # {} /\ books' = Credited(amount, FALSE) /\ UNCHANGED <<transfer, profile>>)

CreditCompensation(c, amount) ==
    PostTransfer(c, "credit", amount, FALSE) \/ (transfer[c].action # "none" /\ UNCHANGED <<books, transfer, profile>>)

\* issueCompensation gives up a row whose asset type or amount can not be paid.
RejectCompensation(w) ==
    LET c == payer[w].row IN
    /\ payer[w].step = "claimed" /\ ~compensation[c].valid
    /\ compensation' = [compensation EXCEPT ![c].status = "failed", ![c].live = FALSE]
    /\ payer' = [payer EXCEPT ![w] = NotPaying]
    /\ UNCHANGED <<asset, books, transfer, hold, profile, reversals, hitches>>

\* Of another the first half is the credit, which fails as a whole or is there.
IssueCompensation(w, amount) ==
    /\ payer[w].step = "claimed" /\ compensation[payer[w].row].valid
    /\ \/ /\ CreditCompensation(payer[w].row, amount)
          /\ payer' = [payer EXCEPT ![w].step = "credited"] /\ UNCHANGED hitches
       \/ /\ hitches > 0 /\ hitches' = hitches - 1
          /\ payer' = [payer EXCEPT ![w].step = "refused"] /\ UNCHANGED <<books, transfer, profile>>
    /\ UNCHANGED <<asset, hold, compensation, reversals>>

\* The second half: issued, if it still reads issuing; after an error approved, whatever
\* it reads.
RecordCompensation(w) ==
    LET c == payer[w].row IN
    /\ payer[w].step \in {"credited", "refused"}
    /\ compensation' = [compensation EXCEPT ![c] =
          IF payer[w].step = "refused" THEN [@ EXCEPT !.status = "approved", !.live = FALSE]
          ELSE IF @.status = "issuing" THEN [@ EXCEPT !.status = "issued", !.live = FALSE] ELSE @]
    /\ payer' = [payer EXCEPT ![w] = NotPaying]
    /\ UNCHANGED <<asset, books, transfer, hold, profile, reversals, hitches>>

PayerDies(w) ==
    /\ payer[w].step # "idle" /\ hitches > 0
    /\ payer' = [payer EXCEPT ![w] = NotPaying] /\ hitches' = hitches - 1
    /\ UNCHANGED <<asset, books, transfer, hold, compensation, profile, reversals>>

CompensationLeaseEnds(c) ==
    /\ compensation[c].live
    /\ compensation' = [compensation EXCEPT ![c].live = FALSE]
    /\ IF \E w \in Payers : payer[w].row = c THEN hitches > 0 /\ hitches' = hitches - 1 ELSE UNCHANGED hitches
    /\ UNCHANGED <<asset, books, transfer, hold, payer, profile, reversals>>

PayerStep(w) ==
    \/ \E c \in Compensations : ClaimCompensation(w, c)
    \/ \E a \in Amounts : a = Min(Amounts) /\ IssueCompensation(w, a)
    \/ RejectCompensation(w) \/ RecordCompensation(w)

AssetNext ==
    \/ \E s \in Sources, action \in {"credit", "debit"}, a \in Amounts, dated \in BOOLEAN :
          Transfer(s, action, a, dated)
    \/ \E s \in AllSources, a \in Amounts : ReverseTransfer(s, a)
    \/ \E h \in Holds : \/ \E a \in Amounts : Freeze(h, a) \/ CommitHold(h, a) \/ ReleaseHold(h, a)
                        \/ ExpireHold(h)
    \/ \E l \in LotIds : LotDateComes(l) \/ ListDueLot(l) \/ ExpireLot(l)
    \/ \E w \in Payers : PayerStep(w) \/ PayerDies(w)
    \/ \E c \in Compensations : CompensationLeaseEnds(c)

AssetFairness ==
    /\ \A w \in Payers : WF_assetVars(PayerStep(w))
    /\ \A c \in Compensations : WF_assetVars(CompensationLeaseEnds(c))

----------------------------------------
Total(f) == SumFunctionOnSet(f, DOMAIN f)

\* What the lots, the holds and the transactions say the balances are (reconcile compares
\* balances with entries, to the same end).
Expected ==
    LET net == Total([s \in AllSources |->
                 CASE transfer[s].action = "credit" -> transfer[s].amount - transfer[s].reversed
                   [] transfer[s].action = "debit" -> transfer[s].reversed - transfer[s].amount
                   [] OTHER -> 0])
        gone == Total([h \in Holds |-> hold[h].committed]) + Total([l \in LotIds |-> books.lots[l].expired])
    IN  [available |-> net - gone - Total([h \in Holds |-> HoldRest(hold[h])]),
         frozen |-> Total([h \in Holds |-> HoldRest(hold[h])]),
         control |-> gone - net]

\* After any sequence of transfers, reversals, holds over several lots that are committed,
\* released or expired in parts, expiring lots and compensations paid by racing workers:
\* the balances are what the transactions, the lots and the holds each say, nothing is
\* negative, no lot gives more than it was granted, no source is posted or reversed beyond
\* its amount, a compensation that reads issued was paid once, and the tier is that of the
\* growth there is (postTransferWithDB, ReverseTransfer, Freeze, applyHold, expireLot,
\* issueCompensation).
AssetsReconcile ==
    /\ [k \in {"available", "frozen", "control"} |-> books[k]] = Expected
    /\ books.available = Total([l \in LotIds |-> books.lots[l].available])
    /\ books.frozen = Total([l \in LotIds |-> books.lots[l].frozen])
    /\ \A l \in LotIds : LET L == books.lots[l] IN
          /\ L.granted = L.available + L.frozen + L.consumed + L.expired
          /\ {L.available, L.frozen, L.consumed, L.expired} \subseteq Nat
          /\ L.frozen = Total([h \in Holds |-> PartRest(hold[h].part[l])])
          /\ (L.expired > 0 => L.past)
    /\ \A s \in AllSources : transfer[s].reversed <= transfer[s].amount
    /\ \A c \in Compensations : compensation[c].status = "issued" => transfer[c].action = "credit"
    /\ (asset = "growth" => profile = Profile(books))

\* Where an approved compensation must get to: paid and recorded, or given up as one that
\* can not be paid. One left in issuing is neither (asset.Worker).
CompensationsPaid ==
    \A c \in Compensations : /\ compensation[c].status \in {"none", "issued", "failed"}
                             /\ (compensation[c].status = "failed" => ~compensation[c].valid)
=============================================================================
