----------------------------- MODULE TicketGift -----------------------------
(***************************************************************************)
(* Giving tickets away (wineticket/gift): the giver's tickets are held for *)
(* a gift, claimed by whoever presents one of its share tokens, or come    *)
(* back when the giver cancels or the deadline passes.                     *)
(*                                                                         *)
(* Every operation locks the gift row, so the version a caller names only  *)
(* tells stale callers apart: they change nothing. The allocations of a    *)
(* gift change status together and share one status here.                  *)
(***************************************************************************)
EXTENDS TicketLots

CONSTANTS ClaimTTL, ShareTTL,
          ActiveTokenMax, \* tokens that can be live at one time
          TokenBound      \* bound: tokens issued to one gift

NoGift == [status |-> "none", giver |-> NoOne, receiver |-> NoOne, qty |-> 0,
           alloc |-> <<>>, srcExp |-> <<>>, rcv |-> <<>>, allocStatus |-> "none",
           deadline |-> 0, earliest |-> 0, tokens |-> <<>>]

GiftTerminal == {"claimed", "cancelled", "expired_returned"}

\* The row of a new gift and its allocations: to be claimed before the first of its
\* tickets expires.
NewGift(c, q, taken) ==
    LET earliest == Min({lot[l].exp : l \in DOMAIN taken})
    IN  [NoGift EXCEPT !.status = "pending", !.giver = c, !.qty = q, !.alloc = taken,
                       !.srcExp = [l \in DOMAIN taken |-> lot[l].exp],
                       !.allocStatus = "held", !.earliest = earliest,
                       !.deadline = Min({now + ClaimTTL, earliest})]

\* selectGiftFEFO over the lots of the giver's group, which are locked by then. The check
\* for renewals reads the rows of today under a lock.
CreateGift(g, c, q) ==
    /\ gift[g].status = "none"
    /\ Enough(Usable(c), q)
    /\ LET taken == Allocation(Usable(c), q)
       IN  /\ \A l \in DOMAIN taken : ~RenewalUnderWay(l)
           /\ Save([l \in DOMAIN taken |-> Debit(Account(l), "gift_hold", g, taken[l], TRUE)])
           /\ gift' = [gift EXCEPT ![g] = NewGift(c, q, taken)]

\* validateGiftHoldEvidence: the hold rows and the source lots still say what the gift
\* says. When they do not, the operation fails and the tickets stay held.
GiftEvidence(g) ==
    /\ SumFunctionOnSet(gift[g].alloc, DOMAIN gift[g].alloc) = gift[g].qty
    /\ \A l \in DOMAIN gift[g].alloc :
          /\ lot[l].owner = gift[g].giver /\ lot[l].exp = gift[g].srcExp[l]
          /\ OneRow(l, "gift_hold", g, -gift[g].alloc[l])

Revoked(tokens) == [i \in DOMAIN tokens |-> IF tokens[i].state = "live" THEN [tokens[i] EXCEPT !.state = "revoked"]
                                            ELSE tokens[i]]

\* restoreGiftLocked.
GiveBack(g, terminal, at) ==
    /\ GiftEvidence(g)
    /\ \A l \in DOMAIN gift[g].alloc : CanRestore(Account(l), gift[g].giver, gift[g].alloc[l])
    /\ Save([l \in DOMAIN gift[g].alloc |-> Restore(Account(l), "gift_restore", g, gift[g].alloc[l], at)])
    /\ gift' = [gift EXCEPT ![g].status = terminal, ![g].allocStatus = "restored",
                            ![g].tokens = Revoked(@)]

PastDeadline(g) == gift[g].status = "pending" /\ now >= gift[g].deadline
Claimable(g)    == gift[g].status = "pending" /\ now < gift[g].deadline

\* Whoever asks for a token, a claim or the cancellation of a gift past its deadline gets
\* a refusal, and the gift is given back on the way.
GiveBackLate(g) == PastDeadline(g) /\ GiveBack(g, "expired_returned", now)

LiveTokens(g) == {i \in DOMAIN gift[g].tokens : gift[g].tokens[i].state = "live" /\ gift[g].tokens[i].exp > now}

CreateShareToken(g) ==
    /\ Claimable(g) /\ Cardinality(LiveTokens(g)) < ActiveTokenMax
    /\ Len(gift[g].tokens) < TokenBound
    /\ LET exp == Min({now + ShareTTL, gift[g].deadline, gift[g].earliest})
       IN  /\ now < exp
           /\ gift' = [gift EXCEPT ![g].tokens = Append(@, [exp |-> exp, state |-> "live"])]
    /\ UNCHANGED <<lot, book>>

\* Claim: a lot of the receiver for every lot the gift came from, as old and as often
\* renewed; the other tokens die.
Heir(c, l, g) ==
    [NoLot EXCEPT !.owner = c, !.total = gift[g].alloc[l], !.orig = lot[l].orig, !.exp = lot[l].exp,
                  !.renewals = lot[l].renewals, !.used = TRUE, !.from = <<g, l>>]

\* A new lot for each of the given ones, the lowest identifiers in their order.
NewLots(from) ==
    LET free == {l \in Lots : lot[l] = NoLot}
    IN  {rcv \in Injection(from, free) :
            /\ \A k, l \in from : k < l => rcv[k] < rcv[l]
            /\ \A j \in free \ Range(rcv), l \in from : rcv[l] < j}

HeirOf(rcv, k) == CHOOSE l \in DOMAIN rcv : rcv[l] = k

\* The rows of a gift once its receiver has the tickets.
Claimed(G, c, rcv, i) ==
    [G EXCEPT !.status = "claimed", !.receiver = c, !.rcv = rcv, !.allocStatus = "claimed",
              !.tokens = Revoked([@ EXCEPT ![i].state = "consumed"])]

ClaimGift(g, c, i) ==
    /\ Claimable(g) /\ i \in LiveTokens(g)
    /\ c # gift[g].giver
    /\ GiftEvidence(g) /\ gift[g].allocStatus = "held"
    /\ \E rcv \in NewLots(DOMAIN gift[g].alloc) :
          /\ Save([k \in Range(rcv) |-> Issue(Heir(c, HeirOf(rcv, k), g), "gift_claim", g)])
          /\ gift' = [gift EXCEPT ![g] = Claimed(@, c, rcv, i)]

CancelGift(g) == Claimable(g) /\ GiveBack(g, "cancelled", now)

\* ExpireDue: the worker reads the clock before it locks the first gift, so the time it
\* restores with may be a little old.
ExpireDueGift(g) ==
    \E at \in {t \in {now - 1, now} : t >= gift[g].deadline} :
        gift[g].status = "pending" /\ GiveBack(g, "expired_returned", at)

GiftRequest ==
    \E g \in Gifts :
        \/ \E c \in Customers : \E q \in 1..3 : CreateGift(g, c, q)
        \/ CreateShareToken(g)
        \/ \E c \in Customers : \E i \in DOMAIN gift[g].tokens : ClaimGift(g, c, i)
        \/ CancelGift(g)

GiftStep == GiftRequest \/ \E g \in Gifts : GiveBackLate(g) \/ ExpireDueGift(g)

----------------------------------------
\* checkGiftFacts: what the nightly reconciliation demands of a gift. A claimed lot may
\* have been renewed since.
GiftRule(g) ==
    LET G == gift[g] IN
    G.status # "none" =>
        /\ SumFunctionOnSet(G.alloc, DOMAIN G.alloc) = G.qty
        /\ \A l \in DOMAIN G.alloc :
              /\ lot[l].owner = G.giver /\ G.alloc[l] <= lot[l].total
              /\ OneRow(l, "gift_hold", g, -G.alloc[l])
              /\ (G.allocStatus = "held" => lot[l].exp = G.srcExp[l])
              /\ (G.allocStatus = "restored" => OneRow(l, "gift_restore", g, G.alloc[l]))
              /\ (G.allocStatus = "claimed" =>
                    LET R == lot[G.rcv[l]]
                    IN  /\ R.owner = G.receiver /\ R.from = <<g, l>> /\ R.total = G.alloc[l]
                        /\ DescendsFrom(G.rcv[l], G.srcExp[l])
                        /\ OneRow(G.rcv[l], "gift_claim", g, G.alloc[l]))
        /\ G.allocStatus = (CASE G.status = "pending" -> "held"
                              [] G.status = "claimed" -> "claimed"
                              [] OTHER -> "restored")
        /\ (G.receiver # NoOne <=> G.status = "claimed") /\ G.receiver # G.giver

\* A token opens its gift once: no gift has two consumed tokens, and a gift that is over
\* has no live one (Claim, restoreGiftLocked).
TokensSpent ==
    \A g \in Gifts :
        /\ Cardinality({i \in DOMAIN gift[g].tokens : gift[g].tokens[i].state = "consumed"}) =
              (IF gift[g].status = "claimed" THEN 1 ELSE 0)
        /\ (gift[g].status \in GiftTerminal => \A i \in DOMAIN gift[g].tokens : gift[g].tokens[i].state # "live")
=============================================================================
