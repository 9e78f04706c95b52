----------------------------- MODULE MCPlatform -----------------------------
(***************************************************************************)
(* The parts of the platform that share no state with each other, for TLC: *)
(* wine tickets, access of accounts, customer sign-in, rider applications, *)
(* identity checks, the running processes and their node ids, and alerts.  *)
(* A behaviour is one of one part, drawn at the start; the others rest.    *)
(***************************************************************************)
EXTENDS Tickets, AccountAccess, RiderApplication, Identity, Runtime, Realtime

VARIABLES part,
          side  \* the businesses on the tickets, for the part about them

----------------------------------------
(* Wine tickets: pairs of the businesses on the lots of one giver, with the *)
(* clock and the expiry worker, and each of purchase, renewal and redemption *)
(* against another of its own kind.                                         *)

seeded(c, total, exp) ==
    Issue([NoLot EXCEPT !.owner = c, !.total = total, !.orig = exp, !.exp = exp], "purchase_issue", "earlier")

seeds == [x \in {1, 2} |-> IF x = 1 THEN seeded("c1", 2, 2) ELSE seeded("c1", 1, 5)]

mcWindows == {[start |-> 2, end |-> 3, cutoff |-> 1], [start |-> 2, end |-> 4, cutoff |-> 1]}

\* bound: one of each kind when two businesses meet; only the first purchase is
\* refunded; a compensation is tried twice only while there is one purchase or renewal.
OneEach ==
    /\ (Cardinality(side) = 2 => renewal'["n2"] = NoRenewal /\ purchase'["p2"] = NoPurchase /\ slot'["s2"] = NoSlot)
    /\ refund'["p2"] = NoRefund
    /\ (renewal'["n2"] # NoRenewal => \A n \in Renewals : Len(comp'[n]) <= 1)
    /\ (purchase'["p2"] # NoPurchase => \A p \in Purchases : Len(comp'[p]) <= 1)

TicketPairsInit ==
    /\ side \in {{"gift", "renewal"}, {"gift", "redemption"}, {"redemption", "renewal"}, {"purchase", "gift"},
                 {"purchase", "renewal"}, {"purchase"}, {"renewal"}, {"redemption"}}
    /\ TicketsInit(IF "purchase" \in side THEN <<>> ELSE seeds, 3)

TicketPairsNext ==
    /\ UNCHANGED side
    /\ \/ "gift" \in side /\ GiftTurn
       \/ "renewal" \in side /\ RenewalTurn
       \/ "redemption" \in side /\ RedemptionTurn
       \/ "purchase" \in side /\ PurchaseTurn
       \/ ExpiryTurn
       \/ ClockTurn
    /\ OneEach

----------------------------------------
(* Alerts: of a dispatch that goes to another rider, or of a merchant's     *)
(* orders.                                                                  *)

mcStories == {s \in AllStories : s.who = "rider" => s.open = "grab.opened" /\ s.end = "assigned" /\ ~s.mine}

\* bound: two connections share one alert, or two alerts one connection, or a rider comes
\* back for the second alert; connections are taken in order; the relay worker is at work on one alert for one connection, neither of them
\* cut short by the end of the session or the process.
FewAlerts ==
    LET links  == Cardinality({k \in Links : link'[k].st # "none"})
        alerts == Cardinality({e \in {"open", "end"} : handled'[e] # "no"})
        worked == \E i \in AlertIds : alert'[i].tries > 0
    IN  /\ links + alerts <= 3 \/ (story.who = "rider" /\ link'["k1"].st = "closed" /\ drain' = "no" /\ signed')
        /\ (link'["k2"].st # "none" => link'["k1"].st # "none")
        /\ (worked => links + alerts <= 2 /\ signed' /\ drain' = "no")

----------------------------------------
(* Customer sign-in. *)

\* bound: no phone is bound while codes lapse (binding looks neither at codes nor the clock).
FewBinds == minute' > 0 => binds' = 0

----------------------------------------
ticketVars == <<side, tkvars>>

platformVars == <<part, ticketVars, accessVars, signVars, applyVars, identityVars,
                  runtimeVars, leaseVars, rtvars>>

\* What a resting part would draw is fixed.
PlatformInit ==
    /\ part \in {"tickets", "access", "signin", "riders", "identity",
                 "processes", "nodes", "alerts"}
    /\ TicketPairsInit /\ (part # "tickets" => side = {"purchase"})
    /\ AccessInit /\ (part # "access" => acct.kind = "rider")
    /\ SignInInit /\ ApplyInit /\ IdentityInit /\ LeaseInit
    /\ RealtimeInit /\ (part # "alerts" => story.who = "merchant")
    /\ IF part = "processes" THEN RuntimeInit ELSE cfg = {} /\ up = {} /\ running = <<>>

TicketsPart ==
    /\ part = "tickets" /\ TicketPairsNext
    /\ UNCHANGED <<part, accessVars, signVars, applyVars, identityVars, runtimeVars, leaseVars, rtvars>>

AccessPart ==
    /\ part = "access" /\ AccessNext
    /\ UNCHANGED <<part, ticketVars, signVars, applyVars, identityVars, runtimeVars, leaseVars, rtvars>>

SignInPart ==
    /\ part = "signin" /\ SignInNext /\ FewBinds
    /\ UNCHANGED <<part, ticketVars, accessVars, applyVars, identityVars, runtimeVars, leaseVars, rtvars>>

RidersPart ==
    /\ part = "riders" /\ ApplyNext
    /\ UNCHANGED <<part, ticketVars, accessVars, signVars, identityVars, runtimeVars, leaseVars, rtvars>>

IdentityPart ==
    /\ part = "identity" /\ IdentityNext
    /\ UNCHANGED <<part, ticketVars, accessVars, signVars, applyVars, runtimeVars, leaseVars, rtvars>>

ProcessesPart ==
    /\ part = "processes" /\ RuntimeNext
    /\ UNCHANGED <<part, ticketVars, accessVars, signVars, applyVars, identityVars, leaseVars, rtvars>>

NodesPart ==
    /\ part = "nodes" /\ LeaseNext
    /\ UNCHANGED <<part, ticketVars, accessVars, signVars, applyVars, identityVars, runtimeVars, rtvars>>

AlertsPart ==
    /\ part = "alerts" /\ RealtimeNext /\ FewAlerts
    /\ UNCHANGED <<part, ticketVars, accessVars, signVars, applyVars, identityVars, runtimeVars, leaseVars>>

PlatformNext ==
    \/ TicketsPart \/ AccessPart \/ SignInPart \/ RidersPart \/ IdentityPart
    \/ ProcessesPart \/ NodesPart \/ AlertsPart

PlatformSpec == PlatformInit /\ [][PlatformNext]_platformVars

----------------------------------------
(* Each invariant is evaluated where the part it speaks of is at work.      *)

\* Every lot's tickets are accounted for, through purchases, gifts, redemptions, renewals,
\* refunds and expiry (TicketsReconcile).
LotsReconcile == part = "tickets" => TicketsReconcile

\* A gift token opens one gift once (TokensSpent); the money of a purchase or a renewal goes
\* back at most once (RefundedOnce), and only when what it bought is gone (MoneyForTickets).
SpentOnce == part = "tickets" => TokensSpent /\ RefundedOnce /\ MoneyForTickets

\* What the cabinet and the quotes show of the lots is so (ShownIsTrue).
CabinetIsTrue == part = "tickets" => ShownIsTrue

\* A request is served with the account's present rights (AccessIsCurrent), and what a
\* rider or a merchant should hear of reaches the connections they have (AlertsReach).
RightsAreCurrent ==
    /\ (part = "access" => AccessIsCurrent)
    /\ (part = "alerts" => AlertsReach)

\* People are who they say they are: a sign-in ends with the customer of that WeChat user
\* and that phone (SignInsMatch), an application is decided as it was read by whoever
\* decided it (ApplicationsDecided), and who buys age-restricted goods was found adult
\* (BuyersAreAdults).
PeopleAreKnown ==
    /\ (part = "signin" => SignInsMatch)
    /\ (part = "riders" => ApplicationsDecided)
    /\ (part = "identity" => BuyersAreAdults)

\* What the configuration enables is run by the processes that are up, each shared duty by
\* one owner (EnabledIsServed), and two processes draw ids of one node for no longer than
\* OneNodeOneProcess says.
ProcessesInPlace ==
    /\ (part = "processes" => EnabledIsServed)
    /\ (part = "nodes" => OneNodeOneProcess)
=============================================================================
