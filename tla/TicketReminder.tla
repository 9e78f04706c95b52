--------------------------- MODULE TicketReminder ---------------------------
(***************************************************************************)
(* Reminders of the expiry of wine tickets (wineticket/reminder). For every*)
(* lot and expiry date a worker writes one inbox reminder, with its message*)
(* and event in the same transaction, and one reminder for a WeChat message*)
(* which a dispatcher sends with one of the customer's one-time consents.  *)
(* The provider is called between two transactions.                        *)
(***************************************************************************)
EXTENDS Integers

CONSTANTS RemindedLots, ExpiryDates, \* a date is a moment of the clock
          Reminders,                 \* the processes of ExpiryReminderWorker
          Consents,                  \* of the one customer who owns the lots
          ReminderFaults             \* bound: deaths, slow calls, calls not attempted, together

\* There is a first date.
ASSUME ReminderAssumption == \E d \in ExpiryDates : \A e \in ExpiryDates : d <= e

VARIABLES clock,
          batch,     \* RemindedLots -> [expires, rest]: rest is what is left to remind of
          fact,      \* wine_ticket_reminders of both channels, by lot and date
          consent,   \* notification_subscription_consents
          reminder,  \* each worker: what it has read or claimed
          mishaps,
          \* history: inbox messages, and WeChat messages the provider took, by reminder and consent
          inboxed, told, used

remVars == <<clock, batch, fact, consent, reminder, mishaps, inboxed, told, used>>

Facts  == RemindedLots \X ExpiryDates
Horizon == CHOOSE d \in ExpiryDates : \A e \in ExpiryDates : e <= d
NoFact == [inbox |-> "none", wechat |-> "none", attempts |-> 0, owner |-> "none", live |-> FALSE]
AtRest == [step |-> "idle", at |-> 0, fact |-> <<>>, consent |-> "none", outcome |-> "none"]

ReminderInit ==
    /\ clock = 0
    /\ batch = [l \in RemindedLots |-> [expires |-> CHOOSE d \in ExpiryDates : \A e \in ExpiryDates : d <= e,
                                        rest |-> "some"]]
    /\ fact = [f \in Facts |-> NoFact]
    /\ consent = [c \in Consents |-> [status |-> "none", by |-> <<>>]]
    /\ reminder = [w \in Reminders |-> AtRest]
    /\ mishaps = ReminderFaults
    /\ inboxed = [f \in Facts |-> 0]
    /\ told = [f \in Facts |-> 0] /\ used = [c \in Consents |-> 0]

\* RecordConsent. A row never gets an expires_at, so expireAvailableConsents finds none.
RecordConsent(c, status) ==
    /\ consent[c].status = "none" /\ status \in {"available", "rejected", "unknown"}
    /\ consent' = [consent EXCEPT ![c].status = status]
    /\ UNCHANGED <<clock, batch, fact, reminder, mishaps, inboxed, told, used>>

----------------------------------------
\* reminderScheduledAt: one unit before the date. (A renewal puts the date off, and makes
\* it no earlier than the moment of the renewal, which is earlier still.)
ScheduledAt(d) == d - 1

\* reminderLotEligibility, against the date that was read; a lot that is neither active
\* nor depleted has changed, too.
Eligibility(l, d, at) ==
    CASE batch[l].expires # d \/ batch[l].rest = "ended" -> "LOT_FACT_CHANGED"
      [] batch[l].expires = d /\ batch[l].rest # "ended" /\ at >= d -> "LOT_EXPIRED"
      [] batch[l].expires = d /\ batch[l].rest = "none" /\ at < d -> "NO_REMAINING_BOTTLES"
      [] OTHER -> "ok"

\* materializationCandidates, a read outside of any transaction.
ReadLot(w, l) ==
    LET d == batch[l].expires IN
    /\ reminder[w].step = "idle"
    /\ batch[l].rest = "some" /\ ScheduledAt(d) <= clock /\ clock < d
    /\ "none" \in {fact[<<l, d>>].inbox, fact[<<l, d>>].wechat}
    /\ reminder' = [reminder EXCEPT ![w] = [AtRest EXCEPT !.step = "lot", !.at = clock, !.fact = <<l, d>>]]
    /\ UNCHANGED <<clock, batch, fact, consent, mishaps, inboxed, told, used>>

\* createReminderFact of the repository: nothing happens when the row is there.
Insert(f, inbox, wechat) ==
    [fact EXCEPT ![f].inbox = IF @ = "none" THEN inbox ELSE @,
                 ![f].wechat = IF @ = "none" THEN wechat ELSE @]

\* materializeLotReminder: the lot is locked and looked at again; what was read and is no
\* longer so is written down as skipped, under the date that was read.
MaterializeLotReminder(w) ==
    LET f == reminder[w].fact
        code == Eligibility(f[1], f[2], reminder[w].at)
    IN  /\ reminder[w].step = "lot"
        /\ fact' = CASE code = "ok" -> Insert(f, "sent", "pending")
                     [] code = "NO_REMAINING_BOTTLES" -> fact
                     [] OTHER -> Insert(f, "skipped", "skipped")
        /\ inboxed' = [inboxed EXCEPT ![f] = @ + (IF code = "ok" /\ fact[f].inbox = "none" THEN 1 ELSE 0)]
        /\ reminder' = [reminder EXCEPT ![w] = AtRest]
        /\ UNCHANGED <<clock, batch, consent, mishaps, told, used>>

----------------------------------------
\* dispatchCandidates.
ReadReminder(w, f) ==
    /\ reminder[w].step = "idle"
    /\ fact[f].wechat = "pending" /\ ScheduledAt(f[2]) <= clock
    /\ (fact[f].attempts = 0 \/ ~fact[f].live)
    /\ reminder' = [reminder EXCEPT ![w] = [AtRest EXCEPT !.step = "due", !.at = clock, !.fact = f]]
    /\ UNCHANGED <<clock, batch, fact, consent, mishaps, inboxed, told, used>>

MayBeSending(f) == fact[f].attempts > 0

\* updateSendingConsentsByReminder.
ConsentsOf(f, status) ==
    [c \in Consents |-> IF consent[c] = [status |-> "sending", by |-> f]
                        THEN [status |-> status, by |-> f] ELSE consent[c]]

\* claimReminderForSend, one transaction under the locks of the lot and the reminder. A
\* reminder whose lease has ended may have been sent: it is never sent again. One that is
\* late, whose lot has changed, or whose customer has no product name, identity (reachable)
\* or consent is skipped; the others take a consent and the lease.
ClaimReminderForSend(w, reachable) ==
    LET f == reminder[w].fact
        free == {c \in Consents : consent[c].status = "available"}
        rest(values) == /\ fact' = [fact EXCEPT ![f] = values]
                        /\ reminder' = [reminder EXCEPT ![w] = AtRest]
    IN  /\ reminder[w].step = "due"
        /\ \/ /\ fact[f].wechat # "pending" \/ (MayBeSending(f) /\ fact[f].live)
              /\ rest(fact[f]) /\ UNCHANGED consent
           \/ /\ fact[f].wechat = "pending" /\ MayBeSending(f) /\ ~fact[f].live
              /\ rest([fact[f] EXCEPT !.wechat = "failed", !.owner = "none"])
              /\ consent' = ConsentsOf(f, "unknown")
           \/ /\ fact[f].wechat = "pending" /\ ~MayBeSending(f)
              /\ (Eligibility(f[1], f[2], reminder[w].at) # "ok" \/ ~reachable \/ free = {})
              /\ rest([fact[f] EXCEPT !.wechat = "skipped"]) /\ UNCHANGED consent
           \/ /\ fact[f].wechat = "pending" /\ ~MayBeSending(f)
              /\ Eligibility(f[1], f[2], reminder[w].at) = "ok" /\ reachable
              /\ \E c \in free :
                    /\ consent' = [consent EXCEPT ![c] = [status |-> "sending", by |-> f]]
                    /\ fact' = [fact EXCEPT ![f].attempts = 1, ![f].owner = w, ![f].live = TRUE]
                    /\ reminder' = [reminder EXCEPT ![w].step = "claimed", ![w].consent = c]
        /\ UNCHANGED <<clock, batch, mishaps, inboxed, told, used>>

\* The condition of updateOwnedReminder.
OwnsClaim(w) ==
    LET F == fact[reminder[w].fact] IN F.wechat = "pending" /\ F.attempts = 1 /\ F.owner = w

\* What the end of a claim writes, if the claim is still the worker's.
WriteOwned(w, values, status) ==
    LET f == reminder[w].fact
        c == reminder[w].consent
        by == IF status = "available" THEN <<>> ELSE f
    IN  /\ reminder' = [reminder EXCEPT ![w] = AtRest]
        /\ IF OwnsClaim(w)
           THEN /\ fact' = [fact EXCEPT ![f] = values]
                /\ consent' = [consent EXCEPT ![c] = IF consent[c] = [status |-> "sending", by |-> f]
                                                     THEN [status |-> status, by |-> by] ELSE @]
           ELSE UNCHANGED <<fact, consent>>
        /\ UNCHANGED <<clock, batch, inboxed, told, used>>

\* cancelReminderClaimBeforeSend: the date has passed since the batch was read.
CancelClaimBeforeSend(w) ==
    LET F == fact[reminder[w].fact] IN
    /\ reminder[w].step = "claimed" /\ clock >= reminder[w].fact[2]
    /\ WriteOwned(w, [F EXCEPT !.wechat = "skipped", !.owner = "none", !.live = FALSE], "available")
    /\ UNCHANGED mishaps

\* The call of the provider: it takes the message and says so, or its answer is lost, or
\* it refuses, or, without an access token, nothing was attempted.
SendReminder(w, outcome) ==
    LET took == outcome \in {"succeeded", "unknown"} IN
    /\ reminder[w].step = "claimed" /\ clock < reminder[w].fact[2]
    /\ outcome \in {"succeeded", "unknown", "exhausted", "not_attempted"}
    /\ IF outcome = "not_attempted" THEN mishaps > 0 /\ mishaps' = mishaps - 1 ELSE UNCHANGED mishaps
    /\ told' = [told EXCEPT ![reminder[w].fact] = @ + (IF took THEN 1 ELSE 0)]
    /\ used' = [used EXCEPT ![reminder[w].consent] = @ + (IF took THEN 1 ELSE 0)]
    /\ reminder' = [reminder EXCEPT ![w].step = "sent", ![w].outcome = outcome]
    /\ UNCHANGED <<clock, batch, fact, consent, inboxed>>

\* reminderProviderOutcome.
ReminderStatus(outcome) == IF outcome = "succeeded" THEN "sent" ELSE "failed"
ConsentStatus(outcome)  == IF outcome = "succeeded" THEN "consumed" ELSE outcome

\* finishReminderSend; a call that was not attempted is taken back.
FinishReminderSend(w) ==
    LET F == fact[reminder[w].fact]
        outcome == reminder[w].outcome
    IN  /\ reminder[w].step = "sent"
        /\ IF outcome = "not_attempted"
           THEN WriteOwned(w, [F EXCEPT !.attempts = 0, !.owner = "none", !.live = FALSE], "available")
           ELSE WriteOwned(w, [F EXCEPT !.wechat = ReminderStatus(outcome), !.owner = "none", !.live = FALSE],
                           ConsentStatus(outcome))
        /\ UNCHANGED mishaps

----------------------------------------
ReminderWorkerDies(w) ==
    /\ reminder[w].step # "idle" /\ mishaps > 0
    /\ reminder' = [reminder EXCEPT ![w] = AtRest] /\ mishaps' = mishaps - 1
    /\ UNCHANGED <<clock, batch, fact, consent, inboxed, told, used>>

\* Time passes locked_until; for a claim whose worker lives that is a slow call.
SendLeaseEnds(f) ==
    /\ fact[f].live
    /\ fact' = [fact EXCEPT ![f].live = FALSE]
    /\ IF \E w \in Reminders : fact[f].owner = w /\ reminder[w].fact = f /\ reminder[w].step # "due"
       THEN mishaps > 0 /\ mishaps' = mishaps - 1 ELSE UNCHANGED mishaps
    /\ UNCHANGED <<clock, batch, consent, reminder, inboxed, told, used>>

TimePasses ==
    /\ clock < Horizon
    /\ clock' = clock + 1
    /\ UNCHANGED <<batch, fact, consent, reminder, mishaps, inboxed, told, used>>

\* The lot meanwhile: renewed to a later date, drunk up, or refunded or expired.
LotChanges(l) ==
    /\ batch[l].rest # "ended"
    /\ \/ \E d \in ExpiryDates : /\ d > batch[l].expires /\ clock < batch[l].expires
                                 /\ batch' = [batch EXCEPT ![l].expires = d]
       \/ \E rest \in {"none", "ended"} : batch[l].rest # rest /\ batch' = [batch EXCEPT ![l].rest = rest]
    /\ UNCHANGED <<clock, fact, consent, reminder, mishaps, inboxed, told, used>>

ReminderStep(w) ==
    \/ \E l \in RemindedLots : ReadLot(w, l)
    \/ MaterializeLotReminder(w)
    \/ \E f \in Facts : ReadReminder(w, f)
    \/ \E reachable \in BOOLEAN : ClaimReminderForSend(w, reachable)
    \/ CancelClaimBeforeSend(w)
    \/ \E o \in {"succeeded", "unknown", "exhausted", "not_attempted"} : SendReminder(w, o)
    \/ FinishReminderSend(w)

ReminderNext ==
    \/ \E c \in Consents, s \in {"available", "rejected", "unknown"} : RecordConsent(c, s)
    \/ \E w \in Reminders : ReminderStep(w) \/ ReminderWorkerDies(w)
    \/ \E f \in Facts : SendLeaseEnds(f)
    \/ \E l \in RemindedLots : LotChanges(l)
    \/ TimePasses

----------------------------------------
\* Whatever process died, was slow or raced another: a lot's expiry puts one message into
\* the inbox and, with the WeChat message, reaches the customer at most once; a consent is
\* good for one message, is consumed for a message that was taken and is offered again
\* only if none was; a consent is being used only by a reminder that is being sent, and
\* what reads sent was sent (materializeLotReminder, claimReminderForSend,
\* finishReminderSend).
RemindedOnce ==
    /\ \A f \in Facts :
          /\ inboxed[f] = (IF fact[f].inbox = "sent" THEN 1 ELSE 0)
          /\ told[f] <= 1
          /\ (fact[f].wechat = "sent" => told[f] = 1)
          /\ (fact[f].wechat \in {"none", "skipped"} => told[f] = 0)
    /\ \A c \in Consents :
          /\ used[c] <= 1
          /\ (consent[c].status = "consumed" => used[c] = 1)
          /\ (consent[c].status \in {"available", "rejected"} => used[c] = 0)
          /\ (consent[c].status = "sending" =>
                fact[consent[c].by].wechat = "pending" /\ fact[consent[c].by].attempts = 1)

\* Where a WeChat reminder that is due must get to: sent, skipped or given up
\* (DispatchRemindersOnce).
RemindersEnded == \A f \in Facts : fact[f].wechat # "pending"
=============================================================================
