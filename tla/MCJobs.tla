------------------------------- MODULE MCJobs -------------------------------
(***************************************************************************)
(* What must come to an end, for TLC: the fulfilment of an order (on the   *)
(* stretches of MCFulfilment) and the work of the workers: messages, print *)
(* tasks, notifications, the nightly check of the tickets, reminders, the  *)
(* customer's assets and the provider's bills.  They share no state, so a  *)
(* behaviour is one of one part, drawn at the start, while the others rest. *)
(***************************************************************************)
EXTENDS MCFulfilment, Consumer, PrintJob, Notification, TicketIntegrity, TicketReminder,
        AssetLedger, Bills

CONSTANTS s1, s2, p1, t1, w2, n1, v1, v2

VARIABLE part

MCKinds == Kinds

jobVars == <<part, all, cvars, pvars, nvars, integrityVars, remVars, assetVars, billVars>>

\* What a resting part would draw is fixed; a resting part has no work to do.
JobsInit ==
    /\ part \in {"fulfilment", "messages", "printing", "notices", "integrity", "reminders",
                 "assets", "bills"}
    /\ FulfilInit /\ side \in {"search", "back", "refund"} /\ (part # "fulfilment" => side = "refund")
    /\ ConsumerInit /\ (part # "messages" => kind = CHOOSE k \in [Pairs -> KindSet] : TRUE)
    /\ PrintInit /\ NotifyInit /\ ReminderInit
    /\ IntegrityInit /\ wrong = {<<2, 1>>}
    /\ AssetInit /\ (asset = "growth" => \A c \in Compensations : compensation[c].valid)
    /\ (part # "assets" => asset = "growth")
    /\ BillsInit /\ (part # "bills" => billed = {UnknownEntry} /\ local.pay = "paying")

\* The provider's callbacks are part of the stretch about refunds.
FulfilmentPart ==
    /\ part = "fulfilment" /\ FulfilNext
    /\ (side = "back" => UNCHANGED heard)
    /\ UNCHANGED <<part, cvars, pvars, nvars, integrityVars, remVars, assetVars, billVars>>

\* A second copy is sent, or something fails on the way of the first, of the events whose
\* handling has the most steps.
MessagesPart ==
    /\ part = "messages" /\ ConsumerNext
    /\ \A p \in Pairs : sent'[p] + faults' <= IF kind[p] \in {"plain", "reliable"} THEN MaxSends ELSE 1
    /\ UNCHANGED <<part, all, pvars, nvars, integrityVars, remVars, assetVars, billVars>>

PrintingPart ==
    /\ part = "printing" /\ PrintNext
    /\ UNCHANGED <<part, all, cvars, nvars, integrityVars, remVars, assetVars, billVars>>

NoticesPart ==
    /\ part = "notices" /\ NotifyNext
    /\ UNCHANGED <<part, all, cvars, pvars, integrityVars, remVars, assetVars, billVars>>

IntegrityPart ==
    /\ part = "integrity" /\ IntegrityNext
    /\ UNCHANGED <<part, all, cvars, pvars, nvars, remVars, assetVars, billVars>>

RemindersPart ==
    /\ part = "reminders" /\ ReminderNext
    /\ UNCHANGED <<part, all, cvars, pvars, nvars, integrityVars, assetVars, billVars>>

AssetsPart ==
    /\ part = "assets" /\ AssetNext
    /\ UNCHANGED <<part, all, cvars, pvars, nvars, integrityVars, remVars, billVars>>

BillsPart ==
    /\ part = "bills" /\ BillsNext
    /\ UNCHANGED <<part, all, cvars, pvars, nvars, integrityVars, remVars, assetVars>>

JobsNext ==
    \/ FulfilmentPart \/ MessagesPart \/ PrintingPart \/ NoticesPart
    \/ IntegrityPart \/ RemindersPart \/ AssetsPart \/ BillsPart

\* The workers' tickers and the clock go on, leases end by the clock, and a call to the
\* provider ends. The fairness of a part with work to do from the start is stated here, for
\* when it is the one drawn.
DailyFairness ==
    /\ \A w \in Replicas : WF_integrityVars(part = "integrity" /\ IntegrityAgent(w))
    /\ WF_integrityVars(part = "integrity" /\ LeaseEnds)
    /\ \A w \in Reminders : WF_remVars(part = "reminders" /\ ReminderStep(w))
    /\ \A f \in Facts : WF_remVars(part = "reminders" /\ SendLeaseEnds(f))
    /\ WF_billVars(part = "bills" /\ RunDue("worker"))
    /\ \A c \in Clerks :
          /\ WF_billVars(part = "bills" /\ AcquireRun(c))
          /\ WF_billVars(part = "bills" /\ CompleteRun(c))
          /\ WF_billVars(part = "bills" /\ \E answer \in {"good", "bad", "error"} : OpenBill(c, answer))
    /\ \A d \in BillDates, t \in BillTypes : WF_billVars(part = "bills" /\ RunGoesStale(d, t))

JobsSpec ==
    /\ JobsInit /\ [][JobsNext]_jobVars
    /\ DispatchFairness /\ RefundFairness /\ ReturnFairness
    /\ ConsumerFairness /\ PrintFairness /\ NotifyFairness /\ AssetFairness
    /\ DailyFairness

----------------------------------------
\* What reads done was done, and done once: a print task that reads succeeded was taken by
\* its provider; a notification that does was answered without an error, and either taken
\* or left in a status that the worker does not read; a second copy is printed only after
\* an interrupted attempt; and a customer is reminded of an expiry once (printjob,
\* notification and reminder workers: claim, finish).
WorkIsReal ==
    /\ PrintTypeOK /\ NotifyTypeOK
    /\ SucceededIsPrinted /\ SucceededIsSent /\ PrintedAgainOnlyIfInterrupted
    /\ RemindedOnce

\* The books agree: the customer's balances with what was posted (AssetsReconcile), the
\* provider's bills with the payments and refunds here (BillsTellTheTruth).
BooksAgree == AssetsReconcile /\ BillsTellTheTruth

\* Nothing that was begun is left lying, through deaths of workers, lost leases and unknown
\* outcomes: in the end, and for good, deliveries have a rider or an administrator, refunds
\* have ended and returns are closed; receipts, print tasks and notifications have succeeded
\* or are dead for an administrator to see; the nightly cycle is complete; reminders are
\* sent or given up; approved compensations are paid, or failed if they can not be; the
\* bills of past days are compared.
WorkSettles ==
    <>[] /\ FulfilmentSettled /\ ReceiptsSettled /\ PrintTasksSettled /\ NoticesSettled
         /\ RemindersEnded /\ CompensationsPaid
         /\ (part = "integrity" => CycleEnded)
         /\ (part = "bills" => BillsComplete)
=============================================================================
