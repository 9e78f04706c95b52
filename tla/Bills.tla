------------------------------- MODULE Bills -------------------------------
(***************************************************************************)
(* Reconciliation with the provider's daily bills (internal/modules/       *)
(* reconciliation): the worker and an administrator's manual run claim the *)
(* row of a date and a bill type, download the bill, compare it with the   *)
(* payments and refunds of this system and write every discrepancy in the  *)
(* transaction that completes the row.                                     *)
(*                                                                         *)
(* There is one payment, numbered "p", with trade "t" once it succeeded,   *)
(* and one refund of it, numbered "r", with the provider's number "f" once *)
(* accepted, both of date 1; what the bill says of them varies.            *)
(***************************************************************************)
EXTENDS Integers, FiniteSets, Sequences, FiniteSetsExt

CONSTANTS Clerks,     \* the worker "worker" and the administrators' manual runs
          DateBound,  \* bound: dates
          PerCycle,   \* BackfillDaysPerCycle
          BillFaults  \* bound: failed and damaged downloads, deaths, late finishes

VARIABLES today,    \* bills up to yesterday can be downloaded
          billed,   \* what the provider has on record for date 1
          local,    \* the payment and the refund here
          run,      \* wechat_bill_reconciliation_runs with their discrepancies
          clerk,    \* each clerk: what is left of its cycle, the run it holds
          spoiled,
          compared  \* history: the local rows the trade bill of date 1 was compared with

billVars == <<today, billed, local, run, clerk, spoiled, compared>>

BillDates == 1..DateBound
BillTypes == {"trade", "fund"}

NotBilled == [kind |-> "none", no |-> "", trade |-> "", refund |-> "", amount |-> 0, status |-> ""]
PaymentEntry == [kind |-> "payment", no |-> "p", trade |-> "t", refund |-> "", amount |-> 1, status |-> "SUCCESS"]
RefundEntry  == [kind |-> "refund", no |-> "r", trade |-> "t", refund |-> "f", amount |-> 1, status |-> "SUCCESS"]
UnknownEntry == [kind |-> "unknown", no |-> "z", trade |-> "v", refund |-> "", amount |-> 0, status |-> "NEW"]

\* parseRecord: entries of the trade bill that differ from ours in one field, or in both numbers.
PaymentEntries == {NotBilled, PaymentEntry,
    [PaymentEntry EXCEPT !.no = "x"], [PaymentEntry EXCEPT !.trade = "u"],
    [PaymentEntry EXCEPT !.no = "x", !.trade = "u"], [PaymentEntry EXCEPT !.amount = 2]}
RefundEntries == {NotBilled, RefundEntry,
    [RefundEntry EXCEPT !.no = "y"], [RefundEntry EXCEPT !.refund = "g"], [RefundEntry EXCEPT !.trade = "u"],
    [RefundEntry EXCEPT !.no = "y", !.refund = "g"], [RefundEntry EXCEPT !.amount = 2],
    [RefundEntry EXCEPT !.status = "FAIL"]}

NoFile == [rows |-> {}, count |-> -1, sameDay |-> TRUE, intact |-> TRUE]
Free   == [step |-> "idle", todo |-> <<>>, version |-> 0, file |-> NoFile]

BillsInit ==
    /\ today = 1
    /\ \/ \E e \in PaymentEntries : billed = {e, RefundEntry} \ {NotBilled}
       \/ \E e \in RefundEntries : billed = {PaymentEntry, e} \ {NotBilled}
       \/ billed = {UnknownEntry}
    /\ local \in [pay : {"paying", "succeeded"}, refund : {"none", "submitting", "pending", "succeeded"}]
    /\ (local.refund # "none" => local.pay = "succeeded")
    \* bound: what can fail does so with the bill that is as it should be
    /\ spoiled = IF billed = {PaymentEntry, RefundEntry} /\ local.pay = "succeeded" THEN 0 ELSE BillFaults
    /\ run = [d \in BillDates |-> [t \in BillTypes |->
                [status |-> "none", stale |-> FALSE, version |-> 0, found |-> {}, count |-> 0, resolved |-> FALSE]]]
    /\ clerk = [c \in Clerks |-> Free]
    /\ compared = local

----------------------------------------
Completed(d, t) == run[d][t].status \in {"succeeded", "no_statement"}
Window == 1..(today - 1)

\* missingBillDates: the oldest dates without both bills, at most PerCycle of them.
MissingDates ==
    LET missing == {d \in Window : \E t \in BillTypes : ~Completed(d, t)} IN
    {d \in missing : Cardinality({e \in missing : e < d}) < PerCycle}

\* runDue: both types of each date, in order.
Cycle(D) == [i \in 1..2 * Cardinality(D) |->
               <<CHOOSE d \in D : Cardinality({e \in D : e < d}) = (i - 1) \div 2,
                 IF i % 2 = 1 THEN "trade" ELSE "fund">>]

RunDue(c) ==
    /\ c = "worker" /\ clerk[c] = Free /\ MissingDates # {}
    /\ clerk' = [clerk EXCEPT ![c].todo = Cycle(MissingDates)]
    /\ UNCHANGED <<today, billed, local, run, spoiled, compared>>

\* RunBillManual: one bill of the window. A run found under way is not kept as the answer.
RunBillManual(c, d, t) ==
    /\ c # "worker" /\ clerk[c] = Free /\ d \in Window
    /\ ~Completed(d, t) \* a completed one is answered at once
    /\ clerk' = [clerk EXCEPT ![c].todo = <<<<d, t>>>>]
    /\ UNCHANGED <<today, billed, local, run, spoiled, compared>>

Job(c)  == Head(clerk[c].todo)
RunOf(c) == run[Job(c)[1]][Job(c)[2]]
Next1(c) == [Free EXCEPT !.todo = Tail(clerk[c].todo)]

\* acquireRun: a row that is complete, or running and not stale, is left; otherwise what an
\* earlier attempt left is deleted.
AcquireRun(c) ==
    /\ clerk[c].step = "idle" /\ clerk[c].todo # <<>>
    /\ LET r == RunOf(c)
           taken == r.status \in {"succeeded", "no_statement"} \/ (r.status = "running" /\ ~r.stale)
       IN  IF taken THEN clerk' = [clerk EXCEPT ![c] = Next1(c)] /\ UNCHANGED run
           ELSE /\ run' = [run EXCEPT ![Job(c)[1]][Job(c)[2]] =
                      [status |-> "running", stale |-> FALSE, version |-> r.version + 1, found |-> {}, count |-> 0,
                       resolved |-> FALSE]]
                /\ clerk' = [clerk EXCEPT ![c].step = "opening", ![c].version = r.version + 1]
    /\ UNCHANGED <<today, billed, local, spoiled, compared>>

\* The bill as the provider has it. The fund-flow bill has the same numbers under one kind.
Bill(d, t) ==
    IF d # 1 THEN {}
    ELSE IF t = "trade" THEN billed
    ELSE {[e EXCEPT !.kind = "fund", !.trade = IF e.kind = "refund" THEN e.refund ELSE e.trade,
                    !.refund = "", !.status = e.kind] : e \in billed}

\* What a download may bring: the bill, one cut before its summary, one with a row lost, the
\* same with a summary that agrees, or one with a row of another day.
Files(d, t) ==
    LET whole == [rows |-> Bill(d, t), count |-> Cardinality(Bill(d, t)), sameDay |-> TRUE, intact |-> TRUE]
        lost  == {[whole EXCEPT !.rows = @ \ {e}, !.intact = FALSE] : e \in Bill(d, t)}
    IN  [good |-> {whole},
         bad  |-> lost \cup {[f EXCEPT !.count = @ - 1] : f \in lost} \cup {[whole EXCEPT !.sameDay = FALSE]}
                  \cup {[whole EXCEPT !.count = -1, !.intact = FALSE]}]

\* markFailed, by the version that was claimed.
MarkFailed(c) ==
    IF RunOf(c).status = "running" /\ RunOf(c).version = clerk[c].version
    THEN run' = [run EXCEPT ![Job(c)[1]][Job(c)[2]] = [RunOf(c) EXCEPT !.status = "failed", !.version = @ + 1]]
    ELSE UNCHANGED run

\* OpenBill: a file, no statement for a day without entries, or an error.
OpenBill(c, answer) ==
    LET F == Files(Job(c)[1], Job(c)[2]) IN
    /\ clerk[c].step = "opening"
    /\ (answer # "good" => spoiled < BillFaults)
    /\ spoiled' = IF answer = "good" THEN spoiled ELSE spoiled + 1
    /\ IF answer = "error"
       THEN MarkFailed(c) /\ clerk' = [clerk EXCEPT ![c] = Next1(c)]
       ELSE /\ \E f \in (IF answer = "good" THEN F.good ELSE F.bad) :
                   clerk' = [clerk EXCEPT ![c].step = IF answer = "good" /\ f.rows = {} THEN "nothing" ELSE "reading",
                                          ![c].file = f]
            /\ UNCHANGED run
    /\ UNCHANGED <<today, billed, local, compared>>

----------------------------------------
LocalTrade  == IF local.pay = "succeeded" THEN "t" ELSE ""
LocalRefund == IF local.refund \in {"pending", "succeeded"} THEN "f" ELSE ""

\* findPayment and findRefund: by our number, else by the provider's.
FindsPayment(e) == e.no = "p" \/ (LocalTrade # "" /\ e.trade = LocalTrade)
FindsRefund(no, number) == local.refund # "none" /\ (no = "r" \/ (LocalRefund # "" /\ number = LocalRefund))

PaymentKinds(e) ==
    IF ~FindsPayment(e) THEN {"missing_local"}
    ELSE {k \in {"amount_mismatch", "status_mismatch", "transaction_id_mismatch"} :
             \/ k = "amount_mismatch" /\ e.amount # 1
             \/ k = "status_mismatch" /\ local.pay # "succeeded"
             \/ k = "transaction_id_mismatch" /\ (e.no # "p" \/ e.trade # LocalTrade)}

RefundKinds(e) ==
    IF ~FindsRefund(e.no, e.refund) THEN {"missing_local"}
    ELSE {k \in {"amount_mismatch", "refund_mismatch", "transaction_id_mismatch", "status_mismatch"} :
             \/ k = "amount_mismatch" /\ e.amount # 1
             \/ k = "refund_mismatch" /\ (e.no # "r" \/ e.refund # LocalRefund)
             \/ k = "transaction_id_mismatch" /\ e.trade # LocalTrade
             \/ k = "status_mismatch" /\ (e.status = "SUCCESS") # (local.refund = "succeeded")
                                      /\ (e.status = "SUCCESS" \/ e.status = "FAIL")}

\* Only entries of trades and refunds are looked for.
FundKinds(e) ==
    IF e.status = "unknown" \/ (e.status = "refund" /\ FindsRefund(e.no, e.trade)) \/ FindsPayment(e) THEN {}
    ELSE {"missing_local"}

\* compareObservation.
CompareObservation(e) ==
    {<<e, k>> : k \in CASE e.kind = "payment" -> PaymentKinds(e)
                        [] e.kind = "refund" -> RefundKinds(e)
                        [] e.kind = "fund" -> FundKinds(e)
                        [] OTHER -> {"status_mismatch"}}

\* compareDate: the rows of the bill, then, for the trade bill, what the bill lacks.
CompareDate(d, t, rows) ==
    (UNION {CompareObservation(e) : e \in rows})
    \cup {<<[NotBilled EXCEPT !.kind = k], "missing_wechat">> : k \in {k \in {"payment", "refund"} :
            /\ t = "trade" /\ d = 1
            /\ \/ /\ k = "payment" /\ local.pay = "succeeded"
                  /\ ~\E e \in rows : e.kind = k /\ (e.no = "p" \/ e.trade = "t")
               \/ /\ k = "refund" /\ LocalRefund # ""
                  /\ ~\E e \in rows : e.kind = k /\ (e.no = "r" \/ e.refund = "f")}}

\* parseBill and the digest: a summary that counts the rows, rows of the bill's date.
Sound(f) == f.sameDay /\ f.count = Cardinality(f.rows) /\ f.intact

StillMine(c) == RunOf(c).status = "running" /\ RunOf(c).version = clerk[c].version

\* processFile and finishNoStatement: discrepancies and completion in one transaction. The
\* version goes up too; nothing reads that of a complete row, and it is forgotten.
CompleteRun(c) ==
    LET d == Job(c)[1]  t == Job(c)[2]  f == clerk[c].file
        found == CompareDate(d, t, f.rows)
    IN  /\ clerk[c].step \in {"reading", "nothing"}
        /\ clerk' = [clerk EXCEPT ![c] = Next1(c)]
        /\ IF Sound(f) /\ StillMine(c)
           THEN /\ run' = [run EXCEPT ![d][t] =
                      [@ EXCEPT !.status = IF clerk[c].step = "nothing" THEN "no_statement" ELSE "succeeded",
                                !.version = 0, !.found = found, !.count = Cardinality(found)]]
                /\ compared' = IF d = 1 /\ t = "trade" THEN local ELSE compared
           ELSE MarkFailed(c) /\ UNCHANGED compared
        /\ UNCHANGED <<today, billed, local, spoiled>>

\* ResolveDiscrepancy. Which of a run's discrepancies have been handled is left out.
ResolveDiscrepancy(d, t) ==
    /\ run[d][t].found # {} /\ ~run[d][t].resolved
    /\ run' = [run EXCEPT ![d][t].resolved = TRUE]
    /\ UNCHANGED <<today, billed, local, clerk, spoiled, compared>>

\* A clerk's process dies; RunningTimeout passes on a run.
ClerkDies(c) ==
    /\ clerk[c] # Free /\ spoiled < BillFaults
    /\ clerk' = [clerk EXCEPT ![c] = Free] /\ spoiled' = spoiled + 1
    /\ UNCHANGED <<today, billed, local, run, compared>>

RunGoesStale(d, t) ==
    /\ run[d][t].status = "running" /\ ~run[d][t].stale
    /\ LET held == \E c \in Clerks : clerk[c].step # "idle" /\ Job(c) = <<d, t>> /\ clerk[c].version = run[d][t].version IN
       /\ (held => spoiled < BillFaults)
       /\ spoiled' = IF held THEN spoiled + 1 ELSE spoiled
    /\ run' = [run EXCEPT ![d][t].stale = TRUE]
    /\ UNCHANGED <<today, billed, local, clerk, compared>>

\* A late callback settles the payment or the refund here.
LocalSettles ==
    /\ \/ local.pay = "paying" /\ local' = [local EXCEPT !.pay = "succeeded"]
       \/ local.refund = "pending" /\ local' = [local EXCEPT !.refund = "succeeded"]
    /\ UNCHANGED <<today, billed, run, clerk, spoiled, compared>>

BillDayPasses ==
    /\ today <= DateBound /\ today' = today + 1
    /\ UNCHANGED <<billed, local, run, clerk, spoiled, compared>>

BillsNext ==
    \/ \E c \in Clerks :
          \/ RunDue(c) \/ AcquireRun(c) \/ CompleteRun(c) \/ ClerkDies(c)
          \/ \E d \in BillDates, t \in BillTypes : RunBillManual(c, d, t)
          \/ \E answer \in {"good", "bad", "error"} : OpenBill(c, answer)
    \/ \E d \in BillDates, t \in BillTypes :
          RunGoesStale(d, t) \/ ResolveDiscrepancy(d, t)
    \/ LocalSettles \/ BillDayPasses

----------------------------------------
\* What it means that the bill of date 1 and the rows l of this system agree.
Agree(l) ==
    /\ UnknownEntry \notin billed
    /\ IF l.pay = "succeeded" THEN PaymentEntry \in billed ELSE \A e \in billed : e.kind # "payment"
    /\ \A e \in billed : e.kind = "refund" =>
          /\ e.no = "r" /\ e.refund = "f" /\ e.trade = "t" /\ e.amount = 1 /\ l.refund \in {"pending", "succeeded"}
          /\ (e.status = "SUCCESS") = (l.refund = "succeeded")
    /\ (l.refund \in {"pending", "succeeded"} => \E e \in billed : e.kind = "refund")

\* With damaged downloads, clerks that die or finish after another has taken over, and
\* payments that settle meanwhile: a completed trade bill has no discrepancy exactly if the
\* provider's whole bill agreed with the rows here; a run that is not complete has none, so
\* no resolution is ever lost with a new attempt; and the count is that of the rows
\* (acquireRun, processFile, compareDate, markFailed).
BillsTellTheTruth ==
    \A d \in BillDates, t \in BillTypes : LET r == run[d][t] IN
        /\ r.count = Cardinality(r.found) /\ (r.resolved => r.found # {})
        /\ (~Completed(d, t) => r.found = {})
        /\ (d = 1 /\ t = "trade" /\ Completed(d, t) => ((r.found = {}) <=> Agree(compared)))
        /\ (d # 1 => r.found = {})

\* Where the bills must get to: every past date has both of its bills reconciled, whatever
\* failed before (runDue, missingBillDates).
BillsComplete == \A d \in BillDates, t \in BillTypes : today > d => Completed(d, t)
=============================================================================
