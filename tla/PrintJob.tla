------------------------------ MODULE PrintJob ------------------------------
(***************************************************************************)
(* Print tasks (printjob/service.go, printjob/worker.go): a shop's setting *)
(* decides whether an order event makes a task, workers claim tasks under  *)
(* a 30 s lease and submit them to the print provider, and a submission    *)
(* whose outcome is unknown is recorded so that it is asked about instead  *)
(* of being printed again. One shop; time passing next_retry_at is left    *)
(* open, time passing locked_until is a step of its own.                   *)
(***************************************************************************)
EXTENDS Naturals

CONSTANTS PrintTasks,     \* tasks there may be
          PrintWorkers,   \* polling loops and MQ wake-ups of all processes
          PrintAttempts,  \* attempts after which a failure is final (5)
          MaxPrintStops,  \* bound: leases that run out under a live worker, deaths
          MaxPrintRetries \* bound: administrator retries

NoWorker == "none"

ASSUME PrintAssumption ==
    /\ PrintAttempts \in Nat \ {0}
    /\ MaxPrintStops \in Nat /\ MaxPrintRetries \in Nat
    /\ NoWorker \notin PrintWorkers

VARIABLES
    setting,      \* the shop's print setting: "none", "on" or "off"
    task,         \* print_tasks rows
    printer,      \* what each worker is doing
    printed,      \* times the provider took each task
    printStops,   \* leases and workers lost so far
    printRetries, \* administrator retries so far
    interrupted   \* tasks whose lease or worker was lost during an attempt

pvars == <<setting, task, printer, printed, printStops, printRetries, interrupted>>

TaskStatus == {"none", "pending", "processing", "retry_wait", "querying", "succeeded", "dead"}

NoTask == [status |-> "none", owner |-> NoWorker, lapsed |-> FALSE, attempts |-> 0,
           submitted |-> FALSE]

PrintTypeOK ==
    /\ setting \in {"none", "on", "off"}
    /\ task \in [PrintTasks -> [status : TaskStatus, owner : PrintWorkers \cup {NoWorker},
                                lapsed : BOOLEAN, submitted : BOOLEAN,
                                attempts : 0..(PrintAttempts + MaxPrintRetries + 1)]]
    /\ \A w \in PrintWorkers : printer[w].pc \in {"idle", "run", "unknown", "query", "finish"}
    /\ printed \in [PrintTasks -> Nat]
    /\ interrupted \subseteq PrintTasks

PrintInit ==
    /\ setting = "none"
    /\ task = [t \in PrintTasks |-> NoTask]
    /\ printer = [w \in PrintWorkers |-> [pc |-> "idle"]]
    /\ printed = [t \in PrintTasks |-> 0]
    /\ printStops = 0
    /\ printRetries = 0
    /\ interrupted = {}

----------------------------------------
(* The shop and the administrator.                                         *)

\* CreateSettings: one setting per shop, enabled or not.
CreateSettings(s) ==
    /\ setting = "none"
    /\ setting' = s
    /\ UNCHANGED <<task, printer, printed, printStops, printRetries, interrupted>>

\* PatchSettings, for the field that matters to tasks.
PatchSettings(s) ==
    /\ setting # "none"
    /\ setting' = s
    /\ UNCHANGED <<task, printer, printed, printStops, printRetries, interrupted>>

\* EnqueueAuto, inside the order's transaction: a task if the setting subscribes.
EnqueueAuto(t) ==
    /\ setting = "on"
    /\ task[t].status = "none"
    /\ task' = [task EXCEPT ![t].status = "pending"]
    /\ UNCHANGED <<setting, printer, printed, printStops, printRetries, interrupted>>

\* TestSettings: the provider is called inside the transaction; what it took is
\* recorded as submitted, what it refused leaves no row.
TestSettings(t) ==
    /\ setting # "none"
    /\ task[t].status = "none"
    /\ printed' = [printed EXCEPT ![t] = @ + 1]
    /\ \E status \in {"succeeded", "querying"} :
          task' = [task EXCEPT ![t] = [NoTask EXCEPT !.status = status, !.attempts = 1,
                                                     !.submitted = TRUE]]
    /\ UNCHANGED <<setting, printer, printStops, printRetries, interrupted>>

\* Retry: the administrator puts a failed task back; attempts and the recorded
\* submission stay.
RetryPrint(t) ==
    /\ task[t].status \in {"dead", "retry_wait"}
    /\ printRetries < MaxPrintRetries
    /\ printRetries' = printRetries + 1
    /\ task' = [task EXCEPT ![t].status = "pending", ![t].owner = NoWorker, ![t].lapsed = FALSE]
    /\ UNCHANGED <<setting, printer, printed, printStops, interrupted>>

\* Reprint / cloneTask: a new task from one that is not in flight.
Reprint(t, new) ==
    /\ task[t].status \notin {"none", "processing", "querying"}
    /\ task[new].status = "none"
    /\ task' = [task EXCEPT ![new].status = "pending"]
    /\ UNCHANGED <<setting, printer, printed, printStops, printRetries, interrupted>>

----------------------------------------
(* The worker.                                                             *)

\* claimTask, from runBatch or from a wake-up (RunTask).
ClaimablePrint(t) ==
    /\ task[t].status \in {"pending", "retry_wait", "querying", "processing"}
    /\ task[t].owner = NoWorker \/ task[t].lapsed

ClaimPrint(w, t) ==
    /\ printer[w].pc = "idle"
    /\ ClaimablePrint(t)
    /\ task' = [task EXCEPT ![t].status = "processing", ![t].owner = w, ![t].lapsed = FALSE]
    /\ printer' = [printer EXCEPT ![w] =
          [pc |-> IF task[t].submitted THEN "query" ELSE "run",
           task |-> t, attempts |-> task[t].attempts,
           op |-> "none", result |-> "none"]]
    /\ UNCHANGED <<setting, printed, printStops, printRetries, interrupted>>

Answer(w, op, result, pc) ==
    printer' = [printer EXCEPT ![w].pc = pc, ![w].op = op, ![w].result = result]

\* execute: provider.Submit. "open" is an answer that is not an error and not yet
\* a success; after "unknown" the provider may have taken the task or not.
SubmitPrint(w) ==
    LET t == printer[w].task IN
    /\ printer[w].pc = "run"
    /\ \/ /\ printed' = [printed EXCEPT ![t] = @ + 1]
          /\ \/ \E r \in {"ok", "open"} : Answer(w, "submit", r, "finish")
             \/ Answer(w, "none", "none", "unknown")
       \/ /\ UNCHANGED printed
          /\ \/ \E r \in {"retryable", "permanent"} : Answer(w, "submit", r, "finish")
             \/ Answer(w, "none", "none", "unknown")
    /\ UNCHANGED <<setting, task, printStops, printRetries, interrupted>>

OwnsPrint(w) == task[printer[w].task].owner = w

StopWorker(w) == printer' = [printer EXCEPT ![w] = [pc |-> "idle"]]

\* mutant: an unknown submission counts as an ordinary failure.
ForgetUnknownSubmission(w) ==
    /\ printer[w].pc = "unknown"
    /\ Answer(w, "submit", "retryable", "finish")
    /\ UNCHANGED <<setting, task, printed, printStops, printRetries, interrupted>>

\* recordUnknownSubmission: under the lease, which is kept; without it the worker
\* gives up.
RecordUnknownSubmission(w) ==
    LET t == printer[w].task IN
    /\ printer[w].pc = "unknown"
    /\ \/ /\ OwnsPrint(w)
          /\ task' = [task EXCEPT ![t].status = "querying", ![t].submitted = TRUE]
          /\ printer' = [printer EXCEPT ![w].pc = "query"]
       \/ /\ ~OwnsPrint(w)
          /\ StopWorker(w)
          /\ UNCHANGED task
    /\ UNCHANGED <<setting, printed, printStops, printRetries, interrupted>>

\* execute: provider.Query. It can report a success only of what it took; an answer
\* that is neither an error nor a success counts as a retryable error.
QueryPrint(w) ==
    /\ printer[w].pc = "query"
    /\ \/ printed[printer[w].task] > 0 /\ Answer(w, "query", "ok", "finish")
       \/ \E r \in {"retryable", "permanent"} : Answer(w, "query", r, "finish")
    /\ UNCHANGED <<setting, task, printed, printStops, printRetries, interrupted>>

\* finish: what the attempt makes of the task.
PossiblySubmitted(w) ==
    printer[w].op = "query" \/ printer[w].result \in {"ok", "open"}

FinishStatus(w) ==
    LET again == printer[w].result # "permanent" /\ printer[w].attempts + 1 < PrintAttempts
    IN IF printer[w].result = "ok" THEN "succeeded"
       ELSE IF ~again THEN "dead"
       ELSE IF PossiblySubmitted(w) THEN "querying" ELSE "retry_wait"

FinishPrint(w) ==
    LET t == printer[w].task IN
    /\ printer[w].pc = "finish"
    /\ \/ /\ OwnsPrint(w)
          /\ task' = [task EXCEPT ![t] =
                [status |-> FinishStatus(w), owner |-> NoWorker, lapsed |-> FALSE,
                 attempts |-> printer[w].attempts + 1,
                 submitted |-> @.submitted \/ PossiblySubmitted(w)]]
       \/ /\ ~OwnsPrint(w)
          /\ UNCHANGED task
    /\ StopWorker(w)
    /\ UNCHANGED <<setting, printed, printStops, printRetries, interrupted>>

\* A process dies in the middle of an attempt.
PrintWorkerDies(w) ==
    /\ printer[w].pc # "idle"
    /\ printStops < MaxPrintStops
    /\ printStops' = printStops + 1
    /\ interrupted' = interrupted \cup {printer[w].task}
    /\ StopWorker(w)
    /\ UNCHANGED <<setting, task, printed, printRetries>>

\* Time passes locked_until, under a worker that still runs or one that is gone.
Busy(w, t) == printer[w].pc # "idle" /\ printer[w].task = t /\ task[t].owner = w

PrintLeaseLapses(t) ==
    /\ task[t].owner # NoWorker /\ ~task[t].lapsed
    /\ task' = [task EXCEPT ![t].lapsed = TRUE]
    /\ \/ /\ \E w \in PrintWorkers : Busy(w, t)
          /\ printStops < MaxPrintStops
          /\ printStops' = printStops + 1
          /\ interrupted' = interrupted \cup {t}
       \/ /\ \A w \in PrintWorkers : ~Busy(w, t)
          /\ UNCHANGED <<printStops, interrupted>>
    /\ UNCHANGED <<setting, printer, printed, printRetries>>

PrintWork(w) ==
    \/ SubmitPrint(w) \/ RecordUnknownSubmission(w) \/ QueryPrint(w) \/ FinishPrint(w)

PrintNext ==
    \/ \E s \in {"on", "off"} : CreateSettings(s) \/ PatchSettings(s)
    \/ \E t \in PrintTasks : \/ EnqueueAuto(t) \/ TestSettings(t) \/ RetryPrint(t)
                             \/ PrintLeaseLapses(t)
    \/ \E t, new \in PrintTasks : Reprint(t, new)
    \/ \E w \in PrintWorkers, t \in PrintTasks : ClaimPrint(w, t)
    \/ \E w \in PrintWorkers : PrintWork(w) \/ PrintWorkerDies(w)

\* The loops poll every task, a worker finishes its calls (they time out), and the
\* lease of a worker that is gone runs out.
PrintFairness ==
    /\ \A w \in PrintWorkers : WF_pvars(PrintWork(w))
    /\ \A t \in PrintTasks : /\ SF_pvars(\E w \in PrintWorkers : ClaimPrint(w, t))
                             /\ WF_pvars(PrintLeaseLapses(t))

----------------------------------------
\* A task that reads succeeded was taken by the provider, through lost leases,
\* unknown outcomes and administrator retries.
SucceededIsPrinted == \A t \in PrintTasks : task[t].status = "succeeded" => printed[t] > 0

\* execute, recordUnknownSubmission and finish print a task a second time only if
\* a lease ran out or a worker died during an attempt: unknown outcomes, retries and
\* the administrator's Retry alone never do (worker.go: recovery "queries first").
PrintedAgainOnlyIfInterrupted ==
    \A t \in PrintTasks : printed[t] > 1 => t \in interrupted

\* Where every task must get to: succeeded, or dead for the administrator to see.
PrintTasksSettled == \A t \in PrintTasks : task[t].status \in {"none", "succeeded", "dead"}
=============================================================================
