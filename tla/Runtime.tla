------------------------------ MODULE Runtime ------------------------------
(***************************************************************************)
(* Which workers run (internal/config, internal/app): the rules a          *)
(* configuration is held to before a process starts, and what the API      *)
(* process and each role of the worker process then start. A configuration *)
(* is the set of its switches that are on; "Production", "PhaseOne" and    *)
(* "WorkerOwner" stand for app env, release profile and maintenance owner, *)
(* "Rabbit" and "Redis" for configured connections, "Secrets" for every    *)
(* credential and endpoint that production demands. MySQL is configured.   *)
(***************************************************************************)
EXTENDS FiniteSets, Integers

CONSTANTS Aspects,     \* the groups of switches that are varied together, the others being on
          WorkerRoles,       \* roles of worker processes that are deployed
          ProcessBound \* bound: processes up together

VARIABLES cfg,    \* the switches that are on
          up,     \* the processes that run: "api" and roles
          running \* the workers of each process

runtimeVars == <<cfg, up, running>>

\* The switches the rules and the start-up code read (Load).
Switches ==
    {"Production", "PhaseOne", "Secrets", "Redis", "Rabbit", "Publisher", "Fallback", "Idempotency", "Expiry",
     "Pay", "Bills", "BillWorker", "AfterSale", "RefundExecution", "RefundWorker", "Wine", "WorkerOwner",
     "Purchase", "Renewal", "TicketRefund", "WineBills", "Reminder", "AssetWrite", "Compensation", "AssetExpiry",
     "AssetWorker", "Return", "ReturnApproval", "ReturnAfterSale", "ReturnSLA", "Dispatch", "DispatchWorker",
     "Realtime", "Relay", "CP1Worker", "Print", "SearchCleanup",
     "ConsumeNotification", "ConsumePrint", "ConsumeCache", "ConsumeSecurity", "ConsumeDispatch", "ConsumeRealtime"}

On(c, s)      == s \in c
Needs(c, a, B) == a \in c => B \subseteq c
AnyOf(c, A)   == A \cap c # {}

\* Validate: bills, after-sales, delivery returns.
ValidDelivery(c) ==
    /\ Needs(c, "Bills", {"Pay"}) /\ Needs(c, "RefundExecution", {"AfterSale"})
    /\ (AnyOf(c, {"ReturnApproval", "ReturnAfterSale"}) => On(c, "Return"))
    /\ Needs(c, "ReturnApproval", {"ReturnAfterSale", "AfterSale", "RefundExecution"})
    /\ (On(c, "Return") /\ On(c, "Production") => {"Redis", "Rabbit"} \subseteq c)

\* Validate: realtime and its consumer.
ValidRealtime(c) ==
    /\ Needs(c, "Relay", {"Realtime"}) /\ Needs(c, "Realtime", {"Redis"})
    /\ Needs(c, "ConsumeRealtime", {"Realtime", "Rabbit"})

\* Validate: assets and printing.
ValidAssets(c) == Needs(c, "Compensation", {"AssetWrite"}) /\ Needs(c, "AssetExpiry", {"AssetWrite"})
ValidPrint(c)  == Needs(c, "ConsumePrint", {"Print"})

\* Validate: what production demands.
ValidProduction(c) ==
    On(c, "Production") =>
        /\ {"Secrets", "Redis", "Pay", "Expiry", "Bills", "BillWorker"} \subseteq c
        /\ Needs(c, "Publisher", {"Rabbit"})
        /\ Needs(c, "RefundExecution", {"RefundWorker"})

Money == {"Purchase", "Renewal", "TicketRefund"}

\* mutant: only the customers' refund switch asks for the refund worker.
MoneyServedPartly(c) ==
    AnyOf(c, Money) => {"Secrets", "Pay", "Idempotency", "Expiry"} \subseteq c
                       /\ Needs(c, "TicketRefund", {"RefundExecution", "RefundWorker"})

\* wineTicketRuntimeProblems: the branches that move money. A purchase or a renewal may
\* end in a refund, so refunds are asked for even with the customers' own switched off.
MoneyServed(c) ==
    AnyOf(c, Money) =>
        /\ {"Secrets", "Pay", "Idempotency", "Expiry", "RefundExecution", "RefundWorker"} \subseteq c
        /\ Needs(c, "Production", {"WineBills"})

\* wineTicketRuntimeProblems: no branch without the main switch.
WineTicketAccepted(c) ==
    /\ (AnyOf(c, Money \cup {"Reminder", "WineBills"}) => On(c, "Wine"))
    /\ (On(c, "Wine") => On(c, "Secrets") /\ MoneyServed(c))

\* CP1ReleaseProfileProblems.
PhaseOneSwitches ==
    {"Production", "Print", "CP1Worker", "Idempotency", "Realtime", "Relay", "Publisher", "Dispatch",
     "DispatchWorker", "Rabbit", "Fallback", "ConsumeNotification", "ConsumePrint", "ConsumeCache",
     "ConsumeSecurity", "ConsumeDispatch", "ConsumeRealtime"}

\* Validate.
Validated(c) ==
    /\ ValidDelivery(c) /\ ValidRealtime(c) /\ ValidAssets(c) /\ ValidPrint(c) /\ ValidProduction(c)
    /\ WineTicketAccepted(c) /\ Needs(c, "PhaseOne", PhaseOneSwitches)

----------------------------------------
\* apiOwnsSharedMaintenance, apiOwnsWineTicketMaintenance, workerOwnsWineTicketMaintenance.
ApiOwnsShared(c) == ~On(c, "Wine") \/ ~On(c, "WorkerOwner")
ApiOwnsWine(c)   == On(c, "Wine") /\ ~On(c, "WorkerOwner")
WorkerOwnsWine(c) == On(c, "Wine") /\ On(c, "WorkerOwner")

\* A worker under its condition.
If(p, w) == IF p THEN {w} ELSE {}

Consumers == {"Notification", "Print", "Cache", "Security", "Dispatch", "Realtime"}

\* Server.Run: the consumers of RabbitMQ, and one dead sink for each.
ApiMessaging(c) ==
    IF ~On(c, "Rabbit") THEN {} ELSE
    If(On(c, "Publisher"), "publisher") \cup {"dead sinks"}
    \cup If(On(c, "ConsumeNotification"), "consumer Notification")
    \cup If(On(c, "ConsumePrint") /\ On(c, "Print"), "consumer Print")
    \cup If(On(c, "ConsumeCache") /\ On(c, "Redis"), "consumer Cache")
    \cup If(On(c, "ConsumeSecurity"), "consumer Security")
    \cup If(On(c, "ConsumeDispatch"), "consumer Dispatch")
    \cup If(On(c, "ConsumeRealtime"), "consumer Realtime")

\* Server.Run: what is shared with wine tickets. A refund provider is there when payments are.
ApiMaintenance(c) ==
    If(ApiOwnsShared(c) /\ On(c, "Expiry"), "order expiry")
    \cup If(ApiOwnsWine(c), "gift expiry") \cup If(ApiOwnsWine(c), "ticket expiry")
    \cup If(ApiOwnsWine(c) /\ On(c, "WineBills"), "integrity")
    \cup If(ApiOwnsShared(c) /\ {"RefundWorker", "RefundExecution", "Pay"} \subseteq c, "refunds")

\* Server.Run: the rest.
ApiOthers(c) ==
    If({"Bills", "BillWorker", "Pay"} \subseteq c, "bills")
    \cup If(On(c, "AssetWorker") /\ AnyOf(c, {"Compensation", "AssetExpiry"}), "assets")
    \cup If({"CP1Worker", "Print", "Fallback"} \subseteq c, "printing")
    \cup If(On(c, "CP1Worker"), "notifications")
    \cup If({"Return", "ReturnSLA"} \subseteq c, "return deadlines")
    \cup If(On(c, "DispatchWorker"), "dispatch sweeper")
    \cup If({"Fallback", "Redis"} \subseteq c, "cache fallback")
    \cup If({"Realtime", "Relay"} \subseteq c, "relay")

\* RunMQWorker: the maintenance of wine tickets, with what it shares.
WorkerMaintenance(c) ==
    IF ~WorkerOwnsWine(c) THEN {} ELSE
    {"gift expiry", "ticket expiry"} \cup If(On(c, "Expiry"), "order expiry")
    \cup If(On(c, "WineBills"), "integrity")
    \cup If({"RefundWorker", "RefundExecution", "Pay"} \subseteq c, "refunds")

\* RunMQWorker: one consumer with the worker that backs it.
WorkerConsumer(c, k) ==
    CASE k = "Notification" /\ On(c, "ConsumeNotification") -> {"consumer Notification"} \cup If(On(c, "CP1Worker"), "notifications")
      [] k = "Print" /\ On(c, "ConsumePrint") -> {"consumer Print"} \cup If({"CP1Worker", "Fallback"} \subseteq c, "printing")
      [] k = "Cache" /\ On(c, "ConsumeCache") -> {"consumer Cache"} \cup If(On(c, "Fallback"), "cache fallback")
      [] k = "Security" /\ On(c, "ConsumeSecurity") -> {"consumer Security"}
      [] k = "Dispatch" /\ On(c, "ConsumeDispatch") -> {"consumer Dispatch"} \cup If(On(c, "DispatchWorker"), "dispatch sweeper")
      [] k = "Realtime" /\ On(c, "ConsumeRealtime") -> {"consumer Realtime"}
      [] OTHER -> {}

\* RunMQWorker: what a role, or "all" of them, selects.
RoleWorkers(c, role) ==
    LET selected(r) == role \in {"all", r} IN
    (IF selected("wine-ticket-maintenance") THEN WorkerMaintenance(c) ELSE {})
    \cup If(selected("search-retention") /\ On(c, "SearchCleanup"), "search retention")
    \cup If(selected("outbox-publisher") /\ On(c, "Publisher"), "publisher")
    \cup (UNION {WorkerConsumer(c, k) : k \in {k \in Consumers : selected(k)}})
    \cup If(selected("realtime-relay") /\ {"Realtime", "Relay"} \subseteq c, "relay")
    \cup If(selected("mq-dead-sink"), "dead sinks")

\* The refusals of RunMQWorker.
RoleStarts(c, role) ==
    /\ (role = "wine-ticket-maintenance" => WorkerOwnsWine(c))
    /\ (role \notin {"search-retention", "wine-ticket-maintenance"} => On(c, "Rabbit"))
    /\ (role \in {"all", "Cache"} /\ On(c, "ConsumeCache") => On(c, "Redis"))
    /\ RoleWorkers(c, role) # {}

----------------------------------------
RuntimeInit ==
    /\ \E vary \in Aspects : \E off \in SUBSET vary : cfg = Switches \ off
    /\ Validated(cfg)
    /\ up = {} /\ running = [p \in WorkerRoles \cup {"api"} |-> {}]

\* Run and RunMQWorker under a supervisor that restarts them; loss of the node lease ends them.
Start(p) ==
    /\ p \notin up /\ Cardinality(up) < ProcessBound
    /\ (p # "api" => RoleStarts(cfg, p))
    /\ up' = up \cup {p}
    /\ running' = [running EXCEPT ![p] =
          IF p = "api" THEN ApiMessaging(cfg) \cup ApiMaintenance(cfg) \cup ApiOthers(cfg) ELSE RoleWorkers(cfg, p)]
    /\ UNCHANGED cfg

Stop(p) ==
    /\ p \in up /\ up' = up \ {p} /\ running' = [running EXCEPT ![p] = {}]
    /\ UNCHANGED cfg

RuntimeNext == \E p \in WorkerRoles \cup {"api"} : Start(p) \/ Stop(p)

----------------------------------------
\* The workers that must not be split between two owners.
Shared == {"order expiry", "refunds", "gift expiry", "ticket expiry", "integrity"}
Runs   == UNION {running[p] : p \in up}
\* The API is up, and so is the owner of the maintenance.
Staffed == "api" \in up /\ (WorkerOwnsWine(cfg) => up \cap {"all", "wine-ticket-maintenance"} # {})

\* Under every configuration that passes Validate and every set of processes: the API and
\* a worker process never both own maintenance that is shared; when the owner is up, orders
\* expire, refunds are executed and gifts expire wherever money can be taken, in production
\* also bills and tickets are checked; and phase one leaves no consumer, publisher, sweeper
\* or fallback out (Validate against Run and RunMQWorker).
EnabledIsServed ==
    /\ \A p \in up \ {"api"} : running["api"] \cap running[p] \cap Shared = {}
    /\ (Staffed /\ AnyOf(cfg, Money) => {"order expiry", "refunds", "gift expiry", "ticket expiry"} \subseteq Runs)
    /\ (Staffed /\ On(cfg, "Production") =>
          /\ {"order expiry", "bills"} \subseteq Runs
          /\ (On(cfg, "RefundExecution") => "refunds" \in Runs)
          /\ (AnyOf(cfg, Money) => "integrity" \in Runs))
    /\ ("api" \in up /\ On(cfg, "PhaseOne") =>
          {"publisher", "dead sinks", "consumer Notification", "consumer Print", "consumer Cache", "consumer Security",
           "consumer Dispatch", "consumer Realtime", "printing", "notifications", "dispatch sweeper", "relay",
           "cache fallback"} \subseteq Runs)

----------------------------------------
(* The lease in Redis that keeps two processes from generating ids for one *)
(* Snowflake node (infra/nodelease, and its use in app/server.go). Time is *)
(* counted in sixths of the lease: a refresh is due every two, its call    *)
(* takes at most two, and a process gives up when a call fails four or     *)
(* more after the last refresh. Calls may fail with or without effect. How *)
(* long a process takes from Acquire to Run is not bounded: connections,   *)
(* migrations and providers come between. Once in Run it acts when it is   *)
(* due; one that is suspended for long is not modelled.                    *)

CONSTANTS Instances,   \* processes configured with the same node id
          MomentBound, \* bound: time that passes
          FailedCalls  \* bound: refreshes that fail

VARIABLES moment,  \* the time
          node,    \* the key in Redis: its owner and when it expires
          process, \* each process: how far it is, when it acquired the key, when it began
                   \* Run, lastRefresh, the next tick, the call under way
          failed

leaseVars == <<moment, node, process, failed>>

Ttl == 6
Interval == Ttl \div 3
NoCall == [at |-> -1, ok |-> FALSE]
Down   == [phase |-> "down", since |-> 0, began |-> 0, last |-> 0, due |-> 0, call |-> NoCall]
NoOwner == [owner |-> "none", expires |-> 0]

ASSUME LeaseAssumption ==
    "none" \notin Instances /\ MomentBound \in Nat /\ FailedCalls \in Nat

LeaseInit ==
    /\ moment = 0 /\ failed = 0
    /\ node = NoOwner /\ process = [p \in Instances |-> Down]

Owner == IF node.expires > moment THEN node.owner ELSE "none"

\* Acquire: SETNX.
Acquire(p) ==
    /\ process[p].phase = "down" /\ Owner = "none" /\ moment < MomentBound
    /\ node' = [owner |-> p, expires |-> moment + Ttl]
    /\ process' = [process EXCEPT ![p] = [Down EXCEPT !.phase = "starting", !.since = moment]]
    /\ UNCHANGED <<moment, failed>>

\* Run starts its ticker, as the server starts to work.
Begin(p) ==
    /\ process[p].phase = "starting"
    /\ process' = [process EXCEPT ![p] = 
          [@ EXCEPT !.phase = "up", !.began = moment, !.last = moment, !.due = moment + Interval]]
    /\ UNCHANGED <<moment, node, failed>>

\* refreshScript.
Refreshed(p) == IF Owner = p THEN [owner |-> p, expires |-> moment + Ttl] ELSE node

\* A tick of Run: the script is called; the answer comes after delay.
Refresh(p, delay, answered, effect) ==
    LET P == process[p] IN
    /\ P.phase = "up" /\ P.due = moment /\ P.call = NoCall
    /\ (answered => effect) /\ (~answered => failed < FailedCalls)
    /\ failed' = IF answered THEN failed ELSE failed + 1
    /\ node' = IF effect THEN Refreshed(p) ELSE node
    /\ process' = [process EXCEPT ![p] =
          [P EXCEPT !.due = P.due + Interval,
                    !.call = [at |-> moment + delay, ok |-> answered],
                    !.phase = IF answered /\ Owner # p THEN "lost" ELSE P.phase]]
    /\ UNCHANGED moment

GivesUp(p) == moment - process[p].last >= 2 * Interval

\* The answer: the lease refreshed, or lost, or a failure that may be the last.
LeaseAnswer(p) ==
    LET P == process[p]
        ends == P.phase = "lost" \/ (~P.call.ok /\ GivesUp(p))
    IN  /\ P.phase \in {"up", "lost"} /\ P.call.at = moment
        /\ process' = [process EXCEPT ![p] =
              [P EXCEPT !.call = NoCall, !.phase = IF ends THEN "leaving" ELSE P.phase,
                        !.last = IF P.call.ok /\ ~ends THEN moment ELSE P.last]]
        /\ UNCHANGED <<moment, node, failed>>

\* The server shuts down and closeInfra releases the key, if it is still its own; or the
\* process dies, from any phase.
Leave(p, dies) ==
    /\ process[p].phase # "down" /\ (~dies => process[p].phase \in {"up", "leaving"})
    /\ process' = [process EXCEPT ![p] = Down]
    /\ node' = IF ~dies /\ Owner = p THEN NoOwner ELSE node
    /\ UNCHANGED <<moment, failed>>

\* Nothing that is due waits; a process may take any time to start.
MomentPasses ==
    /\ moment < MomentBound
    /\ \A p \in Instances : LET P == process[p] IN
          /\ (P.phase = "up" /\ P.call = NoCall => moment < P.due)
          /\ (P.call # NoCall => moment < P.call.at)
    /\ moment' = moment + 1 /\ UNCHANGED <<node, process, failed>>

LeaseNext ==
    \/ \E p \in Instances :
          \/ Acquire(p) \/ Begin(p) \/ LeaseAnswer(p)
          \/ \E delay \in 0..Interval, answered, effect \in BOOLEAN : Refresh(p, delay, answered, effect)
          \/ \E dies \in BOOLEAN : Leave(p, dies)
    \/ MomentPasses

Works(p) == process[p].phase \in {"up", "lost"}

\* A process that began to work long after it had acquired the key.
Late(p) == process[p].began - process[p].since > Interval

\* With refreshes that fail, with and without effect, answers as late as they are waited for
\* and starts of any length: two processes may work with one node id, against what the type
\* Lease says of itself, but one of them then is at most a third of the lease past its
\* Acquire, or began late and is at most one lease past that (Acquire, Run). lastRefresh is
\* taken when the answer is there and when Run begins, later than Redis counts from, so a
\* process gives up after its key has expired. What a process still does while it shuts
\* down is not covered.
OneNodeOneProcess ==
    \A p, q \in Instances : p # q /\ Works(p) /\ Works(q) =>
        \E r \in {p, q} : \/ moment - process[r].since <= Interval
                          \/ Late(r) /\ moment - process[r].began <= Ttl
=============================================================================
