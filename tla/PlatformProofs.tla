--------------------------- MODULE PlatformProofs ---------------------------
(***************************************************************************)
(* Safety of the platform's parts for every value of the constants: what   *)
(* the processes run and the node ids they hold; who the customers, the    *)
(* riders and the buyers are; the rights of accounts and sessions, and the *)
(* alerts of connections. Each part has an inductive invariant of its own; *)
(* that of wine tickets is proved in TicketProofs.                         *)
(***************************************************************************)
EXTENDS MCPlatform, TicketProofs

\* What a process runs is what the configuration gives it, and it is down or refused nothing.
ProcessRuns(p) == IF p = "api" THEN ApiMessaging(cfg) \cup ApiMaintenance(cfg) \cup ApiOthers(cfg)
                               ELSE RoleWorkers(cfg, p)

RuntimeInv ==
    /\ Validated(cfg) /\ up \subseteq WorkerRoles \cup {"api"} /\ DOMAIN running = WorkerRoles \cup {"api"}
    /\ \A p \in WorkerRoles \cup {"api"} : running[p] = IF p \in up THEN ProcessRuns(p) ELSE {}

LEMMA RuntimeInitially == RuntimeInit => RuntimeInv
BY DEF RuntimeInit, RuntimeInv

LEMMA RuntimeKeeps == RuntimeInv /\ RuntimeNext => RuntimeInv'
<1> SUFFICES ASSUME RuntimeInv, NEW p \in WorkerRoles \cup {"api"}, Start(p) \/ Stop(p)
             PROVE  RuntimeInv'
 BY DEF RuntimeNext
<1>1. CASE Start(p)
 <2>1. running' = [running EXCEPT ![p] = ProcessRuns(p)] /\ UNCHANGED cfg /\ up' = up \cup {p}
  BY <1>1 DEF Start, ProcessRuns
 <2>2. \A q : ProcessRuns(q)' = ProcessRuns(q) BY <2>1 DEF ProcessRuns
 <2> QED BY <2>1, <2>2 DEF RuntimeInv
<1>2. CASE Stop(p)
 <2>1. running' = [running EXCEPT ![p] = {}] /\ UNCHANGED cfg /\ up' = up \ {p} BY <1>2 DEF Stop
 <2>2. \A q : ProcessRuns(q)' = ProcessRuns(q) BY <2>1 DEF ProcessRuns
 <2> QED BY <2>1, <2>2 DEF RuntimeInv
<1> QED BY <1>1, <1>2

----------------------------------------
LEMMA InIf == ASSUME NEW p, NEW v, NEW w PROVE w \in If(p, v) <=> p /\ w = v
BY DEF If

\* The maintenance that is shared is the API's or the workers', by the configuration.
LEMMA OneOwner ==
    ASSUME NEW c, NEW r, r # "api"
    PROVE  (ApiMessaging(c) \cup ApiMaintenance(c) \cup ApiOthers(c)) \cap RoleWorkers(c, r) \cap Shared = {}
<1>1. \A w \in Shared : w \notin ApiMessaging(c)
 <2>1. CASE ~On(c, "Rabbit")
  BY <2>1 DEF ApiMessaging
 <2>2. CASE On(c, "Rabbit")
  <3>1. ApiMessaging(c) = If(On(c, "Publisher"), "publisher") \cup {"dead sinks"}
              \cup If(On(c, "ConsumeNotification"), "consumer Notification")
              \cup If(On(c, "ConsumePrint") /\ On(c, "Print"), "consumer Print")
              \cup If(On(c, "ConsumeCache") /\ On(c, "Redis"), "consumer Cache")
              \cup If(On(c, "ConsumeSecurity"), "consumer Security")
              \cup If(On(c, "ConsumeDispatch"), "consumer Dispatch")
              \cup If(On(c, "ConsumeRealtime"), "consumer Realtime")
   BY <2>2, Zenon DEF ApiMessaging
  <3>2. ApiMessaging(c) \subseteq {"publisher", "dead sinks", "consumer Notification", "consumer Print",
                                   "consumer Cache", "consumer Security", "consumer Dispatch", "consumer Realtime"}
   BY <3>1 DEF If
  <3> QED BY <3>2 DEF Shared
 <2> QED BY <2>1, <2>2
<1>2. \A w \in Shared : w \notin ApiOthers(c)
 <2>1. ApiOthers(c) \subseteq {"bills", "assets", "printing", "notifications", "return deadlines",
                              "dispatch sweeper", "cache fallback", "relay"}
  <3>1. ApiOthers(c) =
          If({"Bills", "BillWorker", "Pay"} \subseteq c, "bills")
          \cup If(On(c, "AssetWorker") /\ AnyOf(c, {"Compensation", "AssetExpiry"}), "assets")
          \cup If({"CP1Worker", "Print", "Fallback"} \subseteq c, "printing")
          \cup If(On(c, "CP1Worker"), "notifications")
          \cup If({"Return", "ReturnSLA"} \subseteq c, "return deadlines")
          \cup If(On(c, "DispatchWorker"), "dispatch sweeper")
          \cup If({"Fallback", "Redis"} \subseteq c, "cache fallback")
          \cup If({"Realtime", "Relay"} \subseteq c, "relay")
   BY Zenon DEF ApiOthers
  <3> QED BY <3>1 DEF If
 <2> QED BY <2>1 DEF Shared
<1>3. \A w \in Shared, k \in Consumers : w \notin WorkerConsumer(c, k)
 <2> SUFFICES ASSUME NEW k \in Consumers, NEW w \in WorkerConsumer(c, k) PROVE w \notin Shared
  OBVIOUS
 <2>1. CASE k = "Notification"
  BY <2>1, InIf, ZenonT(40) DEF Shared, On, WorkerConsumer
 <2>2. CASE k = "Print"
  BY <2>2, InIf, ZenonT(40) DEF Shared, On, WorkerConsumer
 <2>3. CASE k = "Cache"
  BY <2>3, InIf, ZenonT(40) DEF Shared, On, WorkerConsumer
 <2>4. CASE k = "Security"
  BY <2>4, InIf, ZenonT(40) DEF Shared, On, WorkerConsumer
 <2>5. CASE k = "Dispatch"
  BY <2>5, InIf, ZenonT(40) DEF Shared, On, WorkerConsumer
 <2>6. CASE k = "Realtime"
  BY <2>6, InIf, ZenonT(40) DEF Shared, On, WorkerConsumer
 <2> QED BY <2>1, <2>2, <2>3, <2>4, <2>5, <2>6 DEF Consumers
<1>4. \A w \in Shared : w \in RoleWorkers(c, r) => w \in WorkerMaintenance(c)
 <2> DEFINE own == IF r \in {"all", "wine-ticket-maintenance"} THEN WorkerMaintenance(c) ELSE {}
            picked == (UNION {WorkerConsumer(c, k) : k \in {k \in Consumers : r \in {"all", k}}})
 <2>1. RoleWorkers(c, r) = own
           \cup If(r \in {"all", "search-retention"} /\ On(c, "SearchCleanup"), "search retention")
           \cup If(r \in {"all", "outbox-publisher"} /\ On(c, "Publisher"), "publisher")
           \cup picked
           \cup If(r \in {"all", "realtime-relay"} /\ {"Realtime", "Relay"} \subseteq c, "relay")
           \cup If(r \in {"all", "mq-dead-sink"}, "dead sinks")
  BY Zenon DEF RoleWorkers
 <2>2. \A w \in Shared : w \notin picked BY <1>3
 <2>3. \A w \in own : w \in WorkerMaintenance(c) OBVIOUS
 <2> HIDE DEF own, picked
 <2>4. RoleWorkers(c, r) \subseteq own \cup picked \cup {"search retention", "publisher", "relay", "dead sinks"}
  BY <2>1 DEF If
 <2> QED BY <2>2, <2>3, <2>4 DEF Shared
<1>5. \A w \in Shared : ~(w \in ApiMaintenance(c) /\ w \in WorkerMaintenance(c))
 BY DEF Shared, ApiMaintenance, WorkerMaintenance, ApiOwnsShared, ApiOwnsWine, WorkerOwnsWine, If
<1> QED BY <1>1, <1>2, <1>4, <1>5

\* Whoever owns the maintenance, the API or a worker process of the role, expires orders,
\* executes refunds and, for wine tickets, expires gifts and tickets and checks them.
LEMMA OwnerServes ==
    ASSUME NEW c, NEW r \in {"all", "wine-ticket-maintenance"}, NEW owner_,
           owner_ = IF WorkerOwnsWine(c) THEN RoleWorkers(c, r) ELSE ApiMaintenance(c)
    PROVE  /\ On(c, "Expiry") => "order expiry" \in owner_
           /\ {"RefundWorker", "RefundExecution", "Pay"} \subseteq c => "refunds" \in owner_
           /\ On(c, "Wine") => {"gift expiry", "ticket expiry"} \subseteq owner_
           /\ On(c, "Wine") /\ On(c, "WineBills") => "integrity" \in owner_
<1>1. CASE WorkerOwnsWine(c)
 <2>1. WorkerMaintenance(c) \subseteq owner_ BY <1>1 DEF RoleWorkers
 <2>2. WorkerMaintenance(c) = {"gift expiry", "ticket expiry"} \cup If(On(c, "Expiry"), "order expiry")
           \cup If(On(c, "WineBills"), "integrity")
           \cup If({"RefundWorker", "RefundExecution", "Pay"} \subseteq c, "refunds")
  BY <1>1, Zenon DEF WorkerMaintenance
 <2> QED BY <2>1, <2>2 DEF If, On
<1>2. CASE ~WorkerOwnsWine(c)
 BY <1>2 DEF ApiMaintenance, ApiOwnsShared, ApiOwnsWine, WorkerOwnsWine, If, On
<1> QED BY <1>1, <1>2

\* What the API runs whoever owns the maintenance.
LEMMA ApiServes ==
    ASSUME NEW c
    PROVE  /\ {"Bills", "BillWorker", "Pay"} \subseteq c => "bills" \in ApiOthers(c)
           /\ PhaseOneSwitches \cup {"Redis"} \subseteq c =>
                 /\ {"publisher", "dead sinks", "consumer Notification", "consumer Print", "consumer Cache",
                     "consumer Security", "consumer Dispatch", "consumer Realtime"} \subseteq ApiMessaging(c)
                 /\ {"printing", "notifications", "dispatch sweeper", "relay", "cache fallback"}
                        \subseteq ApiOthers(c)
<1>1. {"Bills", "BillWorker", "Pay"} \subseteq c => "bills" \in ApiOthers(c) BY DEF ApiOthers, If
<1>2. ASSUME PhaseOneSwitches \cup {"Redis"} \subseteq c
      PROVE  {"printing", "notifications", "dispatch sweeper", "relay", "cache fallback"} \subseteq ApiOthers(c)
 BY <1>2 DEF ApiOthers, If, On, PhaseOneSwitches
<1>3. ASSUME PhaseOneSwitches \cup {"Redis"} \subseteq c
      PROVE  {"publisher", "dead sinks", "consumer Notification", "consumer Print", "consumer Cache",
              "consumer Security", "consumer Dispatch", "consumer Realtime"} \subseteq ApiMessaging(c)
 BY <1>3 DEF ApiMessaging, If, On, PhaseOneSwitches
<1> QED BY <1>1, <1>2, <1>3

\* What Validate demands where money is taken, in production and in phase one.
LEMMA ValidatedFacts ==
    ASSUME NEW c, Validated(c)
    PROVE  /\ AnyOf(c, Money) => {"Wine", "Expiry", "RefundExecution", "RefundWorker", "Pay"} \subseteq c
           /\ AnyOf(c, Money) /\ On(c, "Production") => On(c, "WineBills")
           /\ On(c, "Production") => {"Redis", "Pay", "Expiry", "Bills", "BillWorker"} \subseteq c
           /\ On(c, "Production") /\ On(c, "RefundExecution") => On(c, "RefundWorker")
           /\ On(c, "PhaseOne") => PhaseOneSwitches \cup {"Redis"} \subseteq c
<1>1. AnyOf(c, Money) => On(c, "Wine") BY DEF Validated, WineTicketAccepted, AnyOf
<1>2. AnyOf(c, Money) => MoneyServed(c) BY <1>1 DEF Validated, WineTicketAccepted
<1>3. /\ AnyOf(c, Money) => {"Wine", "Expiry", "RefundExecution", "RefundWorker", "Pay"} \subseteq c
      /\ AnyOf(c, Money) /\ On(c, "Production") => On(c, "WineBills")
 BY <1>1, <1>2 DEF MoneyServed, On, Needs
<1>4. /\ On(c, "Production") => {"Redis", "Pay", "Expiry", "Bills", "BillWorker"} \subseteq c
      /\ On(c, "Production") /\ On(c, "RefundExecution") => On(c, "RefundWorker")
 BY DEF Validated, ValidProduction, On, Needs
<1>5. On(c, "PhaseOne") => PhaseOneSwitches \subseteq c /\ On(c, "Production")
 BY DEF Validated, On, Needs, PhaseOneSwitches
<1> QED BY <1>3, <1>4, <1>5

LEMMA RuntimeInvImplies == RuntimeInv => EnabledIsServed
<1> SUFFICES ASSUME RuntimeInv PROVE EnabledIsServed
 OBVIOUS
<1> DEFINE api == ApiMessaging(cfg) \cup ApiMaintenance(cfg) \cup ApiOthers(cfg)
<1>0. /\ \A p \in up \ {"api"} : running[p] = RoleWorkers(cfg, p)
      /\ "api" \in up => running["api"] = api
      /\ "api" \notin up => running["api"] = {}
 BY DEF RuntimeInv, ProcessRuns
<1>1. \A p \in up \ {"api"} : running["api"] \cap running[p] \cap Shared = {}
 <2> SUFFICES ASSUME NEW p \in up, p # "api" PROVE running["api"] \cap running[p] \cap Shared = {}
  OBVIOUS
 <2>1. CASE "api" \in up
  <3>1. api \cap RoleWorkers(cfg, p) \cap Shared = {} BY OneOwner
  <3> HIDE DEF api
  <3> QED BY <1>0, <2>1, <3>1
 <2>2. CASE "api" \notin up
  BY <1>0, <2>2
 <2> QED BY <2>1, <2>2
<1>2. ASSUME "api" \in up PROVE ApiMaintenance(cfg) \subseteq Runs /\ ApiOthers(cfg) \subseteq Runs /\ ApiMessaging(cfg) \subseteq Runs
 <2>1. \A w \in api : w \in Runs BY <1>0, <1>2 DEF Runs
 <2> QED BY <2>1
<1>3. ASSUME Staffed
      PROVE  \E r \in {"all", "wine-ticket-maintenance"} :
                (IF WorkerOwnsWine(cfg) THEN RoleWorkers(cfg, r) ELSE ApiMaintenance(cfg)) \subseteq Runs
 <2>1. CASE WorkerOwnsWine(cfg)
  <3>1. PICK r \in up : r \in {"all", "wine-ticket-maintenance"} BY <1>3, <2>1 DEF Staffed
  <3>2. running[r] = RoleWorkers(cfg, r) BY <1>0, <3>1
  <3>3. \A w \in running[r] : w \in Runs BY <3>1 DEF Runs
  <3> QED BY <2>1, <3>1, <3>2, <3>3
 <2>2. CASE ~WorkerOwnsWine(cfg)
  BY <1>2, <1>3, <2>2 DEF Staffed
 <2> QED BY <2>1, <2>2
<1>4. ASSUME Staffed
      PROVE  /\ On(cfg, "Expiry") => "order expiry" \in Runs
             /\ {"RefundWorker", "RefundExecution", "Pay"} \subseteq cfg => "refunds" \in Runs
             /\ On(cfg, "Wine") => {"gift expiry", "ticket expiry"} \subseteq Runs
             /\ On(cfg, "Wine") /\ On(cfg, "WineBills") => "integrity" \in Runs
 <2>1. PICK r \in {"all", "wine-ticket-maintenance"} :
           (IF WorkerOwnsWine(cfg) THEN RoleWorkers(cfg, r) ELSE ApiMaintenance(cfg)) \subseteq Runs
  BY <1>3, <1>4
 <2>2. PICK o : o = IF WorkerOwnsWine(cfg) THEN RoleWorkers(cfg, r) ELSE ApiMaintenance(cfg) OBVIOUS
 <2>3. /\ On(cfg, "Expiry") => "order expiry" \in o
       /\ {"RefundWorker", "RefundExecution", "Pay"} \subseteq cfg => "refunds" \in o
       /\ On(cfg, "Wine") => {"gift expiry", "ticket expiry"} \subseteq o
       /\ On(cfg, "Wine") /\ On(cfg, "WineBills") => "integrity" \in o
  BY <2>2, OwnerServes
 <2>4. o \subseteq Runs BY <2>1, <2>2
 <2> QED BY <2>3, <2>4
<1>5. /\ AnyOf(cfg, Money) => {"Wine", "Expiry", "RefundExecution", "RefundWorker", "Pay"} \subseteq cfg
      /\ AnyOf(cfg, Money) /\ On(cfg, "Production") => On(cfg, "WineBills")
      /\ On(cfg, "Production") => {"Redis", "Pay", "Expiry", "Bills", "BillWorker"} \subseteq cfg
      /\ On(cfg, "Production") /\ On(cfg, "RefundExecution") => On(cfg, "RefundWorker")
      /\ On(cfg, "PhaseOne") => PhaseOneSwitches \cup {"Redis"} \subseteq cfg
 BY ValidatedFacts DEF RuntimeInv
<1>6. Staffed /\ AnyOf(cfg, Money) => {"order expiry", "refunds", "gift expiry", "ticket expiry"} \subseteq Runs
 BY <1>4, <1>5 DEF On
<1>7. Staffed /\ On(cfg, "Production") =>
          /\ {"order expiry", "bills"} \subseteq Runs
          /\ (On(cfg, "RefundExecution") => "refunds" \in Runs)
          /\ (AnyOf(cfg, Money) => "integrity" \in Runs)
 <2> SUFFICES ASSUME Staffed, On(cfg, "Production")
              PROVE  /\ "order expiry" \in Runs /\ "bills" \in Runs
                     /\ (On(cfg, "RefundExecution") => "refunds" \in Runs)
                     /\ (AnyOf(cfg, Money) => "integrity" \in Runs)
  OBVIOUS
 <2>1. "bills" \in Runs BY <1>2, <1>5, ApiServes DEF Staffed
 <2> QED BY <1>4, <1>5, <2>1 DEF On
<1>8. "api" \in up /\ On(cfg, "PhaseOne") =>
          {"publisher", "dead sinks", "consumer Notification", "consumer Print", "consumer Cache", "consumer Security",
           "consumer Dispatch", "consumer Realtime", "printing", "notifications", "dispatch sweeper", "relay",
           "cache fallback"} \subseteq Runs
 <2> SUFFICES ASSUME "api" \in up, On(cfg, "PhaseOne")
              PROVE  {"publisher", "dead sinks", "consumer Notification", "consumer Print", "consumer Cache", "consumer Security",
          "consumer Dispatch", "consumer Realtime", "printing", "notifications", "dispatch sweeper", "relay",
          "cache fallback"} \subseteq Runs
  OBVIOUS
 <2>1. /\ {"publisher", "dead sinks", "consumer Notification", "consumer Print", "consumer Cache",
           "consumer Security", "consumer Dispatch", "consumer Realtime"} \subseteq Runs
       /\ {"printing", "notifications", "dispatch sweeper", "relay", "cache fallback"} \subseteq Runs
  BY <1>2, <1>5, ApiServes
 <2> QED BY <2>1
<1> QED BY <1>1, <1>6, <1>7, <1>8 DEF EnabledIsServed

----------------------------------------
(* The lease of a node id. *)

ProcessRecord == [phase : {"down", "starting", "up", "lost", "leaving"}, since : Nat, began : Int, last : Int, due : Int,
                  call : [at : Int, ok : BOOLEAN]]

LeaseTypeOK ==
    /\ moment \in Nat /\ node \in [owner : Instances \cup {"none"}, expires : Nat]
    /\ process \in [Instances -> ProcessRecord]

Alive(p) == process[p].phase \in {"starting", "up", "lost"}

\* A refresh that will be answered; a process that took longer than a tick to begin, and
\* that has had no refresh since.
Pending(p) == process[p].phase = "up" /\ process[p].call.at # -1 /\ process[p].call.ok
Lame(p) ==
    LET P == process[p] IN
    IF P.phase = "starting" THEN P.since + 2 < moment
    ELSE P.last = P.began /\ P.since + 2 < P.began /\ ~Pending(p)

\* The next tick and the answer under way, against the time and the last refresh.
Timely(p) ==
    LET P == process[p] IN
    /\ P.phase = "up" /\ P.call.at = -1 => P.due - P.last \in 0..5 /\ moment <= P.due /\ P.began + 2 <= P.due
    /\ P.phase \in {"up", "lost"} /\ P.call.at # -1 =>
          P.due - P.last \in 2..7 /\ P.call.at \in (P.due - 2)..P.due /\ moment <= P.call.at /\ P.began + 4 <= P.due
    /\ P.phase \in {"up", "lost"} /\ Lame(p) => P.due - P.last \in {2, 4, 6}
    /\ P.phase = "lost" => P.call.at # -1
    /\ P.phase = "starting" => P.call.at = -1 /\ P.since <= moment
    /\ P.call.at = -1 => P.call = NoCall

\* The last moment at which a process that is not lame can still be at work: an answer on its
\* way counts as a refresh, and ticks after the last refresh fall on the odd or the even
\* moments. One that is lame ends by its parity alone.
Until(p) ==
    LET P == process[p] IN
    IF Lame(p) THEN 0
    ELSE IF P.phase = "starting" THEN P.since + 8
    ELSE IF Pending(p) THEN P.due + 6
    ELSE IF P.due - P.last \in {1, 3, 5, 7} THEN P.last + 7 ELSE P.last + 6

\* A process that is not lame is at work for at most a tick longer than its key lasts; once the key is another's
\* its end is near; and of two processes, one had lost the key when the other acquired it.
LeaseInv ==
    /\ LeaseTypeOK /\ \A p \in Instances : Timely(p)
    /\ \A p \in Instances : Alive(p) /\ node.owner = p => Until(p) <= node.expires + 2
    /\ \A p \in Instances : Alive(p) /\ node.owner # p => Until(p) <= moment + 2
    /\ \A p, q \in Instances : p # q /\ Alive(p) /\ Alive(q) =>
          \/ node.owner # p /\ Until(p) <= process[q].since + 2
          \/ node.owner # q /\ Until(q) <= process[p].since + 2

LEMMA LeaseInitially == LeaseInit => LeaseInv
<1> SUFFICES ASSUME LeaseInit PROVE LeaseInv
 OBVIOUS
<1>1. Down \in ProcessRecord /\ Down.phase = "down" /\ Down.call = NoCall BY DEF Down, NoCall, ProcessRecord
<1>2. NoOwner \in [owner : Instances \cup {"none"}, expires : Nat] BY DEF NoOwner
<1>3. LeaseTypeOK BY <1>1, <1>2 DEF LeaseInit, LeaseTypeOK, ProcessRecord
<1>4. \A p \in Instances : Timely(p) /\ ~Alive(p) BY <1>1 DEF LeaseInit, Timely, Alive
<1> QED BY <1>3, <1>4 DEF LeaseInv

LEMMA LeaseInvImplies == LeaseInv => OneNodeOneProcess
<1> SUFFICES ASSUME LeaseInv, NEW p \in Instances, NEW q \in Instances, p # q, Works(p), Works(q)
             PROVE  \E r \in {p, q} : \/ moment - process[r].since <= Interval
                                      \/ Late(r) /\ moment - process[r].began <= Ttl
 BY DEF OneNodeOneProcess
<1>1. Interval = 2 /\ Ttl = 6 BY DEF Interval, Ttl
<1>2. \A r \in {p, q} : /\ process[r] \in ProcessRecord /\ moment \in Nat /\ Until(r) \in Int
                        /\ Alive(r) /\ process[r].phase \in {"up", "lost"} /\ Timely(r)
 BY DEF LeaseInv, LeaseTypeOK, ProcessRecord, Until, Works, Alive
<1>3. ASSUME NEW r \in {p, q}, Lame(r) PROVE Late(r) /\ moment - process[r].began <= Ttl
 BY <1>1, <1>2, <1>3 DEF Lame, Late, Timely, ProcessRecord
<1>4. ASSUME NEW r \in {p, q}, ~Lame(r) PROVE moment <= Until(r)
 BY <1>2, <1>4 DEF Until, Timely, ProcessRecord, Pending
<1>5. CASE ~Lame(p) /\ ~Lame(q)
 <2>1. \/ Until(p) <= process[q].since + 2
       \/ Until(q) <= process[p].since + 2
  BY <1>2 DEF LeaseInv
 <2> QED BY <1>1, <1>2, <1>4, <1>5, <2>1 DEF ProcessRecord
<1> QED BY <1>3, <1>5

LEMMA Times == Interval = 2 /\ Ttl = 6
BY DEF Interval, Ttl

\* A step of one process that does not take the key: it has no longer to live than before,
\* unless the key is its own and lasts.
LEMMA OneProcessMoves ==
    ASSUME LeaseInv, NEW p \in Instances, NEW R \in ProcessRecord,
           process' = [process EXCEPT ![p] = R], UNCHANGED moment,
           node' \in [owner : Instances \cup {"none"}, expires : Nat],
           node'.owner \in {node.owner, "none"}, node.owner # p => node' = node,
           Timely(p)',
           Alive(p)' => /\ Alive(p) /\ R.since = process[p].since /\ node'.owner = node.owner
                        /\ node.owner # p => Until(p)' <= Until(p)
                        /\ node.owner = p => Until(p)' <= node'.expires + 2
    PROVE  LeaseInv'
<1>1. LeaseTypeOK' BY DEF LeaseInv, LeaseTypeOK, ProcessRecord
<1>2. process'[p] = R /\ \A q \in Instances : q # p => process'[q] = process[q] BY DEF LeaseInv, LeaseTypeOK
<1>3. \A q \in Instances : q # p =>
        /\ Timely(q) => Timely(q)'
        /\ Alive(q)' <=> Alive(q)
        /\ Until(q)' = Until(q)
 BY <1>2 DEF Timely, Alive, Until, Lame, Pending
<1>4. \A q \in Instances : Timely(q)' BY <1>3 DEF LeaseInv
<1>5. /\ \A q \in Instances : Until(q) \in Int /\ Until(q)' \in Int
      /\ \A q \in Instances : process[q].since \in Int /\ process'[q].since \in Int
      /\ moment \in Int /\ node.expires \in Int /\ node'.expires \in Int
 BY <1>1 DEF LeaseInv, LeaseTypeOK, ProcessRecord, Until
<1>6. \A q \in Instances : Alive(q)' /\ node'.owner = q => Until(q)' <= node'.expires + 2
 BY <1>3, LeaseAssumption DEF LeaseInv
<1>7. \A q \in Instances : Alive(q)' /\ node'.owner # q => Until(q)' <= moment' + 2
 <2> SUFFICES ASSUME NEW q \in Instances, Alive(q)', node'.owner # q PROVE Until(q)' <= moment' + 2
  OBVIOUS
 <2>1. CASE q = p
  BY <1>5, <2>1 DEF LeaseInv
 <2>2. CASE q # p
  BY <1>3, <1>5, <2>2 DEF LeaseInv
 <2> QED BY <2>1, <2>2
<1>8. \A q \in Instances : q # p /\ Alive(p)' /\ Alive(q)' =>
          \/ node'.owner # p /\ Until(p)' <= process'[q].since + 2
          \/ node'.owner # q /\ Until(q)' <= process'[p].since + 2
 <2> SUFFICES ASSUME NEW q \in Instances, q # p, Alive(p)', Alive(q)'
              PROVE  \/ node'.owner # p /\ Until(p)' <= process'[q].since + 2
                     \/ node'.owner # q /\ Until(q)' <= process'[p].since + 2
  OBVIOUS
 <2>1. Alive(p) /\ Alive(q) /\ process'[p].since = process[p].since /\ process'[q].since = process[q].since
       /\ node'.owner = node.owner /\ Until(q)' = Until(q)
  BY <1>2, <1>3
 <2>2. \/ node.owner # p /\ Until(p) <= process[q].since + 2
       \/ node.owner # q /\ Until(q) <= process[p].since + 2
  BY <2>1 DEF LeaseInv
 <2> QED BY <1>5, <2>1, <2>2
<1>9. \A q, r \in Instances : q # r /\ Alive(q)' /\ Alive(r)' =>
          \/ node'.owner # q /\ Until(q)' <= process'[r].since + 2
          \/ node'.owner # r /\ Until(r)' <= process'[q].since + 2
 <2> SUFFICES ASSUME NEW q \in Instances, NEW r \in Instances, q # r, Alive(q)', Alive(r)'
              PROVE  \/ node'.owner # q /\ Until(q)' <= process'[r].since + 2
                     \/ node'.owner # r /\ Until(r)' <= process'[q].since + 2
  OBVIOUS
 <2>1. CASE q = p
  BY <1>8, <2>1
 <2>2. CASE r = p
  BY <1>8, <2>2
 <2>3. CASE q # p /\ r # p
  <3>1. Alive(q) /\ Alive(r) /\ process'[q] = process[q] /\ process'[r] = process[r]
        /\ Until(q)' = Until(q) /\ Until(r)' = Until(r)
   BY <1>2, <1>3, <2>3
  <3>2. \/ node.owner # q /\ Until(q) <= process[r].since + 2
        \/ node.owner # r /\ Until(r) <= process[q].since + 2
   BY <3>1 DEF LeaseInv
  <3> QED BY <3>1, <3>2, LeaseAssumption
 <2> QED BY <2>1, <2>2, <2>3
<1> QED BY <1>1, <1>4, <1>6, <1>7, <1>9 DEF LeaseInv

LEMMA AcquireStep == ASSUME LeaseInv, NEW p \in Instances, Acquire(p) PROVE LeaseInv'
<1> DEFINE R == [Down EXCEPT !.phase = "starting", !.since = moment]
<1>1. /\ process' = [process EXCEPT ![p] = R] /\ R \in ProcessRecord
      /\ node' = [owner |-> p, expires |-> moment + 6] /\ UNCHANGED moment
      /\ R.since = moment /\ R.phase = "starting" /\ R.call = NoCall /\ NoCall.at = -1 /\ moment \in Nat
 <2>1. moment \in Nat BY DEF LeaseInv, LeaseTypeOK
 <2>3. Down \in ProcessRecord /\ Down.call = NoCall /\ NoCall \in [at : Int, ok : BOOLEAN] /\ NoCall.at = -1
  BY DEF Down, NoCall, ProcessRecord
 <2>4. R \in ProcessRecord /\ R.since = moment /\ R.phase = "starting" /\ R.call = Down.call
  <3> HIDE DEF Down, NoCall
  <3> QED BY <2>1, <2>3 DEF ProcessRecord
 <2>5. /\ process' = [process EXCEPT ![p] = R] /\ node' = [owner |-> p, expires |-> moment + 6] /\ UNCHANGED moment
  BY Times DEF Acquire
 <2> HIDE DEF R
 <2> QED BY <2>1, <2>3, <2>4, <2>5
<1> HIDE DEF R
<1>2. process'[p] = R /\ \A q \in Instances : q # p => process'[q] = process[q]
 BY <1>1 DEF LeaseInv, LeaseTypeOK
<1>3. LeaseTypeOK' BY <1>1 DEF LeaseInv, LeaseTypeOK, ProcessRecord
<1>4. \A q \in Instances : q # p =>
        /\ Timely(q) => Timely(q)'
        /\ Alive(q)' <=> Alive(q)
        /\ Until(q)' = Until(q)
 BY <1>1, <1>2 DEF Timely, Alive, Until, Lame, Pending
<1>5. Timely(p)' /\ Until(p)' <= moment + 8 BY <1>1, <1>2 DEF Timely, Until, Lame
<1>6. node.owner = "none" \/ node.expires <= moment
 BY LeaseAssumption DEF Acquire, Owner, LeaseInv, LeaseTypeOK
<1>7. \A q \in Instances : Until(q) \in Int BY DEF LeaseInv, LeaseTypeOK, ProcessRecord, Until
<1>8. \A q \in Instances : q # p /\ Alive(q)' => Until(q)' <= moment + 2
 <2> SUFFICES ASSUME NEW q \in Instances, q # p, Alive(q) PROVE Until(q) <= moment + 2
  BY <1>4
 <2>1. CASE node.owner = q
  BY <1>1, <1>6, <1>7, <2>1, LeaseAssumption DEF LeaseInv, LeaseTypeOK
 <2>2. CASE node.owner # q
  BY <2>2 DEF LeaseInv
 <2> QED BY <2>1, <2>2
<1>9. \A q \in Instances : Timely(q)' BY <1>4, <1>5 DEF LeaseInv
<1>10. node'.owner = p /\ node'.expires = moment + 6 /\ process'[p].since = moment /\ moment' = moment
 BY <1>1, <1>2
<1>11. /\ \A q \in Instances : Alive(q)' /\ node'.owner = q => Until(q)' <= node'.expires + 2
       /\ \A q \in Instances : Alive(q)' /\ node'.owner # q => Until(q)' <= moment' + 2
 BY <1>1, <1>5, <1>8, <1>10
<1>12. \A q, r \in Instances : q # r /\ Alive(q)' /\ Alive(r)' =>
          \/ node'.owner # q /\ Until(q)' <= process'[r].since + 2
          \/ node'.owner # r /\ Until(r)' <= process'[q].since + 2
 <2> SUFFICES ASSUME NEW q \in Instances, NEW r \in Instances, q # r, Alive(q)', Alive(r)'
              PROVE  \/ node'.owner # q /\ Until(q)' <= process'[r].since + 2
                     \/ node'.owner # r /\ Until(r)' <= process'[q].since + 2
  OBVIOUS
 <2>1. CASE q = p \/ r = p
  BY <1>8, <1>10, <2>1
 <2>3. CASE q # p /\ r # p
  <3>1. Alive(q) /\ Alive(r) /\ process'[q] = process[q] /\ process'[r] = process[r]
        /\ Until(q)' = Until(q) /\ Until(r)' = Until(r)
   BY <1>2, <1>4, <2>3
  <3>2. \/ node.owner # q /\ Until(q) <= process[r].since + 2
        \/ node.owner # r /\ Until(r) <= process[q].since + 2
   BY <3>1 DEF LeaseInv
  <3> QED BY <1>10, <2>3, <3>1, <3>2
 <2> QED BY <2>1, <2>3
<1> QED BY <1>3, <1>9, <1>11, <1>12 DEF LeaseInv

LEMMA BeginStep == ASSUME LeaseInv, NEW p \in Instances, Begin(p) PROVE LeaseInv'
<1>d. PICK due : due = moment + 2
 OBVIOUS
<1> DEFINE P == process[p]
           R == [P EXCEPT !.phase = "up", !.began = moment, !.last = moment, !.due = due]
<1>0. P \in ProcessRecord /\ moment \in Nat BY DEF LeaseInv, LeaseTypeOK, ProcessRecord
<1>1. /\ process' = [process EXCEPT ![p] = R] /\ UNCHANGED <<moment, node>> /\ P.phase = "starting"
 BY <1>d, Times DEF Begin
<1>2. /\ R \in ProcessRecord /\ R.phase = "up" /\ R.last = moment /\ R.began = moment /\ R.due = moment + 2
      /\ R.since = P.since /\ R.call = P.call
 <2>1. due \in Int /\ moment \in Int /\ P.call \in [at : Int, ok : BOOLEAN] BY <1>0, <1>d DEF ProcessRecord
 <2> HIDE DEF P
 <2>2. R \in ProcessRecord /\ R.phase = "up" /\ R.last = moment /\ R.began = moment /\ R.due = due
       /\ R.since = P.since /\ R.call = P.call
  <3> HIDE DEF P
  <3> QED BY <1>0, <2>1 DEF ProcessRecord
 <2> QED BY <1>d, <2>2
<1>3. process'[p] = R BY <1>1 DEF LeaseInv, LeaseTypeOK
<1>4. P.call.at = -1 /\ P.call = NoCall /\ P.since <= moment BY <1>1 DEF LeaseInv, Timely
<1> HIDE DEF R
<1>5. (Lame(p)' <=> P.since + 2 < moment) /\ (Lame(p) <=> P.since + 2 < moment)
 BY <1>0, <1>1, <1>2, <1>3, <1>4 DEF Lame, Pending, ProcessRecord
<1>a. Timely(p)'
 BY <1>0, <1>1, <1>2, <1>3, <1>4 DEF Timely
<1>6. Alive(p) /\ Until(p)' \in Int /\ Until(p) \in Int
 BY <1>0, <1>1, <1>2, <1>3 DEF Alive, Until, ProcessRecord
<1>7. Until(p)' <= Until(p)
 <2>1. CASE P.since + 2 < moment
  BY <1>5, <2>1 DEF Until
 <2>2. CASE ~(P.since + 2 < moment)
  <3>1. Until(p) = P.since + 8 /\ Until(p)' = moment + 6
   BY <1>0, <1>1, <1>2, <1>3, <1>4, <1>5, <2>2 DEF Until, Pending, ProcessRecord
  <3> QED BY <1>0, <2>2, <3>1 DEF ProcessRecord
 <2> QED BY <2>1, <2>2
<1>8. node' \in [owner : Instances \cup {"none"}, expires : Nat] /\ node.expires \in Int
 BY <1>1 DEF LeaseInv, LeaseTypeOK
<1>9. node.owner = p => Until(p)' <= node'.expires + 2
 BY <1>0, <1>1, <1>6, <1>7, <1>8 DEF LeaseInv, ProcessRecord
<1> QED BY <1>1, <1>2, <1>a, <1>6, <1>7, <1>8, <1>9, OneProcessMoves

LEMMA AnswerStep == ASSUME LeaseInv, NEW p \in Instances, LeaseAnswer(p) PROVE LeaseInv'
<1> DEFINE P == process[p]
           ends == P.phase = "lost" \/ (~P.call.ok /\ GivesUp(p))
           phase == IF ends THEN "leaving" ELSE P.phase
           last == IF P.call.ok /\ ~ends THEN moment ELSE P.last
           R == [P EXCEPT !.call = NoCall, !.phase = phase, !.last = last]
<1>0. P \in ProcessRecord /\ moment \in Nat BY DEF LeaseInv, LeaseTypeOK, ProcessRecord
<1>1. /\ process' = [process EXCEPT ![p] = R] /\ UNCHANGED <<moment, node>>
      /\ P.phase \in {"up", "lost"} /\ P.call.at = moment
 <2>1. process' = [process EXCEPT ![p] = R] BY Zenon DEF LeaseAnswer
 <2>2. UNCHANGED <<moment, node>> /\ P.phase \in {"up", "lost"} /\ P.call.at = moment BY DEF LeaseAnswer
 <2> QED BY <2>1, <2>2
<1>2. /\ R \in ProcessRecord /\ R.phase = (IF ends THEN "leaving" ELSE P.phase)
      /\ R.last = (IF P.call.ok /\ ~ends THEN moment ELSE P.last) /\ R.due = P.due
      /\ R.since = P.since /\ R.began = P.began /\ R.call = NoCall /\ NoCall.at = -1
 <2>1. /\ phase \in {"down", "starting", "up", "lost", "leaving"} /\ last \in Int /\ P.due \in Int
       /\ NoCall \in [at : Int, ok : BOOLEAN] /\ NoCall.at = -1
  BY <1>0, <1>1 DEF ProcessRecord, NoCall
 <2>2. R \in ProcessRecord /\ R.phase = phase /\ R.last = last /\ R.call = NoCall
       /\ R.since = P.since /\ R.began = P.began /\ R.due = P.due
  <3> HIDE DEF P, phase, last
  <3> QED BY <1>0, <2>1 DEF ProcessRecord
 <2> QED BY <2>1, <2>2
<1>3. process'[p] = R BY <1>1 DEF LeaseInv, LeaseTypeOK
<1>4. P.due - P.last \in 2..7 /\ P.call.at \in (P.due - 2)..P.due /\ P.began + 4 <= P.due
      /\ (Lame(p) => P.due - P.last \in {2, 4, 6})
 BY <1>0, <1>1 DEF LeaseInv, Timely
<1>8. node' \in [owner : Instances \cup {"none"}, expires : Nat] /\ node.expires \in Int
 BY <1>1 DEF LeaseInv, LeaseTypeOK
<1> HIDE DEF R
<1>5. CASE ends
 <2>1. Timely(p)' /\ ~Alive(p)' BY <1>2, <1>3, <1>5 DEF Timely, Alive
 <2> QED BY <1>1, <1>2, <1>8, <2>1, OneProcessMoves
<1>6. CASE ~ends
 <2>1. P.phase = "up" /\ Alive(p) /\ (P.call.ok \/ moment - P.last < 4)
  BY <1>0, <1>1, <1>6, Times DEF GivesUp, Alive, ProcessRecord
 <2>2. /\ P.due - R.last \in 0..5 /\ moment <= P.due
       /\ P.call.ok => P.due - R.last \in 0..2
  BY <1>0, <1>1, <1>2, <1>4, <1>6, <2>1 DEF ProcessRecord
 <2>a. Lame(p)' <=> Lame(p)
  BY <1>0, <1>1, <1>2, <1>3, <1>4, <1>6, <2>1 DEF Lame, Pending, ProcessRecord
 <2>b. Lame(p) => R.last = P.last
  BY <1>0, <1>1, <1>2, <2>1 DEF Lame, Pending
 <2>3. Timely(p)' BY <1>0, <1>1, <1>2, <1>3, <1>4, <1>6, <2>1, <2>2, <2>a, <2>b DEF Timely, ProcessRecord
 <2>4. Until(p) \in Int /\ Until(p)' \in Int /\ Until(p)' <= Until(p)
  <3>0. CASE Lame(p)
   BY <2>a, <3>0 DEF Until
  <3>1. ~Lame(p) => Until(p)' = IF P.due - R.last \in {1, 3, 5, 7} THEN R.last + 7 ELSE R.last + 6
   BY <1>2, <1>3, <1>6, <2>1, <2>a DEF Until, Pending
  <3>2. CASE ~Lame(p) /\ P.call.ok
   <4>1. Until(p) = P.due + 6 BY <1>0, <1>1, <2>1, <3>2 DEF Until, Pending
   <4> QED BY <1>0, <1>2, <2>2, <3>1, <3>2, <4>1 DEF ProcessRecord
  <3>3. CASE ~Lame(p) /\ ~P.call.ok
   <4>1. Until(p) = IF P.due - P.last \in {1, 3, 5, 7} THEN P.last + 7 ELSE P.last + 6
    BY <2>1, <3>3 DEF Until, Pending
   <4> QED BY <1>0, <1>2, <3>1, <3>3, <4>1 DEF ProcessRecord
  <3> QED BY <3>0, <3>2, <3>3
 <2>5. node.owner = p => Until(p)' <= node'.expires + 2 BY <1>1, <1>8, <2>1, <2>4 DEF LeaseInv
 <2> QED BY <1>1, <1>2, <1>8, <2>1, <2>3, <2>4, <2>5, OneProcessMoves
<1> QED BY <1>5, <1>6

LEMMA LeaveStep == ASSUME LeaseInv, NEW p \in Instances, NEW dies \in BOOLEAN, Leave(p, dies) PROVE LeaseInv'
<1>1. /\ process' = [process EXCEPT ![p] = Down] /\ UNCHANGED moment
      /\ (node' = NoOwner /\ node.owner = p) \/ node' = node
 BY LeaseAssumption DEF Leave, Owner
<1>2. Down \in ProcessRecord /\ Down.phase = "down" /\ Down.call = NoCall /\ NoOwner \in [owner : Instances \cup {"none"}, expires : Nat]
      /\ NoOwner.owner = "none"
 BY DEF Down, ProcessRecord, NoCall, NoOwner
<1>3. process'[p] = Down BY <1>1 DEF LeaseInv, LeaseTypeOK
<1>4. Timely(p)' /\ ~Alive(p)' BY <1>2, <1>3 DEF Timely, Alive
<1>5. /\ node' \in [owner : Instances \cup {"none"}, expires : Nat]
      /\ node'.owner \in {node.owner, "none"} /\ (node.owner # p => node' = node)
 BY <1>1, <1>2 DEF LeaseInv, LeaseTypeOK
<1> QED BY <1>1, <1>2, <1>4, <1>5, OneProcessMoves

LEMMA RefreshStep ==
    ASSUME LeaseInv, NEW p \in Instances, NEW delay \in 0..Interval, NEW answered \in BOOLEAN,
           NEW effect \in BOOLEAN, Refresh(p, delay, answered, effect)
    PROVE  LeaseInv'
<1> DEFINE P == process[p]
           due == P.due + Interval
           call == [at |-> moment + delay, ok |-> answered]
           phase == IF answered /\ Owner # p THEN "lost" ELSE P.phase
           R == [P EXCEPT !.due = due, !.call = call, !.phase = phase]
<1>0. P \in ProcessRecord /\ moment \in Nat /\ delay \in 0..2
 BY Times DEF LeaseInv, LeaseTypeOK, ProcessRecord
<1>1. /\ process' = [process EXCEPT ![p] = R] /\ UNCHANGED moment
      /\ P.phase = "up" /\ P.due = moment /\ P.call.at = -1
      /\ (answered => effect)
      /\ node' = IF effect THEN Refreshed(p) ELSE node
 <2>1. process' = [process EXCEPT ![p] = R] BY Zenon DEF Refresh
 <2>2. /\ UNCHANGED moment /\ P.phase = "up" /\ P.due = moment /\ P.call = NoCall /\ (answered => effect)
       /\ node' = IF effect THEN Refreshed(p) ELSE node
  BY DEF Refresh
 <2> QED BY <2>1, <2>2 DEF NoCall
<1>2. /\ R \in ProcessRecord /\ R.phase = (IF answered /\ Owner # p THEN "lost" ELSE "up")
      /\ R.last = P.last /\ R.due = P.due + 2
      /\ R.since = P.since /\ R.began = P.began /\ R.call.at = moment + delay /\ R.call.ok = answered
 <2>1. /\ phase \in {"down", "starting", "up", "lost", "leaving"} /\ due \in Int /\ P.last \in Int
       /\ call \in [at : Int, ok : BOOLEAN] /\ call.at = moment + delay /\ call.ok = answered
       /\ phase = (IF answered /\ Owner # p THEN "lost" ELSE "up") /\ due = P.due + 2
  BY <1>0, <1>1, Times DEF ProcessRecord
 <2>2. R \in ProcessRecord /\ R.phase = phase /\ R.due = due /\ R.call = call
       /\ R.since = P.since /\ R.began = P.began /\ R.last = P.last
  <3> HIDE DEF P, phase, due, call
  <3> QED BY <1>0, <2>1 DEF ProcessRecord
 <2> QED BY <2>1, <2>2
<1>3. process'[p] = R BY <1>1 DEF LeaseInv, LeaseTypeOK
<1>4. P.due - P.last \in 0..5 /\ P.began + 2 <= P.due /\ (Lame(p) => P.due - P.last \in {2, 4, 6})
 BY <1>1 DEF LeaseInv, Timely
<1>5. /\ node' \in [owner : Instances \cup {"none"}, expires : Nat]
      /\ node'.owner = node.owner /\ (node.owner # p => node' = node)
      /\ node' = node \/ (Owner = p /\ node.owner = p /\ node'.expires = moment + 6)
      /\ answered /\ Owner = p => node.owner = p /\ node'.expires = moment + 6
 BY <1>0, <1>1, Times, LeaseAssumption DEF LeaseInv, LeaseTypeOK, Refreshed, Owner
<1> HIDE DEF R
<1>b. Lame(p)' <=> Lame(p) /\ ~(answered /\ Owner = p)
 BY <1>0, <1>1, <1>2, <1>3 DEF Lame, Pending, ProcessRecord
<1>6. Timely(p)'
 <2>1. /\ R.due - R.last \in 2..7 /\ R.call.at \in (R.due - 2)..R.due /\ moment <= R.call.at
       /\ R.call.at # -1 /\ R.phase \in {"up", "lost"} /\ R.began + 4 <= R.due
  BY <1>0, <1>1, <1>2, <1>4 DEF ProcessRecord
 <2>2. Lame(p)' => R.due - R.last \in {2, 4, 6} BY <1>0, <1>1, <1>2, <1>4, <1>b DEF ProcessRecord
 <2> QED BY <1>1, <1>3, <2>1, <2>2 DEF Timely
<1>7. Alive(p) BY <1>1 DEF Alive
<1>8. Until(p) = IF Lame(p) THEN 0 ELSE IF P.due - P.last \in {1, 3, 5, 7} THEN P.last + 7 ELSE P.last + 6
 BY <1>1 DEF Until, Pending
<1>9. CASE answered /\ Owner = p
 <2>0. R.call.ok /\ R.phase = "up" /\ R.call.at # -1 /\ R.due = moment + 2 BY <1>0, <1>1, <1>2, <1>9
 <2>1. Until(p)' = moment + 8 BY <1>0, <1>3, <1>9, <1>b, <2>0 DEF Until, Pending
 <2>7. /\ Alive(p) /\ R.since = process[p].since /\ node'.owner = node.owner
       /\ node.owner # p => Until(p)' <= Until(p)
       /\ node.owner = p => Until(p)' <= node'.expires + 2
  BY <1>0, <1>2, <1>5, <1>7, <1>9, <2>1
 <2>8. R \in ProcessRecord /\ process' = [process EXCEPT ![p] = R] /\ UNCHANGED moment BY <1>1, <1>2
 <2> HIDE DEF P
 <2> QED BY <1>5, <1>6, <2>7, <2>8, OneProcessMoves
<1>10. CASE ~(answered /\ Owner = p)
 <2>1. Until(p)' = IF Lame(p) THEN 0 ELSE IF R.due - R.last \in {1, 3, 5, 7} THEN R.last + 7 ELSE R.last + 6
  BY <1>2, <1>3, <1>10, <1>b DEF Until, Pending
 <2>2. Until(p)' = Until(p) /\ Until(p) \in Int /\ Until(p) <= moment + 7
  BY <1>0, <1>1, <1>2, <1>4, <1>8, <2>1 DEF ProcessRecord
 <2>3. node.owner = p => Until(p)' <= node'.expires + 2 BY <1>0, <1>5, <1>7, <2>2 DEF LeaseInv
 <2>7. /\ Alive(p) /\ R.since = process[p].since /\ node'.owner = node.owner
       /\ node.owner # p => Until(p)' <= Until(p)
       /\ node.owner = p => Until(p)' <= node'.expires + 2
  BY <1>2, <1>5, <1>7, <2>2, <2>3
 <2>8. R \in ProcessRecord /\ process' = [process EXCEPT ![p] = R] /\ UNCHANGED moment BY <1>1, <1>2
 <2> HIDE DEF P
 <2> QED BY <1>5, <1>6, <2>7, <2>8, OneProcessMoves
<1> QED BY <1>9, <1>10

LEMMA MomentStep == ASSUME LeaseInv, MomentPasses PROVE LeaseInv'
<1>1. moment' = moment + 1 /\ UNCHANGED <<node, process>> /\ moment \in Nat
 BY DEF MomentPasses, LeaseInv, LeaseTypeOK
<1>2. LeaseTypeOK' BY <1>1 DEF LeaseInv, LeaseTypeOK
<1>3. \A p \in Instances : (Alive(p)' <=> Alive(p)) /\ Until(p)' \in {0, Until(p)} /\ Until(p) \in Int
 BY <1>1 DEF Alive, Until, Lame, Pending, LeaseInv, LeaseTypeOK, ProcessRecord
<1>4. \A p \in Instances : Timely(p)'
 <2> SUFFICES ASSUME NEW p \in Instances PROVE Timely(p)'
  OBVIOUS
 <2> DEFINE P == process[p]
 <2>1. P \in ProcessRecord /\ process'[p] = P /\ Timely(p) BY <1>1 DEF LeaseInv, LeaseTypeOK, ProcessRecord
 <2>2. /\ (P.phase = "up" /\ P.call = NoCall => moment < P.due)
       /\ (P.call.at # -1 => moment < P.call.at)
  BY DEF MomentPasses, NoCall
 <2>3. P.phase \in {"up", "lost"} /\ P.call.at # -1 => moment + 1 <= P.call.at
  BY <1>1, <2>1, <2>2 DEF ProcessRecord
 <2>4. P.phase = "up" /\ P.call.at = -1 => moment + 1 <= P.due BY <1>1, <2>1, <2>2 DEF ProcessRecord, Timely
 <2>5. P.phase = "starting" => P.since <= moment + 1 BY <1>1, <2>1, <2>2 DEF ProcessRecord, Timely
 <2>6. P.phase # "starting" => (Lame(p)' <=> Lame(p)) BY <2>1 DEF Lame, Pending
 <2> HIDE DEF P
 <2> QED BY <1>1, <2>1, <2>3, <2>4, <2>5, <2>6 DEF Timely
<1>5. node.expires \in Nat /\ \A p \in Instances : process[p].since \in Nat
 BY DEF LeaseInv, LeaseTypeOK, ProcessRecord
<1> QED BY <1>1, <1>2, <1>3, <1>4, <1>5 DEF LeaseInv

LEMMA LeaseKeeps == LeaseInv /\ LeaseNext => LeaseInv'
BY AcquireStep, BeginStep, AnswerStep, RefreshStep, LeaveStep, MomentStep DEF LeaseNext

----------------------------------------
(* Rider applications. *)

\* Whoever has read the present version has read the present scope; the verdicts are on
\* submissions that were made, one each, and only the last can be an approval; a rider who
\* came from an application has the scope that was approved.
ApplyInv ==
    /\ application \in [status : {"none", "submitted", "rejected", "approved"}, version : Nat, count : Nat,
                        scope : Scopes \cup {"none"}]
    /\ screen \in [People -> [version : Nat, scope : Scopes \cup {"none"}]] /\ opened \in Scopes \cup {"none"}
    /\ holder \in [by : {"nobody", "application", "provisioning"}, status : {"active", "disabled"}, version : Nat]
    /\ (holder.by # "application" <=> application.status = "none")
    /\ (holder.by = "nobody" => opened = "none")
    /\ IF application.status = "none" THEN application.version = 0 /\ application.count = 0 /\ verdicts = {}
                                      ELSE application.version > 0 /\ application.count > 0 /\ application.scope \in Scopes
    /\ \A p \in People : /\ screen[p].version <= application.version
                         /\ (application.status # "none" /\ screen[p].version = application.version =>
                                screen[p].scope = application.scope)
    /\ (holder.by = "application" => opened = IF application.status = "approved" THEN application.scope ELSE "none")
    /\ IsFiniteSet(verdicts)
    /\ Cardinality(verdicts) = application.count - (IF application.status = "submitted" THEN 1 ELSE 0)
    /\ \A v \in verdicts : /\ v.of \in 1..application.count
                           /\ (application.status = "submitted" => v.of < application.count)
                           /\ (v.decision = "approved" => /\ application.status = "approved"
                                                          /\ v.of = application.count /\ v.seen = application.scope)
    /\ \A v, w \in verdicts : v.of = w.of => v = w

LEMMA ApplyInitially == ApplyInit => ApplyInv
BY FS_EmptySet DEF ApplyInit, ApplyInv, Blank

LEMMA ApplyInvImplies == ApplyInv => ApplicationsDecided
BY ApplyAssumption DEF ApplyInv, ApplicationsDecided, PassAccepted, UnderWay

LEMMA SubmitStep == ASSUME ApplyInv, NEW scope \in Scopes, Submit(scope) PROVE ApplyInv'
<1>1. CASE IdentityAvailable
 <2>1. /\ application' = [status |-> "submitted", version |-> 1, count |-> 1, scope |-> scope]
       /\ holder' = [by |-> "application", status |-> "disabled", version |-> 1] /\ UNCHANGED <<opened, verdicts, screen>>
       /\ application.status = "none" /\ opened = "none"
  BY <1>1 DEF Submit, IdentityAvailable, ApplyInv
 <2> QED BY <2>1 DEF ApplyInv
<1>2. CASE ~IdentityAvailable
 BY <1>2 DEF Submit, ApplyInv
<1> QED BY <1>1, <1>2

LEMMA CreateRiderStep == ASSUME ApplyInv, NEW scope \in Scopes, CreateRider(scope) PROVE ApplyInv'
<1>1. /\ holder' = [by |-> "provisioning", status |-> "disabled", version |-> 1] /\ opened' = scope /\ holder.by = "nobody"
      /\ UNCHANGED <<application, verdicts, screen>>
 BY DEF CreateRider, IdentityAvailable
<1> QED BY <1>1 DEF ApplyInv

LEMMA LookStep == ASSUME ApplyInv, NEW p \in People, Look(p) PROVE ApplyInv'
<1> DEFINE R == [version |-> application.version, scope |-> application.scope]
<1>1. /\ screen' = [screen EXCEPT ![p] = R] /\ UNCHANGED <<holder, application, opened, verdicts>>
      /\ application.status # "none"
 BY DEF Look
<1>2. R \in [version : Nat, scope : Scopes \cup {"none"}] /\ R.version = application.version /\ R.scope = application.scope
 BY DEF ApplyInv
<1> HIDE DEF R
<1>3. /\ screen' \in [People -> [version : Nat, scope : Scopes \cup {"none"}]]
      /\ \A q \in People : screen'[q] = IF q = p THEN R ELSE screen[q]
 BY <1>1, <1>2 DEF ApplyInv
<1>4. \A q \in People : /\ screen'[q].version <= application.version
                        /\ screen'[q].version = application.version => screen'[q].scope = application.scope
 BY <1>1, <1>2, <1>3 DEF ApplyInv
<1> QED BY <1>1, <1>3, <1>4 DEF ApplyInv

\* What a change of the application leaves of the facts about the screens.
LEMMA NewVersion ==
    ASSUME ApplyInv, application'.version = application.version + 1, UNCHANGED screen
    PROVE  \A p \in People : screen[p].version < application'.version
BY DEF ApplyInv

LEMMA UpdateOwnStep ==
    ASSUME ApplyInv, NEW p \in People, NEW scope \in Scopes, UpdateOwn(p, scope) PROVE ApplyInv'
<1>1. /\ application' \in [status : {"none", "submitted", "rejected", "approved"}, version : Nat, count : Nat,
                           scope : Scopes \cup {"none"}]
      /\ application'.version = application.version + 1 /\ application'.scope = scope
      /\ application'.status = "rejected" /\ application'.count = application.count
      /\ application.status = "rejected" /\ UNCHANGED <<holder, opened, verdicts, screen>>
 <2>1. PICK n \in Nat : n = application.version + 1 BY DEF ApplyInv
 <2>2. application' = [application EXCEPT !.scope = scope, !.version = n] BY <2>1 DEF UpdateOwn
 <2>3. application.status = "rejected" /\ UNCHANGED <<holder, opened, verdicts, screen>> BY DEF UpdateOwn
 <2> QED BY <2>1, <2>2, <2>3 DEF ApplyInv
<1>2. \A q \in People : screen[q].version < application'.version BY <1>1, NewVersion
<1> QED BY <1>1, <1>2 DEF ApplyInv

LEMMA ResubmitStep == ASSUME ApplyInv, NEW p \in People, Resubmit(p) PROVE ApplyInv'
<1>1. /\ application' \in [status : {"none", "submitted", "rejected", "approved"}, version : Nat, count : Nat,
                           scope : Scopes \cup {"none"}]
      /\ application'.version = application.version + 1 /\ application'.scope = application.scope
      /\ application'.status = "submitted" /\ application'.count = application.count + 1
      /\ application.status = "rejected" /\ UNCHANGED <<holder, opened, verdicts, screen>>
 <2>1. PICK n \in Nat : n = application.version + 1 BY DEF ApplyInv
 <2>2. PICK m \in Nat : m = application.count + 1 BY DEF ApplyInv
 <2>3. application' = [application EXCEPT !.status = "submitted", !.count = m, !.version = n]
  BY <2>1, <2>2 DEF Resubmit
 <2>4. application.status = "rejected" /\ UNCHANGED <<holder, opened, verdicts, screen>> BY DEF Resubmit
 <2> QED BY <2>1, <2>2, <2>3, <2>4 DEF ApplyInv
<1>2. \A q \in People : screen[q].version < application'.version BY <1>1, NewVersion
<1> QED BY <1>1, <1>2 DEF ApplyInv

LEMMA ReviewStep ==
    ASSUME ApplyInv, NEW p \in People, NEW decision \in {"approved", "rejected"}, Review(p, decision)
    PROVE  ApplyInv'
<1> DEFINE v0 == [of |-> application.count, decision |-> decision, seen |-> screen[p].scope]
<1>1. /\ application' \in [status : {"none", "submitted", "rejected", "approved"}, version : Nat, count : Nat,
                           scope : Scopes \cup {"none"}]
      /\ application'.version = application.version + 1 /\ application'.scope = application.scope
      /\ application'.status = decision /\ application'.count = application.count
      /\ application.status = "submitted" /\ screen[p].version = application.version
      /\ UNCHANGED screen /\ verdicts' = verdicts \cup {v0}
 <2>1. PICK n \in Nat : n = application.version + 1 BY DEF ApplyInv
 <2>2. application' = [application EXCEPT !.status = decision, !.version = n] BY <2>1 DEF Review
 <2>3. /\ application.status = "submitted" /\ screen[p].version = application.version
       /\ UNCHANGED screen /\ verdicts' = verdicts \cup {v0}
  BY DEF Review, MayReview, AsRead
 <2> QED BY <2>1, <2>2, <2>3 DEF ApplyInv
<1>2. \A q \in People : screen[q].version < application'.version BY <1>1, NewVersion
<1>3. /\ v0.of = application.count /\ v0.decision = decision /\ v0.seen = application.scope
 BY <1>1 DEF ApplyInv
<1> HIDE DEF v0
<1>4. v0 \notin verdicts BY <1>1, <1>3 DEF ApplyInv
<1>5. IsFiniteSet(verdicts') /\ Cardinality(verdicts') = Cardinality(verdicts) + 1
 BY <1>1, <1>4, FS_AddElement DEF ApplyInv
<1>6. /\ holder' \in [by : {"nobody", "application", "provisioning"}, status : {"active", "disabled"}, version : Nat]
      /\ holder'.by = holder.by /\ opened' = IF decision = "approved" THEN application.scope ELSE opened
 <2>1. CASE decision = "approved"
  <3>1. PICK n \in Nat : n = holder.version + 1 BY DEF ApplyInv
  <3>2. holder' = [holder EXCEPT !.status = "active", !.version = n] /\ opened' = application.scope
   BY <2>1, <3>1 DEF Review
  <3> QED BY <2>1, <3>1, <3>2 DEF ApplyInv
 <2>2. CASE decision # "approved"
  BY <2>2 DEF Review, ApplyInv
 <2> QED BY <2>1, <2>2
<1>7. \A v, w \in verdicts' : v.of = w.of => v = w BY <1>1, <1>3 DEF ApplyInv
<1>8. \A v \in verdicts' : /\ v.of \in 1..application'.count
                           /\ (application'.status = "submitted" => v.of < application'.count)
                           /\ (v.decision = "approved" => /\ application'.status = "approved"
                                                          /\ v.of = application'.count /\ v.seen = application'.scope)
 BY <1>1, <1>3 DEF ApplyInv
<1>9. Cardinality(verdicts') = application'.count - (IF application'.status = "submitted" THEN 1 ELSE 0)
 BY <1>1, <1>5 DEF ApplyInv
<1> QED BY <1>1, <1>2, <1>5, <1>6, <1>7, <1>8, <1>9 DEF ApplyInv

LEMMA SwitchStep ==
    ASSUME ApplyInv, NEW status \in {"active", "disabled"}, SwitchAccount(status) PROVE ApplyInv'
<1>0. PICK n \in Nat : n = holder.version + 1 BY DEF ApplyInv
<1>1. /\ holder' \in [by : {"nobody", "application", "provisioning"}, status : {"active", "disabled"}, version : Nat]
      /\ holder'.by = holder.by /\ UNCHANGED <<application, opened, verdicts, screen>>
 <2>1. holder' = [holder EXCEPT !.status = status, !.version = n] /\ UNCHANGED <<application, opened, verdicts, screen>>
  BY <1>0 DEF SwitchAccount
 <2> QED BY <1>0, <2>1 DEF ApplyInv
<1> QED BY <1>1 DEF ApplyInv

LEMMA ApplyKeeps == ApplyInv /\ ApplyNext => ApplyInv'
<1> SUFFICES ASSUME ApplyInv, ApplyNext PROVE ApplyInv'
 OBVIOUS
<1>1. CASE SendCode \/ ApplicantLogin
 BY <1>1 DEF SendCode, ApplicantLogin, ApplyInv
<1> QED BY <1>1, SubmitStep, CreateRiderStep, LookStep, ResubmitStep, UpdateOwnStep, ReviewStep, SwitchStep
         DEF ApplyNext

----------------------------------------
(* Customer sign-in. *)

Visit == [step : {"idle", "making", "binding", "proved"}, subject : OpenIds \cup Phones \cup {"none"},
          customer : Nat]

SignTypeOK ==
    /\ owner \in [OpenIds -> Nat] /\ customers \in Nat /\ phone \in [CustomerIds -> Phones \cup {"none"}]
    /\ visit \in [Devices -> Visit] /\ text \in [Phones -> Nat] /\ latest \in [Phones -> Nat]
    /\ sending \in [Phones -> SUBSET (1..texts)] /\ arrived \in [Phones -> SUBSET (1..texts)]
    /\ spent \in [1..TextBound -> Nat] /\ texts \in 0..TextBound

Owned == {o \in OpenIds : owner[o] # 0}

\* Customers and open ids go in pairs, one for each customer made; a request in between holds
\* an open id, or a customer and a phone.
OwnersOK ==
    /\ customers = Cardinality(Owned) /\ \A o \in OpenIds : owner[o] <= customers
    /\ \A c \in 1..customers : \E o \in OpenIds : owner[o] = c
    /\ \A o1, o2 \in OpenIds : owner[o1] = owner[o2] /\ owner[o1] # 0 => o1 = o2
    /\ \A d \in Devices : /\ (visit[d].step = "making" => visit[d].subject \in OpenIds)
                          /\ (visit[d].step = "binding" => visit[d].subject \in Phones /\ visit[d].customer \in 1..customers)

PhonesOK ==
    /\ \A c \in CustomerIds : c > customers => phone[c] = "none"
    /\ \A c1, c2 \in CustomerIds : phone[c1] = phone[c2] /\ phone[c1] # "none" => c1 = c2

\* The code in Redis is the last one made for the phone and unspent; without one, the last
\* was spent or its sending failed.
CodesOK ==
    /\ \A f \in Phones : /\ latest[f] <= texts /\ text[f] \in {0, latest[f]} /\ sending[f] \cap arrived[f] = {}
                         /\ (text[f] # 0 => spent[latest[f]] = 0)
                         /\ (text[f] = 0 /\ latest[f] # 0 => \/ spent[latest[f]] # 0
                                                             \/ latest[f] \notin sending[f] \cup arrived[f])
    /\ \A f, g \in Phones : latest[f] = latest[g] /\ latest[f] # 0 => f = g
    /\ \A n \in 1..TextBound : spent[n] <= 1 /\ (n > texts => spent[n] = 0)

SignInv == SignTypeOK /\ OwnersOK /\ PhonesOK /\ CodesOK

\* Redis drops a code when its own lifetime ends, and none was used after that.
TimesOK ==
    /\ minute \in Nat /\ lapses \in [Phones -> Nat]
    /\ madeAt \in [1..TextBound -> Nat] /\ usedAt \in [1..TextBound -> Nat]
    /\ \A f \in Phones : text[f] # 0 => text[f] \in 1..texts /\ lapses[f] = madeAt[text[f]] + CodeTTL
    /\ \A n \in 1..TextBound : spent[n] # 0 => usedAt[n] < madeAt[n] + CodeTTL

LEMMA SignInitially == SignInInit => SignInv /\ TimesOK
<1> SUFFICES ASSUME SignInInit PROVE SignInv /\ TimesOK
 OBVIOUS
<1>1. SignTypeOK BY SignInAssumption DEF SignInInit, SignTypeOK, Visit, AtDoor
<1>2. OwnersOK
 <2>1. Owned = {} BY DEF SignInInit, Owned
 <2> QED BY <2>1, FS_EmptySet DEF SignInInit, OwnersOK, AtDoor
<1>3. PhonesOK /\ CodesOK BY DEF SignInInit, PhonesOK, CodesOK
<1>4. TimesOK BY DEF SignInInit, TimesOK
<1> QED BY <1>1, <1>2, <1>3, <1>4 DEF SignInv

\* There are no more customers than open ids, so each has a row for its phone.
LEMMA CustomersHaveRows == ASSUME SignInv PROVE Cardinality(OpenIds) \in Nat /\ 1..customers \subseteq CustomerIds
<1>1. IsFiniteSet(OpenIds) /\ Owned \subseteq OpenIds BY SignInAssumption DEF Owned
<1>2. Cardinality(Owned) <= Cardinality(OpenIds) /\ Cardinality(OpenIds) \in Nat
 BY <1>1, FS_Subset, FS_CardinalityType
<1> QED BY <1>2 DEF SignInv, OwnersOK, SignTypeOK, CustomerIds

LEMMA SignInvImplies == ASSUME SignInv, TimesOK PROVE SignInsMatch
<1>1. \A c \in 1..customers : Cardinality({o \in OpenIds : owner[o] = c}) = 1
 <2> SUFFICES ASSUME NEW c \in 1..customers PROVE Cardinality({o \in OpenIds : owner[o] = c}) = 1
  OBVIOUS
 <2>1. PICK o \in OpenIds : owner[o] = c BY DEF SignInv, OwnersOK
 <2>2. {x \in OpenIds : owner[x] = c} = {o} BY <2>1 DEF SignInv, OwnersOK, SignTypeOK
 <2> QED BY <2>2, FS_Singleton
<1>2. \A f \in Phones : Cardinality(WithPhone(f)) <= 1
 <2> SUFFICES ASSUME NEW f \in Phones PROVE Cardinality(WithPhone(f)) <= 1
  OBVIOUS
 <2>1. \A a, b \in WithPhone(f) : a = b
  BY CustomersHaveRows, SignInAssumption DEF WithPhone, SignInv, PhonesOK
 <2>2. CASE WithPhone(f) = {}
  BY <2>2, FS_EmptySet
 <2>3. CASE WithPhone(f) # {}
  <3>1. PICK a : WithPhone(f) = {a} BY <2>1, <2>3
  <3>2. Cardinality(WithPhone(f)) = 1 BY <3>1, FS_Singleton, Zenon
  <3> QED BY <3>2
 <2> QED BY <2>2, <2>3
<1>3. \A n \in 1..TextBound : spent[n] <= 1 /\ (spent[n] = 1 => usedAt[n] < madeAt[n] + CodeTTL)
 BY DEF SignInv, CodesOK, TimesOK
<1>4. ASSUME NEW f \in Phones, latest[f] \in arrived[f], spent[latest[f]] = 0, minute < madeAt[latest[f]] + CodeTTL
      PROVE  text[f] = latest[f] /\ minute < lapses[f]
 <2>1. text[f] = latest[f] /\ latest[f] # 0 BY <1>4 DEF SignInv, CodesOK, SignTypeOK
 <2> QED BY <1>4, <2>1 DEF TimesOK
<1> QED BY <1>1, <1>2, <1>3, <1>4 DEF SignInsMatch

\* A request that goes on: what it holds is of the kind its step says.
Fits(R) == /\ R \in Visit
           /\ (R.step = "making" => R.subject \in OpenIds)
           /\ (R.step = "binding" => R.subject \in Phones /\ R.customer \in 1..customers)

LEMMA AtDoorFits == AtDoor \in Visit /\ AtDoor.step = "idle" /\ Fits(AtDoor)
BY DEF AtDoor, Visit, Fits

LEMMA VisitMoves ==
    ASSUME SignInv, NEW d \in Devices, NEW R, Fits(R), visit' = [visit EXCEPT ![d] = R]
    PROVE  /\ visit' \in [Devices -> Visit]
           /\ \A e \in Devices : /\ (visit'[e].step = "making" => visit'[e].subject \in OpenIds)
                                 /\ (visit'[e].step = "binding" => visit'[e].subject \in Phones
                                                                   /\ visit'[e].customer \in 1..customers)
<1>1. /\ visit' \in [Devices -> Visit]
      /\ \A e \in Devices : visit'[e] = IF e = d THEN R ELSE visit[e]
 BY DEF SignInv, SignTypeOK, Fits
<1> QED BY <1>1 DEF SignInv, OwnersOK, Fits

LEMMA OnlyVisit ==
    ASSUME SignInv, NEW d \in Devices, NEW R, Fits(R), visit' = [visit EXCEPT ![d] = R],
           UNCHANGED <<owner, customers, phone, text, sending, arrived, latest, spent, texts>>
    PROVE  SignInv'
<1>1. SignTypeOK' BY VisitMoves DEF SignInv, SignTypeOK
<1>2. OwnersOK' BY VisitMoves DEF SignInv, OwnersOK, Owned
<1>3. PhonesOK' /\ CodesOK' BY DEF SignInv, PhonesOK, CodesOK
<1> QED BY <1>1, <1>2, <1>3 DEF SignInv

LEMMA WeChatLoginStep == ASSUME SignInv, NEW d \in Devices, NEW o \in OpenIds, WeChatLogin(d, o) PROVE SignInv'
<1>1. PICK R : R = IF owner[o] # 0 THEN AtDoor ELSE [AtDoor EXCEPT !.step = "making", !.subject = o] OBVIOUS
<1>2. Fits(R)
 <2>1. CASE owner[o] # 0
  BY <1>1, <2>1, AtDoorFits
 <2>2. CASE owner[o] = 0
  <3>1. R = [AtDoor EXCEPT !.step = "making", !.subject = o] BY <1>1, <2>2
  <3>2. R \in Visit /\ R.step = "making" /\ R.subject = o BY <3>1, AtDoorFits DEF Visit
  <3> QED BY <3>2 DEF Fits
 <2> QED BY <2>1, <2>2
<1>3. /\ visit' = [visit EXCEPT ![d] = R]
      /\ UNCHANGED <<owner, customers, phone, text, sending, arrived, latest, spent, texts>>
 BY <1>1 DEF WeChatLogin
<1> QED BY <1>2, <1>3, OnlyVisit

LEMMA BindCheckStep ==
    ASSUME SignInv, NEW d \in Devices, NEW f \in Phones, NEW c \in 1..customers, BindCheck(d, c, f)
    PROVE  SignInv'
<1>1. Fits([step |-> "binding", subject |-> f, customer |-> c]) BY DEF Fits, Visit, SignInv, SignTypeOK
<1> QED BY <1>1, OnlyVisit DEF BindCheck

LEMMA FindStep == ASSUME SignInv, NEW d \in Devices, FindCustomerForSMSLogin(d) PROVE SignInv'
BY AtDoorFits, OnlyVisit DEF FindCustomerForSMSLogin

LEMMA MakeCustomerStep == ASSUME SignInv, NEW d \in Devices, MakeCustomer(d) PROVE SignInv'
<1>1. PICK o \in OpenIds : o = visit[d].subject BY DEF MakeCustomer, SignInv, OwnersOK
<1>2. /\ visit' = [visit EXCEPT ![d] = AtDoor] /\ UNCHANGED <<phone, text, sending, arrived, latest, spent, texts>>
 BY DEF MakeCustomer
<1>3. CASE owner[o] # 0
 <2>1. UNCHANGED <<owner, customers>> BY <1>1, <1>3 DEF MakeCustomer, RolledBack
 <2> QED BY <1>2, <2>1, AtDoorFits, OnlyVisit
<1>4. CASE owner[o] = 0
 <2>1. customers' = customers + 1 /\ owner' = [owner EXCEPT ![o] = customers + 1] /\ customers \in Nat
  BY <1>1, <1>4 DEF MakeCustomer, SignInv, SignTypeOK
 <2>2. /\ owner' \in [OpenIds -> Nat]
       /\ \A x \in OpenIds : owner'[x] = IF x = o THEN customers + 1 ELSE owner[x]
  BY <2>1 DEF SignInv, SignTypeOK
 <2>3. Owned' = Owned \cup {o} /\ o \notin Owned /\ IsFiniteSet(Owned)
  <3>1. Owned \subseteq OpenIds /\ IsFiniteSet(OpenIds) BY SignInAssumption DEF Owned
  <3>2. IsFiniteSet(Owned) BY <3>1, FS_Subset
  <3> QED BY <1>4, <2>1, <2>2, <3>2 DEF Owned
 <2>4. customers' = Cardinality(Owned') BY <2>1, <2>3, FS_AddElement DEF SignInv, OwnersOK
 <2>5. SignTypeOK' BY <1>2, <2>1, <2>2, AtDoorFits, VisitMoves DEF SignInv, SignTypeOK
 <2>6. OwnersOK'
  <3>1. \A x \in OpenIds : owner'[x] <= customers' BY <2>1, <2>2 DEF SignInv, OwnersOK, SignTypeOK
  <3>2. \A c \in 1..customers' : \E x \in OpenIds : owner'[x] = c
   <4> SUFFICES ASSUME NEW c \in 1..customers' PROVE \E x \in OpenIds : owner'[x] = c
    OBVIOUS
   <4>1. CASE c = customers + 1
    BY <2>2, <4>1
   <4>2. CASE c # customers + 1
    <5>1. c \in 1..customers BY <2>1, <4>2
    <5>2. PICK x \in OpenIds : owner[x] = c BY <5>1 DEF SignInv, OwnersOK
    <5> QED BY <1>4, <2>1, <2>2, <5>1, <5>2
   <4> QED BY <4>1, <4>2
  <3>3. \A x, y \in OpenIds : owner'[x] = owner'[y] /\ owner'[x] # 0 => x = y
   BY <2>1, <2>2 DEF SignInv, OwnersOK, SignTypeOK
  <3>4. \A e \in Devices : /\ (visit'[e].step = "making" => visit'[e].subject \in OpenIds)
                           /\ (visit'[e].step = "binding" => visit'[e].subject \in Phones
                                                             /\ visit'[e].customer \in 1..customers')
   <4>1. \A e \in Devices : /\ (visit'[e].step = "making" => visit'[e].subject \in OpenIds)
                            /\ (visit'[e].step = "binding" => visit'[e].subject \in Phones
                                                              /\ visit'[e].customer \in 1..customers)
    BY <1>2, AtDoorFits, VisitMoves
   <4>2. 1..customers \subseteq 1..customers' BY <2>1
   <4> QED BY <4>1, <4>2
  <3> QED BY <2>4, <3>1, <3>2, <3>3, <3>4 DEF OwnersOK
 <2>7. PhonesOK' /\ CodesOK' BY <1>2, <2>1, CustomersHaveRows DEF SignInv, PhonesOK, CodesOK, CustomerIds
 <2> QED BY <2>5, <2>6, <2>7 DEF SignInv
<1> QED BY <1>3, <1>4 DEF SignInv, SignTypeOK

LEMMA BindWriteStep == ASSUME SignInv, NEW d \in Devices, BindWrite(d) PROVE SignInv'
<1>1. PICK c \in 1..customers, f \in Phones : c = visit[d].customer /\ f = visit[d].subject
 BY DEF BindWrite, SignInv, OwnersOK
<1>2. /\ visit' = [visit EXCEPT ![d] = AtDoor]
      /\ UNCHANGED <<owner, customers, text, sending, arrived, latest, spent, texts>>
      /\ phone' = IF PhoneFree(f, c) THEN [phone EXCEPT ![c] = f] ELSE phone
 BY <1>1 DEF BindWrite
<1>3. c \in CustomerIds /\ 1..customers \subseteq CustomerIds BY CustomersHaveRows
<1>4. CASE PhoneFree(f, c)
 <2>1. /\ phone' \in [CustomerIds -> Phones \cup {"none"}]
       /\ \A x \in CustomerIds : phone'[x] = IF x = c THEN f ELSE phone[x]
  BY <1>2, <1>3, <1>4 DEF SignInv, SignTypeOK
 <2>2. \A x \in CustomerIds : x # c => phone[x] # f
  <3> SUFFICES ASSUME NEW x \in CustomerIds, x # c, phone[x] = f PROVE FALSE
   OBVIOUS
  <3>1. x \in 1..customers BY SignInAssumption DEF SignInv, PhonesOK, CustomerIds, SignTypeOK
  <3> QED BY <1>4, <3>1 DEF PhoneFree, WithPhone
 <2>3. PhonesOK' BY <1>2, <1>3, <2>1, <2>2 DEF SignInv, PhonesOK, SignTypeOK
 <2>4. SignTypeOK' BY <1>2, <2>1, AtDoorFits, VisitMoves DEF SignInv, SignTypeOK
 <2>5. OwnersOK' BY <1>2, AtDoorFits, VisitMoves DEF SignInv, OwnersOK, Owned
 <2>6. CodesOK' BY <1>2 DEF SignInv, CodesOK
 <2> QED BY <2>3, <2>4, <2>5, <2>6 DEF SignInv
<1>5. CASE ~PhoneFree(f, c)
 BY <1>2, <1>5, AtDoorFits, OnlyVisit
<1> QED BY <1>4, <1>5

\* A new code is fresh: no phone has it, nobody has spent it.
LEMMA StoreCodeStep == ASSUME SignInv, NEW f \in Phones, StoreCode(f) PROVE SignInv'
<1>1. PICK n \in 1..TextBound : n = texts + 1 BY SignInAssumption DEF StoreCode, SignInv, SignTypeOK
<1>2. /\ texts' = n /\ text' = [text EXCEPT ![f] = n] /\ latest' = [latest EXCEPT ![f] = n]
      /\ sending' = [sending EXCEPT ![f] = @ \cup {n}]
      /\ UNCHANGED <<owner, customers, phone, visit, arrived, spent>>
 BY <1>1 DEF StoreCode
<1>3. \A g \in Phones : /\ text'[g] = IF g = f THEN n ELSE text[g]
                        /\ latest'[g] = IF g = f THEN n ELSE latest[g]
                        /\ sending'[g] = IF g = f THEN sending[g] \cup {n} ELSE sending[g]
 BY <1>2 DEF SignInv, SignTypeOK
<1>4. \A m : m \in 1..texts => m \in 1..n /\ m < n BY <1>1 DEF SignInv, SignTypeOK
<1>5. SignTypeOK'
 <2>1. text' \in [Phones -> Nat] /\ latest' \in [Phones -> Nat] /\ n \in 0..TextBound
  BY <1>1, <1>2 DEF SignInv, SignTypeOK
 <2>2. sending' \in [Phones -> SUBSET (1..n)] /\ arrived \in [Phones -> SUBSET (1..n)]
  BY <1>1, <1>2, <1>3, <1>4 DEF SignInv, SignTypeOK
 <2> QED BY <1>2, <2>1, <2>2 DEF SignInv, SignTypeOK
<1>6. OwnersOK' /\ PhonesOK' BY <1>2 DEF SignInv, OwnersOK, Owned, PhonesOK
<1>7. CodesOK'
 <2>1. \A g \in Phones : sending[g] \subseteq 1..texts /\ arrived[g] \subseteq 1..texts /\ n \notin arrived[g]
  BY <1>1, <1>4 DEF SignInv, SignTypeOK
 <2>2. spent[n] = 0 BY <1>1 DEF SignInv, SignTypeOK, CodesOK
 <2>3. \A g \in Phones : /\ latest'[g] <= texts' /\ text'[g] \in {0, latest'[g]}
                         /\ sending'[g] \cap arrived'[g] = {}
  BY <1>1, <1>2, <1>3, <2>1 DEF SignInv, SignTypeOK, CodesOK
 <2>4. \A g \in Phones : /\ (text'[g] # 0 => spent'[latest'[g]] = 0)
                         /\ (text'[g] = 0 /\ latest'[g] # 0 => \/ spent'[latest'[g]] # 0
                                                               \/ latest'[g] \notin sending'[g] \cup arrived'[g])
  BY <1>1, <1>2, <1>3, <2>2 DEF SignInv, SignTypeOK, CodesOK
 <2>5. \A g, h \in Phones : latest'[g] = latest'[h] /\ latest'[g] # 0 => g = h
  <3>1. \A g \in Phones : latest[g] # n BY <1>1 DEF SignInv, SignTypeOK, CodesOK
  <3>2. \A g, h \in Phones : latest[g] = latest[h] /\ latest[g] # 0 => g = h BY DEF SignInv, CodesOK
  <3>3. \A g \in Phones : latest'[g] = IF g = f THEN n ELSE latest[g] BY <1>3
  <3> QED BY <3>1, <3>2, <3>3
 <2>6. \A m \in 1..TextBound : spent'[m] <= 1 /\ (m > texts' => spent'[m] = 0)
  BY <1>1, <1>2 DEF SignInv, SignTypeOK, CodesOK
 <2> QED BY <2>3, <2>4, <2>5, <2>6 DEF CodesOK
<1> QED BY <1>5, <1>6, <1>7 DEF SignInv

\* The late failure of an earlier send leaves the later code alone.
LEMMA CodeSentStep ==
    ASSUME SignInv, NEW f \in Phones, NEW n \in 1..texts, NEW delivered \in BOOLEAN, CodeSent(f, n, delivered)
    PROVE  SignInv'
<1>1. /\ n \in sending[f] /\ sending' = [sending EXCEPT ![f] = @ \ {n}]
      /\ UNCHANGED <<owner, customers, phone, visit, latest, spent, texts>>
 BY DEF CodeSent
<1>2. /\ sending' \in [Phones -> SUBSET (1..texts)]
      /\ \A g \in Phones : sending'[g] = IF g = f THEN sending[g] \ {n} ELSE sending[g]
 BY <1>1 DEF SignInv, SignTypeOK
<1>3. OwnersOK' /\ PhonesOK' BY <1>1 DEF SignInv, OwnersOK, Owned, PhonesOK
<1>4. CASE delivered
 <2>1. arrived' = [arrived EXCEPT ![f] = @ \cup {n}] /\ text' = text BY <1>4 DEF CodeSent
 <2>2. /\ arrived' \in [Phones -> SUBSET (1..texts)]
       /\ \A g \in Phones : arrived'[g] = IF g = f THEN arrived[g] \cup {n} ELSE arrived[g]
  BY <2>1 DEF SignInv, SignTypeOK
 <2>3. SignTypeOK' BY <1>1, <1>2, <2>1, <2>2 DEF SignInv, SignTypeOK
 <2>4. \A g \in Phones : /\ sending'[g] \cup arrived'[g] = sending[g] \cup arrived[g]
                         /\ sending'[g] \cap arrived'[g] = {}
  BY <1>1, <1>2, <2>2 DEF SignInv, CodesOK
 <2>5. CodesOK' BY <1>1, <2>1, <2>4 DEF SignInv, CodesOK
 <2> QED BY <1>3, <2>3, <2>5 DEF SignInv
<1>5. CASE ~delivered
 <2>1. arrived' = arrived /\ text' = [text EXCEPT ![f] = IF text[f] = n THEN 0 ELSE text[f]]
  BY <1>5 DEF CodeSent, Deleted
 <2>2. /\ text' \in [Phones -> Nat]
       /\ \A g \in Phones : text'[g] = IF g = f /\ text[f] = n THEN 0 ELSE text[g]
  BY <2>1 DEF SignInv, SignTypeOK
 <2>3. SignTypeOK' BY <1>1, <1>2, <2>1, <2>2 DEF SignInv, SignTypeOK
 <2>4. \A g \in Phones : /\ sending'[g] \cap arrived'[g] = {} /\ text'[g] \in {0, text[g]}
                         /\ sending'[g] \cup arrived'[g] \subseteq sending[g] \cup arrived[g]
  BY <1>1, <1>2, <2>1, <2>2 DEF SignInv, CodesOK
 <2>5. ASSUME NEW g \in Phones, text'[g] = 0, latest'[g] # 0
       PROVE  spent'[latest'[g]] # 0 \/ latest'[g] \notin sending'[g] \cup arrived'[g]
  <3>1. CASE text[g] = 0
   BY <1>1, <2>4, <2>5, <3>1 DEF SignInv, CodesOK
  <3>2. CASE text[g] # 0
   <4>1. g = f /\ latest[f] = n BY <2>2, <2>5, <3>2 DEF SignInv, CodesOK
   <4>2. n \notin sending'[f] /\ n \notin arrived'[f] BY <1>1, <1>2, <2>1 DEF SignInv, CodesOK
   <4> QED BY <1>1, <4>1, <4>2
  <3> QED BY <3>1, <3>2
 <2>6. CodesOK' BY <1>1, <2>4, <2>5 DEF SignInv, CodesOK
 <2> QED BY <1>3, <2>3, <2>6 DEF SignInv
<1> QED BY <1>4, <1>5

LEMMA UseCodeStep ==
    ASSUME SignInv, NEW d \in Devices, NEW f \in Phones, NEW n \in 1..texts, UseCode(d, f, n)
    PROVE  SignInv'
<1>1. PICK R : R = [AtDoor EXCEPT !.step = "proved", !.subject = f] OBVIOUS
<1>2. Fits(R)
 <2>1. R \in Visit /\ R.step = "proved" BY <1>1, AtDoorFits DEF Visit
 <2> QED BY <2>1 DEF Fits
<1>3. /\ visit' = [visit EXCEPT ![d] = R] /\ text[f] = n /\ n # 0
      /\ text' = [text EXCEPT ![f] = 0] /\ n \in 1..TextBound
      /\ UNCHANGED <<owner, customers, phone, sending, arrived, latest, texts>>
 <2>1. n # 0 /\ n \in 1..TextBound BY SignInAssumption DEF SignInv, SignTypeOK
 <2> QED BY <1>1, <2>1 DEF UseCode
<1>4. spent[n] = 0 /\ latest[f] = n BY <1>3 DEF SignInv, CodesOK
<1>5. spent' = [spent EXCEPT ![n] = 1] BY <1>3, <1>4 DEF UseCode, SignInv, SignTypeOK
<1>6. /\ text' \in [Phones -> Nat] /\ spent' \in [1..TextBound -> Nat]
      /\ \A g \in Phones : text'[g] = IF g = f THEN 0 ELSE text[g]
      /\ \A m \in 1..TextBound : spent'[m] = IF m = n THEN 1 ELSE spent[m]
 BY <1>3, <1>5 DEF SignInv, SignTypeOK
<1>7. SignTypeOK' BY <1>2, <1>3, <1>6, VisitMoves DEF SignInv, SignTypeOK
<1>8. OwnersOK' /\ PhonesOK'
 <2>1. OwnersOK' BY <1>2, <1>3, VisitMoves DEF SignInv, OwnersOK, Owned
 <2>2. PhonesOK' BY <1>3 DEF SignInv, PhonesOK
 <2> QED BY <2>1, <2>2
<1>9. CodesOK'
 <2>1. \A g \in Phones : g # f => latest[g] # n BY <1>3, <1>4 DEF SignInv, CodesOK
 <2>2. \A g \in Phones : latest[g] # 0 => latest[g] \in 1..TextBound
  BY SignInAssumption DEF SignInv, CodesOK, SignTypeOK
 <2>3. \A g \in Phones : /\ (text'[g] # 0 => spent'[latest'[g]] = 0)
                         /\ (text'[g] = 0 /\ latest'[g] # 0 => \/ spent'[latest'[g]] # 0
                                                               \/ latest'[g] \notin sending'[g] \cup arrived'[g])
  <3> SUFFICES ASSUME NEW g \in Phones
               PROVE  /\ (text'[g] # 0 => spent'[latest'[g]] = 0)
                      /\ (text'[g] = 0 /\ latest'[g] # 0 => \/ spent'[latest'[g]] # 0
                                                            \/ latest'[g] \notin sending'[g] \cup arrived'[g])
   OBVIOUS
  <3>1. CASE g = f
   BY <1>3, <1>4, <1>6, <3>1
  <3>2. CASE g # f
   <4>1. text'[g] = text[g] /\ latest'[g] = latest[g] /\ latest[g] # n BY <1>3, <1>6, <2>1, <3>2
   <4>2. latest[g] # 0 => spent'[latest[g]] = spent[latest[g]] BY <1>6, <2>2, <4>1
   <4>3. text[g] # 0 => latest[g] # 0 BY DEF SignInv, CodesOK
   <4> QED BY <1>3, <4>1, <4>2, <4>3 DEF SignInv, CodesOK
  <3> QED BY <3>1, <3>2
 <2>4. \A m \in 1..TextBound : spent'[m] <= 1 /\ (m > texts' => spent'[m] = 0)
  BY <1>3, <1>6 DEF SignInv, SignTypeOK, CodesOK
 <2>5. \A g \in Phones : /\ latest'[g] <= texts' /\ text'[g] \in {0, latest'[g]}
                         /\ sending'[g] \cap arrived'[g] = {}
  BY <1>3, <1>6 DEF SignInv, CodesOK
 <2>6. \A g, h \in Phones : latest'[g] = latest'[h] /\ latest'[g] # 0 => g = h BY <1>3 DEF SignInv, CodesOK
 <2> QED BY <2>3, <2>4, <2>5, <2>6 DEF CodesOK
<1> QED BY <1>7, <1>8, <1>9 DEF SignInv

LEMMA MinuteStep == ASSUME SignInv, MinutePasses PROVE SignInv'
<1>1. SignTypeOK' /\ PhonesOK' BY DEF SignInv, SignTypeOK, PhonesOK, MinutePasses
<1>2. OwnersOK' /\ CodesOK' BY DEF SignInv, OwnersOK, Owned, CodesOK, MinutePasses
<1> QED BY <1>1, <1>2 DEF SignInv

\* The times of the codes: a code is made with its lifetime, used within it or not at all.
LEMMA StoredInTime == ASSUME SignInv, TimesOK, NEW f \in Phones, StoreCode(f) PROVE TimesOK'
<1>1. PICK n \in 1..TextBound : n = texts + 1 /\ n \notin 1..texts
 BY SignInAssumption DEF StoreCode, SignInv, SignTypeOK
<1>2. /\ texts' = n /\ text' = [text EXCEPT ![f] = n] /\ UNCHANGED <<spent, minute, usedAt>>
      /\ madeAt' = [madeAt EXCEPT ![n] = minute] /\ lapses' = [lapses EXCEPT ![f] = minute + CodeTTL]
 BY <1>1 DEF StoreCode
<1>3. madeAt' \in [1..TextBound -> Nat] /\ lapses' \in [Phones -> Nat] BY <1>2, SignInAssumption DEF TimesOK
<1>4. /\ \A g \in Phones : /\ text'[g] = IF g = f THEN n ELSE text[g]
                           /\ lapses'[g] = IF g = f THEN minute + CodeTTL ELSE lapses[g]
      /\ \A m \in 1..TextBound : madeAt'[m] = IF m = n THEN minute ELSE madeAt[m]
 BY <1>2 DEF TimesOK, SignInv, SignTypeOK
<1>5. spent[n] = 0 /\ texts \in 0..TextBound /\ TextBound \in Nat /\ CodeTTL \in Nat
 BY <1>1, SignInAssumption DEF SignInv, SignTypeOK, CodesOK
<1>6. \A g \in Phones : text'[g] # 0 => text'[g] \in 1..texts' /\ lapses'[g] = madeAt'[text'[g]] + CodeTTL
 <2> SUFFICES ASSUME NEW g \in Phones, text'[g] # 0
              PROVE  text'[g] \in 1..texts' /\ lapses'[g] = madeAt'[text'[g]] + CodeTTL
  OBVIOUS
 <2>1. CASE g = f
  BY <1>1, <1>2, <1>4, <1>5, <2>1
 <2>2. CASE g # f
  <3>1. text'[g] = text[g] /\ text[g] \in 1..texts /\ lapses[g] = madeAt[text[g]] + CodeTTL /\ lapses'[g] = lapses[g]
   BY <1>4, <2>2 DEF TimesOK
  <3>2. text[g] # n /\ text[g] \in 1..TextBound /\ text[g] \in 1..n BY <1>1, <1>5, <3>1
  <3> QED BY <1>2, <1>4, <3>1, <3>2
 <2> QED BY <2>1, <2>2
<1>7. \A m \in 1..TextBound : spent'[m] # 0 => usedAt'[m] < madeAt'[m] + CodeTTL
 BY <1>2, <1>4, <1>5 DEF TimesOK
<1> QED BY <1>2, <1>3, <1>6, <1>7 DEF TimesOK

LEMMA UsedInTime ==
    ASSUME SignInv, TimesOK, NEW d \in Devices, NEW f \in Phones, NEW n \in 1..texts, UseCode(d, f, n) PROVE TimesOK'
<1>1. /\ text[f] = n /\ n # 0 /\ minute < lapses[f] /\ text' = [text EXCEPT ![f] = 0]
      /\ usedAt' = [usedAt EXCEPT ![n] = minute] /\ UNCHANGED <<texts, minute, madeAt, lapses>>
      /\ \A m \in 1..TextBound : m # n => spent'[m] = spent[m]
 BY DEF UseCode, SignInv, SignTypeOK
<1>2. minute < madeAt[n] + CodeTTL BY <1>1 DEF TimesOK
<1>3. /\ usedAt' \in [1..TextBound -> Nat] /\ \A g \in Phones : text'[g] = IF g = f THEN 0 ELSE text[g]
      /\ \A m \in 1..TextBound : usedAt'[m] = IF m = n THEN minute ELSE usedAt[m]
 BY <1>1 DEF TimesOK, SignInv, SignTypeOK
<1>4. \A g \in Phones : text'[g] # 0 => text'[g] \in 1..texts' /\ lapses'[g] = madeAt'[text'[g]] + CodeTTL
 BY <1>1, <1>3 DEF TimesOK
<1>5. \A m \in 1..TextBound : spent'[m] # 0 => usedAt'[m] < madeAt'[m] + CodeTTL
 BY <1>1, <1>2, <1>3 DEF TimesOK
<1> QED BY <1>1, <1>3, <1>4, <1>5 DEF TimesOK

LEMMA TimesKept == ASSUME SignInv, TimesOK, SignInNext PROVE TimesOK'
<1>1. ASSUME UNCHANGED <<spent, texts, madeAt, usedAt, lapses>>, minute' \in Nat,
             \A f \in Phones : text'[f] \in {0, text[f]}
      PROVE  TimesOK'
 <2>1. ASSUME NEW f \in Phones, text'[f] # 0 PROVE text'[f] \in 1..texts' /\ lapses'[f] = madeAt'[text'[f]] + CodeTTL
  <3>1. text'[f] = text[f] BY <1>1, <2>1
  <3> QED BY <1>1, <2>1, <3>1 DEF TimesOK
 <2> QED BY <1>1, <2>1 DEF TimesOK
<1>2. ASSUME NEW d \in Devices, \/ \E o \in OpenIds : WeChatLogin(d, o)
                               \/ MakeCustomer(d) \/ BindWrite(d) \/ FindCustomerForSMSLogin(d)
                               \/ \E f \in Phones : \E c \in 1..customers : BindCheck(d, c, f)
      PROVE  TimesOK'
 BY <1>1, <1>2 DEF WeChatLogin, MakeCustomer, BindWrite, FindCustomerForSMSLogin, BindCheck, codeTimes, TimesOK
<1>3. ASSUME MinutePasses PROVE TimesOK' BY <1>1, <1>3 DEF MinutePasses, TimesOK
<1>4. ASSUME NEW f \in Phones, NEW n \in 1..texts, NEW b \in BOOLEAN, CodeSent(f, n, b) PROVE TimesOK'
 <2>1. \A g \in Phones : text'[g] \in {0, text[g]} BY <1>4 DEF CodeSent, Deleted, SignInv, SignTypeOK
 <2> QED BY <1>1, <1>4, <2>1 DEF CodeSent, codeTimes, TimesOK
<1> QED BY <1>2, <1>3, <1>4, StoredInTime, UsedInTime DEF SignInNext

LEMMA SignInKeeps == SignInv /\ TimesOK /\ SignInNext => SignInv' /\ TimesOK'
BY WeChatLoginStep, MakeCustomerStep, BindWriteStep, FindStep, BindCheckStep, UseCodeStep, StoreCodeStep, CodeSentStep,
   MinuteStep, TimesKept DEF SignInNext

----------------------------------------
(* Real-name verification. *)

Opinion == [status : {"pending", "verified", "rejected", "revoked"}, adult : {"unknown", "adult", "minor"},
            until : Nat]

\* A session's row and the provider's opinion of it: the provider's finding on the age never
\* changes once made, and the row repeats it; a refused or revoked session stays so in its row.
SessionsOK ==
    /\ sessions \in Seq(Opinion) /\ opinions \in Seq(Opinion) /\ Len(sessions) = Len(opinions)
    /\ reports \in Seq(Nat) /\ date \in Nat /\ barred \subseteq 1..Len(sessions)
    /\ \A s \in 1..Len(sessions) :
          /\ (opinions[s].status = "pending" => opinions[s].adult = "unknown")
          /\ (sessions[s].adult = "adult" => opinions[s].adult = "adult")
          /\ (s \in barred => sessions[s].status \in {"rejected", "revoked"})
    /\ \A e \in 1..Len(reports) : reports[e] \in 1..Len(sessions) /\ opinions[reports[e]].status # "pending"

\* A result waiting to be written is an opinion the provider had of that session after it
\* had decided.
CallsOK ==
    /\ calls \in [Callers -> [event : Nat, result : Opinion]]
    /\ \A c \in Callers : calls[c] # NoQuery =>
          /\ calls[c].event \in 1..Len(reports) /\ calls[c].result.status # "pending"
          /\ (calls[c].result.adult = "adult" => opinions[reports[calls[c].event]].adult = "adult")

RealnameOK ==
    \/ realname = NoRealname
    \/ /\ realname.session \in 1..Len(sessions)
       /\ realname = upsertCurrent(realname.session, sessions[realname.session])

IdentityInv == SessionsOK /\ CallsOK /\ RealnameOK

LEMMA NoEndNat == NoEnd \in Nat /\ Unknown \in Opinion /\ Unknown.status = "pending" /\ Unknown.adult = "unknown"
BY IdentityAssumption DEF NoEnd, Unknown, Opinion

LEMMA IdentityInitially == IdentityInit => IdentityInv
<1> SUFFICES ASSUME IdentityInit PROVE IdentityInv
 OBVIOUS
<1>1. SessionsOK BY DEF IdentityInit, SessionsOK
<1>2. CallsOK
 <2>1. NoQuery \in [event : Nat, result : Opinion] BY NoEndNat DEF NoQuery
 <2> QED BY <2>1 DEF IdentityInit, CallsOK
<1>3. RealnameOK BY DEF IdentityInit, RealnameOK
<1> QED BY <1>1, <1>2, <1>3 DEF IdentityInv

LEMMA IdentityInvImplies == IdentityInv => BuyersAreAdults
<1> SUFFICES ASSUME IdentityInv PROVE BuyersAreAdults
 OBVIOUS
<1>1. CASE realname = NoRealname
 <2>1. realname.session = 0 /\ realname.status = "unverified" /\ realname.adult = "unknown"
  BY <1>1 DEF NoRealname
 <2> QED BY <2>1 DEF BuyersAreAdults, CheckOrder
<1>2. CASE realname # NoRealname
 <2>1. PICK s \in 1..Len(sessions) : s = realname.session /\ realname = upsertCurrent(s, sessions[s])
  BY <1>2 DEF IdentityInv, RealnameOK
 <2>2. sessions[s] \in Opinion BY DEF IdentityInv, SessionsOK
 <2>3. /\ realname.session = s /\ realname.status = sessions[s].status
       /\ realname.adult = sessions[s].adult /\ realname.until = sessions[s].until
  BY <2>1 DEF upsertCurrent
 <2>4. s # 0 /\ realname.until \in Nat /\ date \in Nat BY <2>2, <2>3 DEF Opinion, IdentityInv, SessionsOK
 <2>5. CheckOrder => s \notin barred /\ opinions[s].adult = "adult"
  BY <2>3 DEF CheckOrder, IdentityInv, SessionsOK
 <2>6. (GetMe = "verified" /\ realname.adult = "adult") <=> CheckOrder BY <2>3, <2>4 DEF GetMe, CheckOrder
 <2> QED BY <2>1, <2>3, <2>5, <2>6 DEF BuyersAreAdults
<1> QED BY <1>1, <1>2

LEMMA CreateSessionStep == ASSUME IdentityInv, CreateSession PROVE IdentityInv'
<1>1. /\ sessions' = Append(sessions, Unknown) /\ opinions' = Append(opinions, Unknown)
      /\ UNCHANGED <<realname, reports, calls, date, barred>>
 BY DEF CreateSession
<1>2. sessions \in Seq(Opinion) /\ opinions \in Seq(Opinion) /\ Len(sessions) = Len(opinions) /\ Len(sessions) \in Nat
 BY DEF IdentityInv, SessionsOK
<1>3. PICK n \in Nat : n = Len(sessions) + 1 BY <1>2
<1>4. /\ sessions' \in Seq(Opinion) /\ opinions' \in Seq(Opinion) /\ Len(sessions') = n /\ Len(opinions') = n
      /\ \A s \in 1..Len(sessions) : sessions'[s] = sessions[s] /\ opinions'[s] = opinions[s]
      /\ sessions'[n] = Unknown /\ opinions'[n] = Unknown
 BY <1>1, <1>2, <1>3, NoEndNat
<1>5. \A s \in 1..n : s \in 1..Len(sessions) \/ s = n BY <1>2, <1>3
<1>6. 1..Len(sessions) \subseteq 1..n /\ n \notin 1..Len(sessions) BY <1>2, <1>3
<1>7. SessionsOK'
 <2>1. \A e \in 1..Len(reports) : reports[e] \in 1..Len(sessions) BY <1>6 DEF IdentityInv, SessionsOK
 <2>2. \A s \in 1..n :
         /\ (opinions'[s].status = "pending" => opinions'[s].adult = "unknown")
         /\ (sessions'[s].adult = "adult" => opinions'[s].adult = "adult")
         /\ (s \in barred => sessions'[s].status \in {"rejected", "revoked"})
  BY <1>4, <1>5, <1>6, NoEndNat DEF IdentityInv, SessionsOK
 <2>3. \A e \in 1..Len(reports) : opinions'[reports[e]].status # "pending"
  BY <1>4, <2>1 DEF IdentityInv, SessionsOK
 <2>4. barred \subseteq 1..n /\ date \in Nat /\ reports \in Seq(Nat) BY <1>6 DEF IdentityInv, SessionsOK
 <2> QED BY <1>1, <1>4, <1>6, <2>1, <2>2, <2>3, <2>4 DEF SessionsOK
<1>8. CallsOK'
 <2>1. \A e \in 1..Len(reports) : opinions'[reports[e]] = opinions[reports[e]]
  BY <1>4 DEF IdentityInv, SessionsOK
 <2> QED BY <1>1, <2>1 DEF IdentityInv, CallsOK
<1>9. RealnameOK' BY <1>1, <1>4, <1>6 DEF IdentityInv, RealnameOK, upsertCurrent
<1> QED BY <1>7, <1>8, <1>9 DEF IdentityInv

\* The provider changes its opinion of one session: its finding on the age stays, if it had one.
LEMMA ProviderDecidesStep == ASSUME IdentityInv, ProviderDecides PROVE IdentityInv'
<1>0. opinions \in Seq(Opinion) /\ Len(opinions) = Len(sessions) /\ DOMAIN opinions = 1..Len(sessions)
 BY DEF IdentityInv, SessionsOK
<1>1. PICK s \in 1..Len(sessions), R \in Opinion :
        /\ opinions' = [opinions EXCEPT ![s] = R] /\ reports' = Append(reports, s)
        /\ R.status # "pending" /\ (opinions[s].adult = "adult" => R.adult = "adult")
 <2>1. PICK s \in DOMAIN opinions :
         /\ \/ /\ opinions[s].status = "pending"
               /\ \E adult \in {"adult", "minor"}, until \in {1, NoEnd} :
                     opinions' = [opinions EXCEPT ![s] = [status |-> "verified", adult |-> adult, until |-> until]]
            \/ /\ opinions[s].status = "pending" /\ opinions' = [opinions EXCEPT ![s].status = "rejected"]
            \/ /\ opinions[s].status = "verified" /\ opinions' = [opinions EXCEPT ![s].status = "revoked"]
         /\ reports' = Append(reports, s)
  BY DEF ProviderDecides
 <2>2. s \in 1..Len(sessions) /\ opinions[s] \in Opinion BY <1>0, <2>1
 <2>3. ASSUME opinions[s].status = "pending", NEW adult \in {"adult", "minor"}, NEW until \in {1, NoEnd},
              opinions' = [opinions EXCEPT ![s] = [status |-> "verified", adult |-> adult, until |-> until]]
       PROVE  \E R \in Opinion : /\ opinions' = [opinions EXCEPT ![s] = R] /\ R.status # "pending"
                                 /\ (opinions[s].adult = "adult" => R.adult = "adult")
  <3>1. [status |-> "verified", adult |-> adult, until |-> until] \in Opinion BY NoEndNat DEF Opinion
  <3>2. opinions[s].adult = "unknown" BY <2>2, <2>3 DEF IdentityInv, SessionsOK
  <3> QED BY <2>3, <3>1, <3>2
 <2>4. ASSUME NEW x \in {"rejected", "revoked"}, opinions' = [opinions EXCEPT ![s].status = x]
       PROVE  \E R \in Opinion : /\ opinions' = [opinions EXCEPT ![s] = R] /\ R.status # "pending"
                                 /\ (opinions[s].adult = "adult" => R.adult = "adult")
  <3>1. PICK R : R = [opinions[s] EXCEPT !.status = x] OBVIOUS
  <3>2. R \in Opinion /\ R.status = x /\ R.adult = opinions[s].adult BY <2>2, <3>1 DEF Opinion
  <3> QED BY <2>4, <3>1, <3>2
 <2> QED BY <2>1, <2>2, <2>3, <2>4
<1>2. UNCHANGED <<sessions, realname, calls, date, barred>> BY DEF ProviderDecides
<1>3. /\ opinions' \in Seq(Opinion) /\ Len(opinions') = Len(sessions)
      /\ \A t \in 1..Len(sessions) : opinions'[t] = IF t = s THEN R ELSE opinions[t]
 BY <1>0, <1>1
<1>4. reports \in Seq(Nat) /\ s \in Nat BY <1>1 DEF IdentityInv, SessionsOK
<1>5. /\ reports' \in Seq(Nat) /\ 1..Len(reports) \subseteq 1..Len(reports')
      /\ \A e \in 1..Len(reports') : reports'[e] = IF e \in 1..Len(reports) THEN reports[e] ELSE s
      /\ \A e \in 1..Len(reports) : reports'[e] = reports[e]
 BY <1>1, <1>4
<1>6. SessionsOK'
 <2>1. \A e \in 1..Len(reports') : reports'[e] \in 1..Len(sessions) /\ opinions'[reports'[e]].status # "pending"
  BY <1>1, <1>3, <1>5 DEF IdentityInv, SessionsOK
 <2>2. \A t \in 1..Len(sessions) :
         /\ (opinions'[t].status = "pending" => opinions'[t].adult = "unknown")
         /\ (sessions[t].adult = "adult" => opinions'[t].adult = "adult")
  BY <1>1, <1>3 DEF IdentityInv, SessionsOK
 <2> QED BY <1>2, <1>3, <1>5, <2>1, <2>2 DEF IdentityInv, SessionsOK
<1>7. CallsOK'
 <2>1. \A e \in 1..Len(reports) : reports[e] \in 1..Len(sessions) BY DEF IdentityInv, SessionsOK
 <2>2. \A e \in 1..Len(reports) : opinions[reports[e]].adult = "adult" => opinions'[reports'[e]].adult = "adult"
  BY <1>1, <1>3, <1>5, <2>1
 <2> QED BY <1>2, <1>5, <2>2 DEF IdentityInv, CallsOK
<1>8. RealnameOK' BY <1>2 DEF IdentityInv, RealnameOK, upsertCurrent
<1> QED BY <1>6, <1>7, <1>8 DEF IdentityInv

LEMMA NoQueryTyped == NoQuery \in [event : Nat, result : Opinion]
BY NoEndNat DEF NoQuery

LEMMA QueryStep == ASSUME IdentityInv, NEW c \in Callers, Query(c) PROVE IdentityInv'
<1>1. PICK e \in DOMAIN reports : calls' = [calls EXCEPT ![c] = [event |-> e, result |-> opinions[reports[e]]]]
 BY DEF Query
<1>2. UNCHANGED <<sessions, realname, opinions, reports, date, barred>> BY DEF Query
<1>3. e \in 1..Len(reports) /\ e \in Nat /\ reports[e] \in 1..Len(sessions) BY DEF IdentityInv, SessionsOK
<1>4. opinions[reports[e]] \in Opinion /\ opinions[reports[e]].status # "pending"
 BY <1>3 DEF IdentityInv, SessionsOK
<1>5. PICK Q : Q = [event |-> e, result |-> opinions[reports[e]]] OBVIOUS
<1>6. Q \in [event : Nat, result : Opinion] /\ Q.event = e /\ Q.result = opinions[reports[e]]
 BY <1>3, <1>4, <1>5
<1>7. /\ calls' \in [Callers -> [event : Nat, result : Opinion]]
      /\ \A d \in Callers : calls'[d] = IF d = c THEN Q ELSE calls[d]
 BY <1>1, <1>5, <1>6 DEF IdentityInv, CallsOK
<1>8. CallsOK' BY <1>2, <1>3, <1>4, <1>6, <1>7 DEF IdentityInv, CallsOK, NoQuery, Unknown, NoEnd
<1>9. SessionsOK' /\ RealnameOK' BY <1>2 DEF IdentityInv, SessionsOK, RealnameOK, upsertCurrent
<1> QED BY <1>8, <1>9 DEF IdentityInv

LEMMA CallLostStep == ASSUME IdentityInv, NEW c \in Callers, CallLost(c) PROVE IdentityInv'
<1>1. /\ calls' = [calls EXCEPT ![c] = NoQuery] /\ UNCHANGED <<sessions, realname, opinions, reports, date, barred>>
 BY DEF CallLost
<1>2. /\ calls' \in [Callers -> [event : Nat, result : Opinion]]
      /\ \A d \in Callers : calls'[d] = IF d = c THEN NoQuery ELSE calls[d]
 BY <1>1, NoQueryTyped DEF IdentityInv, CallsOK
<1>3. NoQuery' = NoQuery BY DEF NoQuery, Unknown, NoEnd
<1>4. CallsOK' BY <1>1, <1>2, <1>3 DEF IdentityInv, CallsOK
<1>5. SessionsOK' /\ RealnameOK' BY <1>1 DEF IdentityInv, SessionsOK, RealnameOK, upsertCurrent
<1> QED BY <1>4, <1>5 DEF IdentityInv

\* One session's row and the current row are written together.
LEMMA RowWritten ==
    ASSUME IdentityInv, NEW s \in 1..Len(sessions), NEW R \in Opinion,
           sessions' = [sessions EXCEPT ![s] = R], realname' = upsertCurrent(s, R),
           R.adult = "adult" => opinions[s].adult = "adult",
           barred' \subseteq barred \cup {s}, s \in barred' => R.status \in {"rejected", "revoked"},
           UNCHANGED <<opinions, reports, date>>
    PROVE  SessionsOK' /\ RealnameOK'
<1>1. /\ sessions' \in Seq(Opinion) /\ Len(sessions') = Len(sessions)
      /\ \A t \in 1..Len(sessions) : sessions'[t] = IF t = s THEN R ELSE sessions[t]
 BY DEF IdentityInv, SessionsOK
<1>2. SessionsOK' BY <1>1 DEF IdentityInv, SessionsOK
<1>3. RealnameOK'
 <2>1. realname'.session = s BY DEF upsertCurrent
 <2> QED BY <1>1, <2>1 DEF RealnameOK, upsertCurrent
<1> QED BY <1>2, <1>3

LEMMA CallbackStep == ASSUME IdentityInv, NEW c \in Callers, Callback(c) PROVE IdentityInv'
<1>1. PICK e \in 1..Len(reports), R \in Opinion :
         /\ e = calls[c].event /\ R = calls[c].result /\ R.status # "pending"
         /\ R.adult = "adult" => opinions[reports[e]].adult = "adult"
 BY DEF Callback, IdentityInv, CallsOK
<1>2. PICK s \in 1..Len(sessions) : s = reports[e] BY DEF IdentityInv, SessionsOK
<1>3. /\ calls' = [calls EXCEPT ![c] = NoQuery] /\ UNCHANGED <<opinions, reports, date>>
      /\ IF e \in callbacks \/ Regresses(sessions[s], R)
          THEN UNCHANGED <<sessions, realname, barred>>
          ELSE /\ sessions' = [sessions EXCEPT ![s] = R] /\ realname' = upsertCurrent(s, R)
               /\ barred' = IF R.status = "verified" THEN barred ELSE barred \cup {s}
 BY <1>1, <1>2 DEF Callback
<1>4. CallsOK'
 <2>1. /\ calls' \in [Callers -> [event : Nat, result : Opinion]]
       /\ \A d \in Callers : calls'[d] = IF d = c THEN NoQuery ELSE calls[d]
  BY <1>3, NoQueryTyped DEF IdentityInv, CallsOK
 <2>2. NoQuery' = NoQuery BY DEF NoQuery, Unknown, NoEnd
 <2> QED BY <1>3, <2>1, <2>2 DEF IdentityInv, CallsOK
<1>5. SessionsOK' /\ RealnameOK'
 <2>1. CASE e \in callbacks \/ Regresses(sessions[s], R)
  BY <1>3, <2>1 DEF IdentityInv, SessionsOK, RealnameOK, upsertCurrent
 <2>2. CASE ~(e \in callbacks \/ Regresses(sessions[s], R))
  <3>1. s \in barred => R.status \in {"rejected", "revoked"}
   BY <2>2 DEF Regresses, terminal, IdentityInv, SessionsOK
  <3>2. R.status \in {"verified", "rejected", "revoked"} BY <1>1 DEF Opinion
  <3>3. barred' \subseteq barred \cup {s} /\ (s \in barred' => R.status \in {"rejected", "revoked"})
   BY <1>3, <2>2, <3>1, <3>2
  <3> QED BY <1>1, <1>2, <1>3, <2>2, <3>3, RowWritten
 <2> QED BY <2>1, <2>2
<1> QED BY <1>4, <1>5 DEF IdentityInv

LEMMA ReviewIdentityStep == ASSUME IdentityInv, NEW s \in DOMAIN sessions, ReviewIdentity(s) PROVE IdentityInv'
<1>1. s \in 1..Len(sessions) /\ sessions[s] \in Opinion BY DEF IdentityInv, SessionsOK
<1>0. PICK approved \in BOOLEAN, until \in {1, NoEnd} : \E R :
        /\ R = [sessions[s] EXCEPT !.status = IF approved THEN "verified" ELSE "rejected", !.until = until]
        /\ sessions' = [sessions EXCEPT ![s] = R] /\ realname' = upsertCurrent(s, R)
        /\ barred' = IF approved THEN barred \ {s} ELSE barred \cup {s}
 BY DEF ReviewIdentity
<1>2. PICK R :
        /\ R = [sessions[s] EXCEPT !.status = IF approved THEN "verified" ELSE "rejected", !.until = until]
        /\ sessions' = [sessions EXCEPT ![s] = R] /\ realname' = upsertCurrent(s, R)
        /\ barred' = IF approved THEN barred \ {s} ELSE barred \cup {s}
 BY <1>0
<1>3. R \in Opinion /\ R.adult = sessions[s].adult /\ R.status = IF approved THEN "verified" ELSE "rejected"
 <2>1. PICK x \in {"verified", "rejected"} : x = IF approved THEN "verified" ELSE "rejected" OBVIOUS
 <2>2. R = [sessions[s] EXCEPT !.status = x, !.until = until] /\ until \in Nat BY <1>2, <2>1, NoEndNat
 <2> QED BY <1>1, <2>1, <2>2 DEF Opinion
<1>4. barred' \subseteq barred \cup {s} /\ (s \in barred' => R.status \in {"rejected", "revoked"})
 BY <1>2, <1>3
<1>5. R.adult = "adult" => opinions[s].adult = "adult" BY <1>1, <1>3 DEF IdentityInv, SessionsOK
<1>6. UNCHANGED <<opinions, reports, date, calls>> BY DEF ReviewIdentity
<1>7. SessionsOK' /\ RealnameOK' BY <1>1, <1>2, <1>3, <1>4, <1>5, <1>6, RowWritten
<1>8. CallsOK' BY <1>6 DEF IdentityInv, CallsOK, NoQuery, Unknown, NoEnd
<1> QED BY <1>7, <1>8 DEF IdentityInv

LEMMA DayPassesStep == ASSUME IdentityInv, DayPasses PROVE IdentityInv'
<1>1. SessionsOK' /\ RealnameOK' BY DEF DayPasses, IdentityInv, SessionsOK, RealnameOK, upsertCurrent
<1>2. CallsOK' BY DEF DayPasses, IdentityInv, CallsOK, NoQuery, Unknown, NoEnd
<1> QED BY <1>1, <1>2 DEF IdentityInv

LEMMA IdentityKeeps == IdentityInv /\ IdentityNext => IdentityInv'
BY CreateSessionStep, ProviderDecidesStep, DayPassesStep, QueryStep, CallLostStep, CallbackStep, ReviewIdentityStep
   DEF IdentityNext

----------------------------------------
(* Access of accounts. *)

SessionFields == {"key", "barred", "version", "scope", "issued", "parent"}
EntryFields   == {"step", "via", "version", "scope"}

\* What was read with a version is still so while the account has that version: every
\* change of the scope counts the version up, and so does every way to an active account
\* other than by the rider's own status.
Fresh(v, scope) ==
    /\ v \in Nat /\ v <= acct.version
    /\ (v = acct.version => scope = staff.scope /\ (acct.status = "active" => staff.status = "active"))

AccessTypeOK ==
    /\ acct.version \in Nat /\ DOMAIN acct = {"kind", "status", "version", "before"}
    /\ DOMAIN staff = {"status", "review", "scope"}
    /\ DOMAIN session = SessionIds /\ (\A s \in SessionIds : DOMAIN session[s] = SessionFields)
    /\ DOMAIN entry = Entrants /\ (\A e \in Entrants : DOMAIN entry[e] = EntryFields)

TokensFresh ==
    /\ \A s \in SessionIds : session[s].key = "there" => Fresh(session[s].version, session[s].scope)
    /\ \A e \in Entrants :
          /\ (entry[e].step = "known" => entry[e].version \in Nat /\ entry[e].version <= acct.version)
          /\ (entry[e].step = "ready" => Fresh(entry[e].version, entry[e].scope))

\* Sessions are opened one after the other, and one that another came from is rotated.
LineageOK ==
    /\ \E n \in 0..SessionBound : \A s \in SessionIds : session[s].key # "none" <=> s <= n
    /\ \A e \in Entrants : entry[e].via \in 0..SessionBound
    /\ \A s \in SessionIds :
          /\ session[s].key \in {"none", "there", "rotated", "deleted"} /\ session[s].parent \in 0..SessionBound
          /\ (session[s].parent # 0 => session[session[s].parent].key = "rotated")
    /\ \A s, t \in SessionIds : session[s].parent # 0 /\ session[s].parent = session[t].parent => s = t

AccessInv == AccessTypeOK /\ TokensFresh /\ LineageOK

LEMMA AccessInitially == AccessInit => AccessInv
<1> SUFFICES ASSUME AccessInit PROVE AccessInv
 OBVIOUS
<1>0. PICK new \in {ProvisionMerchant, CreateMerchantUser, CreateRiderAccount} : \E first :
          /\ acct = [kind |-> new.kind, status |-> new.status, version |-> 1, before |-> 0]
          /\ staff = [status |-> new.status, review |-> new.review, scope |-> first]
 BY DEF AccessInit
<1>1. PICK first :
          /\ acct = [kind |-> new.kind, status |-> new.status, version |-> 1, before |-> 0]
          /\ staff = [status |-> new.status, review |-> new.review, scope |-> first]
 BY <1>0
<1>2. session = [s \in SessionIds |-> NoSession] /\ entry = [e \in Entrants |-> NotAsking] BY DEF AccessInit
<1>3. AccessTypeOK BY <1>1, <1>2 DEF AccessTypeOK, NoSession, NotAsking, SessionFields, EntryFields
<1>4. TokensFresh BY <1>2 DEF TokensFresh, NoSession, NotAsking
<1>5. LineageOK
 <2>1. \A s \in SessionIds : session[s].key = "none" /\ session[s].parent = 0 BY <1>2 DEF NoSession
 <2>2. \A s \in SessionIds : session[s].key # "none" <=> s <= 0 BY <2>1, AccessAssumption DEF SessionIds
 <2> QED BY <1>2, <2>1, <2>2, AccessAssumption DEF LineageOK, NotAsking
<1> QED BY <1>3, <1>4, <1>5 DEF AccessInv

LEMMA AccessInvImplies == AccessInv => AccessIsCurrent
BY DEF AccessInv, TokensFresh, Fresh, LineageOK, AccessIsCurrent, Accepted, SnapshotHolds

\* A request that reads.
LEMMA EntryMoves ==
    ASSUME AccessInv, NEW e \in Entrants, UNCHANGED <<acct, staff, session>>,
           NEW E, entry' = [entry EXCEPT ![e] = E],
           DOMAIN E = EntryFields, E.via \in 0..SessionBound,
           E.step = "known" => E.version \in Nat /\ E.version <= acct.version,
           E.step = "ready" => Fresh(E.version, E.scope)
    PROVE  AccessInv'
<1>1. /\ DOMAIN entry' = Entrants /\ \A f \in Entrants : entry'[f] = IF f = e THEN E ELSE entry[f]
      /\ acct' = acct /\ staff' = staff /\ session' = session
 BY DEF AccessInv, AccessTypeOK
<1>2. \A v, scope : Fresh(v, scope)' = Fresh(v, scope) BY <1>1 DEF Fresh
<1>3. AccessTypeOK' BY <1>1 DEF AccessInv, AccessTypeOK
<1>4. TokensFresh' BY <1>1 DEF AccessInv, TokensFresh, Fresh
<1>5. LineageOK' BY <1>1 DEF AccessInv, LineageOK
<1> QED BY <1>3, <1>4, <1>5 DEF AccessInv

LEMMA NotAskingFits == DOMAIN NotAsking = EntryFields /\ NotAsking.step = "idle" /\ NotAsking.via \in 0..SessionBound
BY AccessAssumption DEF NotAsking, EntryFields

LEMMA AsksStep ==
    ASSUME AccessInv, NEW e \in Entrants, NEW s,
           ReadAccount(e) \/ (s \in SessionIds /\ OpenSession(e, s)) \/ ReadForRefresh(e) \/ ReadProfile(e)
    PROVE  AccessInv'
<1>0. DOMAIN entry[e] = EntryFields /\ entry[e].via \in 0..SessionBound /\ acct.version \in Nat
 BY DEF AccessInv, AccessTypeOK, LineageOK
<1>1. CASE ReadAccount(e)
 <2>1. PICK E : E = [NotAsking EXCEPT !.step = "known", !.version = acct.version] OBVIOUS
 <2>2. /\ DOMAIN E = EntryFields /\ E.via \in 0..SessionBound /\ E.step = "known"
       /\ E.version \in Nat /\ E.version <= acct.version
  BY <1>0, <2>1, NotAskingFits DEF EntryFields
 <2>3. UNCHANGED <<acct, staff, session>> /\ entry' = [entry EXCEPT ![e] = E] BY <1>1, <2>1 DEF ReadAccount
 <2> QED BY <2>2, <2>3, EntryMoves
<1>2. CASE s \in SessionIds /\ OpenSession(e, s)
 <2>1. PICK E : E = [NotAsking EXCEPT !.step = "open", !.via = s] OBVIOUS
 <2>2. DOMAIN E = EntryFields /\ E.via \in 0..SessionBound /\ E.step = "open"
  BY <1>2, <2>1, NotAskingFits DEF EntryFields, SessionIds
 <2>3. UNCHANGED <<acct, staff, session>> /\ entry' = [entry EXCEPT ![e] = E] BY <1>2, <2>1 DEF OpenSession
 <2> QED BY <2>2, <2>3, EntryMoves
<1>3. CASE ReadForRefresh(e)
 <2>1. PICK E : /\ E = NotAsking \/ E = [entry[e] EXCEPT !.step = "known", !.version = acct.version]
                /\ entry' = [entry EXCEPT ![e] = E]
  BY <1>3 DEF ReadForRefresh, AccessInv, AccessTypeOK
 <2>2. /\ DOMAIN E = EntryFields /\ E.via \in 0..SessionBound /\ E.step # "ready"
       /\ E.step = "known" => E.version \in Nat /\ E.version <= acct.version
  <3>1. CASE E = NotAsking
   BY <3>1, NotAskingFits
  <3>2. CASE E = [entry[e] EXCEPT !.step = "known", !.version = acct.version]
   BY <1>0, <3>2 DEF EntryFields
  <3> QED BY <2>1, <3>1, <3>2
 <2>3. UNCHANGED <<acct, staff, session>> BY <1>3 DEF ReadForRefresh
 <2> QED BY <2>1, <2>2, <2>3, EntryMoves
<1>4. CASE ReadProfile(e)
 <2>1. PICK E : /\ \/ E = NotAsking
                   \/ staff.status = "active" /\ E = [entry[e] EXCEPT !.step = "ready", !.scope = staff.scope]
                /\ entry' = [entry EXCEPT ![e] = E]
  BY <1>4 DEF ReadProfile, AccessInv, AccessTypeOK
 <2>2. entry[e].version \in Nat /\ entry[e].version <= acct.version
  BY <1>4 DEF ReadProfile, AccessInv, TokensFresh
 <2>3. /\ DOMAIN E = EntryFields /\ E.via \in 0..SessionBound /\ E.step # "known"
       /\ E.step = "ready" => Fresh(E.version, E.scope)
  BY <1>0, <2>1, <2>2, NotAskingFits DEF EntryFields, Fresh
 <2>4. UNCHANGED <<acct, staff, session>> BY <1>4 DEF ReadProfile
 <2> QED BY <2>1, <2>3, <2>4, EntryMoves
<1> QED BY <1>1, <1>2, <1>3, <1>4

\* A session that is deleted keeps only whom it came from.
LEMMA EndedFits ==
    ASSUME AccessInv, NEW s \in SessionIds, NEW how \in {"rotated", "deleted"}, session[s].key = "there"
    PROVE  /\ DOMAIN Ended(session[s], how) = SessionFields /\ Ended(session[s], how).key = how
           /\ Ended(session[s], how).parent = session[s].parent
BY DEF Ended, NoSession, SessionFields, AccessInv, AccessTypeOK

LEMMA LogoutStep ==
    ASSUME AccessInv, NEW s \in SessionIds, NEW deleted \in BOOLEAN, Logout(s, deleted)
    PROVE  AccessInv'
<1>1. session[s].key = "there" /\ DOMAIN session[s] = SessionFields /\ UNCHANGED <<acct, staff, entry>>
 BY DEF Logout, AccessInv, AccessTypeOK
<1>2. PICK S : /\ session' = [session EXCEPT ![s] = S]
               /\ S = Ended(session[s], "deleted") \/ S = [session[s] EXCEPT !.barred = TRUE]
 BY DEF Logout, AccessInv, AccessTypeOK
<1>3. /\ DOMAIN S = SessionFields /\ S.parent = session[s].parent
      /\ S.key = "deleted" \/ (S.key = "there" /\ S.version = session[s].version /\ S.scope = session[s].scope)
 BY <1>1, <1>2, EndedFits DEF SessionFields
<1>4. DOMAIN session' = SessionIds /\ \A t \in SessionIds : session'[t] = IF t = s THEN S ELSE session[t]
 BY <1>2 DEF AccessInv, AccessTypeOK
<1>5. AccessTypeOK' BY <1>1, <1>3, <1>4 DEF AccessInv, AccessTypeOK
<1>6. TokensFresh' BY <1>1, <1>3, <1>4 DEF AccessInv, TokensFresh, Fresh
<1>7. LineageOK'
 <2>1. \A t \in SessionIds : /\ session'[t].parent = session[t].parent
                             /\ (session'[t].key = "none" <=> session[t].key = "none")
                             /\ (session[t].key = "rotated" => session'[t].key = "rotated")
                             /\ session'[t].key \in {"none", "there", "rotated", "deleted"}
  BY <1>1, <1>3, <1>4 DEF AccessInv, LineageOK
 <2>2. \A t \in SessionIds : session[t].parent # 0 => session[t].parent \in SessionIds
  BY DEF AccessInv, LineageOK, SessionIds
 <2>3. PICK n \in 0..SessionBound : \A t \in SessionIds : session[t].key # "none" <=> t <= n
  BY DEF AccessInv, LineageOK
 <2>4. \A t \in SessionIds : session'[t].key # "none" <=> t <= n BY <2>1, <2>3
 <2>5. entry' = entry BY <1>1
 <2> QED BY <2>1, <2>2, <2>4, <2>5 DEF AccessInv, LineageOK
<1> QED BY <1>5, <1>6, <1>7 DEF AccessInv

LEMMA IssueTokensStep ==
    ASSUME AccessInv, NEW e \in Entrants, NEW s \in SessionIds, IssueTokens(e, s)
    PROVE  AccessInv'
<1>1. /\ entry[e].step = "ready" /\ entry' = [entry EXCEPT ![e] = NotAsking]
      /\ UNCHANGED <<acct, staff>> /\ Fresh(entry[e].version, entry[e].scope) /\ entry[e].via \in 0..SessionBound
 BY DEF IssueTokens, AccessInv, TokensFresh, LineageOK
<1>2. CASE ~MayStore(e)
 <2>1. UNCHANGED session BY <1>2 DEF IssueTokens
 <2> QED BY <1>1, <2>1, NotAskingFits, EntryMoves
<1>3. CASE MayStore(e)
 <2>1. PICK n \in 0..SessionBound : \A t \in SessionIds : session[t].key # "none" <=> t <= n
  BY DEF AccessInv, LineageOK
 <2>2. s = n + 1
  <3>1. {t \in SessionIds : session[t].key # "none"} = 1..n BY <2>1, AccessAssumption DEF SessionIds
  <3>2. Cardinality(1..n) = n
   <4>1. 1 \in Int /\ n \in Int OBVIOUS
   <4> QED BY <4>1, FS_Interval
  <3> QED BY <3>1, <3>2 DEF IssueTokens
 <2>3. session[s].key = "none" BY <2>1, <2>2, AccessAssumption DEF SessionIds
 <2> DEFINE v == entry[e].via
            New == [NoSession EXCEPT !.key = "there", !.version = SignedVersion(e), !.scope = entry[e].scope,
                                     !.issued = second, !.parent = v]
 <2>4. /\ DOMAIN session' = SessionIds
       /\ \A t \in SessionIds : session'[t] = IF t = s THEN New ELSE IF t = v THEN Ended(session[t], "rotated") ELSE session[t]
  BY <1>3 DEF IssueTokens
 <2>5. v = 0 \/ (v \in SessionIds /\ session[v].key = "there" /\ v # s)
  BY <1>1, <1>3, <2>3 DEF MayStore, SessionIds
 <2>6. /\ DOMAIN New = SessionFields /\ New.key = "there" /\ New.parent = v
       /\ New.version = entry[e].version /\ New.scope = entry[e].scope
  BY DEF NoSession, SessionFields, SignedVersion
 <2> HIDE DEF New, v
 <2>7. \A t \in SessionIds : t # s =>
           /\ DOMAIN session'[t] = SessionFields /\ session'[t].parent = session[t].parent
           /\ (t = v => session[t].key = "there" /\ session'[t].key = "rotated")
           /\ (t # v => session'[t] = session[t])
  <3> SUFFICES ASSUME NEW t \in SessionIds, t # s
               PROVE  /\ DOMAIN session'[t] = SessionFields /\ session'[t].parent = session[t].parent
                      /\ (t = v => session[t].key = "there" /\ session'[t].key = "rotated")
                      /\ (t # v => session'[t] = session[t])
   OBVIOUS
  <3>1. CASE t # v
   BY <2>4, <3>1 DEF AccessInv, AccessTypeOK
  <3>2. CASE t = v
   <4>1. session[t].key = "there" BY <2>5, <3>2 DEF SessionIds
   <4>2. session'[t] = Ended(session[t], "rotated") BY <2>4, <3>2
   <4> QED BY <3>2, <4>1, <4>2, EndedFits
  <3> QED BY <3>1, <3>2
 <2>8. DOMAIN entry' = Entrants /\ \A f \in Entrants : entry'[f] = IF f = e THEN NotAsking ELSE entry[f]
  BY <1>1 DEF AccessInv, AccessTypeOK
 <2>9. AccessTypeOK' BY <1>1, <2>4, <2>6, <2>7, <2>8, NotAskingFits DEF AccessInv, AccessTypeOK
 <2>10. TokensFresh' BY <1>1, <2>4, <2>6, <2>7, <2>8, NotAskingFits DEF AccessInv, TokensFresh, Fresh
 <2>11. LineageOK'
  <3>1. session'[s].key = "there" /\ session'[s].parent = v BY <2>4, <2>6
  <3>2. \A t \in SessionIds : session'[t].key # "none" <=> t <= n + 1
   BY <2>1, <2>2, <2>7, <3>1, AccessAssumption DEF SessionIds
  <3>3. n + 1 \in 0..SessionBound BY <2>2, AccessAssumption DEF SessionIds
  <3>4. \A t \in SessionIds : /\ session'[t].key \in {"none", "there", "rotated", "deleted"}
                              /\ session'[t].parent \in 0..SessionBound
   BY <1>1, <2>7, <3>1 DEF AccessInv, LineageOK, v
  <3>5. \A t \in SessionIds : session[t].parent # 0 => /\ session[t].parent \in SessionIds \ {s, v}
                                                       /\ session[session[t].parent].key = "rotated"
   BY <2>3, <2>5 DEF AccessInv, LineageOK, SessionIds
  <3>6. \A t \in SessionIds : session'[t].parent # 0 => session'[session'[t].parent].key = "rotated"
   BY <2>5, <2>7, <3>1, <3>5
  <3>7. \A t, u \in SessionIds : session'[t].parent # 0 /\ session'[t].parent = session'[u].parent => t = u
   BY <2>5, <2>7, <3>1, <3>5 DEF AccessInv, LineageOK
  <3>8. \A f \in Entrants : entry'[f].via \in 0..SessionBound
   BY <2>8, NotAskingFits DEF AccessInv, LineageOK
  <3> QED BY <3>2, <3>3, <3>4, <3>6, <3>7, <3>8 DEF LineageOK
 <2> QED BY <2>9, <2>10, <2>11 DEF AccessInv
<1> QED BY <1>2, <1>3

\* An administrator's change that counts the version up, whatever else it writes; or one of
\* a rider's status, which leaves version and scope and keeps account and rider together.
LEMMA AccountChanges ==
    ASSUME AccessInv, UNCHANGED <<session, entry>>,
           DOMAIN acct' = DOMAIN acct, DOMAIN staff' = DOMAIN staff,
           \/ acct'.version = acct.version + 1
           \/ acct'.version = acct.version /\ staff'.scope = staff.scope /\ acct'.status = staff'.status
    PROVE  AccessInv'
<1>1. AccessTypeOK' /\ LineageOK' BY DEF AccessInv, AccessTypeOK, LineageOK
<1>2. \A v, scope : Fresh(v, scope) => Fresh(v, scope)' BY DEF AccessInv, AccessTypeOK, Fresh
<1>3. acct.version <= acct'.version /\ acct.version \in Nat /\ acct'.version \in Nat
 BY DEF AccessInv, AccessTypeOK
<1>4. TokensFresh' BY <1>2, <1>3 DEF AccessInv, TokensFresh
<1> QED BY <1>1, <1>4 DEF AccessInv

LEMMA AccessKeeps == AccessInv /\ AccessNext => AccessInv'
<1> SUFFICES ASSUME AccessInv, AccessNext PROVE AccessInv'
 OBVIOUS
<1>0. /\ DOMAIN acct = {"kind", "status", "version", "before"}
      /\ DOMAIN staff = {"status", "review", "scope"} /\ acct.version \in Nat
 BY DEF AccessInv, AccessTypeOK
<1>1. DOMAIN Invalidated = DOMAIN acct /\ Invalidated.version = acct.version + 1 BY <1>0 DEF Invalidated
<1>2. ASSUME NEW status \in {"active", "disabled"}, AccountStatus(status) PROVE AccessInv'
 <2>1. acct' = [Invalidated EXCEPT !.status = status] /\ UNCHANGED <<staff, session, entry>>
  BY <1>2 DEF AccountStatus, Change
 <2>2. DOMAIN acct' = DOMAIN acct /\ acct'.version = acct.version + 1 BY <1>0, <1>1, <2>1
 <2> QED BY <2>1, <2>2, AccountChanges
<1>3. CASE ResetPassword
 BY <1>1, <1>3, AccountChanges DEF ResetPassword, Change
<1>4. ASSUME NEW role \in Roles, UpdateMerchantUserRole(role) PROVE AccessInv'
 <2>1. PICK x : staff' = [staff EXCEPT !.scope = x] BY <1>4 DEF UpdateMerchantUserRole
 <2> QED BY <1>0, <1>1, <1>4, <2>1, AccountChanges DEF UpdateMerchantUserRole, Change
<1>5. ASSUME NEW shops \in Shops, AuthorizeShops(shops) PROVE AccessInv'
 <2>1. PICK x : staff' = [staff EXCEPT !.scope = x] BY <1>5 DEF AuthorizeShops
 <2> QED BY <1>0, <1>1, <1>5, <2>1, AccountChanges DEF AuthorizeShops, Change
<1>6. ASSUME NEW status, NEW review, UpdateRider(status, review), UNCHANGED <<session, entry>> PROVE AccessInv'
 <2>1. PICK b : acct' = [acct EXCEPT !.status = status, !.before = b] BY <1>6 DEF UpdateRider
 <2>2. staff' = [staff EXCEPT !.status = status, !.review = review] BY <1>6 DEF UpdateRider
 <2>3. /\ DOMAIN acct' = DOMAIN acct /\ acct'.version = acct.version /\ acct'.status = status
       /\ DOMAIN staff' = DOMAIN staff /\ staff'.scope = staff.scope /\ staff'.status = status
  BY <1>0, <2>1, <2>2
 <2> QED BY <1>6, <2>3, AccountChanges
<1>7. ASSUME NEW status \in {"active", "disabled"}, RiderStatus(status) PROVE AccessInv'
 BY <1>6, <1>7 DEF RiderStatus, Change
<1>8. ASSUME NEW v \in {"approved", "rejected"}, ReviewRider(v) PROVE AccessInv'
 BY <1>6, <1>8 DEF ReviewRider, Change
<1>9. CASE SecondPasses
 BY <1>9 DEF SecondPasses, AccessInv, AccessTypeOK, TokensFresh, Fresh, LineageOK
<1>10. ASSUME NEW e \in Entrants, ReadAccount(e) \/ ReadForRefresh(e) \/ ReadProfile(e) PROVE AccessInv'
 BY <1>10, AsksStep
<1> QED
 BY <1>2, <1>3, <1>4, <1>5, <1>7, <1>8, <1>9, <1>10, AsksStep, IssueTokensStep, LogoutStep DEF AccessNext

----------------------------------------
(* Alerts. *)

AlertFields == {"what", "status", "tries", "due", "live"}
LinkRecord == [st : {"none", "ticket", "accepted", "open", "closing", "closed"},
               resume : {"due", "busy", "done", "failed", "told"}, plan : Seq(Nat), queue : Seq(Nat),
               got : SUBSET Nat, seen : SUBSET Nat, past : SUBSET Nat]

AlertTypeOK ==
    /\ story.who \in {"rider", "merchant"} /\ DOMAIN handled = {"open", "end"}
    /\ DOMAIN alert = AlertIds /\ (\A i \in AlertIds : DOMAIN alert[i] = AlertFields)
    /\ hub \in [at : AlertIds \cup {0}, to : SUBSET Links] /\ link \in [Links -> LinkRecord]

\* What the recipient should hear of.
EventOf(i) == IF i = 1 THEN "open" ELSE "end"
ToTell(i) == IF story.who = "rider" THEN alert[i].live /\ alert[i].status = "relayed"
             ELSE allowed /\ i \in {1, 2} /\ handled[EventOf(i)] = "yes"

\* A connection that has read the rows has an alert, will have it or leaves it to the
\* client; or the subscriber is at it and has this connection on its list.
Has(L) == L.past \cup L.got \cup Range(L.queue) \cup Range(L.plan)
Resumed(L) == L.st = "open" /\ L.resume \in {"busy", "done"}
CaughtUp ==
    \A k \in Links, i \in AlertIds :
        Resumed(link[k]) /\ ToTell(i) /\ i \notin wire \cup missed \cup acked
        => i \in Has(link[k]) \/ (hub.at = i /\ k \in hub.to)

LinkOK(L) ==
    /\ 0 \notin L.got
    /\ (L.resume = "done" => L.plan = <<>>)
    /\ (L.resume = "busy" => L.plan # <<>>)
    /\ (L.st # "open" => L.queue = <<>> /\ L.resume = "due")
    /\ (L.st \in {"none", "ticket", "accepted"} => L.got = {} /\ L.seen = {} /\ L.plan = <<>>)

\* A merchant's connection has seen what it was told of, each event in one place.
Alone(q, g) ==
    \A n \in DOMAIN q : q[n] # 0 => q[n] \notin g /\ \A m \in DOMAIN q : q[m] = q[n] => m = n
ToldOK(L) ==
    /\ Range(L.plan) \subseteq {0} /\ Alone(L.queue, L.got)
    /\ (L.st = "open" => \A i \in Nat \ {0} : i \in L.seen <=> i \in L.got \cup Range(L.queue))

AlertInv ==
    /\ AlertTypeOK /\ CaughtUp /\ HubHoldsItsBounds
    /\ \A k \in Links : LinkOK(link[k]) /\ (story.who = "merchant" => ToldOK(link[k]))

LEMMA NoLinkFits == NoLink \in LinkRecord /\ LinkOK(NoLink) /\ ToldOK(NoLink)
<1>1. NoLink \in LinkRecord BY DEF NoLink, LinkRecord
<1>2. LinkOK(NoLink) BY DEF NoLink, LinkOK
<1>3. ToldOK(NoLink) BY DEF NoLink, ToldOK, Alone, Range
<1> QED BY <1>1, <1>2, <1>3

LEMMA AlertInitially == RealtimeInit => AlertInv
<1> SUFFICES ASSUME RealtimeInit PROVE AlertInv
 OBVIOUS
<1>1. link \in [Links -> LinkRecord] /\ \A k \in Links : link[k] = NoLink BY NoLinkFits DEF RealtimeInit
<1>2. AlertTypeOK BY <1>1, RealtimeAssumption DEF RealtimeInit, AlertTypeOK, NoAlert, AlertFields
<1>3. \A k \in Links : link[k].st = "none" BY <1>1 DEF NoLink
<1>4. CaughtUp BY <1>3 DEF CaughtUp, Resumed
<1>5. HubHoldsItsBounds
 <2>1. Registered = {} BY <1>3 DEF Registered
 <2>2. Cardinality(Registered) = 0 BY <2>1, FS_EmptySet
 <2> QED BY <1>3, <2>2, RealtimeAssumption DEF HubHoldsItsBounds, RealtimeInit
<1> QED BY <1>1, <1>2, <1>4, <1>5, NoLinkFits DEF AlertInv

LEMMA AlertInvImplies == AlertInv => AlertsReach
<1> SUFFICES ASSUME AlertInv PROVE AlertsReach
 OBVIOUS
<1>1. NothingSlips
 <2> SUFFICES ASSUME NEW k \in Links, NEW i \in AlertIds,
                     link[k].st = "open" /\ link[k].resume = "done",
                     i \notin link[k].past \cup wire \cup missed \cup {hub.at} \cup acked,
                     IF story.who = "rider" THEN alert[i].live /\ alert[i].status = "relayed"
                     ELSE allowed /\ i \in {1, 2} /\ handled[IF i = 1 THEN "open" ELSE "end"] = "yes"
              PROVE  i \in link[k].got \cup Range(link[k].queue)
  BY DEF NothingSlips
 <2>1. ToTell(i) /\ Resumed(link[k]) BY DEF ToTell, EventOf, Resumed
 <2>2. i \in Has(link[k]) BY <2>1 DEF AlertInv, CaughtUp
 <2>3. link[k].plan = <<>> BY DEF AlertInv, LinkOK
 <2>4. Range(link[k].plan) = {} BY <2>3 DEF Range
 <2> QED BY <2>2, <2>4 DEF Has
<1>2. ToldOnce
 <2> SUFFICES ASSUME story.who = "merchant", NEW k \in Links, NEW i \in {1, 2}
              PROVE  Cardinality({n \in DOMAIN link[k].queue : link[k].queue[n] = i})
                         + (IF i \in link[k].got THEN 1 ELSE 0) <= 1
  BY DEF ToldOnce
 <2> DEFINE places == {n \in DOMAIN link[k].queue : link[k].queue[n] = i}
 <2>1. ToldOK(link[k]) BY DEF AlertInv
 <2>2. CASE places = {}
  <3>1. Cardinality(places) = 0 BY <2>2, FS_EmptySet
  <3> QED BY <3>1
 <2>3. CASE places # {}
  <3>1. PICK n : n \in places BY <2>3
  <3>2. places = {n} /\ i \notin link[k].got BY <2>1, <3>1 DEF ToldOK, Alone
  <3>3. Cardinality({n}) = 1 BY FS_Singleton
  <3> QED BY <3>2, <3>3
 <2> QED BY <2>2, <2>3
<1> QED BY <1>1, <1>2 DEF AlertInv, AlertsReach

\* Rows, wake-ups and rights change: what is to be told now was already, or is on its way.
LEMMA RowsMove ==
    ASSUME AlertInv, UNCHANGED <<story, hub, link, acked, drain>>,
           DOMAIN handled' = {"open", "end"}, DOMAIN alert' = AlertIds,
           \A i \in AlertIds : DOMAIN alert'[i] = AlertFields,
           \A i \in AlertIds : ToTell(i)' => ToTell(i) \/ i \in wire',
           wire \cup missed \subseteq wire' \cup missed'
    PROVE  AlertInv'
<1>1. AlertTypeOK' BY DEF AlertInv, AlertTypeOK
<1>2. CaughtUp'
 <2> SUFFICES ASSUME NEW k \in Links, NEW i \in AlertIds,
                     Resumed(link[k]), ToTell(i)', i \notin wire' \cup missed' \cup acked
              PROVE  i \in Has(link[k]) \/ (hub.at = i /\ k \in hub.to)
  BY DEF CaughtUp, Resumed, Has
 <2> QED BY DEF AlertInv, CaughtUp
<1>3. HubHoldsItsBounds' BY DEF AlertInv, HubHoldsItsBounds, Registered
<1> QED BY <1>1, <1>2, <1>3 DEF AlertInv

LEMMA HandleStep == ASSUME AlertInv, NEW e \in {"open", "end"}, Handle(e) PROVE AlertInv'
<1>1. /\ story.who = "rider" /\ handled' = [handled EXCEPT ![e] = "after"]
      /\ UNCHANGED <<story, hub, link, acked, drain, wire, missed, allowed>>
 BY DEF Handle
<1>0. PICK ids \in kSubset(Cardinality(targets(story[e])), {i \in AlertIds : alert[i] = NoAlert}) :
        \E name \in Bijection(ids, targets(story[e])), live \in IF e = "open" THEN BOOLEAN ELSE {TRUE} :
        alert' = [i \in AlertIds |->
                    IF i \in ids THEN [NoAlert EXCEPT !.what = name[i], !.due = TRUE, !.live = live,
                                                      !.status = IF live THEN "pending" ELSE "expired"]
                    ELSE alert[i]]
 BY DEF Handle
<1>2. PICK name \in Bijection(ids, targets(story[e])), live \in IF e = "open" THEN BOOLEAN ELSE {TRUE} :
        alert' = [i \in AlertIds |->
                    IF i \in ids THEN [NoAlert EXCEPT !.what = name[i], !.due = TRUE, !.live = live,
                                                      !.status = IF live THEN "pending" ELSE "expired"]
                    ELSE alert[i]]
 BY <1>0
<1>3. DOMAIN alert' = AlertIds BY <1>2
<1>4. \A i \in AlertIds : DOMAIN alert'[i] = AlertFields
 BY <1>2 DEF NoAlert, AlertInv, AlertTypeOK, AlertFields
<1>5. \A i \in AlertIds : alert'[i] = alert[i] \/ alert'[i].status # "relayed"
 <2> SUFFICES ASSUME NEW i \in AlertIds, i \in ids PROVE alert'[i].status # "relayed"
  BY <1>2
 <2>1. PICK x : x = (IF live THEN "pending" ELSE "expired") OBVIOUS
 <2>2. x # "relayed" BY <2>1
 <2>3. alert'[i] = [NoAlert EXCEPT !.what = name[i], !.due = TRUE, !.live = live, !.status = x] BY <1>2, <2>1
 <2> QED BY <2>2, <2>3 DEF NoAlert
<1>6. \A i \in AlertIds : ToTell(i)' => ToTell(i) BY <1>1, <1>5 DEF ToTell
<1>7. DOMAIN handled' = {"open", "end"} BY <1>1 DEF AlertInv, AlertTypeOK
<1> QED BY <1>1, <1>3, <1>4, <1>6, <1>7, RowsMove

LEMMA AfterCommitRiderStep == ASSUME AlertInv, NEW e \in {"open", "end"}, AfterCommitRider(e) PROVE AlertInv'
<1>1. /\ story.who = "rider" /\ handled' = [handled EXCEPT ![e] = "yes"]
      /\ UNCHANGED <<story, hub, link, acked, drain, missed, allowed>>
 BY DEF AfterCommitRider
<1>2. PICK ids : \/ wire' = wire \cup ids /\ alert' = Relayed(ids)
                 \/ wire \subseteq wire' /\ alert' = alert
 BY DEF AfterCommitRider
<1>3. DOMAIN handled' = {"open", "end"} BY <1>1 DEF AlertInv, AlertTypeOK
<1>4. /\ DOMAIN alert' = AlertIds /\ \A i \in AlertIds : DOMAIN alert'[i] = AlertFields
      /\ \A i \in AlertIds : ToTell(i)' => ToTell(i) \/ i \in wire'
 <2>1. CASE alert' = alert
  BY <1>1, <2>1 DEF ToTell, AlertInv, AlertTypeOK
 <2>2. CASE wire' = wire \cup ids /\ alert' = Relayed(ids)
  <3>1. DOMAIN alert' = AlertIds /\ \A i \in AlertIds : alert'[i] = alert[i] \/ i \in ids
   BY <2>2 DEF Relayed
  <3>2. \A i \in AlertIds : DOMAIN alert'[i] = AlertFields BY <2>2 DEF Relayed, AlertInv, AlertTypeOK
  <3>3. \A i \in AlertIds : ToTell(i)' => ToTell(i) \/ i \in wire' BY <1>1, <2>2, <3>1 DEF ToTell
  <3> QED BY <3>1, <3>2, <3>3
 <2> QED BY <1>2, <2>1, <2>2
<1> QED BY <1>1, <1>2, <1>3, <1>4, RowsMove

LEMMA AfterCommitMerchantStep ==
    ASSUME AlertInv, NEW e \in {"open", "end"}, AfterCommitMerchant(e)
    PROVE  AlertInv'
<1>1. PICK h \in {"yes", "after"} : handled' = [handled EXCEPT ![e] = h] BY DEF AfterCommitMerchant
<1>2. /\ story.who = "merchant" /\ UNCHANGED <<story, alert, hub, link, acked, drain, missed, allowed>>
      /\ wire \subseteq wire' /\ (allowed => (IF e = "open" THEN 1 ELSE 2) \in wire')
 BY DEF AfterCommitMerchant
<1>3. DOMAIN handled' = {"open", "end"} /\ \A f \in {"open", "end"} : f # e => handled'[f] = handled[f]
 BY <1>1 DEF AlertInv, AlertTypeOK
<1>4. \A i \in AlertIds : ToTell(i)' => ToTell(i) \/ i \in wire' BY <1>2, <1>3 DEF ToTell, EventOf
<1>5. DOMAIN alert' = AlertIds /\ \A i \in AlertIds : DOMAIN alert'[i] = AlertFields
 BY <1>2 DEF AlertInv, AlertTypeOK
<1> QED BY <1>2, <1>3, <1>4, <1>5, RowsMove

\* One row changes and becomes no alert to tell that it was not, unless a wake-up goes out.
LEMMA AlertMoves ==
    ASSUME AlertInv, UNCHANGED <<story, handled, hub, link, acked, drain, missed, allowed>>,
           NEW i \in AlertIds, NEW A, alert' = [alert EXCEPT ![i] = A], DOMAIN A = AlertFields,
           A.live /\ A.status = "relayed" /\ i \notin wire' => alert[i].live /\ alert[i].status = "relayed",
           wire \subseteq wire'
    PROVE  AlertInv'
<1>1. DOMAIN alert' = AlertIds /\ \A j \in AlertIds : alert'[j] = IF j = i THEN A ELSE alert[j]
 BY DEF AlertInv, AlertTypeOK
<1>2. \A j \in AlertIds : DOMAIN alert'[j] = AlertFields BY <1>1 DEF AlertInv, AlertTypeOK
<1>3. \A j \in AlertIds : ToTell(j)' => ToTell(j) \/ j \in wire' BY <1>1 DEF ToTell
<1>4. DOMAIN handled' = {"open", "end"} BY DEF AlertInv, AlertTypeOK
<1> QED BY <1>1, <1>2, <1>3, <1>4, RowsMove

LEMMA RelayAlertStep == ASSUME AlertInv, NEW i \in AlertIds, RelayAlert(i) PROVE AlertInv'
<1>0. /\ UNCHANGED <<story, handled, hub, link, acked, drain, missed, allowed>>
      /\ DOMAIN alert[i] = AlertFields /\ DOMAIN handled = {"open", "end"} /\ DOMAIN alert = AlertIds
 BY DEF RelayAlert, AlertInv, AlertTypeOK
<1>1. CASE wire' = wire \cup {i} /\ alert' = Relayed({i})
 <2>1. DOMAIN alert' = AlertIds /\ \A j \in AlertIds : alert'[j] = alert[j] \/ j = i BY <1>1 DEF Relayed
 <2>2. \A j \in AlertIds : DOMAIN alert'[j] = AlertFields BY <1>1 DEF Relayed, AlertInv, AlertTypeOK
 <2>3. \A j \in AlertIds : ToTell(j)' => ToTell(j) \/ j \in wire' BY <1>0, <1>1, <2>1 DEF ToTell
 <2> QED BY <1>0, <1>1, <2>1, <2>2, <2>3, RowsMove
<1>2. CASE alert' = [alert EXCEPT ![i].status = "expired"] /\ wire' = wire
 <2>1. PICK A : A = [alert[i] EXCEPT !.status = "expired"] OBVIOUS
 <2>2. DOMAIN A = AlertFields /\ A.status = "expired" BY <1>0, <2>1 DEF AlertFields
 <2>3. alert' = [alert EXCEPT ![i] = A] BY <1>2, <2>1
 <2> QED BY <1>0, <1>2, <2>2, <2>3, AlertMoves
<1>3. ASSUME NEW x \in {"dead", "pending"}, alert' = [alert EXCEPT ![i].status = x, ![i].due = FALSE],
             wire \subseteq wire'
      PROVE  AlertInv'
 <2>1. PICK A : A = [alert[i] EXCEPT !.status = x, !.due = FALSE] OBVIOUS
 <2>2. DOMAIN A = AlertFields /\ A.status = x BY <1>0, <2>1 DEF AlertFields
 <2>3. alert' = [alert EXCEPT ![i] = A] BY <1>0, <1>3, <2>1
 <2> QED BY <1>0, <1>3, <2>2, <2>3, AlertMoves
<1>4. PICK x \in {"dead", "pending"} : x = IF alert[i].tries >= RelayTries THEN "dead" ELSE "pending" OBVIOUS
<1> QED BY <1>1, <1>2, <1>3, <1>4 DEF RelayAlert

LEMMA ClaimAlertsStep == ASSUME AlertInv, ClaimAlerts PROVE AlertInv'
<1>1. PICK ids : alert' = [i \in AlertIds |-> IF i \in ids
                              THEN [alert[i] EXCEPT !.due = FALSE, !.tries = alert[i].tries + 1] ELSE alert[i]]
 BY DEF ClaimAlerts
<1>2. UNCHANGED <<story, handled, hub, link, acked, drain, wire, missed, allowed>> BY DEF ClaimAlerts
<1>3. DOMAIN alert' = AlertIds BY <1>1
<1>4. \A i \in AlertIds : /\ DOMAIN alert'[i] = AlertFields
                          /\ alert'[i].live = alert[i].live /\ alert'[i].status = alert[i].status
 <2> SUFFICES ASSUME NEW i \in AlertIds
              PROVE  /\ DOMAIN alert'[i] = AlertFields
                     /\ alert'[i].live = alert[i].live /\ alert'[i].status = alert[i].status
  OBVIOUS
 <2>1. PICK n : n = alert[i].tries + 1 OBVIOUS
 <2>2. alert'[i] = alert[i] \/ alert'[i] = [alert[i] EXCEPT !.due = FALSE, !.tries = n] BY <1>1, <2>1
 <2>3. DOMAIN alert[i] = AlertFields BY DEF AlertInv, AlertTypeOK
 <2> QED BY <2>2, <2>3 DEF AlertFields
<1>5. \A i \in AlertIds : ToTell(i)' => ToTell(i) BY <1>2, <1>4 DEF ToTell
<1>6. DOMAIN handled' = {"open", "end"} BY <1>2 DEF AlertInv, AlertTypeOK
<1> QED BY <1>2, <1>3, <1>4, <1>5, <1>6, RowsMove

LEMMA RowStep ==
    ASSUME AlertInv, NEW i \in AlertIds, DueAgain(i) \/ OfferIsOver(i) \/ CleanUp(i)
    PROVE  AlertInv'
<1>0. DOMAIN alert[i] = AlertFields /\ DOMAIN alert = AlertIds BY DEF AlertInv, AlertTypeOK
<1>1. UNCHANGED <<story, handled, hub, link, acked, drain, missed, allowed, wire>>
 BY DEF DueAgain, OfferIsOver, CleanUp
<1>2. CASE DueAgain(i)
 <2>1. PICK A : A = [alert[i] EXCEPT !.due = TRUE] OBVIOUS
 <2>2. DOMAIN A = AlertFields /\ A.status = alert[i].status /\ A.live = alert[i].live
  BY <1>0, <2>1 DEF AlertFields
 <2>3. alert' = [alert EXCEPT ![i] = A] BY <1>2, <2>1 DEF DueAgain
 <2> QED BY <1>1, <2>2, <2>3, AlertMoves
<1>3. CASE OfferIsOver(i)
 <2>1. PICK A : A = [alert[i] EXCEPT !.live = FALSE] OBVIOUS
 <2>2. DOMAIN A = AlertFields /\ ~A.live BY <1>0, <2>1 DEF AlertFields
 <2>3. alert' = [alert EXCEPT ![i] = A] BY <1>3, <2>1 DEF OfferIsOver
 <2> QED BY <1>1, <2>2, <2>3, AlertMoves
<1>4. CASE CleanUp(i)
 <2>1. PICK A : A = [NoAlert EXCEPT !.what = alert[i].what, !.status = "gone"] OBVIOUS
 <2>2. DOMAIN A = AlertFields /\ A.status = "gone" BY <2>1 DEF AlertFields, NoAlert
 <2>3. alert' = [alert EXCEPT ![i] = A] BY <1>4, <2>1 DEF CleanUp
 <2> QED BY <1>1, <2>2, <2>3, AlertMoves
<1> QED BY <1>2, <1>3, <1>4

LEMMA AroundStep ==
    ASSUME AlertInv, WorkerDies \/ SessionEnded \/ ShopTakenAway \/ \E i \in AlertIds : WakeupLost(i)
    PROVE  AlertInv'
<1>1. /\ UNCHANGED <<story, handled, alert, hub, link, acked, drain>> /\ (allowed' => allowed)
      /\ wire \cup missed \subseteq wire' \cup missed'
 BY DEF WorkerDies, SessionEnded, ShopTakenAway, WakeupLost
<1>2. \A i \in AlertIds : ToTell(i)' => ToTell(i) BY <1>1 DEF ToTell
<1>3. /\ DOMAIN handled' = {"open", "end"} /\ DOMAIN alert' = AlertIds
      /\ \A i \in AlertIds : DOMAIN alert'[i] = AlertFields
 BY <1>1 DEF AlertInv, AlertTypeOK
<1> QED BY <1>1, <1>2, <1>3, RowsMove

\* The subscriber takes a wake-up for those who are connected.
LEMMA TakeWakeupStep == ASSUME AlertInv, NEW i \in AlertIds, TakeWakeup(i) PROVE AlertInv'
<1>1. /\ UNCHANGED <<story, handled, alert, missed, link, acked, allowed, drain>> /\ wire' = wire \ {i} /\ hub.at = 0
      /\ hub' = IF Registered = {} THEN hub ELSE [at |-> i, to |-> Registered]
 BY DEF TakeWakeup
<1>2. hub' \in [at : AlertIds \cup {0}, to : SUBSET Links] BY <1>1 DEF AlertInv, AlertTypeOK, Registered
<1>3. AlertTypeOK' BY <1>1, <1>2 DEF AlertInv, AlertTypeOK
<1>4. CaughtUp'
 <2> SUFFICES ASSUME NEW k \in Links, NEW j \in AlertIds,
                     Resumed(link[k]), ToTell(j), j \notin wire' \cup missed \cup acked
              PROVE  j \in Has(link[k]) \/ (hub'.at = j /\ k \in hub'.to)
  BY <1>1 DEF CaughtUp, Resumed, Has, ToTell
 <2>1. k \in Registered /\ Registered # {} BY DEF Resumed, Registered
 <2>2. hub'.at = i /\ k \in hub'.to BY <1>1, <2>1
 <2>3. j # i => j \in Has(link[k]) \/ hub.at = j BY <1>1 DEF AlertInv, CaughtUp
 <2>4. hub.at # j BY <1>1, RealtimeAssumption
 <2> QED BY <2>2, <2>3, <2>4
<1>5. HubHoldsItsBounds' BY <1>1 DEF AlertInv, HubHoldsItsBounds, Registered
<1> QED BY <1>1, <1>3, <1>4, <1>5 DEF AlertInv

\* The hub's bound, when one connection may have been registered.
LEMMA BoundKept ==
    ASSUME AlertInv, NEW k \in Links, link' \in [Links -> LinkRecord],
           \A j \in Links : link'[j].st \in {"open", "closing"} =>
               link[j].st \in {"open", "closing"} \/ (j = k /\ CanRegister)
    PROVE  Cardinality(Registered') <= MaxLinks
<1>1. IsFiniteSet(Registered)
 <2>1. Registered \subseteq Links BY DEF Registered
 <2> QED BY <2>1, RealtimeAssumption, FS_Subset
<1>2. Cardinality(Registered) \in Nat /\ Cardinality(Registered) <= MaxLinks /\ MaxLinks \in Nat
 BY <1>1, RealtimeAssumption, FS_CardinalityType DEF AlertInv, HubHoldsItsBounds
<1>3. CASE CanRegister
 <2> DEFINE more == Registered \cup {k}
 <2>1. Registered' \subseteq more BY DEF Registered
 <2>2. IsFiniteSet(more) /\ (Cardinality(more) = Cardinality(Registered) \/ Cardinality(more) = Cardinality(Registered) + 1)
  BY <1>1, FS_AddElement
 <2> HIDE DEF more
 <2>3. Cardinality(Registered') <= Cardinality(more) BY <2>1, <2>2, FS_Subset
 <2>4. IsFiniteSet(Registered') BY <2>1, <2>2, FS_Subset
 <2>5. Cardinality(Registered') \in Nat /\ Cardinality(more) \in Nat BY <2>2, <2>4, FS_CardinalityType
 <2>6. Cardinality(Registered) < MaxLinks BY <1>3 DEF CanRegister
 <2> QED BY <1>2, <2>2, <2>3, <2>5, <2>6
<1>4. CASE ~CanRegister
 <2>1. Registered' \subseteq Registered BY <1>4 DEF Registered
 <2>2. Cardinality(Registered') <= Cardinality(Registered) /\ IsFiniteSet(Registered')
  BY <1>1, <2>1, FS_Subset
 <2>3. Cardinality(Registered') \in Nat BY <2>2, FS_CardinalityType
 <2> QED BY <1>2, <2>2, <2>3
<1> QED BY <1>3, <1>4

\* One connection moves: it goes on with what it has, or it has read everything there is.
LEMMA LinkMoves ==
    ASSUME AlertInv, UNCHANGED <<story, handled, alert, wire, missed, hub, allowed, drain>>, acked \subseteq acked',
           NEW k \in Links, NEW L \in LinkRecord, link' = [link EXCEPT ![k] = L],
           LinkOK(L), story.who = "merchant" => ToldOK(L),
           L.st \in {"open", "closing"} => link[k].st = "open" \/ L.st = link[k].st \/ CanRegister,
           Resumed(L) => \/ Resumed(link[k]) /\ \A i \in AlertIds : i \in Has(link[k]) => i \in Has(L)
                         \/ \A i \in AlertIds : ToTell(i) /\ i \notin acked \cup wire => i \in Has(L)
    PROVE  AlertInv'
<1>1. link' \in [Links -> LinkRecord] /\ \A j \in Links : link'[j] = IF j = k THEN L ELSE link[j]
 BY DEF AlertInv, AlertTypeOK
<1>2. AlertTypeOK' BY <1>1 DEF AlertInv, AlertTypeOK
<1>3. CaughtUp'
 <2> SUFFICES ASSUME NEW j \in Links, NEW i \in AlertIds,
                     Resumed(link'[j]), ToTell(i), i \notin wire \cup missed \cup acked
              PROVE  i \in Has(link'[j]) \/ (hub.at = i /\ j \in hub.to)
  BY DEF CaughtUp, ToTell
 <2>1. CASE j # k
  BY <1>1, <2>1 DEF AlertInv, CaughtUp
 <2>2. CASE j = k
  BY <1>1, <2>2 DEF AlertInv, CaughtUp
 <2> QED BY <2>1, <2>2
<1>4. Cardinality(Registered') <= MaxLinks BY <1>1, BoundKept
<1>5. drain' = "stopped" => \A j \in Links : link'[j].st # "open"
 BY <1>1 DEF AlertInv, HubHoldsItsBounds, CanRegister
<1>6. HubHoldsItsBounds' BY <1>4, <1>5 DEF HubHoldsItsBounds
<1>7. \A j \in Links : LinkOK(link'[j]) /\ (story.who = "merchant" => ToldOK(link'[j])) BY <1>1 DEF AlertInv
<1> QED BY <1>2, <1>3, <1>6, <1>7 DEF AlertInv

LEMMA EmptyRange == Range(<<>>) = {}
BY DEF Range

\* A connection that has stopped, or that never opened.
LEMMA StoppedFits ==
    ASSUME AlertInv, NEW k \in Links
    PROVE  /\ Stopped(k) \in LinkRecord /\ LinkOK(Stopped(k)) /\ ToldOK(Stopped(k)) /\ Stopped(k).st = "closing"
<1>1. link[k].got \in SUBSET Nat /\ 0 \notin link[k].got BY DEF AlertInv, AlertTypeOK, LinkRecord, LinkOK
<1>2. PICK g \in SUBSET Nat : g = link[k].got BY <1>1
<1>3. Stopped(k) = [NoLink EXCEPT !.st = "closing", !.got = g] BY <1>2 DEF Stopped
<1>4. /\ Stopped(k).st = "closing" /\ Stopped(k).resume = "due" /\ Stopped(k).queue = <<>>
      /\ Stopped(k).plan = <<>> /\ Stopped(k).got = g
 BY <1>3 DEF NoLink
<1>5. Stopped(k) \in LinkRecord BY <1>3, NoLinkFits DEF LinkRecord
<1>6. LinkOK(Stopped(k)) BY <1>1, <1>2, <1>4 DEF LinkOK
<1>7. ToldOK(Stopped(k)) BY <1>4, EmptyRange DEF ToldOK, Alone
<1> QED BY <1>4, <1>5, <1>6, <1>7

LEMMA StatusFits ==
    ASSUME NEW L \in LinkRecord, LinkOK(L), NEW t \in {"ticket", "accepted", "closed"},
           L.st # "open", L.st \in {"none", "ticket"} \/ t = "closed"
    PROVE  LET M == [L EXCEPT !.st = t]
           IN  M \in LinkRecord /\ LinkOK(M) /\ M.st = t /\ (ToldOK(L) => ToldOK(M))
<1> DEFINE M == [L EXCEPT !.st = t]
<1>1. M \in LinkRecord /\ M.st = t BY DEF LinkRecord
<1>2. M.got = L.got /\ M.queue = L.queue /\ M.plan = L.plan /\ M.seen = L.seen /\ M.resume = L.resume
 BY DEF LinkRecord
<1> HIDE DEF M
<1>3. LinkOK(M) BY <1>1, <1>2 DEF LinkOK
<1>4. ToldOK(L) => ToldOK(M) BY <1>1, <1>2 DEF ToldOK
<1> QED BY <1>1, <1>3, <1>4 DEF M

LEMMA StatusStep ==
    ASSUME AlertInv, NEW k \in Links,
           IssueTicket(k) \/ ConsumeTicket(k) \/ TicketExpires(k) \/ Unregister(k)
    PROVE  AlertInv'
<1>1. /\ UNCHANGED <<story, handled, alert, wire, missed, hub, allowed, drain, acked>>
 BY DEF IssueTicket, ConsumeTicket, TicketExpires, Unregister
<1>2. link[k] \in LinkRecord /\ LinkOK(link[k]) /\ (story.who = "merchant" => ToldOK(link[k])) /\ DOMAIN link = Links
 BY DEF AlertInv, AlertTypeOK
<1>3. PICK t \in {"ticket", "accepted", "closed"} :
        /\ link' = [link EXCEPT ![k].st = t]
        /\ link[k].st # "open" /\ (link[k].st \in {"none", "ticket"} \/ t = "closed")
 BY DEF IssueTicket, ConsumeTicket, TicketExpires, Unregister, SetLink
<1>4. PICK L : L = [link[k] EXCEPT !.st = t] OBVIOUS
<1>5. L \in LinkRecord /\ LinkOK(L) /\ L.st = t /\ (ToldOK(link[k]) => ToldOK(L))
 BY <1>2, <1>3, <1>4, StatusFits
<1>6. link' = [link EXCEPT ![k] = L] BY <1>2, <1>3, <1>4
<1>7. ~Resumed(L) BY <1>5 DEF Resumed
<1> QED BY <1>1, <1>2, <1>5, <1>6, <1>7, LinkMoves

LEMMA StopsStep ==
    ASSUME AlertInv, NEW k \in Links, SessionCheck(k) \/ ClientLeaves(k)
    PROVE  AlertInv'
<1>1. /\ UNCHANGED <<story, handled, alert, wire, missed, hub, allowed, drain, acked>>
      /\ link[k].st = "open" /\ link' = [link EXCEPT ![k] = Stopped(k)]
 BY DEF SessionCheck, ClientLeaves
<1>2. PICK L : L = Stopped(k) OBVIOUS
<1>3. L \in LinkRecord /\ LinkOK(L) /\ ToldOK(L) /\ L.st = "closing" BY <1>2, StoppedFits
<1>4. ~Resumed(L) BY <1>3 DEF Resumed
<1> QED BY <1>1, <1>2, <1>3, <1>4, LinkMoves

LEMMA AppendFacts ==
    ASSUME NEW q \in Seq(Nat), NEW x \in Nat
    PROVE  /\ Append(q, x) \in Seq(Nat) /\ Append(q, x) # <<>> /\ Range(Append(q, x)) = Range(q) \cup {x}
           /\ \A g : Alone(q, g) /\ (x = 0 \/ x \notin g \cup Range(q)) => Alone(Append(q, x), g)
<1>1. /\ Append(q, x) \in Seq(Nat) /\ Len(Append(q, x)) = Len(q) + 1 /\ \A n \in 1..Len(q) : Append(q, x)[n] = q[n]
      /\ Append(q, x)[Len(q) + 1] = x
      /\ DOMAIN Append(q, x) = 1..(Len(q) + 1) /\ DOMAIN q = 1..Len(q) /\ Len(q) \in Nat
 OBVIOUS
<1> DEFINE a == Append(q, x)
<1>2. /\ DOMAIN a = 1..(Len(q) + 1) /\ DOMAIN q = 1..Len(q) /\ Len(q) \in Nat
      /\ a[Len(q) + 1] = x /\ \A n \in 1..Len(q) : a[n] = q[n]
 BY <1>1
<1> HIDE DEF a
<1>3. Range(a) = Range(q) \cup {x}
 <2>1. \A n \in DOMAIN a : n = Len(q) + 1 \/ n \in DOMAIN q BY <1>2
 <2>2. Len(q) + 1 \in DOMAIN a /\ \A n \in DOMAIN q : n \in DOMAIN a BY <1>2
 <2> QED BY <1>2, <2>1, <2>2 DEF Range
<1>4. ASSUME NEW g, Alone(q, g), x = 0 \/ x \notin g \cup Range(q) PROVE Alone(a, g)
 <2> SUFFICES ASSUME NEW n \in DOMAIN a, a[n] # 0
              PROVE  a[n] \notin g /\ \A m \in DOMAIN a : a[m] = a[n] => m = n
  BY DEF Alone
 <2>1. CASE n \in DOMAIN q
  <3>1. a[n] = q[n] /\ q[n] \in Range(q) BY <1>2, <2>1 DEF Range
  <3>2. \A m \in DOMAIN a : m \in DOMAIN q \/ (m = Len(q) + 1 /\ a[m] = x) BY <1>2
  <3>3. x # a[n] BY <1>4, <3>1
  <3> QED BY <1>2, <1>4, <2>1, <3>1, <3>2, <3>3 DEF Alone
 <2>2. CASE n \notin DOMAIN q
  <3>1. n = Len(q) + 1 /\ a[n] = x /\ x \notin g \cup Range(q) BY <1>2, <1>4, <2>2
  <3>2. \A m \in DOMAIN q : a[m] # x BY <1>2, <3>1 DEF Range
  <3> QED BY <1>2, <3>1, <3>2
 <2> QED BY <2>1, <2>2
<1> QED BY <1>1, <1>3, <1>4 DEF a

LEMMA TailFacts ==
    ASSUME NEW q \in Seq(Nat), q # <<>>
    PROVE  /\ Tail(q) \in Seq(Nat) /\ Head(q) \in Nat /\ Range(q) = Range(Tail(q)) \cup {Head(q)}
           /\ (Len(q) = 1 => Tail(q) = <<>>) /\ (Len(q) # 1 => Tail(q) # <<>>)
           /\ \A g : Alone(q, g) => Alone(Tail(q), g \cup ({Head(q)} \ {0}))
<1>1. /\ Tail(q) \in Seq(Nat) /\ Head(q) = q[1] /\ Len(q) \in Nat \ {0} /\ Len(Tail(q)) = Len(q) - 1
      /\ DOMAIN q = 1..Len(q) /\ DOMAIN Tail(q) = 1..(Len(q) - 1)
      /\ \A n \in 1..(Len(q) - 1) : Tail(q)[n] = q[n + 1]
 OBVIOUS
<1>2. Head(q) \in Nat BY <1>1
<1>3. (Len(q) = 1 => Tail(q) = <<>>) /\ (Len(q) # 1 => Tail(q) # <<>>)
 <2>1. \A r \in Seq(Nat) : r = <<>> <=> Len(r) = 0 OBVIOUS
 <2>2. Len(q) = 1 <=> Len(Tail(q)) = 0 BY <1>1
 <2> QED BY <1>1, <2>1, <2>2
<1> DEFINE t == Tail(q)
<1>4. /\ q[1] = Head(q) /\ 1 \in DOMAIN q /\ \A n \in DOMAIN t : t[n] = q[n + 1] /\ n + 1 \in DOMAIN q
      /\ \A n \in DOMAIN q : n = 1 \/ (n - 1 \in DOMAIN t /\ t[n - 1] = q[n])
 BY <1>1
<1>5. DOMAIN t \subseteq Nat \ {0} BY <1>1
<1> HIDE DEF t
<1>6. Range(q) = Range(t) \cup {Head(q)} BY <1>4 DEF Range
<1>7. ASSUME NEW g, Alone(q, g) PROVE Alone(t, g \cup ({Head(q)} \ {0}))
 <2> SUFFICES ASSUME NEW n \in DOMAIN t, t[n] # 0
              PROVE  /\ t[n] \notin g \cup ({Head(q)} \ {0})
                     /\ \A m \in DOMAIN t : t[m] = t[n] => m = n
  BY DEF Alone
 <2>1. /\ n + 1 \in DOMAIN q /\ t[n] = q[n + 1] /\ n + 1 # 1 /\ n \in Nat
  BY <1>4, <1>5
 <2>2. q[n + 1] \notin g /\ \A m \in DOMAIN q : q[m] = q[n + 1] => m = n + 1 BY <1>7, <2>1 DEF Alone
 <2>3. q[n + 1] # Head(q) BY <1>4, <2>1, <2>2
 <2>4. \A m \in DOMAIN t : m \in Nat /\ (t[m] = t[n] => m + 1 = n + 1) BY <1>4, <1>5, <2>1, <2>2
 <2> QED BY <2>1, <2>2, <2>3, <2>4
<1> QED BY <1>1, <1>2, <1>3, <1>6, <1>7 DEF t

LEMMA ServeStep == ASSUME AlertInv, NEW k \in Links, Serve(k) PROVE AlertInv'
<1>1. /\ UNCHANGED <<story, handled, alert, wire, missed, hub, allowed, drain, acked>> /\ link[k].st = "accepted"
      /\ link' = [link EXCEPT ![k] = IF CanRegister THEN [link[k] EXCEPT !.st = "open", !.queue = <<0>>]
                                     ELSE [link[k] EXCEPT !.st = "closed"]]
 BY DEF Serve, Ctl, AlertInv, AlertTypeOK
<1>2. link[k] \in LinkRecord /\ LinkOK(link[k]) /\ (story.who = "merchant" => ToldOK(link[k]))
 BY DEF AlertInv, AlertTypeOK
<1>3. CASE CanRegister
 <2>1. PICK L : L = [link[k] EXCEPT !.st = "open", !.queue = <<0>>] OBVIOUS
 <2>2. <<0>> \in Seq(Nat) OBVIOUS
 <2>3. L \in LinkRecord /\ L.st = "open" /\ L.queue = <<0>> BY <1>2, <2>1, <2>2 DEF LinkRecord
 <2>4. L.got = link[k].got /\ L.seen = link[k].seen /\ L.plan = link[k].plan /\ L.resume = link[k].resume
  BY <1>2, <2>1 DEF LinkRecord
 <2>5. L.got = {} /\ L.seen = {} /\ L.plan = <<>> /\ L.resume = "due" BY <1>1, <1>2, <2>4 DEF LinkOK
 <2>6. LinkOK(L) BY <2>3, <2>5 DEF LinkOK
 <2>7. ToldOK(L)
  <3>1. Range(<<0>>) = {0} /\ Alone(<<0>>, {}) BY DEF Range, Alone
  <3> QED BY <2>3, <2>5, <3>1, EmptyRange DEF ToldOK
 <2>8. ~Resumed(L) BY <2>5 DEF Resumed
 <2> QED BY <1>1, <1>3, <2>1, <2>3, <2>6, <2>7, <2>8, LinkMoves
<1>4. CASE ~CanRegister
 <2>1. PICK L : L = [link[k] EXCEPT !.st = "closed"] OBVIOUS
 <2>2. L \in LinkRecord /\ LinkOK(L) /\ L.st = "closed" /\ (ToldOK(link[k]) => ToldOK(L))
  BY <1>1, <1>2, <2>1, StatusFits
 <2>3. ~Resumed(L) BY <2>2 DEF Resumed
 <2> QED BY <1>1, <1>2, <1>4, <2>1, <2>2, <2>3, LinkMoves
<1> QED BY <1>3, <1>4

LEMMA ByIdFacts ==
    ASSUME NEW rows, rows \subseteq AlertIds, NEW q \in ById(rows)
    PROVE  q \in Seq(Nat) /\ Range(q) = rows
<1>1. IsFiniteSet(rows) BY RealtimeAssumption, FS_Subset
<1>2. Cardinality(rows) \in Nat BY <1>1, FS_CardinalityType
<1>3. PICK n \in Nat : n = Cardinality(rows) BY <1>2
<1>4. q \in [1..n -> rows] /\ Range(q) = rows BY <1>3 DEF ById
<1>5. q \in [1..n -> Nat] BY <1>4, RealtimeAssumption
<1> QED BY <1>3, <1>4, <1>5, SeqDef

LEMMA ReadResumeStep ==
    ASSUME AlertInv, NEW k \in Links, NEW after \in AlertIds \cup {0}, ReadResume(k, after)
    PROVE  AlertInv'
<1> DEFINE rows == ResumeRows(after)
           all == story.who = "merchant" \/ Cardinality(rows) > ResumeLimit
           P == IF story.who = "merchant" THEN {i \in {1, 2} : handled[IF i = 1 THEN "open" ELSE "end"] # "no"}
                ELSE IF all THEN Recorded ELSE {i \in Recorded : i \in acked \/ (i <= after /\ i \notin wire)}
<1>1. /\ UNCHANGED <<story, handled, alert, wire, missed, hub, allowed, drain, acked>>
      /\ link[k].st = "open" /\ link[k].resume = "due"
 BY DEF ReadResume
<1>2. PICK listed \in IF all THEN {<<0>>} ELSE ById(rows) :
         link' = [link EXCEPT ![k].resume = "busy", ![k].plan = Append(listed, 0), ![k].past = P]
 BY DEF ReadResume, Ctl
<1>3. rows \subseteq AlertIds /\ after \in Nat /\ AlertIds \subseteq Nat /\ Recorded \subseteq AlertIds
 BY RealtimeAssumption DEF ResumeRows, Recorded
<1>4. P \in SUBSET Nat
 <2>1. {i \in {1, 2} : handled[IF i = 1 THEN "open" ELSE "end"] # "no"} \subseteq Nat OBVIOUS
 <2>2. Recorded \subseteq Nat BY <1>3
 <2> QED BY <2>1, <2>2
<1>5. listed \in Seq(Nat) /\ (~all => Range(listed) = rows)
 <2>1. CASE all
  <3>1. listed = <<0>> BY <1>2, <2>1
  <3>2. <<0>> \in Seq(Nat) OBVIOUS
  <3> QED BY <2>1, <3>1, <3>2
 <2>2. CASE ~all
  BY <1>2, <1>3, <2>2, ByIdFacts
 <2> QED BY <2>1, <2>2
<1>6. all => listed = <<0>> BY <1>2
<1>7. \A i \in AlertIds : ToTell(i) /\ i \notin acked \cup wire => i \in P \cup Range(listed)
 <2> SUFFICES ASSUME NEW i \in AlertIds, ToTell(i), i \notin acked \cup wire PROVE i \in P \cup Range(listed)
  OBVIOUS
 <2>1. CASE story.who = "merchant"
  BY <2>1 DEF ToTell, EventOf
 <2>2. CASE story.who # "merchant"
  <3>1. story.who = "rider" BY <2>2 DEF AlertInv, AlertTypeOK
  <3>2. i \in Recorded /\ alert[i].live BY <3>1 DEF ToTell, Recorded
  <3>3. CASE all
   BY <2>2, <3>2, <3>3
  <3>4. CASE ~all
   <4>1. i \in Nat /\ i # 0 BY RealtimeAssumption
   <4>2. i > after => i \in rows BY <3>2 DEF ResumeRows
   <4>3. ~(i > after) => i <= after BY <1>3, <4>1
   <4>4. Range(listed) = rows /\ P = {j \in Recorded : j \in acked \/ (j <= after /\ j \notin wire)}
    BY <1>5, <2>2, <3>4
   <4> QED BY <3>2, <4>2, <4>3, <4>4
  <3> QED BY <3>3, <3>4
 <2> QED BY <2>1, <2>2
<1> HIDE DEF P, rows, all
<1>8. PICK plan : plan = Append(listed, 0) OBVIOUS
<1>9. plan \in Seq(Nat) /\ plan # <<>> /\ Range(plan) = Range(listed) \cup {0} BY <1>5, <1>8, AppendFacts
<1>10. link[k] \in LinkRecord /\ LinkOK(link[k]) /\ (story.who = "merchant" => ToldOK(link[k])) /\ DOMAIN link = Links
 BY DEF AlertInv, AlertTypeOK
<1>11. PICK L : L = [link[k] EXCEPT !.resume = "busy", !.plan = plan, !.past = P] OBVIOUS
<1>12. L \in LinkRecord /\ L.resume = "busy" /\ L.plan = plan /\ L.past = P
 BY <1>4, <1>9, <1>10, <1>11 DEF LinkRecord
<1>13. L.st = link[k].st /\ L.queue = link[k].queue /\ L.got = link[k].got /\ L.seen = link[k].seen
 BY <1>10, <1>11 DEF LinkRecord
<1>14. link' = [link EXCEPT ![k] = L] BY <1>2, <1>8, <1>10, <1>11
<1>15. LinkOK(L) BY <1>1, <1>9, <1>10, <1>12, <1>13 DEF LinkOK
<1>16. story.who = "merchant" => ToldOK(L)
 <2> SUFFICES ASSUME story.who = "merchant" PROVE ToldOK(L)
  OBVIOUS
 <2>1. listed = <<0>> BY <1>6 DEF all
 <2>2. Range(listed) = {0} BY <2>1 DEF Range
 <2> QED BY <1>9, <1>10, <1>12, <1>13, <2>2 DEF ToldOK
<1>17. \A i \in AlertIds : ToTell(i) /\ i \notin acked \cup wire => i \in Has(L) BY <1>7, <1>9, <1>12 DEF Has
<1> QED BY <1>1, <1>12, <1>13, <1>14, <1>15, <1>16, <1>17, LinkMoves

LEMMA QueueResumeStep == ASSUME AlertInv, NEW k \in Links, QueueResume(k) PROVE AlertInv'
<1>1. /\ UNCHANGED <<story, handled, alert, wire, missed, hub, allowed, drain, acked>>
      /\ link[k].st = "open" /\ link[k].resume = "busy"
 BY DEF QueueResume
<1>2. link[k] \in LinkRecord /\ LinkOK(link[k]) /\ (story.who = "merchant" => ToldOK(link[k])) /\ DOMAIN link = Links
 BY DEF AlertInv, AlertTypeOK
<1>3. CASE ~Free(k)
 <2>1. PICK L : L = [link[k] EXCEPT !.resume = "failed", !.plan = <<>>] OBVIOUS
 <2>0. <<>> \in Seq(Nat) OBVIOUS
 <2>2. L \in LinkRecord /\ L.resume = "failed" /\ L.plan = <<>> BY <1>2, <2>0, <2>1 DEF LinkRecord
 <2>3. L.st = link[k].st /\ L.queue = link[k].queue /\ L.got = link[k].got /\ L.seen = link[k].seen
  BY <1>2, <2>1 DEF LinkRecord
 <2>4. link' = [link EXCEPT ![k] = L] BY <1>3, <2>1 DEF QueueResume
 <2>5. LinkOK(L) BY <1>1, <1>2, <2>2, <2>3 DEF LinkOK
 <2>6. story.who = "merchant" => ToldOK(L) BY <1>2, <2>2, <2>3, EmptyRange DEF ToldOK
 <2>7. ~Resumed(L) BY <2>2 DEF Resumed
 <2> QED BY <1>1, <2>2, <2>3, <2>4, <2>5, <2>6, <2>7, LinkMoves
<1>4. CASE Free(k)
 <2>1. link[k].plan \in Seq(Nat) /\ link[k].queue \in Seq(Nat) /\ link[k].plan # <<>>
  BY <1>1, <1>2 DEF LinkRecord, LinkOK
 <2>2. PICK h, rest, more, x :
          /\ h = Head(link[k].plan) /\ rest = Tail(link[k].plan) /\ more = Append(link[k].queue, h)
          /\ x = IF Len(link[k].plan) = 1 THEN "done" ELSE "busy"
  OBVIOUS
 <2>3. /\ h \in Nat /\ rest \in Seq(Nat) /\ Range(link[k].plan) = Range(rest) \cup {h}
       /\ x \in {"done", "busy"} /\ (x = "done" => rest = <<>>) /\ (x = "busy" => rest # <<>>)
  BY <2>1, <2>2, TailFacts
 <2>4. more \in Seq(Nat) /\ Range(more) = Range(link[k].queue) \cup {h} BY <2>1, <2>2, <2>3, AppendFacts
 <2>5. PICK L : L = [link[k] EXCEPT !.queue = more, !.plan = rest, !.resume = x] OBVIOUS
 <2>6. L \in LinkRecord /\ L.resume = x /\ L.plan = rest /\ L.queue = more
  BY <1>2, <2>3, <2>4, <2>5 DEF LinkRecord
 <2>7. L.st = link[k].st /\ L.got = link[k].got /\ L.seen = link[k].seen /\ L.past = link[k].past
  BY <1>2, <2>5 DEF LinkRecord
 <2>8. link' = [link EXCEPT ![k] = L] BY <1>4, <2>2, <2>5 DEF QueueResume
 <2>9. LinkOK(L) BY <1>1, <1>2, <2>3, <2>6, <2>7 DEF LinkOK
 <2>10. story.who = "merchant" => ToldOK(L)
  <3> SUFFICES ASSUME story.who = "merchant" PROVE ToldOK(L)
   OBVIOUS
  <3>1. h = 0 /\ Range(rest) \subseteq {0} BY <1>2, <2>3 DEF ToldOK
  <3>2. Alone(more, link[k].got) BY <1>2, <2>1, <2>2, <2>3, <3>1, AppendFacts DEF ToldOK
  <3> QED BY <1>2, <2>4, <2>6, <2>7, <3>1, <3>2 DEF ToldOK
 <2>11. Resumed(link[k]) /\ \A i \in AlertIds : i \in Has(link[k]) => i \in Has(L)
  BY <1>1, <2>3, <2>4, <2>6, <2>7 DEF Resumed, Has
 <2> QED BY <1>1, <2>6, <2>7, <2>8, <2>9, <2>10, <2>11, LinkMoves
<1> QED BY <1>3, <1>4

LEMMA WriteFrameStep == ASSUME AlertInv, NEW k \in Links, WriteFrame(k) PROVE AlertInv'
<1>1. /\ UNCHANGED <<story, handled, alert, wire, missed, hub, allowed, drain, acked>>
      /\ link[k].st = "open" /\ link[k].queue # <<>>
 BY DEF WriteFrame
<1>2. /\ link[k] \in LinkRecord /\ LinkOK(link[k]) /\ (story.who = "merchant" => ToldOK(link[k])) /\ DOMAIN link = Links
      /\ link[k].queue \in Seq(Nat) /\ link[k].got \in SUBSET Nat
 BY DEF AlertInv, AlertTypeOK, LinkRecord
<1>3. PICK h, rest, more : h = Head(link[k].queue) /\ rest = Tail(link[k].queue) /\ more = link[k].got \cup ({h} \ {0})
 OBVIOUS
<1>4. /\ h \in Nat /\ rest \in Seq(Nat) /\ Range(link[k].queue) = Range(rest) \cup {h}
      /\ (Alone(link[k].queue, link[k].got) => Alone(rest, more))
 BY <1>1, <1>2, <1>3, TailFacts
<1>5. more \in SUBSET Nat BY <1>2, <1>3, <1>4
<1>6. PICK L : L = [link[k] EXCEPT !.queue = rest, !.got = more] OBVIOUS
<1>7. L \in LinkRecord /\ L.queue = rest /\ L.got = more BY <1>2, <1>4, <1>5, <1>6 DEF LinkRecord
<1>8. L.st = link[k].st /\ L.resume = link[k].resume /\ L.plan = link[k].plan /\ L.seen = link[k].seen /\ L.past = link[k].past
 BY <1>2, <1>6 DEF LinkRecord
<1>9. link' = [link EXCEPT ![k] = L] BY <1>2, <1>3, <1>6 DEF WriteFrame, Ctl
<1>10. LinkOK(L) BY <1>1, <1>2, <1>3, <1>7, <1>8 DEF LinkOK
<1>11. story.who = "merchant" => ToldOK(L) BY <1>2, <1>3, <1>4, <1>7, <1>8 DEF ToldOK
<1>12. Resumed(L) => Resumed(link[k]) /\ \A i \in AlertIds : i \in Has(link[k]) => i \in Has(L)
 BY <1>3, <1>4, <1>7, <1>8, RealtimeAssumption DEF Resumed, Has
<1> QED BY <1>1, <1>7, <1>8, <1>9, <1>10, <1>11, <1>12, LinkMoves

\* A frame is queued, or the connection ends because its queue is full.
LEMMA QueuedFits ==
    ASSUME AlertInv, NEW k \in Links, link[k].st = "open", NEW x \in Nat
    PROVE  /\ Queued(k, x) \in LinkRecord /\ LinkOK(Queued(k, x))
           /\ Queued(k, x).st = "closing" \/
              /\ Queued(k, x).st = "open" /\ Queued(k, x).resume = link[k].resume /\ Queued(k, x).plan = link[k].plan
              /\ Queued(k, x).got = link[k].got /\ Queued(k, x).past = link[k].past /\ Queued(k, x).seen = link[k].seen
              /\ Queued(k, x).queue = Append(link[k].queue, x)
              /\ Range(Queued(k, x).queue) = Range(link[k].queue) \cup {x}
           /\ (story.who = "merchant" /\ x = 0 => ToldOK(Queued(k, x)))
<1>1. /\ link[k] \in LinkRecord /\ LinkOK(link[k]) /\ (story.who = "merchant" => ToldOK(link[k]))
      /\ link[k].queue \in Seq(Nat)
 BY DEF AlertInv, AlertTypeOK, LinkRecord
<1>2. CASE ~Free(k)
 BY <1>2, StoppedFits DEF Queued
<1>3. CASE Free(k)
 <2>1. PICK more : more = Append(link[k].queue, x) OBVIOUS
 <2>2. more \in Seq(Nat) /\ Range(more) = Range(link[k].queue) \cup {x} BY <1>1, <2>1, AppendFacts
 <2>3. PICK L : L = [link[k] EXCEPT !.queue = more] OBVIOUS
 <2>4. L \in LinkRecord /\ L.queue = more BY <1>1, <2>2, <2>3 DEF LinkRecord
 <2>5. /\ L.st = link[k].st /\ L.resume = link[k].resume /\ L.plan = link[k].plan /\ L.seen = link[k].seen
       /\ L.past = link[k].past /\ L.got = link[k].got
  BY <1>1, <2>3 DEF LinkRecord
 <2>6. Queued(k, x) = L BY <1>3, <2>1, <2>3 DEF Queued
 <2>7. LinkOK(L) BY <1>1, <2>4, <2>5 DEF LinkOK
 <2>8. story.who = "merchant" /\ x = 0 => ToldOK(L)
  <3>1. x = 0 /\ Alone(link[k].queue, link[k].got) => Alone(more, link[k].got) BY <1>1, <2>1, AppendFacts
  <3> QED BY <1>1, <2>2, <2>4, <2>5, <3>1 DEF ToldOK
 <2> QED BY <2>1, <2>2, <2>4, <2>5, <2>6, <2>7, <2>8
<1> QED BY <1>2, <1>3

LEMMA ResumeFailedStep == ASSUME AlertInv, NEW k \in Links, ResumeFailed(k) PROVE AlertInv'
<1>1. /\ UNCHANGED <<story, handled, alert, wire, missed, hub, allowed, drain, acked>>
      /\ link[k].st = "open" /\ link[k].resume = "failed"
 BY DEF ResumeFailed
<1>2. /\ link[k] \in LinkRecord /\ LinkOK(link[k]) /\ (story.who = "merchant" => ToldOK(link[k]))
      /\ link[k].queue \in Seq(Nat)
 BY DEF AlertInv, AlertTypeOK, LinkRecord
<1>3. CASE ~Free(k)
 <2>1. PICK L : L = Stopped(k) OBVIOUS
 <2>2. L \in LinkRecord /\ LinkOK(L) /\ ToldOK(L) /\ L.st = "closing" BY <2>1, StoppedFits
 <2>3. ~Resumed(L) BY <2>2 DEF Resumed
 <2>4. link' = [link EXCEPT ![k] = L] BY <1>3, <2>1 DEF ResumeFailed
 <2> QED BY <1>1, <2>2, <2>3, <2>4, LinkMoves
<1>4. CASE Free(k)
 <2>1. PICK more : more = Append(link[k].queue, 0) OBVIOUS
 <2>2. /\ more \in Seq(Nat) /\ Range(more) = Range(link[k].queue) \cup {0}
       /\ (Alone(link[k].queue, link[k].got) => Alone(more, link[k].got))
  BY <1>2, <2>1, AppendFacts
 <2>3. PICK L : L = [link[k] EXCEPT !.queue = more, !.resume = "told"] OBVIOUS
 <2>4. L \in LinkRecord /\ L.queue = more /\ L.resume = "told" BY <1>2, <2>2, <2>3 DEF LinkRecord
 <2>5. L.st = link[k].st /\ L.plan = link[k].plan /\ L.seen = link[k].seen /\ L.got = link[k].got
  BY <1>2, <2>3 DEF LinkRecord
 <2>6. link' = [link EXCEPT ![k] = L] BY <1>4, <2>1, <2>3 DEF ResumeFailed, Ctl
 <2>7. LinkOK(L) BY <1>1, <1>2, <2>4, <2>5 DEF LinkOK
 <2>8. story.who = "merchant" => ToldOK(L) BY <1>2, <2>2, <2>4, <2>5 DEF ToldOK
 <2>9. ~Resumed(L) BY <2>4 DEF Resumed
 <2> QED BY <1>1, <2>4, <2>5, <2>6, <2>7, <2>8, <2>9, LinkMoves
<1> QED BY <1>3, <1>4

LEMMA AcknowledgeStep == ASSUME AlertInv, NEW k \in Links, NEW i \in AlertIds, Acknowledge(k, i) PROVE AlertInv'
<1>1. /\ UNCHANGED <<story, handled, alert, wire, missed, hub, allowed, drain>> /\ acked \subseteq acked'
      /\ link[k].st = "open" /\ story.who = "rider"
 BY DEF Acknowledge
<1>2. link[k] \in LinkRecord /\ LinkOK(link[k]) /\ link[k].queue \in Seq(Nat) /\ DOMAIN link = Links
 BY DEF AlertInv, AlertTypeOK, LinkRecord
<1>3. PICK more : more = IF Free(k) THEN Append(link[k].queue, 0) ELSE link[k].queue OBVIOUS
<1>4. more \in Seq(Nat) /\ Range(link[k].queue) \subseteq Range(more) BY <1>2, <1>3, AppendFacts
<1>5. PICK L : L = [link[k] EXCEPT !.queue = more] OBVIOUS
<1>6. L \in LinkRecord /\ L.queue = more BY <1>2, <1>4, <1>5 DEF LinkRecord
<1>7. /\ L.st = link[k].st /\ L.resume = link[k].resume /\ L.plan = link[k].plan /\ L.seen = link[k].seen
      /\ L.past = link[k].past /\ L.got = link[k].got
 BY <1>2, <1>5 DEF LinkRecord
<1>8. link' = [link EXCEPT ![k] = L] BY <1>2, <1>3, <1>5 DEF Acknowledge, Ctl
<1>9. LinkOK(L) BY <1>1, <1>2, <1>6, <1>7 DEF LinkOK
<1>10. Resumed(L) => Resumed(link[k]) /\ \A j \in AlertIds : j \in Has(link[k]) => j \in Has(L)
 BY <1>4, <1>6, <1>7 DEF Resumed, Has
<1> QED BY <1>1, <1>6, <1>7, <1>8, <1>9, <1>10, LinkMoves

\* The hub speaks to all connections: they keep what they have, and those on the list of
\* the wake-up it was at have it.
LEMMA LinksMove ==
    ASSUME AlertInv, UNCHANGED <<story, handled, alert, wire, missed, allowed, acked>>,
           hub' \in [at : AlertIds \cup {0}, to : SUBSET Links], link' \in [Links -> LinkRecord],
           \A k \in Links : /\ LinkOK(link'[k]) /\ (story.who = "merchant" => ToldOK(link'[k]))
                            /\ link'[k].st = link[k].st \/ (link'[k].st = "closing" /\ link[k].st = "open")
                            /\ Resumed(link'[k]) =>
                                  /\ Resumed(link[k])
                                  /\ \A i \in AlertIds : i \in Has(link[k]) => i \in Has(link'[k])
                                  /\ hub' = hub \/ (\A i \in AlertIds : ToTell(i) /\ hub.at = i /\ k \in hub.to
                                                       => i \in Has(link'[k])),
           drain' = "stopped" => drain = "stopped" \/ \A k \in Links : link'[k].st # "open"
    PROVE  AlertInv'
<1>1. AlertTypeOK' BY DEF AlertInv, AlertTypeOK
<1>2. CaughtUp'
 <2> SUFFICES ASSUME NEW k \in Links, NEW i \in AlertIds,
                     Resumed(link'[k]), ToTell(i), i \notin wire \cup missed \cup acked
              PROVE  i \in Has(link'[k]) \/ (hub'.at = i /\ k \in hub'.to)
  BY DEF CaughtUp, ToTell
 <2>1. i \in Has(link[k]) \/ (hub.at = i /\ k \in hub.to) BY DEF AlertInv, CaughtUp
 <2> QED BY <2>1
<1>3. Cardinality(Registered') <= MaxLinks
 <2>1. CASE Links = {}
  <3>1. Registered' = {} BY <2>1 DEF Registered
  <3>2. Cardinality(Registered') = 0 BY <3>1, FS_EmptySet
  <3> QED BY <3>2, RealtimeAssumption
 <2>2. CASE Links # {}
  <3>1. PICK k \in Links : TRUE BY <2>2
  <3>2. \A j \in Links : link'[j].st \in {"open", "closing"} => link[j].st \in {"open", "closing"} OBVIOUS
  <3> QED BY <3>2, BoundKept
 <2> QED BY <2>1, <2>2
<1>4. drain' = "stopped" => \A k \in Links : link'[k].st # "open" BY DEF AlertInv, HubHoldsItsBounds
<1>5. HubHoldsItsBounds' BY <1>3, <1>4 DEF HubHoldsItsBounds
<1> QED BY <1>1, <1>2, <1>5 DEF AlertInv

LEMMA NoHubFits == [at |-> 0, to |-> {}] \in [at : AlertIds \cup {0}, to : SUBSET Links]
OBVIOUS

LEMMA DeliverStep == ASSUME AlertInv, Deliver PROVE AlertInv'
<1>1. /\ UNCHANGED <<story, handled, alert, wire, missed, allowed, acked, drain>>
      /\ hub.at # 0 /\ story.who = "rider" /\ hub' = [at |-> 0, to |-> {}]
 BY DEF Deliver
<1>2. hub.at \in AlertIds /\ hub.at \in Nat /\ link \in [Links -> LinkRecord] /\ \A k \in Links : LinkOK(link[k])
 BY <1>1, RealtimeAssumption DEF AlertInv, AlertTypeOK
<1>3. hub' \in [at : AlertIds \cup {0}, to : SUBSET Links] BY <1>1, NoHubFits
<1>4. CASE ~alert[hub.at].live
 <2>1. link' = link BY <1>4 DEF Deliver
 <2>2. ~ToTell(hub.at) BY <1>1, <1>4 DEF ToTell
 <2> QED BY <1>1, <1>2, <1>3, <2>1, <2>2, LinksMove
<1>5. CASE alert[hub.at].live
 <2>1. link' = [k \in Links |-> IF k \in hub.to /\ OpenLink(k) THEN Queued(k, hub.at) ELSE link[k]]
  BY <1>5 DEF Deliver
 <2>2. \A k \in Links :
          \/ link'[k] = link[k] /\ (k \in hub.to => link[k].st # "open")
          \/ link[k].st = "open" /\ link'[k] = Queued(k, hub.at)
  BY <2>1 DEF OpenLink
 <2>3. ASSUME NEW k \in Links
       PROVE  /\ link'[k] \in LinkRecord /\ LinkOK(link'[k])
              /\ link'[k].st = link[k].st \/ (link'[k].st = "closing" /\ link[k].st = "open")
              /\ Resumed(link'[k]) => /\ Resumed(link[k])
                                      /\ \A i \in AlertIds : i \in Has(link[k]) => i \in Has(link'[k])
                                      /\ k \in hub.to => hub.at \in Has(link'[k])
  <3>1. CASE link'[k] = link[k] /\ (k \in hub.to => link[k].st # "open")
   BY <1>2, <3>1 DEF Resumed
  <3>2. CASE link[k].st = "open" /\ link'[k] = Queued(k, hub.at)
   <4>0. PICK x \in Nat : x = hub.at BY <1>2
   <4>1. PICK L : L = Queued(k, x) OBVIOUS
   <4>5. L = link'[k] BY <3>2, <4>0, <4>1
   <4>2. /\ L \in LinkRecord /\ LinkOK(L)
         /\ L.st = "closing" \/ /\ L.st = "open" /\ L.resume = link[k].resume /\ L.plan = link[k].plan
                                /\ L.got = link[k].got /\ L.past = link[k].past
                                /\ Range(L.queue) = Range(link[k].queue) \cup {x}
    BY <3>2, <4>1, QueuedFits
   <4>3. Resumed(L) => /\ Resumed(link[k])
                       /\ \A i \in AlertIds : i \in Has(link[k]) => i \in Has(L)
                       /\ hub.at \in Has(L)
    BY <3>2, <4>0, <4>2 DEF Resumed, Has
   <4> QED BY <3>2, <4>2, <4>3, <4>5
  <3> QED BY <2>2, <3>1, <3>2
 <2>4. link' \in [Links -> LinkRecord] BY <2>1, <2>3
 <2> QED BY <1>1, <1>3, <2>3, <2>4, LinksMove
<1> QED BY <1>4, <1>5

\* A merchant's connection hears of an event it has not seen.
Heard(k, x) == [Queued(k, x) EXCEPT !.seen = Queued(k, x).seen \cup {x}]

LEMMA HeardOf ==
    ASSUME AlertInv, story.who = "merchant", NEW k \in Links, link[k].st = "open",
           NEW x \in Nat \ {0}, x \notin link[k].seen, NEW L, L = Heard(k, x)
    PROVE  /\ L \in LinkRecord /\ LinkOK(L) /\ ToldOK(L)
           /\ L.st = "closing" \/ /\ L.st = "open" /\ L.resume = link[k].resume /\ L.plan = link[k].plan
                                  /\ L.got = link[k].got /\ L.past = link[k].past
                                  /\ Range(L.queue) = Range(link[k].queue) \cup {x}
<1>1. PICK Q : Q = Queued(k, x) OBVIOUS
<1>2. /\ Q \in LinkRecord /\ LinkOK(Q)
      /\ Q.st = "closing" \/
           /\ Q.st = "open" /\ Q.resume = link[k].resume /\ Q.plan = link[k].plan
           /\ Q.got = link[k].got /\ Q.past = link[k].past /\ Q.seen = link[k].seen
           /\ Q.queue = Append(link[k].queue, x) /\ Range(Q.queue) = Range(link[k].queue) \cup {x}
 BY <1>1, QueuedFits
<1>3. /\ link[k] \in LinkRecord /\ ToldOK(link[k]) /\ link[k].queue \in Seq(Nat) /\ Q.seen \in SUBSET Nat
 BY <1>2 DEF AlertInv, AlertTypeOK, LinkRecord
<1>4. PICK S \in SUBSET Nat : S = Q.seen \cup {x} BY <1>3
<1>5. L = [Q EXCEPT !.seen = S] BY <1>1, <1>4 DEF Heard
<1>6. L \in LinkRecord /\ L.seen = S BY <1>2, <1>5 DEF LinkRecord
<1>7. /\ L.st = Q.st /\ L.resume = Q.resume /\ L.plan = Q.plan /\ L.queue = Q.queue
      /\ L.past = Q.past /\ L.got = Q.got
 BY <1>2, <1>5 DEF LinkRecord
<1>8. LinkOK(L) /\ ToldOK(L)
 <2>1. CASE Q.st = "closing"
  <3>1. Queued(k, x) = Stopped(k)
   <4>1. CASE Free(k)
    <5>1. Queued(k, x) = [link[k] EXCEPT !.queue = Append(@, x)] BY <4>1 DEF Queued
    <5>2. Queued(k, x).st = "open" BY <1>3, <5>1 DEF LinkRecord
    <5> QED BY <1>1, <2>1, <5>2
   <4>2. CASE ~Free(k)
    BY <4>2 DEF Queued
   <4> QED BY <4>1, <4>2
  <3>2. ToldOK(Q) BY <1>1, <3>1, StoppedFits
  <3>3. ToldOK(L) BY <1>7, <2>1, <3>2 DEF ToldOK
  <3>4. LinkOK(L) BY <1>2, <1>7, <2>1 DEF LinkOK
  <3> QED BY <3>3, <3>4
 <2>2. CASE Q.st # "closing"
  <3>1. x \notin link[k].got \cup Range(link[k].queue) BY <1>3 DEF ToldOK
  <3>2. Alone(Append(link[k].queue, x), link[k].got) BY <1>3, <3>1, AppendFacts DEF ToldOK
  <3>3. ToldOK(L) BY <1>2, <1>3, <1>4, <1>6, <1>7, <2>2, <3>2 DEF ToldOK
  <3>4. LinkOK(L) BY <1>2, <1>7, <2>2 DEF LinkOK
  <3> QED BY <3>3, <3>4
 <2> QED BY <2>1, <2>2
<1> QED BY <1>2, <1>6, <1>7, <1>8

LEMMA DeliverMerchantStep == ASSUME AlertInv, DeliverMerchant PROVE AlertInv'
<1>1. /\ UNCHANGED <<story, handled, alert, wire, missed, allowed, acked, drain>>
      /\ hub.at # 0 /\ story.who = "merchant" /\ hub' = [at |-> 0, to |-> {}]
 BY DEF DeliverMerchant
<1>2. /\ hub.at \in AlertIds /\ hub.at \in Nat \ {0} /\ link \in [Links -> LinkRecord]
      /\ \A k \in Links : LinkOK(link[k]) /\ ToldOK(link[k])
 BY <1>1, RealtimeAssumption DEF AlertInv, AlertTypeOK
<1>3. hub' \in [at : AlertIds \cup {0}, to : SUBSET Links] BY <1>1, NoHubFits
<1>4. CASE ~allowed
 <2>1. link' = link BY <1>4 DEF DeliverMerchant
 <2>2. ~ToTell(hub.at) BY <1>1, <1>4 DEF ToTell
 <2> QED BY <1>1, <1>2, <1>3, <2>1, <2>2, LinksMove
<1>5. CASE allowed
 <2>0. PICK x \in Nat \ {0} : x = hub.at BY <1>2
 <2>1. link' = [k \in Links |-> IF k \in hub.to /\ OpenLink(k) /\ x \notin link[k].seen
                                THEN [Queued(k, x) EXCEPT !.seen = @ \cup {x}] ELSE link[k]]
  BY <1>5, <2>0 DEF DeliverMerchant
 <2>3. ASSUME NEW k \in Links
       PROVE  /\ link'[k] \in LinkRecord /\ LinkOK(link'[k]) /\ ToldOK(link'[k])
              /\ link'[k].st = link[k].st \/ (link'[k].st = "closing" /\ link[k].st = "open")
              /\ Resumed(link'[k]) => /\ Resumed(link[k])
                                      /\ \A i \in AlertIds : i \in Has(link[k]) => i \in Has(link'[k])
                                      /\ k \in hub.to => hub.at \in Has(link'[k])
  <3>1. CASE k \in hub.to /\ OpenLink(k) /\ x \notin link[k].seen
   <4>1. PICK L : L = Heard(k, x) OBVIOUS
   <4>2. L = link'[k] BY <2>1, <3>1, <4>1 DEF Heard
   <4>3. /\ L \in LinkRecord /\ LinkOK(L) /\ ToldOK(L)
         /\ L.st = "closing" \/ /\ L.st = "open" /\ L.resume = link[k].resume /\ L.plan = link[k].plan
                                /\ L.got = link[k].got /\ L.past = link[k].past
                                /\ Range(L.queue) = Range(link[k].queue) \cup {x}
    <5>1. link[k].st = "open" /\ x \notin link[k].seen /\ story.who = "merchant"
     BY <1>1, <3>1 DEF OpenLink
    <5> QED BY <2>0, <4>1, <5>1, HeardOf
   <4>4. Resumed(L) => /\ Resumed(link[k])
                       /\ \A i \in AlertIds : i \in Has(link[k]) => i \in Has(L)
                       /\ hub.at \in Has(L)
    BY <2>0, <3>1, <4>3 DEF Resumed, Has, OpenLink
   <4> QED BY <3>1, <4>2, <4>3, <4>4 DEF OpenLink
  <3>2. CASE ~(k \in hub.to /\ OpenLink(k) /\ x \notin link[k].seen)
   <4>1. link'[k] = link[k] BY <2>1, <3>2
   <4>2. Resumed(link[k]) /\ k \in hub.to => x \in Has(link[k])
    <5>1. link[k].st = "open" /\ x \in link[k].seen => x \in link[k].got \cup Range(link[k].queue)
     BY <1>2 DEF ToldOK
    <5> QED BY <3>2, <5>1 DEF Resumed, OpenLink, Has
   <4> QED BY <1>2, <2>0, <4>1, <4>2
  <3> QED BY <3>1, <3>2
 <2>4. link' \in [Links -> LinkRecord] BY <2>1, <2>3
 <2> QED BY <1>1, <1>3, <2>3, <2>4, LinksMove
<1> QED BY <1>4, <1>5

LEMMA ShutdownStep == ASSUME AlertInv, Shutdown \/ ShutdownEnds PROVE AlertInv'
<1>1. UNCHANGED <<story, handled, alert, wire, missed, allowed, acked, hub>> BY DEF Shutdown, ShutdownEnds
<1>2. /\ hub' \in [at : AlertIds \cup {0}, to : SUBSET Links] /\ link \in [Links -> LinkRecord]
      /\ \A k \in Links : LinkOK(link[k]) /\ (story.who = "merchant" => ToldOK(link[k]))
 BY <1>1 DEF AlertInv, AlertTypeOK
<1>3. CASE Shutdown
 <2>1. link' = [k \in Links |-> IF link[k].st = "open" THEN Queued(k, 0) ELSE link[k]] /\ drain' = "draining"
  BY <1>3 DEF Shutdown, OpenLink, Ctl
 <2>2. ASSUME NEW k \in Links
       PROVE  /\ link'[k] \in LinkRecord /\ LinkOK(link'[k]) /\ (story.who = "merchant" => ToldOK(link'[k]))
              /\ link'[k].st = link[k].st \/ (link'[k].st = "closing" /\ link[k].st = "open")
              /\ Resumed(link'[k]) => /\ Resumed(link[k])
                                      /\ \A i \in AlertIds : i \in Has(link[k]) => i \in Has(link'[k])
  <3>1. CASE link[k].st = "open"
   <4>1. PICK L : L = Queued(k, 0) OBVIOUS
   <4>2. L = link'[k] BY <2>1, <3>1, <4>1
   <4>3. /\ L \in LinkRecord /\ LinkOK(L) /\ (story.who = "merchant" => ToldOK(L))
         /\ L.st = "closing" \/ /\ L.st = "open" /\ L.resume = link[k].resume /\ L.plan = link[k].plan
                                /\ L.got = link[k].got /\ L.past = link[k].past
                                /\ Range(L.queue) = Range(link[k].queue) \cup {0}
    BY <3>1, <4>1, QueuedFits
   <4>4. Resumed(L) => /\ Resumed(link[k])
                       /\ \A i \in AlertIds : i \in Has(link[k]) => i \in Has(L)
    BY <3>1, <4>3 DEF Resumed, Has
   <4> QED BY <3>1, <4>2, <4>3, <4>4
  <3>2. CASE link[k].st # "open"
   BY <1>2, <2>1, <3>2
  <3> QED BY <3>1, <3>2
 <2>3. link' \in [Links -> LinkRecord] BY <2>1, <2>2
 <2> QED BY <1>1, <1>2, <2>1, <2>2, <2>3, LinksMove
<1>4. CASE ShutdownEnds
 <2>1. link' = [k \in Links |-> IF link[k].st = "open" THEN Stopped(k) ELSE link[k]]
  BY <1>4 DEF ShutdownEnds, OpenLink
 <2>2. ASSUME NEW k \in Links
       PROVE  /\ link'[k] \in LinkRecord /\ LinkOK(link'[k]) /\ (story.who = "merchant" => ToldOK(link'[k]))
              /\ link'[k].st = link[k].st \/ (link'[k].st = "closing" /\ link[k].st = "open")
              /\ link'[k].st # "open"
  BY <1>2, <2>1, StoppedFits
 <2>3. link' \in [Links -> LinkRecord] BY <2>1, <2>2
 <2>4. \A k \in Links : ~Resumed(link'[k]) BY <2>2 DEF Resumed
 <2> QED BY <1>1, <1>2, <2>2, <2>3, <2>4, LinksMove
<1> QED BY <1>3, <1>4

LEMMA AlertKeeps == AlertInv /\ RealtimeNext => AlertInv'
<1> SUFFICES ASSUME AlertInv, RealtimeNext PROVE AlertInv'
 OBVIOUS
<1>1. ASSUME NEW k \in Links, LinkStep(k) PROVE AlertInv'
 BY <1>1, StatusStep, ServeStep, QueueResumeStep, ResumeFailedStep, WriteFrameStep, StopsStep, ReadResumeStep
    DEF LinkStep
<1>2. ASSUME NEW i \in AlertIds,
             RelayAlert(i) \/ DueAgain(i) \/ OfferIsOver(i) \/ CleanUp(i) \/ TakeWakeup(i) \/ WakeupLost(i)
      PROVE  AlertInv'
 BY <1>2, RelayAlertStep, RowStep, TakeWakeupStep, AroundStep
<1>3. ASSUME NEW e \in {"open", "end"}, Handle(e) \/ AfterCommitRider(e) \/ AfterCommitMerchant(e) PROVE AlertInv'
 BY <1>3, HandleStep, AfterCommitRiderStep, AfterCommitMerchantStep
<1> QED
 BY <1>1, <1>2, <1>3, ClaimAlertsStep, AroundStep, DeliverStep, DeliverMerchantStep, ShutdownStep,
    StatusStep, StopsStep, AcknowledgeStep DEF RealtimeNext

LEMMA AccessRests == ASSUME AccessInv, UNCHANGED accessVars PROVE AccessInv'
<1>1. acct' = acct /\ staff' = staff /\ session' = session /\ entry' = entry BY DEF accessVars
<1> QED BY <1>1 DEF AccessInv, AccessTypeOK, TokensFresh, Fresh, LineageOK

LEMMA AlertRests == ASSUME AlertInv, UNCHANGED rtvars PROVE AlertInv'
<1>1. /\ UNCHANGED <<story, hub, link, acked, drain, handled, alert, wire, missed, allowed>>
 BY DEF rtvars
<1>2. /\ DOMAIN handled' = {"open", "end"} /\ DOMAIN alert' = AlertIds
      /\ \A i \in AlertIds : DOMAIN alert'[i] = AlertFields
 BY <1>1 DEF AlertInv, AlertTypeOK
<1>3. \A i \in AlertIds : ToTell(i)' => ToTell(i) BY <1>1 DEF ToTell
<1> QED BY <1>1, <1>2, <1>3, RowsMove

----------------------------------------
(* The money that goes back for tickets. *)

LEMMA MoneyFollowsTickets == ASSUME TicketsInv, MoneyInv PROVE MoneyForTickets
<1>1. \A b \in Payables : given[b] # <<>> => comp[b] # <<>>
 <2> SUFFICES ASSUME NEW b \in Payables, comp[b] = <<>> PROVE given[b] = <<>>
  OBVIOUS
 <2>1. PICK S : given[b] \in Seq(S) BY DEF MoneyInv, RowsOK
 <2>2. Len(given[b]) <= Len(comp[b]) /\ Len(comp[b]) = 0 BY DEF MoneyInv, RowsOK
 <2> QED BY <2>1, <2>2
<1>2. ASSUME NEW p \in Purchases
      PROVE  /\ (given[p] # <<>> => \A l \in Lots : lot[l].from = <<p>> => lot[l].avail = 0 /\ ~lot[l].used)
             /\ (purchase[p].status = "refunded" => given[p][Current(p)] = "success")
 <2>1. PurchaseHead(p) /\ PurchaseLine(p) BY <1>2 DEF TicketsInv, PurchasesInv
 <2>2. ASSUME given[p] # <<>>, NEW l \in Lots, lot[l].from = <<p>> PROVE lot[l].avail = 0 /\ ~lot[l].used
  <3>1. purchase[p].status \in RepaidPurchase BY <1>1, <1>2, <2>2 DEF MoneyInv, Payables, RepaidPurchase
  <3>2. l \in Issued
   <4>1. NoLot.from = <<>> /\ <<p>> # <<>> BY DEF NoLot
   <4> QED BY <2>2, <4>1 DEF Issued
  <3>3. (l = purchase[p].lot /\ l # 0) \/ purchase[p].lot = 0 BY <2>1, <2>2, <3>2 DEF PurchaseLine
  <3>4. refund[p].kind \in {"user_unused", "issuance_compensation"} BY <2>1, <3>1 DEF PurchaseHead
  <3>5. l # 0 BY LotsAssumption
  <3> QED BY <2>1, <2>2, <3>2, <3>3, <3>4, <3>5 DEF PurchaseHead, PurchaseLine
 <2> QED BY <2>1, <2>2 DEF PurchaseHead, Current
<1>3. ASSUME NEW n \in Renewals
      PROVE  /\ (given[n] # <<>> => renewal[n].status \in {"compensating_refund", "refund_exception", "refunded"})
             /\ (renewal[n].status = "refunded" => given[n][Current(n)] = "success")
 <2>1. RenewalPay(n) BY <1>3 DEF TicketsInv, RenewalsInv
 <2> QED BY <1>1, <1>3, <2>1 DEF MoneyInv, Payables, RenewalPay, Current
<1> QED BY <1>2, <1>3 DEF MoneyForTickets

----------------------------------------
(* Wine tickets begin with none, or with two lots of one customer. *)

LEMMA SpentInitially == TicketPairsInit => SpentInv
BY SpentBegins DEF TicketPairsInit

LEMMA SpentKeeps == ASSUME SpentInv, TicketPairsNext PROVE SpentInv'
BY SpentTurn DEF TicketPairsNext, AnyTurn

LEMMA Seeded ==
    ASSUME NEW c, NEW total \in Nat \ {0}, NEW exp \in Int
    PROVE  \E new : /\ IssuedAs(seeded(c, total, exp), new, "purchase_issue", "earlier")
                    /\ new.exp = new.orig /\ new.renewals = 0 /\ new.from = <<>>
<1>1. PICK new : new = [NoLot EXCEPT !.owner = c, !.total = total, !.orig = exp, !.exp = exp] OBVIOUS
<1>2. DOMAIN new = LotFields /\ new.total = total /\ new.exp = exp /\ new.orig = exp /\ new.renewals = 0 /\ new.from = <<>>
 BY <1>1 DEF NoLot, LotFields
<1>3. seeded(c, total, exp) = Issue(new, "purchase_issue", "earlier") BY <1>1, Zenon DEF seeded
<1>4. IssuedAs(Issue(new, "purchase_issue", "earlier"), new, "purchase_issue", "earlier") BY <1>2, IssueFacts
<1> QED BY <1>2, <1>3, <1>4, Zenon

LEMMA SeedsBegun == \A l : Begun(l, seeds)
<1> SUFFICES ASSUME NEW l PROVE Begun(l, seeds)
 OBVIOUS
<1>1. DOMAIN seeds = {1, 2} BY DEF seeds
<1>2. CASE l \notin {1, 2}
 BY <1>1, <1>2 DEF Begun
<1>3. CASE l = 1
 <2>1. seeds[l] = seeded("c1", 2, 2) BY <1>3, Zenon DEF seeds
 <2> QED BY <2>1, Seeded DEF Begun
<1>4. CASE l = 2
 <2>1. seeds[l] = seeded("c1", 1, 5) BY <1>4 DEF seeds
 <2> QED BY <2>1, Seeded DEF Begun
<1> QED BY <1>2, <1>3, <1>4

LEMMA TicketsInitially == TicketPairsInit => TicketsInv
<1> SUFFICES ASSUME TicketPairsInit PROVE TicketsInv
 OBVIOUS
<1>1. PICK none : none = <<>> OBVIOUS
<1>2. \A l : Begun(l, none)
 <2>1. DOMAIN none = {} BY <1>1
 <2> QED BY <2>1 DEF Begun
<1>3. TicketsInit(none, 3) \/ TicketsInit(seeds, 3) BY <1>1, Zenon DEF TicketPairsInit
<1> QED BY <1>2, <1>3, SeedsBegun, TicketsBegin

LEMMA TicketsKeep == ASSUME TicketsInv, SpentInv, TicketPairsNext PROVE TicketsInv'
BY TicketsTurn DEF TicketPairsNext, AnyTurn, SpentInv

LEMMA TicketVarsRest == UNCHANGED ticketVars => UNCHANGED tkvars
BY DEF ticketVars

----------------------------------------
(* The platform: one part moves, the others rest. *)

PlatformInv ==
    /\ (part = "processes" => RuntimeInv)
    /\ LeaseInv /\ ApplyInv /\ SignInv /\ TimesOK /\ IdentityInv /\ AccessInv /\ AlertInv /\ SpentInv /\ TicketsInv

LEMMA PlatformInitially == PlatformInit => PlatformInv
BY RuntimeInitially, LeaseInitially, ApplyInitially, SignInitially, IdentityInitially, AccessInitially,
   AlertInitially, SpentInitially, TicketsInitially DEF PlatformInit, PlatformInv

LEMMA RuntimeRests == ASSUME RuntimeInv, UNCHANGED runtimeVars PROVE RuntimeInv'
BY DEF RuntimeInv, ProcessRuns, runtimeVars

LEMMA LeaseRests == ASSUME LeaseInv, UNCHANGED leaseVars PROVE LeaseInv'
<1>1. moment' = moment /\ node' = node /\ process' = process BY DEF leaseVars
<1> QED BY <1>1 DEF LeaseInv, LeaseTypeOK, Timely, Until, Alive, Lame, Pending

LEMMA ApplyRests == ASSUME ApplyInv, UNCHANGED applyVars PROVE ApplyInv'
BY DEF ApplyInv, applyVars

LEMMA SignRests == ASSUME SignInv, TimesOK, UNCHANGED signVars PROVE SignInv' /\ TimesOK'
<1>1. SignTypeOK' /\ PhonesOK' BY DEF SignInv, SignTypeOK, PhonesOK, signVars
<1>2. OwnersOK' /\ CodesOK' BY DEF SignInv, OwnersOK, Owned, CodesOK, signVars
<1>3. TimesOK' BY DEF TimesOK, signVars
<1> QED BY <1>1, <1>2, <1>3 DEF SignInv

LEMMA IdentityRests == ASSUME IdentityInv, UNCHANGED identityVars PROVE IdentityInv'
<1>1. SessionsOK' /\ RealnameOK' BY DEF IdentityInv, SessionsOK, RealnameOK, upsertCurrent, identityVars
<1>2. CallsOK' BY DEF IdentityInv, CallsOK, NoQuery, Unknown, NoEnd, identityVars
<1> QED BY <1>1, <1>2 DEF IdentityInv

LEMMA PlatformKeeps == PlatformInv /\ [PlatformNext]_platformVars => PlatformInv'
<1> SUFFICES ASSUME PlatformInv, [PlatformNext]_platformVars PROVE PlatformInv'
 OBVIOUS
<1> USE RuntimeRests, LeaseRests, ApplyRests, SignRests, IdentityRests, AccessRests, AlertRests, SpentRests, TicketsRest, TicketVarsRest
        DEF PlatformInv
<1>1. CASE TicketsPart
 BY <1>1, SpentKeeps, TicketsKeep DEF TicketsPart
<1>2. CASE SignInPart
 BY <1>2, SignInKeeps DEF SignInPart
<1>3. CASE RidersPart
 BY <1>3, ApplyKeeps DEF RidersPart
<1>4. CASE IdentityPart
 BY <1>4, IdentityKeeps DEF IdentityPart
<1>5. CASE ProcessesPart
 BY <1>5, RuntimeKeeps DEF ProcessesPart
<1>6. CASE NodesPart
 BY <1>6, LeaseKeeps DEF NodesPart
<1>7. CASE UNCHANGED platformVars
 BY <1>7 DEF platformVars
<1>8. CASE AccessPart
 BY <1>8, AccessKeeps DEF AccessPart
<1>9. CASE AlertsPart
 BY <1>9, AlertKeeps DEF AlertsPart
<1> QED BY <1>1, <1>2, <1>3, <1>4, <1>5, <1>6, <1>7, <1>8, <1>9 DEF PlatformNext

\* Whatever the configuration that passes validation and however processes start and stop:
\* what it enables is run by the processes that are up, each shared duty by one owner; and
\* however leases are acquired, refreshed, lost and answered late, no two processes draw ids
\* of one node.
THEOREM ProcessesInPlaceAlways == PlatformSpec => []ProcessesInPlace
<1>1. PlatformInv => ProcessesInPlace BY RuntimeInvImplies, LeaseInvImplies DEF PlatformInv, ProcessesInPlace
<1> QED BY PlatformInitially, PlatformKeeps, <1>1, PTL DEF PlatformSpec

\* For any number of open ids, phones, devices, applicants, reviewers and verification
\* sessions: a sign-in ends with the customer of that WeChat user and that phone, an
\* application is decided as it was read by whoever decided it, and who may buy
\* age-restricted goods was found adult in a session nobody has refused since.
THEOREM PeopleAreKnownAlways == PlatformSpec => []PeopleAreKnown
<1>1. PlatformInv => PeopleAreKnown
 BY SignInvImplies, ApplyInvImplies, IdentityInvImplies DEF PlatformInv, PeopleAreKnown
<1> QED BY PlatformInitially, PlatformKeeps, <1>1, PTL DEF PlatformSpec

\* Whatever administrators change while logins, refreshes and logouts are under way, an
\* accepted access token carries the user's present role and shops, and a refresh token makes
\* one session; and for any number of connections, alerts, faults and repeated wake-ups:
\* nothing falls between catching up and being woken, a merchant's connection is told of an
\* event once, and the hub keeps its bounds through tickets, races and shutdown.
THEOREM RightsAreCurrentAlways == PlatformSpec => []RightsAreCurrent
<1>1. PlatformInv => RightsAreCurrent BY AccessInvImplies, AlertInvImplies DEF PlatformInv, RightsAreCurrent
<1> QED BY PlatformInitially, PlatformKeeps, <1>1, PTL DEF PlatformSpec

\* For any number of gifts, tokens, purchases, renewals and refunds tried: a gift is opened
\* by one token, once, and no token outlives it; of all the refunds tried for a payment the
\* provider carries out one at most, whatever it answers, how late and how often; and it is
\* asked for none as long as what was bought can be used.
THEOREM SpentOnceAlways == PlatformSpec => []SpentOnce
<1>1. PlatformInv => SpentOnce BY SpentInvImplies, MoneyFollowsTickets DEF PlatformInv, SpentInv, SpentOnce
<1> QED BY PlatformInitially, PlatformKeeps, <1>1, PTL DEF PlatformSpec

\* For any number of lots, customers, gifts, redemptions, renewals, purchases and delivery
\* windows, and whatever the businesses do to one another's lots: every ticket of a lot is
\* available, held, used up or expired and the rows of its ledger say so; a gift, a renewal, a
\* redemption, a purchase and its refund agree with the lots they speak of; windows and quotas
\* are taken as often as they are used. The nightly reconciliation finds nothing.
THEOREM LotsReconcileAlways == PlatformSpec => []LotsReconcile
<1>1. PlatformInv => LotsReconcile BY TicketsReconciled DEF PlatformInv, SpentInv, LotsReconcile
<1> QED BY PlatformInitially, PlatformKeeps, <1>1, PTL DEF PlatformSpec

===========================================================================
