------------------------------ MODULE Dispatch ------------------------------
(***************************************************************************)
(* Finding a rider for a delivery (dispatch/service.go, worker.go,         *)
(* assignment.go, operations.go, runtime.go, scheduled_coordination.go):   *)
(* jobs that workers lease and move through rounds of offers, a grab       *)
(* window and the administrator's desk; riders who accept, reject, grab,   *)
(* come and go; and the customer of a ticket redemption who cancels.       *)
(*                                                                         *)
(* One delivery, so a rider's capacity is never used up. next_action_at is *)
(* left open except where it is a deadline: an offer past expires_at is    *)
(* "late", a grab window past grab_expires_at has late set. The scores     *)
(* that rank candidates are left open.                                     *)
(***************************************************************************)
EXTENDS Delivery, Sequences, SequencesExt

CONSTANTS DispatchWorkers,  \* polling loops of all processes
          MaxJobs,          \* bound: dispatch_seq
          AutoRounds,       \* min(AutoRounds, OfferCandidateLimit)
          DispatchAttempts, \* cfg.Dispatch.MaxAttempts
          MaxStops,         \* bound: deaths of workers, leases lost under them
          MaxRiderMoves,    \* bound: changes of riders' presence
          MaxHandovers      \* bound: assignments

NobodyLeases == "nobody"
JobIds == 1..MaxJobs

ASSUME DispatchAssumption ==
    /\ MaxJobs \in Nat \ {0} /\ AutoRounds \in Nat /\ DispatchAttempts \in Nat \ {0}
    /\ MaxStops \in Nat /\ MaxRiderMoves \in Nat /\ MaxHandovers \in Nat
    /\ IsFiniteSet(Riders) /\ NobodyLeases \notin DispatchWorkers

VARIABLES
    cur,        \* delivery.current_dispatch_job_id, 0 before there is one
    job,        \* dispatch_jobs rows
    offer,      \* dispatch_offers rows: a job offers to a rider at most once
    assigned,   \* delivery_assignments rows, in order: rider and status
    rider,      \* rider and runtime rows: work status, fresh heartbeat and location
    worker,     \* what each polling loop is doing
    stops, moves

jvars == <<cur, job, offer, assigned, rider, worker, stops, moves>>

Modes     == {"manual", "grab", "auto", "hybrid"}
LiveJob   == {"pending", "offering", "grab_open"}
NoJob     == [status |-> "none", mode |-> "manual", cands |-> <<>>, round |-> 0,
              late |-> FALSE, by |-> NobodyLeases, lapsed |-> FALSE, attempts |-> 0]

DispatchTypeOK ==
    /\ cur \in 0..MaxJobs
    /\ \A j \in JobIds :
          /\ job[j].status \in LiveJob \cup {"none", "manual_required", "assigned", "cancelled"}
          /\ job[j].round \in 0..Len(job[j].cands)
          /\ job[j].attempts \in 0..(DispatchAttempts - 1)
    /\ offer \in [JobIds -> [Riders -> {"none", "pending", "late", "expired", "rejected",
                                        "accepted", "cancelled"}]]
    /\ \A i \in DOMAIN assigned :
          assigned[i].status \in {"active", "superseded", "cancelled"}

DispatchInit ==
    /\ \E kind \in {"retail", "redemption"} :
          order = [kind |-> kind, status |-> "paid", delivery |-> "pending_assign"]
    /\ dlv = [status |-> "none", rider |-> NoRider, dispatch |-> "none", pickup |-> "none"]
    /\ code = [s \in Stages |-> NoCode]
    /\ vmode \in {"enforce", "observe", "off"}
    /\ carrier = NoRider
    /\ cur = 0
    /\ job = [j \in JobIds |-> NoJob]
    /\ offer = [j \in JobIds |-> [r \in Riders |-> "none"]]
    /\ assigned = <<>>
    /\ rider = [r \in Riders |-> [on |-> TRUE, fresh |-> TRUE]]
    /\ worker = [w \in DispatchWorkers |-> [pc |-> "idle", job |-> 0]]
    /\ stops = 0
    /\ moves = 0

----------------------------------------
(* Creating the delivery and its job.                                      *)

\* createJobForDelivery: a pending job is the delivery's current one.
CreateJob(j, mode) ==
    /\ job' = [job EXCEPT ![j] = [NoJob EXCEPT !.status = "pending", !.mode = mode]]
    /\ cur' = j

\* EnsurePaidOrderTask in the payment's (or the redemption's) transaction. Called
\* again it finds the delivery and an active job and changes nothing.
EnsurePaidOrderTask ==
    /\ dlv.status = "none"
    /\ dlv' = [dlv EXCEPT !.status = "pending_assign", !.dispatch = "pending",
                          !.pickup = "waiting_store"]
    /\ \E mode \in Modes : CreateJob(1, mode)
    /\ UNCHANGED <<order, code, vmode, carrier, offer, assigned, rider, worker, stops, moves>>

----------------------------------------
(* The worker.                                                             *)

Unleased(rec) == [rec EXCEPT !.by = NobodyLeases, !.lapsed = FALSE]

\* A job is due when its deadline is; other waits are left open.
Due(j) ==
    /\ job[j].status \in LiveJob
    /\ job[j].status = "offering" => \A r \in Riders : offer[j][r] # "pending"
    /\ job[j].status = "grab_open" => job[j].late

\* claim: SKIP LOCKED, so each loop takes a job of its own.
Claim(w, j) ==
    /\ worker[w].pc = "idle"
    /\ Due(j)
    /\ job[j].by = NobodyLeases \/ job[j].lapsed
    /\ job' = [job EXCEPT ![j].by = w, ![j].lapsed = FALSE]
    /\ worker' = [worker EXCEPT ![w] = [pc |-> "run", job |-> j]]
    /\ UNCHANGED <<dvars, cur, offer, assigned, rider, stops, moves>>

SetJob(j, status, rec) == job' = [job EXCEPT ![j] = [Unleased(rec) EXCEPT !.status = status]]

\* A job that is over: its lease is off, and its ranking and counters are not read again.
Over(status) == [NoJob EXCEPT !.status = status]
SetDispatch(status)    == dlv' = [dlv EXCEPT !.dispatch = status]

\* openManual and openGrab.
OpenManual(j, rec) == SetJob(j, "manual_required", rec) /\ SetDispatch("manual_required")
OpenGrab(j, rec)   == SetJob(j, "grab_open", [rec EXCEPT !.late = FALSE]) /\ SetDispatch("grab_open")

Fit(r) == rider[r].on /\ rider[r].fresh

\* scoreCandidates: the riders fit for it, in the order of their scores.
Rankings == SetToSeqs({r \in Riders : Fit(r)})

\* mutant: the exhausted job is offered to nobody and waits for ever.
OfferOrWait(j, rec, offers) ==
    /\ rec.round < AutoRounds /\ rec.round < Len(rec.cands)
    /\ SetJob(j, "offering", [rec EXCEPT !.round = @ + 1])
    /\ SetDispatch("offering")
    /\ offer' = [offers EXCEPT ![j][rec.cands[rec.round + 1]] = "pending"]

\* createNextOfferOrFallback.
NextOfferOrFallback(j, rec, offers) ==
    IF rec.round < AutoRounds /\ rec.round < Len(rec.cands)
    THEN /\ SetJob(j, "offering", [rec EXCEPT !.round = @ + 1])
         /\ SetDispatch("offering")
         /\ offer' = [offers EXCEPT ![j][rec.cands[rec.round + 1]] = "pending"]
    ELSE /\ IF rec.mode = "hybrid" THEN OpenGrab(j, rec) ELSE OpenManual(j, rec)
         /\ offer' = offers

\* processJob on a pending job: by its mode.
StartJob(j) ==
    /\ job[j].status = "pending"
    /\ \/ /\ job[j].mode = "manual"
          /\ OpenManual(j, job[j])
          /\ UNCHANGED offer
       \/ /\ job[j].mode = "grab"
          /\ \E c \in Rankings : OpenGrab(j, [job[j] EXCEPT !.cands = c])
          /\ UNCHANGED offer
       \/ /\ job[j].mode \in {"auto", "hybrid"}
          /\ \E c \in Rankings : NextOfferOrFallback(j, [job[j] EXCEPT !.cands = c], offer)

\* processJob when the offer is over: it expires unless the rider rejected it.
NextRound(j) ==
    /\ job[j].status = "offering"
    /\ NextOfferOrFallback(j, job[j],
          [offer EXCEPT ![j] = [r \in Riders |-> IF offer[j][r] = "late" THEN "expired"
                                                 ELSE offer[j][r]]])

\* processJob when the grab window is over.
GrabExpires(j) ==
    /\ job[j].status = "grab_open"
    /\ OpenManual(j, job[j])
    /\ UNCHANGED offer

\* processJob: one transaction. A job whose delivery is no longer assignable would be
\* cancelled here; LiveJobIsCurrent says there is none.
ProcessJob(j) ==
    /\ Due(j)
    /\ dlv.status = "pending_assign" /\ dlv.rider = NoRider
    /\ StartJob(j) \/ NextRound(j) \/ GrabExpires(j)
    /\ UNCHANGED <<order, code, vmode, carrier, cur, assigned, rider>>

Idle(w) == worker' = [worker EXCEPT ![w] = [pc |-> "idle", job |-> 0]]

\* A loop processes what it claimed, unless the job's lease is someone else's.
RunJob(w) ==
    /\ worker[w].pc = "run"
    /\ \/ job[worker[w].job].by = w /\ ProcessJob(worker[w].job)
       \/ /\ job[worker[w].job].by # w
          /\ UNCHANGED <<dvars, cur, job, offer, assigned, rider>>
    /\ Idle(w)
    /\ UNCHANGED <<stops, moves>>

\* ProcessJobID, the wake-up by message, needs no lease.
WakeUp(j) == ProcessJob(j) /\ UNCHANGED <<worker, stops, moves>>

\* The transaction of processJob fails and is rolled back.
JobFails(w) ==
    /\ worker[w].pc = "run"
    /\ job[worker[w].job].by = w
    /\ worker' = [worker EXCEPT ![w].pc = "failed"]
    /\ UNCHANGED <<dvars, cur, job, offer, assigned, rider, stops, moves>>

\* recordJobFailure: looks at nothing but the lease.
RecordJobFailure(w) ==
    LET j == worker[w].job IN
    /\ worker[w].pc = "failed"
    /\ \/ /\ job[j].by = w
          /\ \/ /\ job[j].attempts + 1 < DispatchAttempts
                /\ job' = [job EXCEPT ![j] = Unleased([job[j] EXCEPT !.attempts = @ + 1])]
                /\ UNCHANGED dlv
             \/ /\ job[j].attempts + 1 >= DispatchAttempts
                /\ OpenManual(j, job[j])
       \/ job[j].by # w /\ UNCHANGED <<job, dlv>>
    /\ Idle(w)
    /\ UNCHANGED <<order, code, vmode, carrier, cur, offer, assigned, rider, stops, moves>>

----------------------------------------
(* Assignment.                                                             *)

\* CommitAssignment, after its source's own checks: r becomes the delivery's rider.
Assign(r, offers, rows) ==
    /\ Len(assigned) < MaxHandovers
    /\ assigned' = Append(rows, [rider |-> r, status |-> "active"])
    /\ dlv' = [dlv EXCEPT !.rider = r, !.status = "accepted", !.dispatch = "assigned"]
    /\ order' = [order EXCEPT !.delivery = "accepted"]
    /\ job' = [job EXCEPT ![cur] = Over("assigned")]
    /\ offer' = [offer EXCEPT ![cur] = offers]
    /\ UNCHANGED <<vmode, carrier, cur, rider, worker, stops, moves>>

Withdrawn(offers) ==
    [r \in Riders |-> IF offers[r] \in {"pending", "late"} THEN "cancelled" ELSE offers[r]]

Assignable == dlv.status = "pending_assign" /\ dlv.rider = NoRider

\* AcceptOffer.
AcceptOffer(r) ==
    /\ cur # 0 /\ Assignable
    /\ job[cur].status = "offering" /\ offer[cur][r] = "pending"
    /\ Fit(r)
    /\ Assign(r, Withdrawn([offer[cur] EXCEPT ![r] = "accepted"]), assigned)
    /\ UNCHANGED code

\* Grab, also behind the rider's Accept.
Grab(r) ==
    /\ cur # 0 /\ Assignable
    /\ job[cur].status = "grab_open" /\ ~job[cur].late
    /\ Fit(r)
    /\ Assign(r, Withdrawn(offer[cur]), assigned)
    /\ UNCHANGED code

\* Manual assignment by an administrator, whatever the job is doing.
ManualAssign(r) ==
    /\ cur # 0 /\ Assignable
    /\ Assign(r, Withdrawn(offer[cur]), assigned)
    /\ UNCHANGED code

\* Reassignment before pickup: the old assignment is superseded, and codes that
\* exist are replaced.
Superseded(rows) ==
    [i \in DOMAIN rows |->
        IF rows[i].status = "active" THEN [rows[i] EXCEPT !.status = "superseded"] ELSE rows[i]]

\* mutant: reassignment looks at the rider only.
ReassignAnytime(r) ==
    /\ dlv.rider # NoRider /\ dlv.rider # r
    /\ Assign(r, Withdrawn(offer[cur]), Superseded(assigned))
    /\ code' = IF dlv.pickup = "ready" THEN InvalidateAndRegenerate(code) ELSE code

Reassign(r) ==
    /\ dlv.rider # NoRider /\ dlv.status = "accepted"
    /\ Assign(r, Withdrawn(offer[cur]), Superseded(assigned))
    /\ code' = IF dlv.pickup = "ready" THEN InvalidateAndRegenerate(code) ELSE code

\* RejectOffer: locks the job, not the delivery, and takes the lease off the job.
RejectOffer(r) ==
    /\ cur # 0
    /\ job[cur].status = "offering" /\ offer[cur][r] = "pending"
    /\ offer' = [offer EXCEPT ![cur][r] = "rejected"]
    /\ job' = [job EXCEPT ![cur] = Unleased(job[cur])]
    /\ UNCHANGED <<dvars, cur, assigned, rider, worker, stops, moves>>

\* RetryJob: the administrator replaces a job that waits for a decision.
RetryJob ==
    /\ cur \in 1..(MaxJobs - 1)
    /\ job[cur].status = "manual_required"
    /\ Assignable
    /\ job' = [job EXCEPT ![cur] = Over("cancelled"),
                          ![cur + 1] = [NoJob EXCEPT !.status = "pending", !.mode = job[cur].mode]]
    /\ cur' = cur + 1
    /\ SetDispatch("pending")
    /\ UNCHANGED <<order, code, vmode, carrier, offer, assigned, rider, worker, stops, moves>>

\* mutant: the cancellation leaves the jobs to the workers.
CancelDeliveryOnly ==
    /\ order.kind = "redemption"
    /\ dlv.status \in {"pending_assign", "accepted"}
    /\ dlv' = [dlv EXCEPT !.status = "cancelled", !.dispatch = "cancelled", !.pickup = "cancelled"]
    /\ order' = [order EXCEPT !.status = "cancelled", !.delivery = "cancelled"]
    /\ UNCHANGED <<assigned, offer, job, code, vmode, carrier, cur, rider, worker, stops, moves>>

\* ApplyScheduledCancellationTx within the cancellation of a redemption, which also
\* cancels the order.
CancelScheduled ==
    /\ order.kind = "redemption"
    /\ dlv.status \in {"pending_assign", "accepted"}
    /\ assigned' = [i \in DOMAIN assigned |->
          IF assigned[i].status = "active" THEN [assigned[i] EXCEPT !.status = "cancelled"]
          ELSE assigned[i]]
    /\ offer' = [j \in JobIds |-> Withdrawn(offer[j])]
    /\ job' = [j \in JobIds |->
          IF job[j].status \in LiveJob \cup {"manual_required", "assigned"}
          THEN Over("cancelled") ELSE job[j]]
    /\ dlv' = [dlv EXCEPT !.status = "cancelled", !.dispatch = "cancelled", !.pickup = "cancelled"]
    /\ order' = [order EXCEPT !.status = "cancelled", !.delivery = "cancelled"]
    /\ UNCHANGED <<code, vmode, carrier, cur, rider, worker, stops, moves>>

----------------------------------------
(* Riders and time.                                                        *)

\* UpdateWorkStatus.
UpdateWorkStatus(r) ==
    /\ moves < MaxRiderMoves /\ moves' = moves + 1
    /\ rider' = [rider EXCEPT ![r].on = ~@]
    /\ UNCHANGED <<dvars, cur, job, offer, assigned, worker, stops>>

\* Heartbeat: a new sequence number refreshes presence and location.
Heartbeat(r) ==
    /\ ~rider[r].fresh
    /\ rider' = [rider EXCEPT ![r].fresh = TRUE]
    /\ UNCHANGED <<dvars, cur, job, offer, assigned, worker, stops, moves>>

\* Heartbeats stop coming.
RiderGoesStale(r) ==
    /\ rider[r].fresh
    /\ moves < MaxRiderMoves /\ moves' = moves + 1
    /\ rider' = [rider EXCEPT ![r].fresh = FALSE]
    /\ UNCHANGED <<dvars, cur, job, offer, assigned, worker, stops>>

\* Time passes an offer's, a grab window's or a lease's deadline; a loop dies.
OfferRunsOut(j, r) ==
    /\ offer[j][r] = "pending"
    /\ offer' = [offer EXCEPT ![j][r] = "late"]
    /\ UNCHANGED <<dvars, cur, job, assigned, rider, worker, stops, moves>>

GrabRunsOut(j) ==
    /\ job[j].status = "grab_open" /\ ~job[j].late
    /\ job' = [job EXCEPT ![j].late = TRUE]
    /\ UNCHANGED <<dvars, cur, offer, assigned, rider, worker, stops, moves>>

LeaseRunsOut(j) ==
    LET held == \E w \in DispatchWorkers : worker[w].pc # "idle" /\ worker[w].job = j
                                           /\ job[j].by = w
    IN /\ job[j].by # NobodyLeases /\ ~job[j].lapsed
       /\ held => stops < MaxStops
       /\ stops' = IF held THEN stops + 1 ELSE stops
       /\ job' = [job EXCEPT ![j].lapsed = TRUE]
       /\ UNCHANGED <<dvars, cur, offer, assigned, rider, worker, moves>>

WorkerDies(w) ==
    /\ worker[w].pc # "idle"
    /\ stops < MaxStops /\ stops' = stops + 1
    /\ Idle(w)
    /\ UNCHANGED <<dvars, cur, job, offer, assigned, rider, moves>>

----------------------------------------
DeliveryStep ==
    /\ \/ ShopStep \/ CodeStep
       \/ \E r \in Riders, e \in Entries :
             Pickup(r, e) \/ Complete(r, e) \/ \E s \in Stages : Refused(r, s, e)
    /\ UNCHANGED jvars

DispatchNext ==
    \/ EnsurePaidOrderTask \/ RetryJob \/ CancelScheduled
    \/ \E j \in JobIds : WakeUp(j) \/ GrabRunsOut(j) \/ LeaseRunsOut(j)
    \/ \E w \in DispatchWorkers : RunJob(w) \/ JobFails(w) \/ RecordJobFailure(w) \/ WorkerDies(w)
    \/ \E w \in DispatchWorkers, j \in JobIds : Claim(w, j)
    \/ \E r \in Riders : \/ AcceptOffer(r) \/ Grab(r) \/ ManualAssign(r) \/ Reassign(r)
                         \/ RejectOffer(r) \/ UpdateWorkStatus(r) \/ Heartbeat(r)
                         \/ RiderGoesStale(r)
    \/ \E j \in JobIds, r \in Riders : OfferRunsOut(j, r)
    \/ DeliveryStep

\* The loops keep polling and finish what they started; deadlines pass.
DispatchFairness ==
    /\ WF_<<dvars, jvars>>(EnsurePaidOrderTask)
    /\ \A w \in DispatchWorkers : WF_<<dvars, jvars>>(RunJob(w) \/ RecordJobFailure(w))
    /\ \A j \in JobIds :
          /\ SF_<<dvars, jvars>>(\E w \in DispatchWorkers : Claim(w, j))
          /\ WF_<<dvars, jvars>>(GrabRunsOut(j))
          /\ WF_<<dvars, jvars>>(LeaseRunsOut(j))
          /\ \A r \in Riders : WF_<<dvars, jvars>>(OfferRunsOut(j, r))

----------------------------------------
\* processJob and recordJobFailure may rely on it: a job that a worker can still move
\* belongs to a delivery that waits for a rider, and is the delivery's current one; an
\* offer a rider could still accept belongs to that job.
LiveJobIsCurrent ==
    \A j \in JobIds :
        /\ job[j].status \in LiveJob => j = cur /\ Assignable
        /\ \A r \in Riders : offer[j][r] = "pending" => j = cur /\ job[j].status = "offering"

\* CommitAssignment, Reassign and the cancellation keep the three records of who
\* delivers in step: the delivery's rider, the one active assignment, the order.
OneRider ==
    LET active == {i \in DOMAIN assigned : assigned[i].status = "active"} IN
    /\ dlv.status \in {"accepted", "delivering", "completed"} =>
          \E i \in active : active = {i} /\ assigned[i].rider = dlv.rider
    /\ dlv.status \in {"pending_assign", "cancelled"} => active = {}
    /\ dlv.status # "none" => order.delivery = dlv.status

\* The goods stay with the rider the shop handed them to, after the shop said they
\* were ready, and under enforce with a code verified at both ends: no reassignment,
\* unlock, retry or cancellation gets between.
GoodsWithCarrier ==
    /\ dlv.status \in {"delivering", "completed"} =>
          /\ carrier = dlv.rider /\ dlv.pickup = "ready"
          /\ vmode = "enforce" => code["pickup"].status = "verified"
    /\ dlv.status = "completed" /\ vmode = "enforce" => code["delivery"].status = "verified"
    /\ dlv.status \in {"none", "pending_assign", "accepted", "cancelled"} => carrier = NoRider

\* Where every delivery must get to, through rejections, expiries, failures of the worker
\* and lost leases: a rider, a cancellation or the administrator's desk.
DispatchSettled == dlv.status = "pending_assign" => job[cur].status = "manual_required"
=============================================================================
