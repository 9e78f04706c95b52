--------------------------- MODULE TicketIntegrity ---------------------------
(***************************************************************************)
(* The nightly reconciliation of wine tickets (wineticket/integrity): the  *)
(* replicas of the worker share one checkpoint row per day, claim it for a *)
(* batch under a lease, read the batch, and write what they found together *)
(* with the new cursor. Administrators resolve the exceptions              *)
(* (wineticket/ops).                                                       *)
(*                                                                         *)
(* What the nine phases check is in the modules of the businesses (LotRule,*)
(* GiftRule, ...); here a row of a phase is right or wrong.                *)
(***************************************************************************)
EXTENDS Integers, FiniteSets, FiniteSetsExt

CONSTANTS Replicas,
          PhaseCount, BatchSize,
          IdBound,    \* bound: rows of one phase
          DayBound,   \* bound: days
          FaultBound  \* bound: rows that go wrong, restarts, failed scans, slow scans and new rows, together

ASSUME IntegrityAssumption ==
    /\ PhaseCount \in Nat \ {0} /\ BatchSize \in Nat \ {0}
    /\ IdBound \in Nat \ {0} /\ DayBound \in Nat \ {0}
    /\ Replicas \cap {"none", "gone"} = {}

VARIABLES day,        \* the day whose cycle is due
          checkpoint, \* wine_ticket_integrity_checkpoints, one row per day
          agent,      \* the memory of each replica: its cursor and the batch under way
          there,      \* the rows there are
          wrong,      \* the rows that are wrong
          exception,  \* for every row, how its exceptions stand
          lapses,
          \* history: the rows there were when a cycle began, the rows wrong during all of it
          \* so far, the rows checked and reported in it
          present, throughout, checkedIn, reported

integrityVars == <<day, checkpoint, agent, there, wrong, exception, lapses, present, throughout,
                   checkedIn, reported>>

Days   == 1..DayBound
Phases == 1..PhaseCount
IntegrityRows   == Phases \X (1..IdBound)

Beginning    == [phase |-> 1, last |-> 0]
NoCheckpoint == [status |-> "none", cursor |-> Beginning, seed |-> Beginning, high |-> <<>>,
                 owner |-> "none", live |-> FALSE, version |-> 0]
NoBatch      == [rows |-> {}, found |-> {}, next |-> Beginning, done |-> FALSE]
AgentIdle(cursor) == [step |-> "idle", cursor |-> cursor, cycle |-> 1, version |-> 0, batch |-> NoBatch]

IntegrityInit ==
    /\ day = 1
    /\ checkpoint = [d \in Days |-> NoCheckpoint]
    /\ agent = [w \in Replicas |-> AgentIdle(Beginning)]
    /\ there = {<<p, IF p = 1 THEN IdBound ELSE 1>> : p \in Phases}
    /\ wrong \in {{r} : r \in there} /\ exception = [r \in IntegrityRows |-> "none"]
    /\ lapses = FaultBound
    /\ present = [d \in Days |-> {}] /\ throughout = [d \in Days |-> {}]
    /\ reported = [d \in Days |-> {}]
    /\ checkedIn = [d \in Days |-> [r \in IntegrityRows |-> 0]]

\* captureHighWatermarks.
HighWatermark(p) == Max({r[2] : r \in {q \in there : q[1] = p}} \cup {0})

\* claimCheckpoint, the first half: the row of a new day starts where the replica that
\* writes it happens to be, and ends at the rows there are now.
SeedCheckpoint(w) ==
    /\ agent[w].step = "idle" /\ checkpoint[day].status = "none"
    /\ checkpoint' = [checkpoint EXCEPT ![day] =
          [NoCheckpoint EXCEPT !.status = "running", !.cursor = agent[w].cursor, !.seed = agent[w].cursor,
                               !.high = [p \in Phases |-> HighWatermark(p)], !.version = 1]]
    /\ present' = [present EXCEPT ![day] = there]
    /\ throughout' = [throughout EXCEPT ![day] = wrong]
    /\ UNCHANGED <<day, agent, there, wrong, exception, lapses, checkedIn, reported>>

\* The second half, under the lock of the row. A completed cycle, and the live lease of
\* another replica, make it wait; it takes the cursor over in any case.
MayClaim(w, C) == C.status = "running" /\ (C.owner = "none" \/ C.owner = w \/ ~C.live)

ClaimCheckpoint(w) ==
    LET C == checkpoint[day] IN
    /\ agent[w].step = "idle" /\ C.status # "none"
    /\ IF MayClaim(w, C)
       THEN /\ checkpoint' = [checkpoint EXCEPT ![day] = [C EXCEPT !.owner = w, !.live = TRUE, !.version = @ + 1]]
            /\ agent' = [agent EXCEPT ![w] = [AgentIdle(C.cursor) EXCEPT !.step = "claimed", !.cycle = day,
                                                                   !.version = C.version + 1]]
       ELSE /\ agent[w].cursor # C.cursor
            /\ agent' = [agent EXCEPT ![w] = AgentIdle(C.cursor)]
            /\ UNCHANGED checkpoint
    /\ UNCHANGED <<day, there, wrong, exception, lapses, present, throughout, checkedIn, reported>>

\* nextIntegrityCursor.
NextCursor(phase, last, phaseDone) ==
    IF ~phaseDone THEN [phase |-> phase, last |-> last]
    ELSE IF phase = PhaseCount THEN Beginning ELSE [phase |-> phase + 1, last |-> 0]

\* scanBatchFacts, a read of one snapshot (idWindow: the rows after the cursor, up to the
\* high watermark).
Batch(cursor, high) ==
    LET ids == {i \in 1..IdBound : <<cursor.phase, i>> \in there /\ cursor.last < i /\ i <= high[cursor.phase]}
        taken == {i \in ids : Cardinality({j \in ids : j < i}) < BatchSize}
        last == Max(taken \cup {cursor.last})
        phaseDone == Cardinality(taken) < BatchSize \/ last >= high[cursor.phase]
    IN  [rows |-> {<<cursor.phase, i>> : i \in taken},
         found |-> {<<cursor.phase, i>> : i \in taken} \cap wrong,
         next |-> NextCursor(cursor.phase, last, phaseDone),
         done |-> phaseDone /\ cursor.phase = PhaseCount]

ScanBatch(w) ==
    /\ agent[w].step = "claimed"
    /\ agent' = [agent EXCEPT ![w].step = "scanned",
                              ![w].batch = Batch(agent[w].cursor, checkpoint[agent[w].cycle].high)]
    /\ UNCHANGED <<day, checkpoint, there, wrong, exception, lapses, present, throughout, checkedIn, reported>>

\* upsertActiveException, for all rows found: a new exception unless one is active.
Raised(found) == [r \in IntegrityRows |-> IF r \in found THEN "active" ELSE exception[r]]

\* mutant: the version is not looked at, the owner is enough.
StillHeldByName(w) ==
    checkpoint[agent[w].cycle].status = "running" /\ checkpoint[agent[w].cycle].owner \in Replicas

StillHeld(w) ==
    LET C == checkpoint[agent[w].cycle]
    IN  C.status = "running" /\ C.owner = w /\ C.version = agent[w].version

\* persistClaimedBatch: what was found and the cursor, in one transaction. A lease that
\* was lost makes it fail; the replica keeps the cursor it claimed with.
PersistBatch(w) ==
    LET d == agent[w].cycle
        b == agent[w].batch
    IN  /\ agent[w].step = "scanned"
        /\ IF StillHeld(w)
           THEN /\ checkpoint' = [checkpoint EXCEPT
                      ![d].status = IF b.done THEN "completed" ELSE "running", ![d].cursor = b.next,
                      ![d].owner = "none", ![d].live = FALSE, ![d].version = @ + 1]
                /\ exception' = Raised(b.found)
                /\ checkedIn' = [checkedIn EXCEPT ![d] = [r \in IntegrityRows |->
                      checkedIn[d][r] + (IF r \in b.rows THEN 1 ELSE 0)]]
                /\ reported' = [reported EXCEPT ![d] = @ \cup b.found]
                /\ agent' = [agent EXCEPT ![w] = AgentIdle(b.next)]
           ELSE /\ agent' = [agent EXCEPT ![w] = AgentIdle(@.cursor)]
                /\ UNCHANGED <<checkpoint, exception, checkedIn, reported>>
        /\ UNCHANGED <<day, there, wrong, lapses, present, throughout>>

\* releaseCheckpoint, after the read or the write failed.
ReleaseCheckpoint(w) ==
    LET d == agent[w].cycle IN
    /\ agent[w].step # "idle" /\ lapses > 0
    /\ checkpoint' = IF checkpoint[d].owner = w /\ checkpoint[d].version = agent[w].version
                     THEN [checkpoint EXCEPT ![d].owner = "none", ![d].live = FALSE, ![d].version = @ + 1]
                     ELSE checkpoint
    /\ agent' = [agent EXCEPT ![w] = AgentIdle(@.cursor)]
    /\ lapses' = lapses - 1
    /\ UNCHANGED <<day, there, wrong, exception, present, throughout, checkedIn, reported>>

IntegrityAgent(w) == SeedCheckpoint(w) \/ ClaimCheckpoint(w) \/ ScanBatch(w) \/ PersistBatch(w)

----------------------------------------
\* A replica dies; the one that replaces it has a name of its own, so it waits for the
\* lease to end, and an empty cursor.
ReplicaRestarts(w) ==
    /\ lapses > 0 /\ agent[w] # AgentIdle(Beginning)
    /\ agent' = [agent EXCEPT ![w] = AgentIdle(Beginning)]
    /\ checkpoint' = [d \in Days |-> IF checkpoint[d].owner = w THEN [checkpoint[d] EXCEPT !.owner = "gone"]
                                     ELSE checkpoint[d]]
    /\ lapses' = lapses - 1
    /\ UNCHANGED <<day, there, wrong, exception, present, throughout, checkedIn, reported>>

\* Time passes the end of a lease: that of a dead replica sooner or later, that of a slow
\* one now and then.
LeaseEnds ==
    /\ checkpoint[day].live
    /\ IF checkpoint[day].owner = "gone" THEN UNCHANGED lapses ELSE lapses > 0 /\ lapses' = lapses - 1
    /\ checkpoint' = [checkpoint EXCEPT ![day].live = FALSE]
    /\ UNCHANGED <<day, agent, there, wrong, exception, present, throughout, checkedIn, reported>>

\* reconciliationDueCycle.
NextDay ==
    /\ day < DayBound /\ checkpoint[day].status # "none"
    /\ day' = day + 1
    /\ UNCHANGED <<checkpoint, agent, there, wrong, exception, lapses, present, throughout, checkedIn, reported>>

\* The ids are Snowflake numbers of many processes: a row may be committed after rows with
\* higher ids, behind the cursor and below the watermark.
RowAdded(r) ==
    /\ r \notin there /\ lapses > 0
    /\ there' = there \cup {r} /\ lapses' = lapses - 1
    /\ UNCHANGED <<day, checkpoint, agent, wrong, exception, present, throughout, checkedIn, reported>>

RowGoesWrong(r) ==
    /\ r \in there \ wrong /\ lapses > 0
    /\ wrong' = wrong \cup {r} /\ lapses' = lapses - 1
    /\ UNCHANGED <<day, checkpoint, agent, there, exception, present, throughout, checkedIn, reported>>

\* ResolveException: the executor puts the row right in the same transaction, or the
\* administrator has only looked at it.
ResolveException(r) ==
    /\ exception[r] = "active"
    /\ exception' = [exception EXCEPT ![r] = "resolved"]
    /\ \/ /\ wrong' = wrong \ {r}
          /\ throughout' = [d \in Days |-> throughout[d] \ {r}]
       \/ UNCHANGED <<wrong, throughout>>
    /\ UNCHANGED <<day, checkpoint, agent, there, lapses, present, checkedIn, reported>>

IntegrityNext ==
    \/ \E w \in Replicas : IntegrityAgent(w) \/ ReleaseCheckpoint(w) \/ ReplicaRestarts(w)
    \/ LeaseEnds \/ NextDay
    \/ \E r \in IntegrityRows : RowAdded(r) \/ RowGoesWrong(r) \/ ResolveException(r)

----------------------------------------
\* The rows of a cycle: those there were when it began, after the cursor it was seeded with.
\* The others are left out.
RowsOfCycle(d) ==
    LET C == checkpoint[d]
    IN  {r \in present[d] : r[1] > C.seed.phase \/ (r[1] = C.seed.phase /\ r[2] > C.seed.last)}

\* A cycle before day k has checked the row, or began when it was not there.
SeenBefore(r, k) ==
    \E e \in Days : /\ e < k /\ checkpoint[e].status # "none"
                    /\ checkedIn[e][r] = 1 \/ r \notin present[e]

\* A cycle checks no row twice, and one that is completed has checked each of its rows,
\* whoever lost a lease or died on the way; whatever was wrong with one of them all the time
\* has been reported. The rows a cycle leaves out, because it was seeded midway, had been
\* passed by an earlier one: a cycle has checked them, or began before they were there
\* (claimCheckpoint, scanBatchFacts, persistClaimedBatch).
CycleFindsAll ==
    \A d \in Days : checkpoint[d].status # "none" =>
        /\ \A r \in IntegrityRows : checkedIn[d][r] <= 1
        /\ (checkpoint[d].status = "completed" =>
              /\ \A r \in RowsOfCycle(d) : checkedIn[d][r] = 1
              /\ throughout[d] \cap RowsOfCycle(d) \subseteq reported[d])
        /\ \A r \in present[d] \ RowsOfCycle(d) : SeenBefore(r, d)

\* Where the nightly check must get to: the cycle of the day is completed, unless the next
\* day comes first (Run, RunOnce).
CycleEnded == checkpoint[day].status = "completed"
=============================================================================
