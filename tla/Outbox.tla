------------------------------- MODULE Outbox -------------------------------
(***************************************************************************)
(* The transactional outbox (internal/modules/mq): business transactions   *)
(* insert pending rows, several Publisher processes claim batches of them  *)
(* under a lease, hand each event to RabbitMQ on a confirm-mode channel    *)
(* and record the outcome, and an administrator replays dead letters.      *)
(*                                                                         *)
(* Every update of a claimed row carries the claim's token, so a publisher *)
(* whose lease was taken over changes nothing.  Confirmations reach the    *)
(* publisher through one Go channel per AMQP channel, in publish order and *)
(* without their delivery tag being compared: a confirmation that arrives  *)
(* after its 5 s wait is read by the next event of the batch.              *)
(*                                                                         *)
(* An event is its outbox id (batches are in id order).  Time is two flags *)
(* of a row: "due" (next_retry_at has passed) and "leased" (locked_until   *)
(* has not).  A message on its way to the broker is in "sent" while its    *)
(* channel is used, and in "adrift" once nobody waits for it.              *)
(***************************************************************************)
EXTENDS Integers, FiniteSets, Sequences, Functions

CONSTANTS Events,        \* outbox ids
          Kind,          \* what the event registry makes of an event
          Workers,       \* publisher processes
          Tokens,        \* claim tokens (uuid)
          NoToken,
          BatchSize,     \* LIMIT of a claim (50 in the code)
          MaxRetries,    \* maxPublisherRetries (5 in the code)
          LateConfirms,  \* may the 5 s confirm wait end before the broker answers?
          MaxFaults      \* bound: crashes, lost connections, failed statements, overruns

Kinds == {"unregistered", "malformed", "unconsumed", "routable"}

ASSUME OutboxAssumption ==
    /\ Events \subseteq Nat
    /\ Kind \in [Events -> Kinds]
    /\ NoToken \notin Tokens
    /\ BatchSize \in Nat \ {0}
    /\ MaxRetries \in Nat \ {0}
    /\ LateConfirms \in BOOLEAN
    /\ MaxFaults \in Nat

VARIABLES row,       \* outbox_events
          letter,    \* mq_dead_letters of consumer "publisher", by event
          replays,   \* <<dead event, its replay>> pairs (mq_dead_letter_replays)
          job,       \* the batch each publisher is working on
          chan,      \* each publisher's AMQP channel
          adrift,    \* messages whose publisher no longer listens
          accepted,  \* events the broker holds or has delivered
          faults     \* faults spent

vars == <<row, letter, replays, job, chan, adrift, accepted, faults>>

Statuses == {"absent", "pending", "published", "no_consumer", "dead"}
PCs == {"idle", "sort", "send", "await", "confirmed", "failed"}

Row == [status : Statuses, owner : Tokens \cup {NoToken}, leased : BOOLEAN,
        due : BOOLEAN, retries : Nat]

Job == [pc : PCs, token : Tokens \cup {NoToken}, todo : SUBSET Events,
        send : SUBSET Events, read : [Events -> Nat]]

Chan == [open : BOOLEAN, sent : Seq(Events), confirms : Seq(BOOLEAN)]

Fresh(status) ==
    [status |-> status, owner |-> NoToken, leased |-> FALSE, due |-> TRUE, retries |-> 0]

Idle == [pc |-> "idle", token |-> NoToken, todo |-> {}, send |-> {},
         read |-> [e \in Events |-> 0]]

NoChan  == [open |-> FALSE, sent |-> << >>, confirms |-> << >>]
NewChan == [open |-> TRUE, sent |-> << >>, confirms |-> << >>]

Init ==
    /\ row = [e \in Events |-> Fresh("absent")]
    /\ letter = [e \in Events |-> "none"]
    /\ replays = {}
    /\ job = [w \in Workers |-> Idle]
    /\ chan = [w \in Workers |-> NoChan]
    /\ adrift = {}
    /\ accepted = {}
    /\ faults = 0

----------------------------------------
\* The lowest id of a set: batches are ordered by id.
First(S) == CHOOSE e \in S : \A f \in S : e <= f

SetRow(e, r)  == row' = [row EXCEPT ![e] = r]
SetJob(w, j)  == job' = [job EXCEPT ![w] = j]
SetChan(w, c) == chan' = [chan EXCEPT ![w] = c]

Fault == faults < MaxFaults /\ faults' = faults + 1

\* A statement that errs is logged and changes nothing.
Statement(ok) == IF ok THEN UNCHANGED faults ELSE Fault

\* The lease columns are cleared by every outcome of a claim.
Settled(status, retries, due) ==
    [status |-> status, owner |-> NoToken, leased |-> FALSE, due |-> due, retries |-> retries]

\* Mutant: the row is updated by id alone.
Owns_ById(w, e) == row[e].status # "absent"

\* WHERE id = ? AND status = 'pending' AND locked_by = token
Owns(w, e) == row[e].status = "pending" /\ row[e].owner = job[w].token

----------------------------------------
\* A business transaction inserts an event.
Emit(e) ==
    /\ row[e].status = "absent"
    /\ SetRow(e, Fresh("pending"))
    /\ UNCHANGED <<letter, replays, job, chan, adrift, accepted, faults>>

\* Mutant: a row once claimed is never claimed again (locked_until IS NULL).
Claimable_NeverLocked(e) ==
    row[e].status = "pending" /\ row[e].due /\ row[e].owner = NoToken

Claimable(e) == row[e].status = "pending" /\ row[e].due /\ ~row[e].leased

\* ORDER BY id ASC LIMIT batchSize
Taken ==
    LET ready == {e \in Events : Claimable(e)}
    IN  {e \in ready : Cardinality({f \in ready : f < e}) < BatchSize}

TokensInUse == {row[e].owner : e \in Events} \cup {job[w].token : w \in Workers}

ClaimBatch(w) ==
    /\ job[w].pc = "idle"
    /\ Taken # {}
    /\ \E t \in Tokens \ TokensInUse :
          /\ row' = [e \in Events |-> IF e \in Taken
                                      THEN [row[e] EXCEPT !.owner = t, !.leased = TRUE]
                                      ELSE row[e]]
          /\ SetJob(w, [pc |-> "sort", token |-> t, todo |-> Taken, send |-> {},
                        read |-> [e \in Events |-> IF e \in Taken THEN row[e].retries ELSE 0]])
    /\ UNCHANGED <<letter, replays, chan, adrift, accepted, faults>>

\* Mutant: no dead letter.
CreateDeadLetter_Skip(e) == UNCHANGED letter

\* INSERT ... ON CONFLICT DO NOTHING
CreateDeadLetter(e) ==
    letter' = [letter EXCEPT ![e] = IF @ = "none" THEN "open" ELSE @]

\* First loop of publishBatch, an event that breaks its contract.
MarkValidationDead(w) ==
    LET e == First(job[w].todo) IN
    /\ job[w].pc = "sort" /\ job[w].todo # {}
    /\ Kind[e] \in {"unregistered", "malformed"}
    /\ \E ok \in BOOLEAN :
          /\ Statement(ok)
          /\ IF ok /\ Owns(w, e)
             THEN /\ SetRow(e, Settled("dead", job[w].read[e] + 1, row[e].due))
                  /\ CreateDeadLetter(e)
             ELSE UNCHANGED <<row, letter>>
    /\ SetJob(w, [job[w] EXCEPT !.todo = @ \ {e}])
    /\ UNCHANGED <<replays, chan, adrift, accepted>>

\* First loop of publishBatch, an event nobody consumes.
MarkNoConsumer(w) ==
    LET e == First(job[w].todo) IN
    /\ job[w].pc = "sort" /\ job[w].todo # {}
    /\ Kind[e] = "unconsumed"
    /\ \E ok \in BOOLEAN :
          /\ Statement(ok)
          /\ IF ok /\ Owns(w, e)
             THEN SetRow(e, Settled("no_consumer", row[e].retries, row[e].due))
             ELSE UNCHANGED row
    /\ SetJob(w, [job[w] EXCEPT !.todo = @ \ {e}])
    /\ UNCHANGED <<letter, replays, chan, adrift, accepted>>

\* First loop of publishBatch, an event to send.
KeepRoutable(w) ==
    LET e == First(job[w].todo) IN
    /\ job[w].pc = "sort" /\ job[w].todo # {}
    /\ Kind[e] = "routable"
    /\ SetJob(w, [job[w] EXCEPT !.todo = @ \ {e}, !.send = @ \cup {e}])
    /\ UNCHANGED <<row, letter, replays, chan, adrift, accepted, faults>>

\* A confirm-mode channel for the second loop, unless nothing is to be sent
\* or the broker cannot be reached (the batch then keeps its leases).
OpenChannel(w) ==
    /\ job[w].pc = "sort" /\ job[w].todo = {}
    /\ \E ok \in BOOLEAN :
          /\ Statement(ok)
          /\ job[w].send = {} => ok
          /\ IF ok /\ job[w].send # {}
             THEN SetJob(w, [job[w] EXCEPT !.pc = "send"]) /\ SetChan(w, NewChan)
             ELSE SetJob(w, Idle) /\ UNCHANGED chan
    /\ UNCHANGED <<row, letter, replays, adrift, accepted>>

PublishOne(w) ==
    LET e == First(job[w].send) IN
    /\ job[w].pc = "send" /\ job[w].send # {}
    /\ IF chan[w].open
       THEN /\ SetChan(w, [chan[w] EXCEPT !.sent = Append(@, e)])
            /\ SetJob(w, [job[w] EXCEPT !.pc = "await"])
       ELSE SetJob(w, [job[w] EXCEPT !.pc = "failed"]) /\ UNCHANGED chan
    /\ UNCHANGED <<row, letter, replays, adrift, accepted, faults>>

\* Mutant: confirmation.Ack is not looked at.
ReadConfirmation_AnyAnswer(w) ==
    /\ job[w].pc = "await"
    /\ chan[w].confirms # << >>
    /\ SetJob(w, [job[w] EXCEPT !.pc = "confirmed"])
    /\ SetChan(w, [chan[w] EXCEPT !.confirms = Tail(@)])
    /\ UNCHANGED <<row, letter, replays, adrift, accepted, faults>>

\* publishConfirmed, case confirmation: the oldest one, whosever it is.
ReadConfirmation(w) ==
    /\ job[w].pc = "await"
    /\ chan[w].confirms # << >>
    /\ SetJob(w, [job[w] EXCEPT !.pc = IF Head(chan[w].confirms) THEN "confirmed" ELSE "failed"])
    /\ SetChan(w, [chan[w] EXCEPT !.confirms = Tail(@)])
    /\ UNCHANGED <<row, letter, replays, adrift, accepted, faults>>

\* publishConfirmed, the other cases: the closed Go channels of a dead AMQP
\* channel yield a zero Return or Confirmation, and the timer runs out.
GiveUpWaiting(w) ==
    /\ job[w].pc = "await"
    /\ ~chan[w].open \/ LateConfirms
    /\ SetJob(w, [job[w] EXCEPT !.pc = "failed"])
    /\ UNCHANGED <<row, letter, replays, chan, adrift, accepted, faults>>

\* The second loop goes on to the next event whatever became of this one.
NextEvent(w) == SetJob(w, [job[w] EXCEPT !.pc = "send", !.send = @ \ {First(@)}])

MarkPublished(w) ==
    LET e == First(job[w].send) IN
    /\ job[w].pc = "confirmed"
    /\ \E ok \in BOOLEAN :
          /\ Statement(ok)
          /\ IF ok /\ Owns(w, e)
             THEN SetRow(e, Settled("published", row[e].retries, row[e].due))
             ELSE UNCHANGED row
    /\ NextEvent(w)
    /\ UNCHANGED <<letter, replays, chan, adrift, accepted>>

\* Mutant: one retry too many.
Spent_OffByOne(retries) == retries > MaxRetries

Spent(retries) == retries >= MaxRetries

MarkFailed(w) ==
    LET e == First(job[w].send)
        retries == job[w].read[e] + 1
        dead == Spent(retries)
    IN
    /\ job[w].pc = "failed"
    /\ \E ok \in BOOLEAN :
          /\ Statement(ok)
          /\ IF ok /\ Owns(w, e)
             THEN /\ SetRow(e, Settled(IF dead THEN "dead" ELSE "pending", retries, dead))
                  /\ IF dead THEN CreateDeadLetter(e) ELSE UNCHANGED letter
             ELSE UNCHANGED <<row, letter>>
    /\ NextEvent(w)
    /\ UNCHANGED <<replays, chan, adrift, accepted>>

\* What a publisher leaves behind: its channel closes, its messages are on
\* their way, the rows it has not settled keep its lease.
Abandon(w) ==
    /\ SetJob(w, Idle)
    /\ SetChan(w, NoChan)
    /\ adrift' = adrift \cup Range(chan[w].sent)

BatchDone(w) ==
    /\ job[w].pc = "send" /\ job[w].send = {}
    /\ Abandon(w)
    /\ UNCHANGED <<row, letter, replays, accepted, faults>>

----------------------------------------
\* The process dies or is stopped; every context-bound call then fails.
Crash(w) ==
    /\ job[w].pc # "idle"
    /\ Fault
    /\ Abandon(w)
    /\ UNCHANGED <<row, letter, replays, accepted>>

\* The connection is lost; confirmations already read by the client stay.
ChannelDies(w) ==
    /\ chan[w].open
    /\ Fault
    /\ \E n \in 0..Len(chan[w].confirms) :
          SetChan(w, [open |-> FALSE, sent |-> << >>,
                      confirms |-> SubSeq(chan[w].confirms, 1, n)])
    /\ adrift' = adrift \cup Range(chan[w].sent)
    /\ UNCHANGED <<row, letter, replays, job, accepted>>

\* The broker answers for the oldest message of a channel.
BrokerAnswers(w) ==
    /\ chan[w].sent # << >>
    /\ \E ack \in BOOLEAN :
          /\ accepted' = IF ack THEN accepted \cup {Head(chan[w].sent)} ELSE accepted
          /\ SetChan(w, [chan[w] EXCEPT !.sent = Tail(@), !.confirms = Append(@, ack)])
    /\ UNCHANGED <<row, letter, replays, job, adrift, faults>>

\* A message nobody waits for arrives after all, or is lost.
AdriftEnds(e) ==
    /\ e \in adrift
    /\ adrift' = adrift \ {e}
    /\ accepted' \in {accepted, accepted \cup {e}}
    /\ UNCHANGED <<row, letter, replays, job, chan, faults>>

\* A live publisher still has the event in its batch.
Held(e) == \E w \in Workers : Owns(w, e) /\ e \in job[w].todo \cup job[w].send

\* The lease its holder left behind runs out.
LeaseExpires(e) ==
    /\ row[e].leased /\ ~Held(e)
    /\ SetRow(e, [row[e] EXCEPT !.leased = FALSE])
    /\ UNCHANGED <<letter, replays, job, chan, adrift, accepted, faults>>

\* A batch takes longer than the lease: 50 events at up to 5 s each, against
\* 30 s.  The holder goes on, and its token is good until the next claim.
LeaseOverrun(e) ==
    /\ row[e].leased /\ Held(e)
    /\ Fault
    /\ SetRow(e, [row[e] EXCEPT !.leased = FALSE])
    /\ UNCHANGED <<letter, replays, job, chan, adrift, accepted>>

RetryDue(e) ==
    /\ ~row[e].due
    /\ SetRow(e, [row[e] EXCEPT !.due = TRUE])
    /\ UNCHANGED <<letter, replays, job, chan, adrift, accepted, faults>>

\* Mutant: the letter's status is not checked.
Replayable_Any(d) == letter[d] # "none" /\ Kind[d] \in {"malformed", "routable"}

Replayable(d) == letter[d] = "open" /\ Kind[d] \in {"malformed", "routable"}

\* An administrator replays an open dead letter as a new event of the same
\* type and payload.
Replay(d, e) ==
    /\ Replayable(d)
    /\ row[e].status = "absent" /\ Kind[e] = Kind[d]
    /\ SetRow(e, Fresh("pending"))
    /\ letter' = [letter EXCEPT ![d] = "replayed"]
    /\ replays' = replays \cup {<<d, e>>}
    /\ UNCHANGED <<job, chan, adrift, accepted, faults>>

----------------------------------------
Sort(w)   == MarkValidationDead(w) \/ MarkNoConsumer(w) \/ KeepRoutable(w) \/ OpenChannel(w)
Await(w)  == ReadConfirmation(w) \/ GiveUpWaiting(w)
Mark(w)   == MarkPublished(w) \/ MarkFailed(w)
Publisher(w) == ClaimBatch(w) \/ Sort(w) \/ PublishOne(w) \/ Await(w) \/ Mark(w) \/ BatchDone(w)

Next ==
    \/ \E w \in Workers : Publisher(w) \/ Crash(w) \/ ChannelDies(w) \/ BrokerAnswers(w)
    \/ \E e \in Events : Emit(e) \/ AdriftEnds(e) \/ LeaseExpires(e) \/ LeaseOverrun(e) \/ RetryDue(e)
    \/ \E d, e \in Events : Replay(d, e)

Spec == Init /\ [][Next]_vars

\* Publisher loops tick every 2 s, and time passes.  (Were every batch to
\* overrun its lease, two publishers could take an event from each other for
\* ever; the bound on faults excludes that.)
Fairness ==
    /\ \A w \in Workers : WF_vars(Publisher(w))
    /\ \A e \in Events : WF_vars(LeaseExpires(e)) /\ WF_vars(RetryDue(e))

LiveSpec == Spec /\ Fairness
----------------------------------------
\* Every variable keeps the shape of its table or Go value.
TypeOK ==
    /\ row \in [Events -> Row]
    /\ letter \in [Events -> {"none", "open", "replayed"}]
    /\ replays \subseteq Events \X Events
    /\ job \in [Workers -> Job]
    /\ chan \in [Workers -> Chan]
    /\ adrift \subseteq Events
    /\ accepted \subseteq Events
    /\ faults \in 0..MaxFaults

\* An event is given up exactly when there is a dead letter to show for it:
\* markValidationDead and markFailed write both in one transaction, whoever
\* else claims, publishes or replays meanwhile.
DeadHasLetter == \A e \in Events : row[e].status = "dead" <=> letter[e] # "none"

\* markFailed spends the whole retry budget before it gives an event up, and
\* no event stays pending with its budget spent, although the count it adds
\* to was read at claim time and another publisher may have claimed since.
RetryBudget ==
    \A e \in Events :
        /\ row[e].status = "pending" => row[e].retries < MaxRetries
        /\ row[e].status = "dead" /\ Kind[e] = "routable" => row[e].retries = MaxRetries

\* Each dead letter is replayed at most once, and only a replayed one has a
\* replay event (Replay locks the letter and tests its status).
ReplayedOnce ==
    \A d \in Events :
        Cardinality({e \in Events : <<d, e>> \in replays})
            = IF letter[d] = "replayed" THEN 1 ELSE 0

\* A row that was published, dropped or given up is never touched again: a
\* publisher that lost its lease cannot reopen or restate it.
SettledForGood ==
    [][\A e \in Events :
          row[e].status \in {"published", "no_consumer", "dead"} => row'[e] = row[e]]_vars

\* A recorded failure is never forgotten: a publisher that lost its lease
\* does not write back the retry count it read before the others' failures.
RetriesNeverUndone ==
    [][\A e \in Events : row'[e].retries >= row[e].retries]_vars

\* A row is marked published only for a message the broker took
\* (publishConfirmed waits for the publisher confirm).
PublishedReachedBroker ==
    \A e \in Events : row[e].status = "published" => e \in accepted

\* "RabbitMQ/Outbox delivers at least once": an event marked published has
\* reached the broker or is still on its way to it.
AtLeastOnce ==
    \A e \in Events :
        row[e].status = "published" =>
            \/ e \in accepted \cup adrift
            \/ \E w \in Workers : e \in Range(chan[w].sent)

\* Every event handed to the outbox is eventually published, dropped or
\* given up, whatever publisher dies holding its lease.
EventuallySettled ==
    \A e \in Events : row[e].status = "pending" ~> row[e].status # "pending"
=============================================================================
