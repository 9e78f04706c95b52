------------------------------ MODULE Consumer ------------------------------
(***************************************************************************)
(* The consumer runtime (mq/consumer_runtime.go), the dead sink            *)
(* (mq/dead_sink.go) and the database scans that stand in for the broker   *)
(* (mq/cache_fallback.go, notification/worker.go).                         *)
(*                                                                         *)
(* A receipt row exists per (consumer name, event id), so the unit here is *)
(* the pair: Pairs are the pairs of a consumer and an event, and what      *)
(* differs between consumers is the kind:                                   *)
(*   "plain"      the handler's rows are all there is to do;               *)
(*   "reliable"   the receipt may close only after a successful fan-out    *)
(*                (ReliableAfterCommitConsumerHandler);                    *)
(*   "inbox"      a scan materialises events with no row and no receipt;   *)
(*   "cache"      a scan reprocesses events with no succeeded receipt;     *)
(*   "malformed"  the envelope does not decode or is not routed here.      *)
(*                                                                         *)
(* Copies of one message that carry the same x-retry-count cannot be told  *)
(* apart, so a queue is a count of copies per pair and retry count.        *)
(***************************************************************************)
EXTENDS Naturals

CONSTANTS Pairs,        \* (consumer, event) pairs
          KindSet,      \* the kinds of consumer and event a pair may be of
          Sessions,     \* channels that consume, of all worker processes
          MaxSends,     \* bound: copies the outbox publisher sends of an event
          MaxRetry,     \* len(spec.RetryDelays)
          MaxFaults     \* bound: process deaths, broker and database errors

Kinds == {"plain", "reliable", "inbox", "cache", "malformed"}

NoPair == "none"

ASSUME ConsumerAssumption ==
    /\ KindSet \subseteq Kinds /\ NoPair \notin Pairs
    /\ MaxSends \in Nat /\ MaxRetry \in Nat /\ MaxFaults \in Nat

VARIABLES
    kind,      \* the kind of each pair, fixed by the registry and the handler
    sent,      \* copies the publisher sent of each event
    ready,     \* copies waiting in the consumer's queue, by retry count
    delayed,   \* copies waiting in its delay queues, by retry count
    deadq,     \* copies waiting in its dead queue
    receipt,   \* mq_consumer_receipts.status, or "none"
    effect,    \* are the handler's rows there?
    posted,    \* did a fan-out after the commit succeed?
    letter,    \* mq_dead_letters.status of the pair's last letter, or "none"
    sess,      \* what each session is doing
    faults,    \* faults so far
    misjudged  \* pairs whose publish was judged by another publish's answer, or by the
               \* confirm of a message that was returned

cvars == <<kind, sent, ready, delayed, deadq, receipt, effect, posted, letter, sess,
           faults, misjudged>>

Retries == 0..MaxRetry
Steps   == {"idle", "got", "post", "close", "fail", "retry", "dead", "mark", "ack"}

\* A session that holds no copy; late, if an answer of the broker is still under way to it.
Resting(late) == [pc |-> "idle", pair |-> NoPair, retry |-> 0, terminal |-> FALSE, late |-> late]

TypeOK ==
    /\ kind \in [Pairs -> Kinds]
    /\ sent \in [Pairs -> 0..MaxSends]
    /\ ready \in [Pairs -> [Retries -> Nat]]
    /\ delayed \in [Pairs -> [Retries -> Nat]]
    /\ deadq \in [Pairs -> Nat]
    /\ receipt \in [Pairs -> {"none", "processing", "post_commit", "succeeded", "dead"}]
    /\ effect \in [Pairs -> BOOLEAN]
    /\ posted \in [Pairs -> BOOLEAN]
    /\ letter \in [Pairs -> {"none", "open", "replayed"}]
    /\ sess \in [Sessions -> [pc : Steps, pair : Pairs \cup {NoPair}, retry : Retries,
                             terminal : BOOLEAN, late : BOOLEAN]]
    /\ \A s \in Sessions : sess[s].pc # "idle" => sess[s].pair \in Pairs
    /\ faults \in 0..MaxFaults
    /\ misjudged \subseteq Pairs

ConsumerInit ==
    /\ kind \in [Pairs -> KindSet]
    /\ sent = [p \in Pairs |-> 0]
    /\ ready = [p \in Pairs |-> [k \in Retries |-> 0]]
    /\ delayed = [p \in Pairs |-> [k \in Retries |-> 0]]
    /\ deadq = [p \in Pairs |-> 0]
    /\ receipt = [p \in Pairs |-> "none"]
    /\ effect = [p \in Pairs |-> FALSE]
    /\ posted = [p \in Pairs |-> FALSE]
    /\ letter = [p \in Pairs |-> "none"]
    /\ sess = [s \in Sessions |-> Resting(FALSE)]
    /\ faults = 0
    /\ misjudged = {}

----------------------------------------
Fault == faults < MaxFaults /\ faults' = faults + 1

Enqueued(queue, p, k) == [queue EXCEPT ![p][k] = @ + 1]
Take(queue, p, k) == [queue EXCEPT ![p][k] = @ - 1]

At(s, pc) == sess[s].pc = pc
Goto(s, pc) == sess' = [sess EXCEPT ![s].pc = pc]
SessionIdle(s) == Resting(sess[s].late)

\* delivery.Nack(false, true): the copy goes back as it was.
Requeue(s) ==
    /\ ready' = Enqueued(ready, sess[s].pair, sess[s].retry)
    /\ sess' = [sess EXCEPT ![s] = SessionIdle(s)]

----------------------------------------
(* The broker.                                                             *)

\* The outbox publisher routes a copy to the consumer's queue; a publisher
\* that dies before it marks the row sends another.
Send(p) ==
    /\ sent[p] < MaxSends
    /\ sent' = [sent EXCEPT ![p] = @ + 1]
    /\ ready' = Enqueued(ready, p, 0)
    /\ UNCHANGED <<kind, delayed, deadq, receipt, effect, posted, letter, sess, faults, misjudged>>

\* A delay queue's TTL returns its copy to the consumer's queue.
DelayExpires(p, k) ==
    /\ delayed[p][k] > 0
    /\ delayed' = Take(delayed, p, k)
    /\ ready' = Enqueued(ready, p, k)
    /\ UNCHANGED <<kind, sent, deadq, receipt, effect, posted, letter, sess, faults, misjudged>>

\* The worker process dies or its channel closes: the broker requeues what was
\* not acknowledged, and answers still under way go nowhere.
SessionEnds(s) ==
    /\ ~At(s, "idle")
    /\ Fault
    /\ ready' = Enqueued(ready, sess[s].pair, sess[s].retry)
    /\ sess' = [sess EXCEPT ![s] = Resting(FALSE)]
    /\ UNCHANGED <<kind, sent, delayed, deadq, receipt, effect, posted, letter, misjudged>>

----------------------------------------
(* handleDelivery.                                                         *)

\* consumeSession takes a delivery. A body that does not decode, or that this
\* consumer must not get, goes to the dead exchange without a receipt.
ReceiveMessage(s, p, k) ==
    /\ At(s, "idle")
    /\ ready[p][k] > 0
    /\ ready' = Take(ready, p, k)
    /\ sess' = [sess EXCEPT ![s] = [pc |-> IF kind[p] = "malformed" THEN "dead" ELSE "got",
                                    pair |-> p, retry |-> k,
                                    terminal |-> kind[p] = "malformed", late |-> @.late]]
    /\ UNCHANGED <<kind, sent, delayed, deadq, receipt, effect, posted, letter, faults, misjudged>>

\* processEnvelope finds the receipt succeeded and reports a duplicate.
ProcessDuplicate(s) ==
    /\ At(s, "got")
    /\ receipt[sess[s].pair] = "succeeded"
    /\ Goto(s, "ack")
    /\ UNCHANGED <<kind, sent, ready, delayed, deadq, receipt, effect, posted, letter, faults, misjudged>>

\* processEnvelope: the handler's rows and the receipt commit together. The rows
\* are inserted with ON CONFLICT DO NOTHING, so a second time changes nothing.
HandledStatus(p) == IF kind[p] = "reliable" THEN "post_commit" ELSE "succeeded"

ProcessEnvelope(s) ==
    LET p == sess[s].pair IN
    /\ At(s, "got")
    /\ receipt[p] # "succeeded"
    /\ effect' = [effect EXCEPT ![p] = TRUE]
    /\ receipt' = [receipt EXCEPT ![p] = HandledStatus(p)]
    /\ Goto(s, IF kind[p] = "reliable" THEN "post" ELSE "ack")
    /\ UNCHANGED <<kind, sent, ready, delayed, deadq, posted, letter, faults, misjudged>>

\* processEnvelope: the handler fails and everything is rolled back, the seeded
\* receipt too. classifyConsumerError says whether a retry can help.
ProcessFails(s, terminal) ==
    /\ At(s, "got")
    /\ receipt[sess[s].pair] # "succeeded"
    /\ sess' = [sess EXCEPT ![s].pc = "fail", ![s].terminal = terminal]
    /\ UNCHANGED <<kind, sent, ready, delayed, deadq, receipt, effect, posted, letter, faults, misjudged>>

\* finalizeAfterCommit: the fan-out of a reliable handler ...
AfterCommit(s) ==
    /\ At(s, "post")
    /\ \/ /\ posted' = [posted EXCEPT ![sess[s].pair] = TRUE]
          /\ Goto(s, "close")
       \/ /\ Goto(s, "fail")
          /\ UNCHANGED posted
    /\ UNCHANGED <<kind, sent, ready, delayed, deadq, receipt, effect, letter, faults, misjudged>>

\* ... and the receipt it closes unless another delivery made it dead.
CloseReceipt(s) ==
    LET p == sess[s].pair IN
    /\ At(s, "close")
    /\ \/ /\ receipt[p] \notin {"dead", "none"}
          /\ receipt' = [receipt EXCEPT ![p] = "succeeded"]
          /\ Goto(s, "ack")
          /\ UNCHANGED faults
       \/ /\ receipt[p] \in {"dead", "none"}
          /\ Goto(s, "fail")
          /\ UNCHANGED <<receipt, faults>>
       \/ /\ Fault
          /\ Goto(s, "fail")
          /\ UNCHANGED receipt
    /\ UNCHANGED <<kind, sent, ready, delayed, deadq, effect, posted, letter, misjudged>>

\* recordFailure: an upsert that makes the receipt processing whatever it was.
Exhausted(s) == sess[s].terminal \/ sess[s].retry + 1 > MaxRetry

RecordFailure(s) ==
    /\ At(s, "fail")
    /\ \/ /\ receipt' = [receipt EXCEPT ![sess[s].pair] = "processing"]
          /\ Goto(s, IF Exhausted(s) THEN "dead" ELSE "retry")
          /\ UNCHANGED <<ready, faults>>
       \/ /\ Fault
          /\ Requeue(s)
          /\ UNCHANGED receipt
    /\ UNCHANGED <<kind, sent, delayed, deadq, effect, posted, letter, misjudged>>

\* publishConfirmed, for a copy that goes to one of the two queues. A wait that
\* ends first leaves the broker's answer in the channel, and the next publish on
\* this channel takes that answer for its own.
Publish(s, next, arrives) ==
    \/ /\ ~sess[s].late
       /\ arrives
       /\ Goto(s, next)
       /\ UNCHANGED <<ready, faults, misjudged>>
    \/ /\ sess[s].late
       /\ \/ arrives /\ UNCHANGED misjudged
          \/ /\ UNCHANGED <<delayed, deadq>>
             /\ misjudged' = misjudged \cup {sess[s].pair}
       /\ Goto(s, next)
       /\ UNCHANGED <<ready, faults>>
    \/ /\ Fault                                    \* the wait for the answer ends
       /\ arrives
       /\ ready' = Enqueued(ready, sess[s].pair, sess[s].retry)
       /\ sess' = [sess EXCEPT ![s] = Resting(TRUE)]
       /\ UNCHANGED misjudged
    \/ /\ Fault                                    \* returned, and then confirmed: either is read first
       /\ \/ /\ ready' = Enqueued(ready, sess[s].pair, sess[s].retry)
             /\ sess' = [sess EXCEPT ![s] = Resting(TRUE)]
             /\ UNCHANGED misjudged
          \/ /\ Goto(s, next)
             /\ misjudged' = misjudged \cup {sess[s].pair}
             /\ UNCHANGED ready
       /\ UNCHANGED <<delayed, deadq>>
    \/ /\ Fault                                    \* refused or not sent
       /\ Requeue(s)
       /\ UNCHANGED <<delayed, deadq, misjudged>>

\* retry: a copy with the next retry count to the delay exchange, then the ack.
\* mutant: acknowledges although the retry copy was not taken.
RetryUnconfirmed(s) ==
    /\ At(s, "retry")
    /\ Goto(s, "ack")
    /\ \/ delayed' = Enqueued(delayed, sess[s].pair, sess[s].retry + 1) /\ UNCHANGED faults
       \/ Fault /\ UNCHANGED delayed
    /\ UNCHANGED <<kind, sent, ready, deadq, receipt, effect, posted, letter, misjudged>>

RetryLater(s) ==
    LET p == sess[s].pair
        k == sess[s].retry + 1
    IN /\ At(s, "retry")
       /\ Publish(s, "ack", delayed' = Enqueued(delayed, p, k) /\ UNCHANGED deadq)
       /\ UNCHANGED <<kind, sent, receipt, effect, posted, letter>>

\* deadLetter: a copy to the dead exchange, ...
DeadLetter(s) ==
    /\ At(s, "dead")
    /\ Publish(s, "mark", deadq' = [deadq EXCEPT ![sess[s].pair] = @ + 1] /\ UNCHANGED delayed)
    /\ UNCHANGED <<kind, sent, receipt, effect, posted, letter>>

\* ... then the receipt, if there is one, whatever its status, then the ack.
MarkDead(s) ==
    LET p == sess[s].pair IN
    /\ At(s, "mark")
    /\ \/ /\ receipt' = [receipt EXCEPT ![p] = IF @ = "none" THEN "none" ELSE "dead"]
          /\ Goto(s, "ack")
          /\ UNCHANGED <<ready, faults>>
       \/ /\ Fault
          /\ Requeue(s)
          /\ UNCHANGED receipt
    /\ UNCHANGED <<kind, sent, delayed, deadq, effect, posted, letter, misjudged>>

Ack(s) ==
    /\ At(s, "ack")
    /\ sess' = [sess EXCEPT ![s] = SessionIdle(s)]
    /\ UNCHANGED <<kind, sent, ready, delayed, deadq, receipt, effect, posted, letter, faults, misjudged>>

----------------------------------------
(* The dead sink, the administrator and the scans.                         *)

\* DeadSink.persist writes a letter unless one is open, then acknowledges; the
\* sink may die in between and persist the same copy again.
Persist(p) ==
    /\ deadq[p] > 0
    /\ letter' = [letter EXCEPT ![p] = "open"]
    /\ \/ deadq' = [deadq EXCEPT ![p] = @ - 1] /\ UNCHANGED faults
       \/ Fault /\ UNCHANGED deadq
    /\ UNCHANGED <<kind, sent, ready, delayed, receipt, effect, posted, sess, misjudged>>

\* AdminService.Replay: the letter is replayed under a new event id.
Replay(p) ==
    /\ letter[p] = "open"
    /\ kind[p] # "malformed"
    /\ letter' = [letter EXCEPT ![p] = "replayed"]
    /\ UNCHANGED <<kind, sent, ready, delayed, deadq, receipt, effect, posted, sess, faults, misjudged>>

\* Worker.fanout and createForEvent: rows and a succeeded receipt, in one
\* transaction, for an event that has neither.
Fanout(p) ==
    /\ kind[p] = "inbox"
    /\ ~effect[p] /\ receipt[p] # "succeeded"
    /\ effect' = [effect EXCEPT ![p] = TRUE]
    /\ receipt' = [receipt EXCEPT ![p] = "succeeded"]
    /\ UNCHANGED <<kind, sent, ready, delayed, deadq, posted, letter, sess, faults, misjudged>>

\* CacheFallbackWorker.reconcile: processEnvelope again for an event without a
\* succeeded receipt; a failure is recorded as a first attempt.
ReconcileReceipt(p) ==
    /\ kind[p] = "cache"
    /\ receipt[p] # "succeeded"
    /\ \/ /\ effect' = [effect EXCEPT ![p] = TRUE]
          /\ receipt' = [receipt EXCEPT ![p] = "succeeded"]
       \/ /\ receipt' = [receipt EXCEPT ![p] = "processing"]
          /\ UNCHANGED effect
    /\ UNCHANGED <<kind, sent, ready, delayed, deadq, posted, letter, sess, faults, misjudged>>

----------------------------------------
Work(s) ==
    \/ ProcessDuplicate(s) \/ ProcessEnvelope(s)
    \/ \E terminal \in BOOLEAN : ProcessFails(s, terminal)
    \/ AfterCommit(s) \/ CloseReceipt(s) \/ RecordFailure(s)
    \/ RetryLater(s) \/ DeadLetter(s) \/ MarkDead(s) \/ Ack(s)

ConsumerNext ==
    \/ \E p \in Pairs : Send(p) \/ Persist(p) \/ Replay(p) \/ Fanout(p) \/ ReconcileReceipt(p)
    \/ \E p \in Pairs, k \in Retries : DelayExpires(p, k)
    \/ \E s \in Sessions, p \in Pairs, k \in Retries : ReceiveMessage(s, p, k)
    \/ \E s \in Sessions : Work(s) \/ SessionEnds(s)

\* A live session keeps working, a consumer with copies waiting has a session
\* that takes them, delays end and the sink runs.
ConsumerFairness ==
    /\ \A s \in Sessions : WF_cvars(Work(s))
    /\ \A p \in Pairs, k \in Retries :
          /\ WF_cvars(\E s \in Sessions : ReceiveMessage(s, p, k))
          /\ WF_cvars(DelayExpires(p, k))
    /\ \A p \in Pairs : WF_cvars(Persist(p))

ConsumerSpec == ConsumerInit /\ [][ConsumerNext]_cvars /\ ConsumerFairness

----------------------------------------
(* Properties.                                                             *)

\* A copy of the pair's message is somewhere a session or the sink will find it.
InBroker(p) ==
    \/ \E k \in Retries : ready[p][k] > 0 \/ delayed[p][k] > 0
    \/ deadq[p] > 0
    \/ \E s \in Sessions : ~At(s, "idle") /\ sess[s].pair = p

Done(p) == effect[p] /\ (kind[p] = "reliable" => posted[p])

\* Every message the publisher handed over is handled, or still in a queue, or
\* kept as a dead letter, through crashes, refused publishes and failing database
\* writes of handleDelivery, retry and deadLetter: a copy is acknowledged only when
\* what replaces it is safe. The one way around it is publishConfirmed reading a
\* confirm that does not vouch for this copy: that of an earlier publish, or its own
\* although it was returned.
NothingLost ==
    \A p \in Pairs : sent[p] > 0 /\ p \notin misjudged =>
        Done(p) \/ InBroker(p) \/ letter[p] # "none"

\* A receipt that says succeeded is true: the handler's rows are there and, for a
\* handler whose fan-out must succeed, so is the fan-out, whichever deliveries of the
\* event raced (processEnvelope, finalizeAfterCommit, the scans).
SucceededIsDone == \A p \in Pairs : receipt[p] = "succeeded" => Done(p)

\* A receipt that says dead has somebody to answer for it: a letter an operator can
\* replay, or a copy on its way to the dead sink (deadLetter publishes first and
\* marks the receipt afterwards).
DeadIsReported ==
    \A p \in Pairs : receipt[p] = "dead" /\ p \notin misjudged =>
        letter[p] # "none" \/ deadq[p] > 0

\* No message is lost between the broker, the receipts and the dead letters, a receipt
\* reads succeeded only when the handler's effect is there, and dead only when a letter
\* reports it (consumer_runtime, dead_sink).
MessagesKept == TypeOK /\ NothingLost /\ SucceededIsDone /\ DeadIsReported

\* Where every receipt must get to: although recordFailure reopens a receipt that
\* another delivery has just closed, in the end every pair that was delivered is
\* succeeded or dead for good. (Not so for cache events: the scan reopens a dead
\* receipt each time it fails.)
ReceiptsSettled ==
    \A p \in Pairs : \/ sent[p] = 0 \/ kind[p] \in {"malformed", "cache"} \/ p \in misjudged
                     \/ receipt[p] \in {"succeeded", "dead"}
=============================================================================
