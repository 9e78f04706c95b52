------------------------------ MODULE Realtime ------------------------------
(***************************************************************************)
(* Alerts over WebSocket (modules/realtime): events become rows for the    *)
(* riders they concern (mq_handler.go), wake-ups of the rows go through a  *)
(* Redis channel by the consumer and by the relay worker, and the hub of   *)
(* an API process hands them to the connections, which catch up from the   *)
(* rows when they open (service.go, hub.go). A merchant's alerts have no   *)
(* row: the wake-up carries them, and a connection that opens is told to   *)
(* read the order list.                                                    *)
(*                                                                         *)
(* One recipient, a rider or a merchant's account, with one device; one    *)
(* dispatch of one delivery, which opens to riders and ends. Rate limits,  *)
(* heartbeats and the other outcomes of an acknowledgement are left out;   *)
(* a protocol error or a missed pong is a client that leaves.              *)
(***************************************************************************)
EXTENDS Integers, Sequences, SequencesExt, FiniteSets, FiniteSetsExt

CONSTANTS Links,       \* connections, each with the ticket that opens it
          MaxLinks,    \* cfg.MaxConnectionsPerRider
          QueueSize,   \* cfg.SendQueueSize
          ResumeLimit, \* cfg.ResumeLimit
          RelayTries,  \* attempts before a row is dead: 10
          Stories,     \* bound: of AllStories, what may happen
          AlertIds,    \* bound: row ids
          AlertFaults  \* bound: failed calls, lost wake-ups, deaths of the worker, and what
                       \* ends sessions, rights, offers, connections and the process

ASSUME RealtimeAssumption ==
    /\ {MaxLinks, QueueSize, ResumeLimit, RelayTries} \subseteq Nat \ {0}
    /\ AlertFaults \in Nat /\ AlertIds \subseteq Nat \ {0} /\ IsFiniteSet(AlertIds)
    /\ IsFiniteSet(Links) /\ \A s \in Stories : s.who \in {"rider", "merchant"}

VARIABLES
    story,   \* what happens: the recipient, how the dispatch opens and ends
    handled, \* of the two events: "no", "after" (AfterCommit to come), "yes"
    alert,   \* realtime_deliveries rows by id
    wire,    \* wake-ups in the Redis channel
    missed,  \* rows a wake-up of which was lost
    batch,   \* rows the relay worker has claimed
    hub,     \* the wake-up the subscriber is at, and the connections it goes to
    link,    \* the connections
    acked,   \* rows this device acknowledged as closed
    signed,  \* the session is current and its access token valid
    allowed, \* the merchant's account still has the shop
    drain,   \* "no", "draining", "stopped"
    trouble

rtvars == <<story, handled, alert, wire, missed, batch, hub, link, acked, signed,
            allowed, drain, trouble>>

NoAlert  == [what |-> "none", status |-> "none", tries |-> 0, due |-> FALSE, live |-> FALSE]
NoLink   == [st |-> "none", resume |-> "due", plan |-> <<>>, queue |-> <<>>,
             got |-> {}, seen |-> {}, past |-> {}]
Ctl      == 0  \* a frame that carries no alert

\* What may happen. A rider who had an offer was a candidate of its job. The delivery
\* goes to this rider ("mine") or another.
Openings == {"offer.created", "grab.opened"}
Endings  == {"offer.expired", "manual_required", "assigned", "reassigned", "cancelled"}
AllStories ==
    {s \in [who : {"rider"}, open : Openings, end : Endings, mine : BOOLEAN] :
        /\ (s.end = "offer.expired" => s.open = "offer.created")
        /\ (s.mine => s.end \in {"assigned", "cancelled"})}
    \cup [who : {"merchant"}, open : {"order.paid"}, end : {"redemption_created"}, mine : {TRUE}]

RealtimeInit ==
    /\ story \in Stories
    /\ handled = [e \in {"open", "end"} |-> "no"]
    /\ alert = [i \in AlertIds |-> NoAlert]
    /\ wire = {} /\ missed = {} /\ batch = {}
    /\ hub = [at |-> 0, to |-> {}]
    /\ link = [k \in Links |-> NoLink]
    /\ acked = {} /\ signed = TRUE /\ allowed = TRUE /\ drain = "no" /\ trouble = 0

Mishap == trouble < AlertFaults /\ trouble' = trouble + 1

----------------------------------------
(* Events and rows. *)

\* closeJobTargets: who was a candidate, and who had an offer.
closeJobTargets == {"grab.closed"} \cup (IF story.open = "offer.created" THEN {"offer.closed"} ELSE {})

\* targets: the client events this rider gets of an event. A rejected offer is like an
\* expired one.
targets(type) ==
    CASE type = "offer.created"   -> {"offer.opened"}
      [] type = "grab.opened"     -> {"grab.opened"}
      [] type = "offer.expired"   -> {"offer.closed"}
      [] type = "manual_required" -> {"grab.closed"}
      [] type = "assigned"        -> IF story.mine THEN {"delivery.assigned"} ELSE closeJobTargets
      [] type = "reassigned"      -> closeJobTargets \cup {"grab.closed"}
      [] type = "cancelled"       -> closeJobTargets \cup (IF story.mine THEN {"grab.closed"} ELSE {})

\* Rows an event has; ids come from the process that handles it, so they are in no order
\* with those of other processes.
AlertsOf(e) == {i \in AlertIds : alert[i].what \in targets(story[e])}
Recorded  == {i \in AlertIds : alert[i].status \notin {"none", "gone"}}

\* Handle, in the transaction of the receipt. What opens may be over by now.
Handle(e) ==
    /\ story.who = "rider" /\ handled[e] = "no"
    /\ \E ids \in kSubset(Cardinality(targets(story[e])), {i \in AlertIds : alert[i] = NoAlert}) :
       \E name \in Bijection(ids, targets(story[e])) :
       \E live \in IF e = "open" THEN BOOLEAN ELSE {TRUE} :
          alert' = [i \in AlertIds |->
                       IF i \in ids THEN [NoAlert EXCEPT !.what = name[i], !.due = TRUE, !.live = live,
                                                         !.status = IF live THEN "pending" ELSE "expired"]
                       ELSE alert[i]]
    /\ handled' = [handled EXCEPT ![e] = "after"]
    /\ UNCHANGED <<story, wire, missed, batch, hub, link, acked, signed, allowed, drain, trouble>>

Relayed(ids) == [i \in AlertIds |-> IF i \in ids /\ alert[i].status \in {"pending", "relayed"}
                                    THEN [alert[i] EXCEPT !.status = "relayed"] ELSE alert[i]]

\* AfterCommit and PublishWakeups: first the channel, then the mark. For a rider's event
\* nothing hangs on it.
AfterCommitRider(e) ==
    /\ story.who = "rider" /\ handled[e] = "after"
    /\ handled' = [handled EXCEPT ![e] = "yes"]
    /\ LET live == {i \in AlertsOf(e) : alert[i].live}
       IN  \/ wire' = wire \cup live /\ alert' = Relayed(live) /\ UNCHANGED trouble
           \/ Mishap /\ wire' \in {wire, wire \cup live} /\ UNCHANGED alert
    /\ UNCHANGED <<story, missed, batch, hub, link, acked, signed, allowed, drain>>

\* For a merchant's event the receipt stays open until the channel has taken the wake-up
\* (RequiresSuccessfulAfterCommit), which goes to the accounts that have the shop now.
AfterCommitMerchant(e) ==
    LET i == IF e = "open" THEN 1 ELSE 2 IN
    /\ story.who = "merchant" /\ handled[e] # "yes"
    /\ wire' = IF allowed THEN wire \cup {i} ELSE wire
    /\ \/ handled' = [handled EXCEPT ![e] = "yes"] /\ UNCHANGED trouble
       \/ Mishap /\ handled' = [handled EXCEPT ![e] = "after"]
    /\ UNCHANGED <<story, alert, missed, batch, hub, link, acked, signed, allowed, drain>>

----------------------------------------
(* The relay worker. *)

\* claim: the rows that are due, for 30 seconds.
ClaimAlerts ==
    /\ batch = {}
    /\ LET ids == {i \in AlertIds : alert[i].status = "pending" /\ alert[i].due}
       IN  /\ ids # {} /\ batch' = ids
           /\ alert' = [i \in AlertIds |-> IF i \in ids
                           THEN [alert[i] EXCEPT !.due = FALSE, !.tries = @ + 1] ELSE alert[i]]
    /\ UNCHANGED <<story, handled, wire, missed, hub, link, acked, signed, allowed, drain, trouble>>

\* RunOnce, for one row: over, published, or failed (recordFailure, which looks at no
\* status).
RelayAlert(i) ==
    /\ i \in batch /\ batch' = batch \ {i}
    /\ \/ ~alert[i].live /\ alert' = [alert EXCEPT ![i].status = "expired"] /\ UNCHANGED <<wire, trouble>>
       \/ alert[i].live /\ wire' = wire \cup {i} /\ alert' = Relayed({i}) /\ UNCHANGED trouble
       \/ /\ alert[i].live /\ Mishap /\ wire' \in {wire, wire \cup {i}}
          /\ alert' = [alert EXCEPT ![i].status = IF alert[i].tries >= RelayTries THEN "dead" ELSE "pending",
                                    ![i].due = FALSE]
    /\ UNCHANGED <<story, handled, missed, hub, link, acked, signed, allowed, drain>>

WorkerDies ==
    /\ batch # {} /\ Mishap /\ batch' = {}
    /\ UNCHANGED <<story, handled, alert, wire, missed, hub, link, acked, signed, allowed, drain>>

\* next_relay_at, expires_at and the retention pass.
DueAgain(i) ==
    /\ alert[i].status = "pending" /\ ~alert[i].due
    /\ alert' = [alert EXCEPT ![i].due = TRUE]
    /\ UNCHANGED <<story, handled, wire, missed, batch, hub, link, acked, signed, allowed, drain, trouble>>

OfferIsOver(i) ==
    /\ alert[i].live /\ alert[i].what \in {"offer.opened", "grab.opened"}
    /\ alert' = [alert EXCEPT ![i].live = FALSE]
    /\ Mishap
    /\ UNCHANGED <<story, handled, wire, missed, batch, hub, link, acked, signed, allowed, drain>>

\* cleanup.
CleanUp(i) ==
    /\ i \in Recorded \ batch /\ ~alert[i].live
    /\ alert' = [alert EXCEPT ![i] = [NoAlert EXCEPT !.what = alert[i].what, !.status = "gone"]]
    /\ UNCHANGED <<story, handled, wire, missed, batch, hub, link, acked, signed, allowed, drain, trouble>>

----------------------------------------
(* Connections. *)

Registered == {k \in Links : link[k].st \in {"open", "closing"}}
CanRegister == drain = "no" /\ Cardinality(Registered) < MaxLinks

Free(k)    == Len(link[k].queue) < QueueSize
SetLink(k, st) == link' = [link EXCEPT ![k].st = st]

\* stop, and every other way to the end of a connection: it stays registered until Serve
\* returns, and what is queued does not go out any more.
Stopped(k) == [NoLink EXCEPT !.st = "closing", !.got = link[k].got]

\* IssueTicket and ConsumeTicket, which takes the ticket out of Redis whatever comes of
\* it. The second also stands for a ticket that runs out.
IssueTicket(k) ==
    /\ link[k].st = "none" /\ drain = "no" /\ signed
    /\ (story.who = "merchant" => allowed)
    /\ SetLink(k, "ticket")
    /\ UNCHANGED <<story, handled, alert, wire, missed, batch, hub, acked, signed, allowed, drain, trouble>>

ConsumeTicket(k) ==
    /\ link[k].st = "ticket" /\ drain = "no"
    /\ SetLink(k, IF signed /\ (story.who = "merchant" => allowed) /\ CanRegister
                  THEN "accepted" ELSE "closed")
    /\ UNCHANGED <<story, handled, alert, wire, missed, batch, hub, acked, signed, allowed, drain, trouble>>

TicketExpires(k) ==
    /\ link[k].st = "ticket" /\ SetLink(k, "closed")
    /\ UNCHANGED <<story, handled, alert, wire, missed, batch, hub, acked, signed, allowed, drain, trouble>>

\* Serve: register looks again, under the lock; the greeting is the first frame.
Serve(k) ==
    /\ link[k].st = "accepted"
    /\ link' = [link EXCEPT ![k] = IF CanRegister THEN [@ EXCEPT !.st = "open", !.queue = <<Ctl>>]
                                   ELSE [@ EXCEPT !.st = "closed"]]
    /\ UNCHANGED <<story, handled, alert, wire, missed, batch, hub, acked, signed, allowed, drain, trouble>>

\* What the device has had over all its connections.
Known == UNION {link[k].got : k \in Links}

\* Resume: the rows after the one the client names, without the closings it has
\* acknowledged.
ResumeRows(after) ==
    {i \in Recorded : i > after /\ alert[i].live
                      /\ ~(i \in acked /\ alert[i].what \in {"offer.closed", "grab.closed"})}

\* ORDER BY id.
ById(rows) ==
    {s \in [1..Cardinality(rows) -> rows] :
        Range(s) = rows /\ \A m, n \in DOMAIN s : m < n => s[m] < s[n]}

\* handleResume, once per connection, because the client asks or the timer does: reads the
\* rows, then queues them, or tells the client to fetch all, and ends with sync_complete.
\* past is what the reading passes over: everything there is when the client is told to
\* fetch it, and otherwise the closings it has acknowledged and the rows committed by now
\* whose ids are not above the one it names (id > ?): the device has them, or they were
\* overtaken by the higher id and no connection was there when they were announced.
ReadResume(k, after) ==
    LET rows == ResumeRows(after)
        all_ == story.who = "merchant" \/ Cardinality(rows) > ResumeLimit
    IN  /\ link[k].st = "open" /\ link[k].resume = "due"
        /\ after = 0 \/ (after = Max(Known \cup {0}) /\ story.who = "rider")
        /\ \E listed \in IF all_ THEN {<<Ctl>>} ELSE ById(rows) : link' = [link EXCEPT
              ![k].resume = "busy",
              ![k].plan = Append(listed, Ctl),
              ![k].past = IF story.who = "merchant"
                          THEN {i \in {1, 2} : handled[IF i = 1 THEN "open" ELSE "end"] # "no"}
                          ELSE IF all_ THEN Recorded ELSE {i \in Recorded : i \in acked \/ (i <= after /\ i \notin wire)}]
        /\ UNCHANGED <<story, handled, alert, wire, missed, batch, hub, acked, signed, allowed, drain, trouble>>

QueueResume(k) ==
    /\ link[k].st = "open" /\ link[k].resume = "busy"
    /\ link' = [link EXCEPT ![k] =
          IF ~Free(k) THEN [link[k] EXCEPT !.resume = "failed", !.plan = <<>>]
          ELSE [link[k] EXCEPT !.queue = Append(@, Head(link[k].plan)), !.plan = Tail(@),
                               !.resume = IF Len(link[k].plan) = 1 THEN "done" ELSE "busy"]]
    /\ UNCHANGED <<story, handled, alert, wire, missed, batch, hub, acked, signed, allowed, drain, trouble>>

\* sendError.
ResumeFailed(k) ==
    /\ link[k].st = "open" /\ link[k].resume = "failed"
    /\ link' = [link EXCEPT ![k] =
          IF Free(k) THEN [link[k] EXCEPT !.queue = Append(@, Ctl), !.resume = "told"]
          ELSE Stopped(k)]
    /\ UNCHANGED <<story, handled, alert, wire, missed, batch, hub, acked, signed, allowed, drain, trouble>>

\* writeLoop.
WriteFrame(k) ==
    /\ link[k].st = "open" /\ link[k].queue # <<>>
    /\ link' = [link EXCEPT ![k].queue = Tail(@), ![k].got = @ \cup ({Head(link[k].queue)} \ {Ctl})]
    /\ UNCHANGED <<story, handled, alert, wire, missed, batch, hub, acked, signed, allowed, drain, trouble>>

SessionCheck(k) ==
    /\ link[k].st = "open" /\ ~signed /\ link' = [link EXCEPT ![k] = Stopped(k)]
    /\ UNCHANGED <<story, handled, alert, wire, missed, batch, hub, acked, signed, allowed, drain, trouble>>

ClientLeaves(k) ==
    /\ link[k].st = "open" /\ link' = [link EXCEPT ![k] = Stopped(k)]
    /\ Mishap
    /\ UNCHANGED <<story, handled, alert, wire, missed, batch, hub, acked, signed, allowed, drain>>

\* The end of Serve.
Unregister(k) ==
    /\ link[k].st = "closing" /\ SetLink(k, "closed")
    /\ UNCHANGED <<story, handled, alert, wire, missed, batch, hub, acked, signed, allowed, drain, trouble>>

\* Acknowledge, with outcome closed.
Acknowledge(k, i) ==
    /\ story.who = "rider" /\ link[k].st = "open"
    /\ i \in link[k].got \ acked /\ alert[i].what \in {"offer.closed", "grab.closed"}
    /\ acked' = acked \cup {i}
    /\ link' = [link EXCEPT ![k].queue = IF Free(k) THEN Append(@, Ctl) ELSE @]
    /\ UNCHANGED <<story, handled, alert, wire, missed, batch, hub, signed, allowed, drain, trouble>>

----------------------------------------
(* The hub's subscriber, one wake-up after the other. *)

\* RunSubscriber, and the connections as Deliver and DeliverMerchant read them.
TakeWakeup(i) ==
    /\ i \in wire /\ hub.at = 0 /\ drain # "stopped"
    /\ wire' = wire \ {i}
    /\ hub' = IF Registered = {} THEN hub ELSE [at |-> i, to |-> Registered]
    /\ UNCHANGED <<story, handled, alert, missed, batch, link, acked, signed, allowed, drain, trouble>>

\* The channel keeps nothing: a subscriber that is away has missed it.
WakeupLost(i) ==
    /\ i \in wire /\ Mishap
    /\ wire' = wire \ {i} /\ missed' = missed \cup {i}
    /\ UNCHANGED <<story, handled, alert, batch, hub, link, acked, signed, allowed, drain>>

\* Deliver: LoadDelivery, then one frame for each; a full queue ends the connection.
Queued(k, i) == IF Free(k) THEN [link[k] EXCEPT !.queue = Append(@, i)] ELSE Stopped(k)
OpenLink(k) == link[k].st = "open"

Deliver ==
    /\ hub.at # 0 /\ story.who = "rider"
    /\ link' = IF alert[hub.at].live
               THEN [k \in Links |-> IF k \in hub.to /\ OpenLink(k) THEN Queued(k, hub.at) ELSE link[k]]
               ELSE link
    /\ hub' = [at |-> 0, to |-> {}]
    /\ UNCHANGED <<story, handled, alert, wire, missed, batch, acked, signed, allowed, drain, trouble>>

\* DeliverMerchant: MerchantAccountAuthorized asks the database again; markEvent keeps a
\* connection from hearing of an event twice.
DeliverMerchant ==
    /\ hub.at # 0 /\ story.who = "merchant"
    /\ link' = IF allowed
               THEN [k \in Links |-> IF k \in hub.to /\ OpenLink(k) /\ hub.at \notin link[k].seen
                                     THEN [Queued(k, hub.at) EXCEPT !.seen = @ \cup {hub.at}] ELSE link[k]]
               ELSE link
    /\ hub' = [at |-> 0, to |-> {}]
    /\ UNCHANGED <<story, handled, alert, wire, missed, batch, acked, signed, allowed, drain, trouble>>

----------------------------------------
(* Around it: sign-out, the shop taken away, and the end of the process. *)

SessionEnded ==
    /\ signed /\ signed' = FALSE
    /\ Mishap
    /\ UNCHANGED <<story, handled, alert, wire, missed, batch, hub, link, acked, allowed, drain>>

ShopTakenAway ==
    /\ story.who = "merchant" /\ allowed /\ allowed' = FALSE
    /\ Mishap
    /\ UNCHANGED <<story, handled, alert, wire, missed, batch, hub, link, acked, signed, drain>>

\* Shutdown: no new connections, a frame for those there are, and when their time is up
\* they are cut.
Shutdown ==
    /\ drain = "no" /\ drain' = "draining"
    /\ link' = [k \in Links |-> IF OpenLink(k) THEN Queued(k, Ctl) ELSE link[k]]
    /\ Mishap
    /\ UNCHANGED <<story, handled, alert, wire, missed, batch, hub, acked, signed, allowed>>

ShutdownEnds ==
    /\ drain = "draining" /\ drain' = "stopped"
    /\ link' = [k \in Links |-> IF OpenLink(k) THEN Stopped(k) ELSE link[k]]
    /\ UNCHANGED <<story, handled, alert, wire, missed, batch, hub, acked, signed, allowed, trouble>>

LinkStep(k) ==
    \/ ConsumeTicket(k) \/ TicketExpires(k) \/ Serve(k) \/ QueueResume(k) \/ ResumeFailed(k)
    \/ WriteFrame(k) \/ SessionCheck(k) \/ Unregister(k) \/ \E after \in AlertIds \cup {0} : ReadResume(k, after)

RealtimeNext ==
    \/ \E e \in {"open", "end"} : Handle(e) \/ AfterCommitRider(e) \/ AfterCommitMerchant(e)
    \/ ClaimAlerts \/ WorkerDies \/ Deliver \/ DeliverMerchant
    \/ SessionEnded \/ ShopTakenAway \/ Shutdown \/ ShutdownEnds
    \/ \E i \in AlertIds : RelayAlert(i) \/ DueAgain(i) \/ OfferIsOver(i) \/ CleanUp(i)
                            \/ TakeWakeup(i) \/ WakeupLost(i)
    \/ \E k \in Links : IssueTicket(k) \/ ClientLeaves(k) \/ LinkStep(k)
                         \/ \E i \in AlertIds : Acknowledge(k, i)

RealtimeSpec == RealtimeInit /\ [][RealtimeNext]_rtvars

----------------------------------------
\* Nothing falls between catching up and being woken: an open connection that has caught up
\* has every live row announced since, or will: the wake-up is under way, unless Redis lost
\* it. Excepted are the rows the reading passed over, which were committed and announced
\* before it with ids up to the client's; those committed or announced later are not, however
\* low their ids. Registering comes before reading the rows, and a row is committed before
\* its wake-up (Serve, handleResume, AfterCommit, Deliver).
NothingSlips ==
    \A k \in Links, i \in AlertIds :
        /\ link[k].st = "open" /\ link[k].resume = "done"
        /\ i \notin link[k].past \cup wire \cup missed \cup {hub.at} \cup acked
        /\ IF story.who = "rider" THEN alert[i].live /\ alert[i].status = "relayed"
           ELSE allowed /\ i \in {1, 2} /\ handled[IF i = 1 THEN "open" ELSE "end"] = "yes"
        => i \in link[k].got \cup Range(link[k].queue)

\* A merchant's connection is told of an event once, however often the wake-up is sent
\* (markEvent).
ToldOnce ==
    story.who = "merchant" => \A k \in Links : \A i \in {1, 2} :
        Cardinality({n \in DOMAIN link[k].queue : link[k].queue[n] = i})
            + (IF i \in link[k].got THEN 1 ELSE 0) <= 1

\* The hub keeps its bounds under races of tickets, connections and shutdown: never more
\* connections than a recipient may have, none that opens once the process drains.
HubHoldsItsBounds ==
    /\ Cardinality(Registered) <= MaxLinks
    /\ (drain = "stopped" => \A k \in Links : link[k].st # "open")

AlertsReach == NothingSlips /\ ToldOnce /\ HubHoldsItsBounds
=============================================================================
