---------------------------- MODULE OutboxProofs ----------------------------
(* Safety of the outbox for every set of events, publishers and tokens. *)
EXTENDS Outbox, FiniteSetTheorems, WellFoundedInduction, SequenceTheorems, TLAPS

\* A batch that is not empty has a first event.
LEMMA FirstOf ==
    ASSUME NEW S, S \subseteq Nat, S # {}
    PROVE  First(S) \in S
<1> DEFINE less == {p \in Nat \X Nat : p[1] < p[2]}
<1>1. IsWellFoundedOn(less, Nat) BY NatLessThanWellFounded DEF OpToRel
<1> HIDE DEF less
<1>2. PICK x \in S : \A y \in S : ~(<<y, x>> \in less) BY <1>1, WFMin
<1>3. ASSUME NEW y \in S
      PROVE  x <= y
 <2>1. x \in Nat /\ y \in Nat /\ <<y, x>> \in Nat \X Nat OBVIOUS
 <2>2. ~(y < x) BY <1>2, <2>1 DEF less
 <2> QED BY <2>1, <2>2
<1> QED BY <1>3 DEF First

----------------------------------------
\* What the columns of a row say of each other: a lease has an owner, and
\* only a pending row that is due can have one.
RowsOK ==
    \A e \in Events :
        /\ row[e].leased => row[e].owner # NoToken
        /\ row[e].owner # NoToken => row[e].status = "pending" /\ row[e].due
        /\ ~row[e].due => row[e].status = "pending"
        /\ row[e].status = "absent" => row[e].retries = 0

\* A publisher at work holds a token, and has an event in hand while it
\* waits for it or records its outcome.
JobsOK ==
    \A w \in Workers :
        /\ job[w].pc # "idle" => job[w].token # NoToken
        /\ job[w].pc \in {"await", "confirmed", "failed"} => job[w].send # {}

\* Why the token fences: while a row carries it, the retry count read at the
\* claim is the row's.
ReadsCurrent ==
    \A w \in Workers, e \in Events :
        job[w].token # NoToken /\ row[e].owner = job[w].token
            => job[w].read[e] = row[e].retries

IInv == TypeOK /\ RowsOK /\ DeadHasLetter /\ RetryBudget /\ JobsOK /\ ReadsCurrent

----------------------------------------
\* What the setters do to the variable they assign.
LEMMA RowFacts ==
    ASSUME row \in [Events -> Row], NEW e \in Events, NEW r \in Row, SetRow(e, r)
    PROVE  /\ row' \in [Events -> Row] /\ row'[e] = r
           /\ \A f \in Events : f # e => row'[f] = row[f]
BY DEF SetRow

LEMMA JobFacts ==
    ASSUME job \in [Workers -> Job], NEW w \in Workers, NEW j \in Job, SetJob(w, j)
    PROVE  /\ job' \in [Workers -> Job] /\ job'[w] = j
           /\ \A v \in Workers : v # w => job'[v] = job[v]
BY DEF SetJob

LEMMA ChanFacts ==
    ASSUME chan \in [Workers -> Chan], NEW w \in Workers, NEW c \in Chan, SetChan(w, c)
    PROVE  /\ chan' \in [Workers -> Chan] /\ chan'[w] = c
           /\ \A v \in Workers : v # w => chan'[v] = chan[v]
BY DEF SetChan

LEMMA LetterFacts ==
    ASSUME TypeOK, NEW e \in Events, CreateDeadLetter(e)
    PROVE  /\ letter' \in [Events -> {"none", "open", "replayed"}] /\ letter'[e] # "none"
           /\ \A f \in Events : f # e => letter'[f] = letter[f]
BY DEF TypeOK, CreateDeadLetter

LEMMA FaultFacts ==
    ASSUME TypeOK, Fault \/ UNCHANGED faults
    PROVE  faults' \in 0..MaxFaults
BY OutboxAssumption DEF TypeOK, Fault

LEMMA StatementFacts ==
    ASSUME TypeOK, NEW ok \in BOOLEAN, Statement(ok)
    PROVE  faults' \in 0..MaxFaults
BY FaultFacts DEF Statement

\* The event a publisher has in hand.
LEMMA InHand ==
    ASSUME TypeOK, NEW w \in Workers
    PROVE  /\ job[w].todo # {} => First(job[w].todo) \in job[w].todo
           /\ job[w].send # {} => First(job[w].send) \in job[w].send
           /\ job[w] \in Job
<1>1. job[w] \in Job BY DEF TypeOK
<1>2. job[w].todo \subseteq Nat /\ job[w].send \subseteq Nat BY <1>1, OutboxAssumption DEF Job
<1> QED BY <1>1, <1>2, FirstOf

\* The messages of a channel are events.
LEMMA Messages ==
    ASSUME TypeOK, NEW w \in Workers
    PROVE  /\ chan[w] \in Chan /\ Range(chan[w].sent) \subseteq Events
<1>1. chan[w] \in Chan BY DEF TypeOK
<1>2. chan[w].sent \in Seq(Events) BY <1>1 DEF Chan
<1>3. DOMAIN chan[w].sent = 1..Len(chan[w].sent) BY <1>2
<1>4. \A i \in 1..Len(chan[w].sent) : chan[w].sent[i] \in Events BY <1>2
<1> QED BY <1>1, <1>3, <1>4 DEF Range

LEMMA Constructors ==
    /\ Idle \in Job /\ NoChan \in Chan /\ NewChan \in Chan /\ \A s \in Statuses : Fresh(s) \in Row
    /\ \A s \in Statuses, n \in Nat, d \in BOOLEAN : Settled(s, n, d) \in Row
<1>1. Idle \in Job BY DEF Idle, Job, PCs
<1>2. NoChan \in Chan /\ NewChan \in Chan
 <2>1. << >> \in Seq(Events) /\ << >> \in Seq(BOOLEAN) OBVIOUS
 <2> QED BY <2>1 DEF NoChan, NewChan, Chan
<1>3. \A s \in Statuses : Fresh(s) \in Row BY DEF Fresh, Row
<1>4. \A s \in Statuses, n \in Nat, d \in BOOLEAN : Settled(s, n, d) \in Row BY DEF Settled, Row
<1> QED BY <1>1, <1>2, <1>3, <1>4

----------------------------------------
\* The part of the invariant about rows and letters, and the part about jobs.
TableInv == RowsOK /\ DeadHasLetter /\ RetryBudget
JobInv   == JobsOK /\ ReadsCurrent

LEMMA TablesKept ==
    ASSUME TableInv, UNCHANGED <<row, letter>>
    PROVE  TableInv'
BY DEF TableInv, RowsOK, DeadHasLetter, RetryBudget

\* A row gets a new value that agrees with its letter.
LEMMA RowWritten ==
    ASSUME TypeOK, TableInv, NEW e \in Events, NEW r \in Row, SetRow(e, r),
           \A f \in Events : f # e => letter'[f] = letter[f],
           r.leased => r.owner # NoToken,
           r.owner # NoToken => r.status = "pending" /\ r.due,
           ~r.due => r.status = "pending",
           r.status = "absent" => r.retries = 0,
           r.status = "pending" => r.retries < MaxRetries,
           r.status = "dead" /\ Kind[e] = "routable" => r.retries = MaxRetries,
           r.status = "dead" <=> letter'[e] # "none"
    PROVE  TableInv'
<1>1. row'[e] = r /\ \A f \in Events : f # e => row'[f] = row[f] BY RowFacts DEF TypeOK
<1>2. RowsOK' BY <1>1 DEF TableInv, RowsOK
<1>3. DeadHasLetter' BY <1>1 DEF TableInv, DeadHasLetter
<1>4. RetryBudget' BY <1>1 DEF TableInv, RetryBudget
<1> QED BY <1>2, <1>3, <1>4 DEF TableInv

\* The outcome of a claim clears the lease.
LEMMA RowSettled ==
    ASSUME TypeOK, TableInv, NEW e \in Events, NEW s \in Statuses \ {"absent"},
           NEW n \in Nat, NEW d \in BOOLEAN,
           SetRow(e, Settled(s, n, d)),
           \A f \in Events : f # e => letter'[f] = letter[f],
           ~d => s = "pending",
           s = "pending" => n < MaxRetries,
           s = "dead" /\ Kind[e] = "routable" => n = MaxRetries,
           s = "dead" <=> letter'[e] # "none"
    PROVE  TableInv'
<1> DEFINE r == Settled(s, n, d)
<1>1. r \in Row BY Constructors
<1>2. /\ r.status = s /\ r.retries = n /\ r.due = d /\ r.owner = NoToken /\ r.leased = FALSE
 BY DEF Settled
<1> HIDE DEF r
<1>3. SetRow(e, r) BY DEF r
<1> QED BY <1>1, <1>2, <1>3, RowWritten

\* A job moves on under its token, or ends; no row it reads gets another
\* retry count while it keeps its owner.
LEMMA JobMoved ==
    ASSUME TypeOK, JobInv, NEW w \in Workers, NEW j \in Job, SetJob(w, j),
           j.pc # "idle" => j.token # NoToken,
           j.pc \in {"await", "confirmed", "failed"} => j.send # {},
           \/ j.token = NoToken
           \/ j.token = job[w].token /\ j.read = job[w].read,
           \A f \in Events :
              \/ row'[f].owner = NoToken
              \/ row'[f].owner = row[f].owner /\ row'[f].retries = row[f].retries
    PROVE  JobInv'
<1>1. job'[w] = j /\ \A v \in Workers : v # w => job'[v] = job[v] BY JobFacts DEF TypeOK
<1>2. JobsOK' BY <1>1 DEF JobInv, JobsOK
<1>3. ASSUME NEW v \in Workers, NEW e \in Events,
             job'[v].token # NoToken, row'[e].owner = job'[v].token
      PROVE  job'[v].read[e] = row'[e].retries
 <2>1. row'[e].owner = row[e].owner /\ row'[e].retries = row[e].retries BY <1>3
 <2>2. job'[v].token = job[v].token /\ job'[v].read = job[v].read BY <1>1, <1>3
 <2> QED BY <1>3, <2>1, <2>2 DEF JobInv, ReadsCurrent
<1>4. ReadsCurrent' BY <1>3 DEF ReadsCurrent
<1> QED BY <1>2, <1>4 DEF JobInv

\* A row changes under jobs that stay put.
LEMMA JobsKept ==
    ASSUME TypeOK, JobInv, UNCHANGED job,
           \A f \in Events :
              \/ row'[f].owner = NoToken
              \/ row'[f].owner = row[f].owner /\ row'[f].retries = row[f].retries
    PROVE  JobInv'
<1>1. JobsOK' BY DEF JobInv, JobsOK
<1>2. ASSUME NEW v \in Workers, NEW e \in Events,
             job'[v].token # NoToken, row'[e].owner = job'[v].token
      PROVE  job'[v].read[e] = row'[e].retries
 BY <1>2 DEF JobInv, ReadsCurrent
<1>3. ReadsCurrent' BY <1>2 DEF ReadsCurrent
<1> QED BY <1>1, <1>3 DEF JobInv

LEMMA Parts == IInv <=> TypeOK /\ TableInv /\ JobInv
BY DEF IInv, TableInv, JobInv

----------------------------------------
\* The actions of a publisher.

LEMMA ClaimBatchStep ==
    ASSUME IInv, NEW w \in Workers, ClaimBatch(w)
    PROVE  IInv'
<1> USE Parts
<1>1. PICK t \in Tokens \ TokensInUse :
         /\ row' = [e \in Events |-> IF e \in Taken
                                     THEN [row[e] EXCEPT !.owner = t, !.leased = TRUE]
                                     ELSE row[e]]
         /\ SetJob(w, [pc |-> "sort", token |-> t, todo |-> Taken, send |-> {},
                       read |-> [e \in Events |-> IF e \in Taken THEN row[e].retries ELSE 0]])
 BY DEF ClaimBatch
<1>2. Taken \subseteq Events /\ \A e \in Taken : row[e].status = "pending" /\ row[e].due
 BY DEF Taken, Claimable
<1>3. t # NoToken /\ t \in Tokens BY <1>1, OutboxAssumption
<1>4. /\ \A e \in Events : row[e].owner # t
      /\ \A v \in Workers : job[v].token # t
 BY <1>1 DEF TokensInUse
<1>5. ASSUME NEW e \in Events
      PROVE  /\ row[e] \in Row /\ row'[e] \in Row
             /\ e \notin Taken => row'[e] = row[e]
             /\ e \in Taken => /\ row'[e].owner = t /\ row'[e].status = row[e].status /\ row'[e].due = row[e].due
                               /\ row'[e].retries = row[e].retries
 <2>1. row[e] \in Row BY DEF TypeOK
 <2>2. CASE e \notin Taken
  BY <1>1, <2>1, <2>2
 <2>3. CASE e \in Taken
  <3>1. row'[e] = [row[e] EXCEPT !.owner = t, !.leased = TRUE] BY <1>1, <2>3
  <3> QED BY <1>3, <2>1, <2>3, <3>1 DEF Row
 <2> QED BY <2>2, <2>3
<1>6. row' \in [Events -> Row]
 <2>1. row' = [e \in Events |-> row'[e]] BY <1>1
 <2> QED BY <1>5, <2>1
<1> DEFINE j == [pc |-> "sort", token |-> t, todo |-> Taken, send |-> {},
                 read |-> [e \in Events |-> IF e \in Taken THEN row[e].retries ELSE 0]]
<1>7. j \in Job
 <2>1. \A e \in Events : row[e].retries \in Nat BY <1>5 DEF Row
 <2>2. [e \in Events |-> IF e \in Taken THEN row[e].retries ELSE 0] \in [Events -> Nat] BY <2>1
 <2> QED BY <1>2, <1>3, <2>2 DEF Job, PCs
<1>8. /\ j.pc = "sort" /\ j.token = t /\ j.send = {} /\ \A e \in Taken : j.read[e] = row[e].retries
 BY <1>2
<1>9. SetJob(w, j) BY <1>1
<1> HIDE DEF j
<1>10. job' \in [Workers -> Job] /\ job'[w] = j /\ \A v \in Workers : v # w => job'[v] = job[v]
 BY <1>7, <1>9, JobFacts DEF TypeOK
<1>11. TypeOK' BY <1>6, <1>10 DEF TypeOK, ClaimBatch
<1>12. RowsOK' BY <1>2, <1>3, <1>5 DEF TableInv, RowsOK
<1>13. DeadHasLetter' /\ RetryBudget'
 <2>1. letter' = letter BY DEF ClaimBatch
 <2>2. \A e \in Events : row'[e].status = row[e].status /\ row'[e].retries = row[e].retries BY <1>5
 <2> QED BY <2>1, <2>2 DEF TableInv, DeadHasLetter, RetryBudget
<1>14. JobsOK' BY <1>3, <1>8, <1>10 DEF JobInv, JobsOK
<1>15. ASSUME NEW v \in Workers, NEW e \in Events,
              job'[v].token # NoToken, row'[e].owner = job'[v].token
       PROVE  job'[v].read[e] = row'[e].retries
 <2>1. CASE v = w
  <3>1. row'[e].owner = t BY <1>8, <1>10, <1>15, <2>1
  <3>2. e \in Taken BY <1>4, <1>5, <3>1
  <3> QED BY <1>5, <1>8, <1>10, <2>1, <3>2
 <2>2. CASE v # w
  <3>1. job'[v] = job[v] BY <1>10, <2>2
  <3>2. e \notin Taken BY <1>4, <1>5, <1>15, <3>1
  <3> QED BY <1>5, <1>15, <3>1, <3>2 DEF JobInv, ReadsCurrent
 <2> QED BY <2>1, <2>2
<1>16. ReadsCurrent' BY <1>15 DEF ReadsCurrent
<1> QED BY <1>11, <1>12, <1>13, <1>14, <1>16 DEF IInv

\* Dropping the event in hand from the first loop.
LEMMA TodoFacts ==
    ASSUME TypeOK, JobInv, NEW w \in Workers, NEW e, NEW S \in SUBSET Events,
           job[w].pc = "sort"
    PROVE  LET j == [job[w] EXCEPT !.todo = @ \ {e}, !.send = S]
               k == [job[w] EXCEPT !.todo = @ \ {e}]
           IN  /\ j \in Job /\ j.pc = "sort" /\ j.token = job[w].token /\ j.read = job[w].read
               /\ k \in Job /\ k.pc = "sort" /\ k.token = job[w].token /\ k.read = job[w].read
               /\ job[w].token # NoToken
BY InHand DEF Job, JobInv, JobsOK

\* Leaving the event in hand of the second loop.
LEMMA NextEventFacts ==
    ASSUME TypeOK, JobInv, NEW w \in Workers, job[w].pc \in {"confirmed", "failed"}, NextEvent(w),
           \A f \in Events :
              \/ row'[f].owner = NoToken
              \/ row'[f].owner = row[f].owner /\ row'[f].retries = row[f].retries
    PROVE  job' \in [Workers -> Job] /\ JobInv' /\ job[w].token # NoToken
<1> DEFINE j == [job[w] EXCEPT !.pc = "send", !.send = @ \ {First(@)}]
<1>1. /\ j \in Job /\ j.pc = "send" /\ j.token = job[w].token /\ j.read = job[w].read /\ job[w].token # NoToken
 BY InHand DEF Job, PCs, JobInv, JobsOK
<1>2. SetJob(w, j) BY DEF NextEvent
<1> HIDE DEF j
<1>3. JobInv' BY <1>1, <1>2, JobMoved
<1> QED BY <1>1, <1>2, <1>3, JobFacts DEF TypeOK

LEMMA MarkValidationDeadStep ==
    ASSUME IInv, NEW w \in Workers, MarkValidationDead(w)
    PROVE  IInv'
<1> DEFINE e == First(job[w].todo)
           k == [job[w] EXCEPT !.todo = @ \ {e}]
<1>1. TypeOK /\ TableInv /\ JobInv BY Parts
<1>2. e \in Events /\ job[w].pc = "sort" /\ job[w] \in Job BY <1>1, InHand DEF MarkValidationDead, Job
<1>3. k \in Job /\ k.pc = "sort" /\ k.token = job[w].token /\ k.read = job[w].read
      /\ job[w].token # NoToken
 BY <1>1, <1>2, TodoFacts
<1>4. SetJob(w, k) /\ Kind[e] # "routable" /\ UNCHANGED <<replays, chan, adrift, accepted>>
 BY DEF MarkValidationDead
<1>5. job[w].read[e] + 1 \in Nat /\ row[e] \in Row BY <1>1, <1>2 DEF Job, TypeOK
<1>6. PICK ok \in BOOLEAN :
         /\ Statement(ok)
         /\ IF ok /\ Owns(w, e)
            THEN /\ SetRow(e, Settled("dead", job[w].read[e] + 1, row[e].due)) /\ CreateDeadLetter(e)
            ELSE UNCHANGED <<row, letter>>
 BY DEF MarkValidationDead
<1> HIDE DEF e, k
<1>7. faults' \in 0..MaxFaults /\ job' \in [Workers -> Job]
 BY <1>1, <1>3, <1>4, <1>6, StatementFacts, JobFacts DEF TypeOK
<1>8. CASE ok /\ Owns(w, e)
 <2>1. row[e].due = TRUE BY <1>1, <1>2, <1>3, <1>5, <1>8 DEF TableInv, RowsOK, Owns, Row
 <2> DEFINE r == Settled("dead", job[w].read[e] + 1, row[e].due)
 <2>2. r \in Row /\ r.owner = NoToken BY <1>5, <2>1, Constructors DEF Settled, Statuses
 <2>3. SetRow(e, r) /\ CreateDeadLetter(e) BY <1>6, <1>8
 <2>4. TableInv' BY <1>1, <1>2, <1>4, <1>5, <2>1, <2>3, LetterFacts, RowSettled DEF Statuses
 <2> HIDE DEF r
 <2>5. row' \in [Events -> Row] /\ row'[e] = r /\ \A f \in Events : f # e => row'[f] = row[f]
  BY <1>1, <1>2, <2>2, <2>3, RowFacts DEF TypeOK
 <2>6. JobInv' BY <1>1, <1>3, <1>4, <2>2, <2>5, JobMoved
 <2>7. TypeOK' BY <1>1, <1>2, <1>4, <1>7, <2>3, <2>5, LetterFacts DEF TypeOK
 <2> QED BY <2>4, <2>6, <2>7 DEF IInv, TableInv, JobInv
<1>9. CASE ~(ok /\ Owns(w, e))
 <2>1. UNCHANGED <<row, letter>> BY <1>6, <1>9
 <2>2. TableInv' /\ JobInv' BY <1>1, <1>3, <1>4, <2>1, TablesKept, JobMoved
 <2>3. TypeOK' BY <1>1, <1>4, <1>7, <2>1 DEF TypeOK
 <2> QED BY <2>2, <2>3 DEF IInv, TableInv, JobInv
<1> QED BY <1>8, <1>9

LEMMA MarkNoConsumerStep ==
    ASSUME IInv, NEW w \in Workers, MarkNoConsumer(w)
    PROVE  IInv'
<1> DEFINE e == First(job[w].todo)
           k == [job[w] EXCEPT !.todo = @ \ {e}]
<1>1. TypeOK /\ TableInv /\ JobInv BY Parts
<1>2. e \in Events /\ job[w].pc = "sort" /\ job[w] \in Job BY <1>1, InHand DEF MarkNoConsumer, Job
<1>3. k \in Job /\ k.pc = "sort" /\ k.token = job[w].token /\ k.read = job[w].read
      /\ job[w].token # NoToken
 BY <1>1, <1>2, TodoFacts
<1>4. SetJob(w, k) /\ UNCHANGED <<letter, replays, chan, adrift, accepted>> BY DEF MarkNoConsumer
<1>5. row[e] \in Row /\ row[e].retries \in Nat BY <1>1, <1>2 DEF Row, TypeOK
<1>6. PICK ok \in BOOLEAN :
         /\ Statement(ok)
         /\ IF ok /\ Owns(w, e)
            THEN SetRow(e, Settled("no_consumer", row[e].retries, row[e].due))
            ELSE UNCHANGED row
 BY DEF MarkNoConsumer
<1> HIDE DEF e, k
<1>7. faults' \in 0..MaxFaults /\ job' \in [Workers -> Job]
 BY <1>1, <1>3, <1>4, <1>6, StatementFacts, JobFacts DEF TypeOK
<1>8. CASE ok /\ Owns(w, e)
 <2>1. row[e].due = TRUE /\ letter[e] = "none"
  BY <1>1, <1>2, <1>3, <1>5, <1>8 DEF TableInv, RowsOK, DeadHasLetter, Owns, Row
 <2> DEFINE r == Settled("no_consumer", row[e].retries, row[e].due)
 <2>2. r \in Row /\ r.owner = NoToken BY <1>5, <2>1, Constructors DEF Settled, Statuses
 <2>3. SetRow(e, r) BY <1>6, <1>8
 <2>4. TableInv' BY <1>1, <1>2, <1>4, <1>5, <2>1, <2>3, RowSettled DEF Statuses
 <2> HIDE DEF r
 <2>5. row' \in [Events -> Row] /\ row'[e] = r /\ \A f \in Events : f # e => row'[f] = row[f]
  BY <1>1, <1>2, <2>2, <2>3, RowFacts DEF TypeOK
 <2>6. JobInv' BY <1>1, <1>3, <1>4, <2>2, <2>5, JobMoved
 <2>7. TypeOK' BY <1>1, <1>4, <1>7, <2>5 DEF TypeOK
 <2> QED BY <2>4, <2>6, <2>7 DEF IInv, TableInv, JobInv
<1>9. CASE ~(ok /\ Owns(w, e))
 <2>1. UNCHANGED <<row, letter>> BY <1>4, <1>6, <1>9
 <2>2. TableInv' /\ JobInv' BY <1>1, <1>3, <1>4, <2>1, TablesKept, JobMoved
 <2>3. TypeOK' BY <1>1, <1>4, <1>7, <2>1 DEF TypeOK
 <2> QED BY <2>2, <2>3 DEF IInv, TableInv, JobInv
<1> QED BY <1>8, <1>9

LEMMA MarkPublishedStep ==
    ASSUME IInv, NEW w \in Workers, MarkPublished(w)
    PROVE  IInv'
<1> DEFINE e == First(job[w].send)
<1>1. TypeOK /\ TableInv /\ JobInv BY Parts
<1>2. job[w].pc = "confirmed" /\ NextEvent(w) /\ UNCHANGED <<letter, replays, chan, adrift, accepted>>
 BY DEF MarkPublished
<1>3. e \in Events /\ job[w] \in Job /\ job[w].token # NoToken BY <1>1, <1>2, InHand DEF Job, JobInv, JobsOK
<1>4. row[e] \in Row /\ row[e].retries \in Nat BY <1>1, <1>3 DEF Row, TypeOK
<1>5. PICK ok \in BOOLEAN :
         /\ Statement(ok)
         /\ IF ok /\ Owns(w, e)
            THEN SetRow(e, Settled("published", row[e].retries, row[e].due))
            ELSE UNCHANGED row
 BY DEF MarkPublished
<1> HIDE DEF e
<1>6. faults' \in 0..MaxFaults BY <1>1, <1>5, StatementFacts
<1>7. CASE ok /\ Owns(w, e)
 <2>1. row[e].due = TRUE /\ letter[e] = "none"
  BY <1>1, <1>3, <1>4, <1>7 DEF TableInv, RowsOK, DeadHasLetter, Owns, Row
 <2> DEFINE r == Settled("published", row[e].retries, row[e].due)
 <2>2. r \in Row /\ r.owner = NoToken BY <1>4, <2>1, Constructors DEF Settled, Statuses
 <2>3. SetRow(e, r) BY <1>5, <1>7
 <2>4. TableInv' BY <1>1, <1>2, <1>3, <1>4, <2>1, <2>3, RowSettled DEF Statuses
 <2> HIDE DEF r
 <2>5. row' \in [Events -> Row] /\ row'[e] = r /\ \A f \in Events : f # e => row'[f] = row[f]
  BY <1>1, <1>3, <2>2, <2>3, RowFacts DEF TypeOK
 <2>6. job' \in [Workers -> Job] /\ JobInv' BY <1>1, <1>2, <2>2, <2>5, NextEventFacts
 <2>7. TypeOK' BY <1>1, <1>2, <1>6, <2>5, <2>6 DEF TypeOK
 <2> QED BY <2>4, <2>6, <2>7 DEF IInv, TableInv, JobInv
<1>8. CASE ~(ok /\ Owns(w, e))
 <2>1. UNCHANGED <<row, letter>> BY <1>2, <1>5, <1>8
 <2>2. TableInv' /\ JobInv' /\ job' \in [Workers -> Job] BY <1>1, <1>2, <2>1, TablesKept, NextEventFacts
 <2>3. TypeOK' BY <1>1, <1>2, <1>6, <2>1, <2>2 DEF TypeOK
 <2> QED BY <2>2, <2>3 DEF IInv, TableInv, JobInv
<1> QED BY <1>7, <1>8

LEMMA MarkFailedStep ==
    ASSUME IInv, NEW w \in Workers, MarkFailed(w)
    PROVE  IInv'
<1> DEFINE e == First(job[w].send)
           n == job[w].read[e] + 1
           d == Spent(n)
           s == IF d THEN "dead" ELSE "pending"
<1>1. TypeOK /\ TableInv /\ JobInv BY Parts
<1>2. job[w].pc = "failed" /\ NextEvent(w) /\ UNCHANGED <<replays, chan, adrift, accepted>> BY DEF MarkFailed
<1>3. e \in Events /\ job[w] \in Job /\ job[w].token # NoToken BY <1>1, <1>2, InHand DEF Job, JobInv, JobsOK
<1>4. n \in Nat BY <1>3 DEF Job
<1>5. PICK ok \in BOOLEAN :
         /\ Statement(ok)
         /\ IF ok /\ Owns(w, e)
            THEN /\ SetRow(e, Settled(s, n, d))
                 /\ IF d THEN CreateDeadLetter(e) ELSE UNCHANGED letter
            ELSE UNCHANGED <<row, letter>>
 BY DEF MarkFailed
<1>6. d \in BOOLEAN /\ s \in Statuses \ {"absent"} /\ (d <=> s = "dead") /\ (~d <=> s = "pending")
 BY DEF Spent, Statuses
<1>7. Owns(w, e) => row[e].status = "pending" /\ letter[e] = "none" /\ n <= MaxRetries
 <2>1. SUFFICES ASSUME Owns(w, e)
                PROVE  row[e].status = "pending" /\ letter[e] = "none" /\ n <= MaxRetries
  OBVIOUS
 <2>2. row[e].status = "pending" /\ row[e].owner = job[w].token BY <2>1 DEF Owns
 <2>3. job[w].read[e] = row[e].retries BY <1>1, <1>3, <2>2 DEF JobInv, ReadsCurrent
 <2>4. row[e].retries < MaxRetries /\ row[e].retries \in Nat
  BY <1>1, <1>3, <2>2 DEF TableInv, RetryBudget, TypeOK, Row
 <2>5. letter[e] = "none" BY <1>1, <1>3, <2>2 DEF TableInv, DeadHasLetter
 <2>6. n <= MaxRetries BY <2>3, <2>4, OutboxAssumption
 <2> QED BY <2>2, <2>5, <2>6
<1>8. (d /\ n <= MaxRetries => n = MaxRetries) /\ (~d => n < MaxRetries) BY <1>4, OutboxAssumption DEF Spent
<1> HIDE DEF e, n, d, s
<1>9. faults' \in 0..MaxFaults BY <1>1, <1>5, StatementFacts
<1>10. CASE ok /\ Owns(w, e)
 <2> DEFINE r == Settled(s, n, d)
 <2>1. r \in Row /\ r.owner = NoToken BY <1>4, <1>6, Constructors DEF Settled
 <2>2. SetRow(e, r) /\ IF d THEN CreateDeadLetter(e) ELSE UNCHANGED letter BY <1>5, <1>10
 <2>3. /\ letter' \in [Events -> {"none", "open", "replayed"}]
       /\ \A f \in Events : f # e => letter'[f] = letter[f]
       /\ d <=> letter'[e] # "none"
  BY <1>1, <1>3, <1>7, <1>10, <2>2, LetterFacts DEF TypeOK
 <2>4. TableInv' BY <1>1, <1>3, <1>4, <1>6, <1>7, <1>8, <1>10, <2>2, <2>3, RowSettled
 <2> HIDE DEF r
 <2>5. row' \in [Events -> Row] /\ row'[e] = r /\ \A f \in Events : f # e => row'[f] = row[f]
  BY <1>1, <1>3, <2>1, <2>2, RowFacts DEF TypeOK
 <2>6. job' \in [Workers -> Job] /\ JobInv' BY <1>1, <1>2, <2>1, <2>5, NextEventFacts
 <2>7. TypeOK' BY <1>1, <1>2, <1>9, <2>3, <2>5, <2>6 DEF TypeOK
 <2> QED BY <2>4, <2>6, <2>7 DEF IInv, TableInv, JobInv
<1>11. CASE ~(ok /\ Owns(w, e))
 <2>1. UNCHANGED <<row, letter>> BY <1>5, <1>11
 <2>2. TableInv' /\ JobInv' /\ job' \in [Workers -> Job] BY <1>1, <1>2, <2>1, TablesKept, NextEventFacts
 <2>3. TypeOK' BY <1>1, <1>2, <1>9, <2>1, <2>2 DEF TypeOK
 <2> QED BY <2>2, <2>3 DEF IInv, TableInv, JobInv
<1> QED BY <1>10, <1>11

\* A step that only moves one job (and perhaps its channel).
LEMMA JobOnlyStep ==
    ASSUME IInv, NEW w \in Workers, NEW j \in Job, SetJob(w, j),
           j.pc # "idle" => j.token # NoToken,
           j.pc \in {"await", "confirmed", "failed"} => j.send # {},
           \/ j.token = NoToken
           \/ j.token = job[w].token /\ j.read = job[w].read,
           UNCHANGED <<row, letter, replays>>,
           chan' \in [Workers -> Chan], adrift' \subseteq Events, accepted' \subseteq Events,
           faults' \in 0..MaxFaults
    PROVE  IInv'
<1>1. TypeOK /\ TableInv /\ JobInv BY Parts
<1>2. TableInv' /\ JobInv' BY <1>1, TablesKept, JobMoved
<1>3. job' \in [Workers -> Job] BY <1>1, JobFacts DEF TypeOK
<1>4. TypeOK' BY <1>1, <1>3 DEF TypeOK
<1> QED BY <1>2, <1>4 DEF IInv, TableInv, JobInv

LEMMA KeepRoutableStep ==
    ASSUME IInv, NEW w \in Workers, KeepRoutable(w)
    PROVE  IInv'
<1> DEFINE e == First(job[w].todo)
           j == [job[w] EXCEPT !.todo = @ \ {e}, !.send = @ \cup {e}]
<1>1. TypeOK /\ JobInv /\ job[w].pc = "sort" /\ job[w] \in Job /\ e \in Events
 BY Parts, InHand DEF KeepRoutable, Job
<1>2. /\ j \in Job /\ j.pc = "sort" /\ j.token = job[w].token /\ j.read = job[w].read /\ j.token # NoToken
 BY <1>1 DEF Job, JobInv, JobsOK
<1>3. SetJob(w, j) /\ UNCHANGED <<row, letter, replays, chan, adrift, accepted, faults>> BY DEF KeepRoutable
<1> HIDE DEF j, e
<1> QED BY <1>1, <1>2, <1>3, JobOnlyStep DEF TypeOK

LEMMA IdleFacts == Idle \in Job /\ Idle.pc = "idle" /\ Idle.token = NoToken
BY Constructors DEF Idle

LEMMA OpenChannelStep ==
    ASSUME IInv, NEW w \in Workers, OpenChannel(w)
    PROVE  IInv'
<1> DEFINE j == [job[w] EXCEPT !.pc = "send"]
<1>1. TypeOK /\ JobInv /\ job[w].pc = "sort" /\ job[w] \in Job BY Parts, InHand DEF OpenChannel
<1>2. /\ j \in Job /\ j.pc = "send" /\ j.token = job[w].token /\ j.read = job[w].read /\ j.token # NoToken
 BY <1>1 DEF Job, PCs, JobInv, JobsOK
<1>3. PICK ok \in BOOLEAN :
         /\ Statement(ok)
         /\ \/ SetJob(w, j) /\ SetChan(w, NewChan)
            \/ SetJob(w, Idle) /\ UNCHANGED chan
 BY DEF OpenChannel
<1>4. UNCHANGED <<row, letter, replays, adrift, accepted>> BY DEF OpenChannel
<1> HIDE DEF j
<1>5. faults' \in 0..MaxFaults /\ chan' \in [Workers -> Chan]
 BY <1>1, <1>3, StatementFacts, ChanFacts, Constructors DEF TypeOK
<1> QED BY <1>1, <1>2, <1>3, <1>4, <1>5, JobOnlyStep, IdleFacts DEF TypeOK

LEMMA PublishOneStep ==
    ASSUME IInv, NEW w \in Workers, PublishOne(w)
    PROVE  IInv'
<1> DEFINE e == First(job[w].send)
           j == [job[w] EXCEPT !.pc = "await"]
           k == [job[w] EXCEPT !.pc = "failed"]
           c == [chan[w] EXCEPT !.sent = Append(@, e)]
<1>1. /\ TypeOK /\ JobInv /\ job[w].pc = "send" /\ job[w].send # {}
      /\ job[w] \in Job /\ e \in Events /\ chan[w] \in Chan
 BY Parts, InHand, Messages DEF PublishOne, Job
<1>2. /\ j \in Job /\ j.send # {} /\ j.token = job[w].token /\ j.read = job[w].read
      /\ k \in Job /\ k.send # {} /\ k.token = job[w].token /\ k.read = job[w].read /\ job[w].token # NoToken
 BY <1>1 DEF Job, PCs, JobInv, JobsOK
<1>3. Append(chan[w].sent, e) \in Seq(Events) BY <1>1 DEF Chan
<1>4. c \in Chan BY <1>1, <1>3 DEF Chan
<1>5. /\ \/ SetChan(w, c) /\ SetJob(w, j)
         \/ UNCHANGED chan /\ SetJob(w, k)
      /\ UNCHANGED <<row, letter, replays, adrift, accepted, faults>>
 BY DEF PublishOne
<1> HIDE DEF e, j, k, c
<1>6. chan' \in [Workers -> Chan] BY <1>1, <1>4, <1>5, ChanFacts DEF TypeOK
<1> QED BY <1>1, <1>2, <1>5, <1>6, JobOnlyStep DEF TypeOK

LEMMA ReadConfirmationStep ==
    ASSUME IInv, NEW w \in Workers, ReadConfirmation(w)
    PROVE  IInv'
<1> DEFINE j == [job[w] EXCEPT !.pc = IF Head(chan[w].confirms) THEN "confirmed" ELSE "failed"]
           c == [chan[w] EXCEPT !.confirms = Tail(@)]
<1>1. /\ TypeOK /\ JobInv /\ job[w].pc = "await" /\ job[w] \in Job /\ chan[w] \in Chan /\ chan[w].confirms # << >>
 BY Parts, InHand, Messages DEF ReadConfirmation
<1>2. /\ j \in Job /\ j.send # {} /\ j.token = job[w].token /\ j.read = job[w].read /\ job[w].token # NoToken
 BY <1>1 DEF Job, PCs, JobInv, JobsOK
<1>3. Tail(chan[w].confirms) \in Seq(BOOLEAN)
 <2>1. chan[w].confirms \in Seq(BOOLEAN) BY <1>1 DEF Chan
 <2> QED BY <1>1, <2>1, HeadTailProperties
<1>4. c \in Chan BY <1>1, <1>3 DEF Chan
<1>5. SetChan(w, c) /\ SetJob(w, j) /\ UNCHANGED <<row, letter, replays, adrift, accepted, faults>>
 BY DEF ReadConfirmation
<1> HIDE DEF j, c
<1>6. chan' \in [Workers -> Chan] BY <1>1, <1>4, <1>5, ChanFacts DEF TypeOK
<1> QED BY <1>1, <1>2, <1>5, <1>6, JobOnlyStep DEF TypeOK

LEMMA GiveUpWaitingStep ==
    ASSUME IInv, NEW w \in Workers, GiveUpWaiting(w)
    PROVE  IInv'
<1> DEFINE j == [job[w] EXCEPT !.pc = "failed"]
<1>1. TypeOK /\ JobInv /\ job[w].pc = "await" /\ job[w] \in Job BY Parts, InHand DEF GiveUpWaiting
<1>2. /\ j \in Job /\ j.send # {} /\ j.token = job[w].token /\ j.read = job[w].read /\ job[w].token # NoToken
 BY <1>1 DEF Job, PCs, JobInv, JobsOK
<1>3. SetJob(w, j) /\ UNCHANGED <<row, letter, replays, chan, adrift, accepted, faults>> BY DEF GiveUpWaiting
<1> HIDE DEF j
<1> QED BY <1>1, <1>2, <1>3, JobOnlyStep DEF TypeOK

LEMMA AbandonStep ==
    ASSUME IInv, NEW w \in Workers, Abandon(w), faults' \in 0..MaxFaults,
           UNCHANGED <<row, letter, replays, accepted>>
    PROVE  IInv'
<1>1. TypeOK /\ SetJob(w, Idle) /\ SetChan(w, NoChan) /\ adrift' \subseteq Events
 BY Parts, Messages DEF Abandon, TypeOK
<1>2. chan' \in [Workers -> Chan] BY <1>1, ChanFacts, Constructors DEF TypeOK
<1> QED BY <1>1, <1>2, JobOnlyStep, IdleFacts DEF TypeOK

----------------------------------------
\* Producers, time, the broker and the administrator.

\* A step that only touches channels and the broker.
LEMMA BrokerStep ==
    ASSUME IInv, UNCHANGED <<row, letter, replays, job>>,
           chan' \in [Workers -> Chan], adrift' \subseteq Events, accepted' \subseteq Events,
           faults' \in 0..MaxFaults
    PROVE  IInv'
<1>1. TypeOK /\ TableInv /\ JobInv BY Parts
<1>2. TableInv' /\ JobInv' BY <1>1, TablesKept, JobsKept
<1>3. TypeOK' BY <1>1 DEF TypeOK
<1> QED BY <1>2, <1>3 DEF IInv, TableInv, JobInv

LEMMA ChannelDiesStep ==
    ASSUME IInv, NEW w \in Workers, ChannelDies(w)
    PROVE  IInv'
<1>1. TypeOK /\ chan[w] \in Chan /\ Range(chan[w].sent) \subseteq Events BY Parts, Messages
<1>2. PICK n \in 0..Len(chan[w].confirms) :
         SetChan(w, [open |-> FALSE, sent |-> << >>,
                     confirms |-> SubSeq(chan[w].confirms, 1, n)])
 BY DEF ChannelDies
<1>3. SubSeq(chan[w].confirms, 1, n) \in Seq(BOOLEAN)
 <2>1. chan[w].confirms \in Seq(BOOLEAN) BY <1>1 DEF Chan
 <2> QED BY <1>2, <2>1
<1> DEFINE c == [open |-> FALSE, sent |-> << >>, confirms |-> SubSeq(chan[w].confirms, 1, n)]
<1>4. c \in Chan
 <2>1. << >> \in Seq(Events) OBVIOUS
 <2> QED BY <1>3, <2>1 DEF Chan
<1>5. SetChan(w, c) BY <1>2
<1> HIDE DEF c
<1>6. chan' \in [Workers -> Chan] BY <1>1, <1>4, <1>5, ChanFacts DEF TypeOK
<1>7. Fault /\ adrift' = adrift \cup Range(chan[w].sent)
      /\ UNCHANGED <<row, letter, replays, job, accepted>>
 BY DEF ChannelDies
<1>8. faults' \in 0..MaxFaults BY <1>1, <1>7, FaultFacts
<1>9. adrift' \subseteq Events /\ accepted' \subseteq Events BY <1>1, <1>7 DEF TypeOK
<1> QED BY <1>6, <1>7, <1>8, <1>9, BrokerStep

LEMMA BrokerAnswersStep ==
    ASSUME IInv, NEW w \in Workers, BrokerAnswers(w)
    PROVE  IInv'
<1>1. TypeOK /\ chan[w] \in Chan BY Parts, Messages
<1>2. /\ chan[w].sent # << >> /\ UNCHANGED <<row, letter, replays, job, adrift, faults>>
 BY DEF BrokerAnswers
<1>3. PICK ack \in BOOLEAN :
         /\ accepted' = IF ack THEN accepted \cup {Head(chan[w].sent)} ELSE accepted
         /\ SetChan(w, [chan[w] EXCEPT !.sent = Tail(@), !.confirms = Append(@, ack)])
 BY DEF BrokerAnswers
<1>4. chan[w].sent \in Seq(Events) /\ chan[w].confirms \in Seq(BOOLEAN) BY <1>1 DEF Chan
<1>5. Tail(chan[w].sent) \in Seq(Events) /\ Head(chan[w].sent) \in Events BY <1>2, <1>4, HeadTailProperties
<1>6. Append(chan[w].confirms, ack) \in Seq(BOOLEAN) BY <1>4, AppendProperties
<1> DEFINE c == [chan[w] EXCEPT !.sent = Tail(@), !.confirms = Append(@, ack)]
<1>7. c \in Chan BY <1>1, <1>5, <1>6 DEF Chan
<1>8. SetChan(w, c) BY <1>3
<1> HIDE DEF c
<1>9. chan' \in [Workers -> Chan] BY <1>1, <1>7, <1>8, ChanFacts DEF TypeOK
<1>10. adrift' \subseteq Events /\ accepted' \subseteq Events /\ faults' \in 0..MaxFaults
 BY <1>1, <1>2, <1>3, <1>5 DEF TypeOK
<1> QED BY <1>2, <1>9, <1>10, BrokerStep

LEMMA AdriftEndsStep ==
    ASSUME IInv, NEW e \in Events, AdriftEnds(e)
    PROVE  IInv'
<1>1. TypeOK BY Parts
<1>2. /\ adrift' \subseteq Events /\ accepted' \subseteq Events
      /\ chan' \in [Workers -> Chan] /\ faults' \in 0..MaxFaults /\ UNCHANGED <<row, letter, replays, job>>
 BY <1>1 DEF AdriftEnds, TypeOK
<1> QED BY <1>2, BrokerStep

\* A step that writes one row and no job.
LEMMA RowOnlyStep ==
    ASSUME IInv, NEW e \in Events, NEW r \in Row, SetRow(e, r), UNCHANGED job,
           row' \in [Events -> Row] => TypeOK',
           \/ r.owner = NoToken
           \/ r.owner = row[e].owner /\ r.retries = row[e].retries,
           TableInv'
    PROVE  IInv'
<1>1. TypeOK /\ JobInv BY Parts
<1>2. row' \in [Events -> Row] /\ row'[e] = r /\ \A f \in Events : f # e => row'[f] = row[f]
 BY <1>1, RowFacts DEF TypeOK
<1>3. JobInv' BY <1>1, <1>2, JobsKept
<1>4. TypeOK' BY <1>2
<1> QED BY <1>3, <1>4 DEF IInv, TableInv, JobInv

LEMMA FreshFacts ==
    LET r == Fresh("pending") IN
    /\ r \in Row /\ r.status = "pending" /\ r.owner = NoToken /\ r.leased = FALSE /\ r.due = TRUE /\ r.retries = 0
BY Constructors DEF Fresh, Statuses

LEMMA EmitStep ==
    ASSUME IInv, NEW e \in Events, Emit(e)
    PROVE  IInv'
<1>0. PICK r : r = Fresh("pending") OBVIOUS
<1>1. TypeOK /\ TableInv BY Parts
<1>2. SetRow(e, r) /\ row[e].status = "absent"
      /\ UNCHANGED <<letter, replays, job, chan, adrift, accepted, faults>>
 BY <1>0 DEF Emit
<1>3. /\ r \in Row /\ r.status = "pending" /\ r.owner = NoToken /\ r.leased = FALSE /\ r.due = TRUE /\ r.retries = 0
 BY <1>0, FreshFacts
<1>4. letter'[e] = "none" BY <1>1, <1>2 DEF TableInv, DeadHasLetter
<1>5. TableInv' BY <1>1, <1>2, <1>3, <1>4, RowWritten, OutboxAssumption
<1>6. row' \in [Events -> Row] => TypeOK' BY <1>1, <1>2 DEF TypeOK
<1> QED BY <1>2, <1>3, <1>5, <1>6, RowOnlyStep

LEMMA ReplayStep ==
    ASSUME IInv, NEW d \in Events, NEW e \in Events, Replay(d, e)
    PROVE  IInv'
<1>0. PICK r : r = Fresh("pending") OBVIOUS
<1>1. TypeOK /\ TableInv BY Parts
<1>2. /\ SetRow(e, r) /\ row[e].status = "absent" /\ letter[d] = "open"
      /\ letter' = [letter EXCEPT ![d] = "replayed"] /\ replays' = replays \cup {<<d, e>>}
      /\ UNCHANGED <<job, chan, adrift, accepted, faults>>
 BY <1>0 DEF Replay, Replayable
<1>3. /\ r \in Row /\ r.status = "pending" /\ r.owner = NoToken /\ r.leased = FALSE /\ r.due = TRUE /\ r.retries = 0
 BY <1>0, FreshFacts
<1>4. letter[e] = "none" /\ row[d].status = "dead" /\ d # e BY <1>1, <1>2 DEF TableInv, DeadHasLetter
<1>5. /\ letter' \in [Events -> {"none", "open", "replayed"}]
      /\ letter'[d] = "replayed" /\ \A f \in Events : f # d => letter'[f] = letter[f]
 BY <1>1, <1>2 DEF TypeOK
<1>6. row'[e] = r /\ \A f \in Events : f # e => row'[f] = row[f] BY <1>1, <1>2, <1>3, RowFacts DEF TypeOK
<1>7. RowsOK' BY <1>1, <1>3, <1>6 DEF TableInv, RowsOK
<1>8. DeadHasLetter' BY <1>1, <1>3, <1>4, <1>5, <1>6 DEF TableInv, DeadHasLetter
<1>9. RetryBudget' BY <1>1, <1>3, <1>6, OutboxAssumption DEF TableInv, RetryBudget
<1>10. replays' \subseteq Events \X Events /\ faults' \in 0..MaxFaults BY <1>1, <1>2 DEF TypeOK
<1>11. TableInv' BY <1>7, <1>8, <1>9 DEF TableInv
<1>12. row' \in [Events -> Row] => TypeOK' BY <1>1, <1>2, <1>5, <1>10 DEF TypeOK
<1> QED BY <1>2, <1>3, <1>11, <1>12, RowOnlyStep

LEMMA LeaseEnds ==
    ASSUME IInv, NEW e \in Events, row[e].leased,
           SetRow(e, [row[e] EXCEPT !.leased = FALSE]), faults' \in 0..MaxFaults,
           UNCHANGED <<letter, replays, job, chan, adrift, accepted>>
    PROVE  IInv'
<1> DEFINE r == [row[e] EXCEPT !.leased = FALSE]
<1>1. TypeOK /\ TableInv /\ row[e] \in Row BY Parts DEF TypeOK
<1>2. /\ r \in Row /\ r.leased = FALSE /\ r.owner = row[e].owner /\ r.status = row[e].status
      /\ r.due = row[e].due /\ r.retries = row[e].retries
 BY <1>1 DEF Row
<1>3. SetRow(e, r) OBVIOUS
<1> HIDE DEF r
<1>4. TableInv' BY <1>1, <1>2, <1>3, RowWritten DEF TableInv, RowsOK, DeadHasLetter, RetryBudget
<1>5. row' \in [Events -> Row] => TypeOK' BY <1>1, <1>3 DEF TypeOK
<1> QED BY <1>2, <1>3, <1>4, <1>5, RowOnlyStep

LEMMA RetryDueStep ==
    ASSUME IInv, NEW e \in Events, RetryDue(e)
    PROVE  IInv'
<1> DEFINE r == [row[e] EXCEPT !.due = TRUE]
<1>1. TypeOK /\ TableInv /\ row[e] \in Row BY Parts DEF TypeOK
<1>2. /\ r \in Row /\ r.due = TRUE /\ r.owner = row[e].owner /\ r.status = row[e].status
      /\ r.leased = row[e].leased /\ r.retries = row[e].retries
 BY <1>1 DEF Row
<1>3. SetRow(e, r) /\ UNCHANGED <<letter, replays, job, chan, adrift, accepted, faults>> BY DEF RetryDue
<1> HIDE DEF r
<1>4. TableInv' BY <1>1, <1>2, <1>3, RowWritten DEF TableInv, RowsOK, DeadHasLetter, RetryBudget
<1>5. row' \in [Events -> Row] => TypeOK' BY <1>1, <1>3 DEF TypeOK
<1> QED BY <1>2, <1>3, <1>4, <1>5, RowOnlyStep

----------------------------------------
\* The inductive invariant holds in every reachable state.
THEOREM Invariance == Spec => []IInv
<1>1. Init => IInv
 <2> SUFFICES ASSUME Init PROVE IInv
  OBVIOUS
 <2>1. \A e \in Events : row[e] = Fresh("absent") /\ letter[e] = "none" BY DEF Init
 <2>2. \A w \in Workers : job[w] = Idle BY DEF Init
 <2>3. TypeOK BY Constructors, OutboxAssumption DEF Init, TypeOK, Statuses
 <2>4. RowsOK /\ DeadHasLetter /\ RetryBudget BY <2>1 DEF RowsOK, DeadHasLetter, RetryBudget, Fresh
 <2>5. JobsOK /\ ReadsCurrent BY <2>2, IdleFacts DEF JobsOK, ReadsCurrent
 <2> QED BY <2>3, <2>4, <2>5 DEF IInv
<1>2. IInv /\ [Next]_vars => IInv'
 <2> SUFFICES ASSUME IInv, [Next]_vars PROVE IInv'
  OBVIOUS
 <2>1. TypeOK BY Parts
 <2>2. ASSUME NEW w \in Workers, Publisher(w)
       PROVE  IInv'
  <3>1. CASE ClaimBatch(w)
   BY <3>1, ClaimBatchStep
  <3>2. CASE Sort(w)
   BY <3>2, MarkValidationDeadStep, MarkNoConsumerStep, KeepRoutableStep, OpenChannelStep DEF Sort
  <3>3. CASE PublishOne(w)
   BY <3>3, PublishOneStep
  <3>4. CASE Await(w)
   BY <3>4, ReadConfirmationStep, GiveUpWaitingStep DEF Await
  <3>5. CASE Mark(w)
   BY <3>5, MarkPublishedStep, MarkFailedStep DEF Mark
  <3>6. CASE BatchDone(w)
   BY <2>1, <3>6, FaultFacts, AbandonStep DEF BatchDone
  <3> QED BY <2>2, <3>1, <3>2, <3>3, <3>4, <3>5, <3>6 DEF Publisher
 <2>3. ASSUME NEW w \in Workers, Crash(w) \/ ChannelDies(w) \/ BrokerAnswers(w)
       PROVE  IInv'
  <3>1. CASE Crash(w)
   BY <2>1, <3>1, FaultFacts, AbandonStep DEF Crash
  <3> QED BY <2>3, <3>1, ChannelDiesStep, BrokerAnswersStep
 <2>4. ASSUME NEW e \in Events,
              Emit(e) \/ AdriftEnds(e) \/ LeaseExpires(e) \/ LeaseOverrun(e) \/ RetryDue(e)
       PROVE  IInv'
  <3>1. CASE LeaseExpires(e)
   BY <2>1, <3>1, FaultFacts, LeaseEnds DEF LeaseExpires
  <3>2. CASE LeaseOverrun(e)
   BY <2>1, <3>2, FaultFacts, LeaseEnds DEF LeaseOverrun
  <3> QED BY <2>4, <3>1, <3>2, EmitStep, AdriftEndsStep, RetryDueStep
 <2>5. CASE UNCHANGED vars
  BY <2>5 DEF vars, IInv, TypeOK, RowsOK, DeadHasLetter, RetryBudget, JobsOK, ReadsCurrent
 <2> QED BY <2>2, <2>3, <2>4, <2>5, ReplayStep DEF Next
<1> QED BY <1>1, <1>2, PTL DEF Spec

\* Type correctness of the outbox.
THEOREM OutboxTypeCorrect == Spec => []TypeOK
<1>1. IInv => TypeOK BY DEF IInv
<1> QED BY <1>1, Invariance, PTL

\* An event is given up exactly when there is a dead letter for it, whatever
\* publishers share the table.
THEOREM DeadHasLetterAlways == Spec => []DeadHasLetter
<1>1. IInv => DeadHasLetter BY DEF IInv
<1> QED BY <1>1, Invariance, PTL

\* The retry budget of an event is spent in full and never exceeded, although
\* each failure is counted from a value read at claim time.
THEOREM RetryBudgetAlways == Spec => []RetryBudget
<1>1. IInv => RetryBudget BY DEF IInv
<1> QED BY <1>1, Invariance, PTL

----------------------------------------
\* What a step may do to a row: leave a settled one alone, never lower a
\* retry count.
Over(status) == status \in {"published", "no_consumer", "dead"}

RowStep ==
    \A e \in Events :
        /\ Over(row[e].status) => row'[e] = row[e]
        /\ row'[e].retries >= row[e].retries

LEMMA RowsStay ==
    ASSUME TypeOK, UNCHANGED row
    PROVE  RowStep
BY DEF RowStep, TypeOK, Row

LEMMA RowMoves ==
    ASSUME TypeOK, NEW e \in Events, NEW r \in Row, SetRow(e, r),
           ~Over(row[e].status), r.retries >= row[e].retries
    PROVE  RowStep
<1>1. row'[e] = r /\ \A f \in Events : f # e => row'[f] = row[f] BY RowFacts DEF TypeOK
<1>2. \A f \in Events : row[f].retries \in Nat BY DEF TypeOK, Row
<1>3. \A f \in Events : row'[f].retries >= row[f].retries BY <1>1, <1>2
<1> QED BY <1>1, <1>3 DEF RowStep

\* A publisher's mark: the row is its own, and its count is at least what the
\* publisher read.
LEMMA MarkMoves ==
    ASSUME IInv, NEW w \in Workers, NEW e \in Events, Owns(w, e), job[w].pc # "idle",
           NEW s \in Statuses, NEW n \in Nat, NEW d \in BOOLEAN,
           n = row[e].retries \/ n = job[w].read[e] + 1,
           SetRow(e, Settled(s, n, d))
    PROVE  RowStep
<1>1. TypeOK /\ JobInv /\ row[e].retries \in Nat BY Parts DEF TypeOK, Row
<1>2. row[e].status = "pending" /\ job[w].read[e] = row[e].retries
 BY <1>1 DEF Owns, JobInv, JobsOK, ReadsCurrent
<1> DEFINE r == Settled(s, n, d)
<1>3. r \in Row /\ r.retries = n BY Constructors DEF Settled
<1> HIDE DEF r
<1>4. SetRow(e, r) BY DEF r
<1>5. n >= row[e].retries BY <1>1, <1>2
<1> QED BY <1>1, <1>2, <1>3, <1>4, <1>5, RowMoves DEF Over

LEMMA EveryRowStep ==
    ASSUME IInv, [Next]_vars
    PROVE  RowStep
<1>1. TypeOK /\ TableInv /\ JobInv BY Parts
<1>2. \A e \in Events : row[e] \in Row /\ row[e].retries \in Nat /\ row[e].due \in BOOLEAN
 BY <1>1 DEF TypeOK, Row
<1>3. ASSUME NEW w \in Workers, ClaimBatch(w)
      PROVE  RowStep
 <2>1. PICK t \in Tokens :
          row' = [e \in Events |-> IF e \in Taken
                                   THEN [row[e] EXCEPT !.owner = t, !.leased = TRUE]
                                   ELSE row[e]]
  BY <1>3 DEF ClaimBatch
 <2>2. \A e \in Taken : row[e].status = "pending" BY DEF Taken, Claimable
 <2>3. \A e \in Events : row'[e].retries = row[e].retries /\ (e \notin Taken => row'[e] = row[e])
  BY <1>2, <2>1 DEF Row
 <2> QED BY <1>2, <2>2, <2>3 DEF RowStep, Over
<1>4. ASSUME NEW w \in Workers, MarkValidationDead(w)
      PROVE  RowStep
 <2> DEFINE e == First(job[w].todo)
 <2>1. e \in Events /\ job[w].pc = "sort" /\ job[w].read[e] + 1 \in Nat
  BY <1>1, <1>4, InHand DEF MarkValidationDead, Job
 <2>2. \/ Owns(w, e) /\ SetRow(e, Settled("dead", job[w].read[e] + 1, row[e].due))
       \/ UNCHANGED row
  BY <1>4 DEF MarkValidationDead
 <2> HIDE DEF e
 <2> QED BY <1>1, <1>2, <2>1, <2>2, MarkMoves, RowsStay DEF Statuses
<1>5. ASSUME NEW w \in Workers, MarkNoConsumer(w)
      PROVE  RowStep
 <2> DEFINE e == First(job[w].todo)
 <2>1. e \in Events /\ job[w].pc = "sort" BY <1>1, <1>5, InHand DEF MarkNoConsumer, Job
 <2>2. \/ Owns(w, e) /\ SetRow(e, Settled("no_consumer", row[e].retries, row[e].due))
       \/ UNCHANGED row
  BY <1>5 DEF MarkNoConsumer
 <2> HIDE DEF e
 <2> QED BY <1>1, <1>2, <2>1, <2>2, MarkMoves, RowsStay DEF Statuses
<1>6. ASSUME NEW w \in Workers, MarkPublished(w)
      PROVE  RowStep
 <2> DEFINE e == First(job[w].send)
 <2>1. e \in Events /\ job[w].pc = "confirmed" BY <1>1, <1>6, InHand DEF MarkPublished, Job, JobInv, JobsOK
 <2>2. \/ Owns(w, e) /\ SetRow(e, Settled("published", row[e].retries, row[e].due))
       \/ UNCHANGED row
  BY <1>6 DEF MarkPublished
 <2> HIDE DEF e
 <2> QED BY <1>1, <1>2, <2>1, <2>2, MarkMoves, RowsStay DEF Statuses
<1>7. ASSUME NEW w \in Workers, MarkFailed(w)
      PROVE  RowStep
 <2> DEFINE e == First(job[w].send)
            n == job[w].read[e] + 1
            d == Spent(n)
            s == IF d THEN "dead" ELSE "pending"
 <2>1. e \in Events /\ job[w].pc = "failed" /\ n \in Nat
  BY <1>1, <1>7, InHand DEF MarkFailed, Job, JobInv, JobsOK
 <2>2. d \in BOOLEAN /\ s \in Statuses /\ n = job[w].read[e] + 1 BY DEF Spent, Statuses
 <2>3. \/ Owns(w, e) /\ SetRow(e, Settled(s, n, d))
       \/ UNCHANGED row
  BY <1>7 DEF MarkFailed
 <2> HIDE DEF e, n, d, s
 <2> QED BY <1>1, <2>1, <2>2, <2>3, MarkMoves, RowsStay
<1>8. ASSUME NEW e \in Events, row[e].status = "absent", SetRow(e, Fresh("pending"))
      PROVE  RowStep
 <2>1. PICK r : r = Fresh("pending") OBVIOUS
 <2>2. r \in Row /\ r.retries = 0 /\ SetRow(e, r) BY <1>8, <2>1, FreshFacts
 <2>3. row[e].retries = 0 BY <1>1, <1>8 DEF TableInv, RowsOK
 <2> QED BY <1>1, <1>8, <2>2, <2>3, RowMoves DEF Over
<1>9. ASSUME NEW e \in Events, row[e].leased, SetRow(e, [row[e] EXCEPT !.leased = FALSE])
      PROVE  RowStep
 <2> DEFINE r == [row[e] EXCEPT !.leased = FALSE]
 <2>1. r \in Row /\ r.retries = row[e].retries BY <1>2 DEF Row
 <2>2. row[e].status = "pending" BY <1>1, <1>9 DEF TableInv, RowsOK
 <2>3. SetRow(e, r) BY <1>9
 <2> HIDE DEF r
 <2> QED BY <1>1, <1>2, <2>1, <2>2, <2>3, RowMoves DEF Over
<1>10. ASSUME NEW e \in Events, RetryDue(e)
       PROVE  RowStep
 <2> DEFINE r == [row[e] EXCEPT !.due = TRUE]
 <2>1. r \in Row /\ r.retries = row[e].retries BY <1>2 DEF Row
 <2>2. row[e].status = "pending" /\ SetRow(e, r) BY <1>1, <1>10 DEF TableInv, RowsOK, RetryDue
 <2> HIDE DEF r
 <2> QED BY <1>1, <1>2, <2>1, <2>2, RowMoves DEF Over
<1>11. CASE UNCHANGED row
 BY <1>1, <1>11, RowsStay
<1>12. ASSUME NEW w \in Workers,
              Publisher(w) \/ Crash(w) \/ ChannelDies(w) \/ BrokerAnswers(w)
       PROVE  RowStep
 <2>1. \/ ClaimBatch(w) \/ MarkValidationDead(w) \/ MarkNoConsumer(w)
       \/ MarkPublished(w) \/ MarkFailed(w) \/ UNCHANGED row
  BY <1>12 DEF Publisher, Sort, Await, Mark, KeepRoutable, OpenChannel, PublishOne,
     ReadConfirmation, GiveUpWaiting, BatchDone, Crash, ChannelDies, BrokerAnswers
 <2> QED BY <2>1, <1>3, <1>4, <1>5, <1>6, <1>7, <1>11
<1>13. ASSUME NEW e \in Events,
              Emit(e) \/ AdriftEnds(e) \/ LeaseExpires(e) \/ LeaseOverrun(e) \/ RetryDue(e)
       PROVE  RowStep
 BY <1>8, <1>9, <1>10, <1>11, <1>13 DEF Emit, AdriftEnds, LeaseExpires, LeaseOverrun
<1>14. ASSUME NEW d \in Events, NEW e \in Events, Replay(d, e)
       PROVE  RowStep
 BY <1>8, <1>14 DEF Replay
<1> QED BY <1>11, <1>12, <1>13, <1>14 DEF Next, vars

\* No step of any publisher, however late, touches a row that was published,
\* dropped or given up.
THEOREM SettledForGoodAlways == Spec => SettledForGood
<1>1. ASSUME IInv, [Next]_vars
      PROVE  [\A e \in Events :
                row[e].status \in {"published", "no_consumer", "dead"} => row'[e] = row[e]]_vars
 BY <1>1, EveryRowStep DEF RowStep, Over
<1> QED BY <1>1, Invariance, PTL DEF Spec, SettledForGood

\* No step of any publisher, however late, lowers a retry count.
THEOREM RetriesNeverUndoneAlways == Spec => RetriesNeverUndone
<1>1. ASSUME IInv, [Next]_vars
      PROVE  [\A e \in Events : row'[e].retries >= row[e].retries]_vars
 BY <1>1, EveryRowStep DEF RowStep
<1> QED BY <1>1, Invariance, PTL DEF Spec, RetriesNeverUndone

----------------------------------------
\* When every confirm wait outlasts the broker's answer, the only answer a
\* publisher can read is the one to the event it has in hand.
OwnAnswer(c, j, held) ==
    /\ ~c.open => c.sent = << >>
    /\ c.open /\ j.pc # "await" => c.sent = << >> /\ c.confirms = << >>
    /\ j.pc = "await" =>
          \/ c.sent = <<First(j.send)>> /\ c.confirms = << >>
          \/ c.sent = << >> /\ c.confirms = << >>
          \/ c.sent = << >> /\ c.confirms = <<FALSE>>
          \/ c.sent = << >> /\ c.confirms = <<TRUE>> /\ First(j.send) \in held
    /\ j.pc = "confirmed" => First(j.send) \in held

OwnAnswers == \A w \in Workers : OwnAnswer(chan[w], job[w], accepted)

CInv == OwnAnswers /\ PublishedReachedBroker

LEMMA SingletonFacts ==
    /\ \A x : Head(<<x>>) = x /\ Tail(<<x>>) = << >> /\ Append(<< >>, x) = <<x>>
    /\ \A x : <<x>> # << >>
    /\ \A x : Len(<<x>>) = 1 /\ SubSeq(<<x>>, 1, 0) = << >> /\ SubSeq(<<x>>, 1, 1) = <<x>>
    /\ Len(<< >>) = 0 /\ SubSeq(<< >>, 1, 0) = << >>
<1>1. \A x : Head(<<x>>) = x /\ <<x>> # << >> /\ Len(<<x>>) = 1 OBVIOUS
<1>2. \A x : Tail(<<x>>) = << >> OBVIOUS
<1>3. \A x : Append(<< >>, x) = <<x>> OBVIOUS
<1>4. \A x : SubSeq(<<x>>, 1, 0) = << >> /\ SubSeq(<< >>, 1, 0) = << >> BY SubSeqEmpty
<1>5. ASSUME NEW x
      PROVE  SubSeq(<<x>>, 1, 1) = <<x>>
 <2>1. <<x>> \in Seq({x}) /\ Len(<<x>>) = 1 OBVIOUS
 <2> QED BY <2>1, SubSeqFull
<1> QED BY <1>1, <1>2, <1>3, <1>4, <1>5

LEMMA MoreHeld ==
    ASSUME NEW c, NEW j, NEW held, NEW more, held \subseteq more, OwnAnswer(c, j, held)
    PROVE  OwnAnswer(c, j, more)
BY DEF OwnAnswer

\* One publisher and its channel move; the broker forgets nothing.
LEMMA AnswersKept ==
    ASSUME OwnAnswers, NEW w \in Workers, accepted \subseteq accepted',
           \A v \in Workers : v # w => chan'[v] = chan[v] /\ job'[v] = job[v],
           OwnAnswer(chan'[w], job'[w], accepted')
    PROVE  OwnAnswers'
<1>1. ASSUME NEW v \in Workers, v # w
      PROVE  OwnAnswer(chan'[v], job'[v], accepted')
 BY <1>1, MoreHeld DEF OwnAnswers
<1> QED BY <1>1 DEF OwnAnswers

\* The setters leave the other publishers alone.
LEMMA OthersKept ==
    ASSUME TypeOK, NEW w \in Workers
    PROVE  /\ \A j : SetJob(w, j) => /\ job'[w] = j
                                     /\ \A v \in Workers : v # w => job'[v] = job[v]
           /\ \A c : SetChan(w, c) => /\ chan'[w] = c
                                      /\ \A v \in Workers : v # w => chan'[v] = chan[v]
BY DEF TypeOK, SetJob, SetChan

LEMMA CInvStep ==
    ASSUME ~LateConfirms, IInv, CInv, [Next]_vars
    PROVE  CInv'
<1>1. TypeOK /\ OwnAnswers /\ PublishedReachedBroker /\ JobsOK BY Parts DEF CInv, JobInv
<1>2. ASSUME NEW w \in Workers
      PROVE  job[w] \in Job /\ chan[w] \in Chan /\ OwnAnswer(chan[w], job[w], accepted)
 BY <1>1 DEF TypeOK, OwnAnswers
\* Rows other than those of MarkPublished do not become published.
<1>3. ASSUME UNCHANGED row, accepted \subseteq accepted'
      PROVE  PublishedReachedBroker'
 BY <1>1, <1>3 DEF PublishedReachedBroker
<1>4. ASSUME NEW e \in Events, NEW r \in Row, SetRow(e, r), accepted' = accepted,
             r.status = "published" => e \in accepted
      PROVE  PublishedReachedBroker'
 <2>1. row'[e] = r /\ \A f \in Events : f # e => row'[f] = row[f] BY <1>1, <1>4, RowFacts DEF TypeOK
 <2> QED BY <1>1, <1>4, <2>1 DEF PublishedReachedBroker
\* A job that is not waiting after the step, on an unchanged channel.
<1>5. ASSUME NEW w \in Workers, NEW j, SetJob(w, j), UNCHANGED <<chan, accepted>>,
             j.pc \notin {"await", "confirmed"}, job[w].pc # "await" \/ ~chan[w].open
      PROVE  OwnAnswers'
 <2>1. job'[w] = j /\ \A v \in Workers : v # w => job'[v] = job[v] BY <1>1, <1>5, OthersKept
 <2>2. OwnAnswer(chan'[w], job'[w], accepted') BY <1>2, <1>5, <2>1 DEF OwnAnswer
 <2> QED BY <1>1, <1>5, <2>1, <2>2, AnswersKept
<1>6. ASSUME UNCHANGED <<job, chan>>, accepted \subseteq accepted'
      PROVE  OwnAnswers'
 BY <1>1, <1>6, MoreHeld DEF OwnAnswers
<1>7. ASSUME NEW w \in Workers, ClaimBatch(w)
      PROVE  CInv'
 <2>1. PICK t \in Tokens :
          /\ row' = [e \in Events |-> IF e \in Taken
                                      THEN [row[e] EXCEPT !.owner = t, !.leased = TRUE]
                                      ELSE row[e]]
          /\ SetJob(w, [pc |-> "sort", token |-> t, todo |-> Taken, send |-> {},
                        read |-> [e \in Events |-> IF e \in Taken THEN row[e].retries ELSE 0]])
  BY <1>7 DEF ClaimBatch
 <2>2. job[w].pc = "idle" /\ UNCHANGED <<chan, accepted>> BY <1>7 DEF ClaimBatch
 <2>3. \A e \in Events : row'[e].status = row[e].status BY <1>1, <2>1 DEF TypeOK, Row
 <2>4. PublishedReachedBroker' BY <1>1, <2>2, <2>3 DEF PublishedReachedBroker
 <2> DEFINE j == [pc |-> "sort", token |-> t, todo |-> Taken, send |-> {},
                  read |-> [e \in Events |-> IF e \in Taken THEN row[e].retries ELSE 0]]
 <2>5. SetJob(w, j) /\ j.pc = "sort" BY <2>1
 <2> HIDE DEF j
 <2>6. OwnAnswers' BY <1>5, <2>2, <2>5
 <2> QED BY <2>4, <2>6 DEF CInv
<1>8. ASSUME NEW w \in Workers, MarkValidationDead(w) \/ MarkNoConsumer(w) \/ KeepRoutable(w)
      PROVE  CInv'
 <2> DEFINE e == First(job[w].todo)
 <2>1. job[w].pc = "sort" /\ job[w].todo # {} /\ UNCHANGED <<chan, accepted>>
  BY <1>8 DEF MarkValidationDead, MarkNoConsumer, KeepRoutable
 <2>2. e \in Events /\ job[w].read[e] + 1 \in Nat BY <1>1, <1>2, <2>1, InHand DEF Job
 <2>3. row[e].retries \in Nat /\ row[e].due \in BOOLEAN BY <1>1, <2>2 DEF TypeOK, Row
 <2>4. \/ SetRow(e, Settled("dead", job[w].read[e] + 1, row[e].due))
       \/ SetRow(e, Settled("no_consumer", row[e].retries, row[e].due))
       \/ UNCHANGED row
  BY <1>8 DEF MarkValidationDead, MarkNoConsumer, KeepRoutable
 <2>5. \/ SetJob(w, [job[w] EXCEPT !.todo = @ \ {e}])
       \/ SetJob(w, [job[w] EXCEPT !.todo = @ \ {e}, !.send = @ \cup {e}])
  BY <1>8 DEF MarkValidationDead, MarkNoConsumer, KeepRoutable
 <2> HIDE DEF e
 <2>6. PICK j : SetJob(w, j) /\ j.pc = "sort"
  <3>1. /\ [job[w] EXCEPT !.todo = @ \ {e}].pc = "sort"
        /\ [job[w] EXCEPT !.todo = @ \ {e}, !.send = @ \cup {e}].pc = "sort"
   BY <1>2, <2>1 DEF Job
  <3> QED BY <2>5, <3>1
 <2>7. OwnAnswers' BY <1>5, <2>1, <2>6
 <2>8. UNCHANGED row \/ \E r \in Row : SetRow(e, r) /\ r.status # "published"
  <3>1. LET r == Settled("dead", job[w].read[e] + 1, row[e].due)
            q == Settled("no_consumer", row[e].retries, row[e].due)
        IN  r \in Row /\ r.status = "dead" /\ q \in Row /\ q.status = "no_consumer"
   BY <2>2, <2>3, Constructors DEF Settled, Statuses
  <3> QED BY <2>4, <3>1
 <2>9. PublishedReachedBroker' BY <1>3, <1>4, <2>1, <2>2, <2>8
 <2> QED BY <2>7, <2>9 DEF CInv
<1>9. ASSUME NEW w \in Workers, OpenChannel(w)
      PROVE  CInv'
 <2> DEFINE j == [job[w] EXCEPT !.pc = "send"]
 <2>1. job[w].pc = "sort" /\ UNCHANGED <<row, accepted>> BY <1>9 DEF OpenChannel
 <2>2. \/ SetJob(w, j) /\ SetChan(w, NewChan)
       \/ SetJob(w, Idle) /\ UNCHANGED chan
  BY <1>9 DEF OpenChannel
 <2>3. j.pc = "send" BY <1>2 DEF Job
 <2> HIDE DEF j
 <2>4. CASE SetJob(w, j) /\ SetChan(w, NewChan)
  <3>1. /\ job'[w] = j /\ chan'[w] = NewChan
        /\ \A v \in Workers : v # w => chan'[v] = chan[v] /\ job'[v] = job[v]
   BY <1>1, <2>4, OthersKept
  <3>2. OwnAnswer(chan'[w], job'[w], accepted') BY <2>3, <3>1 DEF OwnAnswer, NewChan
  <3> QED BY <1>1, <1>3, <2>1, <3>1, <3>2, AnswersKept DEF CInv
 <2>5. CASE SetJob(w, Idle) /\ UNCHANGED chan
  BY <1>3, <1>5, <2>1, <2>5, IdleFacts DEF CInv
 <2> QED BY <2>2, <2>4, <2>5
<1>10. ASSUME NEW w \in Workers, PublishOne(w)
       PROVE  CInv'
 <2> DEFINE e == First(job[w].send)
            j == [job[w] EXCEPT !.pc = "await"]
            k == [job[w] EXCEPT !.pc = "failed"]
            c == [chan[w] EXCEPT !.sent = Append(@, e)]
 <2>1. job[w].pc = "send" /\ UNCHANGED <<row, accepted>> BY <1>10 DEF PublishOne
 <2>2. \/ chan[w].open /\ SetChan(w, c) /\ SetJob(w, j)
       \/ ~chan[w].open /\ UNCHANGED chan /\ SetJob(w, k)
  BY <1>10 DEF PublishOne
 <2>3. j.pc = "await" /\ j.send = job[w].send /\ k.pc = "failed" BY <1>2 DEF Job
 <2>4. CASE chan[w].open /\ SetChan(w, c) /\ SetJob(w, j)
  <3>1. chan[w].sent = << >> /\ chan[w].confirms = << >> BY <1>2, <2>1, <2>4 DEF OwnAnswer
  <3>2. c.sent = <<e>> /\ c.confirms = << >> /\ c.open BY <1>2, <2>4, <3>1, SingletonFacts DEF Chan
  <3>3. /\ job'[w] = j /\ chan'[w] = c
        /\ \A v \in Workers : v # w => chan'[v] = chan[v] /\ job'[v] = job[v]
   BY <1>1, <2>4, OthersKept
  <3>4. First(j.send) = e BY <2>3
  <3> HIDE DEF j, k, c, e
  <3>5. OwnAnswer(chan'[w], job'[w], accepted') BY <2>3, <3>2, <3>3, <3>4 DEF OwnAnswer
  <3> QED BY <1>1, <1>3, <2>1, <3>3, <3>5, AnswersKept DEF CInv
 <2>5. CASE ~chan[w].open /\ UNCHANGED chan /\ SetJob(w, k)
  <3> HIDE DEF j, k, c, e
  <3> QED BY <1>3, <1>5, <2>1, <2>3, <2>5 DEF CInv
 <2> QED BY <2>2, <2>4, <2>5
<1>11. ASSUME NEW w \in Workers, ReadConfirmation(w)
       PROVE  CInv'
 <2> DEFINE j == [job[w] EXCEPT !.pc = IF Head(chan[w].confirms) THEN "confirmed" ELSE "failed"]
            c == [chan[w] EXCEPT !.confirms = Tail(@)]
 <2>1. /\ job[w].pc = "await" /\ chan[w].confirms # << >> /\ UNCHANGED <<row, accepted>>
       /\ SetJob(w, j) /\ SetChan(w, c)
  BY <1>11 DEF ReadConfirmation
 <2>2. \/ chan[w].sent = << >> /\ chan[w].confirms = <<FALSE>>
       \/ chan[w].sent = << >> /\ chan[w].confirms = <<TRUE>> /\ First(job[w].send) \in accepted
  BY <1>2, <2>1 DEF OwnAnswer
 <2>3. c.sent = << >> /\ c.confirms = << >> /\ c.open = chan[w].open
  <3>1. Tail(chan[w].confirms) = << >> BY <2>2, SingletonFacts
  <3> QED BY <1>2, <2>2, <3>1 DEF Chan
 <2>4. /\ j.send = job[w].send
       /\ j.pc = "failed" \/ (j.pc = "confirmed" /\ First(job[w].send) \in accepted)
  <3>1. CASE chan[w].confirms = <<FALSE>>
   <4>1. Head(chan[w].confirms) = FALSE BY <3>1, SingletonFacts
   <4> QED BY <1>2, <4>1 DEF Job
  <3>2. CASE chan[w].confirms = <<TRUE>> /\ First(job[w].send) \in accepted
   <4>1. Head(chan[w].confirms) = TRUE BY <3>2, SingletonFacts
   <4> QED BY <1>2, <3>2, <4>1 DEF Job
  <3> QED BY <2>2, <3>1, <3>2
 <2> HIDE DEF j, c
 <2>5. /\ job'[w] = j /\ chan'[w] = c
       /\ \A v \in Workers : v # w => chan'[v] = chan[v] /\ job'[v] = job[v]
  BY <1>1, <2>1, OthersKept
 <2>6. OwnAnswer(chan'[w], job'[w], accepted') BY <2>1, <2>3, <2>4, <2>5 DEF OwnAnswer
 <2> QED BY <1>1, <1>3, <2>1, <2>5, <2>6, AnswersKept DEF CInv
<1>12. ASSUME NEW w \in Workers, GiveUpWaiting(w)
       PROVE  CInv'
 <2> DEFINE j == [job[w] EXCEPT !.pc = "failed"]
 <2>1. ~chan[w].open /\ SetJob(w, j) /\ UNCHANGED <<row, chan, accepted>> BY <1>12 DEF GiveUpWaiting
 <2>2. j.pc = "failed" BY <1>2 DEF Job
 <2> HIDE DEF j
 <2> QED BY <1>3, <1>5, <2>1, <2>2 DEF CInv
<1>13. ASSUME NEW w \in Workers, MarkPublished(w) \/ MarkFailed(w)
       PROVE  CInv'
 <2> DEFINE e == First(job[w].send)
            n == job[w].read[e] + 1
            d == Spent(n)
            s == IF d THEN "dead" ELSE "pending"
            j == [job[w] EXCEPT !.pc = "send", !.send = @ \ {First(@)}]
 <2>1. job[w].pc \in {"confirmed", "failed"} /\ SetJob(w, j) /\ UNCHANGED <<chan, accepted>>
  BY <1>13 DEF MarkPublished, MarkFailed, NextEvent
 <2>2. e \in Events /\ n \in Nat BY <1>1, <1>2, <2>1, InHand DEF Job, JobsOK
 <2>3. row[e].retries \in Nat /\ row[e].due \in BOOLEAN BY <1>1, <2>2 DEF TypeOK, Row
 <2>4. d \in BOOLEAN /\ s \in {"dead", "pending"} /\ j.pc = "send" BY <1>2 DEF Spent, Job
 <2>5. \/ /\ job[w].pc = "confirmed" /\ SetRow(e, Settled("published", row[e].retries, row[e].due))
       \/ SetRow(e, Settled(s, n, d))
       \/ UNCHANGED row
  BY <1>13 DEF MarkPublished, MarkFailed
 <2>6. job[w].pc = "confirmed" => e \in accepted BY <1>2 DEF OwnAnswer
 <2> HIDE DEF e, n, d, s, j
 <2>7. OwnAnswers' BY <1>5, <2>1, <2>4
 <2>8. \/ UNCHANGED row
       \/ \E r \in Row : SetRow(e, r) /\ (r.status = "published" => e \in accepted)
  <3>1. LET q == Settled("published", row[e].retries, row[e].due)
            r == Settled(s, n, d)
        IN  q \in Row /\ q.status = "published" /\ r \in Row /\ r.status = s
   BY <2>2, <2>3, <2>4, Constructors DEF Settled, Statuses
  <3> QED BY <2>4, <2>5, <2>6, <3>1
 <2>9. PublishedReachedBroker' BY <1>3, <1>4, <2>1, <2>2, <2>8
 <2> QED BY <2>7, <2>9 DEF CInv
<1>14. ASSUME NEW w \in Workers, BatchDone(w) \/ Crash(w)
       PROVE  CInv'
 <2>1. SetJob(w, Idle) /\ SetChan(w, NoChan) /\ UNCHANGED <<row, accepted>>
  BY <1>14 DEF BatchDone, Crash, Abandon
 <2>2. /\ job'[w] = Idle /\ chan'[w] = NoChan
       /\ \A v \in Workers : v # w => chan'[v] = chan[v] /\ job'[v] = job[v]
  BY <1>1, <2>1, OthersKept
 <2>3. OwnAnswer(chan'[w], job'[w], accepted') BY <2>2, IdleFacts DEF OwnAnswer, NoChan
 <2> QED BY <1>1, <1>3, <2>1, <2>2, <2>3, AnswersKept DEF CInv
<1>15. ASSUME NEW w \in Workers, ChannelDies(w)
       PROVE  CInv'
 <2>1. PICK n \in 0..Len(chan[w].confirms) :
          SetChan(w, [open |-> FALSE, sent |-> << >>,
                      confirms |-> SubSeq(chan[w].confirms, 1, n)])
  BY <1>15 DEF ChannelDies
 <2>2. chan[w].open /\ UNCHANGED <<row, job, accepted>> BY <1>15 DEF ChannelDies
 <2> DEFINE c == [open |-> FALSE, sent |-> << >>, confirms |-> SubSeq(chan[w].confirms, 1, n)]
 <2>3. c.open = FALSE /\ c.sent = << >> /\ c.confirms = SubSeq(chan[w].confirms, 1, n) /\ SetChan(w, c)
  BY <2>1
 <2> HIDE DEF c
 <2>4. chan'[w] = c /\ \A v \in Workers : v # w => chan'[v] = chan[v] BY <1>1, <2>3, OthersKept
 <2>5. ASSUME job[w].pc = "await"
       PROVE  \/ c.confirms = << >>
              \/ c.confirms = <<FALSE>>
              \/ c.confirms = <<TRUE>> /\ First(job[w].send) \in accepted
  <3>1. \/ chan[w].confirms = << >>
        \/ chan[w].confirms = <<FALSE>>
        \/ chan[w].confirms = <<TRUE>> /\ First(job[w].send) \in accepted
   BY <1>2, <2>5 DEF OwnAnswer
  <3>2. CASE chan[w].confirms = << >>
   <4>1. n = 0 BY <2>1, <3>2, SingletonFacts
   <4> QED BY <2>3, <3>2, <4>1, SingletonFacts
  <3>3. ASSUME NEW b, chan[w].confirms = <<b>>
        PROVE  c.confirms = << >> \/ c.confirms = <<b>>
   <4>1. n = 0 \/ n = 1 BY <2>1, <3>3, SingletonFacts
   <4> QED BY <2>3, <3>3, <4>1, SingletonFacts
  <3> QED BY <3>1, <3>2, <3>3
 <2>6. OwnAnswer(chan'[w], job'[w], accepted') BY <1>2, <2>2, <2>3, <2>4, <2>5 DEF OwnAnswer
 <2> QED BY <1>1, <1>3, <2>2, <2>4, <2>6, AnswersKept DEF CInv
<1>16. ASSUME NEW w \in Workers, BrokerAnswers(w)
       PROVE  CInv'
 <2>1. PICK ack \in BOOLEAN :
          /\ accepted' = IF ack THEN accepted \cup {Head(chan[w].sent)} ELSE accepted
          /\ SetChan(w, [chan[w] EXCEPT !.sent = Tail(@), !.confirms = Append(@, ack)])
  BY <1>16 DEF BrokerAnswers
 <2>2. chan[w].sent # << >> /\ UNCHANGED <<row, job>> BY <1>16 DEF BrokerAnswers
 <2>3. job[w].pc = "await" /\ chan[w].open /\ chan[w].sent = <<First(job[w].send)>>
       /\ chan[w].confirms = << >>
  BY <1>2, <2>2 DEF OwnAnswer
 <2> DEFINE c == [chan[w] EXCEPT !.sent = Tail(@), !.confirms = Append(@, ack)]
 <2>4. c.open = chan[w].open /\ c.sent = << >> /\ c.confirms = <<ack>> /\ SetChan(w, c)
  <3>1. Tail(chan[w].sent) = << >> /\ Append(chan[w].confirms, ack) = <<ack>> BY <2>3, SingletonFacts
  <3> QED BY <1>2, <2>1, <3>1 DEF Chan
 <2>5. accepted \subseteq accepted' /\ (ack => First(job[w].send) \in accepted')
  BY <2>1, <2>3, SingletonFacts
 <2> HIDE DEF c
 <2>6. chan'[w] = c /\ \A v \in Workers : v # w => chan'[v] = chan[v] BY <1>1, <2>4, OthersKept
 <2>7. OwnAnswer(chan'[w], job'[w], accepted')
  <3>1. CASE ack = TRUE
   BY <2>2, <2>3, <2>4, <2>5, <2>6, <3>1 DEF OwnAnswer
  <3>2. CASE ack = FALSE
   BY <2>2, <2>3, <2>4, <2>6, <3>2 DEF OwnAnswer
  <3> QED BY <3>1, <3>2
 <2> QED BY <1>1, <1>3, <2>2, <2>5, <2>6, <2>7, AnswersKept DEF CInv
<1>17. ASSUME NEW e \in Events, AdriftEnds(e)
       PROVE  CInv'
 BY <1>3, <1>6, <1>17 DEF AdriftEnds, CInv
<1>18. ASSUME NEW e \in Events, NEW r \in Row, SetRow(e, r), UNCHANGED <<job, chan, accepted>>,
              r.status = "published" => row[e].status = "published"
       PROVE  CInv'
 BY <1>1, <1>4, <1>6, <1>18 DEF CInv, PublishedReachedBroker
<1>19. ASSUME NEW e \in Events, SetRow(e, Fresh("pending")), UNCHANGED <<job, chan, accepted>>
       PROVE  CInv'
 <2>1. PICK r : r = Fresh("pending") OBVIOUS
 <2>2. r \in Row /\ r.status = "pending" /\ SetRow(e, r) BY <1>19, <2>1, FreshFacts
 <2> QED BY <1>18, <1>19, <2>2
<1>20. ASSUME NEW e \in Events, LeaseExpires(e) \/ LeaseOverrun(e) \/ RetryDue(e)
       PROVE  CInv'
 <2> DEFINE q == [row[e] EXCEPT !.leased = FALSE]
            r == [row[e] EXCEPT !.due = TRUE]
 <2>1. row[e] \in Row BY <1>1 DEF TypeOK
 <2>2. q \in Row /\ q.status = row[e].status /\ r \in Row /\ r.status = row[e].status BY <2>1 DEF Row
 <2>3. (SetRow(e, q) \/ SetRow(e, r)) /\ UNCHANGED <<job, chan, accepted>>
  BY <1>20 DEF LeaseExpires, LeaseOverrun, RetryDue
 <2> HIDE DEF q, r
 <2> QED BY <1>18, <2>2, <2>3
<1>21. CASE UNCHANGED vars
 BY <1>3, <1>6, <1>21 DEF vars, CInv
<1>22. ASSUME NEW w \in Workers, Publisher(w)
       PROVE  CInv'
 BY <1>7, <1>8, <1>9, <1>10, <1>11, <1>12, <1>13, <1>14, <1>22
    DEF Publisher, Sort, Await, Mark
<1>23. ASSUME NEW e \in Events, Emit(e)
       PROVE  CInv'
 BY <1>19, <1>23 DEF Emit
<1>24. ASSUME NEW d \in Events, NEW e \in Events, Replay(d, e)
       PROVE  CInv'
 BY <1>19, <1>24 DEF Replay
<1> QED BY <1>14, <1>15, <1>16, <1>17, <1>20, <1>21, <1>22, <1>23, <1>24 DEF Next

\* As long as the broker answers within the confirm wait, no event is ever
\* marked published that the broker did not take, whatever crashes, lost
\* connections, nacks and expired leases come between.
THEOREM PublishedReachedBrokerAlways ==
    ASSUME ~LateConfirms
    PROVE  Spec => []PublishedReachedBroker
<1>1. Init => CInv
 <2> SUFFICES ASSUME Init PROVE CInv
  OBVIOUS
 <2>1. \A w \in Workers : chan[w] = NoChan /\ job[w] = Idle BY DEF Init
 <2>2. OwnAnswers
  <3>1. NoChan.open = FALSE /\ NoChan.sent = << >> BY DEF NoChan
  <3>2. OwnAnswer(NoChan, Idle, accepted) BY <3>1, IdleFacts DEF OwnAnswer
  <3> QED BY <2>1, <3>2 DEF OwnAnswers
 <2>3. \A e \in Events : row[e].status = "absent" BY DEF Init, Fresh
 <2> QED BY <2>2, <2>3 DEF CInv, PublishedReachedBroker
<1>2. IInv /\ CInv /\ [Next]_vars => CInv' BY CInvStep
<1>3. CInv => PublishedReachedBroker BY DEF CInv
<1> QED BY <1>1, <1>2, <1>3, Invariance, PTL DEF Spec

----------------------------------------
ReplayOf(d, e) == <<d, e>> \in replays

\* A letter is replayed exactly when it has a replay, and it has only one.
OneReplay ==
    /\ letter \in [Events -> {"none", "open", "replayed"}]
    /\ \A d, e \in Events : ReplayOf(d, e) => letter[d] = "replayed"
    /\ \A d \in Events : letter[d] = "replayed" => \E e \in Events : ReplayOf(d, e)
    /\ \A d, e, f \in Events : ReplayOf(d, e) /\ ReplayOf(d, f) => e = f

\* Only a replay touches a letter that is there.
LEMMA LettersStep ==
    ASSUME OneReplay, UNCHANGED replays,
           letter' = letter \/ \E e \in Events : CreateDeadLetter(e)
    PROVE  OneReplay'
<1>1. CASE letter' = letter
 BY <1>1 DEF OneReplay, ReplayOf
<1>2. CASE \E e \in Events : CreateDeadLetter(e)
 <2>1. PICK e \in Events : CreateDeadLetter(e) BY <1>2
 <2>2. /\ letter' \in [Events -> {"none", "open", "replayed"}]
       /\ \A d \in Events : letter'[d] = "replayed" <=> letter[d] = "replayed"
  BY <2>1 DEF CreateDeadLetter, OneReplay
 <2>3. \A d, f \in Events : ReplayOf(d, f)' = ReplayOf(d, f) BY DEF ReplayOf
 <2> QED BY <2>2, <2>3 DEF OneReplay
<1> QED BY <1>1, <1>2

LEMMA ReplayOnceStep ==
    ASSUME OneReplay, NEW d \in Events, NEW e \in Events, Replay(d, e)
    PROVE  OneReplay'
<1>1. letter[d] = "open" /\ letter' = [letter EXCEPT ![d] = "replayed"] /\ replays' = replays \cup {<<d, e>>}
 BY DEF Replay, Replayable
<1>2. \A f \in Events : ~ReplayOf(d, f) BY <1>1 DEF OneReplay
<1>3. /\ letter' \in [Events -> {"none", "open", "replayed"}]
      /\ \A f \in Events : letter'[f] = IF f = d THEN "replayed" ELSE letter[f]
 BY <1>1 DEF OneReplay
<1>4. \A f, g \in Events : ReplayOf(f, g)' <=> ReplayOf(f, g) \/ (f = d /\ g = e) BY <1>1 DEF ReplayOf
<1> QED BY <1>2, <1>3, <1>4 DEF OneReplay

\* A dead letter is replayed at most once, and only a replayed one has a replay event, however
\* many administrators press replay and whoever gives events up meanwhile.
THEOREM ReplayedOnceAlways == Spec => []ReplayedOnce
<1>1. Init => OneReplay BY DEF Init, OneReplay, ReplayOf
<1>2. IInv /\ OneReplay /\ [Next]_vars => OneReplay'
 <2> SUFFICES ASSUME IInv, OneReplay, [Next]_vars PROVE OneReplay'
  OBVIOUS
 <2>1. ASSUME NEW w \in Workers, Publisher(w)
       PROVE  UNCHANGED replays /\ (letter' = letter \/ \E e \in Events : CreateDeadLetter(e))
  <3>1. CASE MarkValidationDead(w)
   <4>1. First(job[w].todo) \in Events BY <3>1, Parts, InHand DEF MarkValidationDead, Job
   <4> QED BY <3>1, <4>1 DEF MarkValidationDead
  <3>2. CASE MarkFailed(w)
   <4>1. First(job[w].send) \in Events BY <3>2, Parts, InHand DEF MarkFailed, Job, JobInv, JobsOK
   <4> QED BY <3>2, <4>1 DEF MarkFailed
  <3>3. CASE ClaimBatch(w) \/ MarkNoConsumer(w) \/ KeepRoutable(w) \/ OpenChannel(w) \/ PublishOne(w)
   BY <3>3 DEF ClaimBatch, MarkNoConsumer, KeepRoutable, OpenChannel, PublishOne
  <3>4. CASE ReadConfirmation(w) \/ GiveUpWaiting(w) \/ MarkPublished(w) \/ BatchDone(w)
   BY <3>4 DEF ReadConfirmation, GiveUpWaiting, MarkPublished, BatchDone
  <3> QED BY <2>1, <3>1, <3>2, <3>3, <3>4 DEF Publisher, Sort, Await, Mark
 <2>2. ASSUME NEW w \in Workers, Crash(w) \/ ChannelDies(w) \/ BrokerAnswers(w)
       PROVE  UNCHANGED <<replays, letter>>
  BY <2>2 DEF Crash, ChannelDies, BrokerAnswers
 <2>3. ASSUME NEW e \in Events, Emit(e) \/ AdriftEnds(e) \/ LeaseExpires(e) \/ LeaseOverrun(e) \/ RetryDue(e)
       PROVE  UNCHANGED <<replays, letter>>
  BY <2>3 DEF Emit, AdriftEnds, LeaseExpires, LeaseOverrun, RetryDue
 <2>4. CASE UNCHANGED vars
  BY <2>4, LettersStep DEF vars
 <2> QED BY <2>1, <2>2, <2>3, <2>4, LettersStep, ReplayOnceStep DEF Next
<1>3. OneReplay => ReplayedOnce
 <2> SUFFICES ASSUME OneReplay, NEW d \in Events
              PROVE  Cardinality({e \in Events : ReplayOf(d, e)}) = IF letter[d] = "replayed" THEN 1 ELSE 0
  BY DEF ReplayedOnce, ReplayOf
 <2>1. CASE letter[d] = "replayed"
  <3>1. PICK e \in Events : ReplayOf(d, e) BY <2>1 DEF OneReplay
  <3>2. {f \in Events : ReplayOf(d, f)} = {e} BY <3>1 DEF OneReplay
  <3> QED BY <2>1, <3>2, FS_Singleton
 <2>2. CASE letter[d] # "replayed"
  <3>1. {f \in Events : ReplayOf(d, f)} = {} BY <2>2 DEF OneReplay
  <3> QED BY <2>2, <3>1, FS_EmptySet
 <2> QED BY <2>1, <2>2
<1> QED BY <1>1, <1>2, <1>3, Invariance, PTL DEF Spec
=============================================================================
